---------------------------- MODULE NodesLoading ----------------------------
(***************************************************************************)
(* Loading and decrypting nodes in the JS SDK (js/sdk/src/internal/nodes): *)
(* NodesAccess.loadNode, loadNodesWithMissingReport, decryptNode and       *)
(* getParentKeys, and the NodesDebouncer by which one load waits for       *)
(* another.  A node can be decrypted with the keys of its parent, which    *)
(* may have to be loaded first; here a parent and its children.            *)
(*                                                                         *)
(* A batch pulls the nodes of the API's answer one by one and decrypts at  *)
(* most Window of them together; a single call of getNode goes on beside   *)
(* it.                                                                     *)
(***************************************************************************)
EXTENDS Naturals, Sequences, FiniteSets, SequencesExt

CONSTANTS
    ParentNode,     \* the parent, a child of the share's root
    ChildNodes,     \* its children
    Batches,        \* sets of nodes asked for together
    Window          \* DECRYPTION_CONCURRENCY

Family == ChildNodes \cup {ParentNode}
Single == "single"                  \* the call of getNode

ASSUME NodesLoadingConstants ==
    /\ ParentNode \notin ChildNodes /\ IsFiniteSet(ChildNodes) /\ Window \in Nat \ {0}
    /\ Batches \subseteq SUBSET Family
    /\ Single \notin Family

Jobs == Family \cup {Single}        \* one job per node of the batch, and the call

VARIABLES
    asked,       \* the nodes the batch asks for
    existing,    \* the nodes the API has
    keyed,       \* the parent's key can be decrypted
    target,      \* the node getNode was called with
    answer,      \* what the batch has still to pull from the API
    loading,     \* NodesDebouncer.promises
    nodeCache,   \* nodes in the cache
    keyCache,    \* nodes whose keys are in the crypto cache
    job,         \* [Jobs -> step]
    batchEnd,    \* "running", or how the batch ended: "ok" or "thrown"
    removed      \* nodes the batch removed from the cache and reported missing

loadingVars == <<asked, existing, keyed, target, answer, loading, nodeCache, keyCache,
                 job, batchEnd, removed>>
Inputs == <<asked, existing, keyed, target>>

NodeOf(j) == IF j = Single THEN target ELSE j
Ended == {"idle", "done", "degraded", "failed"}

\* iterateNodesPerVolume yields the nodes as the API sends them.
InAnyOrder(S) == {s \in [1 .. Cardinality(S) -> S] : ToSet(s) = S}

LoadingInit ==
    /\ asked \in Batches
    /\ existing \in {Family, Family \ {CHOOSE n \in ChildNodes : TRUE}, ChildNodes}
    /\ keyed \in BOOLEAN
    /\ target \in Family
    /\ answer \in InAnyOrder(asked \cap existing)
    /\ loading = {} /\ nodeCache = {} /\ keyCache = {}
    /\ job = [j \in Jobs |-> IF j = Single THEN "wait" ELSE "idle"]
    /\ batchEnd = "running" /\ removed = {}

Step(j, s) == job' = [job EXCEPT ![j] = s]

(***************************************************************************)
(* NodesDebouncer                                                          *)
(***************************************************************************)
LoadingNode(S) == loading' = loading \cup S
FinishedLoadingNode(n) == loading' = loading \ {n}

\* Mutant: there is no timeout.
DebounceTimeoutNever == FALSE /\ UNCHANGED loadingVars

\* After DEBOUNCE_TIMEOUT the node counts as loaded.
DebounceTimeout ==
    /\ \E n \in loading : FinishedLoadingNode(n)
    /\ UNCHANGED <<Inputs, answer, nodeCache, keyCache, job, batchEnd, removed>>

(***************************************************************************)
(* The batch: asyncIteratorMap pulls a node when fewer than Window are     *)
(* being decrypted; the mapper that marks it as loading runs one ahead.    *)
(***************************************************************************)
Decrypting == {n \in Family : job[n] \notin Ended}

PullNode ==
    /\ batchEnd = "running" /\ answer # <<>>
    /\ Cardinality(Decrypting) < Window
    /\ Step(Head(answer), "keys")
    /\ LoadingNode({answer[i] : i \in 1 .. IF Len(answer) > 1 THEN 2 ELSE 1})
    /\ answer' = Tail(answer)
    /\ UNCHANGED <<Inputs, nodeCache, keyCache, batchEnd, removed>>

\* Errors of single nodes are thrown at the end; otherwise the nodes that did not
\* come are removed from the cache and reported as missing.
BatchEnds ==
    /\ batchEnd = "running" /\ answer = <<>> /\ Decrypting = {}
    /\ IF \E n \in Family : job[n] = "failed"
         THEN batchEnd' = "thrown" /\ UNCHANGED <<removed, nodeCache>>
         ELSE LET missing == asked \ {n \in Family : job[n] \in {"done", "degraded"}} IN
              /\ batchEnd' = "ok"
              /\ removed' = missing
              /\ nodeCache' = nodeCache \ missing
    /\ UNCHANGED <<Inputs, answer, loading, keyCache, job>>

(***************************************************************************)
(* getNode: wait for a load in progress, look in the cache, else loadNode. *)
(***************************************************************************)
GetNode ==
    /\ job[Single] = "wait" /\ target \notin loading
    /\ IF target \in nodeCache
         THEN Step(Single, "done") /\ UNCHANGED loading
         ELSE Step(Single, "fetch") /\ LoadingNode({target})
    /\ UNCHANGED <<Inputs, answer, nodeCache, keyCache, batchEnd, removed>>

\* loadNode returns the promise of decryptNode without awaiting it, so that its
\* finally reports the node as loaded when it has only been fetched.
LoadNodeFetched ==
    /\ job[Single] = "fetch"
    /\ FinishedLoadingNode(target)
    /\ IF target \in existing
         THEN Step(Single, "keys")
         ELSE Step(Single, "failed")
    /\ UNCHANGED <<Inputs, answer, nodeCache, keyCache, batchEnd, removed>>

(***************************************************************************)
(* decryptNode, getParentKeys and getNodeKeys.                             *)
(***************************************************************************)
\* The parent of the parent is the share, whose key is there.  Otherwise the parent
\* is waited for if it is being loaded, and loaded unless its keys are cached then.
GetParentKeys(j) ==
    /\ job[j] = "keys"
    /\ \/ NodeOf(j) = ParentNode /\ Step(j, "decrypt") /\ UNCHANGED loading
       \/ /\ NodeOf(j) # ParentNode /\ ParentNode \notin loading
          /\ IF ParentNode \in keyCache
               THEN Step(j, "decrypt") /\ UNCHANGED loading
               ELSE Step(j, "fetchParent") /\ LoadingNode({ParentNode})
    /\ UNCHANGED <<Inputs, answer, nodeCache, keyCache, batchEnd, removed>>

LoadParentFetched(j) ==
    /\ job[j] = "fetchParent"
    /\ FinishedLoadingNode(ParentNode)
    /\ IF ParentNode \in existing
         THEN Step(j, "decryptParent")
         ELSE Step(j, "failed")
    /\ UNCHANGED <<Inputs, answer, nodeCache, keyCache, batchEnd, removed>>

\* The node is stored, with its keys if they could be decrypted, and reported as loaded.
StoreNode(n) ==
    /\ nodeCache' = nodeCache \cup {n}
    /\ keyCache' = IF n = ParentNode /\ ~keyed THEN keyCache ELSE keyCache \cup {n}
    /\ FinishedLoadingNode(n)

\* Without keys of the parent the node is returned undecrypted: neither stored nor
\* reported as loaded.
DecryptParent(j) ==
    /\ job[j] = "decryptParent"
    /\ StoreNode(ParentNode)
    /\ Step(j, IF keyed THEN "decrypt" ELSE "degraded")
    /\ UNCHANGED <<Inputs, answer, batchEnd, removed>>

DecryptLoaded(j) ==
    /\ job[j] = "decrypt"
    /\ StoreNode(NodeOf(j))
    /\ Step(j, "done")
    /\ UNCHANGED <<Inputs, answer, batchEnd, removed>>

LoadingStep ==
    \/ DebounceTimeout \/ PullNode \/ BatchEnds \/ GetNode \/ LoadNodeFetched
    \/ \E j \in Jobs : GetParentKeys(j) \/ LoadParentFetched(j) \/ DecryptParent(j) \/ DecryptLoaded(j)

LoadingSpec == LoadingInit /\ [][LoadingStep]_loadingVars

-----------------------------------------------------------------------------
(* Properties.                                                             *)

LoadingTypeOK ==
    /\ loading \subseteq Family /\ nodeCache \subseteq Family /\ keyCache \subseteq nodeCache
    /\ job \in [Jobs -> Ended \cup {"wait", "fetch", "keys", "fetchParent", "decryptParent", "decrypt"}]
    /\ batchEnd \in {"running", "ok", "thrown"} /\ removed \subseteq Family

\* Nothing that exists is reported as missing, also when nodes could not be loaded.
OnlyMissingIsRemoved == removed \cap existing = {}

LoadsEnded == batchEnd # "running" /\ job[Single] \in Ended
=============================================================================
