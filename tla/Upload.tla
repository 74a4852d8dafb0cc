------------------------------- MODULE Upload -------------------------------
(***************************************************************************)
(* Uploading a file: the Transfer the user sees (transfer.rs), its task    *)
(* do_upload, and the block-upload protocol run_upload (upload.rs) against *)
(* the drive server.                                                       *)
(*                                                                         *)
(* A local file has a version; a unit of its content is <<version,         *)
(* position>>, and blocks are sequences of units.  Other programs change   *)
(* the file while it is read.  The remote name of an upload is its local   *)
(* file's name, so uploads of one name read one file.                      *)
(*                                                                         *)
(* The server (external) keeps a draft or an active revision per name.  It *)
(* leases one link per requested block in any order, possibly too few,     *)
(* stores what is put to a link, and commits whatever it has.  Any answer  *)
(* can be lost after the server acted; send_with_retry then sends the same *)
(* request again, up to MaxAttempts times.                                 *)
(***************************************************************************)
EXTENDS Naturals, Sequences, FiniteSets

CONSTANTS
    Uploads,      \* transfers the user starts, one spawn_upload each
    Names,        \* file names
    NameOf,       \* the name of an upload's file
    Versions,     \* contents a local file can have
    Length,       \* the length of a version, in units
    BlockSize,    \* BLOCK_SIZE, in units
    MaxFileSize,  \* MAX_FILE_SIZE, in units
    MaxAttempts,  \* ReqwestHttpClient::max_attempts
    MaxEdits,     \* bound: changes of local files by other programs
    None

\* How do_upload can end.
Results == {"ok", "invalid", "cancel", "taken", "empty", "size", "links", "error"}

ASSUME UploadConstants ==
    /\ NameOf \in [Uploads -> Names]
    /\ Length \in [Versions -> Nat]
    /\ BlockSize \in Nat \ {0}
    /\ MaxFileSize \in Nat \ {0}
    /\ MaxAttempts \in Nat \ {0}
    /\ MaxEdits \in Nat
    /\ None \notin Uploads \cup Versions
    /\ None \notin Results

VARIABLES
    local,      \* per name, the version of the local file
    node,       \* server, per name: owner of the node, and whether committed
    stored,     \* server, per upload: the blocks put to its draft
    pc,         \* where the upload's task stands
    expected,   \* the version whose length do_upload took as expected_size
    buf,        \* the block being read
    blocks,     \* blocks read and encrypted
    total,      \* total_bytes
    links,      \* sorted_links: the block index each link is for
    next,       \* the pair of block and link that is put next
    tries,      \* attempts of the HTTP request under way
    outcome,    \* outcome_rx: how the task ended
    state,      \* TransferState
    cancelled,  \* the Transfer's cancellation token
    edits,      \* changes of local files so far
    edited      \* history: the file changed between the stat and the end of reading

files == <<local, edits, edited>>
server == <<node, stored>>
reading == <<expected, buf, blocks, total>>
sending == <<links, next>>
ui == <<state, cancelled>>
vars == <<files, server, pc, reading, sending, tries, outcome, ui>>

Unit == Versions \X (Nat \ {0})
Block == Seq(Unit)

\* A block has at least one unit, so no file needs more blocks than this.
Index == 1..MaxFileSize

NoNode == [owner |-> None, active |-> FALSE]
Draft(u) == [owner |-> u, active |-> FALSE]

Http == {"volume", "parent", "create", "verify", "lease", "put", "commit"}
Working == {"stat", "open", "encrypt", "read", "check", "sign"} \cup Http
\* Between the stat and the end of reading.
BeforeCheck == {"open", "volume", "parent", "encrypt", "create", "verify", "read"}

Terminal == {"completed", "cancelled", "failed"}
Outcome == {None} \cup Results

Owns(u) == node[NameOf[u]].owner = u

\* The position of the open file.
Position(u) == total[u] + Len(buf[u])
AtEof(u) == Position(u) >= Length[local[NameOf[u]]]

Init ==
    /\ local \in [Names -> Versions]
    /\ node = [n \in Names |-> NoNode]
    /\ stored = [u \in Uploads |-> [i \in Index |-> <<>>]]
    /\ pc = [u \in Uploads |-> "idle"]
    /\ expected = [u \in Uploads |-> None]
    /\ buf = [u \in Uploads |-> <<>>]
    /\ blocks = [u \in Uploads |-> <<>>]
    /\ total = [u \in Uploads |-> 0]
    /\ links = [u \in Uploads |-> <<>>]
    /\ next = [u \in Uploads |-> 1]
    /\ tries = [u \in Uploads |-> 0]
    /\ outcome = [u \in Uploads |-> None]
    /\ state = [u \in Uploads |-> "none"]
    /\ cancelled = [u \in Uploads |-> FALSE]
    /\ edits = 0
    /\ edited = [u \in Uploads |-> FALSE]

-----------------------------------------------------------------------------
(* How a step of the task ends.                                            *)

\* On to the next step; a new HTTP request starts with its first attempt.
Advance(u, step) ==
    /\ pc' = [pc EXCEPT ![u] = step]
    /\ tries' = [tries EXCEPT ![u] = IF step \in Http THEN 1 ELSE 0]
    /\ UNCHANGED outcome

\* do_upload returns and the spawned task sends its outcome.
Finish(u, result) ==
    /\ pc' = [pc EXCEPT ![u] = "done"]
    /\ tries' = [tries EXCEPT ![u] = 0]
    /\ outcome' = [outcome EXCEPT ![u] = result]

\* Mutant: attempts are not counted.
RetryForever(u) == UNCHANGED <<tries, pc, outcome>>

\* send_with_retry: the same request once more.
Retry(u) ==
    /\ tries[u] < MaxAttempts
    /\ tries' = [tries EXCEPT ![u] = @ + 1]
    /\ UNCHANGED <<pc, outcome>>

\* The server acted, the client did not see its answer: the request is sent
\* again, or (429, broken body, attempts used up) the upload fails.
ReplyLost(u) == Retry(u) \/ Finish(u, "error")

-----------------------------------------------------------------------------
(* The user and other programs.                                            *)

\* App::start_upload: spawn_upload.
SpawnUpload(u) ==
    /\ pc[u] = "idle"
    /\ pc' = [pc EXCEPT ![u] = "stat"]
    /\ state' = [state EXCEPT ![u] = "running"]
    /\ UNCHANGED <<files, server, reading, sending, tries, outcome, cancelled>>

\* Mutant: a terminal transfer is polled like any other.
PollAnyState(u) ==
    /\ state[u] # "none"
    /\ outcome[u] # None
    /\ state' = [state EXCEPT ![u] = IF outcome[u] = "ok" THEN "completed" ELSE "failed"]
    /\ UNCHANGED <<files, server, pc, reading, sending, tries, outcome, cancelled>>

\* Transfer::poll from App::tick; a terminal transfer is left alone.
Poll(u) ==
    /\ state[u] = "running"
    /\ outcome[u] # None
    /\ state' = [state EXCEPT ![u] = IF outcome[u] = "ok" THEN "completed" ELSE "failed"]
    /\ UNCHANGED <<files, server, pc, reading, sending, tries, outcome, cancelled>>

\* Transfer::cancel.
CancelTransfer(u) ==
    /\ state[u] = "running"
    /\ cancelled' = [cancelled EXCEPT ![u] = TRUE]
    /\ state' = [state EXCEPT ![u] = "cancelled"]
    /\ UNCHANGED <<files, server, pc, reading, sending, tries, outcome>>

\* Another program changes the file.
Edit(n, v) ==
    /\ edits < MaxEdits
    /\ edits' = edits + 1
    /\ local[n] # v
    /\ local' = [local EXCEPT ![n] = v]
    /\ edited' = [u \in Uploads |->
                    \/ edited[u]
                    \/ /\ NameOf[u] = n
                       /\ pc[u] \in BeforeCheck]
    /\ UNCHANGED <<server, pc, reading, sending, tries, outcome, ui>>

\* The server drops a draft that is too old.
ReapDraft(n) ==
    /\ node[n] # NoNode
    /\ ~node[n].active
    /\ node' = [node EXCEPT ![n] = NoNode]
    /\ UNCHANGED <<files, stored, pc, reading, sending, tries, outcome, ui>>

\* pdtui ends, by exit or by crash, and its tasks with it.
ProcessEnds ==
    /\ \E u \in Uploads : pc[u] \notin {"idle", "dead"}
    /\ pc' = [u \in Uploads |-> IF pc[u] = "idle" THEN "idle" ELSE "dead"]
    /\ tries' = [u \in Uploads |-> 0]
    /\ outcome' = [u \in Uploads |-> None]
    /\ state' = [u \in Uploads |-> "none"]
    /\ UNCHANGED <<files, server, reading, sending, cancelled>>

-----------------------------------------------------------------------------
(* do_upload up to the draft.                                              *)

\* The token is checked, the file's size taken and the metadata validated.
Stat(u) ==
    LET v == local[NameOf[u]] IN
    /\ pc[u] = "stat"
    /\ IF cancelled[u]
       THEN Finish(u, "cancel") /\ UNCHANGED expected
       ELSE IF Length[v] = 0 \/ Length[v] > MaxFileSize
       THEN Finish(u, "invalid") /\ UNCHANGED expected
       ELSE Advance(u, "open") /\ expected' = [expected EXCEPT ![u] = v]
    /\ UNCHANGED <<files, server, buf, blocks, total, sending, ui>>

\* The file is opened; the token is checked for the last time.  The token
\* run_upload gets is a new one that nobody else holds.
Open(u) ==
    /\ pc[u] = "open"
    /\ IF cancelled[u] THEN Finish(u, "cancel") ELSE Advance(u, "volume")
    /\ UNCHANGED <<files, server, reading, sending, ui>>

\* Step 0, resolve_volume_id.
ResolveVolume(u) ==
    /\ pc[u] = "volume"
    /\ Advance(u, "parent")
    /\ UNCHANGED <<files, server, reading, sending, ui>>

\* Step 1, resolve_parent_context: the parent's node key and hash key.
ResolveParent(u) ==
    /\ pc[u] = "parent"
    /\ Advance(u, "encrypt")
    /\ UNCHANGED <<files, server, reading, sending, ui>>

\* Step 1, the node's keys, signatures, encrypted name and name hash: nothing
\* another task can see.
EncryptNode(u) ==
    /\ pc[u] = "encrypt"
    /\ Advance(u, "create")
    /\ UNCHANGED <<files, server, reading, sending, ui>>

\* Step 2, post_create_file: a free name becomes a draft, a taken one is
\* refused, even if the draft is this upload's own from a lost answer.
CreateFile(u) ==
    /\ pc[u] = "create"
    /\ \/ /\ node[NameOf[u]] = NoNode
          /\ node' = [node EXCEPT ![NameOf[u]] = Draft(u)]
          /\ Advance(u, "verify") \/ ReplyLost(u)
       \/ /\ node[NameOf[u]] # NoNode
          /\ Finish(u, "taken")
          /\ UNCHANGED node
    /\ UNCHANGED <<files, stored, reading, sending, ui>>

\* Step 3, get_verification_code.
GetVerificationCode(u) ==
    /\ pc[u] = "verify"
    /\ Owns(u)
    /\ Advance(u, "read")
    /\ UNCHANGED <<files, server, reading, sending, ui>>

-----------------------------------------------------------------------------
(* Step 4: the stream is cut into blocks.                                  *)

\* stream.read returns some units, at most what the block still holds.
ReadSome(u) ==
    LET v == local[NameOf[u]] IN
    /\ pc[u] = "read"
    /\ \E n \in 1..(BlockSize - Len(buf[u])) :
        /\ Position(u) + n <= Length[v]
        /\ buf' = [buf EXCEPT ![u] = @ \o [i \in 1..n |-> <<v, Position(u) + i>>]]
    /\ UNCHANGED <<files, server, pc, expected, blocks, total, sending, tries,
                   outcome, ui>>

\* The block is full, or the stream ended in it: it is encrypted, signed and
\* kept; a short block is the last one.
FinishBlock(u) ==
    /\ pc[u] = "read"
    /\ buf[u] # <<>>
    /\ Len(buf[u]) = BlockSize \/ AtEof(u)
    /\ blocks' = [blocks EXCEPT ![u] = Append(@, buf[u])]
    /\ total' = [total EXCEPT ![u] = @ + Len(buf[u])]
    /\ buf' = [buf EXCEPT ![u] = <<>>]
    /\ Advance(u, IF Len(buf[u]) < BlockSize THEN "check" ELSE "read")
    /\ UNCHANGED <<files, server, expected, sending, ui>>

\* End of stream at a block boundary.
StopAtEof(u) ==
    /\ pc[u] = "read"
    /\ buf[u] = <<>>
    /\ AtEof(u)
    /\ Advance(u, "check")
    /\ UNCHANGED <<files, server, reading, sending, ui>>

\* An empty stream and one of another size than expected_size are refused.
CheckSize(u) ==
    /\ pc[u] = "check"
    /\ IF blocks[u] = <<>> THEN Finish(u, "empty")
       ELSE IF total[u] # Length[expected[u]] THEN Finish(u, "size")
       ELSE Advance(u, "lease")
    /\ UNCHANGED <<files, server, reading, sending, ui>>

-----------------------------------------------------------------------------
(* Steps 5 to 9: links, blocks, commit.                                    *)

\* What the server may answer: distinct indices of the requested blocks.
Leases(n) ==
    UNION {{reply \in [1..k -> 1..n] :
               \A i, j \in 1..k : reply[i] = reply[j] => i = j} : k \in 0..n}

\* Mutant: the links are used in the order of the answer.
AsAnswered(reply) == reply

\* sort_by_key: the i-th link has i - 1 smaller ones.
SortedByIndex(reply) ==
    [i \in 1..Len(reply) |->
        CHOOSE x \in {reply[j] : j \in 1..Len(reply)} :
            Cardinality({j \in 1..Len(reply) : reply[j] < x}) = i - 1]

\* Step 5, post_request_blocks: as many links as blocks, sorted.
RequestBlocks(u) ==
    /\ pc[u] = "lease"
    /\ Owns(u)
    /\ \E reply \in Leases(Len(blocks[u])) :
        IF Len(reply) # Len(blocks[u])
        THEN Finish(u, "links") /\ UNCHANGED links
        ELSE /\ Advance(u, "put")
             /\ links' = [links EXCEPT ![u] = SortedByIndex(reply)]
    /\ UNCHANGED <<files, server, reading, next, ui>>

\* Step 6, put_block for the next pair of block and link.  The blocks and the
\* links are walked together, as far as both go.
PutBlock(u) ==
    /\ pc[u] = "put"
    /\ Owns(u)
    /\ stored' = [stored EXCEPT ![u][links[u][next[u]]] = blocks[u][next[u]]]
    /\ \/ /\ next' = [next EXCEPT ![u] = @ + 1]
          /\ Advance(u, IF next[u] = Len(links[u]) THEN "sign" ELSE "put")
       \/ ReplyLost(u) /\ UNCHANGED next
    /\ UNCHANGED <<files, node, reading, links, ui>>

\* Steps 7 and 8: the manifest over the block hashes and the attributes.
SignManifest(u) ==
    /\ pc[u] = "sign"
    /\ Advance(u, "commit")
    /\ UNCHANGED <<files, server, reading, sending, ui>>

\* Mutant: the answer's Code is not looked at.
CommitUnchecked(u) ==
    /\ pc[u] = "commit"
    /\ node' = IF Owns(u) THEN [node EXCEPT ![NameOf[u]].active = TRUE] ELSE node
    /\ Finish(u, "ok") \/ ReplyLost(u)
    /\ UNCHANGED <<files, stored, reading, sending, ui>>

\* Step 9, put_commit_revision.
CommitRevision(u) ==
    /\ pc[u] = "commit"
    /\ Owns(u)
    /\ node' = [node EXCEPT ![NameOf[u]].active = TRUE]
    /\ Finish(u, "ok") \/ ReplyLost(u)
    /\ UNCHANGED <<files, stored, reading, sending, ui>>

\* A request is lost before the server acts and is sent again.
RequestLost(u) ==
    /\ pc[u] \in Http
    /\ Retry(u)
    /\ UNCHANGED <<files, server, reading, sending, ui>>

\* Any step can fail: file I/O, crypto, the network, an error answer (also to
\* a draft that is gone or a revision already committed).  Nothing is undone.
StepFails(u) ==
    /\ pc[u] \in Working
    /\ Finish(u, "error")
    /\ UNCHANGED <<files, server, reading, sending, ui>>

-----------------------------------------------------------------------------

Task(u) ==
    \/ Stat(u) \/ Open(u)
    \/ ResolveVolume(u) \/ ResolveParent(u) \/ EncryptNode(u)
    \/ CreateFile(u) \/ GetVerificationCode(u)
    \/ ReadSome(u) \/ FinishBlock(u) \/ StopAtEof(u) \/ CheckSize(u)
    \/ RequestBlocks(u) \/ PutBlock(u) \/ SignManifest(u) \/ CommitRevision(u)
    \/ RequestLost(u) \/ StepFails(u)

Next ==
    \/ \E u \in Uploads : SpawnUpload(u) \/ Task(u) \/ Poll(u) \/ CancelTransfer(u)
    \/ \E n \in Names : ReapDraft(n) \/ \E v \in Versions : Edit(n, v)
    \/ ProcessEnds

Spec == Init /\ [][Next]_vars

\* The runtime runs every task (reads and requests return, the latter within
\* the client's timeout), and the application ticks every 100 ms.
Fairness == \A u \in Uploads : WF_vars(Task(u)) /\ WF_vars(Poll(u))

FairSpec == Spec /\ Fairness

-----------------------------------------------------------------------------
(* Properties.                                                             *)

TypeOK ==
    /\ local \in [Names -> Versions]
    /\ node \in [Names -> [owner: Uploads \cup {None}, active: BOOLEAN]]
    /\ stored \in [Uploads -> [Index -> Block]]
    /\ pc \in [Uploads -> Working \cup {"idle", "done", "dead"}]
    /\ expected \in [Uploads -> Versions \cup {None}]
    /\ buf \in [Uploads -> Block]
    /\ blocks \in [Uploads -> Seq(Block)]
    /\ total \in [Uploads -> Nat]
    /\ links \in [Uploads -> Seq(Index)]
    /\ next \in [Uploads -> Nat \ {0}]
    /\ tries \in [Uploads -> 0..MaxAttempts]
    /\ outcome \in [Uploads -> Outcome]
    /\ state \in [Uploads -> Terminal \cup {"none", "running"}]
    /\ cancelled \in [Uploads -> BOOLEAN]
    /\ edits \in 0..MaxEdits
    /\ edited \in [Uploads -> BOOLEAN]

\* The length block i must have in a file of n units.
BlockLength(n, i) ==
    IF n >= i * BlockSize THEN BlockSize
    ELSE IF n > (i - 1) * BlockSize THEN n - (i - 1) * BlockSize ELSE 0

\* A committed revision is the whole file: every position of it once, in its
\* block and in order, no block missing or in another's place, whatever the
\* order of the links, however often requests were repeated and whoever else
\* wanted the name; and if nobody changed the file, it is the version the
\* upload started from.
CommittedIsWhole ==
    \A u \in Uploads : Owns(u) /\ node[NameOf[u]].active =>
        \A i \in Index :
            /\ Len(stored[u][i]) = BlockLength(Length[expected[u]], i)
            /\ \A j \in 1..Len(stored[u][i]) :
                /\ stored[u][i][j][2] = (i - 1) * BlockSize + j
                /\ edited[u] \/ stored[u][i][j][1] = expected[u]

\* A transfer shown as completed is on the server under its name, committed by
\* this upload: no error answer, lost commit or reaped draft is taken for one.
CompletedIsCommitted ==
    \A u \in Uploads : state[u] = "completed" =>
        node[NameOf[u]] = [owner |-> u, active |-> TRUE]

\* An upload of a file nobody changes is never refused for its size, on a
\* block boundary or off it and however short the reads are.
SizeErrorMeansEdited ==
    \A u \in Uploads : outcome[u] \in {"size", "empty"} => edited[u]

\* The user never sees a transfer leave a terminal state: a cancelled one does
\* not turn completed when its task ends later.
TerminalIsFinal ==
    [][\A u \in Uploads :
          state[u] \in Terminal => state'[u] \in {state[u], "none"}]_vars

\* Every transfer ends, as long as the process runs.
UploadsEnd == \A u \in Uploads : state[u] = "running" ~> state[u] # "running"

\* How a transfer ends is true: completed means committed under its name, and a
\* refused size means that somebody changed the file.
OutcomesAreTrue == TypeOK /\ CompletedIsCommitted /\ SizeErrorMeansEdited
=============================================================================
