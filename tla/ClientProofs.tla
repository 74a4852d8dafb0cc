----------------------------- MODULE ClientProofs ----------------------------
(***************************************************************************)
(* Proofs about the parts of the JS SDK's client that ClientParts explores *)
(* side by side, for any number of requests, uploads, nodes and photos.    *)
(***************************************************************************)
EXTENDS ClientParts, TLAPS, FiniteSetTheorems, SequenceTheorems

-------------------------------------------------------------------------------
(* The session of a public link.                                             *)

RequestStates ==
    {"idle", "sent", "refused", "proving", "proved", "again", "resent", "done", "error"}

LinkTypes ==
    /\ requestAt \in [LinkRequests -> RequestStates]
    /\ sessionsIssued \in Nat
    /\ sentWith \in [LinkRequests -> 0 .. sessionsIssued]
    /\ refusedWith \in [LinkRequests -> SUBSET (0 .. sessionsIssued)]
    /\ DOMAIN srpOf = Handshakes
    /\ linkSession \in 0 .. sessionsIssued
    /\ validSessions \subseteq 1 .. sessionsIssued
    /\ visitAt = "open" => linkSession # NoSession

\* A session that is on its way to a request was never held: no request was sent
\* or refused with it, and no other one waits for it.
ArrivingIsNew ==
    \A q \in LinkRequests : requestAt[q] = "proved" =>
        /\ srpOf[q] \in 1 .. sessionsIssued
        /\ srpOf[q] # linkSession
        /\ \A r \in LinkRequests :
            /\ srpOf[q] # sentWith[r] /\ srpOf[q] \notin refusedWith[r]
            /\ requestAt[r] = "proved" /\ srpOf[r] = srpOf[q] => r = q

\* The session held is none the request was refused with, when it is sent again
\* and from then on.
SentAgainAnew ==
    \A r \in LinkRequests :
        /\ requestAt[r] = "again" => linkSession \notin refusedWith[r]
        /\ requestAt[r] = "resent" => sentWith[r] \notin refusedWith[r]

LinkInv == LinkTypes /\ ArrivingIsNew /\ SentAgainAnew

\* What was issued stays issued when another session is.
LEMMA Raised ==
    ASSUME LinkTypes, sessionsIssued' = sessionsIssued + 1
    PROVE  /\ sentWith \in [LinkRequests -> 0 .. sessionsIssued']
           /\ refusedWith \in [LinkRequests -> SUBSET (0 .. sessionsIssued')]
           /\ validSessions \subseteq 1 .. sessionsIssued'
<1>1. 0 .. sessionsIssued \subseteq 0 .. sessionsIssued'
  BY DEF LinkTypes
<1> QED
  BY <1>1 DEF LinkTypes

\* The invariant of the link is preserved by every step.
LEMMA LinkInvStep == LinkInv /\ [LinkNext]_linkVars => LinkInv'
<1> SUFFICES ASSUME LinkInv, [LinkNext]_linkVars PROVE LinkInv'
  OBVIOUS
<1> USE PublicSessionConstants DEF LinkInv, LinkTypes, RequestStates, Handshakes, NoSession, NoSrp
<1>1. CASE BeginAuth
  BY <1>1 DEF BeginAuth, ArrivingIsNew, SentAgainAnew
<1>2. CASE Authenticate
  <2>1. CASE UNCHANGED <<sessionsIssued, validSessions>>
    BY <1>2, <2>1 DEF Authenticate, Prove, ArrivingIsNew, SentAgainAnew
  <2>2. CASE sessionsIssued' = sessionsIssued + 1
    <3>1. /\ UNCHANGED <<requestAt, sentWith, refusedWith, srpOf>>
          /\ linkSession' = sessionsIssued + 1
          /\ validSessions' = validSessions \cup {sessionsIssued + 1}
      BY <1>2, <2>2 DEF Authenticate, Prove
    <3>2. LinkTypes'
      BY <2>2, <3>1, Raised
    <3> QED
      BY <2>2, <3>1, <3>2 DEF ArrivingIsNew, SentAgainAnew
  <2> QED
    BY <1>2, <2>1, <2>2 DEF Authenticate, Prove
<1>3. ASSUME NEW r \in LinkRequests, Answered(r) PROVE LinkInv'
  BY <1>3 DEF Answered, RefusedNext, Becomes, LinkFault, ArrivingIsNew, SentAgainAnew
<1>4. ASSUME NEW r \in LinkRequests, Reauth(r) PROVE LinkInv'
  BY <1>4 DEF Reauth, Becomes, Waits, LinkFault, BeginHandshake, ArrivingIsNew, SentAgainAnew
<1>5. ASSUME NEW r \in LinkRequests, ReauthProof(r) PROVE LinkInv'
  <2>1. CASE UNCHANGED <<sessionsIssued, validSessions>>
    BY <1>5, <2>1 DEF ReauthProof, Prove, Becomes, Waits, ArrivingIsNew, SentAgainAnew
  <2>2. CASE sessionsIssued' = sessionsIssued + 1
    <3>1. /\ UNCHANGED <<visitAt, sentWith, refusedWith, linkSession>>
          /\ requestAt' = [requestAt EXCEPT ![r] = "proved"]
          /\ srpOf' = [srpOf EXCEPT ![r] = sessionsIssued + 1]
          /\ validSessions' = validSessions \cup {sessionsIssued + 1}
      BY <1>5, <2>2 DEF ReauthProof, Prove, Becomes
    <3>2. LinkTypes'
      BY <2>2, <3>1, Raised
    <3> QED
      BY <2>2, <3>1, <3>2 DEF ArrivingIsNew, SentAgainAnew
  <2> QED
    BY <1>5, <2>1, <2>2 DEF ReauthProof, Prove
<1>6. ASSUME NEW r \in LinkRequests, SessionArrives(r) PROVE LinkInv'
  BY <1>6 DEF SessionArrives, NewSession, Becomes, Waits, ArrivingIsNew, SentAgainAnew
<1>7. ASSUME NEW r \in LinkRequests, FetchAgain(r) PROVE LinkInv'
  BY <1>7 DEF FetchAgain, Becomes, Waits, ArrivingIsNew, SentAgainAnew
<1>8. ASSUME NEW r \in LinkRequests, FetchJson(r) PROVE LinkInv'
  BY <1>8 DEF FetchJson, Becomes, Waits, ArrivingIsNew, SentAgainAnew
<1>9. CASE GetInfo
  BY <1>9 DEF GetInfo, ArrivingIsNew, SentAgainAnew
<1>10. CASE PasswordChanges
  BY <1>10 DEF PasswordChanges, ArrivingIsNew, SentAgainAnew
<1>11. ASSUME NEW s \in 1 .. sessionsIssued, SessionEnds(s) PROVE LinkInv'
  BY <1>11 DEF SessionEnds, ArrivingIsNew, SentAgainAnew
<1>12. CASE UNCHANGED linkVars
  BY <1>12 DEF linkVars, ArrivingIsNew, SentAgainAnew
<1> QED
  BY <1>1, <1>2, <1>3, <1>4, <1>5, <1>6, <1>7, <1>8, <1>9, <1>10, <1>11, <1>12
     DEF LinkNext, LinkStep

\* The invariant of the link holds when the link is opened.
LEMMA LinkInvInit == LinkInit => LinkInv
BY DEF LinkInit, LinkInv, LinkTypes, RequestStates, Handshakes, NoSession, NoSrp,
   ArrivingIsNew, SentAgainAnew

\* A request is refused once before its handshake, and twice at most.
RefusedAtMostTwice ==
    \A r \in LinkRequests :
        /\ IsFiniteSet(refusedWith[r]) /\ Cardinality(refusedWith[r]) <= 2
        /\ requestAt[r] \notin {"done", "error"} => Cardinality(refusedWith[r]) <= 1
        /\ requestAt[r] \in {"idle", "sent"} => refusedWith[r] = {}

\* No step refuses a request more often than that.
LEMMA RefusedStep ==
    ASSUME LinkTypes, RefusedAtMostTwice, [LinkNext]_linkVars
    PROVE  RefusedAtMostTwice'
<1> USE DEF LinkTypes, RequestStates
<1>1. ASSUME NEW r \in LinkRequests, Answered(r), refusedWith' # refusedWith
      PROVE  RefusedAtMostTwice'
  <2>1. /\ requestAt[r] \in {"sent", "resent"}
        /\ requestAt' = [requestAt EXCEPT ![r] = RefusedNext(requestAt[r])]
        /\ refusedWith' = [refusedWith EXCEPT ![r] = @ \cup {sentWith[r]}]
    BY <1>1 DEF Answered, Becomes
  <2>2. IsFiniteSet(refusedWith[r]) /\ Cardinality(refusedWith[r]) \in Nat
    BY FS_CardinalityType DEF RefusedAtMostTwice
  <2>3. /\ IsFiniteSet(refusedWith'[r])
        /\ Cardinality(refusedWith'[r]) <= Cardinality(refusedWith[r]) + 1
        /\ Cardinality(refusedWith'[r]) \in Nat
    <3>1. refusedWith'[r] = refusedWith[r] \cup {sentWith[r]}
      BY <2>1
    <3>2. /\ IsFiniteSet(refusedWith[r] \cup {sentWith[r]})
          /\ Cardinality(refusedWith[r] \cup {sentWith[r]}) =
                IF sentWith[r] \in refusedWith[r] THEN Cardinality(refusedWith[r])
                ELSE Cardinality(refusedWith[r]) + 1
      BY <2>2, FS_AddElement
    <3> QED
      BY <2>2, <3>1, <3>2
  <2>4. requestAt[r] = "sent" => Cardinality(refusedWith[r]) = 0
    BY FS_EmptySet DEF RefusedAtMostTwice
  <2>5. /\ Cardinality(refusedWith'[r]) <= 2
        /\ requestAt'[r] \notin {"done", "error"} => Cardinality(refusedWith'[r]) <= 1
        /\ requestAt'[r] \notin {"idle", "sent"}
    BY <2>1, <2>2, <2>3, <2>4 DEF RefusedAtMostTwice, RefusedNext
  <2>6. \A q \in LinkRequests : q # r =>
            refusedWith'[q] = refusedWith[q] /\ requestAt'[q] = requestAt[q]
    BY <2>1
  <2> QED
    BY <2>3, <2>5, <2>6 DEF RefusedAtMostTwice
<1>2. ASSUME NEW r \in LinkRequests, UNCHANGED refusedWith,
             \/ Answered(r) \/ Reauth(r) \/ ReauthProof(r) \/ SessionArrives(r)
             \/ FetchAgain(r) \/ FetchJson(r)
      PROVE  RefusedAtMostTwice'
  <2>1. PICK at : /\ requestAt' = [requestAt EXCEPT ![r] = at]
                  /\ requestAt[r] \notin {"done", "error"}
                  /\ at \in {"idle", "sent"} => requestAt[r] \in {"idle", "sent"}
    <3>1. CASE Answered(r)
      BY <1>2, <3>1 DEF Answered, Becomes, RefusedNext
    <3>2. CASE ~Answered(r)
      BY <1>2, <3>2 DEF Reauth, ReauthProof, SessionArrives, FetchAgain, FetchJson, Becomes, Waits
    <3> QED
      BY <3>1, <3>2
  <2> QED
    BY <1>2, <2>1 DEF RefusedAtMostTwice
<1>3. UNCHANGED <<requestAt, refusedWith>> => RefusedAtMostTwice'
  BY DEF RefusedAtMostTwice
<1>4. ASSUME NEW r \in LinkRequests,
             \/ Reauth(r) \/ ReauthProof(r) \/ SessionArrives(r) \/ FetchAgain(r) \/ FetchJson(r)
      PROVE  UNCHANGED refusedWith
  BY <1>4 DEF Reauth, ReauthProof, SessionArrives, FetchAgain, FetchJson
<1> QED
  BY <1>1, <1>2, <1>3, <1>4 DEF LinkNext, LinkStep, BeginAuth, Authenticate, GetInfo,
     PasswordChanges, SessionEnds, linkVars

\* The session of a public link keeps its types: sessions held and used were
\* issued, a link that is open has one, and no request is refused a third time.
THEOREM LinkTypeCorrect == LinkSpec => []LinkTypeOK
<1>1. LinkInit => RefusedAtMostTwice
  BY FS_EmptySet DEF LinkInit, RefusedAtMostTwice
<1>2. LinkInv /\ RefusedAtMostTwice => LinkTypeOK
  BY DEF LinkInv, LinkTypes, RefusedAtMostTwice, LinkTypeOK
<1>3. LinkInv /\ RefusedAtMostTwice /\ [LinkNext]_linkVars => RefusedAtMostTwice'
  BY RefusedStep DEF LinkInv
<1> QED
  BY <1>1, <1>2, <1>3, LinkInvInit, LinkInvStep, PTL DEF LinkSpec

-------------------------------------------------------------------------------
(* Uploads that meet: the inductive invariant.                               *)

Steps == {"new", "admitted", "ready", "create", "conflict", "blocks", "commit", "check",
          "notify", "delete", "done"}

ServerTypes ==
    /\ link \in Drafts \cup {None} /\ revDraft \in Drafts \cup {None}
    /\ revision \in Nat /\ nextId \in Nat /\ committed \subseteq Nat

\* The types, without the counters of the queue.
DraftTypes ==
    /\ request \in [Uploads -> Request]
    /\ pc \in [Uploads -> Steps] /\ mine \in [Uploads -> Nat \cup {None}]
    /\ base \in [Uploads -> Nat \cup {None}] /\ conflict \in [Uploads -> Drafts \cup {None}]
    /\ deleteFailed \subseteq Uploads
    /\ result \in [Uploads -> Results \cup {None}]
    /\ ServerTypes /\ known \in Nat /\ resent \in Nat /\ orphans \subseteq Nat

\* The server's ids: each is given once, and what is committed is no draft again.
IdInv ==
    /\ link # None => link.id \in 1 .. nextId
    /\ revDraft # None => revDraft.id \in 1 .. nextId
    /\ link # None /\ revDraft # None => link.id # revDraft.id
    /\ committed \subseteq 0 .. nextId
    /\ \A id \in committed : ~IsDraft(id)
    /\ revision \in committed
    /\ link # None /\ link.state = "active" => link.id \in committed

\* An upload knows the draft it made, and its conflict is one the server had.
KnowInv ==
    \A u \in Uploads :
        /\ pc[u] \in {"blocks", "commit", "check", "notify", "delete"} => mine[u] \in 1 .. nextId
        /\ pc[u] = "notify" \/ result[u] = "ok" => mine[u] \in committed
        /\ result[u] # None => pc[u] \in {"delete", "done"}
        /\ pc[u] = "conflict" \/ result[u] = "exists" => conflict[u] # None
        /\ conflict[u] # None =>
              /\ conflict[u].id \in 1 .. nextId
              /\ link # None /\ link.id = conflict[u].id => link.client = conflict[u].client
              /\ conflict[u].state = "active" => link = conflict[u]

\* Every draft has an upload that will commit or delete it, or is an orphan.
LeftInv ==
    \A id \in 1 .. nextId : IsDraft(id) =>
        \/ id \in orphans
        \/ \E u \in Uploads : mine[u] = id /\ pc[u] \in {"blocks", "commit", "check", "delete"}

\* What the queue counts is what the holders took.
CapacityInv ==
    /\ IsFiniteSet(Holders) /\ totalFileUploads = Cardinality(Holders)
    /\ totalExpectedSize \in Int
    /\ expectedSize \in [Uploads -> Nat]
    /\ \A u \in Uploads : expectedSize[u] \in {request[u].declared, request[u].size}
    /\ (\A u \in Uploads : request[u].declared = request[u].size) =>
           IsFiniteSet(HeldBytes) /\ totalExpectedSize = Cardinality(HeldBytes)

DraftsInv == DraftTypes /\ IdInv /\ KnowInv /\ LeftInv /\ CapacityInv /\ ExistsMeansTaken

-------------------------------------------------------------------------------
(* What a step of an upload does to the server, the queue and the upload.     *)

\* Nothing on the server.
Quiet == UNCHANGED <<server, committed>>

LEMMA StepServer ==
    ASSUME NEW u \in Uploads, Step(u)
    PROVE  \/ Quiet
           \/ pc[u] = "create" /\ ServerCreates(u)
           \/ pc[u] = "commit" /\ ServerCommits(mine[u])
           \/ UNCHANGED committed /\ pc[u] = "conflict" /\ ServerDeletes(conflict[u].id)
           \/ UNCHANGED committed /\ pc[u] = "delete" /\ ServerDeletes(mine[u])
BY DEF Step, CheckCapacity, TakeCapacity, StartUpload, CreateDraftOnAPI, UploadSmallFile,
       CreateDraftRevision, UploadSmallRevision, Create, CreateConflicts, HandleConflictError,
       UploadBlocks, CommitDraft, CommitDraftPhoto, Commit, CheckCommitted, NotifyNodeUploaded,
       DeleteDraftNode, DeleteDraftRevision, DeleteDraft, Quiet, server, history


\* A draft after a step of the server was one before, unless it is new.
LEMMA CreatesDraft ==
    ASSUME DraftTypes, IdInv, NEW u \in Uploads, UNCHANGED request, ServerCreates(u)
    PROVE  /\ nextId' = nextId + 1 /\ ServerTypes' /\ IdInv'
           /\ committed \subseteq committed' /\ (IsSmall(u) => nextId' \in committed')
           /\ \A id : IsDraft(id)' => IsDraft(id) \/ id = nextId'
           /\ link' = link \/ (link = None /\ link' # None /\ link'.id = nextId')
<1> DEFINE new == [id |-> nextId', client |-> request[u].client,
                   state |-> IF IsSmall(u) THEN "active" ELSE "draft"]
<1>1. /\ nextId' = nextId + 1 /\ nextId \in Nat /\ nextId' \in Nat
      /\ committed' = IF IsSmall(u) THEN committed \cup {nextId'} ELSE committed
  BY DEF ServerCreates, DraftTypes, ServerTypes
<1>2. new \in Drafts /\ new # None /\ new.id = nextId'
  <2>1. request[u].client \in ClientUids \cup {None}
    BY DEF DraftTypes, Request
  <2> QED
    BY <1>1, <2>1, UploadDraftsConstants DEF Drafts
<1>3. \/ IsRevision(u) /\ IsSmall(u) /\ revision' = nextId' /\ revDraft' = None /\ link' = link
      \/ IsRevision(u) /\ ~IsSmall(u) /\ revision' = revision /\ revDraft' = new /\ link' = link
      \/ ~IsRevision(u) /\ link = None /\ link' = new /\ revision' = revision /\ revDraft' = revDraft
  BY DEF ServerCreates, Free
<1>4. new.state = IF IsSmall(u) THEN "active" ELSE "draft"
  OBVIOUS
<1> HIDE DEF new
<1>5. ServerTypes'
  BY <1>1, <1>2, <1>3 DEF ServerTypes, DraftTypes
<1>6. \A id : IsDraft(id)' => IsDraft(id) \/ (id = nextId' /\ ~IsSmall(u))
  BY <1>1, <1>2, <1>3, <1>4 DEF IsDraft
<1>7. \A id \in 0 .. nextId : id # nextId' /\ id \in 0 .. nextId'
  BY <1>1
<1>8. committed' \subseteq 0 .. nextId' /\ revision' \in committed'
  BY <1>1, <1>3, <1>7 DEF IdInv
<1>9. \A id \in committed' : ~IsDraft(id)'
  <2> SUFFICES ASSUME NEW id \in committed', IsDraft(id)'
               PROVE  FALSE
    OBVIOUS
  <2>1. CASE id \in committed
    BY <1>6, <1>7, <2>1 DEF IdInv
  <2>2. CASE id \notin committed
    <3>1. IsSmall(u) /\ id = nextId'
      BY <1>1, <2>2
    <3>2. IsDraft(nextId')
      BY <1>6, <3>1
    <3>3. nextId' \in 1 .. nextId
      BY <3>2 DEF IsDraft, IdInv
    <3> QED
      BY <1>1, <3>3
  <2> QED
    BY <2>1, <2>2
<1>10. /\ link' # None => link'.id \in 1 .. nextId'
       /\ revDraft' # None => revDraft'.id \in 1 .. nextId'
       /\ link' # None /\ revDraft' # None => link'.id # revDraft'.id
  BY <1>1, <1>2, <1>3 DEF IdInv
<1>11. link' # None /\ link'.state = "active" => link'.id \in committed'
  BY <1>1, <1>2, <1>3, <1>4 DEF IdInv
<1>12. IdInv'
  BY <1>8, <1>9, <1>10, <1>11 DEF IdInv
<1> QED
  BY <1>1, <1>2, <1>3, <1>5, <1>6, <1>12

LEMMA CommitsDraft ==
    ASSUME DraftTypes, IdInv, NEW i, ServerCommits(i)
    PROVE  /\ nextId' = nextId /\ ServerTypes' /\ IdInv'
           /\ committed' = committed \cup {i}
           /\ \A id : IsDraft(id)' => IsDraft(id) /\ id # i
           /\ link' = link \/ (link # None /\ link.state = "draft" /\ link' # None /\ link'.id = link.id /\ link'.client = link.client)
<1>1. /\ IsDraft(i) /\ committed' = committed \cup {i} /\ nextId' = nextId
      /\ \/ revDraft # None /\ revDraft.id = i /\ revision' = i /\ revDraft' = None /\ link' = link
         \/ /\ ~(revDraft # None /\ revDraft.id = i)
            /\ link' = [link EXCEPT !.state = "active"] /\ revision' = revision /\ revDraft' = revDraft
  BY DEF ServerCommits
<1>2. i \in 1 .. nextId /\ nextId \in Nat /\ i \in Nat /\ i \in 0 .. nextId
  <2>1. i \in 1 .. nextId /\ nextId \in Nat
    BY <1>1 DEF IsDraft, IdInv, DraftTypes, ServerTypes
  <2> QED
    BY <2>1
<1>3. CASE revDraft # None /\ revDraft.id = i /\ revision' = i /\ revDraft' = None /\ link' = link
  <2>1. \A id : IsDraft(id)' => IsDraft(id) /\ id # i
    BY <1>3 DEF IsDraft, IdInv
  <2>2. ServerTypes'
    BY <1>1, <1>2, <1>3 DEF ServerTypes, DraftTypes
  <2>3. IdInv'
    BY <1>1, <1>2, <1>3, <2>1 DEF IdInv
  <2> QED
    BY <1>1, <1>3, <2>1, <2>2, <2>3
<1>4. CASE /\ ~(revDraft # None /\ revDraft.id = i)
           /\ link' = [link EXCEPT !.state = "active"] /\ revision' = revision /\ revDraft' = revDraft
  <2>1. link # None /\ link.id = i /\ link.state = "draft" /\ link \in Drafts
    BY <1>1, <1>4 DEF IsDraft, DraftTypes, ServerTypes
  <2>2. link' \in Drafts /\ link'.id = i /\ link'.state = "active" /\ link'.client = link.client
    BY <1>4, <2>1 DEF Drafts
  <2>3. link' # None
    BY <2>2, UploadDraftsConstants
  <2>4. \A id : IsDraft(id)' => IsDraft(id) /\ id # i
    BY <1>4, <2>2 DEF IsDraft
  <2>5. ServerTypes'
    BY <1>1, <1>2, <1>4, <2>2 DEF ServerTypes, DraftTypes
  <2>6. IdInv'
    BY <1>1, <1>2, <1>4, <2>1, <2>2, <2>4 DEF IdInv
  <2> QED
    BY <1>1, <2>1, <2>2, <2>3, <2>4, <2>5, <2>6
<1> QED
  BY <1>1, <1>3, <1>4

LEMMA DeletesDraft ==
    ASSUME DraftTypes, IdInv, NEW i, ServerDeletes(i), UNCHANGED committed
    PROVE  /\ nextId' = nextId /\ ServerTypes' /\ IdInv'
           /\ \A id : IsDraft(id)' => IsDraft(id) /\ id # i
           /\ link' = link \/ (link' = None /\ link # None /\ link.id = i /\ link.state = "draft")
<1>1. /\ nextId' = nextId /\ revision' = revision
      /\ link' = IF link # None /\ link.id = i THEN None ELSE link
      /\ revDraft' = IF revDraft # None /\ revDraft.id = i THEN None ELSE revDraft
  BY DEF ServerDeletes
<1>2. \A id : IsDraft(id)' => IsDraft(id) /\ id # i
  BY <1>1 DEF IsDraft
<1>5. link # None /\ link.id = i => link.state = "draft"
  <2>1. IsDraft(i)
    BY DEF ServerDeletes
  <2> QED
    BY <2>1 DEF IsDraft, IdInv
<1>3. ServerTypes'
  BY <1>1 DEF ServerTypes, DraftTypes
<1>4. IdInv'
  BY <1>1, <1>2 DEF IdInv
<1> QED
  BY <1>1, <1>2, <1>3, <1>4, <1>5


\* What a step leaves of the server.
LEMMA ServerAfter ==
    ASSUME DraftTypes, IdInv, NEW u \in Uploads, Step(u), UNCHANGED request
    PROVE  /\ ServerTypes' /\ IdInv' /\ committed \subseteq committed'
           /\ nextId' = nextId \/ (nextId' = nextId + 1 /\ pc[u] = "create")
           /\ \A id : IsDraft(id)' => IsDraft(id) \/ (id = nextId' /\ nextId' = nextId + 1)
           /\ link' # None => \/ link'.id = nextId' /\ nextId' = nextId + 1
                              \/ link # None /\ link'.id = link.id /\ link'.client = link.client
           /\ link # None /\ link.state = "active" => link' = link
<1>1. CASE Quiet
  BY <1>1 DEF Quiet, server, DraftTypes, ServerTypes, IdInv, IsDraft
<1>2. CASE pc[u] = "create" /\ ServerCreates(u)
  BY <1>2, CreatesDraft
<1>3. CASE pc[u] = "commit" /\ ServerCommits(mine[u])
  BY <1>3, CommitsDraft
<1>4. ASSUME NEW i, UNCHANGED committed, ServerDeletes(i)
      PROVE  /\ ServerTypes' /\ IdInv' /\ committed \subseteq committed' /\ nextId' = nextId
             /\ \A id : IsDraft(id)' => IsDraft(id)
             /\ link' # None => link # None /\ link'.id = link.id /\ link'.client = link.client
             /\ link # None /\ link.state = "active" => link' = link
  BY <1>4, DeletesDraft
<1> QED
  BY <1>1, <1>2, <1>3, <1>4, StepServer

\* What a step does to the upload that takes it.
Moves(u, from, to) == pc[u] = from /\ pc' = [pc EXCEPT ![u] = to]
Ends(u, r) == result' = [result EXCEPT ![u] = r]
Keeps == UNCHANGED <<mine, conflict, result>>
KeepsDraft == UNCHANGED <<mine, conflict>>

Passes(u) ==
    /\ Keeps
    /\ \/ Moves(u, "new", "admitted") \/ Moves(u, "admitted", "ready")
       \/ Moves(u, "ready", "create") \/ Moves(u, "conflict", "create")
       \/ Moves(u, "blocks", "commit") \/ Moves(u, "commit", "check")
       \/ pc[u] = "create" /\ UNCHANGED pc
       \/ Moves(u, "delete", "done")
       \/ Moves(u, "commit", "notify") /\ mine[u] \in committed'
       \/ Moves(u, "check", "notify") /\ IsRevisionUploaded(u) /\ Quiet

Makes(u) ==
    /\ mine' = [mine EXCEPT ![u] = nextId'] /\ UNCHANGED <<conflict, result>>
    /\ nextId' = nextId + 1
    /\ \/ IsSmall(u) /\ Moves(u, "create", "notify") /\ nextId' \in committed'
       \/ ~IsSmall(u) /\ Moves(u, "create", "blocks")

Meets(u) ==
    /\ Moves(u, "create", "conflict") /\ conflict' = [conflict EXCEPT ![u] = link]
    /\ link # None /\ UNCHANGED <<mine, result>> /\ Quiet

Leaves(u) ==
    /\ KeepsDraft
    /\ \/ Ends(u, "abort") /\ Moves(u, "new", "done")
       \/ Ends(u, "error") /\ \E s \in {"create", "notify"} : Moves(u, s, "done")
       \/ /\ Ends(u, "exists") /\ Moves(u, "conflict", "done")
          /\ MayDelete(u) => u \in deleteFailed'
       \/ Ends(u, "error") /\ \E s \in {"blocks", "commit", "check", "notify"} : Moves(u, s, "delete")
       \/ Ends(u, "ok") /\ Moves(u, "notify", "done")

LEMMA StepUpload ==
    ASSUME DraftTypes, NEW u \in Uploads, Step(u)
    PROVE  Passes(u) \/ Makes(u) \/ Meets(u) \/ Leaves(u)
<1> USE DEF Passes, Makes, Meets, Leaves, Moves, Ends, Keeps, KeepsDraft, Goto, Fail
<1>1. CASE CheckCapacity(u) \/ TakeCapacity(u) \/ StartUpload(u)
  BY <1>1 DEF CheckCapacity, TakeCapacity, StartUpload
<1>2. CASE Create(u)
  <2>1. ServerCreates(u) => nextId' = nextId + 1 /\ (IsSmall(u) => nextId' \in committed')
    BY DEF ServerCreates
  <2> QED
    BY <1>2, <2>1 DEF Create
<1>3. CASE CreateConflicts(u)
  BY <1>3 DEF CreateConflicts, Quiet, history
<1>4. CASE HandleConflictError(u)
  BY <1>4 DEF HandleConflictError
<1>5. CASE UploadBlocks(u)
  BY <1>5 DEF UploadBlocks
<1>6. CASE CommitDraft(u) \/ CommitDraftPhoto(u)
  BY <1>6 DEF CommitDraft, CommitDraftPhoto, Commit, ServerCommits
<1>7. CASE CheckCommitted(u)
  BY <1>7 DEF CheckCommitted, Quiet, history
<1>8. CASE NotifyNodeUploaded(u)
  BY <1>8 DEF NotifyNodeUploaded
<1>9. CASE DeleteDraft(u)
  BY <1>9 DEF DeleteDraft
<1> QED
  BY <1>1, <1>2, <1>3, <1>4, <1>5, <1>6, <1>7, <1>8, <1>9 DEF Step, CreateDraftOnAPI,
     UploadSmallFile, CreateDraftRevision, UploadSmallRevision, DeleteDraftNode, DeleteDraftRevision


\* A revision found uploaded is committed.
LEMMA UploadedIsCommitted ==
    ASSUME DraftTypes, IdInv, NEW u \in Uploads, IsRevisionUploaded(u)
    PROVE  mine[u] \in committed
BY DEF IsRevisionUploaded, IdInv

\* Only its own failed deletion is held against an upload, and for good.
LEMMA FailuresStay ==
    ASSUME NEW u \in Uploads, Step(u)
    PROVE  deleteFailed' = deleteFailed \/ deleteFailed' = deleteFailed \cup {u}
BY DEF Step, CheckCapacity, TakeCapacity, StartUpload, CreateDraftOnAPI, UploadSmallFile,
       CreateDraftRevision, UploadSmallRevision, Create, CreateConflicts, HandleConflictError,
       UploadBlocks, CommitDraft, CommitDraftPhoto, Commit, CheckCommitted, NotifyNodeUploaded,
       DeleteDraftNode, DeleteDraftRevision, DeleteDraft

LEMMA TypesKeep ==
    ASSUME DraftTypes, IdInv, KnowInv, NEW u \in Uploads, Step(u), UNCHANGED request
    PROVE  DraftTypes'
<1>1. ServerTypes' /\ nextId' \in Nat /\ (link # None => link \in Drafts)
  BY ServerAfter DEF ServerTypes, DraftTypes
<1>2. pc' \in [Uploads -> Steps] /\ result' \in [Uploads -> Results \cup {None}]
  BY StepUpload DEF DraftTypes, Steps, Results, Passes, Makes, Meets, Leaves, Moves, Ends, Keeps, KeepsDraft
<1>3. mine' \in [Uploads -> Nat \cup {None}] /\ conflict' \in [Uploads -> Drafts \cup {None}]
  BY <1>1, StepUpload DEF DraftTypes, Passes, Makes, Meets, Leaves, Keeps, KeepsDraft
<1>4. base' \in [Uploads -> Nat \cup {None}] /\ known' \in Nat /\ resent' \in Nat
  BY DEF DraftTypes, ServerTypes, Step, CheckCapacity, TakeCapacity, StartUpload, CreateDraftOnAPI,
     UploadSmallFile, CreateDraftRevision, UploadSmallRevision, Create, CreateConflicts,
     HandleConflictError, UploadBlocks, CommitDraft, CommitDraftPhoto, Commit, CheckCommitted,
     NotifyNodeUploaded, DeleteDraftNode, DeleteDraftRevision, DeleteDraft, server
<1>6. deleteFailed' \subseteq Uploads
  BY FailuresStay DEF DraftTypes
<1>5. orphans' \subseteq Nat
  <2>1. \/ orphans' = orphans
        \/ orphans' = orphans \cup {nextId'}
        \/ pc[u] = "delete" /\ orphans' = orphans \cup {mine[u]}
    BY DEF Step, CheckCapacity, TakeCapacity, StartUpload, CreateDraftOnAPI,
       UploadSmallFile, CreateDraftRevision, UploadSmallRevision, Create, CreateConflicts,
       HandleConflictError, UploadBlocks, CommitDraft, CommitDraftPhoto, Commit, CheckCommitted,
       NotifyNodeUploaded, DeleteDraftNode, DeleteDraftRevision, DeleteDraft, history
  <2>2. pc[u] = "delete" => mine[u] \in Nat
    <3>1. nextId \in Nat
      BY DEF DraftTypes, ServerTypes
    <3> QED
      BY <3>1 DEF KnowInv
  <2> QED
    BY <1>1, <2>1, <2>2 DEF DraftTypes
<1> QED
  BY <1>1, <1>2, <1>3, <1>4, <1>5, <1>6 DEF DraftTypes

LEMMA KnowKeeps ==
    ASSUME DraftTypes, IdInv, KnowInv, NEW u \in Uploads, Step(u), UNCHANGED request
    PROVE  KnowInv'
<1>1. /\ nextId \in Nat /\ nextId' \in Nat /\ nextId' \in {nextId, nextId + 1}
      /\ committed \subseteq committed' /\ 1 .. nextId \subseteq 1 .. nextId'
      /\ \A id \in 1 .. nextId : nextId' = nextId + 1 => id # nextId'
  <2>1. nextId \in Nat /\ nextId' \in {nextId, nextId + 1} /\ committed \subseteq committed'
    BY ServerAfter DEF DraftTypes, ServerTypes
  <2> QED
    BY <2>1
<1>2. link' # None => \/ link'.id = nextId' /\ nextId' = nextId + 1
                      \/ link # None /\ link'.id = link.id /\ link'.client = link.client
  BY ServerAfter
<1>8. link # None /\ link.state = "active" => link' = link
  BY ServerAfter
\* What an upload knows of the server stays true.
<1>3. ASSUME NEW v \in Uploads, mine'[v] = mine[v], conflict'[v] = conflict[v]
      PROVE  /\ mine[v] \in 1 .. nextId => mine'[v] \in 1 .. nextId'
             /\ mine[v] \in committed => mine'[v] \in committed'
             /\ conflict'[v] # None =>
                   /\ conflict'[v].id \in 1 .. nextId'
                   /\ link' # None /\ link'.id = conflict'[v].id => link'.client = conflict'[v].client
                   /\ conflict'[v].state = "active" => link' = conflict'[v]
  BY <1>1, <1>2, <1>3, <1>8 DEF KnowInv
<1>4. ASSUME NEW v \in Uploads, v # u
      PROVE  pc'[v] = pc[v] /\ mine'[v] = mine[v] /\ conflict'[v] = conflict[v] /\ result'[v] = result[v]
  BY <1>4, StepUpload DEF DraftTypes, Passes, Makes, Meets, Leaves, Moves, Ends, Keeps, KeepsDraft
<1>5. ASSUME NEW v \in Uploads, v # u
      PROVE  /\ pc'[v] \in {"blocks", "commit", "check", "notify", "delete"} => mine'[v] \in 1 .. nextId'
             /\ pc'[v] = "notify" \/ result'[v] = "ok" => mine'[v] \in committed'
             /\ result'[v] # None => pc'[v] \in {"delete", "done"}
             /\ pc'[v] = "conflict" \/ result'[v] = "exists" => conflict'[v] # None
             /\ conflict'[v] # None =>
                   /\ conflict'[v].id \in 1 .. nextId'
                   /\ link' # None /\ link'.id = conflict'[v].id => link'.client = conflict'[v].client
                   /\ conflict'[v].state = "active" => link' = conflict'[v]
  BY <1>3, <1>4, <1>5 DEF KnowInv
<1>6. nextId' = nextId + 1 => nextId' \in 1 .. nextId'
  BY <1>1
<1>7. /\ pc'[u] \in {"blocks", "commit", "check", "notify", "delete"} => mine'[u] \in 1 .. nextId'
      /\ pc'[u] = "notify" \/ result'[u] = "ok" => mine'[u] \in committed'
      /\ result'[u] # None => pc'[u] \in {"delete", "done"}
      /\ pc'[u] = "conflict" \/ result'[u] = "exists" => conflict'[u] # None
      /\ conflict'[u] # None =>
            /\ conflict'[u].id \in 1 .. nextId'
            /\ link' # None /\ link'.id = conflict'[u].id => link'.client = conflict'[u].client
            /\ conflict'[u].state = "active" => link' = conflict'[u]
  <2>1. CASE Passes(u) \/ Leaves(u)
    <3>1. mine'[u] = mine[u] /\ conflict'[u] = conflict[u]
      BY <2>1 DEF Passes, Leaves, Keeps, KeepsDraft
    <3>2. /\ pc'[u] \in {"blocks", "commit", "check", "notify", "delete"} => mine[u] \in 1 .. nextId
          /\ result'[u] # None => pc'[u] \in {"delete", "done"}
          /\ pc'[u] = "conflict" \/ result'[u] = "exists" => conflict[u] # None
      <4>1. pc[u] \in {"blocks", "commit", "check", "notify", "delete"} => mine[u] \in 1 .. nextId
        BY DEF KnowInv
      <4>2. result[u] # None => pc[u] \in {"delete", "done"}
        BY DEF KnowInv
      <4>5. pc[u] = "conflict" \/ result[u] = "exists" => conflict[u] # None
        BY DEF KnowInv
      <4>3. CASE Passes(u)
        <5>1. result'[u] = result[u]
          BY <4>3 DEF Passes, Keeps
        <5>2. result[u] # None => pc[u] = "delete" /\ pc'[u] = "done"
          BY <4>2, <4>3 DEF Passes, Moves, Ends, Keeps, KeepsDraft, DraftTypes
        <5>3. pc'[u] \in {"blocks", "commit", "check", "notify", "delete"} =>
                 pc[u] \in {"blocks", "commit", "check", "notify", "delete"}
          BY <4>3 DEF Passes, Moves, Ends, Keeps, KeepsDraft, DraftTypes
        <5>4. pc'[u] # "conflict"
          BY <4>3 DEF Passes, Moves, Ends, Keeps, KeepsDraft, DraftTypes
        <5> QED
          BY <4>1, <4>2, <4>5, <5>1, <5>2, <5>3, <5>4
      <4>4. CASE ~Passes(u)
        <5>1. \/ pc'[u] = "done"
              \/ pc[u] \in {"blocks", "commit", "check", "notify"} /\ pc'[u] = "delete"
          BY <2>1, <4>4 DEF Leaves, Moves, Ends, Keeps, KeepsDraft, DraftTypes
        <5>2. result'[u] = "exists" => pc[u] = "conflict"
          BY <2>1, <4>4 DEF Leaves, Moves, Ends, Keeps, KeepsDraft, DraftTypes
        <5> QED
          BY <4>1, <4>5, <5>1, <5>2
      <4> QED
        BY <4>3, <4>4
    <3>3. pc'[u] = "notify" \/ result'[u] = "ok" => mine[u] \in committed'
      BY <1>1, <2>1, UploadedIsCommitted
         DEF KnowInv, DraftTypes, Passes, Leaves, Moves, Ends, Keeps, KeepsDraft, Results
    <3> QED
      BY <1>3, <3>1, <3>2, <3>3
  <2>2. CASE Makes(u)
    <3>1. mine'[u] = nextId' /\ conflict'[u] = conflict[u] /\ result'[u] = result[u]
      BY <2>2 DEF Makes, DraftTypes
    <3>2. pc[u] = "create" /\ result[u] = None
      BY <2>2 DEF Makes, Moves, KnowInv
    <3>3. pc'[u] \in {"notify", "blocks"} /\ (pc'[u] = "notify" => nextId' \in committed')
      BY <2>2 DEF Makes, Moves, DraftTypes
    <3>4. conflict'[u] # None =>
            /\ conflict'[u].id \in 1 .. nextId'
            /\ link' # None /\ link'.id = conflict'[u].id => link'.client = conflict'[u].client
            /\ conflict'[u].state = "active" => link' = conflict'[u]
      BY <1>1, <1>2, <1>8, <3>1 DEF KnowInv
    <3> QED
      BY <1>6, <2>2, <3>1, <3>2, <3>3, <3>4, UploadDraftsConstants DEF Makes, Results
  <2>3. CASE Meets(u)
    <3>1. /\ pc[u] = "create" /\ pc'[u] = "conflict" /\ conflict'[u] = link /\ result'[u] = result[u]
          /\ link' = link
      BY <2>3 DEF Meets, Moves, DraftTypes, Quiet, server
    <3>2. result[u] = None
      BY <3>1 DEF KnowInv
    <3> QED
      BY <1>1, <2>3, <3>1, <3>2, UploadDraftsConstants DEF Meets, Results, IdInv
  <2> QED
    BY <2>1, <2>2, <2>3, StepUpload
<1> QED
  BY <1>5, <1>7 DEF KnowInv


\* A draft nobody answers for any more becomes an orphan.
LEMMA StepOrphans ==
    ASSUME DraftTypes, NEW u \in Uploads, Step(u)
    PROVE  /\ orphans \subseteq orphans'
           /\ nextId' = nextId + 1 => Makes(u) \/ IsSmall(u) \/ nextId' \in orphans' \/ Quiet
           /\ pc[u] = "delete" => mine[u] \in orphans' \/ ServerDeletes(mine[u]) \/ (Quiet /\ ~IsDraft(mine[u]))
<1>0. nextId' = nextId => nextId' # nextId + 1
  BY DEF DraftTypes, ServerTypes
<1>1. CASE Create(u)
  <2>1. pc[u] = "create"
    BY <1>1 DEF Create
  <2>2. CASE ServerCreates(u)
    <3>1. nextId' = nextId + 1 /\ (IsSmall(u) => nextId' \in committed')
      BY <2>2 DEF ServerCreates
    <3> QED
      BY <1>1, <2>1, <2>2, <3>1 DEF Create, Makes, Moves, Goto, Fail, history, Quiet, server
  <2>3. CASE ~ServerCreates(u)
    BY <1>1, <2>1, <2>3 DEF Create, Quiet, history
  <2> QED
    BY <2>2, <2>3
<1>2. CASE DeleteDraft(u)
  BY <1>0, <1>2 DEF DeleteDraft, Quiet, ServerDeletes, server
<1>3. CASE ~Create(u) /\ ~DeleteDraft(u)
  <2>1. pc[u] # "delete" /\ orphans' = orphans
    BY <1>3 DEF Step, CheckCapacity, TakeCapacity, StartUpload, CreateDraftOnAPI,
       UploadSmallFile, CreateDraftRevision, UploadSmallRevision, CreateConflicts,
       HandleConflictError, UploadBlocks, CommitDraft, CommitDraftPhoto, Commit, CheckCommitted,
       NotifyNodeUploaded, DeleteDraftNode, DeleteDraftRevision, history
  <2>2. Quiet \/ nextId' = nextId
    BY <1>3 DEF Step, CheckCapacity, TakeCapacity, StartUpload, CreateDraftOnAPI,
       UploadSmallFile, CreateDraftRevision, UploadSmallRevision, CreateConflicts,
       HandleConflictError, UploadBlocks, CommitDraft, CommitDraftPhoto, Commit, CheckCommitted,
       NotifyNodeUploaded, DeleteDraftNode, DeleteDraftRevision, history, server, Quiet,
       ServerDeletes, ServerCommits
  <2> QED
    BY <1>0, <2>1, <2>2
<1> QED
  BY <1>1, <1>2, <1>3

LEMMA LeftKeeps ==
    ASSUME DraftTypes, IdInv, KnowInv, LeftInv, NEW u \in Uploads, Step(u), UNCHANGED request
    PROVE  LeftInv'
<1>1. /\ nextId \in Nat /\ IdInv' /\ orphans \subseteq orphans' /\ committed \subseteq committed'
      /\ \A id : IsDraft(id)' => IsDraft(id) \/ (id = nextId' /\ nextId' = nextId + 1)
  BY ServerAfter, StepOrphans DEF DraftTypes, ServerTypes
<1> SUFFICES ASSUME NEW id \in 1 .. nextId', IsDraft(id)'
             PROVE  \/ id \in orphans'
                    \/ \E v \in Uploads : mine'[v] = id /\ pc'[v] \in {"blocks", "commit", "check", "delete"}
  BY DEF LeftInv
<1>2. id \notin committed'
  BY <1>1 DEF IdInv
<1>3. CASE ~IsDraft(id)
  <2>1. id = nextId' /\ nextId' = nextId + 1 /\ ~Quiet
    BY <1>1, <1>3 DEF Quiet, server, IsDraft
  <2>2. pc[u] = "create" /\ (IsSmall(u) => nextId' \in committed')
    <3>1. pc[u] = "create" /\ ServerCreates(u)
      BY <1>1, <2>1, StepServer DEF ServerCommits, ServerDeletes
    <3> QED
      BY <3>1 DEF ServerCreates
  <2>3. ~IsSmall(u)
    BY <1>2, <2>1, <2>2
  <2>4. CASE Makes(u)
    <3>1. mine'[u] = id /\ pc'[u] = "blocks"
      BY <2>1, <2>3, <2>4 DEF Makes, Moves, DraftTypes
    <3> QED
      BY <3>1
  <2>5. CASE ~Makes(u)
    BY <2>1, <2>3, <2>5, StepOrphans
  <2> QED
    BY <2>4, <2>5
<1>4. CASE IsDraft(id)
  <2>1. id \in 1 .. nextId
    BY <1>4 DEF IsDraft, IdInv
  <2>2. CASE id \in orphans
    BY <1>1, <2>2
  <2>3. CASE id \notin orphans
    <3>1. PICK v \in Uploads : mine[v] = id /\ pc[v] \in {"blocks", "commit", "check", "delete"}
      BY <1>4, <2>1, <2>3 DEF LeftInv
    <3>2. CASE v # u
      <4>1. pc'[v] = pc[v] /\ mine'[v] = mine[v]
        BY <3>2, StepUpload DEF DraftTypes, Passes, Makes, Meets, Leaves, Moves, Keeps, KeepsDraft
      <4> QED
        BY <3>1, <4>1
    <3>3. CASE v = u
      <4>1. mine' = mine
        BY <3>1, <3>3, StepUpload DEF Passes, Makes, Meets, Leaves, Moves, Keeps, KeepsDraft
      <4>2. CASE pc[u] = "delete"
        <5>1. id \in orphans' \/ ServerDeletes(id)
          <6>1. ~(Quiet /\ ~IsDraft(id))
            BY <1>4
          <6> QED
            BY <3>1, <3>3, <4>2, <6>1, StepOrphans
        <5>2. ~ServerDeletes(id)
          <6>1. ServerDeletes(id) => ~IsDraft(id)'
            BY DEF ServerDeletes, IsDraft
          <6> QED
            BY <6>1
        <5> QED
          BY <5>1, <5>2
      <4>3. CASE pc[u] # "delete"
        <5>1. \/ pc'[u] \in {"commit", "check", "delete"}
              \/ mine[u] \in committed'
          BY <1>1, <3>1, <3>3, <4>3, StepUpload, UploadedIsCommitted
             DEF DraftTypes, Passes, Makes, Meets, Leaves, Moves
        <5> QED
          BY <1>2, <3>1, <3>3, <4>1, <5>1
      <4> QED
        BY <4>2, <4>3
    <3> QED
      BY <3>2, <3>3
  <2> QED
    BY <2>2, <2>3
<1> QED
  BY <1>3, <1>4

LEMMA ExistsKeeps ==
    ASSUME DraftTypes, KnowInv, KnowInv', ExistsMeansTaken, NEW u \in Uploads, Step(u),
           UNCHANGED request
    PROVE  ExistsMeansTaken'
<1> SUFFICES ASSUME NEW v \in Uploads, result'[v] = "exists"
             PROVE  \/ conflict'[v].state = "active" /\ link' = conflict'[v]
                    \/ conflict'[v].state = "draft" /\ (MayDelete(v)' => v \in deleteFailed')
  BY DEF ExistsMeansTaken
<1>1. CASE result[v] = "exists"
  <2>1. result[v] # None
    BY <1>1, UploadDraftsConstants DEF Results
  <2>2. pc[v] \in {"delete", "done"}
    BY <2>1 DEF KnowInv
  <2>3. conflict'[v] = conflict[v]
    BY <2>2, StepUpload DEF DraftTypes, Passes, Makes, Meets, Leaves, Moves, Keeps, KeepsDraft
  <2>4. conflict[v] # None
    BY <1>1 DEF KnowInv
  <2>5. conflict'[v].state = "active" => link' = conflict'[v]
    BY <2>3, <2>4 DEF KnowInv
  <2>6. MayDelete(v)' <=> MayDelete(v)
    BY <2>3 DEF MayDelete, IsOwnDraftConflict
  <2> QED
    BY <1>1, <2>3, <2>5, <2>6, FailuresStay DEF ExistsMeansTaken
<1>2. CASE result[v] # "exists"
  <2>1. v = u /\ conflict' = conflict /\ pc[u] = "conflict"
        /\ (MayDelete(u) => u \in deleteFailed')
    BY <1>2, StepUpload DEF DraftTypes, Passes, Makes, Meets, Leaves, Moves, Ends, Keeps, KeepsDraft
  <2>2. conflict[u] \in Drafts /\ conflict[u] # None
    BY <2>1 DEF KnowInv, DraftTypes
  <2>3. conflict[u].state \in {"draft", "active"}
    BY <2>2 DEF Drafts
  <2>4. conflict'[u].state = "active" => link' = conflict'[u]
    BY <2>1, <2>2 DEF KnowInv
  <2>5. MayDelete(u)' <=> MayDelete(u)
    BY <2>1 DEF MayDelete, IsOwnDraftConflict
  <2> QED
    BY <2>1, <2>3, <2>4, <2>5
<1> QED
  BY <1>1, <1>2


\* What a step does to the queue.
Takes(u) ==
    /\ u \notin Holders /\ Holders' = Holders \cup {u} /\ UNCHANGED expectedSize
    /\ totalFileUploads' = totalFileUploads + 1
    /\ totalExpectedSize' = totalExpectedSize + expectedSize[u]

GivesBack(u) ==
    /\ u \in Holders /\ Holders' = Holders \ {u} /\ UNCHANGED expectedSize
    /\ totalFileUploads' = totalFileUploads - 1
    /\ totalExpectedSize' = totalExpectedSize - expectedSize[u]

LEMMA StepQueue ==
    ASSUME DraftTypes, NEW u \in Uploads, Step(u)
    PROVE  \/ Takes(u) \/ GivesBack(u)
           \/ /\ Holders' = Holders /\ UNCHANGED queue
              /\ \/ UNCHANGED expectedSize
                 \/ expectedSize' = [expectedSize EXCEPT ![u] = IF @ = 0 THEN request[u].size ELSE @]
<1> DEFINE Out == {"new", "admitted", "delete", "done"}
<1>1. ASSUME NEW to \in Steps, pc' = [pc EXCEPT ![u] = to]
      PROVE  /\ pc[u] \in Out /\ to \notin Out => u \notin Holders /\ Holders' = Holders \cup {u}
             /\ pc[u] \notin Out /\ to \in Out => u \in Holders /\ Holders' = Holders \ {u}
             /\ (pc[u] \in Out /\ to \in Out) \/ (pc[u] \notin Out /\ to \notin Out) => Holders' = Holders
  BY <1>1 DEF Holders, DraftTypes
<1>2. pc' = pc => Holders' = Holders
  BY DEF Holders
<1>3. ASSUME NEW from \in Steps \ Out, NEW to \in {"delete", "done"}, pc[u] = from,
             pc' = [pc EXCEPT ![u] = to], ReleaseCapacity(u), UNCHANGED expectedSize
      PROVE  GivesBack(u)
  BY <1>1, <1>3 DEF GivesBack, ReleaseCapacity, Steps
<1>4. ASSUME NEW from \in Steps \ Out, NEW to \in Steps \ Out, pc[u] = from, pc' = [pc EXCEPT ![u] = to]
      PROVE  Holders' = Holders
  BY <1>1, <1>4
<1>5. CASE CheckCapacity(u)
  BY <1>1, <1>5 DEF CheckCapacity, Goto, Steps
<1>6. CASE TakeCapacity(u)
  BY <1>1, <1>6 DEF TakeCapacity, Goto, Steps, Takes
<1>7. CASE StartUpload(u)
  BY <1>4, <1>7 DEF StartUpload, Goto, Steps
<1>8. CASE Create(u)
  BY <1>2, <1>3, <1>4, <1>8 DEF Create, Goto, Fail, Steps
<1>9. CASE CreateConflicts(u)
  BY <1>4, <1>9 DEF CreateConflicts, Goto, Steps
<1>10. CASE HandleConflictError(u)
  BY <1>3, <1>4, <1>10 DEF HandleConflictError, Goto, Fail, Steps
<1>11. CASE UploadBlocks(u)
  BY <1>3, <1>4, <1>11 DEF UploadBlocks, Goto, Fail, Steps
<1>12. CASE CommitDraft(u) \/ CommitDraftPhoto(u)
  BY <1>3, <1>4, <1>12 DEF CommitDraft, CommitDraftPhoto, Commit, Goto, Fail, Steps
<1>13. CASE CheckCommitted(u)
  BY <1>3, <1>4, <1>13 DEF CheckCommitted, Goto, Fail, Steps
<1>14. CASE NotifyNodeUploaded(u)
  BY <1>3, <1>4, <1>14 DEF NotifyNodeUploaded, Goto, Fail, Steps
<1>15. CASE DeleteDraft(u)
  BY <1>1, <1>15 DEF DeleteDraft, Goto, Steps
<1> QED
  BY <1>5, <1>6, <1>7, <1>8, <1>9, <1>10, <1>11, <1>12, <1>13, <1>14, <1>15 DEF Step, CreateDraftOnAPI,
     UploadSmallFile, CreateDraftRevision, UploadSmallRevision, DeleteDraftNode, DeleteDraftRevision

\* The bytes of one file, counted beside those of others.
LEMMA BytesCount ==
    ASSUME NEW B, IsFiniteSet(B), NEW u, NEW n \in Nat, NEW F, F = {u} \X (1 .. n), F \cap B = {}
    PROVE  /\ IsFiniteSet(B \cup F) /\ Cardinality(B \cup F) = Cardinality(B) + n
           /\ Cardinality(B) \in Nat
<1>1. IsFiniteSet({u}) /\ Cardinality({u}) = 1
  BY FS_Singleton
<1>2. IsFiniteSet(1 .. n) /\ Cardinality(1 .. n) = n
  <2>1. /\ IsFiniteSet(1 .. n)
        /\ Cardinality(1 .. n) = IF 1 > n THEN 0 ELSE n - 1 + 1
    BY FS_Interval
  <2> QED
    BY <2>1
<1>3. IsFiniteSet(F) /\ Cardinality(F) = n
  <2>1. IsFiniteSet({u} \X (1 .. n)) /\ Cardinality({u} \X (1 .. n)) = Cardinality({u}) * Cardinality(1 .. n)
    BY <1>1, <1>2, FS_Product
  <2>2. 1 * n = n
    OBVIOUS
  <2> QED
    BY <1>1, <1>2, <2>1, <2>2
<1>4. Cardinality(B) \in Nat
  BY FS_CardinalityType
<1>5. /\ IsFiniteSet(B \cup F)
      /\ Cardinality(B \cup F) = Cardinality(B) + Cardinality(F) - Cardinality(B \cap F)
  BY <1>3, FS_Union
<1>6. Cardinality(B \cap F) = 0
  <2>1. B \cap F = {}
    OBVIOUS
  <2> QED
    BY <2>1, FS_EmptySet, Zenon
<1>7. Cardinality(B \cup F) = Cardinality(B) + n - 0
  BY <1>3, <1>5, <1>6, Zenon
<1>8. Cardinality(B) + n - 0 = Cardinality(B) + n
  BY <1>4
<1> QED
  BY <1>4, <1>5, <1>7, <1>8, Zenon


LEMMA CapacityKeeps ==
    ASSUME DraftTypes, CapacityInv, NEW u \in Uploads, Step(u), UNCHANGED request
    PROVE  CapacityInv'
<1> DEFINE F == {u} \X (1 .. request[u].size)
           Declared == \A v \in Uploads : request[v].declared = request[v].size
<1>1. /\ request[u].size \in Nat /\ request[u].declared \in Nat /\ expectedSize[u] \in Nat
      /\ \A v \in Uploads : request[v].size \in Nat
  BY DEF DraftTypes, CapacityInv, Request
<1>2. Declared' <=> Declared
  OBVIOUS
<1>3. Declared => expectedSize[u] = request[u].size
  BY DEF CapacityInv
<1>4. IsFiniteSet(Holders) /\ Cardinality(Holders) \in Nat /\ totalFileUploads = Cardinality(Holders)
  BY FS_CardinalityType DEF CapacityInv
<1>5. CASE Takes(u)
  <2>1. IsFiniteSet(Holders') /\ totalFileUploads' = Cardinality(Holders')
    <3>1. IsFiniteSet(Holders \cup {u}) /\ Cardinality(Holders \cup {u}) = Cardinality(Holders) + 1
      BY <1>4, <1>5, FS_AddElement DEF Takes
    <3> QED
      BY <1>4, <1>5, <3>1 DEF Takes
  <2>2. totalExpectedSize' \in Int /\ expectedSize' = expectedSize
    BY <1>1, <1>5 DEF Takes, CapacityInv
  <2>3. HeldBytes' = HeldBytes \cup F /\ F \cap HeldBytes = {}
    <3>1. HeldBytes' = UNION {{v} \X (1 .. request[v].size) : v \in Holders'}
      BY DEF HeldBytes
    <3>2. Holders' = Holders \cup {u} /\ u \notin Holders
      BY <1>5 DEF Takes
    <3> QED
      BY <3>1, <3>2 DEF HeldBytes
  <2>4. ASSUME Declared
        PROVE  IsFiniteSet(HeldBytes') /\ totalExpectedSize' = Cardinality(HeldBytes')
    <3>1. IsFiniteSet(HeldBytes) /\ totalExpectedSize = Cardinality(HeldBytes)
      BY <2>4 DEF CapacityInv
    <3> HIDE DEF F
    <3>2. /\ IsFiniteSet(HeldBytes \cup F)
          /\ Cardinality(HeldBytes \cup F) = Cardinality(HeldBytes) + request[u].size
      BY <1>1, <2>3, <3>1, BytesCount DEF F
    <3>3. totalExpectedSize' = totalExpectedSize + request[u].size
      BY <1>3, <1>5, <2>4 DEF Takes
    <3> QED
      BY <2>3, <3>1, <3>2, <3>3, Zenon
  <2> QED
    BY <1>2, <2>1, <2>2, <2>4 DEF CapacityInv
<1>6. CASE GivesBack(u)
  <2>1. IsFiniteSet(Holders') /\ totalFileUploads' = Cardinality(Holders')
    <3>1. IsFiniteSet(Holders \ {u}) /\ Cardinality(Holders \ {u}) = Cardinality(Holders) - 1
      BY <1>4, <1>6, FS_RemoveElement DEF GivesBack
    <3> QED
      BY <1>4, <1>6, <3>1 DEF GivesBack
  <2>2. totalExpectedSize' \in Int /\ expectedSize' = expectedSize
    BY <1>1, <1>6 DEF GivesBack, CapacityInv
  <2>3. HeldBytes = HeldBytes' \cup F /\ F \cap HeldBytes' = {}
    <3>1. HeldBytes' = UNION {{v} \X (1 .. request[v].size) : v \in Holders'}
      BY DEF HeldBytes
    <3>2. Holders' = Holders \ {u} /\ u \in Holders
      BY <1>6 DEF GivesBack
    <3> QED
      BY <3>1, <3>2 DEF HeldBytes
  <2>4. ASSUME Declared
        PROVE  IsFiniteSet(HeldBytes') /\ totalExpectedSize' = Cardinality(HeldBytes')
    <3>1. IsFiniteSet(HeldBytes) /\ totalExpectedSize = Cardinality(HeldBytes)
      BY <2>4 DEF CapacityInv
    <3>2. PICK B : B = HeldBytes'
      OBVIOUS
    <3>3. IsFiniteSet(B)
      BY <2>3, <3>1, <3>2, FS_Subset
    <3> HIDE DEF F
    <3>4. /\ Cardinality(B \cup F) = Cardinality(B) + request[u].size
          /\ Cardinality(B) \in Nat
      BY <1>1, <2>3, <3>2, <3>3, BytesCount DEF F
    <3>5. totalExpectedSize' = totalExpectedSize - request[u].size
      BY <1>3, <1>6, <2>4 DEF GivesBack
    <3>6. totalExpectedSize = Cardinality(B) + request[u].size
      BY <2>3, <3>1, <3>2, <3>4, Zenon
    <3>7. totalExpectedSize' = Cardinality(B)
      BY <1>1, <3>4, <3>5, <3>6
    <3> QED
      BY <3>2, <3>3, <3>7
  <2> QED
    BY <1>2, <2>1, <2>2, <2>4 DEF CapacityInv
<1>7. CASE /\ Holders' = Holders /\ UNCHANGED queue
           /\ \/ UNCHANGED expectedSize
              \/ expectedSize' = [expectedSize EXCEPT ![u] = IF @ = 0 THEN request[u].size ELSE @]
  <2>1. HeldBytes' = HeldBytes
    BY <1>7 DEF HeldBytes
  <2>2. /\ expectedSize' \in [Uploads -> Nat]
        /\ \A v \in Uploads : expectedSize'[v] \in {request[v].declared, request[v].size}
    BY <1>1, <1>7 DEF CapacityInv
  <2> QED
    BY <1>2, <1>7, <2>1, <2>2 DEF CapacityInv, queue
<1> QED
  BY <1>5, <1>6, <1>7, StepQueue

-------------------------------------------------------------------------------
(* Uploads that meet.                                                        *)

LEMMA DraftsStart == DraftsInit => DraftsInv
<1> SUFFICES ASSUME DraftsInit
             PROVE  DraftsInv
  OBVIOUS
<1>1. request \in [Uploads -> Request]
  BY UploadDraftsConstants DEF DraftsInit
<1>2. DraftTypes
  BY <1>1 DEF DraftsInit, DraftTypes, ServerTypes, Steps
<1>3. IdInv /\ KnowInv /\ LeftInv /\ ExistsMeansTaken
  BY UploadDraftsConstants DEF DraftsInit, IdInv, KnowInv, LeftInv, ExistsMeansTaken, IsDraft, Results
<1>4. Holders = {} /\ HeldBytes = {}
  BY DEF DraftsInit, Holders, HeldBytes
<1>5. expectedSize \in [Uploads -> Nat] /\ \A u \in Uploads : expectedSize[u] = request[u].declared
  BY <1>1 DEF DraftsInit, Request
<1>6. CapacityInv
  BY <1>4, <1>5, FS_EmptySet DEF DraftsInit, CapacityInv
<1> QED
  BY <1>2, <1>3, <1>6 DEF DraftsInv

LEMMA DraftsKeep == DraftsInv /\ [DraftsNext]_draftVars => DraftsInv'
<1> SUFFICES ASSUME DraftsInv, [DraftsNext]_draftVars
             PROVE  DraftsInv'
  OBVIOUS
<1>1. ASSUME NEW u \in Uploads, Step(u), UNCHANGED request
      PROVE  DraftsInv'
  BY <1>1, TypesKeep, ServerAfter, KnowKeeps, LeftKeeps, CapacityKeeps, ExistsKeeps DEF DraftsInv
<1>2. ASSUME UNCHANGED <<request, upload, queue, server, resent, history>>, known' \in Nat
      PROVE  DraftsInv'
  <2>1. DraftTypes' /\ IdInv' /\ KnowInv' /\ LeftInv' /\ ExistsMeansTaken'
    BY <1>2 DEF DraftsInv, DraftTypes, ServerTypes, IdInv, KnowInv, LeftInv, ExistsMeansTaken, MayDelete,
       IsOwnDraftConflict, IsDraft, upload, server, history
  <2>2. Holders' = Holders /\ HeldBytes' = HeldBytes
    BY <1>2 DEF Holders, HeldBytes, upload
  <2>3. CapacityInv'
    BY <1>2, <2>2 DEF DraftsInv, CapacityInv, upload, queue
  <2> QED
    BY <2>1, <2>3 DEF DraftsInv
<1>3. CASE UNCHANGED draftVars
  BY <1>2, <1>3 DEF draftVars, DraftsInv, DraftTypes
<1>4. CASE RevisionReloaded /\ UNCHANGED request
  BY <1>2, <1>4 DEF RevisionReloaded, DraftsInv, DraftTypes, ServerTypes
<1> QED
  BY <1>1, <1>3, <1>4 DEF DraftsNext

\* A step that removes a draft is that of an upload that may.
LEMMA DraftsKeptStep ==
    DraftsInv /\ [DraftsNext]_draftVars =>
        [link # None /\ link.state = "draft" /\ link' = None =>
           \E u \in Uploads :
               /\ pc'[u] # pc[u]
               /\ \/ mine[u] = link.id
                  \/ request[u].override
                  \/ request[u].client # None /\ request[u].client = link.client]_draftVars
<1>1. ASSUME DraftsInv, DraftsNext, link # None, link.state = "draft", link' = None
      PROVE  \E u \in Uploads :
               /\ pc'[u] # pc[u]
               /\ \/ mine[u] = link.id
                  \/ request[u].override
                  \/ request[u].client # None /\ request[u].client = link.client
  <2>1. PICK u \in Uploads : Step(u) /\ UNCHANGED request
    BY <1>1 DEF DraftsNext, RevisionReloaded, server
  <2>2. DraftTypes /\ IdInv /\ KnowInv
    BY <1>1 DEF DraftsInv
  <2>3. ~Quiet
    BY <1>1 DEF Quiet, server
  <2>4. ~ServerCreates(u) /\ ~ServerCommits(mine[u])
    <3>1. ServerCreates(u) => link' = link \/ link' # None
      BY <2>1, <2>2, CreatesDraft
    <3>2. ServerCommits(mine[u]) => link' = link \/ link' # None
      BY <2>2, CommitsDraft
    <3> QED
      BY <1>1, <3>1, <3>2
  <2>5. CASE pc[u] = "delete" /\ ServerDeletes(mine[u])
    <3>1. mine[u] = link.id
      BY <1>1, <2>5 DEF ServerDeletes
    <3>2. pc'[u] = "done"
      BY <2>1, <2>2, <2>5, StepUpload DEF DraftTypes, Passes, Makes, Meets, Leaves, Moves
    <3> QED
      BY <2>5, <3>1, <3>2
  <2>6. CASE pc[u] = "conflict" /\ ServerDeletes(conflict[u].id)
    <3>1. link.id = conflict[u].id
      BY <1>1, <2>6 DEF ServerDeletes
    <3>2. link.client = conflict[u].client
      BY <1>1, <2>2, <2>6, <3>1 DEF KnowInv
    <3>3. pc'[u] \in {"create", "done"}
      BY <2>1, <2>2, <2>6, StepUpload DEF DraftTypes, Passes, Makes, Meets, Leaves, Moves
    <3>4. IsOwnDraftConflict(u) \/ request[u].override
      <4>1. HandleConflictError(u)
        BY <2>1, <2>6 DEF Step, CheckCapacity, TakeCapacity, StartUpload, CreateDraftOnAPI,
           UploadSmallFile, CreateDraftRevision, UploadSmallRevision, Create, CreateConflicts,
           UploadBlocks, CommitDraft, CommitDraftPhoto, Commit, CheckCommitted,
           NotifyNodeUploaded, DeleteDraftNode, DeleteDraftRevision, DeleteDraft
      <4> QED
        BY <1>1, <4>1 DEF HandleConflictError, MayDelete, server
    <3> QED
      BY <2>6, <3>2, <3>3, <3>4 DEF IsOwnDraftConflict
  <2> QED
    BY <2>1, <2>3, <2>4, <2>5, <2>6, StepServer
<1> QED
  BY <1>1

\* A draft is removed by the upload that made it, by one of the same client or by one
\* that was told to override (isOwnDraftConflict and handleConflictError of
\* manager.ts), for any number of uploads: the draft an upload was told of is still
\* the one that has the id when it deletes it.
THEOREM DraftsOfOthersAreKept == DraftsSpec => OthersDraftsAreKept
  BY DraftsStart, DraftsKeep, DraftsKeptStep, PTL DEF DraftsSpec, OthersDraftsAreKept

-------------------------------------------------------------------------------
(* The small upload: the manifest can be sorted.                             *)

\* A set of numbers that is not empty has a least one.
LEMMA LeastNumber ==
    ASSUME NEW S, S \subseteq Nat, S # {}
    PROVE  \E m \in S : \A y \in S : m <= y
<1>1. PICK m \in S : \A y \in S : <<y, m>> \notin OpToRel(<, Nat)
  BY NatLessThanWellFounded, WFMin, Zenon
<1>2. \A y \in S : y \in Nat /\ m \in Nat /\ ~(y < m)
  BY <1>1 DEF OpToRel
<1> QED
  BY <1>2

\* f enumerates n different places of s so that what stands there does not fall.
Sorts(f, n, s) ==
    /\ \A i, j \in 1 .. n : f[i] = f[j] => i = j
    /\ \A i, j \in 1 .. n : i < j => s[f[i]] <= s[f[j]]

\* Places before which m may stand can be enumerated with it.
LEMMA SortsMore ==
    ASSUME NEW s, NEW T, NEW n \in Nat, NEW f \in [1 .. n -> T], Sorts(f, n, s),
           NEW m, m \notin T, \A x \in T : s[m] <= s[x]
    PROVE  \E g \in [1 .. (n + 1) -> T \cup {m}] : Sorts(g, n + 1, s)
<1> DEFINE g == [i \in 1 .. (n + 1) |-> IF i = 1 THEN m ELSE f[i - 1]]
<1>1. \A i \in 1 .. (n + 1) : i # 1 => i - 1 \in 1 .. n
  OBVIOUS
<1>2. g \in [1 .. (n + 1) -> T \cup {m}]
  BY <1>1
<1>3. g[1] = m /\ \A i \in 1 .. (n + 1) : i # 1 => g[i] = f[i - 1] /\ g[i] \in T
  BY <1>1
<1> HIDE DEF g
<1>4. ASSUME NEW i \in 1 .. (n + 1), NEW j \in 1 .. (n + 1), g[i] = g[j]
      PROVE  i = j
  <2>1. CASE i = 1 \/ j = 1
    BY <1>3, <1>4, <2>1
  <2>2. CASE i # 1 /\ j # 1
    <3>1. i - 1 = j - 1
      BY <1>1, <1>3, <1>4, <2>2 DEF Sorts
    <3> QED
      BY <3>1
  <2> QED
    BY <2>1, <2>2
<1>5. ASSUME NEW i \in 1 .. (n + 1), NEW j \in 1 .. (n + 1), i < j
      PROVE  s[g[i]] <= s[g[j]]
  <2>1. CASE i = 1
    BY <1>3, <1>5, <2>1
  <2>2. CASE i # 1
    <3>1. j # 1 /\ i - 1 < j - 1
      BY <1>5, <2>2
    <3> QED
      BY <1>1, <1>3, <2>2, <3>1 DEF Sorts
  <2> QED
    BY <2>1, <2>2
<1> QED
  BY <1>2, <1>4, <1>5 DEF Sorts

\* A sequence of numbers can be sorted: take the least set of places that cannot, and
\* from it a place where the least number stands.
LEMMA CanBeSorted ==
    ASSUME NEW s \in Seq(Nat)
    PROVE  \E p \in [1 .. Len(s) -> 1 .. Len(s)] : Sorts(p, Len(s), s)
<1> DEFINE N == Len(s)
           P == 1 .. N
           Good(S) == \E f \in [1 .. Cardinality(S) -> S] : Sorts(f, Cardinality(S), s)
           Bad == {S \in SUBSET P : ~Good(S)}
<1>1. N \in Nat /\ IsFiniteSet(P) /\ Cardinality(P) = N
  <2>1. N \in Nat
    OBVIOUS
  <2> HIDE DEF N
  <2>2. /\ IsFiniteSet(1 .. N)
        /\ Cardinality(1 .. N) = IF 1 > N THEN 0 ELSE N - 1 + 1
    BY <2>1, FS_Interval
  <2> QED
    BY <2>1, <2>2
<1>2. \A x \in P : s[x] \in Nat
  OBVIOUS
<1>3. Bad = {}
  <2> SUFFICES ASSUME Bad # {}
               PROVE  FALSE
    OBVIOUS
  <2> HIDE DEF P, N
  <2>1. Bad \subseteq FiniteSubsetsOf(P)
    <3>1. FiniteSubsetsOf(P) = SUBSET P
      BY <1>1, FS_FiniteSubsetsOfFinite
    <3> HIDE DEF Good
    <3> QED
      BY <3>1
  <2>2. PICK B \in Bad : \A S \in Bad : <<S, B>> \notin StrictSubsetOrdering(P)
    <3> HIDE DEF Bad
    <3> QED
      BY <2>1, WFMin, FS_StrictSubsetOrderingWellFounded, Zenon
  <2>3. B \in SUBSET P /\ ~Good(B)
    BY DEF Bad
  <2>4. IsFiniteSet(B) /\ Cardinality(B) \in Nat
    BY <1>1, <2>3, FS_Subset, FS_CardinalityType
  <2>5. B # {}
    <3>1. ASSUME B = {}
          PROVE  FALSE
      <4>1. Cardinality(B) = 0
        BY <3>1, FS_EmptySet
      <4>2. [i \in 1 .. Cardinality(B) |-> 0] \in [1 .. Cardinality(B) -> B]
        BY <4>1
      <4>3. Sorts([i \in 1 .. Cardinality(B) |-> 0], Cardinality(B), s)
        BY <4>1 DEF Sorts
      <4> QED
        BY <2>3, <4>2, <4>3
    <3> QED
      BY <3>1
  <2>6. PICK m \in B : \A x \in B : s[m] <= s[x]
    <3>1. {s[x] : x \in B} \subseteq Nat /\ {s[x] : x \in B} # {}
      BY <1>2, <2>3, <2>5
    <3>2. PICK y \in {s[x] : x \in B} : \A z \in {s[x] : x \in B} : y <= z
      BY <3>1, LeastNumber
    <3> QED
      BY <3>2
  <2> DEFINE T == B \ {m}
  <2>7. T \in SUBSET P /\ T # B /\ T \subseteq B /\ m \notin T /\ T \cup {m} = B
    BY <2>3
  <2>8. Cardinality(T) \in Nat /\ Cardinality(B) = Cardinality(T) + 1
    <3>1. IsFiniteSet(B \ {m}) /\ Cardinality(B \ {m}) = Cardinality(B) - 1
      BY <2>4, FS_RemoveElement
    <3>2. Cardinality(B \ {m}) \in Nat
      BY <3>1, FS_CardinalityType
    <3> QED
      BY <2>4, <3>1, <3>2
  <2> HIDE DEF T
  <2>9. Good(T)
    <3>1. <<T, B>> \in StrictSubsetOrdering(P)
      BY <2>3, <2>7 DEF StrictSubsetOrdering
    <3>2. T \notin Bad
      <4> HIDE DEF Bad
      <4> QED
        BY <2>2, <3>1
    <3> HIDE DEF Good
    <3> QED
      BY <2>7, <3>2
  <2>10. PICK f \in [1 .. Cardinality(T) -> T] : Sorts(f, Cardinality(T), s)
    BY <2>9
  <2>11. \A x \in T : s[m] <= s[x]
    BY <2>6, <2>7
  <2>12. \E g \in [1 .. (Cardinality(T) + 1) -> T \cup {m}] : Sorts(g, Cardinality(T) + 1, s)
    BY <2>7, <2>8, <2>10, <2>11, SortsMore
  <2>13. Good(B)
    BY <2>7, <2>8, <2>12
  <2> QED
    BY <2>3, <2>13
<1>4. Good(P)
  <2> HIDE DEF Good
  <2> QED
    BY <1>3
<1> QED
  BY <1>1, <1>4

\* The sorted sequence: as long, of numbers, and rising.
LEMMA ByTypeIs ==
    ASSUME NEW s \in Seq(Nat)
    PROVE  /\ ByType(s) \in Seq(Nat) /\ Len(ByType(s)) = Len(s)
           /\ \A i, j \in 1 .. Len(s) : i < j => ByType(s)[i] <= ByType(s)[j]
<1> DEFINE Order(p) == /\ \A i, j \in 1 .. Len(s) : p[i] = p[j] => i = j
                       /\ \A i, j \in 1 .. Len(s) : i < j => s[p[i]] <= s[p[j]]
           q == CHOOSE p \in [1 .. Len(s) -> 1 .. Len(s)] : Order(p)
<1>1. \E p \in [1 .. Len(s) -> 1 .. Len(s)] : Order(p)
  BY CanBeSorted DEF Sorts
<1>2. q \in [1 .. Len(s) -> 1 .. Len(s)] /\ Order(q)
  <2> HIDE DEF Order
  <2> QED
    BY <1>1
<1>3. ByType(s) = [i \in 1 .. Len(s) |-> s[q[i]]]
  BY DEF ByType
<1> HIDE DEF q
<1> DEFINE t == [i \in 1 .. Len(s) |-> s[q[i]]]
<1>4. Len(s) \in Nat /\ \A i \in 1 .. Len(s) : s[q[i]] \in Nat
  BY <1>2
<1>5. t \in Seq(Nat) /\ Len(t) = Len(s)
  BY <1>4
<1>6. \A i, j \in 1 .. Len(s) : i < j => t[i] <= t[j]
  BY <1>2
<1> QED
  BY <1>3, <1>5, <1>6, Zenon


-------------------------------------------------------------------------------
(* The small upload.                                                         *)

Thumbs == smallCase.thumbnails

SmallTypes ==
    /\ smallCase \in SmallCases /\ delivered \in Nat /\ readBytes \in Nat
    /\ attempt \in 0 .. MaxEncryptionRetries + 1
    /\ smallAt \in {"read", "encrypt", "send", "ok", "failed"}
    /\ encryptedThumbs \in Seq(Nat) /\ Len(encryptedThumbs) <= Len(Thumbs)
    /\ released = IF smallAt \in {"ok", "failed"} THEN 1 ELSE 0

\* Encryption goes on only with what is as declared, and a block that is to be sent
\* was verified.
BlockInv ==
    /\ smallAt = "read" => block = "pending"
    /\ smallAt \in {"read", "encrypt"} /\ block = "pending" => attempt <= MaxEncryptionRetries
    /\ smallAt \in {"encrypt", "send"} =>
          /\ AsDeclared
          /\ readBytes = 0 => block = "none"
          /\ readBytes # 0 => block \in {"pending", "good"}
    /\ smallAt = "send" => block # "pending" /\ Len(encryptedThumbs) = Len(Thumbs)

SmallInv == SmallTypes /\ BlockInv /\ StoredAsDeclared /\ (smallAt \notin {"ok", "failed"} => ~stored.is)

\* What is sent is what was declared.
LEMMA PayloadIs ==
    ASSUME SmallTypes, BlockInv, smallAt = "send", NEW p, p = Payload
    PROVE  /\ p.is /\ p.size = smallCase.size
           /\ p.block = IF smallCase.size = 0 THEN "none" ELSE "good"
           /\ p.verified => smallCase.sha1 = "right"
           /\ smallCase.sha1 # "wrong"
           /\ Len(p.manifest) = Len(Thumbs) + (IF smallCase.size = 0 THEN 0 ELSE 1)
           /\ \A i, j \in 1 .. Len(Thumbs) : i < j => p.manifest[i] <= p.manifest[j]
<1> DEFINE t == ByType(encryptedThumbs)
           z == IF block = "none" THEN <<>> ELSE <<0>>
           n == Len(Thumbs)
<1>1. readBytes = smallCase.size /\ smallCase.sha1 # "wrong" /\ readBytes \in Nat
  BY DEF SmallTypes, BlockInv, AsDeclared
<1>2. block = IF smallCase.size = 0 THEN "none" ELSE "good"
  BY <1>1 DEF BlockInv
<1>3. /\ t \in Seq(Nat) /\ Len(t) = n /\ n \in Nat
      /\ \A i, j \in 1 .. n : i < j => t[i] <= t[j]
  <2>1. encryptedThumbs \in Seq(Nat) /\ Len(encryptedThumbs) = n /\ Len(encryptedThumbs) \in Nat
    BY DEF SmallTypes, BlockInv
  <2> QED
    BY <2>1, ByTypeIs
<1>4. z \in Seq(Nat) /\ Len(z) = IF smallCase.size = 0 THEN 0 ELSE 1
  BY <1>2
<1> HIDE DEF t, z, n
<1>5. /\ Len(t \o z) = n + (IF smallCase.size = 0 THEN 0 ELSE 1)
      /\ \A i \in 1 .. n : (t \o z)[i] = t[i]
  <2>1. /\ Len(t \o z) = Len(t) + Len(z)
        /\ \A i \in 1 .. Len(t) : (t \o z)[i] = t[i]
    <3>1. t \in Seq(Nat) /\ z \in Seq(Nat)
      BY <1>3, <1>4
    <3> QED
      BY <3>1
  <2> QED
    BY <1>3, <1>4, <2>1, Zenon
<1>6. p.manifest = t \o z
  BY DEF Payload, GetManifest, t, z
<1>7. /\ Len(p.manifest) = n + (IF smallCase.size = 0 THEN 0 ELSE 1)
      /\ \A i, j \in 1 .. n : i < j => p.manifest[i] <= p.manifest[j]
  BY <1>3, <1>5, <1>6
<1>8. p.is /\ p.size = readBytes /\ p.block = block /\ (p.verified => smallCase.sha1 = "right")
  BY DEF Payload
<1> QED
  BY <1>1, <1>2, <1>7, <1>8 DEF n

LEMMA SmallStarts == SmallInit => SmallInv
BY SmallUploadConstants DEF SmallInit, SmallInv, SmallTypes, BlockInv, StoredAsDeclared, NothingStored, Thumbs

\* What is stored does not change before the end.
LEMMA StoredStays ==
    ASSUME SmallInv, UNCHANGED <<smallCase, stored>>, smallAt \in {"read", "encrypt"}, smallAt' # "ok"
    PROVE  StoredAsDeclared' /\ ~stored'.is
BY DEF SmallInv, StoredAsDeclared

LEMMA SmallKeeps == SmallInv /\ [SmallNext]_smallVars => SmallInv'
<1> SUFFICES ASSUME SmallInv, [SmallNext]_smallVars
             PROVE  SmallInv'
  OBVIOUS
<1> USE DEF SmallInv, Thumbs
<1>1. CASE UNCHANGED smallVars
  BY <1>1 DEF smallVars, SmallTypes, BlockInv, AsDeclared, StoredAsDeclared
<1>2. CASE ReadChunk
  <2>1. SmallTypes'
    BY <1>2 DEF ReadChunk, SmallTypes
  <2>2. BlockInv'
    BY <1>2 DEF ReadChunk, SmallTypes, BlockInv, AsDeclared
  <2>3. StoredAsDeclared' /\ ~stored'.is
    BY <1>2, StoredStays DEF ReadChunk
  <2> QED
    BY <2>1, <2>2, <2>3
<1>3. CASE StreamFails
  <2>1. SmallTypes'
    BY <1>3 DEF StreamFails, Finish, SmallTypes
  <2>2. BlockInv'
    BY <1>3 DEF StreamFails, Finish, SmallTypes, BlockInv, AsDeclared
  <2>3. StoredAsDeclared' /\ ~stored'.is
    BY <1>3, StoredStays DEF StreamFails, Finish
  <2> QED
    BY <2>1, <2>2, <2>3
<1>4. CASE StreamRead
  <2>1. SmallTypes'
    BY <1>4 DEF StreamRead, Finish, SmallTypes
  <2>2. BlockInv'
    BY <1>4 DEF StreamRead, Finish, SmallTypes, BlockInv, AsDeclared
  <2>3. StoredAsDeclared' /\ ~stored'.is
    BY <1>4, StoredStays DEF StreamRead, Finish
  <2> QED
    BY <2>1, <2>2, <2>3
<1>5. CASE EncryptThumbnail
  <2>1. CASE UNCHANGED <<smallAt, released>>
    <3>1. /\ smallAt = "encrypt" /\ Len(encryptedThumbs) < Len(Thumbs)
          /\ encryptedThumbs' = Append(encryptedThumbs, Thumbs[Len(encryptedThumbs) + 1])
          /\ UNCHANGED <<smallCase, delivered, readBytes, attempt, block, stored>>
      BY <1>5, <2>1 DEF EncryptThumbnail, Finish, SmallTypes
    <3>2. Thumbs \in Seq(Nat) /\ Len(Thumbs) \in Nat /\ Len(encryptedThumbs) \in Nat
      BY SmallUploadConstants DEF SmallTypes
    <3>3. Thumbs[Len(encryptedThumbs) + 1] \in Nat
      <4>1. Len(encryptedThumbs) + 1 \in 1 .. Len(Thumbs)
        BY <3>1, <3>2
      <4> QED
        BY <3>2, <4>1
    <3>4. encryptedThumbs' \in Seq(Nat) /\ Len(encryptedThumbs') = Len(encryptedThumbs) + 1
      BY <3>1, <3>3 DEF SmallTypes
    <3>5. SmallTypes'
      BY <2>1, <3>1, <3>2, <3>4 DEF SmallTypes
    <3> QED
      BY <2>1, <3>1, <3>5 DEF BlockInv, AsDeclared, StoredAsDeclared
  <2>2. CASE ~UNCHANGED <<smallAt, released>>
    <3>1. /\ smallAt = "encrypt" /\ smallAt' = "failed" /\ released' = released + 1
          /\ UNCHANGED <<smallCase, delivered, readBytes, attempt, block, encryptedThumbs, stored>>
      BY <1>5, <2>2 DEF EncryptThumbnail, Finish
    <3>2. SmallTypes' /\ BlockInv'
      BY <3>1 DEF SmallTypes, BlockInv
    <3> QED
      BY <3>1, <3>2, StoredStays
  <2> QED
    BY <2>1, <2>2
<1>6. ASSUME NEW r \in {"good", "damaged"}, EncryptContentBlock(r)
      PROVE  SmallInv'
  <2>1. /\ smallAt = "encrypt" /\ block = "pending" /\ attempt' = attempt + 1
        /\ UNCHANGED <<smallCase, delivered, readBytes, encryptedThumbs, stored>>
        /\ \/ block' = "good" /\ UNCHANGED <<smallAt, released>>
           \/ block' = block /\ UNCHANGED <<smallAt, released>> /\ attempt + 1 <= MaxEncryptionRetries
           \/ block' = block /\ smallAt' = "failed" /\ released' = released + 1
    BY <1>6 DEF EncryptContentBlock, VerifiesBlock, MayEncryptAgain, Finish
  <2>2. attempt \in Nat /\ MaxEncryptionRetries \in Nat /\ attempt <= MaxEncryptionRetries
    BY <2>1, SmallUploadConstants DEF SmallTypes, BlockInv
  <2>3. SmallTypes'
    BY <2>1, <2>2 DEF SmallTypes
  <2>4. BlockInv'
    BY <2>1, <2>2 DEF BlockInv, AsDeclared
  <2>5. StoredAsDeclared' /\ ~stored'.is
    BY <2>1, StoredStays
  <2> QED
    BY <2>3, <2>4, <2>5
<1>7. CASE PayloadsBuilt
  BY <1>7 DEF PayloadsBuilt, SmallTypes, BlockInv, AsDeclared, StoredAsDeclared
<1>8. CASE UploadSmall
  <2>1. /\ smallAt = "send" /\ smallAt' \in {"ok", "failed"} /\ released' = released + 1
        /\ UNCHANGED <<smallCase, delivered, readBytes, attempt, block, encryptedThumbs>>
        /\ stored' = Payload \/ (stored' = stored /\ smallAt' = "failed")
    BY <1>8 DEF UploadSmall, Finish
  <2>2. SmallTypes' /\ BlockInv'
    BY <2>1 DEF SmallTypes, BlockInv
  <2>3. StoredAsDeclared'
    <3>1. CASE stored' = Payload
      BY <2>1, <3>1, PayloadIs DEF StoredAsDeclared
    <3>2. CASE stored' = stored /\ smallAt' = "failed"
      BY <2>1, <3>2 DEF StoredAsDeclared
    <3> QED
      BY <2>1, <3>1, <3>2
  <2> QED
    BY <2>1, <2>2, <2>3
<1> QED
  BY <1>1, <1>2, <1>3, <1>4, <1>5, <1>6, <1>7, <1>8 DEF SmallNext, SmallStep

-------------------------------------------------------------------------------
(* Keys, names and signatures of nodes.                                      *)

\* The key above a node: its parent's, or that of its share.
KeyAbove(n, l) == IF l.parent = Nowhere THEN ShareKeyOf(n) ELSE NodeKeyOf(l.parent)
\* The key that signs for a claimed author, in place of an anonymous one the given key.
SignedFor(email, key) == IF email = Anonymous THEN key ELSE AddressKey(email)

LinkShape(l) ==
    l = [type |-> l.type, parent |-> l.parent, old |-> l.old, origin |-> l.origin,
         passphrase |-> l.passphrase, passphraseSignature |-> l.passphraseSignature,
         signatureEmail |-> l.signatureEmail, name |-> l.name,
         nameSignatureEmail |-> l.nameSignatureEmail, hash |-> l.hash, hashKey |-> l.hashKey,
         attributes |-> l.attributes, contentKey |-> l.contentKey, revision |-> l.revision]

\* What is encrypted for the key above, with the session keys of the origin.
EncryptedSound(n, l) ==
    /\ l.passphrase = [sessionKey |-> GenerateSessionKey(l.origin), to |-> {KeyAbove(n, l)}]
    /\ l.name = EncryptNodeName(l.name.data, GenerateSessionKey(l.origin), KeyAbove(n, l),
                                SignedFor(l.nameSignatureEmail, KeyAbove(n, l)))
    /\ l.name.data \in NodeNames \cup {"root"}
    /\ l.hash = IF l.parent = Nowhere THEN NoHash ELSE GenerateLookupHash(l.name.data, NodeKeyOf(l.parent))

\* Each signature is one of the author claimed.
SignaturesSound(n, l) ==
    /\ l.signatureEmail \in Clients /\ l.nameSignatureEmail \in Clients
    /\ l.parent = Nowhere => l.signatureEmail = "owner" /\ l.nameSignatureEmail = "owner"
    /\ l.passphraseSignature = SignedFor(l.signatureEmail, KeyAbove(n, l))

ContentSound(n, l) ==
    /\ l.type \in {"folder", "file"} /\ l.origin \in Nodes
    /\ l.type = "folder" =>
          /\ l.origin = n
          /\ l.hashKey = NodeKeyOf(n)
          /\ l.attributes \in {NoKey, NodeKeyOf(n), SignedFor(l.signatureEmail, NodeKeyOf(n))}
    /\ l.type = "file" =>
          /\ \/ l.contentKey = NodeKeyOf(l.origin)
             \/ l.contentKey = AddressKey("alias") /\ l.signatureEmail # Anonymous
          /\ l.revision = [attributes |-> l.revision.attributes, manifest |-> l.revision.manifest,
                           signatureEmail |-> l.revision.signatureEmail]
          /\ l.revision.signatureEmail \in Clients
          /\ l.revision.attributes \in {NoKey, SignedFor(l.revision.signatureEmail, NodeKeyOf(l.origin))}

LinkSound(n, l) == LinkShape(l) /\ EncryptedSound(n, l) /\ SignaturesSound(n, l) /\ ContentSound(n, l)

LinksSound ==
    /\ DOMAIN drive = Nodes
    /\ \A n \in Live(drive) : LinkSound(n, drive[n])

FolderAbove(p) == p \in Live(drive) /\ drive[p].type = "folder"

\* Only folders have children.
ParentsSound == \A n \in Live(drive) : drive[n].parent = Nowhere \/ FolderAbove(drive[n].parent)

AuthorsSound ==
    /\ authorOf \in [Nodes -> [key : Clients, name : Clients, content : Clients]]
    /\ \A n \in Live(drive) :
          /\ authorOf[n].key = drive[n].signatureEmail
          /\ authorOf[n].name = drive[n].nameSignatureEmail
          /\ drive[n].type = "file" => authorOf[n].content = drive[n].revision.signatureEmail

\* Invitations and memberships hold the share's session key for the invitee.
InvitationSound(i) == i.to = AddressKey(i.invitee) /\ i.by = AddressKey(i.inviterEmail)

ShareSound(n, s) ==
    /\ s = [passphrase |-> s.passphrase, name |-> s.name, to |-> s.to, by |-> s.by,
            creatorEmail |-> s.creatorEmail, invited |-> s.invited, members |-> s.members]
    /\ \A i \in s.invited \cup s.members : InvitationSound(i)
    /\ n \in Live(drive)
    /\ drive[n].parent # Nowhere =>
          LET packet == [key |-> ShareKeyOf(n), sessionKey |-> GenerateSessionKey(drive[n].origin)]
          IN s.passphrase = packet /\ s.name = packet

SharesSound ==
    /\ DOMAIN shareOf = Nodes
    /\ \A n \in Nodes : shareOf[n] = NoShare \/ ShareSound(n, shareOf[n])

\* A cached node is an older form of the node: its keys, its type; anonymous still
\* where the node is.
CachedSound(c) ==
    /\ c.client \in Clients /\ c.node \in Live(drive)
    /\ LinkSound(c.node, c.link)
    /\ c.link.type = drive[c.node].type /\ c.link.origin = drive[c.node].origin
    /\ c.link.parent # Nowhere /\ FolderAbove(c.link.parent) /\ drive[c.node].parent # Nowhere
    /\ drive[c.node].signatureEmail = Anonymous => AnonymousKey(c.keyAuthor)
    /\ AnonymousKey(c.keyAuthor) =>
          /\ drive[c.node].type = "folder" => drive[c.node].attributes \in {NoKey, NodeKeyOf(c.node)}
          /\ drive[c.node].type = "file" => drive[c.node].contentKey = NodeKeyOf(drive[c.node].origin)

CachesSound == \A c \in cachedAs : CachedSound(c)

CryptoInv ==
    /\ LinksSound /\ ParentsSound /\ AuthorsSound /\ SharesSound /\ CachesSound /\ SiblingNamesDiffer
    /\ cryptoOps \in 0 .. MaxCryptoOps

-------------------------------------------------------------------------------
(* Nodes reached downwards.                                                  *)

LEMMA NodesAreFinite == IsFiniteSet(Nodes) /\ Cardinality(Nodes) \in Nat /\ Nowhere \notin Nodes
<1>1. IsFiniteSet({"root"}) /\ IsFiniteSet({"shared"}) /\ IsFiniteSet({"private"})
  BY FS_Singleton
<1>2. IsFiniteSet({"root"} \cup {"shared"})
  BY <1>1, FS_Union
<1>3. IsFiniteSet(({"root"} \cup {"shared"}) \cup {"private"})
  BY <1>1, <1>2, FS_Union
<1>4. Nodes = (({"root"} \cup {"shared"}) \cup {"private"}) \cup Items
  BY DEF Nodes
<1>5. IsFiniteSet(Nodes)
  BY <1>3, <1>4, NodeCryptoConstants, FS_Union
<1> QED
  BY <1>5, FS_CardinalityType, NodeCryptoConstants DEF Nodes, Nowhere

\* What is reached is among the nodes it starts from, or below something reached.
LEMMA ReachedFrom ==
    ASSUME NEW from, NEW children
    PROVE  \A n \in Downwards(from, children) :
              n \in from \/ (n \in children /\ drive[n].parent \in Downwards(from, children))
<1> DEFINE
      Lower(S) == {n \in children : drive[n].parent \in S}
      Level(f, k) == f = [d \in 0 .. k |-> IF d = 0 THEN from ELSE f[d - 1] \cup Lower(f[d - 1])]
      N == Cardinality(Nodes)
      step == CHOOSE f : Level(f, N)
<1>1. Downwards(from, children) = step[N]
  BY DEF Downwards
<1>2. N \in Nat
  BY NodesAreFinite
<1>3. \A k \in Nat : \E f : Level(f, k)
  <2> SUFFICES ASSUME \E k \in Nat : ~\E f : Level(f, k) PROVE FALSE
    OBVIOUS
  <2> DEFINE bad == {k \in Nat : ~\E f : Level(f, k)}
  <2>0. bad \subseteq Nat /\ bad # {}
    OBVIOUS
  <2> HIDE DEF bad
  <2>1. PICK k \in bad : \A j \in bad : k <= j
    BY <2>0, LeastNumber
  <2>4. k \in Nat /\ ~\E f : Level(f, k)
    BY <2>1 DEF bad
  <2>2. CASE k = 0
    <3>1. Level([d \in 0 .. 0 |-> from], 0)
      OBVIOUS
    <3> QED
      BY <2>2, <2>4, <3>1
  <2>3. CASE k # 0
    <3>1. k - 1 \in Nat /\ k - 1 \notin bad
      <4>1. k - 1 \in Nat /\ ~(k <= k - 1)
        BY <2>3, <2>4
      <4> QED
        BY <2>1, <4>1
    <3>2. PICK f : Level(f, k - 1)
      BY <3>1 DEF bad
    <3> DEFINE g == [d \in 0 .. k |-> IF d = 0 THEN from ELSE f[d - 1] \cup Lower(f[d - 1])]
    <3> DEFINE next(d) == IF d = 0 THEN from ELSE f[d - 1] \cup Lower(f[d - 1])
    <3>6. f = [d \in 0 .. k - 1 |-> next(d)] /\ g = [d \in 0 .. k |-> next(d)]
      BY <3>2
    <3>7. 0 .. k - 1 \subseteq 0 .. k
      BY <2>4, <3>1
    <3>3. \A d \in 0 .. k - 1 : g[d] = f[d]
      <4> HIDE DEF next, g
      <4> QED
        BY <3>6, <3>7
    <3>4. \A d \in 0 .. k : d # 0 => d - 1 \in 0 .. k - 1
      BY <2>4, <3>1
    <3>5. Level(g, k)
      BY <3>3, <3>4
    <3> QED
      BY <2>4, <3>5
  <2> QED
    BY <2>2, <2>3
<1>4. Level(step, N)
  BY <1>2, <1>3
<1> HIDE DEF step
<1>5. \A d \in 0 .. N : step[d] = IF d = 0 THEN from ELSE step[d - 1] \cup Lower(step[d - 1])
  BY <1>4
<1> HIDE DEF N, Lower
<1>6. \A d \in 0 .. N : \A n \in step[d] : n \in from \/ n \in Lower(step[d])
  <2> SUFFICES ASSUME NEW e \in 0 .. N, ~\A n \in step[e] : n \in from \/ n \in Lower(step[e]) PROVE FALSE
    OBVIOUS
  <2> DEFINE bad == {d \in 0 .. N : ~\A n \in step[d] : n \in from \/ n \in Lower(step[d])}
  <2>0. bad \subseteq Nat /\ bad # {}
    BY <1>2
  <2> HIDE DEF bad
  <2>1. PICK d \in bad : \A j \in bad : d <= j
    BY <2>0, LeastNumber
  <2>7. d \in 0 .. N /\ ~\A n \in step[d] : n \in from \/ n \in Lower(step[d])
    BY <2>1 DEF bad
  <2>2. d # 0
    BY <1>2, <1>5, <2>7
  <2>3. d \in 1 .. N /\ d - 1 \in 0 .. N /\ ~(d <= d - 1)
    BY <1>2, <2>2, <2>7
  <2>4. step[d] = step[d - 1] \cup Lower(step[d - 1])
    BY <1>5, <2>2, <2>7
  <2>5. \A n \in step[d - 1] : n \in from \/ n \in Lower(step[d - 1])
    BY <2>1, <2>3 DEF bad
  <2>6. Lower(step[d - 1]) \subseteq Lower(step[d])
    BY <2>4 DEF Lower
  <2> QED
    BY <2>4, <2>5, <2>6, <2>7
<1> QED
  BY <1>1, <1>2, <1>6 DEF Lower

-------------------------------------------------------------------------------
(* What the invariant says of reading a node.                                *)

LEMMA GrantedAreLive == \A c : Granted(c) \subseteq Live(drive)
<1> TAKE c
<1> DEFINE from == {n \in Live(drive) : Memberships(c, n) # {}}
<1>1. \A n \in Downwards(from, Children) : n \in from \/ n \in Children
  BY ReachedFrom, Zenon
<1> QED
  BY <1>1 DEF Granted, Children

\* A folder's key is made under its own name.
LEMMA KeyOfParent ==
    ASSUME LinksSound, ParentsSound, NEW n \in Live(drive), drive[n].parent # Nowhere
    PROVE  /\ FolderAbove(drive[n].parent)
           /\ NodeKey(drive[n].parent) = KeyAbove(n, drive[n])
<1>1. FolderAbove(drive[n].parent)
  BY DEF ParentsSound
<1>2. drive[drive[n].parent].origin = drive[n].parent
  BY <1>1 DEF LinksSound, LinkSound, ContentSound, FolderAbove
<1> QED
  BY <1>1, <1>2 DEF NodeKey, KeyAbove

LEMMA ParentGranted ==
    ASSUME LinksSound, ParentsSound, NEW n \in Live(drive), NEW c, HasParent(c, n)
    PROVE  /\ drive[n].parent # Nowhere
           /\ FolderAbove(drive[n].parent)
           /\ GetParentKey(c, n) = KeyAbove(n, drive[n])
<1>1. drive[n].parent # Nowhere
  BY GrantedAreLive, NodesAreFinite DEF HasParent, Live
<1> QED
  BY <1>1, KeyOfParent DEF GetParentKey

\* The packets of a share open the node's passphrase and name.
LEMMA ShareOpens ==
    ASSUME LinksSound, SharesSound, NEW n \in Live(drive), shareOf[n] # NoShare
    PROVE  /\ DecryptArmored(drive[n].passphrase, ShareKeyOf(n), Packets(n))
           /\ DecryptArmored(drive[n].name, ShareKeyOf(n), Packets(n))
<1>1. ShareSound(n, shareOf[n]) /\ LinkSound(n, drive[n])
  BY DEF SharesSound, LinksSound, Live
<1>2. CASE drive[n].parent = Nowhere
  BY <1>1, <1>2 DEF LinkSound, EncryptedSound, KeyAbove, DecryptArmored, EncryptNodeName, EncryptAndSignArmored
<1>3. CASE drive[n].parent # Nowhere
  <2>1. [key |-> ShareKeyOf(n), sessionKey |-> GenerateSessionKey(drive[n].origin)] \in Packets(n)
    BY <1>1, <1>3 DEF ShareSound, Packets
  <2>2. drive[n].passphrase.sessionKey = GenerateSessionKey(drive[n].origin)
    BY <1>1 DEF LinkSound, EncryptedSound
  <2>3. drive[n].name.sessionKey = GenerateSessionKey(drive[n].origin)
    BY <1>1 DEF LinkSound, EncryptedSound, EncryptNodeName, EncryptAndSignArmored
  <2> QED
    BY <2>1, <2>2, <2>3 DEF DecryptArmored
<1> QED
  BY <1>2, <1>3

\* What is granted can be opened.
LEMMA GrantedIsOpened ==
    ASSUME LinksSound, ParentsSound, SharesSound
    PROVE  \A c : Opened(c) = Granted(c)
<1> TAKE c
<1>1. \A n \in Live(drive) :
         Memberships(c, n) # {} <=> GetSharePrivateKey(c, n) /\ PassphraseOpens(n, ShareKeyOf(n))
  <2> TAKE n \in Live(drive)
  <2>1. ASSUME NEW m \in Memberships(c, n)
        PROVE  GetSharePrivateKey(c, n) /\ PassphraseOpens(n, ShareKeyOf(n))
    <3>1. shareOf[n] # NoShare /\ m \in shareOf[n].members /\ m.invitee = c
      BY <2>1 DEF Memberships
    <3>2. m.to = AddressKey(c)
      BY <3>1 DEF SharesSound, ShareSound, InvitationSound, Live
    <3> QED
      BY <2>1, <3>1, <3>2, ShareOpens DEF GetSharePrivateKey, PassphraseOpens
  <2>2. GetSharePrivateKey(c, n) => Memberships(c, n) # {}
    BY DEF GetSharePrivateKey
  <2> QED
    BY <2>1, <2>2
<1>2. \A n \in Children : PassphraseOpens(n, NodeKey(drive[n].parent))
  <2> TAKE n \in Children
  <2>1. NodeKey(drive[n].parent) = KeyAbove(n, drive[n])
    BY KeyOfParent DEF Children
  <2>2. LinkSound(n, drive[n])
    BY DEF Children, LinksSound
  <2> QED
    BY <2>1, <2>2 DEF LinkSound, EncryptedSound, PassphraseOpens, DecryptArmored
<1>3. {n \in Live(drive) : GetSharePrivateKey(c, n) /\ PassphraseOpens(n, ShareKeyOf(n))}
      = {n \in Live(drive) : Memberships(c, n) # {}}
  BY <1>1
<1>4. {n \in Children : PassphraseOpens(n, NodeKey(drive[n].parent))} = Children
  BY <1>2
<1> QED
  BY <1>3, <1>4 DEF Opened, Granted

LEMMA InvDecrypts ==
    ASSUME LinksSound, ParentsSound, SharesSound
    PROVE  GrantedIsDecryptable
<1> SUFFICES ASSUME NEW c \in Clients, NEW n \in Granted(c) PROVE n \in Opened(c) /\ DecryptsName(c, n)
  BY DEF GrantedIsDecryptable
<1>1. n \in Live(drive) /\ n \in Opened(c)
  BY GrantedAreLive, GrantedIsOpened
<1>2. CASE HasParent(c, n)
  <2>2. LinkSound(n, drive[n])
    BY <1>1 DEF LinksSound
  <2>1. KeyAbove(n, drive[n]) \in drive[n].name.to
    BY <2>2 DEF LinkSound, EncryptedSound, EncryptNodeName, EncryptAndSignArmored
  <2> QED
    BY <1>1, <1>2, <2>1, ParentGranted DEF DecryptsName, DecryptArmored
<1>3. CASE ~HasParent(c, n)
  <2> DEFINE from == {x \in Live(drive) : Memberships(c, x) # {}}
  <2>3. Granted(c) = Downwards(from, Children)
    BY DEF Granted
  <2> HIDE DEF from
  <2>4. \A x \in Downwards(from, Children) :
           x \in from \/ (x \in Children /\ drive[x].parent \in Downwards(from, Children))
    BY ReachedFrom, Zenon
  <2>1. n \in from
    BY <1>3, <2>3, <2>4 DEF HasParent
  <2>2. shareOf[n] # NoShare
    BY <2>1 DEF Memberships, from
  <2> QED
    BY <1>1, <1>3, <2>2, ShareOpens DEF DecryptsName, GetParentKey
<1> QED
  BY <1>1, <1>2, <1>3

\* Every part of the final key author names the author claimed.
LEMMA KeyAuthorClaimed ==
    ASSUME NEW c, NEW n
    PROVE  FinalKeyAuthor(c, n) \in {AuthorOk(drive[n].signatureEmail), AuthorError(drive[n].signatureEmail)}
<1> DEFINE email == drive[n].signatureEmail
           both == {AuthorOk(email), AuthorError(email)}
<1>1. \A v, k : HandleClaimedAuthor(v, email, k) \in both
  BY DEF HandleClaimedAuthor
<1>2. \A a, k : DecryptExtendedAttributes(a, k, email) \in both
  BY <1>1 DEF DecryptExtendedAttributes
<1>3. DecryptKeyAuthor(c, n) \in both /\ DecryptHashKeyAuthor(n) \in both /\ FolderAttributesAuthor(n) \in both
  BY <1>1, <1>2 DEF DecryptKeyAuthor, DecryptHashKeyAuthor, FolderAttributesAuthor
<1>4. HandleClaimedAuthor(DecryptContentKeyPacket(c, n), email, FALSE) \in both
  BY <1>1
<1> DEFINE parts == {DecryptKeyAuthor(c, n)} \cup
                    (IF IsFolder(n) THEN {DecryptHashKeyAuthor(n), FolderAttributesAuthor(n)}
                     ELSE {HandleClaimedAuthor(DecryptContentKeyPacket(c, n), email, FALSE)})
           failed == {p \in parts : ~p.ok}
<1>5. parts \subseteq both
  BY <1>3, <1>4
<1>6. FinalKeyAuthor(c, n) = IF failed = {} THEN DecryptKeyAuthor(c, n) ELSE CHOOSE p \in failed : TRUE
  BY DEF FinalKeyAuthor
<1> HIDE DEF parts
<1>7. failed # {} => (CHOOSE p \in failed : TRUE) \in failed
  OBVIOUS
<1> QED
  BY <1>3, <1>5, <1>6, <1>7

\* The signatures of the key, the hash key, the attributes and the content key are
\* those of the author claimed, but where an exception is named.
LEMMA KeyAuthorVerifies ==
    ASSUME LinksSound, ParentsSound, NEW c, NEW n \in Live(drive),
           ~AttributesOfVisitor(n),
           ~IsFolder(n) /\ drive[n].contentKey = AddressKey("alias") => drive[n].old /\ c = "owner"
    PROVE  FinalKeyAuthor(c, n) = AuthorOk(drive[n].signatureEmail)
<1> DEFINE email == drive[n].signatureEmail
<1>1. LinkSound(n, drive[n])
  BY DEF LinksSound
<1>2. DecryptKeyAuthor(c, n) = AuthorOk(email)
  <2>1. CASE email # Anonymous
    BY <1>1, <2>1 DEF LinkSound, SignaturesSound, SignedFor, DecryptKeyAuthor, VerificationKeys, GetPublicKeys,
                      HandleClaimedAuthor, VerifyArmored
  <2>2. CASE email = Anonymous /\ HasParent(c, n)
    BY <1>1, <2>2, ParentGranted DEF LinkSound, SignaturesSound, SignedFor, DecryptKeyAuthor, VerificationKeys,
                                     HandleClaimedAuthor, VerifyArmored
  <2>3. CASE email = Anonymous /\ ~HasParent(c, n)
    BY <2>3 DEF DecryptKeyAuthor, VerificationKeys, HandleClaimedAuthor
  <2> QED
    BY <2>1, <2>2, <2>3
<1>3. CASE IsFolder(n)
  <2>1. /\ drive[n].origin = n
        /\ drive[n].hashKey = NodeKeyOf(n)
        /\ drive[n].attributes \in {NoKey, NodeKeyOf(n), SignedFor(email, NodeKeyOf(n))}
    BY <1>1, <1>3 DEF LinkSound, ContentSound, IsFolder
  <2>2. DecryptHashKeyAuthor(n) = AuthorOk(email)
    BY <2>1 DEF DecryptHashKeyAuthor, HandleClaimedAuthor, VerifyArmored, NodeKey
  <2>3. FolderAttributesAuthor(n) = AuthorOk(email)
    <3>1. CASE drive[n].attributes = NoKey
      BY <3>1 DEF FolderAttributesAuthor, DecryptExtendedAttributes
    <3>2. CASE drive[n].attributes # NoKey /\ email = Anonymous
      BY <2>1, <3>2 DEF FolderAttributesAuthor, DecryptExtendedAttributes, SignedFor, HandleClaimedAuthor,
                        VerifyArmored, NodeKey
    <3>3. CASE drive[n].attributes # NoKey /\ email # Anonymous
      <4>1. drive[n].attributes = AddressKey(email)
        BY <1>3, <2>1, <3>3 DEF AttributesOfVisitor, SignedFor, NodeKey
      <4> QED
        BY <3>3, <4>1 DEF FolderAttributesAuthor, DecryptExtendedAttributes, HandleClaimedAuthor, VerifyArmored,
                          GetPublicKeys
    <3> QED
      BY <3>1, <3>2, <3>3
  <2> QED
    BY <1>2, <1>3, <2>2, <2>3 DEF FinalKeyAuthor, AuthorOk
<1>4. CASE ~IsFolder(n)
  <2>1. drive[n].contentKey = NodeKeyOf(drive[n].origin) \/ drive[n].contentKey = AddressKey("alias")
    BY <1>1, <1>4 DEF LinkSound, ContentSound, IsFolder
  <2>2. DecryptContentKeyPacket(c, n)
    BY <1>4, <2>1 DEF DecryptContentKeyPacket, VerifyArmored, NodeKey, GetOwnAddresses
  <2>3. HandleClaimedAuthor(DecryptContentKeyPacket(c, n), email, FALSE) = AuthorOk(email)
    BY <2>2 DEF HandleClaimedAuthor
  <2> QED
    BY <1>2, <1>4, <2>3 DEF FinalKeyAuthor, AuthorOk
<1> QED
  BY <1>3, <1>4

LEMMA InvVerifies ==
    ASSUME LinksSound, ParentsSound, AuthorsSound, SharesSound
    PROVE  AuthorsVerify
<1> SUFFICES ASSUME NEW c \in Clients, NEW n \in Granted(c)
             PROVE  /\ DecryptNameAuthor(c, n) = AuthorOk(authorOf[n].name)
                    /\ \/ AttributesOfVisitor(n)
                       \/ drive[n].contentKey = AddressKey("alias") /\ ~(drive[n].old /\ c = "owner")
                       \/ FinalKeyAuthor(c, n) = AuthorOk(authorOf[n].key)
                    /\ ~IsFolder(n) => DecryptRevisionAuthor(n) = AuthorOk(authorOf[n].content)
                    /\ MembershipVerifies(c, n)
  BY DEF AuthorsVerify
<1>1. n \in Live(drive)
  BY GrantedAreLive
<1>2. LinkSound(n, drive[n])
  BY <1>1 DEF LinksSound
<1>3. /\ authorOf[n].key = drive[n].signatureEmail
      /\ authorOf[n].name = drive[n].nameSignatureEmail
      /\ ~IsFolder(n) => authorOf[n].content = drive[n].revision.signatureEmail
  BY <1>1, <1>2 DEF AuthorsSound, LinkSound, ContentSound, IsFolder
<1> DEFINE email == drive[n].nameSignatureEmail
<1>4. drive[n].name.by = SignedFor(email, KeyAbove(n, drive[n]))
  BY <1>2 DEF LinkSound, EncryptedSound, EncryptNodeName, EncryptAndSignArmored
<1>5. DecryptNameAuthor(c, n) = AuthorOk(email)
  <2>1. CASE email # Anonymous
    BY <1>4, <2>1 DEF SignedFor, DecryptNameAuthor, VerificationKeys, GetPublicKeys, HandleClaimedAuthor,
                      VerifyArmored
  <2>2. CASE email = Anonymous /\ HasParent(c, n)
    BY <1>1, <1>4, <2>2, ParentGranted DEF SignedFor, DecryptNameAuthor, VerificationKeys, HandleClaimedAuthor,
                                           VerifyArmored
  <2>3. CASE email = Anonymous /\ ~HasParent(c, n)
    BY <2>3 DEF DecryptNameAuthor, VerificationKeys, HandleClaimedAuthor
  <2> QED
    BY <2>1, <2>2, <2>3
<1>6. ~IsFolder(n) => DecryptRevisionAuthor(n) = AuthorOk(drive[n].revision.signatureEmail)
  <2> SUFFICES ASSUME ~IsFolder(n) PROVE DecryptRevisionAuthor(n) = AuthorOk(drive[n].revision.signatureEmail)
    OBVIOUS
  <2>1. drive[n].revision.attributes
           \in {NoKey, SignedFor(drive[n].revision.signatureEmail, NodeKeyOf(drive[n].origin))}
    BY <1>2 DEF LinkSound, ContentSound, IsFolder
  <2> QED
    BY <2>1 DEF DecryptRevisionAuthor, DecryptExtendedAttributes, SignedFor, HandleClaimedAuthor, VerifyArmored,
                NodeKey, GetPublicKeys
<1>7. MembershipVerifies(c, n)
  BY <1>1 DEF MembershipVerifies, Memberships, VerifyArmored, GetPublicKeys, SharesSound, ShareSound,
              InvitationSound, Live
<1> QED
  BY <1>1, <1>3, <1>5, <1>6, <1>7, KeyAuthorVerifies

-------------------------------------------------------------------------------
(* The first state.                                                          *)

LEMMA RootLinkSound == LinkSound("root", RootLink)
<1>1. RootLink.parent = Nowhere
  BY DEF RootLink
<1>2. KeyAbove("root", RootLink) = ShareKeyOf("root")
  BY <1>1 DEF KeyAbove
<1>3. LinkShape(RootLink)
  BY DEF LinkShape, RootLink
<1>4. EncryptedSound("root", RootLink)
  BY <1>2 DEF EncryptedSound, RootLink, EncryptNodeName, EncryptAndSignArmored, SignedFor, Anonymous
<1>5. SignaturesSound("root", RootLink)
  BY <1>2 DEF SignaturesSound, RootLink, SignedFor, Anonymous, Clients
<1>6. ContentSound("root", RootLink)
  BY DEF ContentSound, RootLink, Nodes
<1> QED
  BY <1>3, <1>4, <1>5, <1>6 DEF LinkSound

\* The fields of a link of the owner's own.
OwnFields(l, n, type, parent, name) ==
    /\ LinkShape(l)
    /\ l.type = type /\ l.parent = parent /\ l.origin = n
    /\ l.passphrase = [sessionKey |-> GenerateSessionKey(n), to |-> {NodeKeyOf(parent)}]
    /\ l.passphraseSignature = AddressKey("owner") /\ l.signatureEmail = "owner"
    /\ l.name = EncryptNodeName(name, GenerateSessionKey(n), NodeKeyOf(parent), AddressKey("owner"))
    /\ l.nameSignatureEmail = "owner" /\ l.hash = GenerateLookupHash(name, NodeKeyOf(parent))
    /\ l.hashKey = (IF type = "folder" THEN NodeKeyOf(n) ELSE NoKey) /\ l.attributes = NoKey
    /\ l.revision = [attributes |-> NoKey, manifest |-> NoKey, signatureEmail |-> "owner"]

LEMMA OwnLinkIs ==
    ASSUME NEW n, NEW type, NEW parent, NEW name
    PROVE  OwnFields(OwnLink(n, type, parent, name), n, type, parent, name)
<1>1. PICK r : r = RootLink
  OBVIOUS
<1>2. /\ LinkShape(r)
      /\ r.passphraseSignature = AddressKey("owner") /\ r.signatureEmail = "owner"
      /\ r.nameSignatureEmail = "owner" /\ r.attributes = NoKey
      /\ r.revision = [attributes |-> NoKey, manifest |-> NoKey, signatureEmail |-> "owner"]
  BY <1>1 DEF LinkShape, RootLink
<1>3. PICK l : l = OwnLink(n, type, parent, name)
  OBVIOUS
<1>4. PICK p, q, h, k :
         /\ p = [sessionKey |-> GenerateSessionKey(n), to |-> {NodeKeyOf(parent)}]
         /\ q = EncryptNodeName(name, GenerateSessionKey(n), NodeKeyOf(parent), AddressKey("owner"))
         /\ h = GenerateLookupHash(name, NodeKeyOf(parent))
         /\ k = IF type = "folder" THEN NodeKeyOf(n) ELSE NoKey
  OBVIOUS
<1>5. l = [r EXCEPT !.type = type, !.parent = parent, !.origin = n, !.passphrase = p, !.name = q,
                    !.hash = h, !.hashKey = k]
  BY <1>1, <1>3, <1>4 DEF OwnLink
<1>6. /\ LinkShape(l)
      /\ l.type = type /\ l.parent = parent /\ l.origin = n /\ l.passphrase = p /\ l.name = q
      /\ l.passphraseSignature = r.passphraseSignature /\ l.signatureEmail = r.signatureEmail
      /\ l.nameSignatureEmail = r.nameSignatureEmail /\ l.hash = h /\ l.hashKey = k
      /\ l.attributes = r.attributes /\ l.revision = r.revision
  BY <1>2, <1>5 DEF LinkShape
<1> QED
  BY <1>2, <1>3, <1>4, <1>6 DEF OwnFields

LEMMA OldFileIs ==
    ASSUME NEW n, NEW name
    PROVE  /\ OwnFields(OldFile(n, name), n, "file", "shared", name)
           /\ OldFile(n, name).contentKey = AddressKey("alias")
<1>1. PICK r : r = OwnLink(n, "file", "shared", name)
  OBVIOUS
<1>2. PICK l : l = OldFile(n, name)
  OBVIOUS
<1>3. l = [r EXCEPT !.old = TRUE, !.contentKey = AddressKey("alias")]
  BY <1>1, <1>2 DEF OldFile
<1>4. OwnFields(r, n, "file", "shared", name)
  BY <1>1, OwnLinkIs
<1>5. OwnFields(l, n, "file", "shared", name) /\ l.contentKey = AddressKey("alias")
  BY <1>3, <1>4 DEF OwnFields, LinkShape
<1> QED
  BY <1>2, <1>5

LEMMA OwnSound ==
    ASSUME NEW l, NEW n \in Nodes, NEW type \in {"folder", "file"}, NEW parent \in Nodes, NEW name \in NodeNames,
           OwnFields(l, n, type, parent, name), type = "file" => l.contentKey = AddressKey("alias")
    PROVE  LinkSound(n, l)
<1>1. parent # Nowhere /\ KeyAbove(n, l) = NodeKeyOf(parent)
  BY NodesAreFinite DEF KeyAbove, OwnFields
<1>2. SignedFor("owner", KeyAbove(n, l)) = AddressKey("owner") /\ "owner" # Anonymous /\ "owner" \in Clients
  BY DEF SignedFor, Anonymous, Clients
<1>3. LinkShape(l)
  BY DEF OwnFields
<1>4. EncryptedSound(n, l)
  <2>1. l.name.data = name
    BY DEF OwnFields, EncryptNodeName, EncryptAndSignArmored
  <2> QED
    BY <1>1, <1>2, <2>1 DEF OwnFields, EncryptedSound
<1>5. SignaturesSound(n, l)
  BY <1>1, <1>2 DEF SignaturesSound, OwnFields
<1>6. ContentSound(n, l)
  BY <1>2 DEF ContentSound, OwnFields
<1> QED
  BY <1>3, <1>4, <1>5, <1>6 DEF LinkSound

LEMMA CryptoStart == CryptoInit => CryptoInv
<1> SUFFICES ASSUME CryptoInit PROVE CryptoInv
  OBVIOUS
<1> DEFINE a == CHOOSE x \in NodeNames : TRUE
           b == CHOOSE x \in NodeNames : x # a
<1>1. a \in NodeNames /\ b \in NodeNames /\ a # b
  <2>1. PICK x \in NodeNames, y \in NodeNames : x # y
    BY NodeCryptoConstants
  <2>2. a \in NodeNames
    BY <2>1
  <2> HIDE DEF a
  <2>3. \E z \in NodeNames : z # a
    BY <2>1
  <2> QED
    BY <2>2, <2>3
<1>2. drive = [n \in Nodes |-> CASE n = "root" -> RootLink
                                 [] n = "shared" -> OwnLink(n, "folder", "root", a)
                                 [] n = "private" -> OwnLink(n, "folder", "root", b)
                                 [] n \in OldFiles -> OldFile(n, a)
                                 [] OTHER -> NoLink]
  BY DEF CryptoInit
<1> HIDE DEF a, b
<1>3. {"root", "shared", "private"} \subseteq Nodes /\ OldFiles \subseteq Nodes
      /\ "root" \notin OldFiles /\ "shared" \notin OldFiles /\ "private" \notin OldFiles
  BY NodeCryptoConstants DEF Nodes
<1>4. /\ drive["root"] = RootLink
      /\ drive["shared"] = OwnLink("shared", "folder", "root", a)
      /\ drive["private"] = OwnLink("private", "folder", "root", b)
      /\ \A n \in OldFiles : drive[n] = OldFile(n, a)
      /\ \A n \in Nodes \ ({"root", "shared", "private"} \cup OldFiles) : drive[n] = NoLink
  BY <1>2, <1>3, Zenon
<1>5. \A n \in Live(drive) : n \in {"root", "shared", "private"} \cup OldFiles
  BY <1>4 DEF Live
<1>6. /\ drive["root"].type = "folder" /\ drive["root"].parent = Nowhere /\ drive["root"].origin = "root"
      /\ drive["root"].signatureEmail = "owner" /\ drive["root"].nameSignatureEmail = "owner"
  BY <1>4 DEF RootLink
<1>7. /\ drive["shared"].type = "folder" /\ drive["shared"].parent = "root" /\ drive["shared"].origin = "shared"
      /\ drive["shared"].signatureEmail = "owner" /\ drive["shared"].nameSignatureEmail = "owner"
      /\ drive["shared"].name.data = a
  <2>1. OwnFields(drive["shared"], "shared", "folder", "root", a)
    BY <1>4, OwnLinkIs
  <2> QED
    BY <2>1 DEF OwnFields, EncryptNodeName, EncryptAndSignArmored
<1>8. /\ drive["private"].type = "folder" /\ drive["private"].parent = "root"
      /\ drive["private"].signatureEmail = "owner" /\ drive["private"].nameSignatureEmail = "owner"
      /\ drive["private"].name.data = b
  <2>1. OwnFields(drive["private"], "private", "folder", "root", b)
    BY <1>4, OwnLinkIs
  <2> QED
    BY <2>1 DEF OwnFields, EncryptNodeName, EncryptAndSignArmored
<1>9. \A n \in OldFiles : /\ drive[n].type = "file" /\ drive[n].parent = "shared"
                          /\ drive[n].signatureEmail = "owner" /\ drive[n].nameSignatureEmail = "owner"
                          /\ drive[n].revision.signatureEmail = "owner"
  <2>1. \A n \in OldFiles : OwnFields(drive[n], n, "file", "shared", a)
    BY <1>4, OldFileIs
  <2> TAKE n \in OldFiles
  <2>2. PICK l : l = drive[n] /\ OwnFields(l, n, "file", "shared", a)
    BY <2>1
  <2> QED
    BY <2>2 DEF OwnFields
<1>10. LinksSound
  <2>1. DOMAIN drive = Nodes
    BY <1>2
  <2>2. LinkSound("root", drive["root"])
    BY <1>4, RootLinkSound
  <2>3. LinkSound("shared", drive["shared"]) /\ LinkSound("private", drive["private"])
    BY <1>1, <1>3, <1>4, OwnLinkIs, OwnSound
  <2>4. \A n \in OldFiles : LinkSound(n, drive[n])
    BY <1>1, <1>3, <1>4, OldFileIs, OwnSound
  <2> QED
    BY <1>5, <2>1, <2>2, <2>3, <2>4 DEF LinksSound
<1>11. FolderAbove("root") /\ FolderAbove("shared")
  BY <1>3, <1>6, <1>7 DEF FolderAbove, Live, NoLink
<1>12. ParentsSound
  BY <1>5, <1>6, <1>7, <1>8, <1>9, <1>11 DEF ParentsSound
<1>13. AuthorsSound
  <2>1. authorOf = [n \in Nodes |-> [key |-> "owner", name |-> "owner", content |-> "owner"]]
    BY DEF CryptoInit
  <2>2. authorOf \in [Nodes -> [key : Clients, name : Clients, content : Clients]]
    BY <2>1 DEF Clients
  <2>3. Live(drive) \subseteq Nodes
    BY DEF Live
  <2> QED
    BY <1>5, <1>6, <1>7, <1>8, <1>9, <2>1, <2>2, <2>3 DEF AuthorsSound
<1>14. SharesSound
  <2>1. shareOf = [n \in Nodes |-> CASE n = "root" -> RootShare [] n = "shared" -> FolderShare [] OTHER -> NoShare]
    BY DEF CryptoInit
  <2>2. shareOf["root"] = RootShare /\ shareOf["shared"] = FolderShare
    BY <1>3, <2>1
  <2>3. \A n \in Nodes \ {"root", "shared"} : shareOf[n] = NoShare
    BY <2>1
  <2>4. ShareSound("root", RootShare)
    BY <1>6, <1>11 DEF ShareSound, RootShare, InvitationSound, EncryptInvitation, FolderAbove
  <2>5. ShareSound("shared", FolderShare)
    BY <1>7, <1>11 DEF ShareSound, FolderShare, InvitationSound, EncryptInvitation, FolderAbove
  <2> QED
    BY <2>1, <2>2, <2>3, <2>4, <2>5 DEF SharesSound
<1>15. SiblingNamesDiffer
  <2>1. Nowhere # "root" /\ Nowhere # "shared" /\ "root" # "shared"
    BY DEF Nowhere
  <2> QED
    BY <1>1, <1>5, <1>6, <1>7, <1>8, <1>9, <2>1, NodeCryptoConstants DEF SiblingNamesDiffer
<1> QED
  BY <1>10, <1>12, <1>13, <1>14, <1>15, NodeCryptoConstants DEF CryptoInv, CachesSound, CryptoInit

-------------------------------------------------------------------------------
(* A link stored.                                                            *)

NameFree(n, l) ==
    \A s \in Live(drive) \ {n} :
        l.parent # Nowhere /\ drive[s].parent = l.parent => drive[s].name.data # l.name.data

\* What never changes in a node, or in one direction only.
Replaces(l, k) ==
    /\ l.type = k.type /\ l.origin = k.origin
    /\ l.parent = Nowhere <=> k.parent = Nowhere
    /\ l.signatureEmail = Anonymous => k.signatureEmail = Anonymous
    /\ l.attributes = k.attributes /\ l.contentKey = k.contentKey

NodeFits(n, l) ==
    /\ LinkSound(n, l)
    /\ l.parent = Nowhere \/ FolderAbove(l.parent)
    /\ n \in Live(drive) => Replaces(l, drive[n])
    /\ NameFree(n, l)

AuthorFits(a, l) ==
    /\ a \in [key : Clients, name : Clients, content : Clients]
    /\ a.key = l.signatureEmail /\ a.name = l.nameSignatureEmail
    /\ l.type = "file" => a.content = l.revision.signatureEmail

LEMMA LinkStored ==
    ASSUME LinksSound, ParentsSound, SiblingNamesDiffer, NEW n \in Nodes, NEW l, NodeFits(n, l),
           drive' = [drive EXCEPT ![n] = l]
    PROVE  /\ LinksSound' /\ ParentsSound' /\ SiblingNamesDiffer'
           /\ Live(drive)' = Live(drive) \cup {n}
           /\ \A p : FolderAbove(p) => FolderAbove(p)'
<1>1. drive'[n] = l /\ DOMAIN drive' = Nodes /\ \A m \in Nodes : m # n => drive'[m] = drive[m]
  BY DEF LinksSound
<1>2. LinkSound(n, l) /\ (l.parent = Nowhere \/ FolderAbove(l.parent)) /\ NameFree(n, l)
  BY DEF NodeFits
<1>3. l # NoLink
  BY <1>2 DEF LinkSound, ContentSound, NoLink
<1>4. Live(drive)' = Live(drive) \cup {n}
  BY <1>1, <1>3 DEF Live
<1>5. \A m \in Live(drive) : m \in Nodes
  BY DEF Live
<1>6. LinksSound'
  BY <1>1, <1>2, <1>4, <1>5 DEF LinksSound
<1>7. n \in Live(drive) => l.type = drive[n].type
  BY DEF NodeFits, Replaces
<1>8. \A p : FolderAbove(p) => FolderAbove(p)'
  BY <1>1, <1>4, <1>5, <1>7 DEF FolderAbove
<1>9. ParentsSound'
  <2>1. \A m \in Live(drive)' : drive'[m].parent = Nowhere \/ FolderAbove(drive'[m].parent)
    BY <1>1, <1>2, <1>4, <1>5 DEF ParentsSound
  <2>2. \A p : FolderAbove(p) => p \in Live(drive)' /\ drive'[p].type = "folder"
    BY <1>8 DEF FolderAbove
  <2> QED
    BY <2>1, <2>2 DEF ParentsSound, FolderAbove
<1>10. SiblingNamesDiffer'
  <2> SUFFICES ASSUME NEW m \in Live(drive)', NEW s \in Live(drive)', m # s, drive'[m].parent = drive'[s].parent,
                      drive'[m].parent # Nowhere
               PROVE  drive'[m].name.data # drive'[s].name.data
    BY DEF SiblingNamesDiffer
  <2>1. CASE m = n
    BY <1>1, <1>2, <1>4, <1>5, <2>1 DEF NameFree
  <2>2. CASE s = n
    BY <1>1, <1>2, <1>4, <1>5, <2>2 DEF NameFree
  <2>3. CASE m # n /\ s # n
    BY <1>1, <1>4, <1>5, <2>3 DEF SiblingNamesDiffer
  <2> QED
    BY <2>1, <2>2, <2>3
<1> QED
  BY <1>4, <1>6, <1>8, <1>9, <1>10

LEMMA SharesKept ==
    ASSUME LinksSound, ParentsSound, SiblingNamesDiffer, NEW n \in Nodes, NEW l, NodeFits(n, l),
           drive' = [drive EXCEPT ![n] = l], NEW m \in Nodes, NEW s, ShareSound(m, s)
    PROVE  ShareSound(m, s)'
<1>2. m \in Live(drive)'
  BY LinkStored DEF ShareSound
<1>3. drive'[m].origin = drive[m].origin /\ (drive'[m].parent = Nowhere <=> drive[m].parent = Nowhere)
  BY DEF NodeFits, Replaces, LinksSound, ShareSound
<1> QED
  BY <1>2, <1>3 DEF ShareSound

\* A node in a cache whose link is replaced.
LEMMA CacheKept ==
    ASSUME LinksSound, ParentsSound, SiblingNamesDiffer, NEW n \in Nodes, NEW l, NodeFits(n, l),
           drive' = [drive EXCEPT ![n] = l], NEW c, CachedSound(c)
    PROVE  CachedSound(c)'
<1>1. c.node \in Live(drive)' /\ FolderAbove(c.link.parent)'
  BY LinkStored DEF CachedSound
<1>2. drive'[c.node] = (IF c.node = n THEN l ELSE drive[c.node])
  BY DEF LinksSound, CachedSound, Live
<1>3. CASE c.node # n
  BY <1>1, <1>2, <1>3 DEF CachedSound
<1>4. CASE c.node = n
  BY <1>1, <1>2, <1>4 DEF CachedSound, NodeFits, Replaces
<1> QED
  BY <1>3, <1>4

LEMMA AuthorsKept ==
    ASSUME LinksSound, ParentsSound, SiblingNamesDiffer, AuthorsSound, NEW n \in Nodes, NEW l, NodeFits(n, l),
           drive' = [drive EXCEPT ![n] = l], NEW a, AuthorFits(a, l), authorOf' = [authorOf EXCEPT ![n] = a]
    PROVE  AuthorsSound'
<1>1. drive'[n] = l /\ \A m \in Nodes : m # n => drive'[m] = drive[m]
  BY DEF LinksSound
<1>2. authorOf'[n] = a /\ \A m \in Nodes : m # n => authorOf'[m] = authorOf[m]
  BY DEF AuthorsSound
<1>3. authorOf' \in [Nodes -> [key : Clients, name : Clients, content : Clients]]
  BY DEF AuthorsSound, AuthorFits
<1>4. \A m \in Live(drive)' : m \in Nodes /\ (m = n \/ m \in Live(drive))
  BY LinkStored DEF Live
<1> SUFFICES ASSUME NEW m \in Live(drive)'
             PROVE  /\ authorOf'[m].key = drive'[m].signatureEmail
                    /\ authorOf'[m].name = drive'[m].nameSignatureEmail
                    /\ drive'[m].type = "file" => authorOf'[m].content = drive'[m].revision.signatureEmail
  BY <1>3 DEF AuthorsSound
<1>5. CASE m = n
  BY <1>1, <1>2, <1>5 DEF AuthorFits
<1>6. CASE m # n
  BY <1>1, <1>2, <1>4, <1>6 DEF AuthorsSound
<1> QED
  BY <1>5, <1>6

\* A link and its authors stored, with the caches at most shrinking.
LEMMA Stored ==
    ASSUME CryptoInv, NEW n \in Nodes, NEW l, NodeFits(n, l), NEW a, AuthorFits(a, l),
           drive' = [drive EXCEPT ![n] = l], authorOf' = [authorOf EXCEPT ![n] = a],
           shareOf' = shareOf, cachedAs' \subseteq cachedAs, cryptoOps' \in 0 .. MaxCryptoOps
    PROVE  CryptoInv'
<1>1. LinksSound' /\ ParentsSound' /\ SiblingNamesDiffer'
  BY LinkStored DEF CryptoInv
<1>2. AuthorsSound'
  BY AuthorsKept DEF CryptoInv
<1>3. SharesSound'
  <2>1. DOMAIN shareOf' = Nodes
    BY DEF CryptoInv, SharesSound
  <2>2. \A m \in Nodes : \A s : ShareSound(m, s) => ShareSound(m, s)'
    BY SharesKept DEF CryptoInv
  <2> QED
    BY <2>1, <2>2 DEF CryptoInv, SharesSound
<1>4. CachesSound'
  <2>1. \A c \in cachedAs' : CachedSound(c)
    BY DEF CryptoInv, CachesSound
  <2>2. \A c : CachedSound(c) => CachedSound(c)'
    BY CacheKept DEF CryptoInv
  <2> QED
    BY <2>1, <2>2 DEF CachesSound
<1> QED
  BY <1>1, <1>2, <1>3, <1>4 DEF CryptoInv

-------------------------------------------------------------------------------
(* Nodes created.                                                            *)

LEMMA FolderChosen ==
    ASSUME LinksSound, ParentsSound, SharesSound, NEW c, NEW p \in OpenFolders(c)
    PROVE  FolderAbove(p) /\ p \in Nodes /\ p # Nowhere /\ NodeKey(p) = NodeKeyOf(p)
<1>1. p \in Live(drive) /\ drive[p].type = "folder"
  BY GrantedIsOpened, GrantedAreLive DEF OpenFolders, IsFolder
<1>2. drive[p].origin = p
  BY <1>1 DEF LinksSound, LinkSound, ContentSound
<1>3. p \in Nodes
  BY <1>1 DEF Live
<1> QED
  BY <1>1, <1>2, <1>3, NodesAreFinite DEF FolderAbove, NodeKey

\* Lookup hashes that differ are of names that differ.
LEMMA HashesTell ==
    ASSUME LinksSound, NEW n, NEW l, LinkSound(n, l), HashFree(n, l.parent, l.hash)
    PROVE  NameFree(n, l)
<1> SUFFICES ASSUME NEW s \in Live(drive) \ {n}, l.parent # Nowhere, drive[s].parent = l.parent,
                    drive[s].name.data = l.name.data
             PROVE  FALSE
  BY DEF NameFree
<1>1. drive[s].hash # l.hash
  BY DEF HashFree, Siblings
<1>2. LinkSound(s, drive[s])
  BY DEF LinksSound
<1>3. drive[s].hash = GenerateLookupHash(l.name.data, NodeKeyOf(l.parent))
  BY <1>2 DEF LinkSound, EncryptedSound
<1>4. l.hash = GenerateLookupHash(l.name.data, NodeKeyOf(l.parent))
  BY DEF LinkSound, EncryptedSound
<1> QED
  BY <1>1, <1>3, <1>4

\* The fields of a link that a client made under a folder.
NewFields(l, n, type, parent, name, client) ==
    /\ LinkShape(l)
    /\ l.type = type /\ l.parent = parent /\ l.origin = n
    /\ l.passphrase = [sessionKey |-> GenerateSessionKey(n), to |-> {NodeKeyOf(parent)}]
    /\ l.passphraseSignature = SignedFor(client, NodeKeyOf(parent)) /\ l.signatureEmail = client
    /\ l.name = EncryptNodeName(name, GenerateSessionKey(n), NodeKeyOf(parent), SignedFor(client, NodeKeyOf(parent)))
    /\ l.nameSignatureEmail = client /\ l.hash = GenerateLookupHash(name, NodeKeyOf(parent))

\* The signing keys of a client under a folder.
SigningFields(signing, c, n, p) ==
    /\ signing.email = c
    /\ signing.key = (IF c # Anonymous THEN AddressKey(c) ELSE NoKey)
    /\ NamePassphraseKey(signing) = SignedFor(c, NodeKeyOf(p))
    /\ n = Nowhere => \A k : ContentKey(signing, k) = SignedFor(c, k)
    /\ n # Nowhere => \A k : ContentKey(signing, k) = SignedFor(c, NodeKey(n))

LEMMA SigningKeys ==
    ASSUME NEW c, NEW n, NEW p, NodeKey(p) = NodeKeyOf(p), NEW signing, signing = GetNodeSigningKeys(c, n, p)
    PROVE  SigningFields(signing, c, n, p)
<1>1. NodeKey(n) # NoKey
  BY DEF NodeKey, NodeKeyOf, NoKey
<1> QED
  BY <1>1 DEF SigningFields, GetNodeSigningKeys, NamePassphraseKey, ContentKey, SignedFor

LEMMA NewLinkIs ==
    ASSUME NEW n, NEW type, NEW parent, NEW name, NEW c, NodeKey(parent) = NodeKeyOf(parent), NEW signing,
           signing = GetNodeSigningKeys(c, Nowhere, parent)
    PROVE  NewFields(NewLink(n, type, parent, name, signing), n, type, parent, name, c)
<1>1. signing.email = c /\ NamePassphraseKey(signing) = SignedFor(c, NodeKeyOf(parent))
  BY SigningKeys DEF SigningFields
<1>2. LinkShape(NewLink(n, type, parent, name, signing))
  BY DEF NewLink, LinkShape
<1> QED
  BY <1>1, <1>2 DEF NewFields, NewLink, GenerateKey, EncryptPassphrase, EncryptAndSignDetachedArmored

LEMMA NewSound ==
    ASSUME NEW l, NEW n \in Nodes, NEW type \in {"folder", "file"}, NEW parent \in Nodes, NEW name \in NodeNames,
           NEW c \in Clients, NewFields(l, n, type, parent, name, c),
           type = "folder" => l.hashKey = NodeKeyOf(n) /\ l.attributes \in {NoKey, SignedFor(c, NodeKeyOf(n))},
           type = "file" => /\ l.contentKey = NodeKeyOf(n)
                            /\ \E x \in {NoKey, SignedFor(c, NodeKeyOf(n))} : \E y :
                                  l.revision = [attributes |-> x, manifest |-> y, signatureEmail |-> c]
    PROVE  LinkSound(n, l) /\ AuthorFits([key |-> c, name |-> c, content |-> c], l)
<1>1. parent # Nowhere /\ KeyAbove(n, l) = NodeKeyOf(parent)
  BY NodesAreFinite DEF KeyAbove, NewFields
<1>3. LinkShape(l)
  BY DEF NewFields
<1>4. EncryptedSound(n, l)
  <2>1. l.name.data = name
    BY DEF NewFields, EncryptNodeName, EncryptAndSignArmored
  <2> QED
    BY <1>1, <2>1 DEF NewFields, EncryptedSound
<1>5. SignaturesSound(n, l)
  BY <1>1 DEF SignaturesSound, NewFields
<1>6. l.type = type /\ l.origin = n /\ l.signatureEmail = c /\ l.nameSignatureEmail = c
  BY DEF NewFields
<1>7. type = "file" => /\ l.revision.signatureEmail = c
                       /\ l.revision = [attributes |-> l.revision.attributes, manifest |-> l.revision.manifest,
                                        signatureEmail |-> l.revision.signatureEmail]
                       /\ l.revision.attributes \in {NoKey, SignedFor(c, NodeKeyOf(n))}
  <2> SUFFICES ASSUME type = "file"
               PROVE  /\ l.revision.signatureEmail = c
                      /\ l.revision = [attributes |-> l.revision.attributes, manifest |-> l.revision.manifest,
                                       signatureEmail |-> l.revision.signatureEmail]
                      /\ l.revision.attributes \in {NoKey, SignedFor(c, NodeKeyOf(n))}
    OBVIOUS
  <2>1. PICK x \in {NoKey, SignedFor(c, NodeKeyOf(n))} :
           \E y : l.revision = [attributes |-> x, manifest |-> y, signatureEmail |-> c]
    OBVIOUS
  <2>2. PICK y : l.revision = [attributes |-> x, manifest |-> y, signatureEmail |-> c]
    BY <2>1
  <2> QED
    BY <2>2
<1>8. ContentSound(n, l)
  BY <1>6, <1>7 DEF ContentSound
<1> QED
  BY <1>3, <1>4, <1>5, <1>6, <1>7, <1>8 DEF LinkSound, AuthorFits

LEMMA CreateFolderSound ==
    ASSUME CryptoInv, NEW c \in Clients, NEW p \in OpenFolders(c), NEW n \in Nodes, NEW name \in NodeNames,
           NEW x \in BOOLEAN, NEW l, l = CreateFolderCrypto(n, p, name, GetNodeSigningKeys(c, Nowhere, p), x)
    PROVE  LinkSound(n, l) /\ AuthorFits([key |-> c, name |-> c, content |-> c], l) /\ l.parent = p
<1>0. FolderAbove(p) /\ p \in Nodes /\ NodeKey(p) = NodeKeyOf(p)
  BY FolderChosen DEF CryptoInv
<1>1. PICK signing : signing = GetNodeSigningKeys(c, Nowhere, p)
  OBVIOUS
<1>2. PICK k : k = NewLink(n, "folder", p, name, signing)
  OBVIOUS
<1>3. PICK h, a : h = NodeKeyOf(n) /\ a = IF x THEN ContentKey(signing, NodeKeyOf(n)) ELSE NoKey
  OBVIOUS
<1>4. l = [k EXCEPT !.hashKey = h, !.attributes = a]
  BY <1>1, <1>2, <1>3 DEF CreateFolderCrypto, GenerateHashKey, EncryptExtendedAttributes
<1>7. a \in {NoKey, SignedFor(c, NodeKeyOf(n))}
  BY <1>0, <1>1, <1>3, SigningKeys DEF SigningFields
<1>5. NewFields(k, n, "folder", p, name, c)
  BY <1>0, <1>1, <1>2, NewLinkIs
<1>6. NewFields(l, n, "folder", p, name, c) /\ l.hashKey = h /\ l.attributes = a
  BY <1>4, <1>5 DEF NewFields, LinkShape
<1>8. l.parent = p
  BY <1>6 DEF NewFields
<1> QED
  BY <1>0, <1>3, <1>6, <1>7, <1>8, NewSound

LEMMA FileCryptoSound ==
    ASSUME CryptoInv, NEW c \in Clients, NEW p \in OpenFolders(c), NEW n \in Nodes, NEW name \in NodeNames,
           NEW l, \/ l = GenerateFileCrypto(n, p, name, GetNodeSigningKeys(c, Nowhere, p))
                  \/ l = GenerateDocument(n, p, name, GetNodeSigningKeys(c, Nowhere, p))
    PROVE  LinkSound(n, l) /\ AuthorFits([key |-> c, name |-> c, content |-> c], l) /\ l.parent = p
<1>0. FolderAbove(p) /\ p \in Nodes /\ NodeKey(p) = NodeKeyOf(p)
  BY FolderChosen DEF CryptoInv
<1>1. PICK signing : signing = GetNodeSigningKeys(c, Nowhere, p)
  OBVIOUS
<1>2. PICK k : k = NewLink(n, "file", p, name, signing)
  OBVIOUS
<1>3. PICK m : m = ContentKey(signing, NodeKeyOf(n))
  OBVIOUS
<1>4. PICK h, r : /\ l = [k EXCEPT !.contentKey = h, !.revision = r]
                  /\ h = NodeKeyOf(n)
                  /\ \/ r = [attributes |-> m, manifest |-> m, signatureEmail |-> signing.email]
                     \/ r = [attributes |-> NoKey, manifest |-> m, signatureEmail |-> signing.email]
  <2>1. CASE l = GenerateFileCrypto(n, p, name, GetNodeSigningKeys(c, Nowhere, p))
    <3>1. l = [k EXCEPT !.contentKey = NodeKeyOf(n),
                        !.revision = [attributes |-> m, manifest |-> m, signatureEmail |-> signing.email]]
      BY <1>1, <1>2, <1>3, <2>1 DEF GenerateFileCrypto, CommitFile, GenerateContentKey,
                                    EncryptExtendedAttributes, SignManifest
    <3> QED
      BY <3>1
  <2>2. CASE l = GenerateDocument(n, p, name, GetNodeSigningKeys(c, Nowhere, p))
    <3>1. l = [k EXCEPT !.contentKey = NodeKeyOf(n),
                        !.revision = [attributes |-> NoKey, manifest |-> m, signatureEmail |-> signing.email]]
      BY <1>1, <1>2, <1>3, <2>2 DEF GenerateDocument, GenerateContentKey, SignManifest
    <3> QED
      BY <3>1
  <2> QED
    BY <2>1, <2>2
<1>7. signing.email = c /\ m = SignedFor(c, NodeKeyOf(n))
  BY <1>0, <1>1, <1>3, SigningKeys DEF SigningFields
<1>8. \E x \in {NoKey, SignedFor(c, NodeKeyOf(n))} : \E y :
         r = [attributes |-> x, manifest |-> y, signatureEmail |-> c]
  BY <1>4, <1>7
<1>5. NewFields(k, n, "file", p, name, c)
  BY <1>0, <1>1, <1>2, NewLinkIs
<1>6. NewFields(l, n, "file", p, name, c) /\ l.contentKey = h /\ l.revision = r
  BY <1>4, <1>5 DEF NewFields, LinkShape
<1>9. l.parent = p
  BY <1>6 DEF NewFields
<1> QED
  BY <1>0, <1>4, <1>6, <1>8, <1>9, NewSound

\* A new node of a client's own under a folder it has open.
LEMMA CreationStored ==
    ASSUME CryptoInv, NEW c \in Clients, NEW p \in OpenFolders(c), NEW n \in Items, NEW l,
           LinkSound(n, l), AuthorFits([key |-> c, name |-> c, content |-> c], l), l.parent = p,
           Operation, ~Exists(n), Store(c, n, l)
    PROVE  CryptoInv'
<1>1. n \in Nodes /\ n \notin Live(drive)
  BY DEF Nodes, Live, Exists
<1>2. FolderAbove(l.parent)
  BY FolderChosen DEF CryptoInv
<1>3. NameFree(n, l)
  BY HashesTell DEF Store, CryptoInv
<1>4. NodeFits(n, l)
  BY <1>1, <1>2, <1>3 DEF NodeFits
<1>5. cryptoOps' \in 0 .. MaxCryptoOps
  BY NodeCryptoConstants DEF Operation, CryptoInv
<1> QED
  BY <1>1, <1>4, <1>5, Stored DEF Store

-------------------------------------------------------------------------------
(* Nodes seen and changed.                                                   *)

LEMMA ChildChosen ==
    ASSUME CryptoInv, NEW c, NEW n \in OpenChildren(c)
    PROVE  /\ n \in Live(drive) /\ n \in Nodes /\ HasParent(c, n)
           /\ drive[n].parent # Nowhere /\ FolderAbove(drive[n].parent)
           /\ NodeKey(drive[n].parent) = NodeKeyOf(drive[n].parent)
<1>1. n \in Live(drive) /\ HasParent(c, n)
  BY GrantedIsOpened, GrantedAreLive DEF OpenChildren, CryptoInv
<1>2. drive[n].parent # Nowhere
  BY <1>1, ParentGranted DEF CryptoInv
<1> QED
  BY <1>1, <1>2, KeyOfParent DEF CryptoInv, KeyAbove, Live

LEMMA LoadedSound ==
    ASSUME CryptoInv, NEW c \in Clients, NEW n \in OpenChildren(c)
    PROVE  CachedSound(LoadNode(c, n))
<1>1. PICK s : s = LoadNode(c, n)
  OBVIOUS
<1>2. s.client = c /\ s.node = n /\ s.link = drive[n] /\ s.keyAuthor = FinalKeyAuthor(c, n)
  BY <1>1 DEF LoadNode
<1>3. LinkSound(n, drive[n])
  BY ChildChosen DEF CryptoInv, LinksSound
<1>4. drive[n].signatureEmail = Anonymous => AnonymousKey(s.keyAuthor)
  <2> SUFFICES ASSUME drive[n].signatureEmail = Anonymous PROVE AnonymousKey(s.keyAuthor)
    OBVIOUS
  <2>1. ~AttributesOfVisitor(n)
    BY DEF AttributesOfVisitor
  <2>2. ~IsFolder(n) => drive[n].contentKey # AddressKey("alias")
    BY <1>3 DEF LinkSound, ContentSound, IsFolder, NodeKeyOf, AddressKey
  <2> QED
    BY <1>2, <2>1, <2>2, ChildChosen, KeyAuthorVerifies DEF AnonymousKey, CryptoInv
<1>5. AnonymousKey(s.keyAuthor) => drive[n].signatureEmail = Anonymous
  <2>1. s.keyAuthor \in {AuthorOk(drive[n].signatureEmail), AuthorError(drive[n].signatureEmail)}
    BY <1>2, KeyAuthorClaimed
  <2>2. \A e : AuthorOk(e).value = e /\ AuthorError(e).value = e
    BY DEF AuthorOk, AuthorError
  <2> QED
    BY <2>1, <2>2 DEF AnonymousKey
<1>6. drive[n].signatureEmail = Anonymous =>
         /\ drive[n].type = "folder" => drive[n].attributes \in {NoKey, NodeKeyOf(n)}
         /\ drive[n].type = "file" => drive[n].contentKey = NodeKeyOf(drive[n].origin)
  BY <1>3 DEF LinkSound, ContentSound, SignedFor
<1> QED
  BY <1>1, <1>2, <1>3, <1>4, <1>5, <1>6, ChildChosen DEF CachedSound

LEMMA SeenSound ==
    ASSUME CryptoInv, NEW c \in Clients, NEW n \in OpenChildren(c), NEW seen \in NodesSeen(c, n)
    PROVE  CachedSound(seen) /\ seen.node = n
<1>1. CASE seen \in cachedAs /\ seen.node = n
  BY <1>1 DEF CryptoInv, CachesSound
<1>2. CASE seen = LoadNode(c, n)
  BY <1>2, LoadedSound DEF LoadNode
<1> QED
  BY <1>1, <1>2 DEF NodesSeen

\* A node in sync is in the folder, and has the name, that the client sees.
LEMMA InSyncIs ==
    ASSUME CryptoInv, NEW s, CachedSound(s), InSync(s.node, s.link.hash)
    PROVE  /\ s.link.parent = drive[s.node].parent
           /\ s.link.name.data = drive[s.node].name.data
<1>1. LinkSound(s.node, drive[s.node]) /\ LinkSound(s.node, s.link)
  BY DEF CryptoInv, LinksSound, CachedSound
<1>2. s.link.hash = GenerateLookupHash(s.link.name.data, NodeKeyOf(s.link.parent))
  BY <1>1 DEF LinkSound, EncryptedSound, CachedSound
<1>3. drive[s.node].hash = GenerateLookupHash(drive[s.node].name.data, NodeKeyOf(drive[s.node].parent))
  BY <1>1 DEF LinkSound, EncryptedSound, CachedSound
<1> QED
  BY <1>2, <1>3 DEF InSync, GenerateLookupHash, NodeKeyOf

\* The node key of a folder a cached node is in.
LEMMA SeenParentKey ==
    ASSUME CryptoInv, NEW p, FolderAbove(p)
    PROVE  NodeKey(p) = NodeKeyOf(p)
  BY DEF CryptoInv, LinksSound, LinkSound, ContentSound, FolderAbove, NodeKey

LEMMA SameNameFree ==
    ASSUME SiblingNamesDiffer, NEW n \in Live(drive), NEW l, l.parent = drive[n].parent,
           l.name.data = drive[n].name.data
    PROVE  NameFree(n, l)
  BY DEF SiblingNamesDiffer, NameFree

LEMMA UploadRevisionKeeps ==
    ASSUME CryptoInv, NEW c \in Clients, NEW n \in OpenChildren(c), UploadRevision(c, n)
    PROVE  CryptoInv'
<1>0. n \in Live(drive) /\ n \in Nodes /\ NodeKey(drive[n].parent) = NodeKeyOf(drive[n].parent)
  BY ChildChosen
<1>1. PICK k : k = drive[n]
  OBVIOUS
<1>2. LinkSound(n, k) /\ k.type = "file"
  BY <1>0, <1>1 DEF CryptoInv, LinksSound, UploadRevision, IsFolder, LinkSound, ContentSound
<1>3. PICK signing : signing = GetNodeSigningKeys(c, n, k.parent)
  OBVIOUS
<1>4. PICK m : m = ContentKey(signing, NodeKeyOf(k.origin))
  OBVIOUS
<1>5. signing.email = c /\ m = SignedFor(c, NodeKeyOf(k.origin))
  <2>1. n # Nowhere
    BY <1>0, NodesAreFinite
  <2> QED
    BY <1>0, <1>1, <1>3, <1>4, <2>1, SigningKeys DEF SigningFields, NodeKey
<1>6. PICK r : r = [attributes |-> m, manifest |-> m, signatureEmail |-> signing.email]
  OBVIOUS
<1>7. PICK l : l = [k EXCEPT !.revision = r]
  OBVIOUS
<1>8. drive' = [drive EXCEPT ![n] = l]
  BY <1>1, <1>3, <1>4, <1>6, <1>7 DEF UploadRevision, CommitFile, EncryptExtendedAttributes, SignManifest
<1>9. /\ LinkShape(l) /\ l.type = k.type /\ l.parent = k.parent /\ l.origin = k.origin
      /\ l.passphrase = k.passphrase /\ l.passphraseSignature = k.passphraseSignature
      /\ l.signatureEmail = k.signatureEmail /\ l.name = k.name
      /\ l.nameSignatureEmail = k.nameSignatureEmail /\ l.hash = k.hash /\ l.hashKey = k.hashKey
      /\ l.attributes = k.attributes /\ l.contentKey = k.contentKey /\ l.revision = r
  BY <1>2, <1>7 DEF LinkSound, LinkShape
<1>10. LinkSound(n, l)
  <2>1. KeyAbove(n, l) = KeyAbove(n, k)
    BY <1>9 DEF KeyAbove
  <2>2. EncryptedSound(n, l) /\ SignaturesSound(n, l)
    BY <1>2, <1>9, <2>1 DEF LinkSound, EncryptedSound, SignaturesSound
  <2>3. ContentSound(n, l)
    BY <1>2, <1>5, <1>6, <1>9 DEF LinkSound, ContentSound
  <2> QED
    BY <1>9, <2>2, <2>3 DEF LinkSound
<1>11. NodeFits(n, l)
  <2>1. l.parent = Nowhere \/ FolderAbove(l.parent)
    BY <1>0, <1>1, <1>9 DEF CryptoInv, ParentsSound
  <2>2. Replaces(l, drive[n])
    BY <1>1, <1>9 DEF Replaces
  <2>3. NameFree(n, l)
    BY <1>0, <1>1, <1>9, SameNameFree DEF CryptoInv
  <2> QED
    BY <1>10, <2>1, <2>2, <2>3 DEF NodeFits
<1>12. PICK b : b = authorOf[n]
  OBVIOUS
<1>13. PICK a : a = [b EXCEPT !.content = c]
  OBVIOUS
<1>14. AuthorFits(a, l)
  <2>1. b \in [key : Clients, name : Clients, content : Clients]
    BY <1>0, <1>12 DEF CryptoInv, AuthorsSound
  <2>2. b.key = k.signatureEmail /\ b.name = k.nameSignatureEmail
    BY <1>0, <1>1, <1>12 DEF CryptoInv, AuthorsSound
  <2> QED
    BY <1>5, <1>6, <1>9, <1>13, <2>1, <2>2 DEF AuthorFits
<1>15. authorOf' = [authorOf EXCEPT ![n] = a]
  BY <1>12, <1>13 DEF UploadRevision
<1>16. shareOf' = shareOf /\ cachedAs' \subseteq cachedAs /\ cryptoOps' \in 0 .. MaxCryptoOps
  BY NodeCryptoConstants DEF UploadRevision, Operation, CryptoInv
<1> QED
  BY <1>0, <1>8, <1>11, <1>14, <1>15, <1>16, Stored

LEMMA CacheNodeKeeps ==
    ASSUME CryptoInv, NEW c \in Clients, NEW n \in OpenChildren(c), CacheNode(c, n)
    PROVE  CryptoInv'
<1>1. drive' = drive /\ shareOf' = shareOf /\ authorOf' = authorOf /\ cryptoOps' = cryptoOps
      /\ cachedAs' = cachedAs \cup {LoadNode(c, n)}
  BY DEF CacheNode
<1>2. \A x \in cachedAs' : CachedSound(x)
  BY <1>1, LoadedSound DEF CryptoInv, CachesSound
<1>3. CachesSound'
  BY <1>1, <1>2 DEF CachesSound, CachedSound, FolderAbove
<1>4. LinksSound' /\ ParentsSound' /\ AuthorsSound' /\ SharesSound' /\ SiblingNamesDiffer'
  BY <1>1 DEF CryptoInv, LinksSound, ParentsSound, AuthorsSound, SharesSound, ShareSound, SiblingNamesDiffer, FolderAbove
<1> QED
  BY <1>1, <1>3, <1>4 DEF CryptoInv

\* Steps that leave the drive, its authors and the shares alone.
LEMMA OnlyCachesShrink ==
    ASSUME CryptoInv, drive' = drive, shareOf' = shareOf, authorOf' = authorOf, cachedAs' \subseteq cachedAs,
           cryptoOps' \in 0 .. MaxCryptoOps
    PROVE  CryptoInv'
<1>3. CachesSound'
  BY DEF CachesSound, CachedSound, FolderAbove, CryptoInv
<1>4. LinksSound' /\ ParentsSound' /\ AuthorsSound' /\ SharesSound' /\ SiblingNamesDiffer'
  BY DEF CryptoInv, LinksSound, ParentsSound, AuthorsSound, SharesSound, ShareSound, SiblingNamesDiffer, FolderAbove
<1> QED
  BY <1>3, <1>4 DEF CryptoInv

\* What a rename does to the node.
LEMMA RenameIs ==
    ASSUME NEW c, NEW n, NEW name, RenameNode(c, n, name)
    PROVE  \E seen \in NodesSeen(c, n) :
         LET parent == seen.link.parent
             hash == GenerateLookupHash(name, NodeKey(parent))
             signing == GetNodeSigningKeys(c, n, parent)
         IN /\ cachedAs' \subseteq cachedAs
            /\ \/ /\ InSync(n, seen.link.hash) /\ HashFree(n, drive[n].parent, hash)
                  /\ drive' = [drive EXCEPT ![n].name = EncryptNewName(seen.link, NodeKey(parent), name, signing),
                                            ![n].nameSignatureEmail = signing.email,
                                            ![n].hash = hash]
                  /\ authorOf' = [authorOf EXCEPT ![n].name = c]
               \/ drive' = drive /\ authorOf' = authorOf
<1>1. PICK seen \in NodesSeen(c, n) :
         LET parent == seen.link.parent
             hash == GenerateLookupHash(name, NodeKey(parent))
             signing == GetNodeSigningKeys(c, n, parent)
             free == HashFree(n, drive[n].parent, hash)
         IN /\ IF InSync(n, seen.link.hash) /\ free
               THEN /\ drive' = [drive EXCEPT ![n].name = EncryptNewName(seen.link, NodeKey(parent), name, signing),
                                              ![n].nameSignatureEmail = signing.email,
                                              ![n].hash = hash]
                    /\ authorOf' = [authorOf EXCEPT ![n].name = c]
               ELSE UNCHANGED <<drive, authorOf>>
            /\ cachedAs' = IF InSync(n, seen.link.hash) /\ ~free THEN cachedAs ELSE Forget(c, n)
  BY Zenon DEF RenameNode
<1>2. cachedAs' \subseteq cachedAs
  BY <1>1 DEF Forget
<1>3. CASE InSync(n, seen.link.hash) /\ HashFree(n, drive[n].parent, GenerateLookupHash(name, NodeKey(seen.link.parent)))
  BY <1>1, <1>2, <1>3, Zenon
<1>4. CASE ~(InSync(n, seen.link.hash) /\ HashFree(n, drive[n].parent, GenerateLookupHash(name, NodeKey(seen.link.parent))))
  <2>1. drive' = drive /\ authorOf' = authorOf
    BY <1>1, <1>4
  <2> QED
    BY <1>2, <2>1, Zenon
<1> QED
  BY <1>3, <1>4, Zenon

LEMMA RenameNodeKeeps ==
    ASSUME CryptoInv, NEW c \in Clients, NEW n \in OpenChildren(c), NEW name \in NodeNames, RenameNode(c, n, name)
    PROVE  CryptoInv'
<1>0. n \in Live(drive) /\ n \in Nodes
  BY ChildChosen
<1>1. shareOf' = shareOf /\ cryptoOps' \in 0 .. MaxCryptoOps
  BY NodeCryptoConstants DEF RenameNode, Operation, CryptoInv
<1>5. PICK seen \in NodesSeen(c, n) :
         LET parent == seen.link.parent
             hash == GenerateLookupHash(name, NodeKey(parent))
             signing == GetNodeSigningKeys(c, n, parent)
         IN /\ cachedAs' \subseteq cachedAs
            /\ \/ /\ InSync(n, seen.link.hash) /\ HashFree(n, drive[n].parent, hash)
                  /\ drive' = [drive EXCEPT ![n].name = EncryptNewName(seen.link, NodeKey(parent), name, signing),
                                            ![n].nameSignatureEmail = signing.email,
                                            ![n].hash = hash]
                  /\ authorOf' = [authorOf EXCEPT ![n].name = c]
               \/ drive' = drive /\ authorOf' = authorOf
  BY RenameIs, Zenon
<1>2. PICK parent, hash, signing :
         /\ parent = seen.link.parent
         /\ hash = GenerateLookupHash(name, NodeKey(parent))
         /\ signing = GetNodeSigningKeys(c, n, parent)
         /\ cachedAs' \subseteq cachedAs
         /\ \/ /\ InSync(n, seen.link.hash) /\ HashFree(n, drive[n].parent, hash)
               /\ drive' = [drive EXCEPT ![n].name = EncryptNewName(seen.link, NodeKey(parent), name, signing),
                                         ![n].nameSignatureEmail = signing.email,
                                         ![n].hash = hash]
               /\ authorOf' = [authorOf EXCEPT ![n].name = c]
            \/ drive' = drive /\ authorOf' = authorOf
  BY <1>5
<1>3. CASE drive' = drive /\ authorOf' = authorOf
  BY <1>1, <1>2, <1>3, OnlyCachesShrink
<1>4. CASE /\ InSync(n, seen.link.hash) /\ HashFree(n, drive[n].parent, hash)
           /\ drive' = [drive EXCEPT ![n].name = EncryptNewName(seen.link, NodeKey(parent), name, signing),
                                     ![n].nameSignatureEmail = signing.email,
                                     ![n].hash = hash]
           /\ authorOf' = [authorOf EXCEPT ![n].name = c]
  <2>1. CachedSound(seen) /\ seen.node = n
    BY <1>2, SeenSound
  <2>2. parent = drive[n].parent /\ FolderAbove(parent) /\ parent # Nowhere
    BY <1>2, <1>4, <2>1, InSyncIs DEF CachedSound
  <2>3. NodeKey(parent) = NodeKeyOf(parent)
    BY <2>2, SeenParentKey
  <2>4. PICK k : k = drive[n]
    OBVIOUS
  <2>5. LinkSound(n, k)
    BY <1>0, <2>4 DEF CryptoInv, LinksSound
  <2>6. seen.link.name.sessionKey = GenerateSessionKey(k.origin)
    <3>1. seen.link.origin = k.origin /\ LinkSound(n, seen.link)
      BY <2>1, <2>4 DEF CachedSound
    <3> QED
      BY <3>1 DEF LinkSound, EncryptedSound, EncryptNodeName, EncryptAndSignArmored
  <2>7. PICK q : q = EncryptNodeName(name, GenerateSessionKey(k.origin), NodeKeyOf(parent), SignedFor(c, NodeKeyOf(parent)))
    OBVIOUS
  <2>8. signing.email = c /\ EncryptNewName(seen.link, NodeKey(parent), name, signing) = q
    BY <1>2, <2>3, <2>6, <2>7, SigningKeys DEF SigningFields, EncryptNewName, RenameSessionKey
  <2>9. PICK l : l = [k EXCEPT !.name = q, !.nameSignatureEmail = c, !.hash = hash]
    OBVIOUS
  <2>10. drive' = [drive EXCEPT ![n] = l]
    <3>1. n \in DOMAIN drive
      BY <1>0 DEF CryptoInv, LinksSound
    <3> QED
      BY <1>4, <2>4, <2>8, <2>9, <3>1
  <2>11. /\ LinkShape(l) /\ l.type = k.type /\ l.parent = k.parent /\ l.origin = k.origin
         /\ l.passphrase = k.passphrase /\ l.passphraseSignature = k.passphraseSignature
         /\ l.signatureEmail = k.signatureEmail /\ l.name = q
         /\ l.nameSignatureEmail = c /\ l.hash = hash /\ l.hashKey = k.hashKey
         /\ l.attributes = k.attributes /\ l.contentKey = k.contentKey /\ l.revision = k.revision
    BY <2>5, <2>9 DEF LinkSound, LinkShape
  <2>12. LinkSound(n, l)
    <3>1. KeyAbove(n, l) = KeyAbove(n, k) /\ KeyAbove(n, l) = NodeKeyOf(parent) /\ l.parent # Nowhere /\ l.parent = parent
      BY <2>2, <2>4, <2>11 DEF KeyAbove
    <3>2. l.name.data = name
      BY <2>7, <2>11 DEF EncryptNodeName, EncryptAndSignArmored
    <3>3. EncryptedSound(n, l)
      BY <1>2, <2>3, <2>5, <2>7, <2>11, <3>1, <3>2 DEF LinkSound, EncryptedSound
    <3>4. SignaturesSound(n, l)
      BY <2>5, <2>11, <3>1 DEF LinkSound, SignaturesSound
    <3>5. ContentSound(n, l)
      BY <2>5, <2>11 DEF LinkSound, ContentSound
    <3> QED
      BY <2>11, <3>3, <3>4, <3>5 DEF LinkSound
  <2>13. NodeFits(n, l)
    <3>1. FolderAbove(l.parent) /\ Replaces(l, drive[n])
      BY <2>2, <2>4, <2>11 DEF Replaces
    <3>2. NameFree(n, l)
      BY <1>4, <2>2, <2>4, <2>11, <2>12, HashesTell DEF CryptoInv
    <3> QED
      BY <2>12, <3>1, <3>2 DEF NodeFits
  <2>14. PICK b, a : b = authorOf[n] /\ a = [b EXCEPT !.name = c]
    OBVIOUS
  <2>15. AuthorFits(a, l)
    <3>1. b \in [key : Clients, name : Clients, content : Clients]
      BY <1>0, <2>14 DEF CryptoInv, AuthorsSound
    <3>2. b.key = k.signatureEmail /\ (k.type = "file" => b.content = k.revision.signatureEmail)
      BY <1>0, <2>4, <2>14 DEF CryptoInv, AuthorsSound
    <3> QED
      BY <2>11, <2>14, <3>1, <3>2 DEF AuthorFits
  <2>16. authorOf' = [authorOf EXCEPT ![n] = a]
    BY <1>4, <2>14
  <2> QED
    BY <1>0, <1>1, <1>2, <2>10, <2>13, <2>15, <2>16, Stored
<1> QED
  BY <1>2, <1>3, <1>4

LEMMA RenameDeviceKeeps ==
    ASSUME CryptoInv, NEW n \in Items, NEW name \in NodeNames, RenameDevice(n, name)
    PROVE  CryptoInv'
<1>0. n \in Live(drive) /\ n \in Nodes /\ drive[n].parent = Nowhere
  BY DEF RenameDevice, Live, Nodes, Exists
<1>1. PICK k : k = drive[n]
  OBVIOUS
<1>2. LinkSound(n, k)
  BY <1>0, <1>1 DEF CryptoInv, LinksSound
<1>3. k.name.sessionKey = GenerateSessionKey(k.origin)
  BY <1>2 DEF LinkSound, EncryptedSound, EncryptNodeName, EncryptAndSignArmored
<1>4. PICK q : q = EncryptNodeName(name, GenerateSessionKey(k.origin), ShareKeyOf(n), AddressKey("owner"))
  OBVIOUS
<1>5. PICK l : l = [k EXCEPT !.name = q]
  OBVIOUS
<1>6. drive' = [drive EXCEPT ![n] = l]
  BY <1>1, <1>3, <1>4, <1>5 DEF RenameDevice, RenameSessionKey
<1>7. /\ LinkShape(l) /\ l.type = k.type /\ l.parent = k.parent /\ l.origin = k.origin
      /\ l.passphrase = k.passphrase /\ l.passphraseSignature = k.passphraseSignature
      /\ l.signatureEmail = k.signatureEmail /\ l.name = q
      /\ l.nameSignatureEmail = k.nameSignatureEmail /\ l.hash = k.hash /\ l.hashKey = k.hashKey
      /\ l.attributes = k.attributes /\ l.contentKey = k.contentKey /\ l.revision = k.revision
  BY <1>2, <1>5 DEF LinkSound, LinkShape
<1>8. LinkSound(n, l)
  <2>1. KeyAbove(n, l) = KeyAbove(n, k) /\ KeyAbove(n, l) = ShareKeyOf(n) /\ l.parent = Nowhere
    BY <1>0, <1>1, <1>7 DEF KeyAbove
  <2>2. l.name.data = name
    BY <1>4, <1>7 DEF EncryptNodeName, EncryptAndSignArmored
  <2>3. SignedFor(l.nameSignatureEmail, ShareKeyOf(n)) = AddressKey("owner")
    BY <1>2, <1>7, <2>1 DEF LinkSound, SignaturesSound, SignedFor, Anonymous
  <2>4. EncryptedSound(n, l)
    BY <1>2, <1>4, <1>7, <2>1, <2>2, <2>3 DEF LinkSound, EncryptedSound
  <2>5. SignaturesSound(n, l)
    BY <1>2, <1>7, <2>1 DEF LinkSound, SignaturesSound
  <2>6. ContentSound(n, l)
    BY <1>2, <1>7 DEF LinkSound, ContentSound
  <2> QED
    BY <1>7, <2>4, <2>5, <2>6 DEF LinkSound
<1>9. NodeFits(n, l)
  <2>1. l.parent = Nowhere /\ Replaces(l, drive[n])
    BY <1>0, <1>1, <1>7 DEF Replaces
  <2> QED
    BY <1>8, <2>1 DEF NodeFits, NameFree
<1>10. PICK a : a = authorOf[n]
  OBVIOUS
<1>11. AuthorFits(a, l)
  <2>1. a \in [key : Clients, name : Clients, content : Clients]
    BY <1>0, <1>10 DEF CryptoInv, AuthorsSound
  <2> QED
    BY <1>0, <1>1, <1>7, <1>10, <2>1 DEF CryptoInv, AuthorsSound, AuthorFits
<1>12. authorOf' = [authorOf EXCEPT ![n] = a]
  BY <1>0, <1>10 DEF RenameDevice, CryptoInv, AuthorsSound
<1>13. shareOf' = shareOf /\ cachedAs' \subseteq cachedAs /\ cryptoOps' \in 0 .. MaxCryptoOps
  BY NodeCryptoConstants DEF RenameDevice, Operation, CryptoInv
<1> QED
  BY <1>0, <1>6, <1>9, <1>11, <1>12, <1>13, Stored

-------------------------------------------------------------------------------
(* Nodes moved and copied.                                                   *)

\* What a request to move or copy sends: with the session keys of the origin, and
\* with a signature of the passphrase only where the key's author is anonymous.
RequestFields(r, c, k, p, name, signed) ==
    /\ r.parent = p
    /\ r.passphrase = [sessionKey |-> GenerateSessionKey(k.origin), to |-> {NodeKeyOf(p)}]
    /\ r.passphraseSignature = IF signed THEN AddressKey(c) ELSE NoKey
    /\ r.signatureEmail = c
    /\ r.name = EncryptNodeName(name, GenerateSessionKey(k.origin), NodeKeyOf(p), AddressKey(c))
    /\ r.hash = GenerateLookupHash(name, NodeKeyOf(p))

LEMMA RequestIs ==
    ASSUME NEW c \in Clients \ {Anonymous}, NEW n, NEW k, NEW p, NodeKey(p) = NodeKeyOf(p), NEW name, NEW keyAuthor,
           NEW seen, seen.passphrase.sessionKey = GenerateSessionKey(k.origin),
           seen.name.sessionKey = GenerateSessionKey(k.origin), seen.name.data = name
    PROVE  RequestFields(EncryptNodeWithNewParent(c, n, seen, keyAuthor, p), c, k, p, name, AnonymousKey(keyAuthor))
<1>1. PICK signing : signing = GetNodeSigningKeys(c, n, p)
  OBVIOUS
<1>2. signing.email = c /\ signing.key = AddressKey(c)
  BY <1>1, SigningKeys DEF SigningFields
<1>3. PICK r : r = EncryptNodeWithNewParent(c, n, seen, keyAuthor, p)
  OBVIOUS
<1>4. r = [parent |-> p,
           passphrase |-> [sessionKey |-> seen.passphrase.sessionKey, to |-> {NodeKeyOf(p)}],
           passphraseSignature |-> IF AnonymousKey(keyAuthor) THEN signing.key ELSE NoKey,
           signatureEmail |-> signing.email,
           name |-> EncryptNodeName(seen.name.data, seen.name.sessionKey, NodeKeyOf(p), signing.key),
           hash |-> GenerateLookupHash(seen.name.data, NodeKeyOf(p))]
  BY <1>1, <1>3 DEF EncryptNodeWithNewParent, EncryptPassphrase, EncryptAndSignDetachedArmored, RenameSessionKey,
                    NewParentHash
<1> QED
  BY <1>2, <1>3, <1>4 DEF RequestFields

\* The fields of a node moved, in terms of those it had.
MovedFields(l, k, c, p, name, signed) ==
    /\ LinkShape(l) /\ l.type = k.type /\ l.origin = k.origin /\ l.parent = p
    /\ l.passphrase = [sessionKey |-> GenerateSessionKey(k.origin), to |-> {NodeKeyOf(p)}]
    /\ l.passphraseSignature = (IF signed THEN AddressKey(c) ELSE k.passphraseSignature)
    /\ l.signatureEmail = (IF signed THEN c ELSE k.signatureEmail)
    /\ l.name = EncryptNodeName(name, GenerateSessionKey(k.origin), NodeKeyOf(p), AddressKey(c))
    /\ l.nameSignatureEmail = c
    /\ l.hash = GenerateLookupHash(name, NodeKeyOf(p))
    /\ l.hashKey = k.hashKey /\ l.attributes = k.attributes /\ l.contentKey = k.contentKey
    /\ l.revision = k.revision

LEMMA MovedIs ==
    ASSUME NEW c, NEW n, LinkShape(drive[n]), NEW p, NEW name, NEW signed \in BOOLEAN, NEW r,
           RequestFields(r, c, drive[n], p, name, signed)
    PROVE  MovedFields(Moved(n, r), drive[n], c, p, name, signed)
<1>1. PICK k : k = drive[n]
  OBVIOUS
<1>2. (r.passphraseSignature # NoKey) <=> signed
  BY DEF RequestFields, AddressKey, NoKey
<1>3. PICK x, y : /\ x = IF signed THEN r.passphraseSignature ELSE k.passphraseSignature
                  /\ y = IF signed THEN r.signatureEmail ELSE k.signatureEmail
  OBVIOUS
<1>4. PICK l : l = [k EXCEPT !.parent = r.parent, !.passphrase = r.passphrase, !.passphraseSignature = x,
                             !.signatureEmail = y, !.name = r.name, !.nameSignatureEmail = r.signatureEmail,
                             !.hash = r.hash]
  OBVIOUS
<1>5. l = Moved(n, r)
  <2>1. CASE signed
    BY <1>1, <1>2, <1>3, <1>4, <2>1 DEF Moved, LinkShape
  <2>2. CASE ~signed
    BY <1>1, <1>2, <1>3, <1>4, <2>2 DEF Moved, LinkShape
  <2> QED
    BY <2>1, <2>2
<1>6. /\ LinkShape(l) /\ l.type = k.type /\ l.parent = r.parent /\ l.origin = k.origin
      /\ l.passphrase = r.passphrase /\ l.passphraseSignature = x
      /\ l.signatureEmail = y /\ l.name = r.name
      /\ l.nameSignatureEmail = r.signatureEmail /\ l.hash = r.hash /\ l.hashKey = k.hashKey
      /\ l.attributes = k.attributes /\ l.contentKey = k.contentKey /\ l.revision = k.revision
  BY <1>1, <1>4 DEF LinkShape
<1>7. MovedFields(l, k, c, p, name, signed)
  BY <1>1, <1>3, <1>6 DEF MovedFields, RequestFields
<1> QED
  BY <1>1, <1>5, <1>7

\* A node moved by what a client sees of it is as sound as it was, in its own place
\* or, a file, in that of its copy.
LEMMA MovedSound ==
    ASSUME CryptoInv, NEW c \in Clients \ {Anonymous}, NEW n \in Live(drive), NEW p \in Nodes,
           NEW s, CachedSound(s), s.node = n, NEW name \in NodeNames \cup {"root"}, NEW m, NEW l,
           MovedFields(l, drive[n], c, p, name, AnonymousKey(s.keyAuthor)),
           m = n \/ drive[n].type = "file"
    PROVE  LinkSound(m, l)
<1>0. p # Nowhere
  BY NodesAreFinite
<1>1. PICK k : k = drive[n]
  OBVIOUS
<1>2. LinkSound(n, k) /\ k.parent # Nowhere
  BY <1>1 DEF CryptoInv, LinksSound, CachedSound
<1>3. KeyAbove(m, l) = NodeKeyOf(p) /\ l.parent = p
  BY <1>0 DEF MovedFields, KeyAbove
<1>4. /\ k.signatureEmail = Anonymous => AnonymousKey(s.keyAuthor)
      /\ AnonymousKey(s.keyAuthor) =>
            /\ k.type = "folder" => k.attributes \in {NoKey, NodeKeyOf(n)}
            /\ k.type = "file" => k.contentKey = NodeKeyOf(k.origin)
  BY <1>1 DEF CachedSound
<1>5. MovedFields(l, k, c, p, name, AnonymousKey(s.keyAuthor))
  BY <1>1
<1>6. LinkShape(l)
  BY DEF MovedFields
<1>7. EncryptedSound(m, l)
  <2>1. l.name.data = name
    BY <1>5 DEF MovedFields, EncryptNodeName, EncryptAndSignArmored
  <2>2. SignedFor(c, KeyAbove(m, l)) = AddressKey(c)
    BY DEF SignedFor
  <2> QED
    BY <1>0, <1>3, <1>5, <2>1, <2>2 DEF MovedFields, EncryptedSound
<1>8. SignaturesSound(m, l)
  <2>1. CASE AnonymousKey(s.keyAuthor)
    BY <1>0, <1>3, <1>5, <2>1 DEF MovedFields, SignaturesSound, SignedFor
  <2>2. CASE ~AnonymousKey(s.keyAuthor)
    BY <1>0, <1>2, <1>3, <1>4, <1>5, <2>2 DEF MovedFields, LinkSound, SignaturesSound, SignedFor
  <2> QED
    BY <2>1, <2>2
<1>9. ContentSound(m, l)
  <2>1. CASE AnonymousKey(s.keyAuthor)
    BY <1>1, <1>2, <1>4, <1>5, <2>1 DEF MovedFields, LinkSound, ContentSound
  <2>2. CASE ~AnonymousKey(s.keyAuthor)
    BY <1>1, <1>2, <1>4, <1>5, <2>2 DEF MovedFields, LinkSound, ContentSound
  <2> QED
    BY <2>1, <2>2
<1> QED
  BY <1>6, <1>7, <1>8, <1>9 DEF LinkSound

LEMMA MovedAuthorFits ==
    ASSUME CryptoInv, NEW c \in Clients \ {Anonymous}, NEW n \in Live(drive), NEW p, NEW name, NEW signed \in BOOLEAN,
           NEW l, MovedFields(l, drive[n], c, p, name, signed),
           NEW r, RequestFields(r, c, drive[n], p, name, signed)
    PROVE  AuthorFits(MovedAuthor(c, n, r), l)
<1>1. (r.passphraseSignature # NoKey) <=> signed
  BY DEF RequestFields, AddressKey, NoKey
<1>2. PICK b, x : b = authorOf[n] /\ x = IF signed THEN c ELSE b.key
  OBVIOUS
<1>3. /\ b \in [key : Clients, name : Clients, content : Clients]
      /\ b.key = drive[n].signatureEmail
      /\ drive[n].type = "file" => b.content = drive[n].revision.signatureEmail
  BY <1>2 DEF CryptoInv, AuthorsSound, Live
<1>4. PICK a : a = [b EXCEPT !.key = x, !.name = c]
  OBVIOUS
<1>5. a = MovedAuthor(c, n, r)
  <2>1. CASE signed
    BY <1>1, <1>2, <1>4, <2>1 DEF MovedAuthor
  <2>2. CASE ~signed
    BY <1>1, <1>2, <1>3, <1>4, <2>2 DEF MovedAuthor
  <2> QED
    BY <2>1, <2>2
<1>6. a.key = x /\ a.name = c /\ a.content = b.content /\ a \in [key : Clients, name : Clients, content : Clients]
  BY <1>2, <1>3, <1>4
<1> QED
  BY <1>2, <1>3, <1>5, <1>6 DEF AuthorFits, MovedFields

LEMMA MoveNodeKeeps ==
    ASSUME CryptoInv, NEW c \in Clients, NEW n \in OpenChildren(c), NEW p \in OpenFolders(c), MoveNode(c, n, p)
    PROVE  CryptoInv'
<1>0. n \in Live(drive) /\ n \in Nodes /\ c # Anonymous
  BY ChildChosen DEF MoveNode
<1>1. shareOf' = shareOf /\ cryptoOps' \in 0 .. MaxCryptoOps
  BY NodeCryptoConstants DEF MoveNode, Operation, CryptoInv
<1>2. FolderAbove(p) /\ p \in Nodes /\ p # Nowhere /\ NodeKey(p) = NodeKeyOf(p)
  BY FolderChosen DEF CryptoInv
<1>3. PICK s \in NodesSeen(c, n) :
         LET sent == EncryptNodeWithNewParent(c, n, s.link, s.keyAuthor, p)
         IN \/ /\ HashFree(n, p, sent.hash)
               /\ drive' = [drive EXCEPT ![n] = Moved(n, sent)]
               /\ authorOf' = [authorOf EXCEPT ![n] = MovedAuthor(c, n, sent)]
               /\ cachedAs' = Forget(c, n)
            \/ drive' = drive /\ authorOf' = authorOf /\ cachedAs' = cachedAs
  BY DEF MoveNode
<1>4. PICK r : r = EncryptNodeWithNewParent(c, n, s.link, s.keyAuthor, p)
  OBVIOUS
<1>5. CASE drive' = drive /\ authorOf' = authorOf /\ cachedAs' = cachedAs
  BY <1>1, <1>5, OnlyCachesShrink
<1>6. CASE /\ HashFree(n, p, r.hash)
           /\ drive' = [drive EXCEPT ![n] = Moved(n, r)]
           /\ authorOf' = [authorOf EXCEPT ![n] = MovedAuthor(c, n, r)]
           /\ cachedAs' = Forget(c, n)
  <2>1. CachedSound(s) /\ s.node = n
    BY SeenSound
  <2>2. PICK k, t, name, signed : k = drive[n] /\ t = s.link /\ name = s.link.name.data /\ signed = AnonymousKey(s.keyAuthor)
    OBVIOUS
  <2>3. LinkSound(n, k) /\ LinkSound(n, t) /\ t.origin = k.origin /\ k.parent # Nowhere
    BY <1>0, <2>1, <2>2 DEF CryptoInv, LinksSound, CachedSound
  <2>4. /\ t.passphrase.sessionKey = GenerateSessionKey(k.origin)
        /\ t.name.sessionKey = GenerateSessionKey(k.origin)
        /\ t.name.data = name /\ name \in NodeNames \cup {"root"}
    BY <2>2, <2>3 DEF LinkSound, EncryptedSound, EncryptNodeName, EncryptAndSignArmored
  <2>5. RequestFields(r, c, k, p, name, signed)
    BY <1>0, <1>2, <1>4, <2>2, <2>4, RequestIs
  <2>6. signed \in BOOLEAN
    BY <2>2 DEF AnonymousKey
  <2>7. PICK l : l = Moved(n, r)
    OBVIOUS
  <2>8. MovedFields(l, k, c, p, name, signed)
    BY <2>2, <2>3, <2>5, <2>6, <2>7, MovedIs DEF LinkSound
  <2>9. LinkSound(n, l)
    BY <1>0, <1>2, <2>1, <2>2, <2>4, <2>8, MovedSound
  <2>10. AuthorFits(MovedAuthor(c, n, r), l)
    BY <1>0, <2>2, <2>5, <2>6, <2>8, MovedAuthorFits
  <2>11. NodeFits(n, l)
    <3>1. l.parent = p /\ l.hash = r.hash
      BY <2>5, <2>8 DEF MovedFields, RequestFields
    <3>2. NameFree(n, l)
      BY <1>6, <2>9, <3>1, HashesTell DEF CryptoInv
    <3>3. Replaces(l, k)
      BY <1>0, <1>2, <2>3, <2>8 DEF MovedFields, Replaces
    <3> QED
      BY <1>2, <2>2, <2>9, <3>1, <3>2, <3>3 DEF NodeFits
  <2>12. cachedAs' \subseteq cachedAs
    BY <1>6 DEF Forget
  <2> QED
    BY <1>0, <1>1, <1>6, <2>7, <2>10, <2>11, <2>12, Stored
<1> QED
  BY <1>3, <1>4, <1>5, <1>6

LEMMA CopyNodeKeeps ==
    ASSUME CryptoInv, NEW c \in Clients, NEW n \in OpenChildren(c), NEW p \in OpenFolders(c), NEW copy \in Items,
           NEW name \in NodeNames, CopyNode(c, n, copy, p, name)
    PROVE  CryptoInv'
<1>0. n \in Live(drive) /\ n \in Nodes /\ c # Anonymous /\ drive[n].type # "folder"
  BY ChildChosen DEF CopyNode, IsFolder
<1>1. shareOf' = shareOf /\ cachedAs' = cachedAs /\ cryptoOps' \in 0 .. MaxCryptoOps
  BY NodeCryptoConstants DEF CopyNode, Operation, CryptoInv
<1>2. FolderAbove(p) /\ p \in Nodes /\ p # Nowhere /\ NodeKey(p) = NodeKeyOf(p)
  BY FolderChosen DEF CryptoInv
<1>3. PICK s \in NodesSeen(c, n) :
         LET sent == EncryptNodeWithNewParent(c, n, [s.link EXCEPT !.name.data = name], s.keyAuthor, p)
         IN /\ HashFree(copy, p, sent.hash)
            /\ drive' = [drive EXCEPT ![copy] = [Moved(n, sent) EXCEPT !.old = FALSE]]
            /\ authorOf' = [authorOf EXCEPT ![copy] = MovedAuthor(c, n, sent)]
  BY DEF CopyNode
<1>4. PICK v : v = [s.link EXCEPT !.name.data = name]
  OBVIOUS
<1>5. PICK r : r = EncryptNodeWithNewParent(c, n, v, s.keyAuthor, p)
  OBVIOUS
<1>6. CachedSound(s) /\ s.node = n
  BY SeenSound
<1>7. PICK k, t, signed : k = drive[n] /\ t = s.link /\ signed = AnonymousKey(s.keyAuthor)
  OBVIOUS
<1>8. LinkSound(n, k) /\ LinkSound(n, t) /\ t.origin = k.origin /\ k.type = "file"
  BY <1>0, <1>6, <1>7 DEF CryptoInv, LinksSound, CachedSound, LinkSound, ContentSound
<1>9. /\ v.passphrase.sessionKey = GenerateSessionKey(k.origin)
      /\ v.name.sessionKey = GenerateSessionKey(k.origin)
      /\ v.name.data = name
  <2>1. t.passphrase.sessionKey = GenerateSessionKey(k.origin)
    BY <1>8 DEF LinkSound, EncryptedSound
  <2>2. t.name = [data |-> t.name.data, sessionKey |-> GenerateSessionKey(k.origin), to |-> t.name.to, by |-> t.name.by]
    BY <1>8 DEF LinkSound, EncryptedSound, EncryptNodeName, EncryptAndSignArmored
  <2>3. PICK q : q = [t.name EXCEPT !.data = name]
    OBVIOUS
  <2>4. q.data = name /\ q.sessionKey = GenerateSessionKey(k.origin)
    BY <2>2, <2>3
  <2>5. v = [t EXCEPT !.name = q]
    BY <1>4, <1>7, <2>3
  <2>6. LinkShape(t)
    BY <1>8 DEF LinkSound
  <2>7. v.name = q /\ v.passphrase = t.passphrase
    BY <2>5, <2>6 DEF LinkShape
  <2> QED
    BY <2>1, <2>4, <2>7
<1>10. RequestFields(r, c, k, p, name, signed)
  BY <1>0, <1>2, <1>5, <1>7, <1>9, RequestIs
<1>11. signed \in BOOLEAN
  BY <1>7 DEF AnonymousKey
<1>12. PICK g : g = Moved(n, r)
  OBVIOUS
<1>13. MovedFields(g, k, c, p, name, signed)
  BY <1>7, <1>8, <1>10, <1>11, <1>12, MovedIs DEF LinkSound
<1>14. PICK l : l = [g EXCEPT !.old = FALSE]
  OBVIOUS
<1>15. MovedFields(l, k, c, p, name, signed)
  BY <1>13, <1>14 DEF MovedFields, LinkShape
<1>16. LinkSound(copy, l)
  BY <1>0, <1>2, <1>6, <1>7, <1>8, <1>15, MovedSound
<1>17. AuthorFits(MovedAuthor(c, n, r), l)
  BY <1>0, <1>7, <1>10, <1>11, <1>15, MovedAuthorFits
<1>18. copy \in Nodes /\ copy \notin Live(drive)
  BY DEF CopyNode, Nodes, Live, Exists
<1>19. NodeFits(copy, l)
  <2>1. l.parent = p /\ l.hash = r.hash
    BY <1>10, <1>15 DEF MovedFields, RequestFields
  <2>2. HashFree(copy, p, r.hash)
    BY <1>3, <1>4, <1>5
  <2>3. NameFree(copy, l)
    BY <1>16, <2>1, <2>2, HashesTell DEF CryptoInv
  <2> QED
    BY <1>2, <1>16, <1>18, <2>1, <2>3 DEF NodeFits
<1>20. drive' = [drive EXCEPT ![copy] = l] /\ authorOf' = [authorOf EXCEPT ![copy] = MovedAuthor(c, n, r)]
  BY <1>3, <1>4, <1>5, <1>12, <1>14
<1> QED
  BY <1>1, <1>17, <1>18, <1>19, <1>20, Stored

-------------------------------------------------------------------------------
(* Devices and shares.                                                       *)

LEMMA CreateDeviceKeeps ==
    ASSUME CryptoInv, NEW n \in Items, NEW name \in NodeNames, CreateDevice(n, name)
    PROVE  CryptoInv'
<1>0. n \in Nodes /\ n \notin Live(drive)
  BY DEF CreateDevice, Nodes, Live, Exists
<1>1. PICK l : l = [type |-> "folder", parent |-> Nowhere, old |-> FALSE, origin |-> n,
                    passphrase |-> GenerateKey(n, {ShareKeyOf(n)}, AddressKey("owner")).message,
                    passphraseSignature |-> GenerateKey(n, {ShareKeyOf(n)}, AddressKey("owner")).signature,
                    signatureEmail |-> "owner",
                    name |-> EncryptNodeName(name, GenerateSessionKey(n), ShareKeyOf(n), AddressKey("owner")),
                    nameSignatureEmail |-> "owner",
                    hash |-> NoHash, hashKey |-> GenerateHashKey(NodeKeyOf(n)), attributes |-> NoKey,
                    contentKey |-> NoKey,
                    revision |-> [attributes |-> NoKey, manifest |-> NoKey, signatureEmail |-> "owner"]]
  OBVIOUS
<1>2. PICK s : s = [passphrase |-> NoKey, name |-> NoKey, to |-> {AddressKey("owner")}, by |-> AddressKey("owner"),
                    creatorEmail |-> "owner", invited |-> {}, members |-> {EncryptInvitation("owner", "owner")}]
  OBVIOUS
<1>3. PICK a : a = [key |-> "owner", name |-> "owner", content |-> "owner"]
  OBVIOUS
<1>4. /\ drive' = [drive EXCEPT ![n] = l] /\ shareOf' = [shareOf EXCEPT ![n] = s]
      /\ authorOf' = [authorOf EXCEPT ![n] = a] /\ cachedAs' = cachedAs
  BY <1>1, <1>2, <1>3 DEF CreateDevice
<1>5. /\ LinkShape(l) /\ l.type = "folder" /\ l.parent = Nowhere /\ l.origin = n
      /\ l.passphrase = [sessionKey |-> GenerateSessionKey(n), to |-> {ShareKeyOf(n)}]
      /\ l.passphraseSignature = AddressKey("owner") /\ l.signatureEmail = "owner"
      /\ l.name = EncryptNodeName(name, GenerateSessionKey(n), ShareKeyOf(n), AddressKey("owner"))
      /\ l.nameSignatureEmail = "owner" /\ l.hash = NoHash /\ l.hashKey = NodeKeyOf(n) /\ l.attributes = NoKey
  BY <1>1 DEF LinkShape, GenerateKey, EncryptPassphrase, EncryptAndSignDetachedArmored, GenerateHashKey
<1>6. LinkSound(n, l)
  <2>1. KeyAbove(n, l) = ShareKeyOf(n) /\ SignedFor("owner", ShareKeyOf(n)) = AddressKey("owner") /\ "owner" \in Clients
    BY <1>5 DEF KeyAbove, SignedFor, Anonymous, Clients
  <2>2. l.name.data = name
    BY <1>5 DEF EncryptNodeName, EncryptAndSignArmored
  <2>3. EncryptedSound(n, l)
    BY <1>5, <2>1, <2>2 DEF EncryptedSound
  <2>4. SignaturesSound(n, l)
    BY <1>5, <2>1 DEF SignaturesSound
  <2>5. ContentSound(n, l)
    BY <1>0, <1>5 DEF ContentSound
  <2> QED
    BY <1>5, <2>3, <2>4, <2>5 DEF LinkSound
<1>7. NodeFits(n, l)
  BY <1>0, <1>5, <1>6 DEF NodeFits, NameFree
<1>8. LinksSound' /\ ParentsSound' /\ SiblingNamesDiffer' /\ n \in Live(drive)'
  BY <1>0, <1>4, <1>7, LinkStored DEF CryptoInv
<1>9. AuthorsSound'
  <2>1. AuthorFits(a, l)
    BY <1>3, <1>5 DEF AuthorFits, Clients
  <2> QED
    BY <1>0, <1>4, <1>7, <2>1, AuthorsKept DEF CryptoInv
<1>10. SharesSound'
  <2>1. \A m \in Nodes : \A x : ShareSound(m, x) => ShareSound(m, x)'
    BY <1>0, <1>4, <1>7, SharesKept DEF CryptoInv
  <2>2. drive'[n].parent = Nowhere
    BY <1>0, <1>4, <1>5 DEF CryptoInv, LinksSound
  <2>3. ShareSound(n, s)'
    <3>1. s = [passphrase |-> s.passphrase, name |-> s.name, to |-> s.to, by |-> s.by,
               creatorEmail |-> s.creatorEmail, invited |-> s.invited, members |-> s.members]
      BY <1>2
    <3>2. \A i \in s.invited \cup s.members : InvitationSound(i)
      BY <1>2 DEF InvitationSound, EncryptInvitation
    <3> QED
      BY <1>8, <2>2, <3>1, <3>2 DEF ShareSound
  <2>4. shareOf'[n] = s /\ DOMAIN shareOf' = Nodes /\ \A m \in Nodes : m # n => shareOf'[m] = shareOf[m]
    BY <1>0, <1>4 DEF CryptoInv, SharesSound
  <2>5. \A m \in Nodes : shareOf'[m] = NoShare \/ ShareSound(m, shareOf'[m]) \/ m = n
    BY <2>4 DEF CryptoInv, SharesSound
  <2> QED
    BY <2>1, <2>3, <2>4, <2>5 DEF SharesSound
<1>11. CachesSound'
  <2>1. \A x : CachedSound(x) => CachedSound(x)'
    BY <1>0, <1>4, <1>7, CacheKept DEF CryptoInv
  <2> QED
    BY <1>4, <2>1 DEF CachesSound, CryptoInv
<1> QED
  BY <1>8, <1>9, <1>10, <1>11, NodeCryptoConstants DEF CryptoInv, CreateDevice, Operation

\* A share that changes alone.
LEMMA ShareStored ==
    ASSUME CryptoInv, NEW n \in Nodes, NEW s, ShareSound(n, s), shareOf' = [shareOf EXCEPT ![n] = s],
           drive' = drive, authorOf' = authorOf, cachedAs' = cachedAs, cryptoOps' \in 0 .. MaxCryptoOps
    PROVE  CryptoInv'
<1>1. LinksSound' /\ ParentsSound' /\ AuthorsSound' /\ CachesSound' /\ SiblingNamesDiffer'
  BY DEF CryptoInv, LinksSound, ParentsSound, AuthorsSound, CachesSound, CachedSound, SiblingNamesDiffer, FolderAbove
<1>2. SharesSound'
  <2>1. \A m \in Nodes : shareOf'[m] = IF m = n THEN s ELSE shareOf[m]
    BY DEF CryptoInv, SharesSound
  <2>2. DOMAIN shareOf' = Nodes
    BY DEF CryptoInv, SharesSound
  <2>3. \A m \in Nodes : shareOf'[m] = NoShare \/ ShareSound(m, shareOf'[m])
    BY <2>1 DEF CryptoInv, SharesSound
  <2> QED
    BY <2>2, <2>3 DEF SharesSound, ShareSound
<1> QED
  BY <1>1, <1>2 DEF CryptoInv

LEMMA ShareNodeKeeps ==
    ASSUME CryptoInv, NEW c \in Clients, NEW n \in OpenChildren(c), ShareNode(c, n)
    PROVE  CryptoInv'
<1>0. n \in Live(drive) /\ n \in Nodes
  BY ChildChosen
<1>1. PICK seen \in NodesSeen(c, n) :
         shareOf' = [shareOf EXCEPT ![n] =
                        [GenerateShareKeys(n, seen.link.passphrase.sessionKey, seen.link.name.sessionKey, c)
                         EXCEPT !.invited = {EncryptInvitation("guest", c)}]]
  BY DEF ShareNode
<1>2. CachedSound(seen) /\ seen.node = n
  BY SeenSound
<1>3. PICK k : k = GenerateSessionKey(drive[n].origin)
  OBVIOUS
<1>4. seen.link.passphrase.sessionKey = k /\ seen.link.name.sessionKey = k
  <2>1. LinkSound(n, seen.link) /\ seen.link.origin = drive[n].origin
    BY <1>2 DEF CachedSound
  <2> QED
    BY <1>3, <2>1 DEF LinkSound, EncryptedSound, EncryptNodeName, EncryptAndSignArmored
<1>5. PICK g : g = GenerateShareKeys(n, k, k, c)
  OBVIOUS
<1>6. PICK s : s = [g EXCEPT !.invited = {EncryptInvitation("guest", c)}]
  OBVIOUS
<1>7. ShareSound(n, s)
  <2>1. g = [passphrase |-> [key |-> ShareKeyOf(n), sessionKey |-> k], name |-> [key |-> ShareKeyOf(n), sessionKey |-> k],
             to |-> g.to, by |-> g.by, creatorEmail |-> g.creatorEmail, invited |-> {}, members |-> {}]
    BY <1>5 DEF GenerateShareKeys
  <2>2. /\ s = [passphrase |-> s.passphrase, name |-> s.name, to |-> s.to, by |-> s.by,
                creatorEmail |-> s.creatorEmail, invited |-> s.invited, members |-> s.members]
        /\ s.passphrase = [key |-> ShareKeyOf(n), sessionKey |-> k] /\ s.name = [key |-> ShareKeyOf(n), sessionKey |-> k]
        /\ s.members = {} /\ s.invited = {EncryptInvitation("guest", c)}
    BY <1>6, <2>1
  <2>3. \A i \in s.invited \cup s.members : InvitationSound(i)
    BY <2>2 DEF InvitationSound, EncryptInvitation
  <2> QED
    BY <1>0, <1>3, <2>2, <2>3 DEF ShareSound
<1>8. shareOf' = [shareOf EXCEPT ![n] = s]
  BY <1>1, <1>4, <1>5, <1>6
<1>9. drive' = drive /\ authorOf' = authorOf /\ cachedAs' = cachedAs
  BY DEF ShareNode
<1>10. cryptoOps' \in 0 .. MaxCryptoOps
  BY NodeCryptoConstants DEF ShareNode, Operation, CryptoInv
<1> QED
  BY <1>0, <1>7, <1>8, <1>9, <1>10, ShareStored

LEMMA AcceptInvitationKeeps ==
    ASSUME CryptoInv, NEW n \in Items, AcceptInvitation(n)
    PROVE  CryptoInv'
<1>0. n \in Nodes /\ shareOf[n] # NoShare
  BY DEF AcceptInvitation, Nodes
<1>1. PICK s : s = shareOf[n]
  OBVIOUS
<1>2. ShareSound(n, s)
  BY <1>0, <1>1 DEF CryptoInv, SharesSound
<1>3. PICK i \in s.invited : shareOf' = [shareOf EXCEPT ![n].invited = @ \ {i}, ![n].members = @ \cup {i}]
  BY <1>1 DEF AcceptInvitation
<1>4. PICK x, y : x = s.invited \ {i} /\ y = s.members \cup {i}
  OBVIOUS
<1>5. PICK t : t = [s EXCEPT !.invited = x, !.members = y]
  OBVIOUS
<1>6. shareOf' = [shareOf EXCEPT ![n] = t]
  <2>1. n \in DOMAIN shareOf
    BY <1>0 DEF CryptoInv, SharesSound
  <2>2. s.members = [s EXCEPT !.invited = x].members
    BY <1>2 DEF ShareSound
  <2> QED
    BY <1>1, <1>3, <1>4, <1>5, <2>1, <2>2
<1>7. ShareSound(n, t)
  <2>1. /\ t = [passphrase |-> t.passphrase, name |-> t.name, to |-> t.to, by |-> t.by,
                creatorEmail |-> t.creatorEmail, invited |-> t.invited, members |-> t.members]
        /\ t.passphrase = s.passphrase /\ t.name = s.name /\ t.invited = x /\ t.members = y
    BY <1>2, <1>5 DEF ShareSound
  <2>2. \A j \in t.invited \cup t.members : InvitationSound(j)
    BY <1>2, <1>4, <2>1 DEF ShareSound
  <2> QED
    BY <1>2, <2>1, <2>2 DEF ShareSound
<1> QED
  BY <1>0, <1>6, <1>7, ShareStored DEF AcceptInvitation, CryptoInv


-------------------------------------------------------------------------------
(* Every step.                                                               *)

\* What clients do under a folder they have open.
FolderStep(c, p, n, name) ==
    \/ UploadFile(c, n, p, name)
    \/ \E x \in BOOLEAN : CreateFolder(c, n, p, name, x)
    \/ c = Anonymous /\ CreateDocument(n, p, name)

\* What clients do to a node they see.
ChildStep(c, n) ==
    \/ UploadRevision(c, n) \/ CacheNode(c, n) \/ ShareNode(c, n)
    \/ \E name \in NodeNames : RenameNode(c, n, name)
    \/ \E p \in OpenFolders(c) : MoveNode(c, n, p)
    \/ \E p \in OpenFolders(c), copy \in Items, name \in NodeNames : CopyNode(c, n, copy, p, name)

LEMMA CryptoSteps ==
    ASSUME CryptoNext
    PROVE  \/ \E c \in Clients : \E p \in OpenFolders(c), n \in Items, name \in NodeNames : FolderStep(c, p, n, name)
           \/ \E n \in Items, name \in NodeNames : CreateDevice(n, name)
           \/ \E n \in Items, name \in NodeNames : RenameDevice(n, name)
           \/ \E c \in Clients : \E n \in OpenChildren(c) : ChildStep(c, n)
           \/ \E c \in cachedAs : NodeEvent(c)
           \/ \E n \in Items : AcceptInvitation(n)
  BY Zenon DEF CryptoNext, FolderStep, ChildStep

LEMMA FolderStepKeeps ==
    ASSUME CryptoInv, NEW c \in Clients, NEW p \in OpenFolders(c), NEW n \in Items, NEW name \in NodeNames,
           FolderStep(c, p, n, name)
    PROVE  CryptoInv'
<1>0. n \in Nodes /\ Anonymous \in Clients
  BY DEF Nodes, Clients
<1>1. CASE UploadFile(c, n, p, name)
  <2>1. PICK l : l = GenerateFileCrypto(n, p, name, GetNodeSigningKeys(c, Nowhere, p))
    OBVIOUS
  <2>2. Operation /\ ~Exists(n) /\ Store(c, n, l)
    BY <1>1, <2>1 DEF UploadFile
  <2>3. LinkSound(n, l) /\ AuthorFits([key |-> c, name |-> c, content |-> c], l) /\ l.parent = p
    BY <1>0, <2>1, FileCryptoSound
  <2> QED
    BY <2>2, <2>3, CreationStored
<1>2. CASE \E x \in BOOLEAN : CreateFolder(c, n, p, name, x)
  <2>0. PICK x \in BOOLEAN : CreateFolder(c, n, p, name, x)
    BY <1>2
  <2>1. PICK l : l = CreateFolderCrypto(n, p, name, GetNodeSigningKeys(c, Nowhere, p), x)
    OBVIOUS
  <2>2. Operation /\ ~Exists(n) /\ Store(c, n, l)
    BY <2>0, <2>1 DEF CreateFolder
  <2>3. LinkSound(n, l) /\ AuthorFits([key |-> c, name |-> c, content |-> c], l) /\ l.parent = p
    BY <1>0, <2>1, CreateFolderSound
  <2> QED
    BY <2>2, <2>3, CreationStored
<1>3. CASE c = Anonymous /\ CreateDocument(n, p, name)
  <2>1. PICK l : l = GenerateDocument(n, p, name, GetNodeSigningKeys(c, Nowhere, p))
    OBVIOUS
  <2>2. Operation /\ ~Exists(n) /\ Store(c, n, l)
    BY <1>3, <2>1 DEF CreateDocument
  <2>3. LinkSound(n, l) /\ AuthorFits([key |-> c, name |-> c, content |-> c], l) /\ l.parent = p
    BY <1>0, <2>1, FileCryptoSound
  <2> QED
    BY <2>2, <2>3, CreationStored
<1> QED
  BY <1>1, <1>2, <1>3 DEF FolderStep

LEMMA ChildStepKeeps ==
    ASSUME CryptoInv, NEW c \in Clients, NEW n \in OpenChildren(c), ChildStep(c, n)
    PROVE  CryptoInv'
<1>1. CASE UploadRevision(c, n)
  BY <1>1, UploadRevisionKeeps
<1>2. CASE CacheNode(c, n)
  BY <1>2, CacheNodeKeeps
<1>3. CASE ShareNode(c, n)
  BY <1>3, ShareNodeKeeps
<1>4. ASSUME NEW name \in NodeNames, RenameNode(c, n, name) PROVE CryptoInv'
  BY <1>4, RenameNodeKeeps
<1>5. ASSUME NEW p \in OpenFolders(c), MoveNode(c, n, p) PROVE CryptoInv'
  BY <1>5, MoveNodeKeeps
<1>6. ASSUME NEW p \in OpenFolders(c), NEW copy \in Items, NEW name \in NodeNames, CopyNode(c, n, copy, p, name)
      PROVE  CryptoInv'
  BY <1>6, CopyNodeKeeps
<1> QED
  BY <1>1, <1>2, <1>3, <1>4, <1>5, <1>6 DEF ChildStep

LEMMA CryptoKeeps == CryptoInv /\ [CryptoNext]_cryptoVars => CryptoInv'
<1> SUFFICES ASSUME CryptoInv, [CryptoNext]_cryptoVars PROVE CryptoInv'
  OBVIOUS
<1>1. CASE UNCHANGED cryptoVars
  <2>1. cryptoOps \in 0 .. MaxCryptoOps
    BY DEF CryptoInv
  <2> QED
    BY <1>1, <2>1, OnlyCachesShrink DEF cryptoVars
<1>2. ASSUME NEW c \in Clients, NEW p \in OpenFolders(c), NEW n \in Items, NEW name \in NodeNames,
             FolderStep(c, p, n, name)
      PROVE  CryptoInv'
  BY <1>2, FolderStepKeeps
<1>3. ASSUME NEW n \in Items, NEW name \in NodeNames, CreateDevice(n, name) PROVE CryptoInv'
  BY <1>3, CreateDeviceKeeps
<1>4. ASSUME NEW n \in Items, NEW name \in NodeNames, RenameDevice(n, name) PROVE CryptoInv'
  BY <1>4, RenameDeviceKeeps
<1>5. ASSUME NEW c \in Clients, NEW n \in OpenChildren(c), ChildStep(c, n) PROVE CryptoInv'
  BY <1>5, ChildStepKeeps
<1>6. ASSUME NEW c \in cachedAs, NodeEvent(c) PROVE CryptoInv'
  <2>1. /\ drive' = drive /\ shareOf' = shareOf /\ authorOf' = authorOf /\ cryptoOps' = cryptoOps
        /\ cachedAs' \subseteq cachedAs
    BY <1>6 DEF NodeEvent
  <2>2. cryptoOps' \in 0 .. MaxCryptoOps
    BY <2>1 DEF CryptoInv
  <2> QED
    BY <2>1, <2>2, OnlyCachesShrink
<1>7. ASSUME NEW n \in Items, AcceptInvitation(n) PROVE CryptoInv'
  BY <1>7, AcceptInvitationKeeps
<1>8. CASE CryptoNext
  BY <1>2, <1>3, <1>4, <1>5, <1>6, <1>7, <1>8, CryptoSteps
<1> QED
  BY <1>1, <1>8

\* What the invariant is for.
LEMMA InvReadable == CryptoInv => NodesAreReadable
  BY InvDecrypts, InvVerifies DEF CryptoInv, NodesAreReadable

LEMMA InvTypes == CryptoInv => CryptoTypeOK
<1> SUFFICES ASSUME CryptoInv PROVE CryptoTypeOK
  OBVIOUS
<1>1. ASSUME NEW n \in Live(drive)
      PROVE  /\ drive[n].parent # Nowhere => Exists(drive[n].parent) /\ IsFolder(drive[n].parent)
             /\ drive[n].origin \in Nodes
             /\ drive[n].name.data \in NodeNames \cup {"root"}
             /\ authorOf[n].key \in Clients /\ authorOf[n].name \in Clients
  <2>1. LinkSound(n, drive[n]) /\ n \in Nodes
    BY DEF CryptoInv, LinksSound, Live
  <2>2. authorOf[n] \in [key : Clients, name : Clients, content : Clients]
    BY <2>1 DEF CryptoInv, AuthorsSound
  <2>3. drive[n].parent # Nowhere => Exists(drive[n].parent) /\ IsFolder(drive[n].parent)
    BY DEF CryptoInv, ParentsSound, FolderAbove, Live, Exists, IsFolder
  <2> QED
    BY <2>1, <2>2, <2>3 DEF LinkSound, EncryptedSound, ContentSound
<1>2. \A c \in cachedAs : c.client \in Clients /\ c.node \in Live(drive)
  BY DEF CryptoInv, CachesSound, CachedSound
<1>3. cryptoOps \in 0 .. MaxCryptoOps
  BY DEF CryptoInv
<1> QED
  BY <1>1, <1>2, <1>3 DEF CryptoTypeOK

\* A node that exists keeps its folder or its name.
NameOrFolderStays ==
    \A n \in Live(drive) : drive'[n].parent = drive[n].parent \/ drive'[n].name.data = drive[n].name.data

\* One node changes: a new one, or one whose folder or name stays.
LEMMA OneNodeChanges ==
    ASSUME CryptoInv, NEW n \in Nodes, NEW l, drive' = [drive EXCEPT ![n] = l],
           n \in Live(drive) => l.parent = drive[n].parent \/ l.name.data = drive[n].name.data
    PROVE  NameOrFolderStays
<1> SUFFICES ASSUME NEW m \in Live(drive)
             PROVE  drive'[m].parent = drive[m].parent \/ drive'[m].name.data = drive[m].name.data
  BY DEF NameOrFolderStays
<1>1. drive'[m] = IF m = n THEN l ELSE drive[m]
  BY DEF CryptoInv, LinksSound, Live
<1> QED
  BY <1>1

\* A move is refused unless the name is the one the client saw.
LEMMA MoveKeepsName ==
    ASSUME CryptoInv, NEW c \in Clients, NEW n \in OpenChildren(c), NEW p \in OpenFolders(c), MoveNode(c, n, p)
    PROVE  NameOrFolderStays
<1>0. n \in Live(drive) /\ n \in Nodes
  BY ChildChosen
<1>1. PICK s \in NodesSeen(c, n) :
         LET sent == EncryptNodeWithNewParent(c, n, s.link, s.keyAuthor, p)
         IN \/ InSync(n, s.link.hash) /\ drive' = [drive EXCEPT ![n] = Moved(n, sent)]
            \/ drive' = drive
  BY DEF MoveNode, MoveOriginalHash
<1>2. PICK r : r = EncryptNodeWithNewParent(c, n, s.link, s.keyAuthor, p)
  OBVIOUS
<1>3. CASE drive' = drive
  BY <1>3 DEF NameOrFolderStays
<1>4. CASE InSync(n, s.link.hash) /\ drive' = [drive EXCEPT ![n] = Moved(n, r)]
  <2>1. CachedSound(s) /\ s.node = n
    BY SeenSound
  <2>2. s.link.name.data = drive[n].name.data
    BY <1>4, <2>1, InSyncIs
  <2>3. r.name.data = s.link.name.data
    BY <1>2 DEF EncryptNodeWithNewParent, EncryptNodeName, EncryptAndSignArmored
  <2>4. LinkShape(drive[n])
    BY <1>0 DEF CryptoInv, LinksSound, LinkSound
  <2>5. Moved(n, r).name = r.name
    BY <2>4 DEF Moved, LinkShape
  <2> QED
    BY <1>0, <1>4, <2>2, <2>3, <2>5, OneNodeChanges
<1> QED
  BY <1>1, <1>2, <1>3, <1>4

\* A rename leaves the folder as it is on the server.
LEMMA RenameKeepsFolder ==
    ASSUME CryptoInv, NEW c \in Clients, NEW n \in OpenChildren(c), NEW name \in NodeNames, RenameNode(c, n, name)
    PROVE  NameOrFolderStays
<1>0. n \in Live(drive) /\ n \in Nodes
  BY ChildChosen
<1>1. PICK seen \in NodesSeen(c, n) :
         LET parent == seen.link.parent
             hash == GenerateLookupHash(name, NodeKey(parent))
             signing == GetNodeSigningKeys(c, n, parent)
         IN /\ cachedAs' \subseteq cachedAs
            /\ \/ /\ InSync(n, seen.link.hash) /\ HashFree(n, drive[n].parent, hash)
                  /\ drive' = [drive EXCEPT ![n].name = EncryptNewName(seen.link, NodeKey(parent), name, signing),
                                            ![n].nameSignatureEmail = signing.email,
                                            ![n].hash = hash]
                  /\ authorOf' = [authorOf EXCEPT ![n].name = c]
               \/ drive' = drive /\ authorOf' = authorOf
  BY RenameIs, Zenon
<1>2. PICK parent, x, y, z :
         /\ parent = seen.link.parent
         /\ x = EncryptNewName(seen.link, NodeKey(parent), name, GetNodeSigningKeys(c, n, parent))
         /\ y = GetNodeSigningKeys(c, n, parent).email
         /\ z = GenerateLookupHash(name, NodeKey(parent))
  OBVIOUS
<1>3. CASE drive' = drive
  BY <1>3 DEF NameOrFolderStays
<1>4. CASE drive' = [drive EXCEPT ![n].name = x, ![n].nameSignatureEmail = y, ![n].hash = z]
  <2>1. PICK k : k = drive[n]
    OBVIOUS
  <2>2. LinkShape(k) /\ DOMAIN drive = Nodes
    BY <1>0, <2>1 DEF CryptoInv, LinksSound, LinkSound
  <2>3. PICK l : l = [k EXCEPT !.name = x, !.nameSignatureEmail = y, !.hash = z]
    OBVIOUS
  <2>4. l.parent = k.parent
    BY <2>2, <2>3 DEF LinkShape
  <2>5. drive' = [drive EXCEPT ![n] = l]
    BY <1>0, <1>4, <2>1, <2>2, <2>3
  <2> QED
    BY <1>0, <2>1, <2>4, <2>5, OneNodeChanges
<1> QED
  BY <1>1, <1>2, <1>3, <1>4

LEMMA ChangesAreKept == CryptoInv /\ CryptoNext => NameOrFolderStays
<1> SUFFICES ASSUME CryptoInv, CryptoNext PROVE NameOrFolderStays
  OBVIOUS
<1>1. ASSUME NEW n \in Items, ~Exists(n), NEW l, drive' = [drive EXCEPT ![n] = l] PROVE NameOrFolderStays
  <2>1. n \in Nodes /\ n \notin Live(drive)
    BY <1>1 DEF Nodes, Live, Exists
  <2> QED
    BY <1>1, <2>1, OneNodeChanges
<1>2. ASSUME drive' = drive PROVE NameOrFolderStays
  BY <1>2 DEF NameOrFolderStays
<1>3. ASSUME NEW n \in Live(drive), NEW f \in {"name", "revision"}, NEW x, drive' = [drive EXCEPT ![n][f] = x]
      PROVE  NameOrFolderStays
  <2>1. PICK k : k = drive[n]
    OBVIOUS
  <2>2. LinkShape(k) /\ DOMAIN drive = Nodes /\ n \in Nodes
    BY <2>1 DEF CryptoInv, LinksSound, LinkSound, Live
  <2>3. PICK l : l = [k EXCEPT ![f] = x]
    OBVIOUS
  <2>4. l.parent = k.parent
    BY <2>2, <2>3 DEF LinkShape
  <2>5. drive' = [drive EXCEPT ![n] = l]
    BY <1>3, <2>1, <2>2, <2>3
  <2> QED
    BY <2>1, <2>2, <2>4, <2>5, OneNodeChanges
<1>4. ASSUME NEW c \in Clients, NEW p \in OpenFolders(c), NEW n \in Items, NEW name \in NodeNames,
             FolderStep(c, p, n, name)
      PROVE  NameOrFolderStays
  <2>1. ~Exists(n) /\ \E l : drive' = [drive EXCEPT ![n] = l]
    BY <1>4 DEF FolderStep, UploadFile, CreateFolder, CreateDocument, Store
  <2> QED
    BY <1>1, <2>1
<1>5. ASSUME NEW n \in Items, NEW name \in NodeNames, CreateDevice(n, name) PROVE NameOrFolderStays
  <2>1. ~Exists(n) /\ \E l : drive' = [drive EXCEPT ![n] = l]
    BY <1>5 DEF CreateDevice
  <2> QED
    BY <1>1, <2>1
<1>6. ASSUME NEW n \in Items, NEW name \in NodeNames, RenameDevice(n, name) PROVE NameOrFolderStays
  <2>1. n \in Live(drive)
    BY <1>6 DEF RenameDevice, Exists, Live, Nodes
  <2>2. \E x : drive' = [drive EXCEPT ![n]["name"] = x]
    BY <1>6 DEF RenameDevice
  <2> QED
    BY <1>3, <2>1, <2>2
<1>7. ASSUME NEW c \in Clients, NEW n \in OpenChildren(c), ChildStep(c, n) PROVE NameOrFolderStays
  <2>1. CASE UploadRevision(c, n)
    <3>1. n \in Live(drive)
      BY ChildChosen
    <3>2. \E x : drive' = [drive EXCEPT ![n]["revision"] = x]
      BY <2>1 DEF UploadRevision
    <3> QED
      BY <1>3, <3>1, <3>2
  <2>2. CASE CacheNode(c, n) \/ ShareNode(c, n)
    BY <1>2, <2>2 DEF CacheNode, ShareNode
  <2>3. ASSUME NEW name \in NodeNames, RenameNode(c, n, name) PROVE NameOrFolderStays
    BY <2>3, RenameKeepsFolder
  <2>4. ASSUME NEW p \in OpenFolders(c), MoveNode(c, n, p) PROVE NameOrFolderStays
    BY <2>4, MoveKeepsName
  <2>5. ASSUME NEW p \in OpenFolders(c), NEW copy \in Items, NEW name \in NodeNames, CopyNode(c, n, copy, p, name)
        PROVE  NameOrFolderStays
    <3>1. ~Exists(copy) /\ \E l : drive' = [drive EXCEPT ![copy] = l]
      BY <2>5 DEF CopyNode
    <3> QED
      BY <1>1, <3>1
  <2> QED
    BY <1>7, <2>1, <2>2, <2>3, <2>4, <2>5 DEF ChildStep
<1>8. ASSUME NEW c \in cachedAs, NodeEvent(c) PROVE NameOrFolderStays
  BY <1>2, <1>8 DEF NodeEvent
<1>9. ASSUME NEW n \in Items, AcceptInvitation(n) PROVE NameOrFolderStays
  BY <1>2, <1>9 DEF AcceptInvitation
<1> QED
  BY <1>4, <1>5, <1>6, <1>7, <1>8, <1>9, CryptoSteps

\* Nodes, their keys and their authors are of their types, and only folders have
\* children, for any number of nodes and names (nodesManagement.ts).
THEOREM CryptoTypeCorrect == CryptoSpec => []CryptoTypeOK
  BY CryptoStart, CryptoKeeps, InvTypes, PTL DEF CryptoSpec

-------------------------------------------------------------------------------
(* Photos and albums: lists of photos.                                       *)

PhotosIn(items) == {items[i].photo : i \in DOMAIN items}

\* A list that has no photo twice.
OnceEach(items) ==
    /\ items \in Seq(ToSet(items))
    /\ \A i, j \in DOMAIN items : i # j => items[i].photo # items[j].photo

LEMMA ListIs ==
    ASSUME NEW q, OnceEach(q)
    PROVE  /\ Len(q) \in Nat /\ DOMAIN q = 1 .. Len(q) /\ q = [i \in 1 .. Len(q) |-> q[i]]
           /\ \A i \in 1 .. Len(q) : q[i] \in ToSet(q)
           /\ \A i, j \in 1 .. Len(q) : q[i].photo = q[j].photo => i = j
           /\ PhotosIn(q) = {q[i].photo : i \in 1 .. Len(q)}
           /\ PhotosIn(q) = {x.photo : x \in ToSet(q)}
           /\ q # <<>> => Len(q) >= 1
<1>1. Len(q) \in Nat /\ DOMAIN q = 1 .. Len(q) /\ q = [i \in 1 .. Len(q) |-> q[i]]
  <2>1. q \in Seq(ToSet(q))
    BY DEF OnceEach
  <2> HIDE DEF OnceEach
  <2>2. Len(q) \in Nat /\ q \in [1 .. Len(q) -> ToSet(q)] /\ DOMAIN q = 1 .. Len(q)
    BY <2>1, LenProperties
  <2> QED
    BY <2>2
<1>2. q # <<>> => Len(q) >= 1
  <2>1. q # <<>> => Len(q) \in Nat \ {0}
    BY EmptySeq DEF OnceEach
  <2> QED
    BY <2>1
<1> QED
  BY <1>1, <1>2 DEF OnceEach, PhotosIn, ToSet

LEMMA OnceIs ==
    ASSUME NEW n \in Nat, NEW q, q = [i \in 1 .. n |-> q[i]],
           \A i, j \in 1 .. n : q[i].photo = q[j].photo => i = j
    PROVE  OnceEach(q)
<1>1. q \in Seq(ToSet(q))
  <2>1. \A i \in 1 .. n : q[i] \in ToSet(q)
    BY DEF ToSet
  <2>2. q \in [1 .. n -> ToSet(q)]
    BY <2>1
  <2> QED
    BY <2>2, SeqDef
<1> QED
  BY <1>1 DEF OnceEach

LEMMA OnceEmpty == OnceEach(<<>>) /\ PhotosIn(<<>>) = {}
<1>1. OnceEach(<<>>)
  BY EmptySeq DEF OnceEach
<1> QED
  BY <1>1 DEF PhotosIn

\* A list is split in two.
LEMMA OnceSplit ==
    ASSUME NEW q, OnceEach(q), NEW n \in 0 .. Len(q)
    PROVE  LET first == SubSeq(q, 1, n)
               rest == SubSeq(q, n + 1, Len(q))
           IN /\ OnceEach(first) /\ OnceEach(rest)
              /\ PhotosIn(first) \cup PhotosIn(rest) = PhotosIn(q)
              /\ PhotosIn(first) \cap PhotosIn(rest) = {}
              /\ Len(first) = n /\ \A i \in 1 .. n : first[i] = q[i]
              /\ ToSet(first) = {q[i] : i \in 1 .. n}
<1> DEFINE first == SubSeq(q, 1, n)
           rest == SubSeq(q, n + 1, Len(q))
           m == Len(q) - n
<1>1. /\ Len(q) \in Nat /\ n \in Nat /\ m \in Nat /\ n <= Len(q)
      /\ \A i \in 1 .. n : i \in 1 .. Len(q)
      /\ \A i \in (n + 1) .. Len(q) : i \in 1 .. Len(q)
      /\ \A i \in 1 .. m : n + 1 + i - 1 = n + i /\ n + i \in 1 .. Len(q) /\ n + i \notin 1 .. n
      /\ \A i \in 1 .. Len(q) : i \notin 1 .. n => i - n \in 1 .. m /\ n + (i - n) = i
      /\ \A i, j \in 1 .. m : n + i = n + j => i = j
  BY ListIs
<1>2. /\ first = [i \in 1 .. n |-> q[i]] /\ Len(first) = n
  <2>1. \A i \in 1 .. n : q[i] \in ToSet(q)
    BY <1>1, ListIs
  <2>2. /\ first \in Seq(ToSet(q)) /\ Len(first) = (IF 1 <= n THEN n - 1 + 1 ELSE 0)
        /\ \A i \in 1 .. n - 1 + 1 : first[i] = q[1 + i - 1]
    BY <1>1, <2>1, SubSeqProperties
  <2>3. n - 1 + 1 = n /\ \A i \in 1 .. n : 1 + i - 1 = i
    BY <1>1
  <2>4. Len(first) = n
    BY <1>1, <2>2
  <2>5. first \in [1 .. n -> ToSet(q)]
    BY <2>2, <2>4, LenProperties
  <2> QED
    BY <2>2, <2>3, <2>4, <2>5
<1>3. /\ rest = [i \in 1 .. m |-> q[n + i]]
  <2>1. \A i \in (n + 1) .. Len(q) : q[i] \in ToSet(q)
    BY <1>1, ListIs
  <2>2. /\ rest \in Seq(ToSet(q)) /\ Len(rest) = (IF n + 1 <= Len(q) THEN Len(q) - (n + 1) + 1 ELSE 0)
        /\ \A i \in 1 .. Len(q) - (n + 1) + 1 : rest[i] = q[n + 1 + i - 1]
    BY <1>1, <2>1, SubSeqProperties
  <2>3. Len(q) - (n + 1) + 1 = m
    BY <1>1
  <2>4. Len(rest) = m
    BY <1>1, <2>2
  <2>5. rest \in [1 .. m -> ToSet(q)]
    BY <2>2, <2>4, LenProperties
  <2> QED
    BY <1>1, <2>2, <2>3, <2>5
<1> HIDE DEF first, rest, m
<1>4. OnceEach(first)
  <2>1. first = [i \in 1 .. n |-> first[i]]
    BY <1>2
  <2>2. \A i, j \in 1 .. n : first[i].photo = first[j].photo => i = j
    BY <1>1, <1>2, ListIs
  <2> QED
    BY <1>1, <2>1, <2>2, OnceIs
<1>5. OnceEach(rest)
  <2>1. \A i, j \in 1 .. m : rest[i].photo = rest[j].photo => i = j
    BY <1>1, <1>3, ListIs
  <2>2. rest = [i \in 1 .. m |-> rest[i]]
    BY <1>3
  <2> QED
    BY <1>1, <2>1, <2>2, OnceIs
<1>6. PhotosIn(first) = {q[i].photo : i \in 1 .. n} /\ ToSet(first) = {q[i] : i \in 1 .. n}
  BY <1>2 DEF PhotosIn, ToSet
<1>7. PhotosIn(rest) = {q[n + i].photo : i \in 1 .. m}
  BY <1>3 DEF PhotosIn
<1>8. PhotosIn(first) \cap PhotosIn(rest) = {}
  <2>1. ASSUME NEW i \in 1 .. n, NEW j \in 1 .. m
        PROVE  q[i].photo # q[n + j].photo
    <3> DEFINE k == n + j
    <3>1. i \in 1 .. Len(q) /\ k \in 1 .. Len(q) /\ i # k
      BY <1>1
    <3> HIDE DEF k
    <3>2. q[i].photo # q[k].photo
      BY <3>1, ListIs
    <3> QED
      BY <3>2 DEF k
  <2> QED
    BY <1>6, <1>7, <2>1
<1>9. PhotosIn(first) \cup PhotosIn(rest) = PhotosIn(q)
  <2>1. PhotosIn(q) = {q[i].photo : i \in 1 .. Len(q)}
    BY ListIs
  <2>2. \A i \in 1 .. Len(q) : q[i].photo \in PhotosIn(first) \cup PhotosIn(rest)
    <3> SUFFICES ASSUME NEW i \in 1 .. Len(q) PROVE q[i].photo \in PhotosIn(first) \cup PhotosIn(rest)
      OBVIOUS
    <3>1. CASE i \in 1 .. n
      BY <1>6, <3>1
    <3>2. CASE i \notin 1 .. n
      <4>1. i - n \in 1 .. m /\ n + (i - n) = i
        BY <1>1, <3>2
      <4>2. q[n + (i - n)].photo \in PhotosIn(rest)
        BY <1>7, <4>1
      <4> QED
        BY <4>1, <4>2
    <3> QED
      BY <3>1, <3>2
  <2>3. \A i \in 1 .. m : q[n + i].photo \in PhotosIn(q)
    <3> SUFFICES ASSUME NEW i \in 1 .. m PROVE q[n + i].photo \in PhotosIn(q)
      OBVIOUS
    <3>1. n + i \in 1 .. Len(q)
      BY <1>1
    <3> QED
      BY <2>1, <3>1
  <2>4. PhotosIn(first) \subseteq PhotosIn(q)
    BY <1>1, <1>6, <2>1
  <2>5. PhotosIn(rest) \subseteq PhotosIn(q)
    BY <1>7, <2>3
  <2> QED
    BY <2>1, <2>2, <2>4, <2>5
<1>10. \A i \in 1 .. n : first[i] = q[i]
  BY <1>2
<1> QED
  BY <1>2, <1>4, <1>5, <1>6, <1>8, <1>9, <1>10 DEF first, rest

\* Two lists are joined.
LEMMA OnceJoin ==
    ASSUME NEW s, NEW t, OnceEach(s), OnceEach(t), PhotosIn(s) \cap PhotosIn(t) = {}
    PROVE  OnceEach(s \o t) /\ PhotosIn(s \o t) = PhotosIn(s) \cup PhotosIn(t)
<1> DEFINE m == Len(s)
           n == Len(t)
           u == s \o t
           S == ToSet(s) \cup ToSet(t)
<1>1. m \in Nat /\ n \in Nat /\ m + n \in Nat /\ s \in Seq(ToSet(s)) /\ t \in Seq(ToSet(t))
  BY ListIs DEF OnceEach
<1>2. s \in Seq(S) /\ t \in Seq(S)
  BY <1>1, SeqMonotonic
<1>3. u \in Seq(S) /\ Len(u) = m + n /\ \A i \in 1 .. m + n : u[i] = IF i <= m THEN s[i] ELSE t[i - m]
  BY <1>2, ConcatProperties
<1>4. u = [i \in 1 .. m + n |-> u[i]]
  BY <1>3, LenProperties
<1>5. /\ \A i \in 1 .. m + n : i <= m => i \in 1 .. m
      /\ \A i \in 1 .. m + n : ~(i <= m) => i - m \in 1 .. n
      /\ \A i, j \in 1 .. m + n : i - m = j - m => i = j
      /\ \A i \in 1 .. m : i \in 1 .. m + n /\ i <= m
      /\ \A i \in 1 .. n : m + i \in 1 .. m + n /\ ~(m + i <= m) /\ m + i - m = i
  BY <1>1
<1> HIDE DEF u, m, n
<1>6. /\ \A i, j \in 1 .. m : s[i].photo = s[j].photo => i = j
      /\ \A i, j \in 1 .. n : t[i].photo = t[j].photo => i = j
      /\ PhotosIn(s) = {s[i].photo : i \in 1 .. m} /\ PhotosIn(t) = {t[i].photo : i \in 1 .. n}
  BY ListIs DEF m, n
<1>7. \A i, j \in 1 .. m + n : u[i].photo = u[j].photo => i = j
  <2> SUFFICES ASSUME NEW i \in 1 .. m + n, NEW j \in 1 .. m + n, u[i].photo = u[j].photo
               PROVE  i = j
    OBVIOUS
  <2>0. /\ i <= m => i \in 1 .. m /\ u[i] = s[i]
        /\ ~(i <= m) => i - m \in 1 .. n /\ u[i] = t[i - m]
        /\ j <= m => j \in 1 .. m /\ u[j] = s[j]
        /\ ~(j <= m) => j - m \in 1 .. n /\ u[j] = t[j - m]
        /\ i - m = j - m => i = j
    BY <1>3, <1>5
  <2>1. CASE i <= m /\ j <= m
    BY <1>6, <2>0, <2>1
  <2>2. CASE ~(i <= m) /\ ~(j <= m)
    <3> DEFINE x == i - m
               y == j - m
    <3>1. x \in 1 .. n /\ y \in 1 .. n /\ t[x].photo = t[y].photo /\ (x = y => i = j)
      BY <2>0, <2>2
    <3> HIDE DEF x, y
    <3> QED
      BY <1>6, <3>1
  <2>3. CASE i <= m /\ ~(j <= m)
    BY <1>6, <2>0, <2>3
  <2>4. CASE ~(i <= m) /\ j <= m
    BY <1>6, <2>0, <2>4
  <2> QED
    BY <2>1, <2>2, <2>3, <2>4
<1>8. OnceEach(u)
  BY <1>1, <1>4, <1>7, OnceIs
<1>9. PhotosIn(u) = {u[i].photo : i \in 1 .. m + n}
  BY <1>4 DEF PhotosIn
<1>10. PhotosIn(u) \subseteq PhotosIn(s) \cup PhotosIn(t)
  BY <1>3, <1>5, <1>6, <1>9
<1>11. PhotosIn(s) \subseteq PhotosIn(u)
  BY <1>3, <1>5, <1>6, <1>9
<1>12. PhotosIn(t) \subseteq PhotosIn(u)
  <2>1. ASSUME NEW i \in 1 .. n PROVE m + i \in 1 .. m + n /\ u[m + i] = t[i]
    <3> DEFINE k == m + i
    <3>1. k \in 1 .. m + n /\ ~(k <= m) /\ k - m = i
      BY <1>1, <1>5 DEF m, n
    <3> HIDE DEF k
    <3>2. u[k] = t[i]
      BY <1>3, <3>1
    <3> QED
      BY <3>1, <3>2 DEF k
  <2>2. \A i \in 1 .. n : u[m + i].photo \in PhotosIn(u)
    BY <1>9, <2>1
  <2> QED
    BY <1>6, <2>1, <2>2
<1> QED
  BY <1>8, <1>10, <1>11, <1>12 DEF u

LEMMA OnceOne == \A x : OnceEach(<<x>>) /\ PhotosIn(<<x>>) = {x.photo}
<1> SUFFICES ASSUME NEW x PROVE OnceEach(<<x>>) /\ PhotosIn(<<x>>) = {x.photo}
  OBVIOUS
<1> DEFINE t == <<x>>
<1>1. t = [i \in 1 .. 1 |-> t[i]] /\ DOMAIN t = 1 .. 1 /\ \A i \in 1 .. 1 : t[i] = x /\ i = 1
  OBVIOUS
<1> HIDE DEF t
<1>2. OnceEach(t)
  <2>1. \A i, j \in 1 .. 1 : t[i].photo = t[j].photo => i = j
    BY <1>1
  <2> QED
    BY <1>1, <2>1, OnceIs
<1>3. PhotosIn(t) = {x.photo}
  BY <1>1 DEF PhotosIn
<1> QED
  BY <1>2, <1>3 DEF t

\* A photo is added to a list, and the first one is taken from it.
LEMMA OnceAppend ==
    ASSUME NEW s, OnceEach(s), NEW x, x.photo \notin PhotosIn(s)
    PROVE  OnceEach(Append(s, x)) /\ PhotosIn(Append(s, x)) = PhotosIn(s) \cup {x.photo}
<1> DEFINE t == <<x>>
           S == ToSet(s) \cup {x}
<1>1. OnceEach(t) /\ PhotosIn(t) = {x.photo}
  BY OnceOne
<1>2. s \in Seq(S) /\ x \in S
  BY SeqMonotonic DEF OnceEach
<1>3. Append(s, x) = s \o t
  BY <1>2, AppendIsConcat
<1> QED
  BY <1>1, <1>3, OnceJoin

LEMMA OnceTail ==
    ASSUME NEW q, OnceEach(q), q # <<>>
    PROVE  /\ OnceEach(Tail(q)) /\ q[1].photo \in PhotosIn(q)
           /\ PhotosIn(Tail(q)) = PhotosIn(q) \ {q[1].photo} /\ q[1] \in ToSet(q)
           /\ Len(Tail(q)) = Len(q) - 1
<1>1. Len(q) \in Nat /\ Len(q) >= 1 /\ 1 \in 0 .. Len(q) /\ 1 \in 1 .. Len(q)
  BY ListIs
<1>2. Tail(q) = SubSeq(q, 2, Len(q)) /\ Len(Tail(q)) = Len(q) - 1
  BY TailIsSubSeq, HeadTailProperties DEF OnceEach
<1> DEFINE first == SubSeq(q, 1, 1)
           rest == SubSeq(q, 1 + 1, Len(q))
<1>3. /\ OnceEach(first) /\ OnceEach(rest)
      /\ PhotosIn(first) \cup PhotosIn(rest) = PhotosIn(q) /\ PhotosIn(first) \cap PhotosIn(rest) = {}
      /\ Len(first) = 1 /\ \A i \in 1 .. 1 : first[i] = q[i]
  BY <1>1, OnceSplit
<1>4. Tail(q) = rest
  BY <1>2
<1> HIDE DEF first, rest
<1>5. PhotosIn(first) = {first[i].photo : i \in 1 .. 1}
  BY <1>3, ListIs
<1>6. PhotosIn(first) = {q[1].photo}
  BY <1>3, <1>5
<1> QED
  BY <1>1, <1>2, <1>3, <1>4, <1>6, ListIs

\* What is made of a list item by item is a list of the same photos.
LEMMA OnceMap ==
    ASSUME NEW q, OnceEach(q), NEW t, t = [i \in DOMAIN q |-> t[i]], \A i \in DOMAIN q : t[i].photo = q[i].photo
    PROVE  OnceEach(t) /\ PhotosIn(t) = PhotosIn(q) /\ DOMAIN t = DOMAIN q
<1>1. Len(q) \in Nat /\ DOMAIN q = 1 .. Len(q) /\ PhotosIn(q) = {q[i].photo : i \in 1 .. Len(q)}
  BY ListIs
<1>2. DOMAIN t = 1 .. Len(q) /\ t = [i \in 1 .. Len(q) |-> t[i]]
  BY <1>1
<1>3. \A i, j \in 1 .. Len(q) : t[i].photo = t[j].photo => i = j
  BY <1>1, ListIs
<1>4. OnceEach(t)
  BY <1>1, <1>2, <1>3, OnceIs
<1> QED
  BY <1>1, <1>2, <1>4 DEF PhotosIn

\* The photos named are waited for, each once.
LEMMA OnceNamed ==
    ASSUME NEW n \in Nat, NEW photos, DOMAIN photos = 1 .. n, \A i, j \in 1 .. n : i # j => photos[i] # photos[j]
    PROVE  OnceEach(ItemsOf(photos)) /\ PhotosIn(ItemsOf(photos)) = ToSet(photos)
<1> DEFINE t == ItemsOf(photos)
<1>1. t = [i \in 1 .. n |-> t[i]] /\ \A i \in 1 .. n : t[i].photo = photos[i]
  BY DEF ItemsOf, Item
<1> HIDE DEF t
<1>2. OnceEach(t)
  BY <1>1, OnceIs
<1>3. PhotosIn(t) = {photos[i] : i \in 1 .. n}
  BY <1>1 DEF PhotosIn
<1> QED
  BY <1>2, <1>3 DEF t, ToSet

\* The items kept are found one after the other.
KeptSteps(f, n, items, xs) ==
    f = [i \in 0 .. n |->
           IF i = 0 THEN <<>> ELSE IF items[i] \in xs THEN Append(f[i - 1], items[i]) ELSE f[i - 1]]

LEMMA KeptIs ==
    ASSUME NEW items, NEW xs, Len(items) \in Nat
    PROVE  \E f : KeptSteps(f, Len(items), items, xs) /\ Kept(items, xs) = f[Len(items)]
<1> DEFINE N == Len(items)
<1>1. \A n \in 0 .. N : \E g : KeptSteps(g, n, items, xs)
  <2> DEFINE Bad == {n \in 0 .. N : ~\E g : KeptSteps(g, n, items, xs)}
  <2> SUFFICES ASSUME Bad # {} PROVE FALSE
    OBVIOUS
  <2>1. PICK m \in Bad : \A y \in Bad : m <= y
    <3>1. Bad \subseteq Nat
      OBVIOUS
    <3> HIDE DEF Bad
    <3> QED
      BY <3>1, LeastNumber
  <2>2. m # 0
    <3> DEFINE g == [i \in 0 .. 0 |-> <<>>]
    <3>1. KeptSteps(g, 0, items, xs)
      BY DEF KeptSteps
    <3> QED
      BY <3>1
  <2>3. m \in Nat /\ m - 1 \in 0 .. N /\ m - 1 \in Nat /\ m - 1 < m
    BY <2>2
  <2>4. m - 1 \notin Bad
    <3> HIDE DEF Bad
    <3> QED
      BY <2>1, <2>3
  <2>5. PICK g : KeptSteps(g, m - 1, items, xs)
    BY <2>3, <2>4
  <2> DEFINE h == [i \in 0 .. m |-> IF i # m THEN g[i]
                                    ELSE IF items[m] \in xs THEN Append(g[m - 1], items[m]) ELSE g[m - 1]]
  <2>6. \A i \in 0 .. m : i # m => i \in 0 .. m - 1 /\ (i = 0 \/ i - 1 \in 0 .. m)
    BY <2>3
  <2>7. ASSUME NEW i \in 0 .. m
        PROVE  h[i] = IF i = 0 THEN <<>> ELSE IF items[i] \in xs THEN Append(h[i - 1], items[i]) ELSE h[i - 1]
    <3>1. i # 0 => i - 1 \in 0 .. m /\ i - 1 # m
      BY <2>3
    <3>2. i # 0 => h[i - 1] = g[i - 1]
      BY <3>1
    <3>3. CASE i = m
      <4>1. h[i] = IF items[m] \in xs THEN Append(g[m - 1], items[m]) ELSE g[m - 1]
        BY <3>3
      <4>2. i # 0 /\ h[i - 1] = g[m - 1]
        BY <2>2, <3>2, <3>3
      <4> QED
        BY <3>3, <4>1, <4>2
    <3>4. CASE i # m
      <4>1. h[i] = g[i]
        BY <3>4
      <4>2. g[i] = IF i = 0 THEN <<>> ELSE IF items[i] \in xs THEN Append(g[i - 1], items[i]) ELSE g[i - 1]
        BY <2>5, <2>6, <3>4 DEF KeptSteps
      <4> QED
        BY <3>2, <4>1, <4>2
    <3> QED
      BY <3>3, <3>4
  <2>8. KeptSteps(h, m, items, xs)
    <3> HIDE DEF h
    <3>1. h = [i \in 0 .. m |-> h[i]]
      BY DEF h
    <3> QED
      BY <2>7, <3>1 DEF KeptSteps
  <2> QED
    BY <2>8
<1>2. PICK g : KeptSteps(g, N, items, xs)
  BY <1>1
<1>3. Kept(items, xs) = (CHOOSE f : KeptSteps(f, N, items, xs))[N]
  BY Zenon DEF Kept, KeptSteps
<1>4. KeptSteps(CHOOSE f : KeptSteps(f, N, items, xs), N, items, xs)
  BY <1>2, Zenon
<1> QED
  BY <1>3, <1>4, Zenon

\* The items kept are a list again, of exactly the items in the set.
LEMMA OnceKept ==
    ASSUME NEW q, OnceEach(q), NEW xs
    PROVE  LET kept == Kept(q, xs)
           IN OnceEach(kept) /\ ToSet(kept) = ToSet(q) \cap xs /\ PhotosIn(kept) = {x.photo : x \in ToSet(q) \cap xs}
<1> DEFINE N == Len(q)
           In(n) == {q[i] : i \in {j \in 1 .. n : q[j] \in xs}}
<1>1. N \in Nat /\ \A i, j \in 1 .. N : q[i].photo = q[j].photo => i = j
  BY ListIs
<1>2. PICK f : KeptSteps(f, N, q, xs) /\ Kept(q, xs) = f[N]
  BY <1>1, KeptIs
<1>3. ASSUME NEW n \in 0 .. N PROVE OnceEach(f[n]) /\ ToSet(f[n]) = In(n)
  <2> DEFINE Bad == {k \in 0 .. N : ~(OnceEach(f[k]) /\ ToSet(f[k]) = In(k))}
  <2> SUFFICES ASSUME Bad # {} PROVE FALSE
    OBVIOUS
  <2>1. PICK m \in Bad : \A y \in Bad : m <= y
    <3>1. Bad \subseteq Nat
      OBVIOUS
    <3> HIDE DEF Bad
    <3> QED
      BY <3>1, LeastNumber
  <2>2. m # 0
    <3>1. f[0] = <<>>
      BY <1>1, <1>2 DEF KeptSteps
    <3>2. ToSet(<<>>) = {} /\ In(0) = {}
      BY DEF ToSet
    <3> QED
      BY <3>1, <3>2, OnceEmpty
  <2>3. m \in Nat /\ m \in 1 .. N /\ m - 1 \in 0 .. N /\ m - 1 \in Nat /\ m - 1 < m
    BY <1>1, <2>2
  <2>4. OnceEach(f[m - 1]) /\ ToSet(f[m - 1]) = In(m - 1)
    <3>1. m - 1 \notin Bad
      <4> HIDE DEF Bad
      <4> QED
        BY <2>1, <2>3
    <3> QED
      BY <2>3, <3>1
  <2>5. f[m] = IF q[m] \in xs THEN Append(f[m - 1], q[m]) ELSE f[m - 1]
    BY <1>2, <2>2, <2>3 DEF KeptSteps
  <2>6. \A j \in 1 .. m : j \in 1 .. m - 1 \/ j = m
    BY <2>3
  <2>7. \A j \in 1 .. m - 1 : j \in 1 .. m /\ j \in 1 .. N /\ j # m
    BY <2>3
  <2>8. CASE q[m] \notin xs
    <3>1. In(m) = In(m - 1)
      BY <2>6, <2>7, <2>8
    <3> QED
      BY <2>4, <2>5, <2>8, <3>1
  <2>9. CASE q[m] \in xs
    <3>1. In(m) = In(m - 1) \cup {q[m]}
      <4>1. m \in 1 .. m
        BY <2>3
      <4> QED
        BY <2>6, <2>7, <2>9, <4>1
    <3>2. q[m].photo \notin PhotosIn(f[m - 1])
      <4>1. PhotosIn(f[m - 1]) = {x.photo : x \in In(m - 1)}
        BY <2>4, ListIs
      <4>2. \A j \in 1 .. m - 1 : q[j].photo # q[m].photo
        BY <1>1, <2>3, <2>7
      <4> QED
        BY <4>1, <4>2
    <3> DEFINE g == f[m - 1]
    <3>3. OnceEach(Append(g, q[m]))
      BY <2>4, <3>2, OnceAppend
    <3>4. ToSet(Append(g, q[m])) = ToSet(g) \cup {q[m]}
      <4>1. g \in Seq(ToSet(g)) /\ Len(g) \in Nat /\ DOMAIN g = 1 .. Len(g)
        BY <2>4, ListIs DEF OnceEach
      <4> HIDE DEF g
      <4> DEFINE S == ToSet(g) \cup {q[m]}
                 h == Append(g, q[m])
      <4>2. g \in Seq(S) /\ q[m] \in S
        BY <4>1, SeqMonotonic
      <4>3. /\ h \in Seq(S) /\ Len(h) = Len(g) + 1
            /\ \A i \in 1 .. Len(g) : h[i] = g[i]
            /\ h[Len(g) + 1] = q[m]
        BY <4>2, AppendProperties
      <4>4. DOMAIN h = 1 .. Len(g) + 1
        BY <4>3, LenProperties
      <4> HIDE DEF h
      <4>5. \A i \in 1 .. Len(g) + 1 : i \in 1 .. Len(g) \/ i = Len(g) + 1
        BY <4>1
      <4>6. Len(g) + 1 \in 1 .. Len(g) + 1 /\ \A i \in 1 .. Len(g) : i \in 1 .. Len(g) + 1
        BY <4>1
      <4>7. ToSet(h) \subseteq ToSet(g) \cup {q[m]}
        BY <4>1, <4>3, <4>4, <4>5 DEF ToSet
      <4>8. ToSet(g) \subseteq ToSet(h)
        BY <4>1, <4>3, <4>4, <4>6 DEF ToSet
      <4>9. q[m] \in ToSet(h)
        BY <4>3, <4>4, <4>6 DEF ToSet
      <4> QED
        BY <4>7, <4>8, <4>9 DEF h
    <3> QED
      BY <2>4, <2>5, <2>9, <3>1, <3>3, <3>4
  <2> QED
    BY <2>8, <2>9
<1>4. OnceEach(f[N]) /\ ToSet(f[N]) = In(N)
  <2>1. N \in 0 .. N
    BY <1>1
  <2> HIDE DEF N, In
  <2> QED
    BY <1>3, <2>1
<1>5. In(N) = ToSet(q) \cap xs
  <2>1. DOMAIN q = 1 .. N
    BY ListIs
  <2> QED
    BY <2>1 DEF ToSet
<1>6. PhotosIn(f[N]) = {x.photo : x \in ToSet(f[N])}
  BY <1>4, ListIs
<1> QED
  BY <1>2, <1>4, <1>5, <1>6

\* The requests of a photo that are needed are some of the three, in their order.
AllTagSteps ==
    {<<>>, <<"favourite">>, <<"add">>, <<"remove">>, <<"favourite", "add">>, <<"favourite", "remove">>,
     <<"add", "remove">>, <<"favourite", "add", "remove">>}

LEMMA TagStepsAre ==
    /\ TagStepsNeeded \in AllTagSteps
    /\ "favourite" \in ToSet(TagStepsNeeded) <=> "favourite" \in albumCase.tagsToAdd
    /\ "add" \in ToSet(TagStepsNeeded) <=> albumCase.tagsToAdd \ {"favourite"} # {}
    /\ "remove" \in ToSet(TagStepsNeeded) <=> albumCase.tagsToRemove # {}
<1> DEFINE xs == {step \in ToSet(TagSteps) :
                    CASE step = "favourite" -> "favourite" \in albumCase.tagsToAdd
                      [] step = "add" -> albumCase.tagsToAdd \ {"favourite"} # {}
                      [] step = "remove" -> albumCase.tagsToRemove # {}}
<1>1. TagStepsNeeded = Kept(TagSteps, xs)
  BY DEF TagStepsNeeded
<1>2. /\ Len(TagSteps) = 3 /\ TagSteps[1] = "favourite" /\ TagSteps[2] = "add" /\ TagSteps[3] = "remove"
      /\ ToSet(TagSteps) = {"favourite", "add", "remove"}
  BY DEF TagSteps, ToSet
<1>3. /\ "favourite" \in xs <=> "favourite" \in albumCase.tagsToAdd
      /\ "add" \in xs <=> albumCase.tagsToAdd \ {"favourite"} # {}
      /\ "remove" \in xs <=> albumCase.tagsToRemove # {}
  BY <1>2
<1> HIDE DEF xs
<1>4. PICK f : KeptSteps(f, 3, TagSteps, xs) /\ TagStepsNeeded = f[3]
  BY <1>1, <1>2, KeptIs
<1>5. /\ f[0] = <<>>
      /\ f[1] = IF "favourite" \in xs THEN Append(f[0], "favourite") ELSE f[0]
      /\ f[2] = IF "add" \in xs THEN Append(f[1], "add") ELSE f[1]
      /\ f[3] = IF "remove" \in xs THEN Append(f[2], "remove") ELSE f[2]
  <2>1. f = [i \in 0 .. 3 |->
                IF i = 0 THEN <<>> ELSE IF TagSteps[i] \in xs THEN Append(f[i - 1], TagSteps[i]) ELSE f[i - 1]]
    BY <1>4 DEF KeptSteps
  <2>2. \A i \in 0 .. 3 :
          f[i] = IF i = 0 THEN <<>> ELSE IF TagSteps[i] \in xs THEN Append(f[i - 1], TagSteps[i]) ELSE f[i - 1]
    BY <2>1, Zenon
  <2>3. 0 \in 0 .. 3 /\ 1 \in 0 .. 3 /\ 2 \in 0 .. 3 /\ 3 \in 0 .. 3 /\ 1 - 1 = 0 /\ 2 - 1 = 1 /\ 3 - 1 = 2
        /\ 1 # 0 /\ 2 # 0 /\ 3 # 0
    OBVIOUS
  <2> QED
    BY <1>2, <2>2, <2>3
<1>0. /\ \A a : Append(<<>>, a) = <<a>>
      /\ \A a, b : Append(<<a>>, b) = <<a, b>>
      /\ \A a, b, c : Append(<<a, b>>, c) = <<a, b, c>>
  <2>1. \A a : Append(<<>>, a) = <<a>>
    OBVIOUS
  <2>2. ASSUME NEW a, NEW b PROVE Append(<<a>>, b) = <<a, b>>
    <3> DEFINE S == {a, b}
    <3>1. <<a>> \in Seq(S) /\ b \in S /\ <<a, b>> \in Seq(S)
      OBVIOUS
    <3>2. /\ Append(<<a>>, b) \in Seq(S) /\ Len(Append(<<a>>, b)) = Len(<<a>>) + 1
          /\ \A i \in 1 .. Len(<<a>>) : Append(<<a>>, b)[i] = <<a>>[i]
          /\ Append(<<a>>, b)[Len(<<a>>) + 1] = b
      BY <3>1, AppendProperties
    <3>3. \A i \in 1 .. 2 : Append(<<a>>, b)[i] = <<a, b>>[i]
      <4>1. Append(<<a>>, b)[1] = a /\ Append(<<a>>, b)[2] = b
        BY <3>2
      <4> QED
        BY <4>1
    <3>4. Len(Append(<<a>>, b)) = 2 /\ Len(<<a, b>>) = 2
      BY <3>2
    <3> HIDE DEF S
    <3> QED
      BY <3>1, <3>2, <3>3, <3>4, SeqEqual
  <2>3. ASSUME NEW a, NEW b, NEW c PROVE Append(<<a, b>>, c) = <<a, b, c>>
    <3> DEFINE S == {a, b, c}
    <3>1. <<a, b>> \in Seq(S) /\ c \in S /\ <<a, b, c>> \in Seq(S)
      OBVIOUS
    <3>2. /\ Append(<<a, b>>, c) \in Seq(S) /\ Len(Append(<<a, b>>, c)) = Len(<<a, b>>) + 1
          /\ \A i \in 1 .. Len(<<a, b>>) : Append(<<a, b>>, c)[i] = <<a, b>>[i]
          /\ Append(<<a, b>>, c)[Len(<<a, b>>) + 1] = c
      BY <3>1, AppendProperties
    <3>3. \A i \in 1 .. 3 : Append(<<a, b>>, c)[i] = <<a, b, c>>[i]
      <4>1. Append(<<a, b>>, c)[1] = a /\ Append(<<a, b>>, c)[2] = b /\ Append(<<a, b>>, c)[3] = c
        BY <3>2
      <4> QED
        BY <4>1
    <3>4. Len(Append(<<a, b>>, c)) = 3 /\ Len(<<a, b, c>>) = 3
      BY <3>2
    <3> HIDE DEF S
    <3> QED
      BY <3>1, <3>2, <3>3, <3>4, SeqEqual
  <2> QED
    BY <2>1, <2>2, <2>3
<1>6. f[1] = IF "favourite" \in xs THEN <<"favourite">> ELSE <<>>
  BY <1>0, <1>5
<1>7. f[2] = IF "add" \in xs THEN (IF "favourite" \in xs THEN <<"favourite", "add">> ELSE <<"add">>)
                             ELSE (IF "favourite" \in xs THEN <<"favourite">> ELSE <<>>)
  BY <1>0, <1>5, <1>6
<1>8. CASE "remove" \notin xs
  BY <1>3, <1>4, <1>5, <1>7, <1>8 DEF AllTagSteps, ToSet
<1>9. CASE "remove" \in xs
  <2>1. f[3] = IF "add" \in xs THEN (IF "favourite" \in xs THEN <<"favourite", "add", "remove">> ELSE <<"add", "remove">>)
                               ELSE (IF "favourite" \in xs THEN <<"favourite", "remove">> ELSE <<"remove">>)
    BY <1>0, <1>5, <1>7, <1>9
  <2> QED
    BY <1>3, <1>4, <1>9, <2>1 DEF AllTagSteps, ToSet
<1> QED
  BY <1>8, <1>9

-------------------------------------------------------------------------------
(* Photos and albums: the invariant.                                         *)

Asked == ToSet(albumCase.asked)
Waiting == PhotosIn(sameQueue) \cup PhotosIn(otherQueue)
InFlight == Waiting \cup PhotosIn(payloads)

ViewShape(v) == v = [fresh |-> v.fresh, parent |-> v.parent, related |-> v.related]

AlbumTypes ==
    /\ albumCase \in AlbumCases
    /\ stage \in {"begin", "work", "delete", "saving", "again", "ended", "thrown"}
    /\ copies \in [PhotosOf(albumCase) -> {0, 1}]
    /\ results \in [PhotosOf(albumCase) -> Seq({"ok", "failed"})]
    /\ DOMAIN needs = PhotosOf(albumCase) /\ DOMAIN tags = PhotosOf(albumCase)
    /\ view = [p \in PhotosOf(albumCase) |-> view[p]] /\ \A p \in PhotosOf(albumCase) : ViewShape(view[p])
    /\ inAlbum \subseteq PhotosOf(albumCase) /\ inTimeline \subseteq PhotosOf(albumCase)
    /\ deleted \subseteq PhotosOf(albumCase) /\ retried \subseteq PhotosOf(albumCase)
    /\ albumGone \in BOOLEAN /\ albumFaults \in Nat

\* Which operation is where, and where nothing waits.
StageInv ==
    /\ stage \in {"delete", "saving", "again"} => albumCase.op = "delete"
    /\ albumCase.op = "delete" => stage # "work"
    /\ albumGone => albumCase.op = "delete"
    /\ stage \in {"begin", "delete", "again", "ended"} => sameQueue = <<>> /\ otherQueue = <<>> /\ payloads = <<>>
    /\ albumCase.op \in {"remove", "tag", "delete"} => otherQueue = <<>>
    /\ albumCase.op = "remove" => payloads = <<>>
    /\ albumCase.op = "tag" => Len(payloads) <= 1
    /\ ThrowsOnlyOnFailure

\* A photo waits at one place, once.
FlightInv ==
    /\ OnceEach(sameQueue) /\ OnceEach(otherQueue) /\ OnceEach(payloads)
    /\ PhotosIn(sameQueue) \cap PhotosIn(otherQueue) = {}
    /\ PhotosIn(payloads) \cap Waiting = {}
    /\ InFlight \subseteq PhotosOf(albumCase)
    /\ albumCase.op # "delete" => InFlight \subseteq Asked

\* A photo has its result once it waits nowhere.
ResultInv ==
    albumCase.op # "delete" =>
        \A p \in PhotosOf(albumCase) :
            /\ results[p] \in {<<>>, <<"ok">>, <<"failed">>}
            /\ results[p] # <<>> => p \in Asked \ InFlight /\ stage # "begin"
            /\ p \in Asked \ InFlight /\ stage \notin {"begin", "thrown"} => results[p] # <<>>

CopyInv ==
    \A p \in PhotosOf(albumCase) :
        /\ p \in InFlight \/ p \notin Asked \/ stage = "begin" => copies[p] = 0
        /\ results[p] = <<"failed">> /\ albumFaults = 0 => copies[p] = 0

DoneInv ==
    albumCase.op # "tag" => \A p \in PhotosOf(albumCase) : results[p] = <<"ok">> /\ p \notin deleted => Done(p)

\* The tags a photo has where the steps left are still to come.
TagsAfter(p, left) ==
    /\ "favourite" \notin ToSet(left) => albumCase.tagsToAdd \cap {"favourite"} \subseteq tags[p]
    /\ "add" \notin ToSet(left) => albumCase.tagsToAdd \ {"favourite"} \subseteq tags[p]
    /\ "remove" \notin ToSet(left) => albumCase.tagsToRemove \cap tags[p] = {}

\* No tag is taken away before the new ones are there.
TagsOrdered(p) == ~(albumCase.tagsToRemove \subseteq tags[p]) => albumCase.tagsToAdd \subseteq tags[p]

TagInv ==
    albumCase.op = "tag" =>
        /\ \A p \in PhotosOf(albumCase) : TagsOrdered(p) /\ (results[p] = <<"ok">> => TagsAfter(p, <<>>))
        /\ payloads # <<>> =>
              /\ payloads[1] = [photo |-> payloads[1].photo, related |-> payloads[1].related, left |-> payloads[1].left]
              /\ payloads[1].left \in AllTagSteps /\ TagsAfter(payloads[1].photo, payloads[1].left)
              /\ "favourite" \in ToSet(payloads[1].left) => "favourite" \in albumCase.tagsToAdd

\* Where a photo that was reported as done is.
ViewInv ==
    albumCase.op # "delete" =>
        \A p \in PhotosOf(albumCase) :
            results[p] = <<"ok">> /\ view[p].fresh /\ p \notin deleted => view[p].parent = ParentOf(p) \/ Foreign(p)

AlbumInv ==
    /\ AlbumTypes /\ StageInv /\ FlightInv /\ ResultInv /\ CopyInv /\ DoneInv /\ TagInv /\ ViewInv
    /\ DeletedAlbumIsSaved

LEMMA CaseIs ==
    ASSUME albumCase \in AlbumCases
    PROVE  /\ albumCase.op \in {"add", "save", "remove", "delete", "tag"}
           /\ Asked \subseteq PhotosOf(albumCase)
           /\ Len(albumCase.asked) \in Nat /\ DOMAIN albumCase.asked = 1 .. Len(albumCase.asked)
           /\ \A i, j \in 1 .. Len(albumCase.asked) : i # j => albumCase.asked[i] # albumCase.asked[j]
           /\ Asked = {albumCase.asked[i] : i \in 1 .. Len(albumCase.asked)}
           /\ albumCase.op = "delete" => albumCase.asked = <<>> /\ Asked = {}
           /\ albumCase.album \subseteq PhotosOf(albumCase) /\ albumCase.timeline \subseteq PhotosOf(albumCase)
           /\ IsFiniteSet(PhotosOf(albumCase))
           /\ albumCase.tagsToAdd \cap albumCase.tagsToRemove = {}
           /\ LoadSize \in Nat \ {0} /\ BatchLimit \in Nat \ {0} /\ MaxAlbumFaults \in Nat
<1> DEFINE asked == albumCase.asked
<1>1. /\ albumCase.op \in {"add", "save", "remove", "delete", "tag"}
      /\ asked \in Seq(ToSet(asked))
      /\ \A i, j \in DOMAIN asked : i # j => asked[i] # asked[j]
      /\ albumCase.op = "delete" => asked = <<>>
      /\ IsFiniteSet(albumCase.album) /\ IsFiniteSet(albumCase.timeline) /\ IsFiniteSet(albumCase.elsewhere)
      /\ albumCase.tagsToAdd \cap albumCase.tagsToRemove = {}
      /\ LoadSize \in Nat \ {0} /\ BatchLimit \in Nat \ {0} /\ MaxAlbumFaults \in Nat
  BY PhotoAlbumsConstants
<1>2. Len(asked) \in Nat /\ DOMAIN asked = 1 .. Len(asked)
  BY <1>1, LenProperties
<1>3. Asked = {asked[i] : i \in 1 .. Len(asked)}
  BY <1>2 DEF Asked, ToSet
<1>4. IsFiniteSet(Asked)
  <2>1. IsFiniteSet(1 .. Len(asked))
    BY <1>2, FS_Interval
  <2> DEFINE D == 1 .. Len(asked)
             f == [i \in D |-> asked[i]]
  <2>2. IsFiniteSet({f[i] : i \in D})
    <3>1. f \in [D -> Asked]
      BY <1>3
    <3>2. f \in Surjection(D, Asked)
      BY <1>3, <3>1 DEF Surjection
    <3>3. IsFiniteSet(Asked)
      BY <2>1, <3>2, FS_Surjection
    <3> QED
      BY <1>3, <3>3
  <2> QED
    BY <1>3, <2>2
<1>5. IsFiniteSet(PhotosOf(albumCase))
  BY <1>1, <1>4, FS_Union DEF PhotosOf, Asked
<1>6. albumCase.op = "delete" => Asked = {}
  BY <1>1 DEF Asked, ToSet
<1> QED
  BY <1>1, <1>2, <1>3, <1>5, <1>6 DEF PhotosOf, Asked

LEMMA AlbumPhotos ==
    ASSUME AlbumTypes
    PROVE  AllPhotos = PhotosOf(albumCase)
BY DEF AlbumTypes, AllPhotos

\* When photos that waited get their results.
LEMMA ResultsKeep ==
    ASSUME AlbumInv, albumCase' = albumCase, NEW done,
           stage \notin {"begin", "thrown"}, stage' # "begin",
           albumCase.op # "delete" =>
               /\ done \subseteq InFlight
               /\ InFlight' \subseteq InFlight \ done
               /\ stage' = "thrown" \/ InFlight \ done \subseteq InFlight'
               /\ \A p \in PhotosOf(albumCase) :
                     IF p \in done THEN results'[p] \in {<<"ok">>, <<"failed">>} ELSE results'[p] = results[p]
    PROVE  ResultInv'
<1> SUFFICES ASSUME albumCase.op # "delete", NEW p \in PhotosOf(albumCase)
             PROVE  /\ results'[p] \in {<<>>, <<"ok">>, <<"failed">>}
                    /\ results'[p] # <<>> => p \in Asked \ InFlight'
                    /\ p \in Asked \ InFlight' /\ stage' # "thrown" => results'[p] # <<>>
  <2>1. Asked' = Asked /\ PhotosOf(albumCase)' = PhotosOf(albumCase)
    BY DEF Asked, PhotosOf
  <2> QED
    BY <2>1 DEF ResultInv
<1>1. /\ results[p] \in {<<>>, <<"ok">>, <<"failed">>}
      /\ results[p] # <<>> => p \in Asked \ InFlight
      /\ p \in Asked \ InFlight => results[p] # <<>>
      /\ InFlight \subseteq Asked
  BY DEF AlbumInv, ResultInv, FlightInv
<1>2. <<"ok">> # <<>> /\ <<"failed">> # <<>>
  OBVIOUS
<1>3. CASE p \in done
  BY <1>1, <1>2, <1>3
<1>4. CASE p \notin done
  BY <1>1, <1>2, <1>4
<1> QED
  BY <1>3, <1>4

\* What is copied was asked for and waits no more.
LEMMA CopiesKeep ==
    ASSUME AlbumInv, albumCase' = albumCase, stage # "begin", stage' # "begin",
           InFlight' \subseteq InFlight, albumFaults' = 0 => albumFaults = 0,
           \A p \in PhotosOf(albumCase) :
              \/ copies'[p] = copies[p] /\ results'[p] = results[p]
              \/ copies'[p] = 0
              \/ p \in Asked \ InFlight' /\ (results'[p] = <<"failed">> /\ albumFaults' = 0 => copies'[p] = 0)
    PROVE  CopyInv'
<1> SUFFICES ASSUME NEW p \in PhotosOf(albumCase)
             PROVE  /\ p \in InFlight' \/ p \notin Asked => copies'[p] = 0
                    /\ results'[p] = <<"failed">> /\ albumFaults' = 0 => copies'[p] = 0
  <2>1. Asked' = Asked /\ PhotosOf(albumCase)' = PhotosOf(albumCase)
    BY DEF Asked, PhotosOf
  <2> QED
    BY <2>1 DEF CopyInv
<1> QED
  BY DEF AlbumInv, CopyInv

\* The initial states.
LEMMA AlbumStarts == PhotosInit => AlbumInv
<1> SUFFICES ASSUME PhotosInit PROVE AlbumInv
  OBVIOUS
<1>1. albumCase \in AlbumCases /\ stage = "begin" /\ sameQueue = <<>> /\ otherQueue = <<>> /\ payloads = <<>>
      /\ albumGone = FALSE /\ albumFaults = 0 /\ deleted = {} /\ retried = {}
      /\ inAlbum = albumCase.album /\ inTimeline = albumCase.timeline
  BY DEF PhotosInit
<1>2. /\ copies = [p \in PhotosOf(albumCase) |-> 0]
      /\ tags = [p \in PhotosOf(albumCase) |-> albumCase.tagsToRemove]
      /\ needs = [p \in PhotosOf(albumCase) |-> albumCase.related]
      /\ results = [p \in PhotosOf(albumCase) |-> <<>>]
  BY DEF PhotosInit
<1>3. InFlight = {} /\ Waiting = {}
  BY <1>1, OnceEmpty DEF InFlight, Waiting
<1>4. AlbumTypes
  <2>1. \A p \in PhotosOf(albumCase) : ViewShape(view[p])
    <3>1. view = [p \in PhotosOf(albumCase) |-> [Loaded(p) EXCEPT !.related = {}]]
      BY DEF PhotosInit
    <3> SUFFICES ASSUME NEW p \in PhotosOf(albumCase) PROVE ViewShape(view[p])
      OBVIOUS
    <3>2. view[p] = [[fresh |-> TRUE, parent |-> ParentOf(p), related |-> needs[p]] EXCEPT !.related = {}]
      BY <3>1 DEF Loaded
    <3>3. PICK x, y : x = ParentOf(p) /\ y = needs[p]
      OBVIOUS
    <3>4. view[p] = [fresh |-> TRUE, parent |-> x, related |-> {}]
      BY <3>2, <3>3
    <3> QED
      BY <3>4 DEF ViewShape
  <2>2. view = [p \in PhotosOf(albumCase) |-> view[p]]
    BY DEF PhotosInit
  <2>3. results \in [PhotosOf(albumCase) -> Seq({"ok", "failed"})]
    BY <1>2, EmptySeq
  <2> QED
    BY <1>1, <1>2, <2>1, <2>2, <2>3, CaseIs DEF AlbumTypes
<1>5. StageInv
  <2>1. Len(payloads) <= 1
    BY <1>1
  <2> QED
    BY <1>1, <2>1 DEF StageInv, ThrowsOnlyOnFailure
<1>6. FlightInv
  BY <1>1, <1>3, OnceEmpty DEF FlightInv
<1>7. <<>> # <<"ok">> /\ <<>> # <<"failed">>
  OBVIOUS
<1>8. ResultInv /\ CopyInv /\ DoneInv /\ ViewInv
  BY <1>1, <1>2, <1>7 DEF ResultInv, CopyInv, DoneInv, ViewInv
<1>9. TagInv
  BY <1>1, <1>2, <1>7 DEF TagInv, TagsOrdered
<1> QED
  BY <1>1, <1>4, <1>5, <1>6, <1>8, <1>9 DEF AlbumInv, DeletedAlbumIsSaved

LEMMA QueuesStay ==
    ASSUME AlbumInv, albumCase' = albumCase, UNCHANGED <<sameQueue, otherQueue, payloads>>
    PROVE  InFlight' = InFlight /\ Waiting' = Waiting /\ FlightInv'
<1>1. InFlight' = InFlight /\ Waiting' = Waiting
  BY DEF InFlight, Waiting, PhotosIn
<1>2. /\ OnceEach(sameQueue)' <=> OnceEach(sameQueue)
      /\ OnceEach(otherQueue)' <=> OnceEach(otherQueue)
      /\ OnceEach(payloads)' <=> OnceEach(payloads)
  BY DEF OnceEach, ToSet
<1>3. PhotosIn(sameQueue)' = PhotosIn(sameQueue) /\ PhotosIn(otherQueue)' = PhotosIn(otherQueue)
      /\ PhotosIn(payloads)' = PhotosIn(payloads)
  BY DEF PhotosIn
<1>4. PhotosOf(albumCase)' = PhotosOf(albumCase) /\ Asked' = Asked
  BY DEF PhotosOf, Asked
<1> QED
  BY <1>1, <1>2, <1>3, <1>4 DEF AlbumInv, FlightInv

\* What is said of each photo stays when nothing it is said of changes.
LEMMA PhotosStay ==
    ASSUME AlbumInv, UNCHANGED <<albumCase, inAlbum, inTimeline, copies, deleted, tags, payloads, results, albumFaults>>
    PROVE  /\ DoneInv' /\ TagInv'
           /\ UNCHANGED view => ViewInv'
           /\ (InFlight' = InFlight /\ (stage' = "begin" => stage = "begin")) => CopyInv'
<1>1. /\ PhotosOf(albumCase)' = PhotosOf(albumCase) /\ Asked' = Asked
      /\ \A p : (Foreign(p)' <=> Foreign(p)) /\ ParentOf(p)' = ParentOf(p)
  BY DEF PhotosOf, Asked, Foreign, ParentOf
<1>2. \A p : Done(p)' <=> Done(p)
  BY <1>1 DEF Done
<1>3. DoneInv'
  BY <1>1, <1>2 DEF AlbumInv, DoneInv
<1>4. TagInv'
  BY <1>1 DEF AlbumInv, TagInv, TagsOrdered, TagsAfter
<1>5. UNCHANGED view => ViewInv'
  BY <1>1 DEF AlbumInv, ViewInv
<1>6. InFlight' = InFlight /\ (stage' = "begin" => stage = "begin") => CopyInv'
  BY <1>1 DEF AlbumInv, CopyInv
<1> QED
  BY <1>3, <1>4, <1>5, <1>6

\* Nothing waits any more: the call ends, or the album is deleted next.
LEMMA NothingWaits ==
    ASSUME AlbumInv,
           UNCHANGED <<albumCase, AlbumServer, needs, deleted, view, Queues, results, albumFaults>>,
           payloads = <<>>, sameQueue = <<>>, otherQueue = <<>>, stage \notin {"begin", "thrown"},
           stage' = IF stage = "saving" THEN "again" ELSE "ended"
    PROVE  AlbumInv'
<1>1. UNCHANGED <<albumCase, needs, deleted, view, results, albumFaults>>
  OBVIOUS
<1>3. UNCHANGED <<inAlbum, inTimeline, copies, albumGone, tags, sameQueue, otherQueue, payloads, retried>>
  BY DEF AlbumServer, Queues
<1>4. InFlight' = InFlight /\ Waiting' = Waiting /\ FlightInv'
  BY <1>1, <1>3, QueuesStay
<1>5. AlbumTypes'
  BY <1>1, <1>3 DEF AlbumInv, AlbumTypes, PhotosOf, ViewShape
<1>6. StageInv'
  BY <1>1, <1>3 DEF AlbumInv, StageInv, ThrowsOnlyOnFailure
<1>7. ResultInv'
  <2>1. stage' # "begin"
    OBVIOUS
  <2> QED
    BY <1>1, <1>4, <2>1, ResultsKeep
<1>8. CopyInv' /\ DoneInv' /\ TagInv' /\ ViewInv'
  BY <1>1, <1>3, <1>4, PhotosStay
<1> QED
  BY <1>1, <1>3, <1>4, <1>5, <1>6, <1>7, <1>8 DEF AlbumInv, DeletedAlbumIsSaved

LEMMA CallEnds ==
    ASSUME AlbumInv, TransferEnds \/ UpdateEnds
    PROVE  AlbumInv'
<1>1. /\ UNCHANGED <<albumCase, AlbumServer, needs, deleted, view, Queues, results, albumFaults>>
      /\ payloads = <<>> /\ sameQueue = <<>> /\ stage \notin {"begin", "thrown"}
      /\ stage' = IF stage = "saving" THEN "again" ELSE "ended"
  BY DEF TransferEnds, UpdateEnds, Tagging
<1>2. otherQueue = <<>>
  BY DEF AlbumInv, StageInv, TransferEnds, UpdateEnds, Tagging
<1> QED
  BY <1>1, <1>2, NothingWaits

\* What other clients do, and other parts of the application.
LEMMA MeanwhileKeeps ==
    ASSUME AlbumInv, NEW p \in AllPhotos, RelatedAppears(p) \/ PhotoDeleted(p) \/ AddedByOther(p) \/ NodeRead(p)
    PROVE  AlbumInv'
<1>1. p \in PhotosOf(albumCase) /\ AllPhotos = PhotosOf(albumCase)
  BY AlbumPhotos DEF AlbumInv
<1>2. UNCHANGED <<albumCase, stage, copies, albumGone, tags, Queues, results, albumFaults>>
  BY DEF RelatedAppears, PhotoDeleted, AddedByOther, NodeRead, Meanwhile, AlbumServer
<1>3. UNCHANGED <<sameQueue, otherQueue, payloads, retried>>
  BY <1>2 DEF Queues
<1>4. InFlight' = InFlight /\ FlightInv'
  BY <1>2, <1>3, QueuesStay
<1>5. StageInv' /\ ResultInv' /\ CopyInv' /\ TagInv'
  BY <1>2, <1>3, <1>4
     DEF AlbumInv, StageInv, ThrowsOnlyOnFailure, ResultInv, CopyInv, TagInv, TagsOrdered, TagsAfter, Asked, PhotosOf
<1>6. \A q \in PhotosOf(albumCase) : results[q] = <<"ok">> /\ albumCase.op # "delete" => q \in Asked
  <2>1. <<"ok">> # <<>>
    OBVIOUS
  <2> QED
    BY <2>1 DEF AlbumInv, ResultInv
<1>7. CASE RelatedAppears(p)
  <2>1. UNCHANGED <<view, inAlbum, inTimeline, deleted>> /\ DOMAIN needs' = DOMAIN needs
    BY <1>7 DEF RelatedAppears, Meanwhile
  <2>2. DoneInv' /\ ViewInv'
    BY <1>2, <1>3, <2>1, PhotosStay
  <2>3. AlbumTypes'
    BY <1>2, <1>3, <2>1 DEF AlbumInv, AlbumTypes, PhotosOf, ViewShape
  <2> QED
    BY <1>2, <1>4, <1>5, <2>1, <2>2, <2>3 DEF AlbumInv, DeletedAlbumIsSaved
<1>8. CASE PhotoDeleted(p)
  <2>1. /\ UNCHANGED <<view, needs>> /\ deleted' = deleted \cup {p}
        /\ inAlbum' = inAlbum \ {p} /\ inTimeline' = inTimeline \ {p}
    BY <1>8 DEF PhotoDeleted, Meanwhile
  <2>2. AlbumTypes'
    BY <1>1, <1>2, <1>3, <2>1 DEF AlbumInv, AlbumTypes, PhotosOf, ViewShape
  <2>3. DoneInv'
    BY <1>2, <2>1 DEF AlbumInv, DoneInv, Done, Foreign, PhotosOf
  <2>4. ViewInv'
    BY <1>2, <2>1 DEF AlbumInv, ViewInv, ParentOf, Foreign, PhotosOf
  <2>5. DeletedAlbumIsSaved'
    BY <1>2, <2>1 DEF AlbumInv, DeletedAlbumIsSaved
  <2> QED
    BY <1>4, <1>5, <2>2, <2>3, <2>4, <2>5 DEF AlbumInv
<1>9. CASE AddedByOther(p)
  <2>1. /\ UNCHANGED <<view, needs, deleted, inTimeline>> /\ inAlbum' = inAlbum \cup {p}
        /\ ~albumGone /\ ~Foreign(p) /\ p \notin inAlbum \cup inTimeline \cup deleted
        /\ albumCase.op \in {"remove", "tag"} => p \notin Asked
    BY <1>9 DEF AddedByOther, Meanwhile, Asked
  <2>2. AlbumTypes'
    BY <1>1, <1>2, <1>3, <2>1 DEF AlbumInv, AlbumTypes, PhotosOf, ViewShape
  <2>3. DoneInv'
    <3> SUFFICES ASSUME albumCase.op # "tag", NEW q \in PhotosOf(albumCase), results[q] = <<"ok">>, q \notin deleted
                 PROVE  Done(q)'
      BY <1>2, <2>1 DEF DoneInv, PhotosOf
    <3>1. Done(q)
      BY DEF AlbumInv, DoneInv
    <3>2. albumCase.op = "remove" => q # p
      BY <1>6, <2>1
    <3> QED
      BY <1>2, <2>1, <3>1, <3>2 DEF Done, Foreign
  <2>4. ViewInv'
    <3> SUFFICES ASSUME albumCase.op # "delete", NEW q \in PhotosOf(albumCase), results[q] = <<"ok">>,
                        view[q].fresh, q \notin deleted
                 PROVE  view[q].parent = ParentOf(q)' \/ Foreign(q)
      BY <1>2, <2>1 DEF ViewInv, PhotosOf, Foreign
    <3>1. view[q].parent = ParentOf(q) \/ Foreign(q)
      BY DEF AlbumInv, ViewInv
    <3>2. albumCase.op \in {"tag", "remove"} => q # p
      BY <1>6, <2>1
    <3>3. albumCase.op \in {"save", "add"} /\ q = p => FALSE
      <4>1. albumCase.op \in {"save", "add"} => Done(q)
        BY DEF AlbumInv, DoneInv
      <4> QED
        BY <2>1, <4>1 DEF Done
    <3>x. albumCase.op \in {"add", "save", "remove", "delete", "tag"}
      BY CaseIs DEF AlbumInv, AlbumTypes
    <3>4. ParentOf(q)' = ParentOf(q)
      BY <2>1, <3>2, <3>3, <3>x DEF ParentOf
    <3> QED
      BY <3>1, <3>4
  <2>5. DeletedAlbumIsSaved'
    BY <1>2, <2>1 DEF DeletedAlbumIsSaved
  <2> QED
    BY <1>4, <1>5, <2>2, <2>3, <2>4, <2>5 DEF AlbumInv
<1>10. CASE NodeRead(p)
  <2>1. /\ UNCHANGED <<inAlbum, inTimeline, needs, deleted>> /\ view' = [view EXCEPT ![p] = Loaded(p)]
    BY <1>10 DEF NodeRead, AlbumServer
  <2>2. ViewShape(Loaded(p)) /\ Loaded(p).parent = ParentOf(p)
    BY DEF Loaded, ViewShape
  <2>3. PICK v : v = Loaded(p)
    OBVIOUS
  <2>4. view' = [view EXCEPT ![p] = v] /\ ViewShape(v) /\ v.parent = ParentOf(p)
    BY <2>1, <2>2, <2>3
  <2>5. \A q \in PhotosOf(albumCase) : view'[q] = IF q = p THEN v ELSE view[q]
    BY <2>4 DEF AlbumInv, AlbumTypes
  <2>6. DOMAIN view' = PhotosOf(albumCase) /\ view' = [q \in PhotosOf(albumCase) |-> view'[q]]
    BY <2>4 DEF AlbumInv, AlbumTypes
  <2>7. \A q \in PhotosOf(albumCase) : ViewShape(view'[q])
    BY <2>4, <2>5 DEF AlbumInv, AlbumTypes
  <2>8. AlbumTypes'
    <3>1. PhotosOf(albumCase)' = PhotosOf(albumCase) /\ \A x : ViewShape(x)' <=> ViewShape(x')
      BY <1>2 DEF PhotosOf, ViewShape
    <3> QED
      BY <1>2, <1>3, <2>1, <2>6, <2>7, <3>1 DEF AlbumInv, AlbumTypes, ViewShape
  <2>9. DoneInv'
    BY <1>2, <1>3, <2>1, PhotosStay
  <2>10. ViewInv'
    <3>1. PhotosOf(albumCase)' = PhotosOf(albumCase) /\ \A q : ParentOf(q)' = ParentOf(q) /\ (Foreign(q)' <=> Foreign(q))
      BY <1>2, <2>1 DEF PhotosOf, ParentOf, Foreign
    <3> SUFFICES ASSUME albumCase.op # "delete", NEW q \in PhotosOf(albumCase), results[q] = <<"ok">>,
                        view'[q].fresh, q \notin deleted
                 PROVE  view'[q].parent = ParentOf(q) \/ Foreign(q)
      BY <1>2, <2>1, <3>1 DEF ViewInv
    <3> QED
      BY <2>4, <2>5 DEF AlbumInv, ViewInv
  <2> QED
    BY <1>2, <1>4, <1>5, <2>1, <2>8, <2>9, <2>10 DEF AlbumInv, DeletedAlbumIsSaved
<1> QED
  BY <1>7, <1>8, <1>9, <1>10

\* Results given, and nodes marked as stale.
LEMMA ReportIs ==
    ASSUME AlbumTypes, NEW ps, NEW ok \in {"ok", "failed"}
    PROVE  /\ Report(ps, ok) \in [PhotosOf(albumCase) -> Seq({"ok", "failed"})]
           /\ \A p \in PhotosOf(albumCase) :
                 /\ p \notin ps => Report(ps, ok)[p] = results[p]
                 /\ p \in ps /\ results[p] = <<>> => Report(ps, ok)[p] = <<ok>>
<1>1. AllPhotos = PhotosOf(albumCase)
  BY AlbumPhotos
<1>2. \A p \in PhotosOf(albumCase) : Append(results[p], ok) \in Seq({"ok", "failed"})
  <2> SUFFICES ASSUME NEW p \in PhotosOf(albumCase) PROVE Append(results[p], ok) \in Seq({"ok", "failed"})
    OBVIOUS
  <2>1. results[p] \in Seq({"ok", "failed"})
    BY DEF AlbumTypes
  <2> QED
    BY <2>1, AppendProperties
<1>3. Append(<<>>, ok) = <<ok>>
  OBVIOUS
<1> QED
  BY <1>1, <1>2, <1>3 DEF Report, AlbumTypes

LEMMA ChangedIs ==
    ASSUME AlbumTypes, NEW ps
    PROVE  /\ Changed(ps) = [p \in PhotosOf(albumCase) |-> Changed(ps)[p]]
           /\ \A p \in PhotosOf(albumCase) :
                 /\ ViewShape(Changed(ps)[p])
                 /\ p \notin ps => Changed(ps)[p] = view[p]
                 /\ p \in ps => ~Changed(ps)[p].fresh
<1>1. AllPhotos = PhotosOf(albumCase)
  BY AlbumPhotos
<1>2. \A p \in PhotosOf(albumCase) : Changed(ps)[p] = IF p \in ps THEN [view[p] EXCEPT !.fresh = FALSE] ELSE view[p]
  BY <1>1 DEF Changed
<1>3. ASSUME NEW v, ViewShape(v)
      PROVE  ViewShape([v EXCEPT !.fresh = FALSE]) /\ ~[v EXCEPT !.fresh = FALSE].fresh
  <2>x. PICK x : x = v.fresh
    OBVIOUS
  <2>y. PICK y : y = v.parent
    OBVIOUS
  <2>z. PICK z : z = v.related
    OBVIOUS
  <2>1. v = [fresh |-> x, parent |-> y, related |-> z]
    BY <1>3, <2>x, <2>y, <2>z DEF ViewShape
  <2>f. PICK f \in BOOLEAN : f = FALSE
    BY Zenon
  <2>2. [v EXCEPT !.fresh = f] = [fresh |-> f, parent |-> y, related |-> z]
    BY <2>1
  <2>3. ViewShape([v EXCEPT !.fresh = f]) /\ [v EXCEPT !.fresh = f].fresh = f
    BY <2>2 DEF ViewShape
  <2> QED
    BY <2>f, <2>3
<1>4. Changed(ps) = [p \in PhotosOf(albumCase) |-> Changed(ps)[p]]
  BY <1>1 DEF Changed
<1>5. ASSUME NEW p \in PhotosOf(albumCase)
      PROVE  /\ ViewShape(Changed(ps)[p])
             /\ p \notin ps => Changed(ps)[p] = view[p]
             /\ p \in ps => ~Changed(ps)[p].fresh
  <2>1. ViewShape(view[p])
    BY DEF AlbumTypes
  <2>2. ViewShape([view[p] EXCEPT !.fresh = FALSE]) /\ ~[view[p] EXCEPT !.fresh = FALSE].fresh
    BY <1>3, <2>1
  <2>3. CASE p \in ps
    <3>1. Changed(ps)[p] = [view[p] EXCEPT !.fresh = FALSE]
      BY <1>2, <2>3
    <3> QED
      BY <2>2, <2>3, <3>1, Zenon
  <2>4. CASE p \notin ps
    <3>1. Changed(ps)[p] = view[p]
      BY <1>2, <2>4
    <3> QED
      BY <2>1, <2>4, <3>1, Zenon
  <2> QED
    BY <2>3, <2>4
<1> QED
  BY <1>4, <1>5

LEMMA BeginKeeps ==
    ASSUME AlbumInv, BeginAlbumCall
    PROVE  AlbumInv'
<1>1. /\ stage = "begin" /\ stage' = IF albumCase.op = "delete" THEN "delete" ELSE "work"
      /\ UNCHANGED <<albumCase, AlbumServer, needs, deleted, view, payloads, retried, results, albumFaults>>
      /\ sameQueue = <<>> /\ otherQueue = <<>> /\ payloads = <<>>
  BY DEF BeginAlbumCall, AlbumInv, StageInv
<1>2. UNCHANGED <<inAlbum, inTimeline, copies, albumGone, tags>>
  BY <1>1 DEF AlbumServer
<1>3. AlbumTypes
  BY DEF AlbumInv
<1> DEFINE items == ItemsOf(albumCase.asked)
<1>4. OnceEach(items) /\ PhotosIn(items) = Asked
  BY <1>3, CaseIs, OnceNamed DEF AlbumTypes, Asked
<1>5. /\ OnceEach(sameQueue') /\ OnceEach(otherQueue')
      /\ PhotosIn(sameQueue') \cap PhotosIn(otherQueue') = {}
      /\ PhotosIn(sameQueue') \cup PhotosIn(otherQueue') = IF albumCase.op = "delete" THEN {} ELSE Asked
      /\ albumCase.op \in {"remove", "tag", "delete"} => otherQueue' = <<>>
      /\ albumCase.op = "delete" => sameQueue' = <<>>
  <2>1. CASE albumCase.op = "add"
    <3> DEFINE own == {x \in ToSet(items) : ~Foreign(x.photo)}
               others == {x \in ToSet(items) : Foreign(x.photo)}
    <3>1. sameQueue' = Kept(items, own) /\ otherQueue' = Kept(items, others)
      BY <2>1 DEF BeginAlbumCall, SplitByVolume
    <3> HIDE DEF items
    <3>2. /\ OnceEach(Kept(items, own)) /\ PhotosIn(Kept(items, own)) = {x.photo : x \in ToSet(items) \cap own}
          /\ OnceEach(Kept(items, others))
          /\ PhotosIn(Kept(items, others)) = {x.photo : x \in ToSet(items) \cap others}
      BY <1>4, OnceKept
    <3>3. Asked = {x.photo : x \in ToSet(items)}
      BY <1>4, ListIs
    <3>4. PhotosIn(sameQueue') = {x.photo : x \in own} /\ PhotosIn(otherQueue') = {x.photo : x \in others}
      BY <3>1, <3>2
    <3>5. /\ \A p \in PhotosIn(sameQueue') : ~Foreign(p)
          /\ \A p \in PhotosIn(otherQueue') : Foreign(p)
      BY <3>4
    <3>6. PhotosIn(sameQueue') \cup PhotosIn(otherQueue') = Asked
      BY <3>3, <3>4
    <3>7. PhotosIn(sameQueue') \cap PhotosIn(otherQueue') = {}
      BY <3>5
    <3> QED
      BY <2>1, <3>1, <3>2, <3>6, <3>7
  <2>2. CASE albumCase.op = "delete"
    <3>1. sameQueue' = <<>> /\ otherQueue' = <<>>
      BY <1>1, <2>2 DEF BeginAlbumCall
    <3> QED
      BY <2>2, <3>1, OnceEmpty
  <2>3. CASE albumCase.op \notin {"add", "delete"}
    <3>1. sameQueue' = items /\ otherQueue' = <<>>
      BY <1>1, <2>3 DEF BeginAlbumCall
    <3> HIDE DEF items
    <3> QED
      BY <1>4, <2>3, <3>1, OnceEmpty
  <2> QED
    BY <2>1, <2>2, <2>3
<1>6. InFlight' = (IF albumCase.op = "delete" THEN {} ELSE Asked) /\ PhotosIn(payloads') = {}
      /\ PhotosIn(payloads)' = {}
  BY <1>1, <1>5, OnceEmpty DEF InFlight, Waiting
<1>7. PhotosOf(albumCase)' = PhotosOf(albumCase) /\ Asked' = Asked /\ Asked \subseteq PhotosOf(albumCase)
  BY <1>1, <1>3, CaseIs DEF PhotosOf, Asked, AlbumTypes
<1>8. AlbumTypes'
  BY <1>1, <1>2, <1>3, <1>7 DEF AlbumTypes, ViewShape
<1>9. StageInv'
  BY <1>1, <1>2, <1>5 DEF AlbumInv, StageInv, ThrowsOnlyOnFailure
<1>10. FlightInv'
  BY <1>1, <1>5, <1>6, <1>7, OnceEmpty DEF FlightInv
<1>11. ResultInv'
  <2>1. albumCase.op # "delete" => \A p \in PhotosOf(albumCase) : results[p] = <<>>
    BY <1>1 DEF AlbumInv, ResultInv
  <2> QED
    BY <1>1, <1>6, <1>7, <2>1 DEF ResultInv
<1>12. CopyInv'
  <2>1. \A p \in PhotosOf(albumCase) : copies[p] = 0
    BY <1>1 DEF AlbumInv, CopyInv
  <2> QED
    BY <1>2, <1>7, <2>1 DEF CopyInv
<1>13. DoneInv' /\ TagInv' /\ ViewInv'
  BY <1>1, <1>2, PhotosStay
<1> QED
  BY <1>1, <1>2, <1>8, <1>9, <1>10, <1>11, <1>12, <1>13 DEF AlbumInv, DeletedAlbumIsSaved

LEMMA DeleteKeeps ==
    ASSUME AlbumInv, DeleteAlbum
    PROVE  AlbumInv'
<1>1. /\ stage \in {"delete", "again"} /\ albumCase.op = "delete"
      /\ sameQueue = <<>> /\ otherQueue = <<>> /\ payloads = <<>>
  BY DEF DeleteAlbum, AlbumInv, StageInv
<1>2. UNCHANGED <<albumCase, inAlbum, inTimeline, copies, needs, deleted, tags, view, otherQueue, payloads, retried, results>>
  BY DEF DeleteAlbum
<1>3. /\ stage' \in {"ended", "saving", "thrown"} /\ albumFaults' \in Nat
      /\ stage' # "saving" => sameQueue' = sameQueue
  <2>1. stage' \in {"ended", "saving", "thrown"} /\ (stage' = "saving" \/ sameQueue' = sameQueue)
    BY Zenon DEF DeleteAlbum
  <2>2. albumFaults' = albumFaults \/ albumFaults' = albumFaults + 1
    BY Zenon DEF DeleteAlbum
  <2> QED
    BY <2>1, <2>2 DEF AlbumInv, AlbumTypes
<1>4. stage' = "saving" => \E named \in SetToSeqs(OnlyInAlbum) : sameQueue' = ItemsOf(named)
  BY DEF DeleteAlbum
<1>5. albumGone' \in BOOLEAN /\ (albumGone' => albumGone \/ albumCase.force \/ OnlyInAlbum = {})
  <2>1. CASE ~DeleteRefused(DeleteForce) /\ albumGone' = TRUE
    BY <2>1 DEF DeleteRefused, DeleteForce
  <2>2. CASE albumGone' = albumGone
    BY <2>2 DEF AlbumInv, AlbumTypes
  <2>3. CASE albumGone' \in {FALSE, ~DeleteRefused(DeleteForce)}
    BY <2>3 DEF DeleteRefused, DeleteForce
  <2> QED
    BY <2>1, <2>2, <2>3 DEF DeleteAlbum
<1>6. OnceEach(sameQueue') /\ PhotosIn(sameQueue') \subseteq PhotosOf(albumCase)
  <2>1. CASE stage' = "saving"
    <3>1. PICK named \in SetToSeqs(OnlyInAlbum) : sameQueue' = ItemsOf(named)
      BY <1>4, <2>1
    <3> DEFINE n == Cardinality(OnlyInAlbum)
    <3>2. OnlyInAlbum \subseteq PhotosOf(albumCase) /\ IsFiniteSet(PhotosOf(albumCase))
      BY CaseIs DEF AlbumInv, AlbumTypes, OnlyInAlbum
    <3>3. n \in Nat
      BY <3>2, FS_Subset, FS_CardinalityType
    <3>4. named \in [1 .. n -> OnlyInAlbum] /\ \A i, j \in 1 .. n : i # j => named[i] # named[j]
      BY DEF SetToSeqs
    <3> HIDE DEF n
    <3>5. OnceEach(ItemsOf(named)) /\ PhotosIn(ItemsOf(named)) = ToSet(named)
      BY <3>3, <3>4, OnceNamed
    <3>6. ToSet(named) \subseteq OnlyInAlbum
      BY <3>4 DEF ToSet
    <3> QED
      BY <3>1, <3>2, <3>5, <3>6
  <2>2. CASE stage' # "saving"
    BY <1>1, <1>3, <2>2, OnceEmpty
  <2> QED
    BY <2>1, <2>2
<1>7. PhotosOf(albumCase)' = PhotosOf(albumCase) /\ Asked' = Asked /\ Asked = {}
  BY <1>1, <1>2, CaseIs DEF PhotosOf, Asked, AlbumInv, AlbumTypes
<1>8. AlbumTypes'
  BY <1>2, <1>3, <1>5, <1>7 DEF AlbumInv, AlbumTypes, ViewShape
<1>9. StageInv'
  BY <1>1, <1>2, <1>3 DEF AlbumInv, StageInv, ThrowsOnlyOnFailure
<1>10. FlightInv'
  <2>1. OnceEach(otherQueue') /\ OnceEach(payloads') /\ PhotosIn(otherQueue') = {} /\ PhotosIn(payloads') = {}
    BY <1>1, <1>2, OnceEmpty
  <2> QED
    BY <1>1, <1>2, <1>6, <1>7, <2>1 DEF FlightInv, InFlight, Waiting
<1>11. ResultInv'
  BY <1>1, <1>2 DEF ResultInv
<1>12. CopyInv'
  <2>1. \A p \in PhotosOf(albumCase) : copies[p] = 0
    BY <1>7 DEF AlbumInv, CopyInv
  <2> QED
    BY <1>2, <1>7, <2>1 DEF CopyInv
<1>13. DoneInv' /\ TagInv' /\ ViewInv'
  BY <1>1, <1>2 DEF DoneInv, TagInv, ViewInv, Done
<1>14. DeletedAlbumIsSaved'
  BY <1>2, <1>5 DEF AlbumInv, DeletedAlbumIsSaved, OnlyInAlbum
<1> QED
  BY <1>8, <1>9, <1>10, <1>11, <1>12, <1>13, <1>14 DEF AlbumInv

LEMMA RemoveKeeps ==
    ASSUME AlbumInv, RemovePhotos
    PROVE  AlbumInv'
<1> DEFINE n == IF Len(sameQueue) < BatchLimit THEN Len(sameQueue) ELSE BatchLimit
           ps == {sameQueue[i].photo : i \in 1 .. n}
<1>1. /\ stage = "work" /\ albumCase.op = "remove" /\ otherQueue = <<>> /\ payloads = <<>>
      /\ UNCHANGED <<albumCase, inTimeline, copies, needs, deleted, albumGone, tags, otherQueue, payloads, retried>>
  BY DEF RemovePhotos, AlbumInv, StageInv
<1>2. AlbumTypes /\ OnceEach(sameQueue) /\ Len(sameQueue) \in Nat /\ BatchLimit \in Nat \ {0} /\ n \in 0 .. Len(sameQueue)
      /\ (n = 0 => Len(sameQueue) = 0)
  BY CaseIs, ListIs DEF AlbumInv, FlightInv, AlbumTypes
<1>3. CASE n = 0
  <2>1. sameQueue = <<>>
    BY <1>2, <1>3, ListIs
  <2>2. stage' = "ended" /\ UNCHANGED <<inAlbum, view, results, sameQueue, albumFaults>>
    BY <1>3 DEF RemovePhotos
  <2> QED
    BY <1>1, <2>1, <2>2, NothingWaits DEF AlbumServer, Queues
<1>4. CASE n # 0
  <2> DEFINE rest == SubSeq(sameQueue, n + 1, Len(sameQueue))
             first == SubSeq(sameQueue, 1, n)
  <2>1. /\ sameQueue' = rest /\ stage' = stage
        /\ inAlbum' \in {inAlbum, inAlbum \ ps} /\ view' \in {view, Changed(ps)}
        /\ albumFaults' \in {albumFaults, albumFaults + 1}
        /\ \/ results' = Report(ps, "ok") /\ inAlbum' = inAlbum \ ps /\ view' = Changed(ps)
           \/ results' = Report(ps, "failed")
    BY <1>4 DEF RemovePhotos, PostRemoveMultiple
  <2>2. /\ OnceEach(first) /\ OnceEach(rest) /\ PhotosIn(first) \cup PhotosIn(rest) = PhotosIn(sameQueue)
        /\ PhotosIn(first) \cap PhotosIn(rest) = {} /\ Len(first) = n /\ \A i \in 1 .. n : first[i] = sameQueue[i]
    BY <1>2, OnceSplit
  <2> HIDE DEF first, rest, n
  <2>3. PhotosIn(first) = ps
    <3>1. PhotosIn(first) = {first[i].photo : i \in 1 .. n}
      BY <2>2, ListIs
    <3> QED
      BY <2>2, <3>1
  <2> HIDE DEF ps
  <2>4. PhotosIn(sameQueue') \cap ps = {} /\ PhotosIn(sameQueue') \cup ps = PhotosIn(sameQueue) /\ OnceEach(sameQueue')
    BY <2>1, <2>2, <2>3
  <2>5. InFlight = PhotosIn(sameQueue) /\ InFlight' = PhotosIn(sameQueue') /\ PhotosIn(payloads) = {} /\ PhotosIn(otherQueue) = {}
    BY <1>1, OnceEmpty DEF InFlight, Waiting
  <2>6. ps \subseteq InFlight /\ InFlight' = InFlight \ ps
    BY <2>4, <2>5
  <2>7. InFlight \subseteq Asked /\ InFlight \subseteq PhotosOf(albumCase)
        /\ \A p \in ps : p \in PhotosOf(albumCase) /\ results[p] = <<>>
    BY <1>1, <2>6 DEF AlbumInv, FlightInv, ResultInv
  <2>8. /\ results' \in [PhotosOf(albumCase) -> Seq({"ok", "failed"})]
        /\ \A p \in PhotosOf(albumCase) \ ps : results'[p] = results[p]
        /\ \/ (\A p \in ps : results'[p] = <<"ok">>) /\ inAlbum' = inAlbum \ ps /\ view' = Changed(ps)
           \/ \A p \in ps : results'[p] = <<"failed">>
    <3>1. CASE results' = Report(ps, "ok") /\ inAlbum' = inAlbum \ ps /\ view' = Changed(ps)
      BY <1>2, <2>7, <3>1, ReportIs
    <3>2. CASE results' = Report(ps, "failed")
      BY <1>2, <2>7, <3>2, ReportIs
    <3> QED
      BY <2>1, <3>1, <3>2
  <2>9. view' = [p \in PhotosOf(albumCase) |-> view'[p]] /\ \A p \in PhotosOf(albumCase) : ViewShape(view'[p])
    <3>1. CASE view' = view
      BY <1>2, <3>1 DEF AlbumTypes
    <3>2. CASE view' = Changed(ps)
      BY <1>2, <3>2, ChangedIs
    <3> QED
      BY <2>1, <3>1, <3>2
  <2>10. PhotosOf(albumCase)' = PhotosOf(albumCase) /\ Asked' = Asked
    BY <1>1 DEF PhotosOf, Asked
  <2>11. AlbumTypes'
    BY <1>1, <1>2, <2>1, <2>8, <2>9, <2>10 DEF AlbumTypes, ViewShape
  <2>12. StageInv'
    BY <1>1, <2>1 DEF AlbumInv, StageInv, ThrowsOnlyOnFailure
  <2>13. FlightInv'
    BY <1>1, <2>4, <2>5, <2>7, <2>10, OnceEmpty DEF FlightInv, Waiting
  <2>14. ResultInv'
    <3>1. \A p \in PhotosOf(albumCase) :
            IF p \in ps THEN results'[p] \in {<<"ok">>, <<"failed">>} ELSE results'[p] = results[p]
      BY <2>8
    <3>2. stage \notin {"begin", "thrown"} /\ stage' # "begin"
      BY <1>1, <2>1
    <3> QED
      BY <1>1, <2>6, <3>1, <3>2, ResultsKeep
  <2>15. CopyInv'
    <3>1. \A p \in PhotosOf(albumCase) : (copies'[p] = copies[p] /\ results'[p] = results[p]) \/ copies'[p] = 0
      BY <1>1, <2>6, <2>8 DEF AlbumInv, CopyInv
    <3>2. albumFaults' = 0 => albumFaults = 0
      BY <1>2, <2>1 DEF AlbumTypes
    <3>3. stage # "begin" /\ stage' # "begin" /\ InFlight' \subseteq InFlight
      BY <1>1, <2>1, <2>6
    <3> QED
      BY <1>1, <3>1, <3>2, <3>3, CopiesKeep
  <2>16. DoneInv'
    <3> SUFFICES ASSUME NEW p \in PhotosOf(albumCase), results'[p] = <<"ok">>, p \notin deleted
                 PROVE  p \notin inAlbum'
      BY <1>1, <2>10 DEF DoneInv, Done
    <3>1. CASE p \in ps
      <4>1. <<"ok">> # <<"failed">>
        OBVIOUS
      <4> QED
        BY <2>8, <3>1, <4>1
    <3>2. CASE p \notin ps
      BY <1>1, <2>1, <2>8, <3>2 DEF AlbumInv, DoneInv, Done
    <3> QED
      BY <3>1, <3>2
  <2>17. TagInv' /\ ViewInv'
    <3>1. TagInv'
      BY <1>1 DEF TagInv
    <3>2. ASSUME NEW p \in PhotosOf(albumCase), results'[p] = <<"ok">>, view'[p].fresh, p \notin deleted
          PROVE  view'[p].parent = ParentOf(p)' \/ Foreign(p)
      <4>1. /\ \A q \in PhotosOf(albumCase) : q \in ps => ~Changed(ps)[q].fresh
            /\ \A q \in PhotosOf(albumCase) : q \notin ps => Changed(ps)[q] = view[q]
        BY <1>2, ChangedIs
      <4>2. <<"ok">> # <<"failed">>
        OBVIOUS
      <4>3. p \notin ps /\ results[p] = <<"ok">> /\ view'[p] = view[p]
        BY <2>1, <2>8, <3>2, <4>1, <4>2
      <4>4. ParentOf(p)' = ParentOf(p)
        BY <1>1, <2>1, <4>3 DEF ParentOf
      <4> QED
        BY <1>1, <3>2, <4>3, <4>4 DEF AlbumInv, ViewInv
    <3>3. ViewInv'
      BY <1>1, <2>10, <3>2 DEF ViewInv, Foreign
    <3> QED
      BY <3>1, <3>3
  <2>18. DeletedAlbumIsSaved'
    BY <1>1 DEF AlbumInv, StageInv, DeletedAlbumIsSaved
  <2> QED
    BY <2>11, <2>12, <2>13, <2>14, <2>15, <2>16, <2>17, <2>18 DEF AlbumInv
<1> QED
  BY <1>3, <1>4

\* While tags change, one photo is being updated.
LEMMA TagFlight ==
    ASSUME AlbumInv, albumCase.op = "tag"
    PROVE  /\ otherQueue = <<>> /\ ~albumGone
           /\ payloads # <<>> => PhotosIn(payloads) = {payloads[1].photo}
           /\ InFlight = PhotosIn(sameQueue) \cup PhotosIn(payloads)
           /\ \A p \in InFlight : p \in PhotosOf(albumCase) /\ results[p] = <<>> /\ copies[p] = 0
<1>1. otherQueue = <<>> /\ Len(payloads) <= 1 /\ ~albumGone /\ OnceEach(payloads)
  BY DEF AlbumInv, StageInv, FlightInv
<1>2. payloads # <<>> => Len(payloads) = 1
  <2>1. Len(payloads) \in Nat /\ (payloads # <<>> => Len(payloads) >= 1)
    BY <1>1, ListIs
  <2> QED
    BY <1>1, <2>1
<1>3. payloads # <<>> => PhotosIn(payloads) = {payloads[1].photo}
  <2> SUFFICES ASSUME payloads # <<>> PROVE PhotosIn(payloads) = {payloads[1].photo}
    OBVIOUS
  <2>1. PhotosIn(payloads) = {payloads[i].photo : i \in 1 .. Len(payloads)}
    BY <1>1, ListIs
  <2>2. Len(payloads) = 1
    BY <1>2
  <2> QED
    BY <2>1, <2>2
<1>4. InFlight = PhotosIn(sameQueue) \cup PhotosIn(payloads)
  BY <1>1, OnceEmpty DEF InFlight, Waiting
<1>5. \A p \in InFlight : p \in PhotosOf(albumCase) /\ results[p] = <<>> /\ copies[p] = 0
  BY DEF AlbumInv, FlightInv, ResultInv, CopyInv
<1> QED
  BY <1>1, <1>3, <1>4, <1>5

\* A step of the update of photos, which reports the photos `done'.
LEMMA TagStep ==
    ASSUME AlbumInv, albumCase.op = "tag", stage = "work",
           UNCHANGED <<albumCase, stage, copies, needs, deleted, otherQueue, retried, inAlbum, albumGone>>,
           NEW done, done \subseteq InFlight,
           OnceEach(sameQueue'), OnceEach(payloads'), Len(payloads') <= 1,
           PhotosIn(sameQueue') \cap PhotosIn(payloads') = {},
           PhotosIn(sameQueue') \cup PhotosIn(payloads') = InFlight \ done,
           results' \in [PhotosOf(albumCase) -> Seq({"ok", "failed"})],
           \A p \in PhotosOf(albumCase) :
              IF p \in done THEN results'[p] \in {<<"ok">>, <<"failed">>} ELSE results'[p] = results[p],
           albumFaults' \in {albumFaults, albumFaults + 1},
           view' = [p \in PhotosOf(albumCase) |-> view'[p]], \A p \in PhotosOf(albumCase) : ViewShape(view'[p]),
           DOMAIN tags' = PhotosOf(albumCase), inTimeline' \subseteq PhotosOf(albumCase)
    PROVE  /\ AlbumTypes' /\ StageInv' /\ FlightInv' /\ ResultInv' /\ CopyInv' /\ DoneInv' /\ DeletedAlbumIsSaved'
<1>1. PhotosOf(albumCase)' = PhotosOf(albumCase) /\ Asked' = Asked
  BY DEF PhotosOf, Asked
<1>2. otherQueue = <<>> /\ ~albumGone /\ \A p \in InFlight : p \in PhotosOf(albumCase) /\ results[p] = <<>> /\ copies[p] = 0
  BY TagFlight
<1>3. PhotosIn(otherQueue') = {} /\ InFlight' = InFlight \ done /\ Waiting' = PhotosIn(sameQueue')
  BY <1>2, OnceEmpty DEF InFlight, Waiting
<1>4. AlbumTypes'
  BY <1>1 DEF AlbumInv, AlbumTypes, ViewShape
<1>5. StageInv'
  BY <1>2 DEF AlbumInv, StageInv, ThrowsOnlyOnFailure
<1>6. FlightInv'
  <2>1. InFlight \subseteq PhotosOf(albumCase) /\ InFlight \subseteq Asked /\ OnceEach(otherQueue')
    BY <1>2, OnceEmpty DEF AlbumInv, FlightInv
  <2> QED
    BY <1>1, <1>3, <2>1 DEF FlightInv
<1>7. ResultInv'
  BY <1>3, ResultsKeep
<1>8. CopyInv'
  <2>1. \A p \in PhotosOf(albumCase) : (copies'[p] = copies[p] /\ results'[p] = results[p]) \/ copies'[p] = 0
    BY <1>2
  <2>2. albumFaults' = 0 => albumFaults = 0
    BY DEF AlbumInv, AlbumTypes
  <2>3. stage # "begin" /\ stage' # "begin" /\ InFlight' \subseteq InFlight
    BY <1>3
  <2> QED
    BY <2>1, <2>2, <2>3, CopiesKeep
<1>9. DoneInv' /\ DeletedAlbumIsSaved'
  BY <1>2 DEF DoneInv, DeletedAlbumIsSaved
<1> QED
  BY <1>4, <1>5, <1>6, <1>7, <1>8, <1>9

LEMMA PrepareUpdateKeeps ==
    ASSUME AlbumInv, PrepareUpdate
    PROVE  AlbumInv'
<1>1. /\ albumCase.op = "tag" /\ stage = "work" /\ payloads = <<>> /\ sameQueue # <<>> /\ sameQueue' = Tail(sameQueue)
      /\ UNCHANGED <<albumCase, stage, AlbumServer, needs, deleted, view, otherQueue, retried, albumFaults, meanwhile>>
  BY DEF PrepareUpdate, Tagging
<1>2. UNCHANGED <<inAlbum, inTimeline, copies, albumGone, tags>>
  BY <1>1 DEF AlbumServer
<1>x. PICK x : x = [photo |-> sameQueue[1].photo, related |-> {}, left |-> TagStepsNeeded]
  OBVIOUS
<1>3. PICK p : p = sameQueue[1].photo
  OBVIOUS
<1>4. \/ payloads' = <<x>> /\ results' = results
      \/ payloads' = <<>> /\ results' = Report({p}, "failed")
  BY <1>3, <1>x, Zenon DEF PrepareUpdate
<1>5. AlbumTypes /\ OnceEach(sameQueue) /\ InFlight = PhotosIn(sameQueue)
  BY <1>1, OnceEmpty, TagFlight DEF AlbumInv, FlightInv
<1>6. p \in InFlight /\ p \in PhotosOf(albumCase) /\ results[p] = <<>> /\ OnceEach(sameQueue')
      /\ PhotosIn(sameQueue') = InFlight \ {p}
  BY <1>1, <1>3, <1>5, OnceTail, TagFlight
<1>7. /\ x.photo = p /\ x = [photo |-> x.photo, related |-> x.related, left |-> x.left] /\ x.left = TagStepsNeeded
  BY <1>3, <1>x
<1>8. PhotosOf(albumCase)' = PhotosOf(albumCase) /\ Asked' = Asked
  BY <1>1 DEF PhotosOf, Asked
<1>9. <<"ok">> # <<"failed">> /\ <<>> # <<"ok">>
  OBVIOUS
<1>10. CASE payloads' = <<x>> /\ results' = results
  <2>1. OnceEach(payloads') /\ PhotosIn(payloads') = {p} /\ Len(payloads') <= 1 /\ payloads'[1] = x
    BY <1>7, <1>10, OnceOne
  <2>2. PhotosIn(sameQueue') \cap PhotosIn(payloads') = {} /\ PhotosIn(sameQueue') \cup PhotosIn(payloads') = InFlight \ {}
    BY <1>6, <2>1
  <2>3. /\ AlbumTypes' /\ StageInv' /\ FlightInv' /\ ResultInv' /\ CopyInv' /\ DoneInv' /\ DeletedAlbumIsSaved'
    BY <1>1, <1>2, <1>5, <1>6, <1>10, <2>1, <2>2, TagStep DEF AlbumTypes
  <2>4. TagInv'
    <3>1. TagsAfter(p, TagStepsNeeded)'
      <4>1. tags[p] = tags[p]' /\ albumCase' = albumCase
        BY <1>1, <1>2
      <4>2. TagStepsNeeded' = TagStepsNeeded
        BY <1>1 DEF TagStepsNeeded, Kept, TagSteps, ToSet
      <4> QED
        BY <1>1, <4>1, <4>2, TagStepsAre DEF TagsAfter
    <3>2. TagStepsNeeded' = TagStepsNeeded
      BY <1>1 DEF TagStepsNeeded, Kept, TagSteps, ToSet
    <3>3. TagsAfter(x.photo, x.left)'
      BY <1>7, <3>1, <3>2 DEF TagsAfter
    <3>4. x.left \in AllTagSteps /\ ("favourite" \in ToSet(x.left) => "favourite" \in albumCase.tagsToAdd)
      BY <1>7, TagStepsAre
    <3> QED
      BY <1>1, <1>2, <1>7, <1>8, <1>10, <2>1, <3>3, <3>4 DEF AlbumInv, TagInv, TagsOrdered, TagsAfter
  <2>5. ViewInv'
    BY <1>1, <1>2, <1>8, <1>10 DEF AlbumInv, ViewInv, ParentOf, Foreign
  <2> QED
    BY <2>3, <2>4, <2>5 DEF AlbumInv
<1>11. CASE payloads' = <<>> /\ results' = Report({p}, "failed")
  <2>1. OnceEach(payloads') /\ PhotosIn(payloads') = {} /\ Len(payloads') <= 1
    BY <1>11, OnceEmpty
  <2>2. PhotosIn(sameQueue') \cap PhotosIn(payloads') = {} /\ PhotosIn(sameQueue') \cup PhotosIn(payloads') = InFlight \ {p}
    BY <1>6, <2>1
  <2>3. /\ results' \in [PhotosOf(albumCase) -> Seq({"ok", "failed"})]
        /\ \A q \in PhotosOf(albumCase) : IF q \in {p} THEN results'[q] = <<"failed">> ELSE results'[q] = results[q]
    <3>1. /\ Report({p}, "failed") \in [PhotosOf(albumCase) -> Seq({"ok", "failed"})]
          /\ \A q \in PhotosOf(albumCase) :
                /\ q \notin {p} => Report({p}, "failed")[q] = results[q]
                /\ q \in {p} /\ results[q] = <<>> => Report({p}, "failed")[q] = <<"failed">>
      BY <1>5, ReportIs
    <3> QED
      BY <1>6, <1>11, <3>1
  <2>4. /\ AlbumTypes' /\ StageInv' /\ FlightInv' /\ ResultInv' /\ CopyInv' /\ DoneInv' /\ DeletedAlbumIsSaved'
    BY <1>1, <1>2, <1>5, <1>6, <2>1, <2>2, <2>3, TagStep DEF AlbumTypes
  <2>5. TagInv' /\ ViewInv'
    BY <1>1, <1>2, <1>8, <1>9, <1>11, <2>3 DEF AlbumInv, TagInv, TagsOrdered, TagsAfter, ViewInv, ParentOf, Foreign
  <2> QED
    BY <2>4, <2>5 DEF AlbumInv
<1> QED
  BY <1>4, <1>10, <1>11

LEMMA PhotoUpdatedKeeps ==
    ASSUME AlbumInv, PhotoUpdated
    PROVE  AlbumInv'
<1>1. /\ albumCase.op = "tag" /\ stage = "work" /\ payloads # <<>> /\ payloads[1].left = <<>> /\ payloads' = <<>>
      /\ UNCHANGED <<albumCase, stage, AlbumServer, needs, deleted, sameQueue, otherQueue, retried, albumFaults, meanwhile>>
  BY DEF PhotoUpdated, Tagging
<1>2. UNCHANGED <<inAlbum, inTimeline, copies, albumGone, tags>>
  BY <1>1 DEF AlbumServer
<1>3. PICK p : p = payloads[1].photo
  OBVIOUS
<1>4. results' = Report({p}, "ok") /\ view' = Changed({p})
  BY <1>3 DEF PhotoUpdated
<1>5. AlbumTypes /\ OnceEach(sameQueue) /\ PhotosIn(payloads) = {p} /\ InFlight = PhotosIn(sameQueue) \cup {p}
      /\ PhotosIn(sameQueue) \cap {p} = {}
  BY <1>1, <1>3, TagFlight DEF AlbumInv, FlightInv, Waiting
<1>6. p \in InFlight /\ p \in PhotosOf(albumCase) /\ results[p] = <<>>
  BY <1>1, <1>5, TagFlight
<1>7. PhotosOf(albumCase)' = PhotosOf(albumCase) /\ Asked' = Asked
  BY <1>1 DEF PhotosOf, Asked
<1>8. OnceEach(payloads') /\ PhotosIn(payloads') = {} /\ Len(payloads') <= 1
  BY <1>1, OnceEmpty
<1>9. PhotosIn(sameQueue') \cap PhotosIn(payloads') = {} /\ PhotosIn(sameQueue') \cup PhotosIn(payloads') = InFlight \ {p}
  BY <1>1, <1>5, <1>8
<1>10. /\ results' \in [PhotosOf(albumCase) -> Seq({"ok", "failed"})]
       /\ \A q \in PhotosOf(albumCase) : IF q \in {p} THEN results'[q] = <<"ok">> ELSE results'[q] = results[q]
  BY <1>4, <1>5, <1>6, ReportIs
<1>11. /\ view' = [q \in PhotosOf(albumCase) |-> view'[q]] /\ \A q \in PhotosOf(albumCase) : ViewShape(view'[q])
       /\ \A q \in PhotosOf(albumCase) : IF q = p THEN ~view'[q].fresh ELSE view'[q] = view[q]
  BY <1>4, <1>5, ChangedIs
<1>12. /\ AlbumTypes' /\ StageInv' /\ FlightInv' /\ ResultInv' /\ CopyInv' /\ DoneInv' /\ DeletedAlbumIsSaved'
  BY <1>1, <1>2, <1>5, <1>6, <1>8, <1>9, <1>10, <1>11, TagStep DEF AlbumTypes
<1>13. TagInv'
  <2>1. TagsAfter(p, <<>>)
    BY <1>1, <1>3 DEF AlbumInv, TagInv
  <2> QED
    BY <1>1, <1>2, <1>7, <1>10, <2>1 DEF AlbumInv, TagInv, TagsOrdered, TagsAfter
<1>14. ViewInv'
  BY <1>1, <1>2, <1>7, <1>10, <1>11 DEF AlbumInv, ViewInv, ParentOf, Foreign
<1> QED
  BY <1>12, <1>13, <1>14 DEF AlbumInv

\* The steps left after the next one.
LEMMA StepsLeft ==
    ASSUME NEW left \in AllTagSteps, left # <<>>
    PROVE  /\ Tail(left) \in AllTagSteps /\ Head(left) \in {"favourite", "add", "remove"}
           /\ ToSet(left) = {Head(left)} \cup ToSet(Tail(left)) /\ Head(left) \notin ToSet(Tail(left))
           /\ Head(left) = "remove" => "favourite" \notin ToSet(left) /\ "add" \notin ToSet(left)
<1> DEFINE F == "favourite"
           A == "add"
           R == "remove"
<1>0. ASSUME NEW a, NEW b, NEW c
      PROVE  /\ ToSet(<<>>) = {} /\ ToSet(<<a>>) = {a} /\ ToSet(<<a, b>>) = {a, b} /\ ToSet(<<a, b, c>>) = {a, b, c}
             /\ Head(<<a>>) = a /\ Head(<<a, b>>) = a /\ Head(<<a, b, c>>) = a
             /\ Tail(<<a>>) = <<>> /\ Tail(<<a, b>>) = <<b>> /\ Tail(<<a, b, c>>) = <<b, c>>
  <2>1. ToSet(<<>>) = {}
    BY DEF ToSet
  <2>2. ToSet(<<a>>) = {a}
    BY DEF ToSet
  <2>3. ToSet(<<a, b>>) = {a, b}
    BY DEF ToSet
  <2>4. ToSet(<<a, b, c>>) = {a, b, c}
    BY DEF ToSet
  <2>5. Head(<<a>>) = a /\ Head(<<a, b>>) = a /\ Head(<<a, b, c>>) = a
    OBVIOUS
  <2>6. Tail(<<a>>) = <<>> /\ Tail(<<a, b>>) = <<b>> /\ Tail(<<a, b, c>>) = <<b, c>>
    OBVIOUS
  <2> QED
    BY <2>1, <2>2, <2>3, <2>4, <2>5, <2>6
<1>1. ASSUME NEW a \in {F, A, R}, left = <<a>>
      PROVE  /\ Tail(left) = <<>> /\ Head(left) = a /\ ToSet(left) = {a} /\ ToSet(Tail(left)) = {}
  <2>1. Tail(<<a>>) = <<>> /\ Head(<<a>>) = a /\ ToSet(<<a>>) = {a} /\ ToSet(<<>>) = {}
    BY <1>0
  <2> QED
    BY <1>1, <2>1, Zenon
<1>2. ASSUME NEW a \in {F, A}, NEW b \in {A, R}, left = <<a, b>>
      PROVE  /\ Tail(left) = <<b>> /\ Head(left) = a /\ ToSet(left) = {a, b} /\ ToSet(Tail(left)) = {b}
  <2>1. Tail(<<a, b>>) = <<b>> /\ Head(<<a, b>>) = a /\ ToSet(<<a, b>>) = {a, b} /\ ToSet(<<b>>) = {b}
    BY <1>0
  <2> QED
    BY <1>2, <2>1, Zenon
<1>3. CASE left = <<F, A, R>>
  <2>1. /\ Tail(left) = <<A, R>> /\ Head(left) = F /\ ToSet(left) = {F, A, R} /\ ToSet(Tail(left)) = {A, R}
    <3>1. Tail(<<F, A, R>>) = <<A, R>> /\ Head(<<F, A, R>>) = F /\ ToSet(<<F, A, R>>) = {F, A, R} /\ ToSet(<<A, R>>) = {A, R}
      <4>1. ToSet(<<F, A, R>>) = {F, A, R}
        BY DEF ToSet
      <4>2. ToSet(<<A, R>>) = {A, R}
        BY DEF ToSet
      <4> QED
        BY <4>1, <4>2
    <3> QED
      BY <1>3, <3>1, Zenon
  <2> QED
    BY <2>1 DEF AllTagSteps
<1>4. CASE left \in {<<F>>, <<A>>, <<R>>}
  <2>1. PICK a \in {F, A, R} : left = <<a>>
    BY <1>4
  <2>2. /\ Tail(left) = <<>> /\ Head(left) = a /\ ToSet(left) = {a} /\ ToSet(Tail(left)) = {}
    BY <1>1, <2>1
  <2>3. Tail(left) \in AllTagSteps
    BY <2>2 DEF AllTagSteps
  <2> QED
    BY <2>2, <2>3
<1>5. CASE left \in {<<F, A>>, <<F, R>>, <<A, R>>}
  <2>1. PICK a \in {F, A}, b \in {A, R} : left = <<a, b>> /\ a # b
    BY <1>5
  <2>2. /\ Tail(left) = <<b>> /\ Head(left) = a /\ ToSet(left) = {a, b} /\ ToSet(Tail(left)) = {b}
    BY <1>2, <2>1
  <2>3. Tail(left) \in AllTagSteps
    BY <2>2 DEF AllTagSteps
  <2> QED
    BY <2>1, <2>2, <2>3
<1> QED
  BY <1>3, <1>4, <1>5 DEF AllTagSteps

\* What a request does to the tags.
LEMMA EffectIs ==
    ASSUME AlbumTypes, NEW p \in PhotosOf(albumCase), NEW left \in AllTagSteps, left # <<>>,
           TagEffect(p, Head(left)), TagsOrdered(p), TagsAfter(p, left), albumCase' = albumCase,
           "favourite" \in ToSet(left) => "favourite" \in albumCase.tagsToAdd
    PROVE  /\ UNCHANGED <<inAlbum, copies, albumGone>> /\ DOMAIN tags' = PhotosOf(albumCase)
           /\ inTimeline' \in {inTimeline, inTimeline \cup {p}}
           /\ \A q \in PhotosOf(albumCase) \ {p} : tags'[q] = tags[q]
           /\ TagsOrdered(p)' /\ TagsAfter(p, Tail(left))'
<1> DEFINE step == Head(left)
           add == albumCase.tagsToAdd
           remove == albumCase.tagsToRemove
<1>1. /\ step \in {"favourite", "add", "remove"} /\ ToSet(left) = {step} \cup ToSet(Tail(left)) /\ step \notin ToSet(Tail(left))
      /\ step = "remove" => "favourite" \notin ToSet(left) /\ "add" \notin ToSet(left)
  BY StepsLeft
<1>2. UNCHANGED <<inAlbum, copies, albumGone>>
  BY DEF TagEffect
<1>3. /\ step = "favourite" => tags' = [tags EXCEPT ![p] = @ \cup {"favourite"}] /\ inTimeline' = inTimeline \cup {p}
      /\ step = "add" => tags' = [tags EXCEPT ![p] = @ \cup (add \ {"favourite"})] /\ inTimeline' = inTimeline
      /\ step = "remove" => tags' = [tags EXCEPT ![p] = @ \ remove] /\ inTimeline' = inTimeline
  BY DEF TagEffect, PostFavorite, PostTags, DeleteTags
<1>4. /\ step = "favourite" => tags'[p] = tags[p] \cup {"favourite"}
      /\ step = "add" => tags'[p] = tags[p] \cup (add \ {"favourite"})
      /\ step = "remove" => tags'[p] = tags[p] \ remove
      /\ DOMAIN tags' = PhotosOf(albumCase)
      /\ \A q \in PhotosOf(albumCase) \ {p} : tags'[q] = tags[q]
  BY <1>1, <1>3 DEF AlbumTypes
<1>5. add \cap remove = {}
  BY CaseIs DEF AlbumTypes
<1>6. TagsOrdered(p)' /\ TagsAfter(p, Tail(left))'
  <2>1. add' = add /\ remove' = remove
    OBVIOUS
  <2> HIDE DEF add, remove
  <2>2. /\ ~(remove \subseteq tags[p]) => add \subseteq tags[p]
        /\ "favourite" \notin ToSet(left) => add \cap {"favourite"} \subseteq tags[p]
        /\ "add" \notin ToSet(left) => add \ {"favourite"} \subseteq tags[p]
        /\ "remove" \notin ToSet(left) => remove \cap tags[p] = {}
        /\ "favourite" \in ToSet(left) => "favourite" \in add
    BY DEF TagsOrdered, TagsAfter, add, remove
  <2>3. PICK rest : rest = ToSet(Tail(left))
    OBVIOUS
  <2>4. /\ ~(remove \subseteq tags'[p]) => add \subseteq tags'[p]
        /\ "favourite" \notin rest => add \cap {"favourite"} \subseteq tags'[p]
        /\ "add" \notin rest => add \ {"favourite"} \subseteq tags'[p]
        /\ "remove" \notin rest => remove \cap tags'[p] = {}
    <3>1. CASE step = "favourite"
      BY <1>1, <1>4, <1>5, <2>2, <2>3, <3>1
    <3>2. CASE step = "add"
      BY <1>1, <1>4, <1>5, <2>2, <2>3, <3>2
    <3>3. CASE step = "remove"
      BY <1>1, <1>4, <1>5, <2>2, <2>3, <3>3
    <3> QED
      BY <1>1, <3>1, <3>2, <3>3
  <2> QED
    BY <2>1, <2>3, <2>4 DEF TagsOrdered, TagsAfter, add, remove
<1> QED
  BY <1>1, <1>2, <1>3, <1>4, <1>6

LEMMA UpdateRequestKeeps ==
    ASSUME AlbumInv, UpdateRequest
    PROVE  AlbumInv'
<1>1. /\ albumCase.op = "tag" /\ stage = "work" /\ payloads # <<>> /\ payloads[1].left # <<>>
      /\ UNCHANGED <<albumCase, stage, needs, deleted, view, sameQueue, otherQueue, retried, meanwhile>>
  BY DEF UpdateRequest, Tagging
<1>2. PICK x : x = payloads[1]
  OBVIOUS
<1>3. PICK p : p = x.photo
  OBVIOUS
<1>4. PICK left : left = x.left
  OBVIOUS
<1>5. x = [photo |-> p, related |-> x.related, left |-> left] /\ left \in AllTagSteps /\ left # <<>> /\ TagsAfter(p, left)
      /\ ("favourite" \in ToSet(left) => "favourite" \in albumCase.tagsToAdd)
  BY <1>1, <1>2, <1>3, <1>4 DEF AlbumInv, TagInv
<1>6. PICK y : y = [x EXCEPT !.left = Tail(@)]
  OBVIOUS
<1>7. y.photo = p /\ y.left = Tail(left) /\ y = [photo |-> y.photo, related |-> y.related, left |-> y.left]
  <2>1. PICK r : r = x.related
    OBVIOUS
  <2>2. x = [photo |-> p, related |-> r, left |-> left]
    BY <1>5, <2>1
  <2>3. PICK rest : rest = Tail(left)
    OBVIOUS
  <2>4. y = [x EXCEPT !.left = rest]
    BY <1>4, <1>6, <2>3, Zenon
  <2>5. y = [photo |-> p, related |-> r, left |-> rest]
    BY <2>2, <2>4
  <2> QED
    BY <2>3, <2>5
<1>8. \/ TagEffect(p, Head(left)) \/ UNCHANGED AlbumServer
  BY <1>2, <1>3, <1>4, Zenon DEF UpdateRequest
<1>9. \/ TagEffect(p, Head(left)) /\ payloads' = <<y>> /\ UNCHANGED <<results, albumFaults>>
      \/ payloads' = <<>> /\ results' = Report({p}, "failed") /\ (albumFaults' = albumFaults \/ albumFaults' = albumFaults + 1)
  BY <1>2, <1>3, <1>4, <1>6, Zenon DEF UpdateRequest
<1>10. AlbumTypes /\ OnceEach(sameQueue) /\ PhotosIn(payloads) = {p} /\ InFlight = PhotosIn(sameQueue) \cup {p}
       /\ PhotosIn(sameQueue) \cap {p} = {}
  BY <1>1, <1>2, <1>3, TagFlight DEF AlbumInv, FlightInv, Waiting
<1>11. p \in InFlight /\ p \in PhotosOf(albumCase) /\ results[p] = <<>>
  BY <1>1, <1>10, TagFlight
<1>12. PhotosOf(albumCase)' = PhotosOf(albumCase) /\ Asked' = Asked
  BY <1>1 DEF PhotosOf, Asked
<1>13. \A q \in PhotosOf(albumCase) : TagsOrdered(q)
  BY <1>1 DEF AlbumInv, TagInv
<1>14. /\ UNCHANGED <<inAlbum, copies, albumGone>> /\ DOMAIN tags' = PhotosOf(albumCase)
       /\ inTimeline' \in {inTimeline, inTimeline \cup {p}}
       /\ \A q \in PhotosOf(albumCase) \ {p} : tags'[q] = tags[q]
       /\ TagsOrdered(p)'
  <2>1. CASE TagEffect(p, Head(left))
    BY <1>1, <1>5, <1>10, <1>11, <1>13, <2>1, EffectIs
  <2>2. CASE UNCHANGED AlbumServer
    <3>1. UNCHANGED <<inAlbum, inTimeline, copies, albumGone, tags>>
      BY <2>2 DEF AlbumServer
    <3>2. TagsOrdered(p)'
      BY <1>1, <1>11, <1>13, <3>1 DEF TagsOrdered
    <3> QED
      BY <1>10, <3>1, <3>2 DEF AlbumTypes
  <2> QED
    BY <1>8, <2>1, <2>2
<1>15. \A q \in PhotosOf(albumCase) : TagsOrdered(q)'
  BY <1>1, <1>13, <1>14 DEF TagsOrdered
<1>16. <<"ok">> # <<"failed">> /\ <<>> # <<"ok">>
  OBVIOUS
<1>17. view' = [q \in PhotosOf(albumCase) |-> view'[q]] /\ (\A q \in PhotosOf(albumCase) : ViewShape(view'[q]))
       /\ inTimeline' \subseteq PhotosOf(albumCase)
  BY <1>1, <1>10, <1>11, <1>14 DEF AlbumTypes
<1>18. CASE TagEffect(p, Head(left)) /\ payloads' = <<y>> /\ UNCHANGED <<results, albumFaults>>
  <2>1. OnceEach(payloads') /\ PhotosIn(payloads') = {p} /\ Len(payloads') <= 1 /\ payloads'[1] = y /\ payloads' # <<>>
    BY <1>7, <1>18, OnceOne
  <2>2. PhotosIn(sameQueue') \cap PhotosIn(payloads') = {} /\ PhotosIn(sameQueue') \cup PhotosIn(payloads') = InFlight \ {}
    BY <1>1, <1>10, <2>1
  <2>3. /\ AlbumTypes' /\ StageInv' /\ FlightInv' /\ ResultInv' /\ CopyInv' /\ DoneInv' /\ DeletedAlbumIsSaved'
    BY <1>1, <1>10, <1>14, <1>17, <1>18, <2>1, <2>2, TagStep DEF AlbumTypes
  <2>4. TagsAfter(p, Tail(left))'
    BY <1>1, <1>5, <1>10, <1>11, <1>13, <1>18, EffectIs
  <2>5. \A q \in PhotosOf(albumCase) : results'[q] = <<"ok">> => TagsAfter(q, <<>>)'
    <3> SUFFICES ASSUME NEW q \in PhotosOf(albumCase), results[q] = <<"ok">> PROVE TagsAfter(q, <<>>)'
      BY <1>18
    <3>1. q # p
      BY <1>11, <1>16
    <3>2. TagsAfter(q, <<>>) /\ tags'[q] = tags[q]
      BY <1>1, <1>14, <3>1 DEF AlbumInv, TagInv
    <3> QED
      BY <1>1, <3>2 DEF TagsAfter
  <2>6. Tail(left) \in AllTagSteps /\ ("favourite" \in ToSet(Tail(left)) => "favourite" \in albumCase.tagsToAdd)
    BY <1>5, StepsLeft
  <2>7. TagInv'
    <3>1. TagsAfter(payloads[1].photo, payloads[1].left)'
      BY <1>7, <2>1, <2>4 DEF TagsAfter
    <3> QED
      BY <1>1, <1>7, <1>12, <1>15, <2>1, <2>5, <2>6, <3>1 DEF TagInv
  <2>8. ViewInv'
    BY <1>1, <1>11, <1>12, <1>14, <1>16, <1>18 DEF AlbumInv, ViewInv, ParentOf, Foreign
  <2> QED
    BY <2>3, <2>7, <2>8 DEF AlbumInv
<1>19. CASE payloads' = <<>> /\ results' = Report({p}, "failed") /\ (albumFaults' = albumFaults \/ albumFaults' = albumFaults + 1)
  <2>1. OnceEach(payloads') /\ PhotosIn(payloads') = {} /\ Len(payloads') <= 1
    BY <1>19, OnceEmpty
  <2>2. PhotosIn(sameQueue') \cap PhotosIn(payloads') = {} /\ PhotosIn(sameQueue') \cup PhotosIn(payloads') = InFlight \ {p}
    BY <1>1, <1>10, <2>1
  <2>3. /\ results' \in [PhotosOf(albumCase) -> Seq({"ok", "failed"})]
        /\ \A q \in PhotosOf(albumCase) : IF q \in {p} THEN results'[q] = <<"failed">> ELSE results'[q] = results[q]
    <3>1. /\ Report({p}, "failed") \in [PhotosOf(albumCase) -> Seq({"ok", "failed"})]
          /\ \A q \in PhotosOf(albumCase) :
                /\ q \notin {p} => Report({p}, "failed")[q] = results[q]
                /\ q \in {p} /\ results[q] = <<>> => Report({p}, "failed")[q] = <<"failed">>
      BY <1>10, ReportIs
    <3> QED
      BY <1>11, <1>19, <3>1
  <2>4. /\ AlbumTypes' /\ StageInv' /\ FlightInv' /\ ResultInv' /\ CopyInv' /\ DoneInv' /\ DeletedAlbumIsSaved'
    BY <1>1, <1>10, <1>11, <1>14, <1>17, <1>19, <2>1, <2>2, <2>3, TagStep
  <2>5. \A q \in PhotosOf(albumCase) : results'[q] = <<"ok">> => q # p /\ results[q] = <<"ok">>
    BY <1>16, <2>3
  <2>6. TagInv'
    <3>1. \A q \in PhotosOf(albumCase) : results'[q] = <<"ok">> => TagsAfter(q, <<>>)'
      <4> SUFFICES ASSUME NEW q \in PhotosOf(albumCase), results'[q] = <<"ok">> PROVE TagsAfter(q, <<>>)'
        OBVIOUS
      <4>1. q # p /\ TagsAfter(q, <<>>) /\ tags'[q] = tags[q]
        BY <1>1, <1>14, <2>5 DEF AlbumInv, TagInv
      <4> QED
        BY <1>1, <4>1 DEF TagsAfter
    <3> QED
      BY <1>12, <1>15, <1>19, <3>1 DEF TagInv
  <2>7. ViewInv'
    BY <1>1, <1>12, <1>14, <2>5 DEF AlbumInv, ViewInv, ParentOf, Foreign
  <2> QED
    BY <2>4, <2>6, <2>7 DEF AlbumInv
<1> QED
  BY <1>9, <1>18, <1>19

\* A step of a transfer, which reports the photos `done'.
LEMMA TransferStep ==
    ASSUME AlbumInv, stage \in {"work", "saving"}, Transfers,
           stage' \in {stage, "thrown"}, stage' = "thrown" => albumCase.op = "delete" \/ albumFaults' > 0,
           UNCHANGED <<albumCase, deleted, albumGone>>, DOMAIN needs' = DOMAIN needs, DOMAIN tags' = DOMAIN tags,
           NEW done, done \subseteq InFlight,
           OnceEach(sameQueue'), OnceEach(otherQueue'), OnceEach(payloads'),
           PhotosIn(sameQueue') \cap PhotosIn(otherQueue') = {},
           PhotosIn(payloads') \cap (PhotosIn(sameQueue') \cup PhotosIn(otherQueue')) = {},
           InFlight' \subseteq InFlight \ done, stage' = "thrown" \/ InFlight \ done \subseteq InFlight',
           albumCase.op = "delete" => otherQueue' = <<>>,
           results' \in [PhotosOf(albumCase) -> Seq({"ok", "failed"})],
           albumCase.op # "delete" =>
              \A p \in PhotosOf(albumCase) :
                 IF p \in done THEN results'[p] \in {<<"ok">>, <<"failed">>} ELSE results'[p] = results[p],
           albumFaults' \in {albumFaults, albumFaults + 1},
           view' = [p \in PhotosOf(albumCase) |-> view'[p]], \A p \in PhotosOf(albumCase) : ViewShape(view'[p]),
           retried' \subseteq PhotosOf(albumCase), inAlbum' \subseteq PhotosOf(albumCase),
           inTimeline' \subseteq PhotosOf(albumCase), copies' \in [PhotosOf(albumCase) -> {0, 1}]
    PROVE  AlbumTypes' /\ StageInv' /\ FlightInv' /\ ResultInv' /\ TagInv'
<1>1. PhotosOf(albumCase)' = PhotosOf(albumCase) /\ Asked' = Asked
  BY DEF PhotosOf, Asked
<1>2. albumCase.op \in {"add", "save", "delete"} /\ albumFaults' \in Nat
  BY DEF Transfers, AlbumInv, AlbumTypes
<1>3. AlbumTypes'
  <2>1. stage' \in {"begin", "work", "delete", "saving", "again", "ended", "thrown"}
    OBVIOUS
  <2> QED
    BY <1>1, <1>2, <2>1 DEF AlbumInv, AlbumTypes, ViewShape
<1>4. StageInv'
  <2>1. stage' \in {"work", "saving", "thrown"} /\ (stage' \in {"work", "saving"} => stage' = stage)
    OBVIOUS
  <2> QED
    BY <1>2, <2>1 DEF AlbumInv, StageInv, ThrowsOnlyOnFailure
<1>5. FlightInv'
  <2>1. InFlight \subseteq PhotosOf(albumCase) /\ (albumCase.op # "delete" => InFlight \subseteq Asked)
    BY DEF AlbumInv, FlightInv
  <2> QED
    BY <1>1, <2>1 DEF FlightInv, Waiting
<1>6. ResultInv'
  <2>1. stage \notin {"begin", "thrown"} /\ stage' # "begin"
    OBVIOUS
  <2> QED
    BY <2>1, ResultsKeep
<1>7. TagInv'
  BY <1>2 DEF TagInv
<1> QED
  BY <1>3, <1>4, <1>5, <1>6, <1>7

\* The photos that waited have no result and no copy.
LEMMA InFlightIs ==
    ASSUME AlbumInv
    PROVE  \A p \in InFlight : p \in PhotosOf(albumCase) /\ copies[p] = 0 /\ (albumCase.op # "delete" => results[p] = <<>>)
BY DEF AlbumInv, FlightInv, ResultInv, CopyInv

LEMMA PreparedAre ==
    ASSUME NEW items, OnceEach(items), Prepare(items)
    PROVE  /\ OnceEach(payloads')
           /\ PhotosIn(payloads') = {p \in PhotosIn(items) : ~CannotPrepare(p)}
           /\ results' = Report({p \in PhotosIn(items) : CannotPrepare(p)}, "failed")
           /\ view' = [p \in AllPhotos |-> IF p \in PhotosIn(items) \ deleted THEN Seen(p) ELSE view[p]]
           /\ stage' = stage \/ (stage = "saving" /\ stage' = "thrown")
<1> DEFINE bad == {x \in ToSet(items) : CannotPrepare(x.photo)}
           own == {x \in ToSet(items) : ~Foreign(x.photo)}
           ours == Kept(items, own \ bad)
           others == Kept(items, ToSet(items) \ (own \cup bad))
           good == ours \o others
<1>1. /\ payloads' = [i \in DOMAIN good |-> PayloadOf(good[i])]
      /\ results' = Report({x.photo : x \in bad}, "failed")
      /\ view' = [p \in AllPhotos |-> IF p \in {x.photo : x \in ToSet(items)} \ deleted THEN Seen(p) ELSE view[p]]
      /\ stage' = IF stage = "saving" /\ bad # {} THEN "thrown" ELSE stage
  BY DEF Prepare
<1>2. PhotosIn(items) = {x.photo : x \in ToSet(items)}
  BY ListIs
<1>3. {x.photo : x \in bad} = {p \in PhotosIn(items) : CannotPrepare(p)}
  BY <1>2
<1>4. /\ OnceEach(ours) /\ PhotosIn(ours) = {x.photo : x \in ToSet(items) \cap (own \ bad)}
      /\ OnceEach(others) /\ PhotosIn(others) = {x.photo : x \in ToSet(items) \cap (ToSet(items) \ (own \cup bad))}
  BY OnceKept
<1> HIDE DEF ours, others
<1>5. /\ PhotosIn(ours) = {p \in PhotosIn(items) : ~CannotPrepare(p) /\ ~Foreign(p)}
  BY <1>2, <1>4
<1>6. /\ PhotosIn(others) = {p \in PhotosIn(items) : ~CannotPrepare(p) /\ Foreign(p)}
  BY <1>2, <1>4
<1>7. OnceEach(good) /\ PhotosIn(good) = PhotosIn(ours) \cup PhotosIn(others)
  BY <1>4, <1>5, <1>6, OnceJoin
<1>8. OnceEach(payloads') /\ PhotosIn(payloads') = PhotosIn(good)
  <2> HIDE DEF good
  <2>1. \A i \in DOMAIN good : payloads'[i].photo = good[i].photo
    BY <1>1 DEF PayloadOf
  <2>2. payloads' = [i \in DOMAIN good |-> payloads'[i]]
    BY <1>1
  <2> QED
    BY <1>7, <2>1, <2>2, OnceMap
<1> QED
  BY <1>1, <1>2, <1>3, <1>5, <1>6, <1>7, <1>8

LEMMA PrepareKeeps ==
    ASSUME AlbumInv, PreparePhotoPayloads
    PROVE  AlbumInv'
<1> DEFINE waits == IF sameQueue # <<>> THEN sameQueue ELSE otherQueue
           n == IF Len(waits) < LoadSize THEN Len(waits) ELSE LoadSize
           first == SubSeq(waits, 1, n)
           rest == SubSeq(waits, n + 1, Len(waits))
<1>1. /\ stage \in {"work", "saving"} /\ Transfers /\ payloads = <<>> /\ n > 0 /\ Prepare(first)
      /\ UNCHANGED <<albumCase, AlbumServer, needs, deleted, retried, albumFaults, meanwhile>>
      /\ IF sameQueue # <<>> THEN sameQueue' = rest /\ otherQueue' = otherQueue
                             ELSE otherQueue' = rest /\ sameQueue' = sameQueue
  BY DEF PreparePhotoPayloads
<1>2. UNCHANGED <<inAlbum, inTimeline, copies, albumGone, tags>>
  BY <1>1 DEF AlbumServer
<1>3. AlbumTypes /\ OnceEach(sameQueue) /\ OnceEach(otherQueue) /\ PhotosIn(sameQueue) \cap PhotosIn(otherQueue) = {}
  BY DEF AlbumInv, FlightInv
<1>4. OnceEach(waits) /\ n \in 0 .. Len(waits)
  <2>1. OnceEach(waits)
    BY <1>3
  <2> HIDE DEF waits
  <2>2. Len(waits) \in Nat /\ LoadSize \in Nat
    BY <1>3, <2>1, ListIs, CaseIs DEF AlbumTypes
  <2> QED
    BY <2>1, <2>2
<1>5. OnceEach(first) /\ OnceEach(rest) /\ PhotosIn(first) \cup PhotosIn(rest) = PhotosIn(waits)
      /\ PhotosIn(first) \cap PhotosIn(rest) = {}
  <2> HIDE DEF waits, n
  <2> QED
    BY <1>4, OnceSplit
<1> HIDE DEF first, rest, n
<1> DEFINE bad == {p \in PhotosIn(first) : CannotPrepare(p)}
           good == {p \in PhotosIn(first) : ~CannotPrepare(p)}
<1>6. /\ OnceEach(payloads') /\ PhotosIn(payloads') = good /\ results' = Report(bad, "failed")
      /\ view' = [p \in AllPhotos |-> IF p \in PhotosIn(first) \ deleted THEN Seen(p) ELSE view[p]]
      /\ stage' = stage \/ (stage = "saving" /\ stage' = "thrown")
  BY <1>1, <1>5, PreparedAre
<1>7. InFlight = PhotosIn(sameQueue) \cup PhotosIn(otherQueue)
  BY <1>1, OnceEmpty DEF InFlight, Waiting
<1>8. good \cup bad = PhotosIn(first) /\ good \cap bad = {}
  OBVIOUS
<1> HIDE DEF bad, good
<1>9. /\ OnceEach(sameQueue') /\ OnceEach(otherQueue')
      /\ PhotosIn(sameQueue') \cap PhotosIn(otherQueue') = {}
      /\ PhotosIn(sameQueue') \cup PhotosIn(otherQueue') = InFlight \ PhotosIn(first)
      /\ PhotosIn(first) \subseteq InFlight
  <2>1. CASE sameQueue # <<>>
    BY <1>1, <1>3, <1>5, <1>7, <2>1
  <2>2. CASE sameQueue = <<>>
    <3>1. sameQueue' = <<>> /\ otherQueue' = rest /\ waits = otherQueue
      BY <1>1, <2>2
    <3> QED
      BY <1>3, <1>5, <1>7, <2>2, <3>1, OnceEmpty
  <2> QED
    BY <2>1, <2>2
<1>10. InFlight' = InFlight \ bad /\ bad \subseteq InFlight
       /\ PhotosIn(payloads') \cap (PhotosIn(sameQueue') \cup PhotosIn(otherQueue')) = {}
  <2>1. InFlight' = PhotosIn(sameQueue') \cup PhotosIn(otherQueue') \cup PhotosIn(payloads')
    BY DEF InFlight, Waiting
  <2> QED
    BY <1>6, <1>8, <1>9, <2>1
<1>11. \A p \in InFlight : p \in PhotosOf(albumCase) /\ copies[p] = 0 /\ (albumCase.op # "delete" => results[p] = <<>>)
  BY InFlightIs
<1>12. /\ results' \in [PhotosOf(albumCase) -> Seq({"ok", "failed"})]
       /\ \A p \in PhotosOf(albumCase) :
             /\ p \notin bad => results'[p] = results[p]
             /\ p \in bad /\ albumCase.op # "delete" => results'[p] = <<"failed">>
  <2>1. /\ Report(bad, "failed") \in [PhotosOf(albumCase) -> Seq({"ok", "failed"})]
        /\ \A p \in PhotosOf(albumCase) :
              /\ p \notin bad => Report(bad, "failed")[p] = results[p]
              /\ p \in bad /\ results[p] = <<>> => Report(bad, "failed")[p] = <<"failed">>
    BY <1>3, ReportIs
  <2> QED
    BY <1>6, <1>10, <1>11, <2>1
<1>13. /\ view' = [p \in PhotosOf(albumCase) |-> view'[p]] /\ \A p \in PhotosOf(albumCase) : ViewShape(view'[p])
       /\ \A p \in PhotosOf(albumCase) \ InFlight : view'[p] = view[p]
  <2>1. AllPhotos = PhotosOf(albumCase)
    BY <1>3, AlbumPhotos
  <2>2. \A p \in PhotosOf(albumCase) : ViewShape(Seen(p))
    <3>1. \A p : ViewShape(Loaded(p))
      BY DEF ViewShape, Loaded
    <3> QED
      BY <1>3, <3>1 DEF Seen, AlbumTypes
  <2>3. \A p \in PhotosOf(albumCase) : view'[p] = IF p \in PhotosIn(first) \ deleted THEN Seen(p) ELSE view[p]
    BY <1>6, <2>1
  <2>4. view' = [p \in PhotosOf(albumCase) |-> view'[p]]
    BY <1>6, <2>1
  <2> QED
    BY <1>3, <1>9, <2>2, <2>3, <2>4 DEF AlbumTypes
<1>14. albumCase.op = "delete" => otherQueue' = <<>>
  <2>1. albumCase.op = "delete" => otherQueue = <<>>
    BY DEF AlbumInv, StageInv
  <2>2. waits # <<>>
    <3> SUFFICES ASSUME waits = <<>> PROVE FALSE
      OBVIOUS
    <3>1. Len(waits) = 0
      OBVIOUS
    <3> HIDE DEF waits
    <3>2. n = 0
      BY <1>4, <3>1
    <3> QED
      BY <1>1, <3>2
  <2> QED
    BY <1>1, <2>1, <2>2
<1>15. AlbumTypes' /\ StageInv' /\ FlightInv' /\ ResultInv' /\ TagInv'
  <2>1. stage' \in {stage, "thrown"} /\ (stage' = "thrown" => albumCase.op = "delete" \/ albumFaults' > 0)
    BY <1>1, <1>6 DEF AlbumInv, StageInv
  <2>2. albumCase.op # "delete" =>
          \A p \in PhotosOf(albumCase) :
             IF p \in bad THEN results'[p] \in {<<"ok">>, <<"failed">>} ELSE results'[p] = results[p]
    BY <1>12
  <2>3. /\ inAlbum' \subseteq PhotosOf(albumCase) /\ inTimeline' \subseteq PhotosOf(albumCase)
        /\ retried' \subseteq PhotosOf(albumCase) /\ copies' \in [PhotosOf(albumCase) -> {0, 1}]
    BY <1>1, <1>2, <1>3 DEF AlbumTypes
  <2>4. DOMAIN needs' = DOMAIN needs /\ DOMAIN tags' = DOMAIN tags /\ albumFaults' \in {albumFaults, albumFaults + 1}
        /\ UNCHANGED <<albumCase, deleted, albumGone>>
    BY <1>1, <1>2
  <2> QED
    BY <1>1, <1>6, <1>9, <1>10, <1>12, <1>13, <1>14, <2>1, <2>2, <2>3, <2>4, TransferStep
<1>16. PhotosOf(albumCase)' = PhotosOf(albumCase)
  BY <1>1 DEF PhotosOf
<1>17. CopyInv'
  <2>1. stage # "begin" /\ stage' # "begin" /\ InFlight' \subseteq InFlight /\ albumCase' = albumCase
        /\ (albumFaults' = 0 => albumFaults = 0)
    BY <1>1, <1>6, <1>10
  <2>2. \A p \in PhotosOf(albumCase) : (copies'[p] = copies[p] /\ results'[p] = results[p]) \/ copies'[p] = 0
    BY <1>2, <1>10, <1>11, <1>12
  <2> QED
    BY <2>1, <2>2, CopiesKeep
<1>18. <<"ok">> # <<"failed">> /\ <<"ok">> # <<>>
  OBVIOUS
<1>19. \A p \in PhotosOf(albumCase) :
         results'[p] = <<"ok">> /\ albumCase.op # "delete" => results[p] = <<"ok">> /\ p \notin InFlight
  BY <1>10, <1>11, <1>12, <1>18
<1>20. DoneInv'
  <2>1. \A p : Done(p)' <=> Done(p)
    BY <1>1, <1>2 DEF Done, Foreign
  <2>2. albumCase.op = "delete" => \A p : Done(p)
    BY DEF Done
  <2> QED
    BY <1>1, <1>16, <1>19, <2>1, <2>2 DEF AlbumInv, DoneInv
<1>21. ViewInv'
  <2>1. \A p : ParentOf(p)' = ParentOf(p) /\ (Foreign(p)' <=> Foreign(p))
    BY <1>1, <1>2 DEF ParentOf, Foreign
  <2> QED
    BY <1>1, <1>13, <1>16, <1>19, <2>1 DEF AlbumInv, ViewInv
<1>22. DeletedAlbumIsSaved'
  BY <1>1, <1>2 DEF AlbumInv, DeletedAlbumIsSaved
<1> QED
  BY <1>15, <1>17, <1>20, <1>21, <1>22 DEF AlbumInv

\* The next batch is one of photos of the volume that the server takes.
LEMMA BatchIs ==
    ASSUME OnceEach(payloads), SameVolume
    PROVE  /\ CreateBatch \in 1 .. Len(payloads)
           /\ \A i \in 1 .. CreateBatch : ~Foreign(payloads[i].photo)
           /\ CreateBatch = 1 \/ Load(CreateBatch) <= BatchLimit
<1> DEFINE Fits(n) == n = 1 \/ Load(n) <= BatchLimit
           S == {n \in DOMAIN payloads : (\A i \in 1 .. n : ~Foreign(payloads[i].photo)) /\ Fits(n)}
           N == Len(payloads)
           T == {k \in 0 .. N : N - k \in S}
<1>1. N \in Nat /\ DOMAIN payloads = 1 .. N /\ 1 \in 1 .. N
  BY ListIs DEF SameVolume
<1>2. 1 \in S
  <2>1. \A i \in 1 .. 1 : ~Foreign(payloads[i].photo)
    BY DEF SameVolume
  <2> QED
    BY <1>1, <2>1
<1>3. CreateBatch = CHOOSE x \in S : \A y \in S : x >= y
  BY Zenon DEF CreateBatch, Max
<1>4. S \subseteq 1 .. N /\ \A n \in S : (\A i \in 1 .. n : ~Foreign(payloads[i].photo)) /\ Fits(n)
  BY <1>1
<1> HIDE DEF S, Fits, N
<1>5. \E x \in S : \A y \in S : x >= y
  <2>1. N - 1 \in T
    <3>1. N - (N - 1) = 1 /\ N - 1 \in 0 .. N
      BY <1>1
    <3> QED
      BY <1>2, <3>1
  <2>2. T \subseteq Nat
    BY <1>1
  <2>3. PICK k \in T : \A j \in T : k <= j
    <3> HIDE DEF T
    <3> QED
      BY <2>1, <2>2, LeastNumber
  <2>4. ASSUME NEW y \in S PROVE N - k >= y
    <3>1. y \in 1 .. N
      BY <1>4
    <3>2. N - y \in 0 .. N /\ N - (N - y) = y
      BY <1>1, <3>1
    <3>3. N - y \in T
      BY <3>2
    <3>4. k <= N - y /\ k \in Nat
      BY <2>2, <2>3, <3>3
    <3> QED
      BY <1>1, <3>1, <3>4
  <2> QED
    BY <2>3, <2>4
<1>6. CreateBatch \in S
  BY <1>3, <1>5
<1> QED
  BY <1>4, <1>6 DEF Fits, N

\* What becomes of the photos of a batch.
LEMMA AnswersSplit ==
    ASSUME NEW batch, OnceEach(batch)
    PROVE  LET xs == ToSet(batch)
               again == {x.photo : x \in Again(xs)}
           IN /\ FailedIn(xs) \cup Taken(xs) \cup again = PhotosIn(batch)
              /\ FailedIn(xs) \cap Taken(xs) = {} /\ again \cap (FailedIn(xs) \cup Taken(xs)) = {}
<1> DEFINE xs == ToSet(batch)
           again == {x.photo : x \in Again(xs)}
<1>1. \A x, y \in xs : x.photo = y.photo => x = y
  BY ListIs DEF ToSet
<1>2. PhotosIn(batch) = {x.photo : x \in xs}
  BY ListIs
<1> HIDE DEF xs
<1>3. Again(xs) \subseteq xs /\ \A x \in Again(xs) : Answer(x) = "missing"
  BY DEF Again
<1>4. /\ Taken(xs) = {x.photo : x \in {y \in xs : Answer(y) = "ok"}}
      /\ FailedIn(xs) = {x.photo : x \in {y \in xs \ Again(xs) : Answer(y) # "ok"}}
  BY DEF Taken, FailedIn
<1>5. FailedIn(xs) \cup Taken(xs) \cup again = PhotosIn(batch)
  <2>1. \A x \in xs : x.photo \in FailedIn(xs) \cup Taken(xs) \cup again
    BY <1>3, <1>4
  <2>2. FailedIn(xs) \subseteq PhotosIn(batch) /\ Taken(xs) \subseteq PhotosIn(batch) /\ again \subseteq PhotosIn(batch)
    BY <1>2, <1>3, <1>4
  <2> QED
    BY <1>2, <2>1, <2>2
<1>6. FailedIn(xs) \cap Taken(xs) = {}
  BY <1>1, <1>4
<1>7. again \cap (FailedIn(xs) \cup Taken(xs)) = {}
  BY <1>1, <1>3, <1>4
<1> QED
  BY <1>5, <1>6, <1>7 DEF xs

\* Answers are left aside only after a photo that could not be saved for a deletion.
LEMMA SeenIs ==
    ASSUME NEW batch, OnceEach(batch)
    PROVE  LET seen == LookedAt(batch)
           IN /\ OnceEach(seen) /\ PhotosIn(seen) \subseteq PhotosIn(batch) /\ ToSet(seen) \subseteq ToSet(batch)
              /\ seen = batch \/ (stage = "saving" /\ FailedIn(ToSet(seen)) # {})
<1> DEFINE xs == ToSet(batch)
           D == {i \in DOMAIN batch : batch[i].photo \in FailedIn(xs)}
           seen == LookedAt(batch)
<1>1. CASE ~(stage = "saving" /\ FailedIn(xs) # {})
  <2>1. seen = batch
    BY <1>1 DEF LookedAt
  <2> QED
    BY <2>1
<1>2. CASE stage = "saving" /\ FailedIn(xs) # {}
  <2>1. /\ Len(batch) \in Nat /\ DOMAIN batch = 1 .. Len(batch)
        /\ \A i, j \in 1 .. Len(batch) : batch[i].photo = batch[j].photo => i = j
    BY ListIs
  <2>2. \A ys : FailedIn(ys) = {x.photo : x \in {y \in ys \ Again(ys) : Answer(y) # "ok"}}
    BY DEF FailedIn
  <2>3. D # {}
    <3>1. PICK x \in xs : x.photo \in FailedIn(xs)
      BY <1>2, <2>2
    <3>2. PICK i \in DOMAIN batch : batch[i] = x
      BY DEF ToSet
    <3> QED
      BY <3>1, <3>2
  <2>4. D \subseteq Nat
    BY <2>1
  <2>5. PICK k \in D : \A j \in D : k <= j
    <3> HIDE DEF D
    <3> QED
      BY <2>3, <2>4, LeastNumber
  <2>6. FirstFailure(batch) \in D
    <3>1. FirstFailure(batch) = CHOOSE x \in D : \A y \in D : x <= y
      BY Zenon DEF FirstFailure, Min
    <3> HIDE DEF D
    <3> QED
      BY <2>5, <3>1
  <2>7. PICK n : n = FirstFailure(batch)
    OBVIOUS
  <2>8. n \in 1 .. Len(batch) /\ n \in 0 .. Len(batch) /\ batch[n].photo \in FailedIn(xs)
    BY <2>1, <2>6, <2>7
  <2>9. seen = SubSeq(batch, 1, n)
    BY <1>2, <2>7 DEF LookedAt
  <2> HIDE DEF seen, D
  <2>10. /\ OnceEach(seen) /\ PhotosIn(seen) \subseteq PhotosIn(batch) /\ ToSet(seen) = {batch[i] : i \in 1 .. n}
    BY <2>8, <2>9, OnceSplit
  <2>11. ToSet(seen) \subseteq xs /\ batch[n] \in ToSet(seen)
    <3>1. xs = {batch[i] : i \in 1 .. Len(batch)}
      BY <2>1 DEF ToSet
    <3>2. n \in 1 .. n /\ \A i \in 1 .. n : i \in 1 .. Len(batch)
      BY <2>1, <2>8
    <3> HIDE DEF xs
    <3> QED
      BY <2>10, <3>1, <3>2
  <2>12. PICK x \in xs \ Again(xs) : x.photo = batch[n].photo /\ Answer(x) # "ok"
    BY <2>2, <2>8
  <2>13. x = batch[n]
    <3>1. PICK i \in 1 .. Len(batch) : batch[i] = x
      BY <2>1 DEF ToSet
    <3> QED
      BY <2>1, <2>8, <2>12, <3>1
  <2>14. batch[n] \notin Again(ToSet(seen))
    <3>1. Again(ToSet(seen)) \subseteq Again(xs)
      BY <2>11 DEF Again
    <3> QED
      BY <2>12, <2>13, <3>1
  <2>15. FailedIn(ToSet(seen)) # {}
    BY <2>2, <2>11, <2>12, <2>13, <2>14
  <2> QED
    BY <1>2, <2>10, <2>11, <2>15 DEF seen
<1> QED
  BY <1>1, <1>2

\* The answers to a batch: what is queued again, and what is reported.
LEMMA SettledAre ==
    ASSUME AlbumTypes, NEW batch, OnceEach(batch), OnceEach(sameQueue),
           PhotosIn(batch) \cap PhotosIn(sameQueue) = {}, PhotosIn(batch) \subseteq PhotosOf(albumCase), Settle(batch)
    PROVE  LET xs == ToSet(LookedAt(batch))
               again == {x.photo : x \in Again(xs)}
           IN /\ OnceEach(sameQueue') /\ PhotosIn(sameQueue') = PhotosIn(sameQueue) \cup again
              /\ retried' = retried \cup again
              /\ results' \in [PhotosOf(albumCase) -> Seq({"ok", "failed"})]
              /\ \A p \in PhotosOf(albumCase) :
                    /\ p \notin FailedIn(xs) \cup Taken(xs) => results'[p] = results[p]
                    /\ results[p] = <<>> /\ p \in FailedIn(xs) => results'[p] = <<"failed">>
                    /\ results[p] = <<>> /\ p \in Taken(xs) => results'[p] = <<"ok">>
                    /\ p \in FailedIn(xs) => results'[p] # <<"ok">>
              /\ view' = Changed(Taken(xs))
              /\ stage' = IF stage = "saving" /\ FailedIn(xs) # {} THEN "thrown" ELSE stage
<1> DEFINE seen == LookedAt(batch)
           xs == ToSet(seen)
           again == {x.photo : x \in Again(xs)}
           queued == Kept(seen, Again(xs))
           items == [i \in DOMAIN queued |-> RetryItem(queued[i])]
<1>1. /\ retried' = retried \cup again
      /\ sameQueue' = sameQueue \o items
      /\ results' = [p \in AllPhotos |-> results[p] \o (IF p \in FailedIn(xs) THEN <<"failed">> ELSE <<>>)
                                                    \o (IF p \in Taken(xs) THEN <<"ok">> ELSE <<>>)]
      /\ view' = Changed(Taken(xs))
      /\ stage' = IF stage = "saving" /\ FailedIn(xs) # {} THEN "thrown" ELSE stage
  BY DEF Settle
<1>0. OnceEach(seen) /\ PhotosIn(seen) \subseteq PhotosIn(batch)
  BY SeenIs
<1> HIDE DEF seen
<1>2. OnceEach(queued) /\ PhotosIn(queued) = {x.photo : x \in xs \cap Again(xs)}
  BY <1>0, OnceKept
<1>3. xs \cap Again(xs) = Again(xs)
  BY DEF Again
<1>4. PhotosIn(queued) = again
  BY <1>2, <1>3
<1>5. FailedIn(xs) \cup Taken(xs) \cup again = PhotosIn(seen) /\ FailedIn(xs) \cap Taken(xs) = {}
  BY <1>0, AnswersSplit
<1> HIDE DEF xs, queued, again
<1>6. OnceEach(items) /\ PhotosIn(items) = again
  <2>1. items = [i \in DOMAIN queued |-> items[i]] /\ \A i \in DOMAIN queued : items[i].photo = queued[i].photo
    BY DEF RetryItem
  <2> HIDE DEF items
  <2> QED
    BY <1>2, <1>4, <2>1, OnceMap
<1> HIDE DEF items
<1>7. OnceEach(sameQueue') /\ PhotosIn(sameQueue') = PhotosIn(sameQueue) \cup again
  BY <1>0, <1>1, <1>5, <1>6, OnceJoin
<1>8. AllPhotos = PhotosOf(albumCase)
  BY AlbumPhotos
<1>9. /\ results' \in [PhotosOf(albumCase) -> Seq({"ok", "failed"})]
      /\ \A p \in PhotosOf(albumCase) :
            /\ p \notin FailedIn(xs) \cup Taken(xs) => results'[p] = results[p]
            /\ results[p] = <<>> /\ p \in FailedIn(xs) => results'[p] = <<"failed">>
            /\ results[p] = <<>> /\ p \in Taken(xs) => results'[p] = <<"ok">>
            /\ p \in FailedIn(xs) => results'[p] # <<"ok">>
  <2> DEFINE S == {"ok", "failed"}
  <2>1. <<"ok">> \in Seq(S) /\ <<"failed">> \in Seq(S) /\ <<>> \in Seq(S)
    OBVIOUS
  <2> HIDE DEF S
  <2>2. \A p \in PhotosOf(albumCase) : results[p] \in Seq(S)
    BY DEF AlbumTypes, S
  <2>3. \A r \in Seq(S) : r \o <<>> = r /\ <<>> \o r = r
    BY ConcatEmptySeq
  <2>4. \A r, t \in Seq(S) : r \o t \in Seq(S)
    BY ConcatProperties
  <2>5. \A p \in PhotosOf(albumCase) :
          results'[p] = results[p] \o (IF p \in FailedIn(xs) THEN <<"failed">> ELSE <<>>)
                                   \o (IF p \in Taken(xs) THEN <<"ok">> ELSE <<>>)
    BY <1>1, <1>8
  <2>6. ASSUME NEW p \in PhotosOf(albumCase)
        PROVE  /\ results'[p] \in Seq(S)
               /\ p \notin FailedIn(xs) \cup Taken(xs) => results'[p] = results[p]
               /\ results[p] = <<>> /\ p \in FailedIn(xs) => results'[p] = <<"failed">>
               /\ results[p] = <<>> /\ p \in Taken(xs) => results'[p] = <<"ok">>
               /\ p \in FailedIn(xs) => results'[p] # <<"ok">>
    <3>1. CASE p \in FailedIn(xs)
      <4>1. results'[p] = results[p] \o <<"failed">> \o <<>> /\ p \notin Taken(xs)
        BY <1>5, <2>5, <3>1
      <4>2. results[p] \o <<"failed">> \in Seq(S)
        BY <2>1, <2>2, <2>4
      <4>3. results'[p] = results[p] \o <<"failed">>
        BY <2>3, <4>1, <4>2
      <4>4. results[p] = <<>> => results'[p] = <<"failed">>
        BY <2>1, <2>3, <4>3
      <4>5. results'[p] # <<"ok">>
        <5>1. PICK r \in Seq(S) : r = results[p]
          BY <2>2
        <5>2. /\ Len(r \o <<"failed">>) = Len(r) + Len(<<"failed">>) /\ Len(r) \in Nat
              /\ \A i \in 1 .. Len(<<"failed">>) : (r \o <<"failed">>)[Len(r) + i] = <<"failed">>[i]
          BY <2>1, ConcatProperties, LenProperties
        <5>3. Len(<<"failed">>) = 1 /\ <<"failed">>[1] = "failed" /\ Len(<<"ok">>) = 1 /\ <<"ok">>[1] = "ok"
          OBVIOUS
        <5>4. Len(r \o <<"failed">>) = Len(r) + 1 /\ (r \o <<"failed">>)[Len(r) + 1] = "failed"
          BY <5>2, <5>3
        <5> SUFFICES ASSUME r \o <<"failed">> = <<"ok">> PROVE FALSE
          BY <4>3, <5>1
        <5>5. Len(r) + 1 = 1 /\ <<"ok">>[Len(r) + 1] = "failed"
          BY <5>3, <5>4, Zenon
        <5>6. Len(r) = 0
          BY <5>2, <5>5
        <5> QED
          BY <5>3, <5>5, <5>6
      <4> QED
        BY <2>1, <3>1, <4>1, <4>2, <4>3, <4>4, <4>5
    <3>2. CASE p \in Taken(xs)
      <4>1. results'[p] = results[p] \o <<>> \o <<"ok">> /\ p \notin FailedIn(xs)
        BY <1>5, <2>5, <3>2
      <4>2. results'[p] = results[p] \o <<"ok">>
        BY <2>2, <2>3, <4>1
      <4> QED
        BY <2>1, <2>2, <2>3, <2>4, <3>2, <4>1, <4>2
    <3>3. CASE p \notin FailedIn(xs) \cup Taken(xs)
      <4>1. results'[p] = results[p] \o <<>> \o <<>>
        BY <2>5, <3>3
      <4> QED
        BY <2>2, <2>3, <3>3, <4>1
    <3> QED
      BY <3>1, <3>2, <3>3
  <2>7. results' = [p \in PhotosOf(albumCase) |-> results'[p]]
    BY <1>1, <1>8
  <2> QED
    BY <2>6, <2>7 DEF S
<1> QED
  BY <1>1, <1>7, <1>9 DEF xs, again, seen

LEMMA SendKeeps ==
    ASSUME AlbumInv, SendBatch
    PROVE  AlbumInv'
<1> DEFINE n == CreateBatch
           batch == SubSeq(payloads, 1, n)
           rest == SubSeq(payloads, n + 1, Len(payloads))
           xs == ToSet(batch)
           taken == Taken(xs)
           ys == ToSet(LookedAt(batch))
           told == Taken(ys)
           effect == IF albumCase.op = "add" THEN PostAddMultiple(ToSet(batch)) ELSE PutTransferMultiple(ToSet(batch))
<1>1. /\ stage \in {"work", "saving"} /\ Transfers /\ SameVolume /\ payloads' = rest
      /\ UNCHANGED <<albumCase, needs, deleted, otherQueue, meanwhile>>
  BY DEF SendBatch
<1>2. AlbumTypes /\ OnceEach(sameQueue) /\ OnceEach(otherQueue) /\ OnceEach(payloads)
      /\ PhotosIn(sameQueue) \cap PhotosIn(otherQueue) = {}
      /\ PhotosIn(payloads) \cap (PhotosIn(sameQueue) \cup PhotosIn(otherQueue)) = {}
      /\ InFlight = PhotosIn(sameQueue) \cup PhotosIn(otherQueue) \cup PhotosIn(payloads)
  BY DEF AlbumInv, FlightInv, InFlight, Waiting
<1>3. n \in 1 .. Len(payloads) /\ (\A i \in 1 .. n : ~Foreign(payloads[i].photo)) /\ (n = 1 \/ Load(n) <= BatchLimit)
  BY <1>1, <1>2, BatchIs
<1>4. \/ effect /\ Settle(batch) /\ UNCHANGED albumFaults
      \/ /\ albumFaults' = albumFaults + 1 /\ stage' = "thrown" /\ (effect \/ UNCHANGED AlbumServer)
         /\ UNCHANGED <<retried, sameQueue, results, view>>
  <2>1. ~(n > 1 /\ ~(Load(n) <= BatchLimit))
    BY <1>3
  <2> QED
    BY <2>1, Zenon DEF SendBatch
<1>5. n \in 0 .. Len(payloads)
  BY <1>3
<1> HIDE DEF n
<1>6. /\ OnceEach(batch) /\ OnceEach(rest) /\ PhotosIn(batch) \cup PhotosIn(rest) = PhotosIn(payloads)
      /\ PhotosIn(batch) \cap PhotosIn(rest) = {} /\ Len(batch) = n /\ \A i \in 1 .. n : batch[i] = payloads[i]
  BY <1>2, <1>5, OnceSplit
<1> HIDE DEF batch, rest
<1>7. \A p \in PhotosIn(batch) : ~Foreign(p)
  <2>1. PhotosIn(batch) = {batch[i].photo : i \in 1 .. n}
    BY <1>6, ListIs
  <2> QED
    BY <1>3, <1>6, <2>1
<1> DEFINE again == {x.photo : x \in Again(ys)}
           done == FailedIn(ys) \cup told
<1>s. /\ OnceEach(LookedAt(batch)) /\ PhotosIn(LookedAt(batch)) \subseteq PhotosIn(batch) /\ ys \subseteq xs
      /\ LookedAt(batch) = batch \/ (stage = "saving" /\ FailedIn(ys) # {})
  BY <1>6, SeenIs
<1>t. taken \subseteq PhotosIn(batch)
  BY <1>6, AnswersSplit
<1>u. told \subseteq taken /\ (LookedAt(batch) = batch => told = taken)
  BY <1>s DEF Taken
<1>8. done \cup again = PhotosIn(LookedAt(batch)) /\ FailedIn(ys) \cap told = {} /\ again \cap done = {}
  BY <1>s, AnswersSplit
<1> HIDE DEF xs, ys
<1>9. taken \subseteq PhotosIn(batch) /\ PhotosIn(batch) \subseteq InFlight /\ done \subseteq InFlight
      /\ again \subseteq PhotosIn(batch) /\ done \subseteq PhotosIn(batch)
  BY <1>2, <1>6, <1>8, <1>s, <1>t
<1>v. albumCase.op # "delete" => LookedAt(batch) = batch
  BY <1>s DEF AlbumInv, StageInv
<1>10. \A p \in InFlight : p \in PhotosOf(albumCase) /\ copies[p] = 0 /\ (albumCase.op # "delete" => results[p] = <<>>)
  BY InFlightIs
<1>11. effect => /\ UNCHANGED <<copies, albumGone, tags>>
                 /\ albumCase.op = "add" => inAlbum' = inAlbum \cup taken /\ inTimeline' = inTimeline
                 /\ albumCase.op # "add" => inAlbum' = inAlbum /\ inTimeline' = inTimeline \cup taken
  BY DEF PostAddMultiple, PutTransferMultiple, xs
<1>12. /\ UNCHANGED <<copies, albumGone, tags>>
       /\ inAlbum \subseteq inAlbum' /\ inTimeline \subseteq inTimeline'
       /\ inAlbum' \subseteq inAlbum \cup taken /\ inTimeline' \subseteq inTimeline \cup taken
       /\ albumCase.op # "add" => inAlbum' = inAlbum
  <2>1. CASE effect
    BY <1>11, <2>1
  <2>2. CASE UNCHANGED AlbumServer
    BY <2>2 DEF AlbumServer
  <2> QED
    BY <1>4, <2>1, <2>2
<1> HIDE DEF effect
<1>13. PhotosOf(albumCase)' = PhotosOf(albumCase) /\ albumCase.op \in {"add", "save", "delete"}
  BY <1>1 DEF PhotosOf, Transfers
<1>14. <<"ok">> # <<"failed">> /\ <<"ok">> # <<>>
  OBVIOUS
<1>15. /\ inAlbum' \subseteq PhotosOf(albumCase) /\ inTimeline' \subseteq PhotosOf(albumCase)
       /\ copies' \in [PhotosOf(albumCase) -> {0, 1}] /\ DOMAIN needs' = DOMAIN needs /\ DOMAIN tags' = DOMAIN tags
       /\ UNCHANGED <<albumCase, deleted, albumGone>>
  BY <1>1, <1>2, <1>9, <1>10, <1>12 DEF AlbumTypes
<1>16. albumCase.op = "delete" => otherQueue' = <<>>
  BY <1>1 DEF AlbumInv, StageInv
<1>17. InFlight' = PhotosIn(sameQueue') \cup PhotosIn(otherQueue) \cup PhotosIn(rest)
  BY <1>1 DEF InFlight, Waiting
<1>18. DeletedAlbumIsSaved'
  BY <1>1, <1>12, <1>13 DEF AlbumInv, StageInv, DeletedAlbumIsSaved
<1>19. CASE effect /\ Settle(batch) /\ UNCHANGED albumFaults
  <2>1. /\ OnceEach(sameQueue') /\ PhotosIn(sameQueue') = PhotosIn(sameQueue) \cup again
        /\ retried' = retried \cup again
        /\ results' \in [PhotosOf(albumCase) -> Seq({"ok", "failed"})]
        /\ \A p \in PhotosOf(albumCase) :
              /\ p \notin FailedIn(ys) \cup told => results'[p] = results[p]
              /\ results[p] = <<>> /\ p \in FailedIn(ys) => results'[p] = <<"failed">>
              /\ results[p] = <<>> /\ p \in told => results'[p] = <<"ok">>
        /\ view' = Changed(told)
        /\ stage' = IF stage = "saving" /\ FailedIn(ys) # {} THEN "thrown" ELSE stage
    <3>1. PhotosIn(batch) \cap PhotosIn(sameQueue) = {} /\ PhotosIn(batch) \subseteq PhotosOf(albumCase)
      BY <1>2, <1>6, <1>9, <1>10
    <3> QED
      BY <1>2, <1>6, <1>19, <3>1, SettledAre DEF ys
  <2>w. stage' \in {stage, "thrown"} /\ (stage' = "thrown" \/ LookedAt(batch) = batch)
        /\ (stage' = "thrown" /\ stage # "thrown" => stage = "saving")
    BY <1>s, <2>1
  <2> HIDE DEF again, told
  <2>2. /\ PhotosIn(sameQueue') \cap PhotosIn(otherQueue') = {}
        /\ PhotosIn(payloads') \cap (PhotosIn(sameQueue') \cup PhotosIn(otherQueue')) = {}
        /\ InFlight' \subseteq InFlight \ done
        /\ stage' = "thrown" \/ InFlight \ done \subseteq InFlight'
        /\ OnceEach(otherQueue') /\ OnceEach(payloads')
    BY <1>1, <1>2, <1>6, <1>8, <1>9, <1>17, <2>1, <2>w
  <2>3. /\ \A p \in PhotosOf(albumCase) \ done : results'[p] = results[p]
        /\ albumCase.op # "delete" => \A p \in FailedIn(ys) : results'[p] = <<"failed">>
        /\ albumCase.op # "delete" => \A p \in told : results'[p] = <<"ok">>
    BY <1>9, <1>10, <2>1
  <2>4. /\ view' = [p \in PhotosOf(albumCase) |-> view'[p]]
        /\ \A p \in PhotosOf(albumCase) :
              /\ ViewShape(view'[p])
              /\ p \notin told => view'[p] = view[p]
              /\ p \in told => ~view'[p].fresh
    BY <1>2, <2>1, ChangedIs
  <2>5. AlbumTypes' /\ StageInv' /\ FlightInv' /\ ResultInv' /\ TagInv'
    <3>1. stage' \in {stage, "thrown"} /\ (stage' = "thrown" => albumCase.op = "delete" \/ albumFaults' > 0)
      BY <1>1, <2>1, <2>w DEF AlbumInv, StageInv
    <3>2. albumCase.op # "delete" =>
            \A p \in PhotosOf(albumCase) :
               IF p \in done THEN results'[p] \in {<<"ok">>, <<"failed">>} ELSE results'[p] = results[p]
      BY <2>3
    <3>3. retried' \subseteq PhotosOf(albumCase) /\ albumFaults' \in {albumFaults, albumFaults + 1}
      BY <1>2, <1>8, <1>9, <1>10, <1>19, <2>1 DEF AlbumTypes
    <3> QED
      BY <1>1, <1>9, <1>15, <1>16, <2>1, <2>2, <2>4, <3>1, <3>2, <3>3, TransferStep
  <2>6. CopyInv'
    <3>1. stage # "begin" /\ stage' # "begin" /\ InFlight' \subseteq InFlight /\ albumCase' = albumCase
          /\ (albumFaults' = 0 => albumFaults = 0)
      BY <1>1, <1>19, <2>w, <2>2
    <3>2. \A p \in PhotosOf(albumCase) : (copies'[p] = copies[p] /\ results'[p] = results[p]) \/ copies'[p] = 0
      BY <1>9, <1>10, <1>12, <2>3
    <3> QED
      BY <3>1, <3>2, CopiesKeep
  <2>7. \A p \in PhotosOf(albumCase) :
          results'[p] = <<"ok">> /\ albumCase.op # "delete" => p \in taken \/ (results[p] = <<"ok">> /\ p \notin taken)
    BY <1>9, <1>10, <1>14, <1>u, <1>v, <2>3
  <2>8. DoneInv'
    <3> SUFFICES ASSUME albumCase.op # "delete", NEW p \in PhotosOf(albumCase), results'[p] = <<"ok">>, p \notin deleted
                 PROVE  Done(p)'
      BY <1>1, <1>13 DEF DoneInv, Done
    <3>1. CASE p \in taken
      <4>1. ~Foreign(p) /\ (albumCase.op = "add" => p \in inAlbum') /\ (albumCase.op = "save" => p \in inTimeline')
        BY <1>7, <1>9, <1>11, <1>19, <3>1
      <4> QED
        BY <1>1, <1>13, <4>1 DEF Done, Foreign
    <3>2. CASE p \notin taken
      <4>1. Done(p)
        BY <1>13, <2>7, <3>2 DEF AlbumInv, DoneInv
      <4> QED
        BY <1>1, <1>12, <1>13, <4>1 DEF Done, Foreign
    <3> QED
      BY <3>1, <3>2
  <2>9. ViewInv'
    <3> SUFFICES ASSUME albumCase.op # "delete", NEW p \in PhotosOf(albumCase), results'[p] = <<"ok">>, view'[p].fresh,
                        p \notin deleted
                 PROVE  view'[p].parent = ParentOf(p)' \/ Foreign(p)
      BY <1>1, <1>13 DEF ViewInv, Foreign
    <3>1. p \notin taken /\ results[p] = <<"ok">> /\ view'[p] = view[p]
      BY <1>u, <1>v, <2>4, <2>7
    <3>2. ParentOf(p)' = ParentOf(p)
      BY <1>12, <3>1 DEF ParentOf
    <3> QED
      BY <3>1, <3>2 DEF AlbumInv, ViewInv
  <2> QED
    BY <1>18, <2>5, <2>6, <2>8, <2>9 DEF AlbumInv
<1>20. CASE /\ albumFaults' = albumFaults + 1 /\ stage' = "thrown" /\ (effect \/ UNCHANGED AlbumServer)
            /\ UNCHANGED <<retried, sameQueue, results, view>>
  <2>1. /\ PhotosIn(sameQueue') \cap PhotosIn(otherQueue') = {}
        /\ PhotosIn(payloads') \cap (PhotosIn(sameQueue') \cup PhotosIn(otherQueue')) = {}
        /\ InFlight' \subseteq InFlight
        /\ OnceEach(otherQueue') /\ OnceEach(payloads') /\ OnceEach(sameQueue')
    BY <1>1, <1>2, <1>6, <1>17, <1>20
  <2>2. albumFaults' > 0 /\ albumFaults' \in {albumFaults, albumFaults + 1} /\ (albumFaults' = 0 => albumFaults = 0)
    BY <1>2, <1>20 DEF AlbumTypes
  <2>3. AlbumTypes' /\ StageInv' /\ FlightInv' /\ ResultInv' /\ TagInv'
    <3>1. stage' \in {stage, "thrown"} /\ InFlight' \subseteq InFlight \ {} /\ {} \subseteq InFlight
      BY <1>20, <2>1
    <3>2. albumCase.op # "delete" =>
            \A p \in PhotosOf(albumCase) :
               IF p \in {} THEN results'[p] \in {<<"ok">>, <<"failed">>} ELSE results'[p] = results[p]
      BY <1>20
    <3>3. /\ view' = [p \in PhotosOf(albumCase) |-> view'[p]] /\ (\A p \in PhotosOf(albumCase) : ViewShape(view'[p]))
          /\ results' \in [PhotosOf(albumCase) -> Seq({"ok", "failed"})] /\ retried' \subseteq PhotosOf(albumCase)
      BY <1>2, <1>20 DEF AlbumTypes
    <3> QED
      BY <1>1, <1>15, <1>16, <1>20, <2>1, <2>2, <3>1, <3>2, <3>3, TransferStep
  <2>4. CopyInv'
    <3>1. stage # "begin" /\ stage' # "begin" /\ albumCase' = albumCase
      BY <1>1, <1>20
    <3>2. \A p \in PhotosOf(albumCase) : (copies'[p] = copies[p] /\ results'[p] = results[p]) \/ copies'[p] = 0
      BY <1>12, <1>20
    <3> QED
      BY <2>1, <2>2, <3>1, <3>2, CopiesKeep
  <2>5. \A p \in PhotosOf(albumCase) : results[p] = <<"ok">> /\ albumCase.op # "delete" => p \notin taken
    BY <1>9, <1>10, <1>14
  <2>6. DoneInv'
    <3> SUFFICES ASSUME albumCase.op # "delete", NEW p \in PhotosOf(albumCase), results[p] = <<"ok">>, p \notin deleted
                 PROVE  Done(p)'
      BY <1>1, <1>13, <1>20 DEF DoneInv, Done
    <3>1. Done(p)
      BY <1>13 DEF AlbumInv, DoneInv
    <3> QED
      BY <1>1, <1>12, <1>13, <3>1 DEF Done, Foreign
  <2>7. ViewInv'
    <3> SUFFICES ASSUME albumCase.op # "delete", NEW p \in PhotosOf(albumCase), results[p] = <<"ok">>, view[p].fresh,
                        p \notin deleted
                 PROVE  view[p].parent = ParentOf(p)' \/ Foreign(p)
      BY <1>1, <1>13, <1>20 DEF ViewInv, Foreign
    <3>1. ParentOf(p)' = ParentOf(p)
      BY <1>12, <2>5 DEF ParentOf
    <3> QED
      BY <3>1 DEF AlbumInv, ViewInv
  <2> QED
    BY <1>18, <2>3, <2>4, <2>6, <2>7 DEF AlbumInv
<1> QED
  BY <1>4, <1>19, <1>20

\* What becomes of a photo of another volume.
LEMMA CopyIs ==
    ASSUME AlbumTypes, CopyPhoto, NEW x, x = payloads[1], NEW p, p = x.photo, p \in PhotosOf(albumCase),
           copies[p] = 0, results[p] = <<>>
    PROVE  /\ \A q \in PhotosOf(albumCase) \ {p} : copies'[q] = copies[q] /\ results'[q] = results[q]
           /\ copies' \in [PhotosOf(albumCase) -> {0, 1}]
           /\ results' \in [PhotosOf(albumCase) -> Seq({"ok", "failed"})]
           /\ \/ /\ copies'[p] = 0 /\ results' = results /\ retried' = retried \cup {p} /\ albumFaults' = albumFaults
                 /\ \E y : y.photo = p /\ IF albumCase.op = "add"
                                            THEN otherQueue' = Append(otherQueue, y) /\ sameQueue' = sameQueue
                                            ELSE sameQueue' = Append(sameQueue, y) /\ otherQueue' = otherQueue
              \/ /\ UNCHANGED <<retried, sameQueue, otherQueue>>
                 /\ \/ albumFaults' = albumFaults /\ copies'[p] = 1 /\ results'[p] = <<"ok">>
                    \/ albumFaults' = albumFaults /\ copies'[p] = 0 /\ results'[p] = <<"failed">>
                    \/ albumFaults' = albumFaults + 1 /\ results'[p] = <<"failed">>
<1> DEFINE ok == Answer(x) = "ok"
<1>1. /\ PostCopy(x) \/ UNCHANGED AlbumServer
      /\ \/ /\ PostCopy(x) /\ Answer(x) = "missing" /\ retried' = retried \cup {p} /\ UNCHANGED <<results, albumFaults>>
            /\ IF albumCase.op = "add"
                 THEN otherQueue' = Append(otherQueue, RetryItem(x)) /\ UNCHANGED sameQueue
                 ELSE sameQueue' = Append(sameQueue, RetryItem(x)) /\ UNCHANGED otherQueue
         \/ /\ PostCopy(x) /\ UNCHANGED <<retried, sameQueue, otherQueue, albumFaults>>
            /\ results' = Report({p}, IF Answer(x) = "ok" THEN "ok" ELSE "failed")
         \/ /\ UNCHANGED <<retried, sameQueue, otherQueue>> /\ albumFaults' = albumFaults + 1
            /\ results' = Report({p}, "failed")
  BY Zenon DEF CopyPhoto
<1>2. ASSUME PostCopy(x)
      PROVE  /\ \A q \in PhotosOf(albumCase) \ {p} : copies'[q] = copies[q]
             /\ copies'[p] = (IF ok THEN 1 ELSE 0) /\ copies' \in [PhotosOf(albumCase) -> {0, 1}]
  <2>1. copies' = [copies EXCEPT ![p] = IF ok THEN @ + 1 ELSE @]
    BY <1>2 DEF PostCopy
  <2> HIDE DEF ok
  <2> QED
    BY <2>1 DEF AlbumTypes
<1>3. ASSUME UNCHANGED AlbumServer
      PROVE  copies' = copies
  BY <1>3 DEF AlbumServer
<1>4. /\ \A q \in PhotosOf(albumCase) \ {p} : copies'[q] = copies[q]
      /\ copies' \in [PhotosOf(albumCase) -> {0, 1}]
  BY <1>1, <1>2, <1>3 DEF AlbumTypes
<1>5. ASSUME NEW word \in {"ok", "failed"}, results' = Report({p}, word)
      PROVE  /\ results' \in [PhotosOf(albumCase) -> Seq({"ok", "failed"})] /\ results'[p] = <<word>>
             /\ \A q \in PhotosOf(albumCase) \ {p} : results'[q] = results[q]
  <2>1. /\ Report({p}, word) \in [PhotosOf(albumCase) -> Seq({"ok", "failed"})]
        /\ \A q \in PhotosOf(albumCase) :
              /\ q \notin {p} => Report({p}, word)[q] = results[q]
              /\ q \in {p} /\ results[q] = <<>> => Report({p}, word)[q] = <<word>>
    BY ReportIs
  <2> QED
    BY <1>5, <2>1
<1>6. RetryItem(x).photo = p
  BY DEF RetryItem
<1>7. CASE /\ PostCopy(x) /\ Answer(x) = "missing" /\ retried' = retried \cup {p} /\ UNCHANGED <<results, albumFaults>>
           /\ IF albumCase.op = "add"
                THEN otherQueue' = Append(otherQueue, RetryItem(x)) /\ UNCHANGED sameQueue
                ELSE sameQueue' = Append(sameQueue, RetryItem(x)) /\ UNCHANGED otherQueue
  <2>1. copies'[p] = 0
    BY <1>2, <1>7
  <2>2. \E y : y.photo = p /\ IF albumCase.op = "add"
                                THEN otherQueue' = Append(otherQueue, y) /\ sameQueue' = sameQueue
                                ELSE sameQueue' = Append(sameQueue, y) /\ otherQueue' = otherQueue
    BY <1>6, <1>7
  <2> QED
    BY <1>4, <1>7, <2>1, <2>2 DEF AlbumTypes
<1>8. CASE /\ PostCopy(x) /\ UNCHANGED <<retried, sameQueue, otherQueue, albumFaults>>
           /\ results' = Report({p}, IF Answer(x) = "ok" THEN "ok" ELSE "failed")
  <2>1. CASE ok
    <3>1. results' = Report({p}, "ok") /\ copies'[p] = 1
      BY <1>2, <1>8, <2>1
    <3> QED
      BY <1>4, <1>5, <1>8, <3>1
  <2>2. CASE ~ok
    <3>1. results' = Report({p}, "failed") /\ copies'[p] = 0
      BY <1>2, <1>8, <2>2
    <3> QED
      BY <1>4, <1>5, <1>8, <3>1
  <2> QED
    BY <2>1, <2>2
<1>9. CASE /\ UNCHANGED <<retried, sameQueue, otherQueue>> /\ albumFaults' = albumFaults + 1
           /\ results' = Report({p}, "failed")
  BY <1>4, <1>5, <1>9
<1> QED
  BY <1>1, <1>7, <1>8, <1>9

LEMMA CopyPhotoKeeps ==
    ASSUME AlbumInv, CopyPhoto
    PROVE  AlbumInv'
<1>1. /\ stage = "work" /\ Transfers /\ payloads # <<>> /\ ~SameVolume /\ payloads' = Tail(payloads)
      /\ UNCHANGED <<albumCase, stage, needs, deleted, view, meanwhile>>
  BY DEF CopyPhoto
<1>2. AlbumTypes /\ OnceEach(sameQueue) /\ OnceEach(otherQueue) /\ OnceEach(payloads)
      /\ PhotosIn(sameQueue) \cap PhotosIn(otherQueue) = {}
      /\ PhotosIn(payloads) \cap (PhotosIn(sameQueue) \cup PhotosIn(otherQueue)) = {}
      /\ InFlight = PhotosIn(sameQueue) \cup PhotosIn(otherQueue) \cup PhotosIn(payloads)
  BY DEF AlbumInv, FlightInv, InFlight, Waiting
<1>3. UNCHANGED <<inAlbum, inTimeline, albumGone, tags>>
  BY DEF CopyPhoto, PostCopy, AlbumServer
<1>4. albumCase.op \in {"add", "save"}
  BY <1>1 DEF Transfers, AlbumInv, StageInv
<1>5. PICK x : x = payloads[1]
  OBVIOUS
<1>6. PICK p : p = x.photo
  OBVIOUS
<1>7. /\ OnceEach(payloads') /\ PhotosIn(payloads') = PhotosIn(payloads) \ {p} /\ p \in PhotosIn(payloads)
  BY <1>1, <1>2, <1>5, <1>6, OnceTail
<1>8. Foreign(p) /\ p \in InFlight /\ p \in PhotosOf(albumCase) /\ copies[p] = 0 /\ results[p] = <<>>
      /\ p \in Asked
  <2>1. p \in InFlight
    BY <1>2, <1>7
  <2>2. p \in PhotosOf(albumCase) /\ copies[p] = 0 /\ results[p] = <<>>
    BY <1>4, <2>1, InFlightIs
  <2>3. p \in Asked
    BY <1>4, <2>1 DEF AlbumInv, FlightInv
  <2> QED
    BY <1>1, <1>5, <1>6, <2>1, <2>2, <2>3 DEF SameVolume
<1>9. /\ \A q \in PhotosOf(albumCase) \ {p} : copies'[q] = copies[q] /\ results'[q] = results[q]
      /\ copies' \in [PhotosOf(albumCase) -> {0, 1}]
      /\ results' \in [PhotosOf(albumCase) -> Seq({"ok", "failed"})]
      /\ \/ /\ copies'[p] = 0 /\ results' = results /\ retried' = retried \cup {p} /\ albumFaults' = albumFaults
            /\ \E y : y.photo = p /\ IF albumCase.op = "add"
                                       THEN otherQueue' = Append(otherQueue, y) /\ sameQueue' = sameQueue
                                       ELSE sameQueue' = Append(sameQueue, y) /\ otherQueue' = otherQueue
         \/ /\ UNCHANGED <<retried, sameQueue, otherQueue>>
            /\ \/ albumFaults' = albumFaults /\ copies'[p] = 1 /\ results'[p] = <<"ok">>
               \/ albumFaults' = albumFaults /\ copies'[p] = 0 /\ results'[p] = <<"failed">>
               \/ albumFaults' = albumFaults + 1 /\ results'[p] = <<"failed">>
  BY <1>2, <1>5, <1>6, <1>8, CopyIs
<1>10. PhotosOf(albumCase)' = PhotosOf(albumCase) /\ Asked' = Asked
  BY <1>1 DEF PhotosOf, Asked
<1>11. <<"ok">> # <<"failed">> /\ <<"ok">> # <<>> /\ <<"failed">> # <<>>
  OBVIOUS
<1>12. InFlight' = PhotosIn(sameQueue') \cup PhotosIn(otherQueue') \cup PhotosIn(payloads')
  BY DEF InFlight, Waiting
<1>13. /\ albumFaults' \in {albumFaults, albumFaults + 1} /\ (albumFaults' = 0 => albumFaults = 0)
       /\ retried' \subseteq PhotosOf(albumCase)
       /\ view' = [q \in PhotosOf(albumCase) |-> view'[q]] /\ (\A q \in PhotosOf(albumCase) : ViewShape(view'[q]))
       /\ inAlbum' \subseteq PhotosOf(albumCase) /\ inTimeline' \subseteq PhotosOf(albumCase)
       /\ DOMAIN needs' = DOMAIN needs /\ DOMAIN tags' = DOMAIN tags /\ UNCHANGED <<albumCase, deleted, albumGone>>
  <2>1. albumFaults' = albumFaults \/ albumFaults' = albumFaults + 1
    BY <1>9
  <2>2. retried' \subseteq PhotosOf(albumCase)
    BY <1>2, <1>8, <1>9 DEF AlbumTypes
  <2> QED
    BY <1>1, <1>2, <1>3, <2>1, <2>2 DEF AlbumTypes
<1>14. \E done : /\ done \in {{}, {p}} /\ (p \notin done => results' = results /\ copies'[p] = 0)
                 /\ (p \in done => results'[p] \in {<<"ok">>, <<"failed">>})
                 /\ InFlight' = InFlight \ done
                 /\ OnceEach(sameQueue') /\ OnceEach(otherQueue')
                 /\ PhotosIn(sameQueue') \cap PhotosIn(otherQueue') = {}
                 /\ PhotosIn(payloads') \cap (PhotosIn(sameQueue') \cup PhotosIn(otherQueue')) = {}
  <2>1. CASE /\ copies'[p] = 0 /\ results' = results
             /\ \E y : y.photo = p /\ IF albumCase.op = "add"
                                        THEN otherQueue' = Append(otherQueue, y) /\ sameQueue' = sameQueue
                                        ELSE sameQueue' = Append(sameQueue, y) /\ otherQueue' = otherQueue
    <3>1. PICK y : y.photo = p /\ IF albumCase.op = "add"
                                    THEN otherQueue' = Append(otherQueue, y) /\ sameQueue' = sameQueue
                                    ELSE sameQueue' = Append(sameQueue, y) /\ otherQueue' = otherQueue
      BY <2>1
    <3>2. p \notin PhotosIn(sameQueue) /\ p \notin PhotosIn(otherQueue)
      BY <1>2, <1>7
    <3>3. /\ OnceEach(Append(otherQueue, y)) /\ PhotosIn(Append(otherQueue, y)) = PhotosIn(otherQueue) \cup {p}
          /\ OnceEach(Append(sameQueue, y)) /\ PhotosIn(Append(sameQueue, y)) = PhotosIn(sameQueue) \cup {p}
      BY <1>2, <3>1, <3>2, OnceAppend
    <3>4. /\ OnceEach(sameQueue') /\ OnceEach(otherQueue')
          /\ PhotosIn(sameQueue') \cap PhotosIn(otherQueue') = {}
          /\ PhotosIn(sameQueue') \cup PhotosIn(otherQueue') = PhotosIn(sameQueue) \cup PhotosIn(otherQueue) \cup {p}
      BY <1>2, <3>1, <3>2, <3>3
    <3>5. InFlight' = InFlight \ {} /\ PhotosIn(payloads') \cap (PhotosIn(sameQueue') \cup PhotosIn(otherQueue')) = {}
      BY <1>2, <1>7, <1>12, <3>4
    <3> QED
      BY <2>1, <3>4, <3>5
  <2>2. CASE UNCHANGED <<retried, sameQueue, otherQueue>> /\ results'[p] \in {<<"ok">>, <<"failed">>}
    <3>1. /\ OnceEach(sameQueue') /\ OnceEach(otherQueue')
          /\ PhotosIn(sameQueue') \cap PhotosIn(otherQueue') = {}
          /\ PhotosIn(payloads') \cap (PhotosIn(sameQueue') \cup PhotosIn(otherQueue')) = {}
          /\ InFlight' = InFlight \ {p}
      BY <1>2, <1>7, <1>12, <2>2
    <3> QED
      BY <2>2, <3>1
  <2> QED
    BY <1>9, <2>1, <2>2
<1>15. PICK done : /\ done \in {{}, {p}} /\ (p \notin done => results' = results /\ copies'[p] = 0)
                   /\ (p \in done => results'[p] \in {<<"ok">>, <<"failed">>})
                   /\ InFlight' = InFlight \ done
                   /\ OnceEach(sameQueue') /\ OnceEach(otherQueue')
                   /\ PhotosIn(sameQueue') \cap PhotosIn(otherQueue') = {}
                   /\ PhotosIn(payloads') \cap (PhotosIn(sameQueue') \cup PhotosIn(otherQueue')) = {}
  BY <1>14
<1>16. AlbumTypes' /\ StageInv' /\ FlightInv' /\ ResultInv' /\ TagInv'
  <2>1. \A q \in PhotosOf(albumCase) :
          IF q \in done THEN results'[q] \in {<<"ok">>, <<"failed">>} ELSE results'[q] = results[q]
    BY <1>9, <1>15
  <2>2. stage \in {"work", "saving"} /\ stage' \in {stage, "thrown"} /\ stage' # "thrown" /\ done \subseteq InFlight
        /\ InFlight' \subseteq InFlight \ done /\ InFlight \ done \subseteq InFlight' /\ albumCase.op # "delete"
    BY <1>1, <1>4, <1>8, <1>15
  <2> QED
    BY <1>1, <1>7, <1>9, <1>13, <1>15, <2>1, <2>2, TransferStep
<1>17. CopyInv'
  <2>1. stage # "begin" /\ stage' # "begin" /\ InFlight' \subseteq InFlight /\ albumCase' = albumCase
    BY <1>1, <1>15
  <2>2. ASSUME NEW q \in PhotosOf(albumCase)
        PROVE  \/ copies'[q] = copies[q] /\ results'[q] = results[q]
               \/ copies'[q] = 0
               \/ q \in Asked \ InFlight' /\ (results'[q] = <<"failed">> /\ albumFaults' = 0 => copies'[q] = 0)
    <3>1. CASE q # p
      BY <1>9, <3>1
    <3>2. CASE q = p /\ p \notin done
      BY <1>15, <3>2
    <3>3. CASE q = p /\ p \in done
      <4>1. q \in Asked \ InFlight'
        BY <1>8, <1>15, <3>3
      <4>2. albumFaults' = albumFaults + 1 => albumFaults' # 0
        BY <1>2 DEF AlbumTypes
      <4>3. results'[p] = <<"failed">> /\ albumFaults' = 0 => copies'[p] = 0
        BY <1>9, <1>11, <4>2
      <4> QED
        BY <3>3, <4>1, <4>3
    <3> QED
      BY <3>1, <3>2, <3>3
  <2> QED
    BY <1>13, <2>1, <2>2, CopiesKeep
<1>18. DoneInv'
  <2> SUFFICES ASSUME NEW q \in PhotosOf(albumCase), results'[q] = <<"ok">>, q \notin deleted
               PROVE  Done(q)'
    BY <1>1, <1>10 DEF DoneInv
  <2>1. CASE q # p
    <3>1. Done(q) /\ copies'[q] = copies[q]
      BY <1>4, <1>9, <2>1 DEF AlbumInv, DoneInv
    <3> QED
      BY <1>1, <1>3, <1>4, <3>1 DEF Done, Foreign
  <2>2. CASE q = p
    <3>1. copies'[p] = 1
      BY <1>8, <1>9, <1>11, <2>2
    <3> QED
      BY <1>1, <1>4, <1>8, <2>2, <3>1 DEF Done, Foreign
  <2> QED
    BY <2>1, <2>2
<1>19. ViewInv'
  <2> SUFFICES ASSUME NEW q \in PhotosOf(albumCase), results'[q] = <<"ok">>, view[q].fresh,
                      q \notin deleted
               PROVE  view[q].parent = ParentOf(q)' \/ Foreign(q)
    BY <1>1, <1>4, <1>10 DEF ViewInv, Foreign
  <2>1. CASE q # p
    <3>1. results[q] = <<"ok">> /\ ParentOf(q)' = ParentOf(q)
      BY <1>3, <1>9, <2>1 DEF ParentOf
    <3> QED
      BY <1>4, <3>1 DEF AlbumInv, ViewInv
  <2>2. CASE q = p
    BY <1>8, <2>2
  <2> QED
    BY <2>1, <2>2
<1>20. DeletedAlbumIsSaved'
  BY <1>1, <1>3 DEF AlbumInv, DeletedAlbumIsSaved
<1> QED
  BY <1>16, <1>17, <1>18, <1>19, <1>20 DEF AlbumInv

\* Where photos of the timeline are cached while nothing has gone wrong, and those that
\* were saved for the deletion of the album.
SavedInv ==
    /\ (stage # "thrown" /\ albumFaults = 0) =>
          \A p \in inTimeline \ deleted :
              view[p].fresh => view[p].parent = "root" \/ (albumCase.op = "tag" /\ p \in PhotosIn(payloads))
    /\ albumCase.op = "delete" =>
          \A p \in PhotosOf(albumCase) \ deleted :
              results[p] = <<"ok">> => p \in inTimeline /\ (view[p].fresh => view[p].parent = "root")

LEMMA SavedStarts == PhotosInit => SavedInv
<1> SUFFICES ASSUME PhotosInit PROVE SavedInv
  OBVIOUS
<1>1. /\ inTimeline = albumCase.timeline /\ albumCase \in AlbumCases
      /\ view = [p \in PhotosOf(albumCase) |-> [Loaded(p) EXCEPT !.related = {}]]
      /\ results = [p \in PhotosOf(albumCase) |-> <<>>]
  BY DEF PhotosInit
<1>2. ASSUME NEW p \in inTimeline PROVE view[p].parent = "root"
  <2>1. p \in PhotosOf(albumCase)
    BY <1>1 DEF PhotosOf
  <2>2. view[p] = [[fresh |-> TRUE, parent |-> "root", related |-> needs[p]] EXCEPT !.related = {}]
    BY <1>1, <1>2, <2>1 DEF Loaded, ParentOf
  <2>3. PICK y : y = needs[p]
    OBVIOUS
  <2> QED
    BY <2>2, <2>3
<1>3. <<>> # <<"ok">>
  OBVIOUS
<1> QED
  BY <1>1, <1>2, <1>3 DEF SavedInv

\* What a step may do to the timeline and to the cache.
LEMMA SavedIf ==
    ASSUME AlbumInv, SavedInv, albumCase' = albumCase, deleted \subseteq deleted',
           albumFaults' = 0 => albumFaults = 0, stage = "thrown" => stage' = "thrown",
           inTimeline' \subseteq PhotosOf(albumCase),
           \A p \in PhotosOf(albumCase) \ deleted' :
              view'[p] = view[p] \/ ~view'[p].fresh \/ view'[p].parent = ParentOf(p)',
           stage' # "thrown" /\ albumFaults' = 0 =>
              /\ \A p \in inTimeline' \ deleted' :
                    p \in inTimeline \/ ~view'[p].fresh \/ (albumCase.op = "tag" /\ p \in PhotosIn(payloads'))
              /\ albumCase.op = "tag" =>
                    \A p \in PhotosIn(payloads) \ deleted' : p \in PhotosIn(payloads') \/ ~view'[p].fresh,
           albumCase.op = "delete" =>
              /\ inTimeline \ deleted' \subseteq inTimeline'
              /\ \A p \in PhotosOf(albumCase) \ deleted' :
                    results'[p] = <<"ok">> => results[p] = <<"ok">> \/ (p \in inTimeline' /\ ~view'[p].fresh)
    PROVE  SavedInv'
<1>1. PhotosOf(albumCase)' = PhotosOf(albumCase)
  BY DEF PhotosOf
<1>2. \A p \in inTimeline' : ParentOf(p)' = "root"
  BY DEF ParentOf
<1>3. ASSUME stage' # "thrown", albumFaults' = 0, NEW p \in inTimeline' \ deleted', view'[p].fresh
      PROVE  view'[p].parent = "root" \/ (albumCase.op = "tag" /\ p \in PhotosIn(payloads'))
  <2>1. CASE view'[p].parent = ParentOf(p)'
    BY <1>2, <1>3, <2>1
  <2>2. CASE view'[p] = view[p]
    <3>1. CASE p \in inTimeline
      <4>1. view[p].parent = "root" \/ (albumCase.op = "tag" /\ p \in PhotosIn(payloads))
        BY <1>3, <2>2, <3>1 DEF SavedInv
      <4> QED
        BY <1>3, <2>2, <4>1
    <3>2. CASE p \notin inTimeline
      BY <1>3, <3>2
    <3> QED
      BY <3>1, <3>2
  <2> QED
    BY <1>3, <2>1, <2>2
<1>4. ASSUME albumCase.op = "delete", NEW p \in PhotosOf(albumCase) \ deleted', results'[p] = <<"ok">>
      PROVE  p \in inTimeline' /\ (view'[p].fresh => view'[p].parent = "root")
  <2>1. CASE p \in inTimeline' /\ ~view'[p].fresh
    BY <2>1
  <2>2. CASE results[p] = <<"ok">>
    <3>1. p \in inTimeline /\ (view[p].fresh => view[p].parent = "root")
      BY <1>4, <2>2 DEF SavedInv
    <3> QED
      BY <1>2, <1>4, <3>1
  <2> QED
    BY <1>4, <2>1, <2>2
<1> QED
  BY <1>1, <1>3, <1>4 DEF SavedInv

\* Steps that leave the timeline, the results and the photo being updated alone.
LEMMA SavedStays ==
    ASSUME AlbumInv, SavedInv, UNCHANGED <<albumCase, inTimeline, deleted>>,
           albumFaults' = 0 => albumFaults = 0, stage = "thrown" => stage' = "thrown",
           albumCase.op = "tag" => payloads' = payloads \/ payloads = <<>>,
           albumCase.op = "delete" => \A p \in PhotosOf(albumCase) : results'[p] = <<"ok">> => results[p] = <<"ok">>,
           \A p \in PhotosOf(albumCase) \ deleted :
              view'[p] = view[p] \/ ~view'[p].fresh \/ view'[p].parent = ParentOf(p)'
    PROVE  SavedInv'
<1>1. inTimeline' \subseteq PhotosOf(albumCase)
  BY DEF AlbumInv, AlbumTypes
<1>2. albumCase.op = "tag" => PhotosIn(payloads) \subseteq PhotosIn(payloads')
  BY OnceEmpty
<1>3. SavedInv'
  BY <1>1, <1>2, SavedIf, Zenon
<1> QED
  BY <1>3

\* The results of photos that fail.
LEMMA FailedIsNotOk ==
    ASSUME AlbumTypes, NEW ps, NEW p \in PhotosOf(albumCase), Report(ps, "failed")[p] = <<"ok">>
    PROVE  results[p] = <<"ok">>
<1>1. AllPhotos = PhotosOf(albumCase)
  BY AlbumPhotos
<1>2. Report(ps, "failed")[p] = IF p \in ps THEN Append(results[p], "failed") ELSE results[p]
  BY <1>1 DEF Report
<1>3. PICK r \in Seq({"ok", "failed"}) : r = results[p]
  BY DEF AlbumTypes
<1>4. /\ Len(Append(r, "failed")) = Len(r) + 1 /\ Len(r) \in Nat
      /\ Append(r, "failed")[Len(r) + 1] = "failed"
  BY AppendProperties, LenProperties
<1>5. ASSUME Append(r, "failed") = <<"ok">> PROVE FALSE
  <2>1. Len(<<"ok">>) = 1 /\ <<"ok">>[1] = "ok"
    OBVIOUS
  <2>2. Len(r) + 1 = 1 /\ <<"ok">>[Len(r) + 1] = "failed"
    BY <1>4, <1>5, <2>1, Zenon
  <2>3. Len(r) = 0
    BY <1>4, <2>2
  <2> QED
    BY <2>1, <2>2, <2>3
<1> QED
  BY <1>2, <1>3, <1>5

LEMMA SavedMeanwhile ==
    ASSUME AlbumInv, SavedInv, NEW p \in AllPhotos,
           RelatedAppears(p) \/ PhotoDeleted(p) \/ AddedByOther(p) \/ NodeRead(p)
    PROVE  SavedInv'
<1>1. p \in PhotosOf(albumCase)
  BY AlbumPhotos DEF AlbumInv
<1>2. UNCHANGED <<albumCase, stage, payloads, results, albumFaults>>
  BY DEF RelatedAppears, PhotoDeleted, AddedByOther, NodeRead, Meanwhile, Queues
<1>3. CASE PhotoDeleted(p)
  <2>1. view' = view /\ deleted' = deleted \cup {p} /\ inTimeline' = inTimeline \ {p}
    BY <1>3 DEF PhotoDeleted, Meanwhile
  <2>2. inTimeline' \subseteq PhotosOf(albumCase)
    BY <2>1 DEF AlbumInv, AlbumTypes
  <2>3. SavedInv'
    BY <1>2, <2>1, <2>2, SavedIf
  <2> QED
    BY <2>3
<1>4. CASE RelatedAppears(p) \/ AddedByOther(p)
  <2>1. UNCHANGED <<view, deleted, inTimeline>>
    BY <1>4 DEF RelatedAppears, AddedByOther, Meanwhile
  <2> QED
    BY <1>2, <2>1, SavedStays
<1>5. CASE NodeRead(p)
  <2>1. UNCHANGED <<inAlbum, inTimeline, deleted>> /\ view' = [view EXCEPT ![p] = Loaded(p)]
    BY <1>5 DEF NodeRead, AlbumServer
  <2>2. PICK v : v = Loaded(p) /\ v.parent = ParentOf(p)
    <3>1. Loaded(p).parent = ParentOf(p)
      BY DEF Loaded
    <3> QED
      BY <3>1
  <2>3. ParentOf(p)' = ParentOf(p)
    BY <2>1 DEF ParentOf
  <2>4. \A q \in PhotosOf(albumCase) : view'[q] = IF q = p THEN v ELSE view[q]
    BY <2>1, <2>2 DEF AlbumInv, AlbumTypes
  <2>5. \A q \in PhotosOf(albumCase) : view'[q] = view[q] \/ view'[q].parent = ParentOf(q)'
    BY <2>2, <2>3, <2>4
  <2> QED
    BY <1>2, <2>1, <2>5, SavedStays
<1> QED
  BY <1>3, <1>4, <1>5

\* What is loaded for a transfer is where the server has it, or cached as it was.
LEMMA SavedPrepare ==
    ASSUME AlbumInv, SavedInv, PreparePhotoPayloads
    PROVE  SavedInv'
<1> DEFINE waits == IF sameQueue # <<>> THEN sameQueue ELSE otherQueue
           n == IF Len(waits) < LoadSize THEN Len(waits) ELSE LoadSize
           items == SubSeq(waits, 1, n)
           bad == {x.photo : x \in {y \in ToSet(items) : CannotPrepare(y.photo)}}
<1>1. /\ stage \in {"work", "saving"} /\ Transfers /\ Prepare(items)
      /\ UNCHANGED <<albumCase, AlbumServer, deleted, albumFaults>>
  BY DEF PreparePhotoPayloads
<1>2. UNCHANGED <<inAlbum, inTimeline>> /\ albumCase.op # "tag"
  BY <1>1 DEF AlbumServer, Transfers
<1> HIDE DEF items
<1>3. /\ results' = Report(bad, "failed")
      /\ view' = [p \in AllPhotos |-> IF p \in {x.photo : x \in ToSet(items)} \ deleted THEN Seen(p) ELSE view[p]]
  BY <1>1 DEF Prepare
<1> HIDE DEF bad
<1>4. AlbumTypes /\ AllPhotos = PhotosOf(albumCase)
  BY AlbumPhotos DEF AlbumInv
<1>5. \A p : Seen(p) = view[p] \/ Seen(p).parent = ParentOf(p)
  BY DEF Seen, Loaded
<1>6. \A p : ParentOf(p)' = ParentOf(p)
  BY <1>2 DEF ParentOf
<1>7. \A p \in PhotosOf(albumCase) : view'[p] = view[p] \/ view'[p].parent = ParentOf(p)'
  BY <1>3, <1>4, <1>5, <1>6
<1>8. \A p \in PhotosOf(albumCase) : results'[p] = <<"ok">> => results[p] = <<"ok">>
  BY <1>3, <1>4, FailedIsNotOk
<1>9. albumFaults' = albumFaults /\ stage # "thrown" /\ UNCHANGED <<albumCase, inTimeline, deleted>>
  BY <1>1, <1>2
<1> QED
  BY <1>2, <1>7, <1>8, <1>9, SavedStays

\* The photos of a batch that the server moved are marked as changed, unless the call
\* throws before they are looked at.
LEMMA SavedSend ==
    ASSUME AlbumInv, SavedInv, SendBatch
    PROVE  SavedInv'
<1> DEFINE n == CreateBatch
           batch == SubSeq(payloads, 1, n)
           xs == ToSet(batch)
           ys == ToSet(LookedAt(batch))
           effect == IF albumCase.op = "add" THEN PostAddMultiple(ToSet(batch)) ELSE PutTransferMultiple(ToSet(batch))
<1>1. /\ stage \in {"work", "saving"} /\ Transfers /\ SameVolume /\ UNCHANGED <<albumCase, deleted>>
  BY DEF SendBatch
<1>2. AlbumTypes /\ OnceEach(sameQueue) /\ OnceEach(payloads) /\ albumCase.op \in {"add", "save", "delete"}
      /\ PhotosIn(payloads) \cap PhotosIn(sameQueue) = {} /\ PhotosIn(payloads) \subseteq PhotosOf(albumCase)
  BY <1>1 DEF AlbumInv, FlightInv, InFlight, Waiting, Transfers
<1>3. n \in 1 .. Len(payloads) /\ (n = 1 \/ Load(n) <= BatchLimit)
  BY <1>1, <1>2, BatchIs
<1>4. \/ effect /\ Settle(batch) /\ UNCHANGED albumFaults
      \/ /\ albumFaults' = albumFaults + 1 /\ stage' = "thrown" /\ (effect \/ UNCHANGED AlbumServer)
         /\ UNCHANGED <<retried, sameQueue, results, view>>
  <2>1. ~(n > 1 /\ ~(Load(n) <= BatchLimit))
    BY <1>3
  <2> QED
    BY <2>1, Zenon DEF SendBatch
<1>5. n \in 0 .. Len(payloads)
  BY <1>3
<1> HIDE DEF n
<1>6. OnceEach(batch) /\ PhotosIn(batch) \subseteq PhotosIn(payloads)
  BY <1>2, <1>5, OnceSplit
<1> HIDE DEF batch
<1>7. /\ ys \subseteq xs /\ (LookedAt(batch) = batch \/ (stage = "saving" /\ FailedIn(ys) # {}))
      /\ PhotosIn(LookedAt(batch)) \subseteq PhotosIn(batch) /\ OnceEach(LookedAt(batch))
  BY <1>6, SeenIs
<1>8. Taken(ys) \subseteq Taken(xs) /\ (LookedAt(batch) = batch => Taken(ys) = Taken(xs))
  BY <1>7 DEF Taken
<1>9. Taken(xs) \subseteq PhotosIn(batch) /\ Taken(xs) \subseteq PhotosOf(albumCase)
  BY <1>2, <1>6, AnswersSplit
<1>10. effect => IF albumCase.op = "add" THEN inTimeline' = inTimeline ELSE inTimeline' = inTimeline \cup Taken(xs)
  BY DEF PostAddMultiple, PutTransferMultiple
<1> HIDE DEF effect, xs
<1>11. CASE effect /\ Settle(batch) /\ UNCHANGED albumFaults
  <2> DEFINE failed == FailedIn(ys)
             told == Taken(ys)
  <2>1. /\ \A p \in PhotosOf(albumCase) :
              /\ p \notin failed \cup told => results'[p] = results[p]
              /\ p \in failed => results'[p] # <<"ok">>
        /\ view' = Changed(told)
        /\ stage' = IF stage = "saving" /\ failed # {} THEN "thrown" ELSE stage
    <3>1. PhotosIn(batch) \cap PhotosIn(sameQueue) = {} /\ PhotosIn(batch) \subseteq PhotosOf(albumCase)
      BY <1>2, <1>6
    <3> QED
      BY <1>2, <1>6, <1>11, <3>1, SettledAre
  <2> HIDE DEF failed, told, ys
  <2>2. \A p \in PhotosOf(albumCase) : (p \notin told => view'[p] = view[p]) /\ (p \in told => ~view'[p].fresh)
    BY <1>2, <2>1, ChangedIs
  <2>3. told \subseteq Taken(xs) /\ (stage' # "thrown" => told = Taken(xs))
    BY <1>1, <1>7, <1>8, <2>1 DEF failed, told
  <2>4. inTimeline' \subseteq PhotosOf(albumCase) /\ inTimeline \subseteq inTimeline'
        /\ (albumCase.op # "add" => Taken(xs) \subseteq inTimeline')
        /\ inTimeline' \subseteq inTimeline \cup Taken(xs)
    BY <1>2, <1>9, <1>10, <1>11 DEF AlbumTypes
  <2>5. \A p \in PhotosOf(albumCase) : view'[p] = view[p] \/ ~view'[p].fresh
    BY <2>2
  <2>6. stage' # "thrown" => \A p \in inTimeline' : p \in inTimeline \/ ~view'[p].fresh
    BY <2>2, <2>3, <2>4
  <2>7. albumCase.op = "delete" =>
          /\ inTimeline \subseteq inTimeline'
          /\ \A p \in PhotosOf(albumCase) :
                results'[p] = <<"ok">> => results[p] = <<"ok">> \/ (p \in inTimeline' /\ ~view'[p].fresh)
    BY <2>1, <2>2, <2>3, <2>4
  <2>8. /\ albumCase' = albumCase /\ deleted' = deleted /\ albumCase.op # "tag"
        /\ (albumFaults' = 0 => albumFaults = 0) /\ stage # "thrown"
    BY <1>1, <1>2, <1>11
  <2> QED
    BY <2>4, <2>5, <2>6, <2>7, <2>8, SavedIf
<1>12. CASE /\ albumFaults' = albumFaults + 1 /\ stage' = "thrown" /\ (effect \/ UNCHANGED AlbumServer)
            /\ UNCHANGED <<retried, sameQueue, results, view>>
  <2>1. inTimeline' = inTimeline \/ (albumCase.op # "add" /\ inTimeline' = inTimeline \cup Taken(xs))
    BY <1>10, <1>12 DEF AlbumServer
  <2>2. inTimeline' \subseteq PhotosOf(albumCase) /\ inTimeline \subseteq inTimeline'
    BY <1>2, <1>9, <2>1 DEF AlbumTypes
  <2>3. albumFaults' # 0
    BY <1>2, <1>12 DEF AlbumTypes
  <2> QED
    BY <1>1, <1>12, <2>2, <2>3, SavedIf
<1> QED
  BY <1>4, <1>11, <1>12

\* A favourite is in the timeline while its update is under way.
LEMMA SavedUpdate ==
    ASSUME AlbumInv, SavedInv, PrepareUpdate \/ UpdateRequest \/ PhotoUpdated
    PROVE  SavedInv'
<1>1. /\ albumCase.op = "tag" /\ stage = "work"
      /\ UNCHANGED <<albumCase, stage, deleted>>
  BY DEF PrepareUpdate, UpdateRequest, PhotoUpdated, Tagging
<1>2. AlbumTypes
  BY DEF AlbumInv
<1>3. CASE PrepareUpdate
  <2>1. payloads = <<>> /\ UNCHANGED <<view, inTimeline, albumFaults>>
    BY <1>3 DEF PrepareUpdate, AlbumServer
  <2> QED
    BY <1>1, <2>1, SavedStays
<1>4. CASE PhotoUpdated
  <2>1. /\ payloads # <<>> /\ view' = Changed({payloads[1].photo}) /\ UNCHANGED <<inTimeline, albumFaults>>
    BY <1>4 DEF PhotoUpdated, AlbumServer
  <2>2. PhotosIn(payloads) = {payloads[1].photo}
    BY <1>1, <2>1, TagFlight
  <2>3. \A p \in PhotosOf(albumCase) :
           (p \notin {payloads[1].photo} => view'[p] = view[p]) /\ (p \in {payloads[1].photo} => ~view'[p].fresh)
    BY <1>2, <2>1, ChangedIs
  <2>4. \A p \in PhotosIn(payloads) : p \in PhotosOf(albumCase) /\ ~view'[p].fresh
    BY <1>1, <2>2, <2>3, TagFlight
  <2>5. inTimeline' \subseteq PhotosOf(albumCase)
    BY <1>2, <2>1 DEF AlbumTypes
  <2> QED
    BY <1>1, <2>1, <2>3, <2>4, <2>5, SavedIf
<1>5. CASE UpdateRequest
  <2>1. /\ payloads # <<>> /\ view' = view
        /\ \/ /\ TagEffect(payloads[1].photo, Head(payloads[1].left)) /\ albumFaults' = albumFaults
              /\ payloads' = <<[payloads[1] EXCEPT !.left = Tail(@)]>>
           \/ payloads[1].photo \in deleted /\ UNCHANGED <<AlbumServer, albumFaults>> /\ payloads' = <<>>
           \/ /\ albumFaults' = albumFaults + 1
              /\ TagEffect(payloads[1].photo, Head(payloads[1].left)) \/ UNCHANGED AlbumServer
    BY <1>5, Zenon DEF UpdateRequest
  <2>2. PICK p : p = payloads[1].photo
    OBVIOUS
  <2>3. PhotosIn(payloads) = {p} /\ p \in PhotosOf(albumCase)
    BY <1>1, <2>1, <2>2, TagFlight
  <2>4. payloads[1] = [photo |-> payloads[1].photo, related |-> payloads[1].related, left |-> payloads[1].left]
        /\ payloads[1].left \in AllTagSteps
    BY <1>1, <2>1 DEF AlbumInv, TagInv
  <2>5. ASSUME TagEffect(p, Head(payloads[1].left)) PROVE inTimeline' \in {inTimeline, inTimeline \cup {p}}
    <3>1. CASE Head(payloads[1].left) = "favourite"
      BY <2>5, <3>1 DEF TagEffect, PostFavorite
    <3>2. CASE Head(payloads[1].left) = "add"
      BY <2>5, <3>2 DEF TagEffect, PostTags
    <3>3. CASE Head(payloads[1].left) = "remove"
      BY <2>5, <3>3 DEF TagEffect, DeleteTags
    <3>4. payloads[1].left # <<>>
      BY <1>5 DEF UpdateRequest
    <3>5. Head(payloads[1].left) \in {"favourite", "add", "remove"}
      BY <2>4, <3>4, StepsLeft
    <3> QED
      BY <3>1, <3>2, <3>3, <3>5
  <2>6. inTimeline' \in {inTimeline, inTimeline \cup {p}}
    BY <2>1, <2>2, <2>5 DEF AlbumServer
  <2>7. inTimeline' \subseteq PhotosOf(albumCase)
    BY <1>2, <2>3, <2>6 DEF AlbumTypes
  <2>8. (albumFaults' = 0 => albumFaults = 0) /\ (albumFaults' = albumFaults + 1 => albumFaults' # 0)
    BY <1>2, <2>1 DEF AlbumTypes
  <2>9. CASE payloads' = <<[payloads[1] EXCEPT !.left = Tail(@)]>>
    <3>1. PICK y : y = [payloads[1] EXCEPT !.left = Tail(@)]
      OBVIOUS
    <3>2. y.photo = p
      <4>1. PICK a, b, c : a = payloads[1].photo /\ b = payloads[1].related /\ c = payloads[1].left
        OBVIOUS
      <4>2. payloads[1] = [photo |-> a, related |-> b, left |-> c]
        BY <2>4, <4>1
      <4> QED
        BY <2>2, <3>1, <4>1, <4>2
    <3>3. PhotosIn(payloads') = {p}
      BY <2>9, <3>1, <3>2, OnceOne
    <3> QED
      BY <1>1, <2>1, <2>3, <2>6, <2>7, <2>8, <3>3, SavedIf
  <2>10. CASE p \in deleted /\ UNCHANGED <<AlbumServer, albumFaults>> /\ payloads' = <<>>
    <3>1. inTimeline' = inTimeline
      BY <2>10 DEF AlbumServer
    <3> QED
      BY <1>1, <2>1, <2>3, <2>7, <2>8, <2>10, <3>1, SavedIf
  <2>11. CASE albumFaults' = albumFaults + 1
    BY <1>1, <2>1, <2>7, <2>8, <2>11, SavedIf
  <2> QED
    BY <2>1, <2>2, <2>9, <2>10, <2>11
<1> QED
  BY <1>3, <1>4, <1>5

\* The other steps leave the timeline alone.
LEMMA SavedElsewhere ==
    ASSUME AlbumInv, SavedInv,
           BeginAlbumCall \/ CopyPhoto \/ TransferEnds \/ RemovePhotos \/ DeleteAlbum \/ UpdateEnds
    PROVE  SavedInv'
<1>1. AlbumTypes /\ stage # "thrown" /\ UNCHANGED <<albumCase, inTimeline, deleted>>
  BY DEF AlbumInv, BeginAlbumCall, CopyPhoto, TransferEnds, RemovePhotos, DeleteAlbum, UpdateEnds, Tagging, AlbumServer,
         PostCopy
<1>2. albumFaults' = albumFaults \/ albumFaults' = albumFaults + 1
  BY Zenon DEF BeginAlbumCall, CopyPhoto, TransferEnds, RemovePhotos, DeleteAlbum, UpdateEnds
<1>3. albumFaults' = 0 => albumFaults = 0
  BY <1>1, <1>2 DEF AlbumTypes
<1>4. albumCase.op = "tag" => payloads' = payloads
  BY DEF BeginAlbumCall, CopyPhoto, TransferEnds, RemovePhotos, DeleteAlbum, UpdateEnds, Queues, Transfers
<1>5. albumCase.op = "delete" => results' = results
  <2>1. albumCase.op = "delete" => stage # "work"
    BY DEF AlbumInv, StageInv
  <2> QED
    BY <2>1 DEF BeginAlbumCall, CopyPhoto, TransferEnds, RemovePhotos, DeleteAlbum, UpdateEnds, Tagging
<1>6. \A p \in PhotosOf(albumCase) : view'[p] = view[p] \/ ~view'[p].fresh
  <2>1. view' = view \/ \E ps : view' = Changed(ps)
    BY Zenon DEF BeginAlbumCall, CopyPhoto, TransferEnds, RemovePhotos, DeleteAlbum, UpdateEnds
  <2>2. CASE view' = view
    BY <2>2
  <2>3. CASE \E ps : view' = Changed(ps)
    <3>1. PICK ps : view' = Changed(ps)
      BY <2>3
    <3> QED
      BY <1>1, <3>1, ChangedIs
  <2> QED
    BY <2>1, <2>2, <2>3
<1> QED
  BY <1>1, <1>3, <1>4, <1>5, <1>6, SavedStays

LEMMA SavedKeeps ==
    ASSUME AlbumInv, SavedInv, [PhotosNext]_photoVars
    PROVE  SavedInv'
<1>1. CASE AlbumStep
  BY <1>1, SavedPrepare, SavedSend, SavedUpdate, SavedElsewhere DEF AlbumStep
<1>2. ASSUME NEW p \in AllPhotos, RelatedAppears(p) \/ PhotoDeleted(p) \/ AddedByOther(p) \/ NodeRead(p) PROVE SavedInv'
  BY <1>2, SavedMeanwhile
<1>3. CASE UNCHANGED photoVars
  BY <1>3, SavedStays DEF photoVars
<1> QED
  BY <1>1, <1>2, <1>3 DEF PhotosNext

\* The invariant of the calls is preserved by every step.
LEMMA AlbumKeeps == AlbumInv /\ [PhotosNext]_photoVars => AlbumInv'
<1> SUFFICES ASSUME AlbumInv, [PhotosNext]_photoVars PROVE AlbumInv'
  OBVIOUS
<1>1. CASE AlbumStep
  BY <1>1, BeginKeeps, PrepareKeeps, SendKeeps, CopyPhotoKeeps, CallEnds, RemoveKeeps, DeleteKeeps, PrepareUpdateKeeps,
     UpdateRequestKeeps, PhotoUpdatedKeeps DEF AlbumStep
<1>2. ASSUME NEW p \in AllPhotos, RelatedAppears(p) \/ PhotoDeleted(p) \/ AddedByOther(p) \/ NodeRead(p) PROVE AlbumInv'
  BY <1>2, MeanwhileKeeps
<1>3. CASE UNCHANGED photoVars
  <2>1. UNCHANGED <<albumCase, stage, inAlbum, inTimeline, copies, needs, deleted, albumGone, tags, view,
                    sameQueue, otherQueue, payloads, retried, results, albumFaults>>
    BY <1>3 DEF photoVars
  <2>2. InFlight' = InFlight /\ FlightInv'
    BY <2>1, QueuesStay
  <2>3. DoneInv' /\ TagInv' /\ ViewInv' /\ CopyInv'
    BY <2>1, <2>2, PhotosStay
  <2>4. AlbumTypes'
    BY <2>1 DEF AlbumInv, AlbumTypes, PhotosOf, ViewShape
  <2>5. StageInv' /\ ResultInv'
    BY <2>1, <2>2 DEF AlbumInv, StageInv, ThrowsOnlyOnFailure, ResultInv, Asked, PhotosOf
  <2> QED
    BY <2>1, <2>2, <2>3, <2>4, <2>5 DEF AlbumInv, DeletedAlbumIsSaved
<1> QED
  BY <1>1, <1>2, <1>3 DEF PhotosNext

\* What the callers rely on follows.
LEMMA AlbumsTellTheTruth == AlbumInv /\ SavedInv => AlbumCallsAreTrue /\ PhotosTypeOK
<1> SUFFICES ASSUME AlbumInv, SavedInv PROVE AlbumCallsAreTrue /\ PhotosTypeOK
  OBVIOUS
<1>1. AlbumTypes /\ StageInv /\ AllPhotos = PhotosOf(albumCase)
  BY AlbumPhotos DEF AlbumInv
<1>2. OneResultPerPhoto
  <2> SUFFICES ASSUME NEW i \in DOMAIN albumCase.asked
               PROVE  /\ Len(results[albumCase.asked[i]]) <= 1
                      /\ stage = "ended" => Len(results[albumCase.asked[i]]) = 1
    BY DEF OneResultPerPhoto
  <2>1. PICK p : p = albumCase.asked[i]
    OBVIOUS
  <2>2. p \in Asked /\ p \in PhotosOf(albumCase) /\ albumCase.op # "delete"
    <3>1. p \in Asked
      BY <2>1 DEF Asked, ToSet
    <3> QED
      BY <1>1, <3>1, CaseIs DEF AlbumTypes
  <2>3. results[p] \in {<<>>, <<"ok">>, <<"failed">>}
    BY <2>2 DEF AlbumInv, ResultInv
  <2>4. stage = "ended" => results[p] # <<>>
    <3> SUFFICES ASSUME stage = "ended" PROVE results[p] # <<>>
      OBVIOUS
    <3>1. InFlight = {}
      BY <1>1, OnceEmpty DEF StageInv, InFlight, Waiting
    <3> QED
      BY <2>2, <3>1 DEF AlbumInv, ResultInv
  <2>5. Len(<<>>) = 0 /\ Len(<<"ok">>) = 1 /\ Len(<<"failed">>) = 1
    OBVIOUS
  <2>6. PICK r : r = results[p]
    OBVIOUS
  <2>7. Len(r) <= 1 /\ (r # <<>> => Len(r) = 1)
    <3>1. r = <<>> \/ r = <<"ok">> \/ r = <<"failed">>
      BY <2>3, <2>6
    <3>2. CASE r = <<>>
      <4>1. Len(r) = 0
        BY <2>5, <3>2, Zenon
      <4> QED
        BY <4>1, <3>2
    <3>3. CASE r = <<"ok">> \/ r = <<"failed">>
      <4>1. Len(r) = 1
        BY <2>5, <3>3, Zenon
      <4> QED
        BY <4>1
    <3> QED
      BY <3>1, <3>2, <3>3
  <2>8. Len(results[p]) <= 1 /\ (stage = "ended" => Len(results[p]) = 1)
    BY <2>4, <2>6, <2>7
  <2> QED
    BY <2>1, <2>8, Zenon
<1>3. ResultsAreTrue
  <2> SUFFICES ASSUME NEW p \in PhotosOf(albumCase)
               PROVE  /\ (results[p] = <<"ok">> /\ p \notin deleted) => Done(p)
                      /\ (results[p] = <<"failed">> /\ albumFaults = 0) => copies[p] = 0
                      /\ copies[p] <= 1
                      /\ (albumCase.op = "tag" /\ ~albumCase.tagsToRemove \subseteq tags[p]) => albumCase.tagsToAdd \subseteq tags[p]
    BY <1>1 DEF ResultsAreTrue
  <2>1. (results[p] = <<"ok">> /\ p \notin deleted) => Done(p)
    <3>1. CASE albumCase.op = "tag"
      <4>1. results[p] = <<"ok">> => TagsAfter(p, <<>>)
        BY <3>1 DEF AlbumInv, TagInv
      <4>2. ToSet(<<>>) = {}
        BY DEF ToSet
      <4>3. TagsAfter(p, <<>>) => albumCase.tagsToAdd \subseteq tags[p] /\ albumCase.tagsToRemove \cap tags[p] = {}
        BY <4>2 DEF TagsAfter
      <4> QED
        BY <3>1, <4>1, <4>3 DEF Done
    <3>2. CASE albumCase.op # "tag"
      BY <3>2 DEF AlbumInv, DoneInv
    <3> QED
      BY <3>1, <3>2
  <2>2. copies[p] \in {0, 1}
    BY <1>1 DEF AlbumTypes
  <2>3. (results[p] = <<"failed">> /\ albumFaults = 0) => copies[p] = 0
    BY DEF AlbumInv, CopyInv
  <2>4. (albumCase.op = "tag" /\ ~albumCase.tagsToRemove \subseteq tags[p]) => albumCase.tagsToAdd \subseteq tags[p]
    BY DEF AlbumInv, TagInv, TagsOrdered
  <2> QED
    BY <2>1, <2>2, <2>3, <2>4
<1>4. ViewFollows
  <2> SUFFICES ASSUME NEW p \in PhotosOf(albumCase) \ deleted, view[p].fresh
               PROVE  /\ results[p] = <<"ok">> => view[p].parent = ParentOf(p) \/ Foreign(p)
                      /\ stage = "ended" /\ albumFaults = 0 /\ p \in inTimeline => view[p].parent = "root"
    BY <1>1 DEF ViewFollows
  <2>1. results[p] = <<"ok">> => view[p].parent = ParentOf(p) \/ Foreign(p)
    <3>1. CASE albumCase.op # "delete"
      BY <3>1 DEF AlbumInv, ViewInv
    <3>2. CASE albumCase.op = "delete"
      BY <3>2 DEF SavedInv, ParentOf
    <3> QED
      BY <3>1, <3>2
  <2>2. stage = "ended" /\ albumFaults = 0 /\ p \in inTimeline => view[p].parent = "root"
    <3>1. stage = "ended" => PhotosIn(payloads) = {}
      BY <1>1, OnceEmpty DEF StageInv
    <3> QED
      BY <3>1 DEF SavedInv
  <2> QED
    BY <2>1, <2>2
<1>5. PhotosTypeOK
  BY <1>1 DEF AlbumTypes, PhotosTypeOK
<1>6. ThrowsOnlyOnFailure /\ DeletedAlbumIsSaved
  BY DEF AlbumInv, StageInv
<1> QED
  BY <1>2, <1>3, <1>4, <1>5, <1>6 DEF AlbumCallsAreTrue

-------------------------------------------------------------------------------
(* The parts together.                                                       *)

\* A step of the composition is a step of one part or none of each.
LEMMA ClientStep ==
    ASSUME [Next]_allVars
    PROVE  /\ [PhotosNext]_photoVars /\ [CryptoNext]_cryptoVars /\ [LinkNext]_linkVars
           /\ [SmallNext]_smallVars /\ [DraftsNext]_draftVars
BY DEF Next, allVars, NotPhotos, NotCrypto, NotLink, NotSmall, NotDrafts

\* A request refused with a session is not sent again with it, for any number of
\* requests whose handshakes interleave: what arrives was never held before
\* (sharingPublic/session/session.ts).
THEOREM RefusedSessionIsReplaced == Spec => []NeverRefusedTwiceWithOne
<1>1. LinkInv => NeverRefusedTwiceWithOne
  BY DEF LinkInv, SentAgainAnew, NeverRefusedTwiceWithOne, Waits
<1>2. Init => LinkInv
  BY LinkInvInit DEF Init
<1>3. LinkInv /\ [Next]_allVars => LinkInv'
  BY ClientStep, LinkInvStep
<1> QED
  BY <1>1, <1>2, <1>3, PTL DEF Spec

\* Uploads that meet tell the truth and leave nothing behind (manager.ts, queue.ts,
\* smallFileUploader.ts): what is stored is what was declared, completion() means
\* committed, "already exists" names a file that is there, or a draft that was not the
\* upload's to delete or whose deletion failed, the queue counts exactly what the uploads
\* hold, and only drafts nobody learnt of or the server kept are left, for any number of
\* uploads, kinds and clients.
THEOREM UploadsTellTheTruth == Spec => []UploadsAreTrue
<1>1. Init => SmallInv /\ DraftsInv
  BY SmallStarts, DraftsStart DEF Init
<1>2. SmallInv /\ DraftsInv /\ [Next]_allVars => (SmallInv /\ DraftsInv)'
  BY ClientStep, SmallKeeps, DraftsKeep
<1>3. SmallInv /\ DraftsInv => UploadsAreTrue
  <2> SUFFICES ASSUME SmallInv, DraftsInv
               PROVE  UploadsAreTrue
    OBVIOUS
  <2>1. StoredAsDeclared /\ ExistsMeansTaken
    BY DEF SmallInv, DraftsInv
  <2>2. OkMeansCommitted
    BY DEF DraftsInv, KnowInv, OkMeansCommitted
  <2>3. CapacityAccounted
    BY DEF DraftsInv, CapacityInv, CapacityAccounted
  <2>4. NoDraftLeftBehind
    BY DEF DraftsInv, LeftInv, NoDraftLeftBehind
  <2> QED
    BY <2>1, <2>2, <2>3, <2>4 DEF UploadsAreTrue
<1> QED
  BY <1>1, <1>2, <1>3, PTL DEF Spec

\* Calls on photos and albums tell the truth, whatever requests fail and whatever other
\* clients do meanwhile (photos/addToAlbum.ts, saveToTimeline.ts, albums.ts, photos.ts):
\* every photo has one result and it is true, none is added twice or loses the tags it
\* keeps, and an album is deleted without a loss.  A photo reported as done is cached where
\* it is or marked as changed; once a call has ended with every request answered, so is
\* every photo of the timeline.  (A call that throws may leave others cached where they
\* were.)  For any number of photos, batch sizes and calls.
THEOREM AlbumsAreTrue == Spec => []AlbumCallsAreTrue
<1>1. Init => AlbumInv /\ SavedInv
  BY AlbumStarts, SavedStarts DEF Init
<1>2. AlbumInv /\ SavedInv /\ [Next]_allVars => (AlbumInv /\ SavedInv)'
  BY ClientStep, AlbumKeeps, SavedKeeps
<1> QED
  BY <1>1, <1>2, AlbumsTellTheTruth, PTL DEF Spec

\* However nodes were created, renamed, moved, copied and shared, and from whichever
\* cached copy: who is granted a node decrypts its key and its name and finds its true
\* authors, and names are unique in a folder, for any number of nodes, names, cached
\* copies and operations (nodes/cryptoService.ts, nodesManagement.ts, nodesAccess.ts).
THEOREM NodesReadable == Spec => []NodesAreReadable
<1>1. Init => CryptoInv
  BY CryptoStart DEF Init
<1>2. CryptoInv /\ [Next]_allVars => CryptoInv'
  BY ClientStep, CryptoKeeps
<1> QED
  BY <1>1, <1>2, InvReadable, PTL DEF Spec

\* The client keeps its types: those of albums (internal/photos), of nodes' keys and
\* names (internal/nodes), of the session of a public link (internal/sharingPublic) and
\* of uploads, the small one and those that meet (internal/upload).
THEOREM ClientTypeCorrect == Spec => []ClientTypeOK
<1> DEFINE Inv ==
      /\ AlbumInv /\ SavedInv /\ CryptoInv /\ LinkInv /\ RefusedAtMostTwice /\ SmallInv /\ DraftsInv
      /\ request \in Requests
<1>1. Init => Inv
  <2>1. LinkInit => RefusedAtMostTwice
    BY FS_EmptySet DEF LinkInit, RefusedAtMostTwice
  <2>2. DraftsInit => request \in Requests
    BY DEF DraftsInit
  <2> QED
    BY <2>1, <2>2, AlbumStarts, SavedStarts, CryptoStart, LinkInvInit, SmallStarts, DraftsStart DEF Init
<1>2. Inv /\ [Next]_allVars => Inv'
  <2> SUFFICES ASSUME Inv, [Next]_allVars PROVE Inv'
    OBVIOUS
  <2>1. /\ [PhotosNext]_photoVars /\ [CryptoNext]_cryptoVars /\ [LinkNext]_linkVars
        /\ [SmallNext]_smallVars /\ [DraftsNext]_draftVars
    BY ClientStep
  <2>2. AlbumInv' /\ SavedInv' /\ CryptoInv' /\ LinkInv' /\ SmallInv' /\ DraftsInv'
    BY <2>1, AlbumKeeps, SavedKeeps, CryptoKeeps, LinkInvStep, SmallKeeps, DraftsKeep
  <2>3. LinkTypes
    BY DEF LinkInv
  <2>4. RefusedAtMostTwice'
    BY <2>1, <2>3, RefusedStep
  <2>5. (request \in Requests)'
    BY <2>1 DEF DraftsNext, draftVars
  <2> QED
    BY <2>2, <2>4, <2>5
<1>3. Inv => ClientTypeOK
  <2> SUFFICES ASSUME Inv PROVE ClientTypeOK
    OBVIOUS
  <2>1. PhotosTypeOK /\ CryptoTypeOK
    BY AlbumsTellTheTruth, InvTypes
  <2>2. LinkTypeOK
    BY DEF LinkInv, LinkTypes, RefusedAtMostTwice, LinkTypeOK
  <2>3. SmallTypeOK
    BY DEF SmallInv, SmallTypes, SmallTypeOK
  <2>4. DraftsTypeOK
    <3>1. totalFileUploads \in Nat
      BY FS_CardinalityType DEF DraftsInv, CapacityInv
    <3> QED
      BY <3>1 DEF DraftsInv, DraftTypes, ServerTypes, CapacityInv, Steps, DraftsTypeOK
  <2> QED
    BY <2>1, <2>2, <2>3, <2>4 DEF ClientTypeOK
<1> QED
  BY <1>1, <1>2, <1>3, PTL DEF Spec

\* No step undoes what others did: a node moved keeps its name and a node renamed its
\* folder, from however old a cached copy, and a draft goes only with who may remove it
\* (nodesManagement.ts, upload/manager.ts).
THEOREM WorkOfOthersIsKept == Spec => OthersWorkIsKept
<1>1. Init => CryptoInv /\ DraftsInv
  BY CryptoStart, DraftsStart DEF Init
<1>2. CryptoInv /\ DraftsInv /\ [Next]_allVars => (CryptoInv /\ DraftsInv)'
  BY ClientStep, CryptoKeeps, DraftsKeep
<1>3. CryptoInv /\ [Next]_allVars =>
        [\A n \in Live(drive) :
            /\ drive'[n].parent # drive[n].parent => drive'[n].name.data = drive[n].name.data
            /\ drive'[n].name.data # drive[n].name.data => drive'[n].parent = drive[n].parent]_cryptoVars
  BY ClientStep, ChangesAreKept DEF NameOrFolderStays
<1>4. DraftsInv /\ [Next]_allVars =>
        [link # None /\ link.state = "draft" /\ link' = None =>
           \E u \in Uploads :
               /\ pc'[u] # pc[u]
               /\ \/ mine[u] = link.id
                  \/ request[u].override
                  \/ request[u].client # None /\ request[u].client = link.client]_draftVars
  BY ClientStep, DraftsKeptStep
<1> QED
  BY <1>1, <1>2, <1>3, <1>4, PTL DEF Spec, OthersWorkIsKept, NoChangeIsUndone, OthersDraftsAreKept
=============================================================================
