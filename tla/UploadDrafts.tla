---------------------------- MODULE UploadDrafts ----------------------------
(***************************************************************************)
(* Uploads of the JS SDK that meet (js/sdk/src/internal/upload): the queue *)
(* all uploads of a client share, the drafts that several uploads create   *)
(* for one name in one folder, the conflicts UploadManager resolves by     *)
(* deleting a draft, and revisions of one existing file.  Uploads differ   *)
(* in kind: "stream" and "photo" create a draft, upload blocks and commit; *)
(* "small" is one request; "revision" and "smallRevision" do the same for  *)
(* a file that exists.  What happens to the blocks is StreamUploader's.    *)
(*                                                                         *)
(* Every request may fail before or after the server executed it, and the  *)
(* API service may send a request again whose answer was lost.             *)
(***************************************************************************)
EXTENDS Integers, FiniteSets

CONSTANTS
    Uploads,
    Requests,    \* what may be asked for: a subset of [Uploads -> Request]
    ClientUids,  \* values of clientUid
    MaxFiles,    \* MAX_CONCURRENT_FILE_UPLOADS
    MaxSize,     \* MAX_CONCURRENT_UPLOAD_SIZE
    MaxResent,   \* bound: requests sent again after a lost answer
    None

\* The kind of upload, the clientUid of its client, whether it has
\* overrideExistingDraftByOtherClient, the size of the file, and
\* metadata.expectedSize (0 when it was not given).
Request == [kind : {"stream", "photo", "small", "revision", "smallRevision"},
            client : ClientUids \cup {None}, override : BOOLEAN,
            size : Nat, declared : Nat]

\* A draft or a file on the server.
Drafts == [id : Nat, client : ClientUids \cup {None}, state : {"draft", "active"}]

\* How an upload ends.
Results == {"ok", "error", "abort", "exists"}

ASSUME UploadDraftsConstants ==
    /\ Requests \subseteq [Uploads -> Request]
    /\ {MaxFiles, MaxSize, MaxResent} \subseteq Nat
    /\ None \notin Drafts /\ None \notin Results

VARIABLES
    request,
    pc,            \* per upload, where it stands
    expectedSize,  \* per upload, metadata.expectedSize
    mine,          \* per upload, the draft it knows it created
    conflict,      \* per upload, the details of ALREADY_EXISTS
    deleteFailed,  \* the uploads that could not delete the draft in their way
    base,          \* per upload, the revision it wants to replace
    result,        \* per upload, how it ended
    totalFileUploads, totalExpectedSize,   \* UploadQueue
    known,         \* the file's active revision as the SDK has it cached
    link,          \* server: what has the name
    revision,      \* server: the file's active revision
    revDraft,      \* server: the file's revision draft
    nextId,        \* server: ids given so far
    resent,        \* requests sent again so far
    committed,     \* history: ids committed
    orphans        \* history: ids of drafts no client will delete

IsRevision(u) == request[u].kind \in {"revision", "smallRevision"}
IsSmall(u) == request[u].kind \in {"small", "smallRevision"}

queue == <<totalFileUploads, totalExpectedSize>>
server == <<link, revision, revDraft, nextId>>
history == <<committed, orphans>>
upload == <<pc, expectedSize, mine, conflict, deleteFailed, base, result>>
draftVars == <<request, upload, queue, known, server, resent, history>>

DraftsInit ==
    /\ request \in Requests
    /\ pc = [u \in Uploads |-> "new"]
    /\ expectedSize = [u \in Uploads |-> request[u].declared]
    /\ mine = [u \in Uploads |-> None] /\ conflict = [u \in Uploads |-> None]
    /\ deleteFailed = {} /\ base = [u \in Uploads |-> None]
    /\ result = [u \in Uploads |-> None]
    /\ totalFileUploads = 0 /\ totalExpectedSize = 0
    /\ link = None /\ revision = 0 /\ known = 0 /\ revDraft = None /\ nextId = 0
    /\ resent = 0 /\ committed = {0} /\ orphans = {}

Goto(u, step) == pc' = [pc EXCEPT ![u] = step]

-----------------------------------------------------------------------------
(* UploadQueue.                                                            *)

\* The condition of waitForCapacity holds, or the caller gives up waiting.
CheckCapacity(u) ==
    /\ pc[u] = "new"
    /\ \/ totalFileUploads < MaxFiles /\ totalExpectedSize < MaxSize /\ Goto(u, "admitted")
             /\ UNCHANGED result
       \/ Goto(u, "done") /\ result' = [result EXCEPT ![u] = "abort"]
    /\ UNCHANGED <<expectedSize, mine, conflict, deleteFailed, base, queue, known, server, resent, history>>

\* The counters move only when the wait has returned to its caller.
TakeCapacity(u) ==
    /\ pc[u] = "admitted"
    /\ Goto(u, "ready")
    /\ totalFileUploads' = totalFileUploads + 1
    /\ totalExpectedSize' = totalExpectedSize + expectedSize[u]
    /\ UNCHANGED <<expectedSize, mine, conflict, deleteFailed, base, result, known, server, resent, history>>

\* releaseCapacity.
ReleaseCapacity(u) ==
    /\ totalFileUploads' = totalFileUploads - 1
    /\ totalExpectedSize' = totalExpectedSize - expectedSize[u]

\* uploadFromFile fills in a size that is missing; the active revision is read
\* from the cache of the SDK.
StartUpload(u) ==
    /\ pc[u] = "ready"
    /\ Goto(u, "create")
    /\ expectedSize' = [expectedSize EXCEPT ![u] = IF @ = 0 THEN request[u].size ELSE @]
    /\ base' = [base EXCEPT ![u] = known]
    /\ UNCHANGED <<mine, conflict, deleteFailed, result, queue, known, server, resent, history>>

\* The upload ends with an error, after or before it deletes its draft.
Fail(u, e, step) ==
    /\ result' = [result EXCEPT ![u] = e]
    /\ Goto(u, step)
    /\ ReleaseCapacity(u)

-----------------------------------------------------------------------------
(* The server.                                                             *)

\* The name, or the right to a draft of the file, is free for u.
Free(u) == IF IsRevision(u) THEN revDraft = None /\ revision = base[u] ELSE link = None

\* createDraft, createDraftRevision, and the small uploads, which commit at once.
ServerCreates(u) ==
    /\ Free(u)
    /\ nextId' = nextId + 1
    /\ LET new == [id |-> nextId', client |-> request[u].client,
                   state |-> IF IsSmall(u) THEN "active" ELSE "draft"] IN
       IF IsRevision(u)
       THEN /\ revision' = IF IsSmall(u) THEN nextId' ELSE revision
            /\ revDraft' = IF IsSmall(u) THEN None ELSE new
            /\ UNCHANGED link
       ELSE link' = new /\ UNCHANGED <<revision, revDraft>>
    /\ committed' = IF IsSmall(u) THEN committed \cup {nextId'} ELSE committed

\* The draft with this id is still a draft.
IsDraft(id) ==
    \/ link # None /\ link.id = id /\ link.state = "draft"
    \/ revDraft # None /\ revDraft.id = id

\* Commit: a draft becomes the file's content.
ServerCommits(id) ==
    /\ IsDraft(id)
    /\ committed' = committed \cup {id}
    /\ IF revDraft # None /\ revDraft.id = id
       THEN revision' = id /\ revDraft' = None /\ UNCHANGED link
       ELSE link' = [link EXCEPT !.state = "active"] /\ UNCHANGED <<revision, revDraft>>
    /\ UNCHANGED nextId

\* "Can only be done for draft links"; a revision likewise.
ServerDeletes(id) ==
    /\ IsDraft(id)
    /\ link' = IF link # None /\ link.id = id THEN None ELSE link
    /\ revDraft' = IF revDraft # None /\ revDraft.id = id THEN None ELSE revDraft
    /\ UNCHANGED <<revision, nextId>>

-----------------------------------------------------------------------------
(* UploadManager.                                                          *)

\* A request that creates: done and answered; done, the answer lost, and sent
\* again; done, and failed; or failed.
Create(u) ==
    /\ pc[u] = "create"
    /\ \/ /\ ServerCreates(u)
          /\ \/ /\ mine' = [mine EXCEPT ![u] = nextId']
                /\ Goto(u, IF IsSmall(u) THEN "notify" ELSE "blocks")
                /\ UNCHANGED <<queue, result, resent, orphans>>
             \/ /\ resent < MaxResent /\ resent' = resent + 1
                /\ orphans' = IF IsSmall(u) THEN orphans ELSE orphans \cup {nextId'}
                /\ UNCHANGED <<pc, mine, queue, result>>
             \/ /\ Fail(u, "error", "done")
                /\ orphans' = IF IsSmall(u) THEN orphans ELSE orphans \cup {nextId'}
                /\ UNCHANGED <<mine, resent>>
       \/ /\ Fail(u, "error", "done")
          /\ UNCHANGED <<mine, resent, server, history>>
    /\ UNCHANGED <<expectedSize, conflict, deleteFailed, base, known>>

CreateDraftOnAPI(u) == request[u].kind \in {"stream", "photo"} /\ Create(u)
UploadSmallFile(u) == request[u].kind = "small" /\ Create(u)
CreateDraftRevision(u) == request[u].kind = "revision" /\ Create(u)
UploadSmallRevision(u) == request[u].kind = "smallRevision" /\ Create(u)

\* ALREADY_EXISTS.  Only the uploads of new files handle it.
CreateConflicts(u) ==
    /\ pc[u] = "create"
    /\ ~IsRevision(u) /\ link # None
    /\ conflict' = [conflict EXCEPT ![u] = link]
    /\ Goto(u, "conflict")
    /\ UNCHANGED <<expectedSize, mine, deleteFailed, base, result, queue, known, server, resent, history>>

\* Mutant: a client without an id takes a draft without an id for its own.
IsOwnDraftAnonymously(u) ==
    /\ conflict[u].state = "draft"
    /\ conflict[u].client = request[u].client

\* isOwnDraftConflict.
IsOwnDraftConflict(u) ==
    /\ conflict[u].state = "draft"
    /\ request[u].client # None
    /\ conflict[u].client = request[u].client

\* The draft in the way is deleted: it is the client's own, or the caller said so.
MayDelete(u) ==
    conflict[u].state = "draft" /\ (IsOwnDraftConflict(u) \/ request[u].override)

\* handleConflictError: delete the draft and try again, or report the conflict.
\* A deletion that fails, carried out or not, is reported as the same conflict.
HandleConflictError(u) ==
    /\ pc[u] = "conflict"
    /\ \/ /\ MayDelete(u)
          /\ ServerDeletes(conflict[u].id) \/ (~IsDraft(conflict[u].id) /\ UNCHANGED server)
          /\ Goto(u, "create")
          /\ UNCHANGED <<queue, result, deleteFailed>>
       \/ /\ MayDelete(u)
          /\ ServerDeletes(conflict[u].id) \/ UNCHANGED server
          /\ deleteFailed' = deleteFailed \cup {u}
          /\ Fail(u, "exists", "done")
       \/ /\ ~MayDelete(u)
          /\ Fail(u, "exists", "done")
          /\ UNCHANGED <<server, deleteFailed>>
    /\ UNCHANGED <<expectedSize, mine, conflict, base, known, resent, history>>

\* StreamUploader: the blocks of a draft are stored, or something fails.
UploadBlocks(u) ==
    /\ pc[u] = "blocks"
    /\ \/ IsDraft(mine[u]) /\ Goto(u, "commit") /\ UNCHANGED <<queue, result>>
       \/ Fail(u, "error", "delete")
    /\ UNCHANGED <<expectedSize, mine, conflict, deleteFailed, base, known, server, resent, history>>

\* The commit is done and answered; or fails, done or not.
Commit(u, failed) ==
    /\ pc[u] = "commit"
    /\ \/ ServerCommits(mine[u]) /\ Goto(u, "notify") /\ UNCHANGED <<queue, result>>
       \/ (ServerCommits(mine[u]) \/ UNCHANGED <<server, committed>>) /\ failed
    /\ UNCHANGED <<expectedSize, mine, conflict, deleteFailed, base, known, resent, orphans>>

\* commitDraft looks whether a commit that failed was done; commitDraftPhoto
\* does not.
CommitDraft(u) ==
    request[u].kind # "photo" /\ Commit(u, Goto(u, "check") /\ UNCHANGED <<queue, result>>)
CommitDraftPhoto(u) ==
    request[u].kind = "photo" /\ Commit(u, Fail(u, "error", "delete"))

\* Mutant: the link is found active, whatever its revision.
IsOtherRevisionUploaded(u) ==
    IF IsRevision(u) THEN TRUE ELSE link # None /\ link.state = "active"

\* isRevisionUploaded: the link is active, and this is its active revision.
IsRevisionUploaded(u) ==
    IF IsRevision(u) THEN revision = mine[u]
    ELSE link # None /\ link.id = mine[u] /\ link.state = "active"

CheckCommitted(u) ==
    /\ pc[u] = "check"
    /\ \/ IsRevisionUploaded(u) /\ Goto(u, "notify") /\ UNCHANGED <<queue, result>>
       \/ Fail(u, "error", "delete")
    /\ UNCHANGED <<expectedSize, mine, conflict, deleteFailed, base, known, server, resent, history>>

\* notifyNodeUploaded: the caches are told.  The revision is loaded again.
NotifyNodeUploaded(u) ==
    /\ pc[u] = "notify"
    /\ \/ Fail(u, "ok", "done") /\ known' = IF IsRevision(u) THEN revision ELSE known
       \/ Fail(u, "error", IF IsSmall(u) THEN "done" ELSE "delete") /\ UNCHANGED known
    /\ UNCHANGED <<expectedSize, mine, conflict, deleteFailed, base, server, resent, history>>

\* The draft of a failed upload is deleted; errors are logged.
DeleteDraft(u) ==
    /\ pc[u] = "delete"
    /\ Goto(u, "done")
    /\ \/ ServerDeletes(mine[u]) /\ UNCHANGED orphans
       \/ ~IsDraft(mine[u]) /\ UNCHANGED <<server, orphans>>
       \/ UNCHANGED server /\ orphans' = orphans \cup {mine[u]}
    /\ UNCHANGED <<expectedSize, mine, conflict, deleteFailed, base, result, queue, known, resent, committed>>

DeleteDraftNode(u) == ~IsRevision(u) /\ DeleteDraft(u)
DeleteDraftRevision(u) == IsRevision(u) /\ DeleteDraft(u)

\* An event of the server has the cached revision loaded again.
RevisionReloaded ==
    /\ known # revision
    /\ known' = revision
    /\ UNCHANGED <<upload, queue, server, resent, history>>

Step(u) ==
    \/ CheckCapacity(u) \/ TakeCapacity(u) \/ StartUpload(u)
    \/ CreateDraftOnAPI(u) \/ UploadSmallFile(u)
    \/ CreateDraftRevision(u) \/ UploadSmallRevision(u)
    \/ CreateConflicts(u) \/ HandleConflictError(u)
    \/ UploadBlocks(u) \/ CommitDraft(u) \/ CommitDraftPhoto(u) \/ CheckCommitted(u)
    \/ NotifyNodeUploaded(u) \/ DeleteDraftNode(u) \/ DeleteDraftRevision(u)

DraftsNext == ((\E u \in Uploads : Step(u)) \/ RevisionReloaded) /\ UNCHANGED request

DraftsSpec == DraftsInit /\ [][DraftsNext]_draftVars

\* The steps that are taken without anybody's help: every request is answered or
\* fails.  The wait for capacity is not helped.
DraftsStep == (\E u \in Uploads : pc[u] # "new" /\ Step(u)) /\ UNCHANGED request

-----------------------------------------------------------------------------
(* Properties.                                                             *)

\* Type invariant.
DraftsTypeOK ==
    /\ request \in Requests
    /\ pc \in [Uploads -> {"new", "admitted", "ready", "create", "conflict", "blocks",
                           "commit", "check", "notify", "delete", "done"}]
    /\ expectedSize \in [Uploads -> Nat]
    /\ mine \in [Uploads -> Nat \cup {None}]
    /\ base \in [Uploads -> Nat \cup {None}]
    /\ conflict \in [Uploads -> Drafts \cup {None}] /\ deleteFailed \subseteq Uploads
    /\ result \in [Uploads -> Results \cup {None}]
    /\ totalFileUploads \in Nat /\ totalExpectedSize \in Int
    /\ link \in Drafts \cup {None} /\ revDraft \in Drafts \cup {None}
    /\ {revision, known, nextId, resent} \subseteq Nat
    /\ committed \subseteq Nat /\ orphans \subseteq Nat

Holders == {u \in Uploads : pc[u] \notin {"new", "admitted", "delete", "done"}}

\* The bytes of the holders' files: as many as their sizes add up to.
HeldBytes == UNION {{u} \X (1 .. request[u].size) : u \in Holders}

\* UploadQueue: every upload gives back exactly what it took, whichever way it
\* ends; the total size can be trusted as long as no size was filled in after
\* the capacity was taken.
CapacityAccounted ==
    /\ totalFileUploads = Cardinality(Holders)
    /\ (\A u \in Uploads : request[u].declared = request[u].size) =>
           totalExpectedSize = Cardinality(HeldBytes)

\* completion() resolves only with a revision the server has committed, also when
\* answers were lost and another upload replaced the revision meanwhile.
OkMeansCommitted ==
    \A u \in Uploads : result[u] = "ok" => mine[u] \in committed

\* "If the client doesn't specify the client UID, it should never be considered
\* own draft": a draft is removed by the upload that made it, by one of the same
\* client, or by one told to override drafts of others.
OthersDraftsAreKept ==
    [][link # None /\ link.state = "draft" /\ link' = None =>
           \E u \in Uploads :
               /\ pc'[u] # pc[u]
               /\ \/ mine[u] = link.id
                  \/ request[u].override
                  \/ request[u].client # None /\ request[u].client = link.client]_draftVars

\* An upload that reports its name taken (NodeWithSameNameExistsValidationError)
\* was stopped by a file, which no conflict resolution of any upload has removed
\* since, or by a draft: somebody else's that it was not told to override, or one
\* it failed to delete.  A draft the client left behind, because an answer was lost
\* or a deletion failed, does not stop its next upload otherwise.  In the last case
\* the report may be wrong: the deletion may have been done and its answer lost.
ExistsMeansTaken ==
    \A u \in Uploads : result[u] = "exists" =>
        \/ conflict[u].state = "active" /\ link = conflict[u]
        \/ conflict[u].state = "draft" /\ (MayDelete(u) => u \in deleteFailed)

\* When all uploads have ended, the only drafts left are those whose creation
\* nobody learnt of and those the server failed to delete.
NoDraftLeftBehind ==
    (\A u \in Uploads : pc[u] = "done") =>
        \A id \in 1..nextId : IsDraft(id) => id \in orphans

\* Liveness: every upload that was given capacity ends; two uploads of one client that
\* delete each other's drafts do not go on for ever.
DraftsSettled == \A u \in Uploads : pc[u] \in {"new", "done"}
=============================================================================
