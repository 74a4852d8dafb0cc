--------------------------- MODULE StreamUploader ---------------------------
(***************************************************************************)
(* The upload of one file by the JS SDK (js/sdk/src/internal/upload): the  *)
(* revision draft of FileUploader and its clean-up, and StreamUploader,    *)
(* in which three kinds of tasks run between each other's awaits:          *)
(*                                                                         *)
(*   - the loop of encryptAndUploadBlocks, which requests upload tokens    *)
(*     for what is encrypted, and commits at the end;                      *)
(*   - encryptBlocks, which reads the stream and fills the buffer;         *)
(*   - one uploadBlock or uploadThumbnail for every token.                 *)
(*                                                                         *)
(* The user pauses, resumes and aborts; the server stores blocks, answers, *)
(* fails, times out, or loses an answer to what it did; another client may *)
(* remove the draft.                                                       *)
(*                                                                         *)
(* An item is a thumbnail <<"thumb", type>> or a block <<"block", index>>. *)
(* The stream is known by its size in units, of which a block holds        *)
(* ChunkSize, and by whether it has the SHA-1 the caller expects.          *)
(***************************************************************************)
EXTENDS Integers, FiniteSets, FiniteSetsExt

CONSTANTS
    Inputs,          \* what is uploaded: a subset of Input
    ChunkSize,       \* FILE_CHUNK_SIZE
    MaxBuffered,     \* MAX_BUFFERED_BLOCKS
    MaxUploading,    \* MAX_UPLOADING_BLOCKS
    MaxEncryptRetries,  \* MAX_BLOCK_ENCRYPTION_RETRIES
    MaxUploadRetries,   \* MAX_BLOCK_UPLOAD_RETRIES
    None

\* The size of the stream, UploadMetadata, and the types of the thumbnails.
Input == [size : Nat, expectedSize : Nat, sha1 : {"none", "right", "wrong"},
          thumbnails : SUBSET Nat]

\* How an upload can end.
Results == {"ok", "error", "abort", "encryption", "upload", "integrity"}

ASSUME StreamUploaderConstants ==
    /\ Inputs \subseteq Input
    /\ \A in \in Inputs : IsFiniteSet(in.thumbnails)
    /\ {ChunkSize, MaxBuffered, MaxUploading} \subseteq Nat \ {0}
    /\ {MaxEncryptRetries, MaxUploadRetries} \subseteq Nat
    /\ None \notin Results

\* The number of blocks of a file, and the size of one of them.
BlockCount(size) == (size + ChunkSize - 1) \div ChunkSize
BlockLength(size, i) ==
    IF i * ChunkSize <= size THEN ChunkSize ELSE size - (i - 1) * ChunkSize

ThumbnailsOf(in) == {"thumb"} \X in.thumbnails
BlocksOf(in) == {"block"} \X (1..BlockCount(in.size))
Blocks == UNION {BlocksOf(in) : in \in Inputs}
Items == Blocks \cup UNION {ThumbnailsOf(in) : in \in Inputs}

VARIABLES
    input,       \* the stream and the metadata
    pc,          \* where FileUploader and the main loop stand
    result,      \* how the upload ended
    released,    \* how often onFinish has given the capacity of the queue back
    encryptPc,   \* where encryptBlocks stands
    index,       \* its block
    encryptTry,  \* its attempt
    thumbs,      \* encryptedThumbnails
    buffer,      \* encryptedBlocks
    encryptionFinished,
    requested,   \* what tokens are being requested for
    task,        \* per item, where its upload stands
    attempt,     \* per item, min(attempt, MaxUploadRetries + 1)
    ongoing,     \* ongoingUploads
    rejection,   \* error of an upload the main loop is awaiting
    uploaded,    \* uploadedBlocks and uploadedThumbnails
    limit,       \* maxUploadingBlocks
    error,       \* the error of the whole upload
    aborted,     \* abortController.signal.aborted
    paused,      \* UploadController's
    draft,       \* server: the revision draft
    stored,      \* server: the items it holds of the draft
    manifest,    \* server: the items the committed manifest covers
    orphaned     \* history: the draft was created, or not deleted, unnoticed

server == <<draft, stored, manifest, orphaned>>
encryption == <<encryptPc, index, encryptTry, encryptionFinished>>
uploads == <<task, attempt, ongoing, uploaded, limit>>
control == <<error, aborted, paused>>
main == <<pc, result, released, requested, rejection>>
vars == <<input, server, encryption, uploads, control, main, thumbs, buffer>>

Init ==
    /\ input \in Inputs
    /\ pc = "create" /\ result = None /\ released = 0
    /\ encryptPc = "off" /\ index = 0 /\ encryptTry = 0
    /\ thumbs = {} /\ buffer = {} /\ encryptionFinished = FALSE
    /\ requested = {} /\ ongoing = {} /\ uploaded = {} /\ rejection = None
    /\ task = [i \in Items |-> "none"]
    /\ attempt = [i \in Items |-> 0]
    /\ limit = MaxUploading
    /\ error = None /\ aborted = FALSE /\ paused = FALSE
    /\ draft = "none" /\ stored = {} /\ manifest = {} /\ orphaned = FALSE

\* isUploadAborted.
IsUploadAborted == error # None \/ aborted

\* isEncryptionFullyFinished.
IsEncryptionFullyFinished == encryptionFinished /\ buffer = {} /\ thumbs = {}

-----------------------------------------------------------------------------
(* How the upload ends.                                                    *)

\* The finally of start: everything is forgotten, and the capacity released.
Cleanup ==
    /\ buffer' = {} /\ thumbs' = {} /\ ongoing' = {} /\ uploaded' = {}
    /\ encryptionFinished' = FALSE
    /\ released' = released + 1

\* The catch of start and its finally, up to the call that deletes the draft.
Throw(e) ==
    /\ Cleanup
    /\ result' = e
    /\ pc' = "delete"
    /\ UNCHANGED <<input, server, encryptPc, index, encryptTry, requested, task, attempt,
                   rejection, limit, control>>

Return ==
    /\ Cleanup
    /\ result' = "ok"
    /\ pc' = "done"
    /\ UNCHANGED <<input, server, encryptPc, index, encryptTry, requested, task, attempt,
                   rejection, limit, control>>

\* The error a task or the loop throws when it finds the upload aborted.
AbortReason == IF error # None THEN error ELSE "abort"

-----------------------------------------------------------------------------
(* FileUploader: the draft.                                                *)

\* createRevisionDraft, the draft.  The answer may get lost.
CreateDraft ==
    /\ pc = "create"
    /\ \/ draft' = "open" /\ pc' = "verifier" /\ UNCHANGED <<result, released, orphaned>>
       \/ /\ \/ draft' = "open" /\ orphaned' = TRUE
             \/ UNCHANGED <<draft, orphaned>>
          /\ pc' = "done" /\ result' = "error" /\ released' = released + 1
    /\ UNCHANGED <<input, stored, manifest, encryption, uploads, control, requested,
                   rejection, thumbs, buffer>>

\* Mutant: the draft is left behind.
LoadVerificationDataKeepsDraft ==
    /\ pc = "verifier"
    /\ \/ draft = "open" /\ pc' = "thumbnails" /\ UNCHANGED <<result, released>>
       \/ pc' = "done" /\ result' = "error" /\ released' = released + 1
    /\ UNCHANGED <<input, server, encryption, uploads, control, requested, rejection,
                   thumbs, buffer>>

\* loadVerificationData.  An error releases the capacity and deletes the draft.
LoadVerificationData ==
    /\ pc = "verifier"
    /\ \/ draft = "open" /\ pc' = "thumbnails" /\ UNCHANGED <<result, released>>
       \/ pc' = "delete" /\ result' = "error" /\ released' = released + 1
    /\ UNCHANGED <<input, server, encryption, uploads, control, requested, rejection,
                   thumbs, buffer>>

\* deleteDraftNode: the server deletes drafts only; an error is logged.
DeleteDraft ==
    /\ pc = "delete"
    /\ pc' = "done"
    /\ \/ draft' = (IF draft = "open" THEN "deleted" ELSE draft) /\ UNCHANGED orphaned
       \/ UNCHANGED draft /\ orphaned' = (orphaned \/ draft = "open")
    /\ UNCHANGED <<input, stored, manifest, encryption, uploads, control, result, released,
                   requested, rejection, thumbs, buffer>>

-----------------------------------------------------------------------------
(* encryptAndUploadBlocks.                                                 *)

\* encryptThumbnails, cut short by an abort; then encryptBlocks is started and
\* the loop entered.
EncryptThumbnails ==
    /\ pc = "thumbnails"
    /\ \/ /\ \/ thumbs' = ThumbnailsOf(input)
             \/ IsUploadAborted /\ thumbs' \in SUBSET ThumbnailsOf(input)
          /\ encryptPc' = "read"
          /\ pc' = "loop"
          /\ UNCHANGED <<input, server, index, encryptTry, encryptionFinished, uploads,
                         control, result, released, requested, rejection, buffer>>
       \/ Throw("error")

Goto(step) ==
    /\ pc' = step
    /\ UNCHANGED <<input, server, encryption, uploads, control, result, released, thumbs,
                   buffer>>

\* The condition of the while loop.
LoopCondition ==
    /\ pc = "loop"
    /\ IF IsUploadAborted THEN Throw(AbortReason)
       ELSE Goto("paused") /\ UNCHANGED <<requested, rejection>>

\* waitWhilePaused, which an abort ends.
WaitWhilePaused ==
    /\ pc = "paused"
    /\ ~paused \/ aborted
    /\ Goto("capacity")
    /\ UNCHANGED <<requested, rejection>>

\* waitForUploadCapacityAndBufferedBlocks, the first wait: fewer uploads than
\* the limit, or the rejection of one that was awaited.
WaitForCapacity ==
    /\ pc = "capacity"
    /\ IF rejection # None THEN Throw(rejection)
       ELSE /\ Cardinality(ongoing) < limit
            /\ Goto("buffered")
            /\ UNCHANGED <<requested, rejection>>

\* The second wait, and what follows it: leave the loop or request tokens.
WaitForBufferedBlocks ==
    /\ pc = "buffered"
    /\ buffer # {} \/ encryptionFinished \/ aborted
    /\ CASE IsUploadAborted -> Throw(AbortReason)
         [] ~IsUploadAborted /\ IsEncryptionFullyFinished ->
                Goto("encrypted") /\ UNCHANGED <<requested, rejection>>
         [] OTHER -> /\ Goto("request")
                     /\ requested' = buffer \cup thumbs
                     /\ UNCHANGED rejection

\* requestAndInitiateUpload: on the answer every upload is started.  An error
\* ends the upload, but aborts neither the encryption nor the other uploads.
RequestAndInitiateUpload ==
    /\ pc = "request"
    /\ \/ Throw("error")
       \/ draft = "open" /\ IsUploadAborted /\ Throw(AbortReason)
       \/ /\ draft = "open" /\ ~IsUploadAborted
          /\ thumbs' = thumbs \ requested
          /\ buffer' = buffer \ requested
          /\ ongoing' = ongoing \cup requested
          /\ task' = [i \in Items |-> IF i \in requested THEN "put" ELSE task[i]]
          /\ attempt' = [i \in Items |-> IF i \in requested THEN 1 ELSE attempt[i]]
          /\ requested' = {}
          /\ pc' = IF encryptionFinished /\ buffer' = {} /\ thumbs' = {}
                   THEN "encrypted" ELSE "loop"
          /\ UNCHANGED <<input, server, encryption, uploaded, limit, control, result,
                         released, rejection>>

\* await encryptBlocksPromise, whose error may come only now.
AwaitEncryption ==
    /\ pc = "encrypted"
    /\ \/ encryptPc = "failed" /\ Throw("encryption")
       \/ encryptPc = "done" /\ Goto("join") /\ UNCHANGED <<requested, rejection>>

\* uploadedOriginalFileSize: the size of the blocks among these items of a stream.
SizeOf(size, items) == MapThenSumSet(LAMBDA i : BlockLength(size, i[2]), items \cap Blocks)

\* verifyIntegrity.  The digest is that of the whole stream.
VerifyIntegrity ==
    /\ Cardinality(uploaded) = BlockCount(input.expectedSize) + Cardinality(input.thumbnails)
    /\ SizeOf(input.size, uploaded) = input.expectedSize
    /\ input.sha1 # "wrong"

\* Promise.all over the uploads, then verifyIntegrity and getManifest.
AwaitUploads ==
    /\ pc = "join"
    /\ IF rejection # None THEN Throw(rejection)
       ELSE /\ ongoing = {}
            /\ \/ ~VerifyIntegrity /\ Throw("integrity")
               \/ VerifyIntegrity /\ Goto("commit") /\ UNCHANGED <<requested, rejection>>

\* The server commits the draft with the manifest that covers the uploads.
ServerCommits ==
    /\ draft = "open"
    /\ draft' = "committed"
    /\ manifest' = uploaded

\* commitDraft: the request, whose answer may be lost or an error.
CommitDraft ==
    /\ pc = "commit"
    /\ (ServerCommits /\ pc' = "notify") \/ (ServerCommits /\ pc' = "check")
         \/ (UNCHANGED <<draft, manifest>> /\ pc' = "check")
    /\ UNCHANGED <<input, stored, orphaned, encryption, uploads, control, result, released,
                   requested, rejection, thumbs, buffer>>

\* After an error: isRevisionUploaded.
CheckCommitted ==
    /\ pc = "check"
    /\ \/ draft = "committed" /\ Goto("notify") /\ UNCHANGED <<requested, rejection>>
       \/ Throw("error")

\* notifyNodeUploaded; its error is the error of the upload.
NotifyNodeUploaded ==
    /\ pc = "notify"
    /\ Return \/ Throw("error")

-----------------------------------------------------------------------------
(* encryptBlocks.                                                          *)

EncryptStep(step) ==
    /\ encryptPc' = step
    /\ UNCHANGED <<input, server, uploads, main, thumbs>>

\* iterateChunks and the digest; reading may fail.
ReadChunk ==
    /\ encryptPc = "read"
    /\ \/ /\ index < BlockCount(input.size)
          /\ index' = index + 1
          /\ EncryptStep("paused")
          /\ UNCHANGED encryptionFinished
       \/ /\ index = BlockCount(input.size)
          /\ EncryptStep("done")
          /\ encryptionFinished' = TRUE /\ UNCHANGED index
       \/ /\ EncryptStep("failing")
          /\ encryptionFinished' = TRUE /\ UNCHANGED index
    /\ encryptTry' = 0
    /\ UNCHANGED <<buffer, control>>

\* waitWhilePaused.
EncryptWaitWhilePaused ==
    /\ encryptPc = "paused"
    /\ ~paused \/ aborted
    /\ EncryptStep("capacity")
    /\ UNCHANGED <<index, encryptTry, encryptionFinished, buffer, control>>

\* Mutant: the buffer is not waited for.
EncryptUnbuffered ==
    /\ encryptPc = "capacity"
    /\ IF IsUploadAborted THEN EncryptStep("done") /\ encryptionFinished' = TRUE
       ELSE EncryptStep("encrypt") /\ UNCHANGED encryptionFinished
    /\ UNCHANGED <<index, encryptTry, buffer, control>>

\* waitForBufferCapacity; an abort ends the loop.
WaitForBufferCapacity ==
    /\ encryptPc = "capacity"
    /\ Cardinality(buffer) < MaxBuffered \/ aborted
    /\ IF IsUploadAborted THEN EncryptStep("done") /\ encryptionFinished' = TRUE
       ELSE EncryptStep("encrypt") /\ UNCHANGED encryptionFinished
    /\ UNCHANGED <<index, encryptTry, buffer, control>>

\* encryptBlock with verifyBlock, and its retry.
EncryptBlock ==
    /\ encryptPc = "encrypt"
    /\ \/ /\ EncryptStep("read")
          /\ buffer' = buffer \cup {<<"block", index>>}
          /\ UNCHANGED <<encryptTry, encryptionFinished>>
       \/ /\ encryptTry < MaxEncryptRetries
          /\ EncryptStep("encrypt")
          /\ encryptTry' = encryptTry + 1
          /\ UNCHANGED <<buffer, encryptionFinished>>
       \/ /\ encryptTry = MaxEncryptRetries
          /\ EncryptStep("failing")
          /\ encryptionFinished' = TRUE
          /\ UNCHANGED <<buffer, encryptTry>>
    /\ UNCHANGED <<index, control>>

\* abortUpload: the first error is kept, and the signal aborts.
AbortUpload(e) ==
    /\ error' = IF IsUploadAborted THEN error ELSE e
    /\ aborted' = TRUE
    /\ UNCHANGED paused

\* The catch of encryptBlocks, a moment after its finally.
EncryptionFails ==
    /\ encryptPc = "failing"
    /\ EncryptStep("failed")
    /\ AbortUpload("encryption")
    /\ UNCHANGED <<index, encryptTry, encryptionFinished, buffer>>

-----------------------------------------------------------------------------
(* uploadBlock and uploadThumbnail of item i.                              *)

TaskFrame == UNCHANGED <<input, encryption, thumbs, buffer, draft, manifest, orphaned,
                         pc, result, released, requested>>

IsBlock(i) == i \in Blocks

Retry(i) ==
    /\ task' = [task EXCEPT ![i] = "put"]
    /\ attempt' = [attempt EXCEPT ![i] = IF @ > MaxUploadRetries THEN @ ELSE @ + 1]
    /\ UNCHANGED <<ongoing, rejection>>

\* The promise is rejected, and noticed only by a loop that awaits it.
Reject(i, e) ==
    /\ task' = [task EXCEPT ![i] = "failed"]
    /\ ongoing' = ongoing \ {i}
    /\ rejection' = IF i \in ongoing /\ pc \in {"capacity", "join"} /\ rejection = None
                    THEN e ELSE rejection
    /\ UNCHANGED attempt

\* The server stores the block of an open draft and answers.
PutSucceeds(i) ==
    /\ task[i] = "put"
    /\ draft = "open"
    /\ stored' = stored \cup {i}
    /\ uploaded' = uploaded \cup {i}
    /\ ongoing' = ongoing \ {i}
    /\ task' = [task EXCEPT ![i] = "done"]
    /\ UNCHANGED <<attempt, rejection, limit, control>>
    /\ TaskFrame

\* A block that the server may have got, although the request fails.
MayStore(i) ==
    stored' \in {stored, IF draft = "open" THEN stored \cup {i} ELSE stored}

\* Mutant: a block that failed for good is counted as uploaded.
PutFailsCounted(i) ==
    /\ task[i] = "put"
    /\ MayStore(i)
    /\ \/ IsUploadAborted /\ Reject(i, "error") /\ UNCHANGED <<control, uploaded>>
       \/ ~IsUploadAborted /\ attempt[i] <= MaxUploadRetries /\ Retry(i)
              /\ UNCHANGED <<control, uploaded>>
       \/ /\ ~IsUploadAborted /\ attempt[i] > MaxUploadRetries
          /\ Reject(i, "upload") /\ uploaded' = uploaded \cup {i} /\ UNCHANGED control
    /\ UNCHANGED limit
    /\ TaskFrame

\* An error, or the abort of the request: retried MaxUploadRetries times.
PutFails(i) ==
    /\ task[i] = "put"
    /\ MayStore(i)
    /\ \/ IsUploadAborted /\ Reject(i, "abort") /\ UNCHANGED control
       \/ IsUploadAborted /\ Reject(i, "error") /\ UNCHANGED control
       \/ ~IsUploadAborted /\ attempt[i] <= MaxUploadRetries /\ Retry(i) /\ UNCHANGED control
       \/ /\ ~IsUploadAborted /\ attempt[i] > MaxUploadRetries
          /\ Reject(i, "upload") /\ AbortUpload("upload")
    /\ UNCHANGED <<uploaded, limit>>
    /\ TaskFrame

\* A TimeoutError of a block: one upload at a time from now on.
PutTimesOut(i) ==
    /\ task[i] = "put" /\ IsBlock(i) /\ ~IsUploadAborted
    /\ MayStore(i)
    /\ limit' = 1
    /\ task' = [task EXCEPT ![i] = "turn"]
    /\ UNCHANGED <<attempt, ongoing, rejection, uploaded, control>>
    /\ TaskFrame

\* Mutant: the wait does not end with an abort.
AwaitTurnDeaf(i) ==
    /\ task[i] = "turn"
    /\ i \in ongoing /\ \A j \in ongoing \cap Blocks : i[2] <= j[2]
    /\ IF IsUploadAborted THEN Reject(i, AbortReason) ELSE Retry(i)
    /\ UNCHANGED <<stored, uploaded, limit, control>>
    /\ TaskFrame

\* limitUploadCapacity: wait to be the first of the ongoing blocks.
AwaitTurn(i) ==
    /\ task[i] = "turn"
    /\ aborted \/ (i \in ongoing /\ \A j \in ongoing \cap Blocks : i[2] <= j[2])
    /\ IF IsUploadAborted THEN Reject(i, AbortReason) ELSE Retry(i)
    /\ UNCHANGED <<stored, uploaded, limit, control>>
    /\ TaskFrame

\* 404 for a block: its token has expired, or the draft is gone.
PutNotFound(i) ==
    /\ task[i] = "put" /\ IsBlock(i) /\ ~IsUploadAborted
    /\ task' = [task EXCEPT ![i] = "token"]
    /\ UNCHANGED <<stored, attempt, ongoing, rejection, uploaded, limit, control>>
    /\ TaskFrame

\* A new token.  An error rejects the upload of the block without aborting the
\* others.
RefreshToken(i) ==
    /\ task[i] = "token"
    /\ \/ draft = "open" /\ (IF IsUploadAborted THEN Reject(i, AbortReason) ELSE Retry(i))
       \/ Reject(i, "error")
    /\ UNCHANGED <<stored, uploaded, limit, control>>
    /\ TaskFrame

-----------------------------------------------------------------------------
(* The user, and another client.                                           *)

\* UploadController: pause and resume.
PauseOrResume ==
    /\ paused' = ~paused
    /\ UNCHANGED <<input, server, encryption, uploads, error, aborted, main, thumbs, buffer>>

\* The caller's signal aborts.
UserAborts ==
    /\ ~aborted
    /\ aborted' = TRUE
    /\ UNCHANGED <<input, server, encryption, uploads, error, paused, main, thumbs, buffer>>

\* Another upload of the same name deletes this draft.
DraftRemoved ==
    /\ draft = "open"
    /\ draft' = "deleted"
    /\ UNCHANGED <<input, stored, manifest, orphaned, encryption, uploads, control, main,
                   thumbs, buffer>>

Main ==
    \/ CreateDraft \/ LoadVerificationData \/ EncryptThumbnails
    \/ LoopCondition \/ WaitWhilePaused \/ WaitForCapacity \/ WaitForBufferedBlocks
    \/ RequestAndInitiateUpload \/ AwaitEncryption \/ AwaitUploads
    \/ CommitDraft \/ CheckCommitted \/ NotifyNodeUploaded \/ DeleteDraft

Encryption ==
    \/ ReadChunk \/ EncryptWaitWhilePaused \/ WaitForBufferCapacity
    \/ EncryptBlock \/ EncryptionFails

Upload(i) ==
    \/ PutSucceeds(i) \/ PutFails(i) \/ PutTimesOut(i) \/ AwaitTurn(i)
    \/ PutNotFound(i) \/ RefreshToken(i)

Next ==
    \/ Main \/ Encryption
    \/ \E i \in Items : Upload(i)
    \/ PauseOrResume \/ UserAborts \/ DraftRemoved

Spec == Init /\ [][Next]_vars

\* Every request is answered or times out, and the timers of waitForCondition
\* fire.  A block is not promised ever to be stored.
Fairness ==
    /\ WF_vars(Main) /\ WF_vars(Encryption)
    /\ \A i \in Items : WF_vars(Upload(i))

FairSpec == Spec /\ Fairness

-----------------------------------------------------------------------------
(* Properties.                                                             *)

TypeOK ==
    /\ input \in Inputs
    /\ pc \in {"create", "verifier", "thumbnails", "loop", "paused", "capacity", "buffered",
              "request", "encrypted", "join", "commit", "check", "notify", "delete", "done"}
    /\ result \in {None} \cup Results
    /\ released \in 0..1
    /\ encryptPc \in {"off", "read", "paused", "capacity", "encrypt", "failing", "failed",
                     "done"}
    /\ index \in 0..BlockCount(input.size)
    /\ encryptTry \in 0..MaxEncryptRetries
    /\ thumbs \subseteq ThumbnailsOf(input)
    /\ buffer \subseteq Blocks
    /\ encryptionFinished \in BOOLEAN
    /\ requested \subseteq Items /\ ongoing \subseteq Items /\ uploaded \subseteq Items
    /\ task \in [Items -> {"none", "put", "turn", "token", "done", "failed"}]
    /\ attempt \in [Items -> 0..(MaxUploadRetries + 1)]
    /\ rejection \in {None, "error", "abort", "encryption", "upload"}
    /\ limit \in {1, MaxUploading}
    /\ error \in {None, "encryption", "upload"}
    /\ aborted \in BOOLEAN /\ paused \in BOOLEAN
    /\ draft \in {"none", "open", "committed", "deleted"}
    /\ stored \subseteq Items /\ manifest \subseteq Items
    /\ orphaned \in BOOLEAN

\* A committed revision is the stream: the server holds each of its blocks and
\* thumbnails, the manifest covers exactly these, and size and digest are the
\* expected ones; although uploads fail unnoticed while the loop awaits
\* something else (verifyIntegrity is what is left to stop them).  Of a stream
\* longer than announced verifyIntegrity stops less: the count and the size of
\* the blocks can be right while one of them is missing.
CommittedIsWhole ==
    draft = "committed" =>
        /\ manifest \subseteq stored
        /\ SizeOf(input.size, manifest) = input.expectedSize
        /\ input.sha1 # "wrong"
        /\ input.size <= input.expectedSize =>
               /\ manifest = ThumbnailsOf(input) \cup BlocksOf(input)
               /\ stored = manifest
               /\ input.size = input.expectedSize

\* completion() resolves only when the revision is committed, also when the
\* answer to the commit was lost and commitDraft had to ask.
OkMeansCommitted == result = "ok" => draft = "committed"

\* Whatever fails, the capacity of the queue is given back once and the draft is
\* deleted, unless the server did not do it or the client never learnt of it.
EndsCleanly ==
    pc = "done" => released = 1 /\ (draft = "open" => orphaned)

\* "to prevent using too much memory": no more encrypted blocks wait for an upload
\* than the buffer is for, also after the upload has ended and its maps were
\* cleared under a running encryption.
BufferIsBounded == Cardinality(buffer) <= MaxBuffered

\* abortUpload and the caller's abort: the loop, the encryption and the uploads
\* all end, whatever they were waiting for (a pause, capacity, a turn).
AbortEndsAll ==
    aborted ~> /\ pc = "done"
               /\ encryptPc \in {"off", "failed", "done"}
               /\ \A i \in Items : task[i] \in {"none", "done", "failed"}

\* However an upload ends, the caller and the server agree: success is a committed
\* revision, and a failure has returned its capacity and deleted its draft.
UploadEndsRight == OkMeansCommitted /\ EndsCleanly

\* Memory stays bounded: the maps hold what they may, attempts are counted up to
\* their limits, and the buffer of encrypted blocks does not grow past its size.
WithinBounds == TypeOK /\ BufferIsBounded
=============================================================================
