------------------------ MODULE StreamUploaderProofs ------------------------
(***************************************************************************)
(* Proofs about StreamUploader, for streams and chunks of any size, any    *)
(* number of thumbnails, and any limits of buffer, uploads and retries.    *)
(***************************************************************************)
EXTENDS StreamUploader, TLAPS, FiniteSetTheorems

-----------------------------------------------------------------------------
(* The inductive invariant.                                                *)

Parts(in) == ThumbnailsOf(in) \cup BlocksOf(in)
Active == {"put", "turn", "token"}

\* Only parts of this stream are buffered, requested and sent, and what counts as
\* uploaded is on the server.
PartsInv ==
    /\ buffer \subseteq BlocksOf(input)
    /\ requested \subseteq Parts(input)
    /\ \A i \in Items : task[i] # "none" => i \in Parts(input)
    /\ uploaded \subseteq stored
    /\ stored \subseteq Parts(input)

\* The encryption adds a block only where there is room for it.
BufferInv ==
    /\ BufferIsBounded
    /\ encryptPc = "encrypt" => Cardinality(buffer) < MaxBuffered
    /\ encryptPc \in {"paused", "capacity", "encrypt"} => index # 0

\* How far the draft and the capacity are when the upload ends.
EndInv ==
    /\ released = IF pc \in {"delete", "done"} THEN 1 ELSE 0
    /\ pc = "create" => draft = "none"
    /\ result = "ok" => pc = "done"
    /\ result = "ok" \/ pc = "notify" => draft = "committed"
    /\ pc = "done" /\ draft = "open" => orphaned

\* An upload that is under way is awaited, so that none is when the draft is
\* committed with what passed verifyIntegrity.
CommitInv ==
    /\ pc \notin {"delete", "done"} => \A i \in Items : task[i] \in Active => i \in ongoing
    /\ pc = "commit" => ongoing = {} /\ VerifyIntegrity
    /\ CommittedIsWhole

StreamInv == PartsInv /\ BufferInv /\ EndInv /\ CommitInv

-----------------------------------------------------------------------------
(* The blocks of a stream.                                                 *)

LEMMA Division ==
    ASSUME NEW a \in Nat, NEW c \in Nat \ {0}
    PROVE  /\ a \div c \in Nat
           /\ (a \div c) * c <= a
           /\ a < (a \div c) * c + c
OBVIOUS

\* The blocks cover the stream: all but the last are full, the last is not empty.
LEMMA BlockCounts ==
    ASSUME NEW size \in Nat
    PROVE  /\ BlockCount(size) \in Nat
           /\ size <= BlockCount(size) * ChunkSize
           /\ BlockCount(size) * ChunkSize < size + ChunkSize
<1>1. ChunkSize \in Nat \ {0}
  BY StreamUploaderConstants
<1>2. size + ChunkSize - 1 \in Nat
  BY <1>1
<1>3. BlockCount(size) * ChunkSize \in Int
  BY <1>1, <1>2, Division DEF BlockCount
<1> QED
  BY <1>1, <1>2, <1>3, Division DEF BlockCount

\* A longer stream has no fewer blocks.
LEMMA MoreBlocks ==
    ASSUME NEW m \in Nat, NEW n \in Nat, m <= n
    PROVE  BlockCount(m) <= BlockCount(n)
<1>1. ChunkSize \in Nat \ {0}
  BY StreamUploaderConstants
<1> DEFINE a == BlockCount(m)
           b == BlockCount(n)
<1>2. a \in Nat /\ b \in Nat /\ a * ChunkSize < m + ChunkSize /\ n <= b * ChunkSize
  BY BlockCounts
<1> HIDE DEF a, b
<1>3. SUFFICES ASSUME b + 1 <= a PROVE FALSE
  BY <1>2 DEF a, b
<1>4. (b + 1) * ChunkSize <= a * ChunkSize
  BY <1>1, <1>2, <1>3
<1>5. (b + 1) * ChunkSize = b * ChunkSize + ChunkSize
  BY <1>1, <1>2
<1>6. b * ChunkSize \in Int /\ a * ChunkSize \in Int
  BY <1>1, <1>2
<1> QED
  BY <1>1, <1>2, <1>4, <1>5, <1>6

\* Every block is a full chunk, but for the last one.
LEMMA LengthOfBlock ==
    ASSUME NEW size \in Nat, NEW i \in 1..BlockCount(size)
    PROVE  BlockLength(size, i) =
               IF i = BlockCount(size) THEN size - (BlockCount(size) - 1) * ChunkSize
               ELSE ChunkSize
<1> DEFINE N == BlockCount(size)
<1>1. ChunkSize \in Nat \ {0}
  BY StreamUploaderConstants
<1>2. N \in Nat /\ size <= N * ChunkSize /\ N * ChunkSize < size + ChunkSize
  BY BlockCounts
<1> HIDE DEF N
<1>3. i \in 1..N
  BY DEF N
<1>4. /\ N * ChunkSize \in Int /\ i * ChunkSize \in Int
      /\ (N - 1) * ChunkSize = N * ChunkSize - ChunkSize
      /\ (i - 1) * ChunkSize = i * ChunkSize - ChunkSize
  BY <1>1, <1>2, <1>3
<1>5. CASE i = N
  BY <1>1, <1>2, <1>3, <1>4, <1>5 DEF BlockLength, N
<1>6. CASE i # N
  <2>1. i * ChunkSize <= (N - 1) * ChunkSize
    BY <1>1, <1>2, <1>3, <1>6
  <2> QED
    BY <1>1, <1>2, <1>3, <1>4, <1>6, <2>1 DEF BlockLength, N
<1> QED
  BY <1>5, <1>6

-----------------------------------------------------------------------------
(* The size of a set of blocks.                                            *)

Some(s) == CHOOSE x \in s : TRUE

\* g adds up the lengths of the blocks of every subset of S, one after another.
AddsUp(g, size, S) ==
    g = [s \in SUBSET S |->
            IF s = {} THEN 0 ELSE BlockLength(size, Some(s)[2]) + g[s \ {Some(s)}]]

LEMMA SizeIsFold ==
    ASSUME NEW size, NEW items
    PROVE  SizeOf(size, items) =
               (CHOOSE g : AddsUp(g, size, items \cap Blocks))[items \cap Blocks]
BY DEF SizeOf, MapThenSumSet, MapThenFoldSet, AddsUp, Some

\* Their lengths added up: a chunk each, less what the last block of the stream lacks.
ClosedSize(s) ==
    LET last == BlockCount(input.size) IN
    Cardinality(s) * ChunkSize
        - (IF <<"block", last>> \in s THEN last * ChunkSize - input.size ELSE 0)

LEMMA BlocksAreFinite ==
    ASSUME NEW in \in Inputs
    PROVE  /\ IsFiniteSet(BlocksOf(in))
           /\ Cardinality(BlocksOf(in)) = BlockCount(in.size)
<1>1. in.size \in Nat
  BY StreamUploaderConstants DEF Input
<1>2. BlockCount(in.size) \in Nat
  BY <1>1, BlockCounts
<1>3. /\ IsFiniteSet(1..BlockCount(in.size)) 
      /\ Cardinality(1..BlockCount(in.size)) = BlockCount(in.size)
  BY <1>2, FS_Interval
<1>4. IsFiniteSet({"block"}) /\ Cardinality({"block"}) = 1
  BY FS_Singleton
<1> QED
  BY <1>2, <1>3, <1>4, FS_Product DEF BlocksOf

\* One block more is its length more.
LEMMA ClosedSizeStep ==
    ASSUME input \in Inputs, NEW s \in SUBSET BlocksOf(input), NEW x \in s
    PROVE  /\ ClosedSize(s) \in Int
           /\ ClosedSize(s) = BlockLength(input.size, x[2]) + ClosedSize(s \ {x})
<1> DEFINE N == BlockCount(input.size)
           k == Cardinality(s)
           c == Cardinality(s \ {x})
<1>1. input.size \in Nat /\ N \in Nat /\ ChunkSize \in Nat \ {0}
  BY StreamUploaderConstants, BlockCounts DEF Input
<1>2. IsFiniteSet(s)
  BY BlocksAreFinite, FS_Subset
<1>3. k \in Nat /\ c = k - 1
  BY <1>2, FS_CardinalityType, FS_RemoveElement
<1>4. x = <<"block", x[2]>> /\ x[2] \in 1..N
  BY DEF BlocksOf
<1>5. BlockLength(input.size, x[2]) =
          IF x[2] = N THEN input.size - (N - 1) * ChunkSize ELSE ChunkSize
  BY <1>1, <1>4, LengthOfBlock
<1>6. /\ k * ChunkSize \in Int /\ N * ChunkSize \in Int
      /\ (k - 1) * ChunkSize = k * ChunkSize - ChunkSize
      /\ (N - 1) * ChunkSize = N * ChunkSize - ChunkSize
  BY <1>1, <1>3
<1>7. <<"block", N>> \in s \ {x} <=> <<"block", N>> \in s /\ x[2] # N
  BY <1>4
<1>8. x[2] = N => <<"block", N>> \in s
  BY <1>4
<1> HIDE DEF N, k, c
<1>9. /\ ClosedSize(s) = k * ChunkSize
            - (IF <<"block", N>> \in s THEN N * ChunkSize - input.size ELSE 0)
      /\ ClosedSize(s \ {x}) = c * ChunkSize
            - (IF <<"block", N>> \in s \ {x} THEN N * ChunkSize - input.size ELSE 0)
  BY DEF ClosedSize, N, k, c
<1>10. CASE x[2] = N
  BY <1>1, <1>3, <1>5, <1>6, <1>7, <1>8, <1>9, <1>10
<1>11. CASE x[2] # N
  BY <1>1, <1>3, <1>5, <1>6, <1>7, <1>9, <1>11
<1> QED
  BY <1>10, <1>11

\* uploadedOriginalFileSize of any blocks of the stream, in whatever order they are
\* added up.  A sum over the subsets of S that differed from ClosedSize would differ
\* on a smallest subset, and there it takes one step to ClosedSize of a smaller one.
LEMMA SizeOfBlocks ==
    ASSUME input \in Inputs, NEW S \in SUBSET BlocksOf(input)
    PROVE  (CHOOSE g : AddsUp(g, input.size, S))[S] = ClosedSize(S)
<1> DEFINE closed == [s \in SUBSET S |-> ClosedSize(s)]
<1>1. ASSUME NEW s \in SUBSET S, s # {}
      PROVE  Some(s) \in s /\ s \ {Some(s)} \in SUBSET S
  BY <1>1 DEF Some
<1>2. ClosedSize({}) = 0
  <2>1. ChunkSize \in Nat /\ Cardinality({}) = 0
    BY StreamUploaderConstants, FS_EmptySet
  <2> QED
    BY <2>1 DEF ClosedSize
<1>3. ASSUME NEW s \in SUBSET S, s # {}
      PROVE  ClosedSize(s) = BlockLength(input.size, Some(s)[2]) + ClosedSize(s \ {Some(s)})
  <2>1. s \in SUBSET BlocksOf(input) /\ Some(s) \in s
    BY <1>1, <1>3
  <2> QED
    BY <2>1, ClosedSizeStep
<1>4. AddsUp(closed, input.size, S)
  <2>1. ASSUME NEW s \in SUBSET S
        PROVE  closed[s] = IF s = {} THEN 0
                           ELSE BlockLength(input.size, Some(s)[2]) + closed[s \ {Some(s)}]
    <3>1. CASE s = {}
      BY <1>2, <3>1
    <3>2. CASE s # {}
      BY <1>1, <1>3, <3>2
    <3> QED
      BY <3>1, <3>2
  <2> QED
    BY <2>1 DEF AddsUp
<1> DEFINE g == CHOOSE h : AddsUp(h, input.size, S)
           wrong == {s \in SUBSET S : g[s] # ClosedSize(s)}
<1>5. AddsUp(g, input.size, S)
  BY <1>4
<1> HIDE DEF g
<1>6. ASSUME NEW s \in SUBSET S
      PROVE  g[s] = IF s = {} THEN 0
                    ELSE BlockLength(input.size, Some(s)[2]) + g[s \ {Some(s)}]
  BY <1>5 DEF AddsUp
<1>7. IsFiniteSet(S)
  BY BlocksAreFinite, FS_Subset
<1>8. FiniteSubsetsOf(S) = SUBSET S
  BY <1>7, FS_FiniteSubsetsOfFinite
<1>9. SUFFICES ASSUME wrong # {} PROVE FALSE
  BY DEF g
<1>10. PICK s \in wrong : \A r \in wrong : <<r, s>> \notin StrictSubsetOrdering(S)
  <2>1. wrong \subseteq FiniteSubsetsOf(S)
    BY <1>8
  <2> QED
    BY <1>9, <2>1, WFMin, FS_StrictSubsetOrderingWellFounded
<1>11. s # {}
  BY <1>2, <1>6
<1>12. <<s \ {Some(s)}, s>> \in StrictSubsetOrdering(S)
  BY <1>1, <1>11 DEF StrictSubsetOrdering
<1>13. g[s \ {Some(s)}] = ClosedSize(s \ {Some(s)})
  BY <1>1, <1>10, <1>11, <1>12
<1> QED
  BY <1>3, <1>6, <1>11, <1>13

-----------------------------------------------------------------------------
(* Types.                                                                  *)

\* The flags of the loop, the encryption, the controller and the draft.
FlagsOK == /\ encryptionFinished \in BOOLEAN
           /\ aborted \in BOOLEAN
           /\ paused \in BOOLEAN
           /\ orphaned \in BOOLEAN

LEMMA FlagsStep ==
    ASSUME FlagsOK, [Next]_vars
    PROVE  FlagsOK'
<1> USE DEF FlagsOK, server, encryption, uploads, control, main, EncryptStep, TaskFrame,
            Goto, Throw, Return, Cleanup, AbortUpload
<1>1. CASE CreateDraft \/ LoadVerificationData \/ DeleteDraft
  BY <1>1 DEF CreateDraft, LoadVerificationData, DeleteDraft
<1>2. CASE EncryptThumbnails \/ LoopCondition \/ WaitWhilePaused \/ WaitForCapacity
  BY <1>2 DEF EncryptThumbnails, LoopCondition, WaitWhilePaused, WaitForCapacity
<1>3. CASE WaitForBufferedBlocks \/ RequestAndInitiateUpload
  BY <1>3 DEF WaitForBufferedBlocks, RequestAndInitiateUpload
<1>4. CASE AwaitEncryption \/ AwaitUploads \/ CommitDraft \/ CheckCommitted \/ NotifyNodeUploaded
  BY <1>4 DEF AwaitEncryption, AwaitUploads, CommitDraft, CheckCommitted, NotifyNodeUploaded
<1>5. CASE Encryption
  BY <1>5 DEF Encryption, ReadChunk, EncryptWaitWhilePaused, WaitForBufferCapacity, EncryptBlock,
     EncryptionFails
<1>6. ASSUME NEW i \in Items, Upload(i) PROVE FlagsOK'
  BY <1>6 DEF Upload, PutSucceeds, PutFails, PutTimesOut, AwaitTurn, PutNotFound, RefreshToken
<1>7. CASE PauseOrResume \/ UserAborts \/ DraftRemoved
  BY <1>7 DEF PauseOrResume, UserAborts, DraftRemoved
<1>8. CASE UNCHANGED vars
  BY <1>8 DEF vars
<1> QED
  BY <1>1, <1>2, <1>3, <1>4, <1>5, <1>6, <1>7, <1>8 DEF Next, Main

\* The parts of any stream are among the items.
LEMMA PartsAreItems ==
    ASSUME NEW in \in Inputs
    PROVE  BlocksOf(in) \subseteq Blocks /\ Parts(in) \subseteq Items
BY DEF Blocks, Items, Parts

LEMMA ThrowTypes ==
    ASSUME TypeOK, FlagsOK', released = 0, NEW e \in Results, Throw(e)
    PROVE  TypeOK'
BY DEF TypeOK, FlagsOK, Throw, Cleanup, server, control

LEMMA GotoTypes ==
    ASSUME TypeOK, FlagsOK', NEW step \in {"paused", "capacity", "buffered", "request",
                                          "encrypted", "join", "commit", "notify"},
           Goto(step), UNCHANGED rejection,
           requested' \in {requested, buffer \cup thumbs}
    PROVE  TypeOK'
<1>1. requested' \subseteq Items
  BY PartsAreItems DEF TypeOK, Items, Parts
<1> QED
  BY <1>1 DEF TypeOK, FlagsOK, Goto, server, encryption, uploads, control

LEMMA EncryptionTypes ==
    ASSUME TypeOK, BufferInv, FlagsOK', Encryption
    PROVE  TypeOK'
<1> USE DEF EncryptStep, server, uploads, main, FlagsOK, TypeOK
<1>0. input.size \in Nat /\ BlockCount(input.size) \in Nat /\ MaxEncryptRetries \in Nat
  BY StreamUploaderConstants, BlockCounts DEF Input
<1>1. CASE ReadChunk
  <2>1. index' \in 0..BlockCount(input.size)
    BY <1>0, <1>1 DEF ReadChunk
  <2> QED
    BY <1>0, <1>1, <2>1 DEF ReadChunk, control
<1>2. CASE EncryptWaitWhilePaused \/ WaitForBufferCapacity
  BY <1>2 DEF EncryptWaitWhilePaused, WaitForBufferCapacity, control
<1>3. CASE EncryptBlock
  <2>1. buffer' \subseteq Blocks
    <3>1. index \in 1..BlockCount(input.size)
      BY <1>0, <1>3 DEF EncryptBlock, BufferInv
    <3>2. <<"block", index>> \in Blocks
      BY <3>1, PartsAreItems DEF BlocksOf
    <3> QED
      BY <1>3, <3>2 DEF EncryptBlock
  <2>2. encryptTry' \in 0..MaxEncryptRetries
    BY <1>0, <1>3 DEF EncryptBlock
  <2> QED
    BY <1>3, <2>1, <2>2 DEF EncryptBlock, control
<1>4. CASE EncryptionFails
  BY <1>4 DEF EncryptionFails, AbortUpload
<1> QED
  BY <1>1, <1>2, <1>3, <1>4 DEF Encryption

\* What the end of an attempt does to its task.
TaskTypes ==
    /\ task \in [Items -> {"none", "put", "turn", "token", "done", "failed"}]
    /\ attempt \in [Items -> 0..(MaxUploadRetries + 1)]
    /\ rejection \in {None, "error", "abort", "encryption", "upload"}
    /\ ongoing \subseteq Items

LEMMA TaskTypesStep ==
    ASSUME TaskTypes, NEW i \in Items,
           Retry(i) \/ \E e \in {"error", "abort", "encryption", "upload"} : Reject(i, e)
    PROVE  TaskTypes'
<1>1. CASE Retry(i)
  <2>1. MaxUploadRetries \in Nat
    BY StreamUploaderConstants
  <2> QED
    BY <1>1, <2>1 DEF Retry, TaskTypes
<1>2. ASSUME NEW e \in {"error", "abort", "encryption", "upload"}, Reject(i, e)
      PROVE  TaskTypes'
  BY <1>2 DEF Reject, TaskTypes
<1> QED
  BY <1>1, <1>2

LEMMA UploadTypes ==
    ASSUME TypeOK, FlagsOK', NEW i \in Items, Upload(i)
    PROVE  TypeOK'
<1>1. TaskTypes
  BY DEF TypeOK, TaskTypes
<1>2. AbortReason \in {"error", "abort", "encryption", "upload"}
  BY DEF AbortReason, TypeOK
<1>3. TaskTypes'
  <2>1. CASE PutSucceeds(i)
    BY <1>1, <2>1 DEF PutSucceeds, TaskTypes
  <2>2. CASE PutTimesOut(i) \/ PutNotFound(i)
    BY <1>1, <2>2 DEF PutTimesOut, PutNotFound, TaskTypes
  <2>3. CASE PutFails(i)
    BY <1>1, <2>3, TaskTypesStep DEF PutFails
  <2>4. CASE AwaitTurn(i) \/ RefreshToken(i)
    BY <1>1, <1>2, <2>4, TaskTypesStep DEF AwaitTurn, RefreshToken
  <2> QED
    BY <2>1, <2>2, <2>3, <2>4 DEF Upload
<1>4. stored' \subseteq Items /\ uploaded' \subseteq Items
  BY DEF Upload, PutSucceeds, PutFails, PutTimesOut, AwaitTurn, PutNotFound, RefreshToken,
     MayStore, TypeOK
<1>5. limit' \in {1, MaxUploading} /\ error' \in {None, "encryption", "upload"}
  BY DEF Upload, PutSucceeds, PutFails, PutTimesOut, AwaitTurn, PutNotFound, RefreshToken,
     AbortUpload, control, TypeOK
<1>6. TaskFrame
  BY DEF Upload, PutSucceeds, PutFails, PutTimesOut, AwaitTurn, PutNotFound, RefreshToken
<1> QED
  BY <1>3, <1>4, <1>5, <1>6 DEF TaskFrame, encryption, TypeOK, FlagsOK, TaskTypes

-----------------------------------------------------------------------------
(* The steps of the main loop, by what they do.                            *)

Ended == {"delete", "done"}
Errors == Results \ {"ok"}

\* EncryptThumbnails, when it does not fail.
ThumbnailsEncrypted ==
    /\ pc = "thumbnails" /\ pc' = "loop"
    /\ thumbs' \subseteq ThumbnailsOf(input)
    /\ encryptPc' = "read"
    /\ UNCHANGED <<input, server, index, encryptTry, encryptionFinished, uploads,
                   control, result, released, requested, rejection, buffer>>

\* RequestAndInitiateUpload, when the tokens arrive.
UploadsStarted ==
    /\ pc = "request" /\ pc' \in {"encrypted", "loop"}
    /\ thumbs' = thumbs \ requested
    /\ buffer' = buffer \ requested
    /\ ongoing' = ongoing \cup requested
    /\ task' = [i \in Items |-> IF i \in requested THEN "put" ELSE task[i]]
    /\ attempt' = [i \in Items |-> IF i \in requested THEN 1 ELSE attempt[i]]
    /\ requested' = {}
    /\ UNCHANGED <<input, server, encryption, uploaded, limit, control, result,
                   released, rejection>>

\* A step that only goes on in the loop.
GoesOn ==
    /\ pc \notin Ended \cup {"create"}
    /\ \E step \in {"paused", "capacity", "buffered", "request", "encrypted", "join",
                     "commit", "notify"} :
        /\ Goto(step)
        /\ step = "commit" => ongoing = {} /\ VerifyIntegrity
        /\ step = "notify" => draft = "committed"
    /\ requested' \in {requested, buffer \cup thumbs}
    /\ UNCHANGED rejection

Throws == pc \notin Ended /\ \E e \in Errors : Throw(e)
Returns == pc = "notify" /\ Return

LEMMA MainCases ==
    ASSUME TypeOK, Main
    PROVE  \/ CreateDraft \/ LoadVerificationData \/ DeleteDraft \/ CommitDraft
           \/ ThumbnailsEncrypted \/ UploadsStarted \/ GoesOn \/ Throws \/ Returns
<1>1. AbortReason \in Errors /\ (rejection # None => rejection \in Errors)
  BY DEF AbortReason, Errors, Results, TypeOK
<1>2. {"error", "encryption", "integrity"} \subseteq Errors
  BY DEF Errors, Results
<1>3. CASE EncryptThumbnails
  BY <1>2, <1>3 DEF EncryptThumbnails, ThumbnailsEncrypted, Throws, Ended
<1>4. CASE LoopCondition
  BY <1>1, <1>4 DEF LoopCondition, GoesOn, Throws, Ended
<1>5. CASE WaitWhilePaused
  BY <1>5 DEF WaitWhilePaused, GoesOn, Ended
<1>6. CASE WaitForCapacity
  BY <1>1, <1>6 DEF WaitForCapacity, GoesOn, Throws, Ended
<1>7. CASE WaitForBufferedBlocks
  BY <1>1, <1>7 DEF WaitForBufferedBlocks, GoesOn, Throws, Ended
<1>8. CASE RequestAndInitiateUpload
  BY <1>1, <1>2, <1>8 DEF RequestAndInitiateUpload, UploadsStarted, Throws, Ended
<1>9. CASE AwaitEncryption
  BY <1>2, <1>9 DEF AwaitEncryption, GoesOn, Throws, Ended
<1>10. CASE AwaitUploads
  BY <1>1, <1>2, <1>10 DEF AwaitUploads, GoesOn, Throws, Ended
<1>11. CASE CheckCommitted
  BY <1>2, <1>11 DEF CheckCommitted, GoesOn, Throws, Ended
<1>12. CASE NotifyNodeUploaded
  BY <1>2, <1>12 DEF NotifyNodeUploaded, Returns, Throws, Ended
<1> QED
  BY <1>3, <1>4, <1>5, <1>6, <1>7, <1>8, <1>9, <1>10, <1>11, <1>12 DEF Main

\* No step leaves the types: the capacity is released once, attempts and indices stay
\* within their limits, and tokens are requested for items only.
LEMMA TypeStep ==
    ASSUME TypeOK, BufferInv, EndInv, [Next]_vars
    PROVE  TypeOK'
<1> USE DEF server, encryption, uploads, control, main
<1>0. FlagsOK'
  BY FlagsStep DEF TypeOK, FlagsOK
<1>1. CASE CreateDraft \/ LoadVerificationData
  <2>1. released = 0 /\ released' \in 0..1
    BY <1>1 DEF CreateDraft, LoadVerificationData, EndInv
  <2> QED
    BY <1>0, <1>1, <2>1 DEF CreateDraft, LoadVerificationData, TypeOK, FlagsOK, Results
<1>2. CASE DeleteDraft \/ CommitDraft
  BY <1>0, <1>2 DEF DeleteDraft, CommitDraft, ServerCommits, TypeOK, FlagsOK
<1>3. CASE ThumbnailsEncrypted
  BY <1>0, <1>3 DEF ThumbnailsEncrypted, TypeOK, FlagsOK
<1>4. CASE UploadsStarted
  <2>1. MaxUploadRetries \in Nat /\ 1 \in 0..(MaxUploadRetries + 1)
    BY StreamUploaderConstants
  <2>2. attempt' \in [Items -> 0..(MaxUploadRetries + 1)]
    BY <1>4, <2>1 DEF UploadsStarted, TypeOK
  <2> QED
    BY <1>0, <1>4, <2>2 DEF UploadsStarted, TypeOK, FlagsOK
<1>5. CASE GoesOn
  BY <1>0, <1>5, GotoTypes DEF GoesOn
<1>6. CASE Throws
  BY <1>0, <1>6, ThrowTypes DEF Throws, EndInv, Ended, Errors
<1>7. CASE Returns
  BY <1>0, <1>7 DEF Returns, Return, Cleanup, EndInv, TypeOK, FlagsOK, Results
<1>8. CASE Encryption
  BY <1>0, <1>8, EncryptionTypes
<1>9. ASSUME NEW i \in Items, Upload(i) PROVE TypeOK'
  BY <1>0, <1>9, UploadTypes
<1>10. CASE PauseOrResume \/ UserAborts \/ DraftRemoved
  BY <1>0, <1>10 DEF PauseOrResume, UserAborts, DraftRemoved, TypeOK, FlagsOK
<1>11. CASE UNCHANGED vars
  BY <1>11 DEF vars, TypeOK
<1> QED
  BY <1>1, <1>2, <1>3, <1>4, <1>5, <1>6, <1>7, <1>8, <1>9, <1>10, <1>11, MainCases DEF Next

-----------------------------------------------------------------------------
(* What is sent, buffered and left behind.                                 *)

\* Every step sends and counts only parts of the stream.
LEMMA PartsStep ==
    ASSUME TypeOK, BufferInv, PartsInv, [Next]_vars
    PROVE  PartsInv'
<1> USE DEF server, encryption, uploads, control, main
<1>1. CASE CreateDraft \/ LoadVerificationData \/ DeleteDraft \/ CommitDraft
  BY <1>1 DEF CreateDraft, LoadVerificationData, DeleteDraft, CommitDraft, PartsInv
<1>2. CASE ThumbnailsEncrypted \/ GoesOn
  BY <1>2 DEF ThumbnailsEncrypted, GoesOn, Goto, PartsInv, Parts, TypeOK
<1>3. CASE UploadsStarted
  BY <1>3 DEF UploadsStarted, PartsInv
<1>4. CASE Throws \/ Returns
  BY <1>4 DEF Throws, Returns, Throw, Return, Cleanup, PartsInv
<1>5. CASE Encryption
  <2>1. UNCHANGED <<input, requested, task, uploaded, stored>>
    BY <1>5 DEF Encryption, ReadChunk, EncryptWaitWhilePaused, WaitForBufferCapacity,
       EncryptBlock, EncryptionFails, EncryptStep
  <2>2. buffer' \subseteq BlocksOf(input)
    <3>1. CASE EncryptBlock
      <4>1. input.size \in Nat /\ BlockCount(input.size) \in Nat
        BY StreamUploaderConstants, BlockCounts DEF Input, TypeOK
      <4>2. index \in 1..BlockCount(input.size)
        BY <3>1, <4>1 DEF EncryptBlock, BufferInv, TypeOK
      <4> QED
        BY <3>1, <4>2 DEF EncryptBlock, PartsInv, BlocksOf
    <3>2. CASE ~EncryptBlock
      BY <1>5, <3>2 DEF Encryption, ReadChunk, EncryptWaitWhilePaused, WaitForBufferCapacity,
         EncryptionFails, PartsInv
    <3> QED
      BY <3>1, <3>2
  <2> QED
    BY <2>1, <2>2 DEF PartsInv
<1>6. ASSUME NEW i \in Items, Upload(i) PROVE PartsInv'
  <2>1. TaskFrame /\ task[i] # "none" /\ i \in Parts(input)
    BY <1>6 DEF Upload, PutSucceeds, PutFails, PutTimesOut, AwaitTurn, PutNotFound, RefreshToken,
       PartsInv
  <2>2. \A j \in Items : j # i => task'[j] = task[j]
    BY <1>6 DEF Upload, PutSucceeds, PutFails, PutTimesOut, AwaitTurn, PutNotFound, RefreshToken,
       Retry, Reject, TypeOK
  <2>3. /\ stored' \in {stored, stored \cup {i}}
        /\ \/ uploaded' = uploaded
           \/ uploaded' = uploaded \cup {i} /\ stored' = stored \cup {i}
    BY <1>6 DEF Upload, PutSucceeds, PutFails, PutTimesOut, AwaitTurn, PutNotFound, RefreshToken,
       MayStore
  <2> QED
    BY <2>1, <2>2, <2>3 DEF TaskFrame, PartsInv
<1>7. CASE PauseOrResume \/ UserAborts \/ DraftRemoved
  BY <1>7 DEF PauseOrResume, UserAborts, DraftRemoved, PartsInv
<1>8. CASE UNCHANGED vars
  BY <1>8 DEF vars, PartsInv
<1> QED
  BY <1>1, <1>2, <1>3, <1>4, <1>5, <1>6, <1>7, <1>8, MainCases DEF Next

\* The buffer only shrinks under the encryption, which waits for room before it
\* encrypts a block.
LEMMA BufferStep ==
    ASSUME TypeOK, PartsInv, BufferInv, [Next]_vars
    PROVE  BufferInv'
<1> USE DEF server, encryption, uploads, control, main, BufferInv, BufferIsBounded
<1>0. MaxBuffered \in Nat \ {0} /\ IsFiniteSet(buffer) /\ Cardinality(buffer) \in Nat
  BY StreamUploaderConstants, BlocksAreFinite, FS_Subset, FS_CardinalityType DEF PartsInv, TypeOK
<1>1. ASSUME buffer' \subseteq buffer, UNCHANGED <<encryptPc, index>>
      PROVE  BufferInv'
  <2>1. Cardinality(buffer') <= Cardinality(buffer) /\ Cardinality(buffer') \in Nat
    BY <1>0, <1>1, FS_Subset, FS_CardinalityType
  <2> QED
    BY <1>0, <1>1, <2>1
<1>2. CASE CreateDraft \/ LoadVerificationData \/ DeleteDraft \/ CommitDraft
  BY <1>1, <1>2 DEF CreateDraft, LoadVerificationData, DeleteDraft, CommitDraft
<1>3. CASE ThumbnailsEncrypted
  BY <1>3 DEF ThumbnailsEncrypted
<1>4. CASE UploadsStarted \/ GoesOn \/ Throws \/ Returns
  BY <1>1, <1>4 DEF UploadsStarted, GoesOn, Goto, Throws, Returns, Throw, Return, Cleanup
<1>5. CASE ReadChunk
  <2>1. index \in Nat
    BY DEF TypeOK
  <2> QED
    BY <1>5, <2>1 DEF ReadChunk, EncryptStep
<1>6. CASE EncryptWaitWhilePaused \/ EncryptionFails
  BY <1>6 DEF EncryptWaitWhilePaused, EncryptionFails, EncryptStep
<1>7. CASE WaitForBufferCapacity
  BY <1>7 DEF WaitForBufferCapacity, EncryptStep, IsUploadAborted
<1>8. CASE EncryptBlock
  <2>1. Cardinality(buffer \cup {<<"block", index>>}) =
            IF <<"block", index>> \in buffer THEN Cardinality(buffer) ELSE Cardinality(buffer) + 1
    BY <1>0, FS_AddElement
  <2>2. /\ Cardinality(buffer \cup {<<"block", index>>}) \in Nat
        /\ Cardinality(buffer \cup {<<"block", index>>}) <= Cardinality(buffer) + 1
    BY <1>0, <2>1
  <2>3. CASE buffer' = buffer
    BY <1>8, <2>3 DEF EncryptBlock, EncryptStep
  <2>4. CASE buffer' = buffer \cup {<<"block", index>>} /\ buffer' # buffer
    <3>1. encryptPc = "encrypt" /\ encryptPc' = "read"
      BY <1>8, <2>4 DEF EncryptBlock, EncryptStep
    <3> QED
      BY <1>0, <2>2, <2>4, <3>1
  <2> QED
    BY <1>8, <2>3, <2>4 DEF EncryptBlock
<1>9. ASSUME NEW i \in Items, Upload(i) PROVE BufferInv'
  <2>1. TaskFrame
    BY <1>9 DEF Upload, PutSucceeds, PutFails, PutTimesOut, AwaitTurn, PutNotFound, RefreshToken
  <2> QED
    BY <1>1, <2>1 DEF TaskFrame
<1>10. CASE PauseOrResume \/ UserAborts \/ DraftRemoved
  BY <1>1, <1>10 DEF PauseOrResume, UserAborts, DraftRemoved
<1>11. CASE UNCHANGED vars
  BY <1>1, <1>11 DEF vars
<1> QED
  BY <1>2, <1>3, <1>4, <1>5, <1>6, <1>7, <1>8, <1>9, <1>10, <1>11, MainCases DEF Next, Encryption

\* Every way out of the upload gives the capacity back once, and only a draft that
\* the client did not learn of, or that was not deleted, is left open.
LEMMA EndStep ==
    ASSUME TypeOK, EndInv, [Next]_vars
    PROVE  EndInv'
<1> USE DEF server, encryption, uploads, control, main, EndInv
<1>1. CASE CreateDraft
  <2>1. result # "ok" /\ draft = "none" /\ released = 0
    BY <1>1 DEF CreateDraft
  <2>2. pc' = "done" /\ draft' = "open" => orphaned'
    BY <1>1, <2>1 DEF CreateDraft
  <2> QED
    BY <1>1, <2>1, <2>2 DEF CreateDraft
<1>2. CASE LoadVerificationData
  BY <1>2 DEF LoadVerificationData
<1>3. CASE DeleteDraft
  <2>1. draft' = "open" => orphaned'
    BY <1>3 DEF DeleteDraft
  <2> QED
    BY <1>3, <2>1 DEF DeleteDraft
<1>4. CASE CommitDraft
  BY <1>4 DEF CommitDraft, ServerCommits
<1>5. CASE ThumbnailsEncrypted \/ UploadsStarted
  BY <1>5 DEF ThumbnailsEncrypted, UploadsStarted
<1>6. CASE GoesOn
  BY <1>6 DEF GoesOn, Goto, Ended
<1>7. CASE Throws
  BY <1>7 DEF Throws, Throw, Cleanup, Ended, Errors
<1>8. CASE Returns
  BY <1>8 DEF Returns, Return, Cleanup
<1>9. CASE Encryption
  <2>1. UNCHANGED <<pc, result, released, draft, orphaned>>
    BY <1>9 DEF Encryption, ReadChunk, EncryptWaitWhilePaused, WaitForBufferCapacity,
       EncryptBlock, EncryptionFails, EncryptStep
  <2> QED
    BY <2>1
<1>10. ASSUME NEW i \in Items, Upload(i) PROVE EndInv'
  <2>1. TaskFrame
    BY <1>10 DEF Upload, PutSucceeds, PutFails, PutTimesOut, AwaitTurn, PutNotFound, RefreshToken
  <2> QED
    BY <2>1 DEF TaskFrame
<1>11. CASE PauseOrResume \/ UserAborts \/ DraftRemoved
  BY <1>11 DEF PauseOrResume, UserAborts, DraftRemoved
<1>12. CASE UNCHANGED vars
  BY <1>12 DEF vars
<1> QED
  BY <1>1, <1>2, <1>3, <1>4, <1>5, <1>6, <1>7, <1>8, <1>9, <1>10, <1>11, <1>12, MainCases DEF Next

-----------------------------------------------------------------------------
(* What is committed.                                                      *)

\* SizeOf of parts of the stream is what their blocks add up to.
LEMMA SizeOfParts ==
    ASSUME input \in Inputs, NEW items \in SUBSET Parts(input)
    PROVE  SizeOf(input.size, items) = ClosedSize(items \cap BlocksOf(input))
<1>1. items \cap Blocks = items \cap BlocksOf(input)
  <2>1. \A i \in ThumbnailsOf(input) : i[1] = "thumb"
    BY DEF ThumbnailsOf
  <2>2. \A i \in Blocks : i[1] = "block"
    BY DEF Blocks, BlocksOf
  <2> QED
    BY <2>1, <2>2, PartsAreItems DEF Parts
<1>2. SizeOf(input.size, items) =
          (CHOOSE g : AddsUp(g, input.size, items \cap BlocksOf(input)))[items \cap BlocksOf(input)]
  BY <1>1, SizeIsFold
<1> QED
  BY <1>2, SizeOfBlocks

\* All blocks of a stream are as long as the stream.
LEMMA SizeOfAll ==
    ASSUME input \in Inputs
    PROVE  SizeOf(input.size, Parts(input)) = input.size
<1> DEFINE N == BlockCount(input.size)
<1>1. input.size \in Nat /\ ChunkSize \in Nat \ {0}
  BY StreamUploaderConstants DEF Input
<1>2. N \in Nat /\ input.size <= N * ChunkSize /\ N * ChunkSize < input.size + ChunkSize
  BY <1>1, BlockCounts
<1>3. SizeOf(input.size, Parts(input)) = ClosedSize(BlocksOf(input))
  <2>1. Parts(input) \cap BlocksOf(input) = BlocksOf(input)
    BY DEF Parts
  <2> QED
    BY <2>1, SizeOfParts
<1>4. Cardinality(BlocksOf(input)) = N
  BY BlocksAreFinite
<1>5. <<"block", N>> \in BlocksOf(input) <=> N # 0
  BY <1>2 DEF BlocksOf
<1>6. ClosedSize(BlocksOf(input)) =
          N * ChunkSize - (IF N # 0 THEN N * ChunkSize - input.size ELSE 0)
  BY <1>4, <1>5 DEF ClosedSize
<1> HIDE DEF N
<1>7. N * ChunkSize \in Int /\ (N = 0 => N * ChunkSize = 0)
  BY <1>1, <1>2
<1> QED
  BY <1>1, <1>2, <1>3, <1>6, <1>7

\* verifyIntegrity lets nothing pass but the whole stream, unless the stream is longer
\* than announced: a stream has no more parts than are counted.
LEMMA IntegrityMeansWhole ==
    ASSUME TypeOK, PartsInv, VerifyIntegrity, input.size <= input.expectedSize
    PROVE  uploaded = Parts(input) /\ stored = uploaded /\ input.size = input.expectedSize
<1> DEFINE B == BlocksOf(input)
           T == ThumbnailsOf(input)
           u == uploaded \cap B
           v == uploaded \cap T
           E == BlockCount(input.expectedSize)
<1>1. /\ input \in Inputs /\ input.size \in Nat /\ input.expectedSize \in Nat
      /\ IsFiniteSet(input.thumbnails)
  BY StreamUploaderConstants DEF Input, TypeOK
<1>2. /\ BlockCount(input.size) \in Nat /\ E \in Nat
      /\ BlockCount(input.size) <= E
  BY <1>1, BlockCounts, MoreBlocks
<1>3. IsFiniteSet(B) /\ Cardinality(B) = BlockCount(input.size)
  BY <1>1, BlocksAreFinite
<1>4. /\ IsFiniteSet(T) /\ Cardinality(T) = Cardinality(input.thumbnails)
      /\ Cardinality(T) \in Nat
  <2>1. IsFiniteSet({"thumb"}) /\ Cardinality({"thumb"}) = 1
    BY FS_Singleton
  <2>2. Cardinality(input.thumbnails) \in Nat
    BY <1>1, FS_CardinalityType
  <2>3. IsFiniteSet(T) /\ Cardinality(T) = 1 * Cardinality(input.thumbnails)
    BY <1>1, <2>1, FS_Product DEF ThumbnailsOf
  <2> QED
    BY <2>2, <2>3
<1>5. uploaded = u \cup v /\ u \cap v = {}
  <2>1. uploaded \subseteq Parts(input)
    BY DEF PartsInv
  <2>2. B \cap T = {}
    BY DEF BlocksOf, ThumbnailsOf
  <2> QED
    BY <2>1, <2>2 DEF Parts
<1>6. /\ IsFiniteSet(u) /\ Cardinality(u) <= Cardinality(B) /\ (Cardinality(B) = Cardinality(u) => B = u)
      /\ IsFiniteSet(v) /\ Cardinality(v) <= Cardinality(T) /\ (Cardinality(T) = Cardinality(v) => T = v)
      /\ Cardinality(u) \in Nat /\ Cardinality(v) \in Nat
  <2>1. u \in SUBSET B /\ v \in SUBSET T
    OBVIOUS
  <2> HIDE DEF u, v, B, T
  <2>2. IsFiniteSet(u) /\ Cardinality(u) <= Cardinality(B) /\ (Cardinality(B) = Cardinality(u) => B = u)
    BY <1>3, <2>1, FS_Subset
  <2>3. IsFiniteSet(v) /\ Cardinality(v) <= Cardinality(T) /\ (Cardinality(T) = Cardinality(v) => T = v)
    BY <1>4, <2>1, FS_Subset
  <2> QED
    BY <2>2, <2>3, FS_CardinalityType
<1>7. Cardinality(uploaded) = Cardinality(u) + Cardinality(v)
  <2>1. Cardinality(u \cup v) = Cardinality(u) + Cardinality(v) - Cardinality(u \cap v)
    <3> HIDE DEF u, v
    <3> QED
      BY <1>6, FS_Union
  <2>2. Cardinality(u \cap v) = 0
    BY <1>5, FS_EmptySet
  <2>3. Cardinality(uploaded) = Cardinality(u \cup v)
    BY <1>5
  <2> HIDE DEF u, v
  <2> QED
    BY <1>6, <2>1, <2>2, <2>3
<1>8. Cardinality(uploaded) = E + Cardinality(T)
  BY <1>4 DEF VerifyIntegrity
<1>9. Cardinality(u) = Cardinality(B) /\ Cardinality(v) = Cardinality(T)
  <2> HIDE DEF u, v, B, T, E
  <2> QED
    BY <1>2, <1>3, <1>4, <1>6, <1>7, <1>8
<1>10. uploaded = Parts(input)
  BY <1>5, <1>6, <1>9 DEF Parts
<1>11. stored = uploaded
  BY <1>10 DEF PartsInv
<1>12. input.size = input.expectedSize
  BY <1>1, <1>10, SizeOfAll DEF VerifyIntegrity
<1> QED
  BY <1>10, <1>11, <1>12

\* A step that changes neither the stream nor the server's draft keeps what is
\* committed.
LEMMA WholeStays ==
    ASSUME CommittedIsWhole, input' = input, manifest' = manifest,
           draft' = "committed" => draft = "committed" /\ stored' = stored
    PROVE  CommittedIsWhole'
BY DEF CommittedIsWhole

\* The draft is committed with what passed verifyIntegrity.
LEMMA CommitIsWhole ==
    ASSUME TypeOK, PartsInv, CommitInv, CommitDraft
    PROVE  CommittedIsWhole'
<1> USE DEF server, encryption, uploads, control, main
<1>1. UNCHANGED <<input, stored, uploaded>>
  BY DEF CommitDraft
<1>2. CASE UNCHANGED <<draft, manifest>>
  BY <1>1, <1>2, WholeStays DEF CommitInv
<1>3. CASE ServerCommits
  <2>1. VerifyIntegrity /\ uploaded \subseteq stored
    BY DEF CommitDraft, CommitInv, PartsInv
  <2>2. SizeOf(input.size, manifest)' = SizeOf(input.size, uploaded)
    BY <1>1, <1>3 DEF ServerCommits
  <2>3. input.size <= input.expectedSize =>
            uploaded = Parts(input) /\ stored = uploaded /\ input.size = input.expectedSize
    BY <2>1, IntegrityMeansWhole
  <2> QED
    BY <1>1, <1>3, <2>1, <2>2, <2>3 DEF CommittedIsWhole, ServerCommits, VerifyIntegrity, Parts
<1> QED
  BY <1>2, <1>3 DEF CommitDraft

\* While an upload is under way the loop awaits it; nothing is stored or counted
\* between verifyIntegrity and the commit, nor after it.
LEMMA CommitStep ==
    ASSUME TypeOK, PartsInv, EndInv, CommitInv, [Next]_vars
    PROVE  CommitInv'
<1> USE DEF server, encryption, uploads, control, main
<1>1. ASSUME UNCHANGED <<input, uploaded>>
      PROVE  VerifyIntegrity' <=> VerifyIntegrity
  BY <1>1 DEF VerifyIntegrity
<1>2. CASE CreateDraft \/ LoadVerificationData \/ DeleteDraft
  <2>1. CommittedIsWhole'
    BY <1>2, WholeStays DEF CreateDraft, LoadVerificationData, DeleteDraft, CommitInv
  <2> QED
    BY <1>2, <2>1 DEF CreateDraft, LoadVerificationData, DeleteDraft, CommitInv
<1>3. CASE CommitDraft
  <2>1. CommittedIsWhole'
    BY <1>3, CommitIsWhole
  <2> QED
    BY <1>3, <2>1 DEF CommitDraft, CommitInv
<1>4. CASE ThumbnailsEncrypted
  <2>1. CommittedIsWhole'
    BY <1>4, WholeStays DEF ThumbnailsEncrypted, CommitInv
  <2> QED
    BY <1>4, <2>1 DEF ThumbnailsEncrypted, CommitInv
<1>5. CASE UploadsStarted
  <2>1. CommittedIsWhole'
    BY <1>5, WholeStays DEF UploadsStarted, CommitInv
  <2>2. \A i \in Items : task'[i] \in Active => i \in ongoing'
    BY <1>5 DEF UploadsStarted, CommitInv
  <2> QED
    BY <1>5, <2>1, <2>2 DEF UploadsStarted, CommitInv
<1>6. CASE GoesOn
  <2>1. CommittedIsWhole'
    BY <1>6, WholeStays DEF GoesOn, Goto, CommitInv
  <2>2. pc' = "commit" => ongoing' = {} /\ VerifyIntegrity'
    BY <1>1, <1>6 DEF GoesOn, Goto
  <2>3. \A i \in Items : task'[i] \in Active => i \in ongoing'
    BY <1>6 DEF GoesOn, Goto, Ended, CommitInv
  <2> QED
    BY <2>1, <2>2, <2>3 DEF CommitInv
<1>7. CASE Throws \/ Returns
  <2>1. CommittedIsWhole'
    BY <1>7, WholeStays DEF Throws, Returns, Throw, Return, CommitInv
  <2> QED
    BY <1>7, <2>1 DEF Throws, Returns, Throw, Return, CommitInv
<1>8. CASE Encryption
  <2>1. UNCHANGED <<input, server, uploads, main>>
    BY <1>8 DEF Encryption, ReadChunk, EncryptWaitWhilePaused, WaitForBufferCapacity,
       EncryptBlock, EncryptionFails, EncryptStep
  <2>2. CommittedIsWhole' /\ (VerifyIntegrity' <=> VerifyIntegrity)
    BY <1>1, <2>1, WholeStays DEF CommitInv
  <2> QED
    BY <2>1, <2>2 DEF CommitInv
<1>9. ASSUME NEW i \in Items, Upload(i) PROVE CommitInv'
  <2>1. TaskFrame /\ task[i] \in Active
    BY <1>9 DEF Upload, PutSucceeds, PutFails, PutTimesOut, AwaitTurn, PutNotFound, RefreshToken,
       Active
  <2>2. CommittedIsWhole'
    <3>1. draft = "committed" => stored' = stored
      BY <1>9 DEF Upload, PutSucceeds, PutFails, PutTimesOut, AwaitTurn, PutNotFound,
         RefreshToken, MayStore
    <3> QED
      BY <2>1, <3>1, WholeStays DEF TaskFrame, CommitInv
  <2>3. pc # "commit"
    BY <2>1 DEF CommitInv
  <2>4. /\ \A j \in Items : j # i => task'[j] = task[j]
        /\ \/ ongoing' = ongoing
           \/ ongoing' = ongoing \ {i} /\ task'[i] \in {"done", "failed"}
    <3>1. CASE PutSucceeds(i)
      BY <3>1 DEF PutSucceeds, TypeOK
    <3>2. CASE PutTimesOut(i) \/ PutNotFound(i)
      BY <3>2 DEF PutTimesOut, PutNotFound, TypeOK
    <3>3. CASE PutFails(i) \/ AwaitTurn(i) \/ RefreshToken(i)
      BY <3>3 DEF PutFails, AwaitTurn, RefreshToken, Retry, Reject, TypeOK
    <3> QED
      BY <1>9, <3>1, <3>2, <3>3 DEF Upload
  <2>5. pc' = pc
    BY <2>1 DEF TaskFrame
  <2>6. pc \notin {"delete", "done"} => \A j \in Items : task'[j] \in Active => j \in ongoing'
    BY <2>1, <2>4 DEF CommitInv, Active
  <2> QED
    BY <2>2, <2>3, <2>5, <2>6 DEF CommitInv
<1>10. CASE PauseOrResume \/ UserAborts \/ DraftRemoved
  <2>1. CommittedIsWhole' /\ (VerifyIntegrity' <=> VerifyIntegrity)
    BY <1>1, <1>10, WholeStays DEF PauseOrResume, UserAborts, DraftRemoved, CommitInv
  <2> QED
    BY <1>10, <2>1 DEF PauseOrResume, UserAborts, DraftRemoved, CommitInv
<1>11. CASE UNCHANGED vars
  <2>1. CommittedIsWhole' /\ (VerifyIntegrity' <=> VerifyIntegrity)
    BY <1>1, <1>11, WholeStays DEF vars, CommitInv
  <2> QED
    BY <1>11, <2>1 DEF vars, CommitInv
<1> QED
  BY <1>2, <1>3, <1>4, <1>5, <1>6, <1>7, <1>8, <1>9, <1>10, <1>11, MainCases DEF Next

-----------------------------------------------------------------------------
(* The theorems.                                                           *)

LEMMA InitInv == Init => TypeOK /\ StreamInv
<1> SUFFICES ASSUME Init PROVE TypeOK /\ StreamInv
  OBVIOUS
<1>1. /\ {ChunkSize, MaxBuffered, MaxUploading} \subseteq Nat \ {0}
      /\ {MaxEncryptRetries, MaxUploadRetries} \subseteq Nat
      /\ None \notin Results
  BY StreamUploaderConstants
<1>2. input \in Inputs /\ input.size \in Nat /\ BlockCount(input.size) \in Nat
  BY StreamUploaderConstants, BlockCounts DEF Init, Input
<1>3. FlagsOK
  BY DEF Init, FlagsOK
<1>4. TypeOK
  BY <1>1, <1>2, <1>3 DEF Init, TypeOK, FlagsOK
<1>5. PartsInv
  BY DEF Init, PartsInv
<1>6. BufferInv
  BY <1>1, FS_EmptySet DEF Init, BufferInv, BufferIsBounded
<1>7. EndInv
  BY <1>1 DEF Init, EndInv, Results
<1>8. CommitInv
  BY DEF Init, CommitInv, CommittedIsWhole, Active
<1> QED
  BY <1>4, <1>5, <1>6, <1>7, <1>8 DEF StreamInv

LEMMA Inductive == Spec => [](TypeOK /\ StreamInv)
<1>1. TypeOK /\ StreamInv /\ [Next]_vars => TypeOK' /\ StreamInv'
  BY TypeStep, PartsStep, BufferStep, EndStep, CommitStep DEF StreamInv
<1> QED
  BY <1>1, InitInv, PTL DEF Spec

\* The maps of the uploader hold what they may, retries are counted up to their limits
\* and the buffer of encrypted blocks does not grow past MAX_BUFFERED_BLOCKS, also when
\* the maps are cleared under a running encryption.
THEOREM BoundsHold == Spec => []WithinBounds
<1>1. TypeOK /\ StreamInv => WithinBounds
  BY DEF StreamInv, BufferInv, WithinBounds
<1> QED
  BY <1>1, Inductive, PTL

\* Whatever fails and in whatever order, completion() resolves only on a committed
\* revision, the capacity of the queue is given back exactly once, and no draft is left
\* open that the client could have deleted.
THEOREM EndsAreRight == Spec => []UploadEndsRight
<1>1. TypeOK /\ StreamInv => UploadEndsRight
  BY DEF StreamInv, EndInv, UploadEndsRight, OkMeansCommitted, EndsCleanly
<1> QED
  BY <1>1, Inductive, PTL

\* What commitDraft commits is on the server and has the announced size and digest; if
\* the stream is no longer than announced it is the whole stream, for every size of the
\* stream and the chunks and every interleaving of failing uploads with the loop.
THEOREM CommitsAreWhole == Spec => []CommittedIsWhole
<1>1. TypeOK /\ StreamInv => CommittedIsWhole
  BY DEF StreamInv, CommitInv
<1> QED
  BY <1>1, Inductive, PTL
=============================================================================
