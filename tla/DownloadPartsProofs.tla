------------------------ MODULE DownloadPartsProofs ------------------------
(***************************************************************************)
(* Proofs about the downloads of the JS SDK, for revisions of any number   *)
(* of blocks and any limits: what the caller gets of a download to a       *)
(* stream, that slots, progress, clean-up and results are accounted for,   *)
(* and that a seekable stream reads the bytes at its position.             *)
(***************************************************************************)
EXTENDS DownloadParts, TLAPS, FiniteSetTheorems, SequenceTheorems

-----------------------------------------------------------------------------
(* The inductive invariant of a download to a stream.                      *)

\* The blocks whose download was started: those before fromBlockIndex.
Started == {b \in revision.blocks : b < fromBlockIndex}

\* The block written last, or 0.
LastWritten == IF written = <<>> THEN 0 ELSE written[Len(written)].block

\* The indexes: what was started and not written is ongoing, and a page is the
\* beginning of what is left.
IndexInv ==
    /\ fromBlockIndex \in Nat \ {0} /\ nextBlockIndex \in 1..fromBlockIndex
    /\ ongoing = {b \in revision.blocks : nextBlockIndex <= b /\ b < fromBlockIndex}
    /\ \A b \in 1..(nextBlockIndex - 1) : b \in revision.blocks
    /\ \A b \in page : b >= fromBlockIndex
    /\ \A b \in page, c \in revision.blocks : fromBlockIndex <= c /\ c <= b => c \in page
    /\ pc = "block" => page # {}
    /\ pc = "manifest" => ongoing = {}
    /\ ~aborted /\ pc \in {"rest", "lastFlush", "manifest"} => Started = revision.blocks

\* The tasks: a block that was written is in the buffer or was, and stays there.
TaskInv ==
    /\ \A b \in Blocks : task[b] # "none" => b \in Started
    /\ \A b \in 1..(nextBlockIndex - 1) : task[b] = "buffered"
    /\ rewriting => pc \in {"flush", "lastFlush", "done"} /\ IsNextBlockDownloaded

\* The stream.
WriteInv ==
    /\ LastWritten = nextBlockIndex - 1 \/ (rewriting /\ LastWritten = nextBlockIndex)
    /\ Output = 1..LastWritten
    /\ \A i \in 1..Len(written) :
          written[i].block - (IF i = 1 THEN 0 ELSE written[i - 1].block) \in {0, 1}
    /\ Safe => /\ \A b \in Blocks : content[b] = "good"
               /\ \A i \in 1..Len(written) : written[i].content = "good"

\* What the manifest is compared with: one hash for each block that was started.
HashInv ==
    /\ pc \in {"keys", "page"} /\ fromBlockIndex = 1 => hashes = <<>>
    /\ pc \in {"capacity", "flush"} => fromBlockIndex > 1
    /\ manifest # "missing" =>
          /\ manifest = revision.signature
          /\ Len(hashes) = (IF revision.thumbnail THEN 1 ELSE 0) + Cardinality(Started)

\* How it ended.
EndInv ==
    /\ result # "none" \/ signatureIssues => pc = "done"
    /\ result = "ok" => \A b \in Blocks : task[b] \in {"none", "buffered"}
    /\ VerifiedIsWhole /\ SignatureIssuesMeanComplete
    /\ FinishedAndReportedOnce

\* The buffer, for a revision without a gap.
BufferInv ==
    revision.blocks = 1..Cardinality(revision.blocks) =>
        /\ Cardinality(ongoing) <= MaxOngoing
        /\ pc \in {"keys", "page", "block"} => Cardinality(ongoing) < MaxOngoing
        /\ pc = "flush" => Cardinality(ongoing) < MaxOngoing \/ IsNextBlockDownloaded

\* The progress: one for each block that is arriving or has arrived.
ProgressInv ==
    /\ \A b \in Blocks :
          /\ blockProgress[b] \in {0, 1}
          /\ task[b] \in {"receive", "buffered"} => blockProgress[b] = 1
          /\ task[b] \in {"none", "wait", "get", "token"} => blockProgress[b] = 0
    /\ fileProgress = Cardinality({b \in Blocks : blockProgress[b] = 1})
    /\ result = "ok" => fileProgress = Cardinality(Output)

FileInv ==
    IndexInv /\ TaskInv /\ WriteInv /\ HashInv /\ EndInv /\ BufferInv /\ ProgressInv
-----------------------------------------------------------------------------
(* The steps of the loop, by what they do.                                 *)

\* The loop goes on to another place and does nothing else.
Moves(step) ==
    /\ Continue(step) /\ UNCHANGED <<end, tasks, user>>
    /\ \/ pc = "keys" /\ step = "page"
       \/ pc = "page" /\ step = "rest" /\ aborted
       \/ /\ pc = "capacity" /\ step = "flush"
          /\ Cardinality(ongoing) < MaxOngoing \/ IsNextBlockDownloaded \/ Unfinished = {}
       \/ pc = "flush" /\ step = "page" /\ page = {} /\ ~IsNextBlockDownloaded
       \/ pc = "flush" /\ step = "block" /\ page # {} /\ ~IsNextBlockDownloaded
       \/ pc = "lastFlush" /\ step = "manifest" /\ ongoing = {} /\ ~IsNextBlockDownloaded
       \/ pc = "rest" /\ step = "lastFlush" /\ Unfinished = {}

\* A page arrives.
PageComes ==
    /\ pc = "page" /\ ~aborted
    /\ page' = PageOf(fromBlockIndex)
    /\ hashes' = IF fromBlockIndex = 1 /\ revision.thumbnail THEN <<0>> ELSE hashes
    /\ manifest' = IF fromBlockIndex = 1 THEN revision.signature ELSE manifest
    /\ pc' = IF page' = {} THEN "rest" ELSE "block"
    /\ UNCHANGED <<fromBlockIndex, nextBlockIndex, ongoing, written, rewriting, end, tasks, user>>

\* The block that is next.
Chunk == [block |-> nextBlockIndex, content |-> content[nextBlockIndex]]

\* A block is written, or its first write fails.
Writes ==
    /\ pc \in {"flush", "lastFlush"} /\ IsNextBlockDownloaded
    /\ written' = Append(written, Chunk)
    /\ ongoing' = ongoing \ {nextBlockIndex} /\ nextBlockIndex' = nextBlockIndex + 1
    /\ rewriting' = FALSE
    /\ UNCHANGED <<pc, page, fromBlockIndex, hashes, manifest, end, tasks, user>>

WriteFails ==
    /\ pc \in {"flush", "lastFlush"} /\ IsNextBlockDownloaded
    /\ ~rewriting /\ rewriting' = TRUE
    /\ written' \in {written, Append(written, Chunk)}
    /\ UNCHANGED <<pc, page, fromBlockIndex, hashes, manifest, nextBlockIndex, ongoing, end,
                   tasks, user>>

\* The download ends with an error, without its keys, or well.
Ends(e) ==
    /\ pc # "done" /\ e \in Errors \cup {"signature"} /\ (e = "signature" => pc = "manifest")
    /\ Fails(e) /\ UNCHANGED <<tasks, user>>

KeysFail ==
    /\ pc = "keys" /\ Continue("done") /\ result' = "server"
    /\ UNCHANGED <<signatureIssues, finished, reported, tasks, user>>

EndsWell ==
    /\ pc = "manifest"
    /\ revision.mode = "safe" => manifest = "good" /\ hashes = Signed
    /\ Succeeds /\ UNCHANGED <<tasks, user>>

LEMMA LoopCases ==
    ASSUME DownloadTypeOK, LoopStep
    PROVE  \/ \E step : Moves(step)
           \/ PageComes \/ StartBlock \/ Writes \/ WriteFails
           \/ \E e : Ends(e)
           \/ KeysFail \/ EndsWell
<1>1. CASE GetRevisionKeys
  BY <1>1 DEF GetRevisionKeys, Moves, KeysFail
<1>2. CASE IterateRevisionBlocks
  <2>1. UNCHANGED <<tasks, user>> /\ pc = "page" /\ "server" \in Errors /\ "abort" \in Errors
    BY <1>2 DEF IterateRevisionBlocks, Errors
  <2>2. CASE aborted /\ Continue("rest") /\ UNCHANGED end
    <3>1. Moves("rest")
      BY <2>1, <2>2 DEF Moves
    <3> QED
      BY <3>1
  <2>3. CASE Fails("server") \/ Fails("abort")
    <3>1. Ends("server") \/ Ends("abort")
      BY <2>1, <2>3 DEF Ends
    <3> QED
      BY <3>1
  <2>4. CASE ~Fails("server") /\ ~Fails("abort") /\ ~(aborted /\ Continue("rest") /\ UNCHANGED end)
    <3>1. PageComes
      BY <1>2, <2>4 DEF IterateRevisionBlocks, PageComes
    <3> QED
      BY <3>1
  <2> QED
    BY <2>2, <2>3, <2>4
<1>3. CASE StartBlock
  BY <1>3
<1>4. CASE WaitForDownloadCapacity
  <2>1. pc = "capacity" /\ UNCHANGED <<tasks, user>>
    BY <1>4 DEF WaitForDownloadCapacity
  <2>2. CASE \E b \in Unfinished : task[b] \in Errors /\ Fails(task[b])
    <3>1. PICK b \in Unfinished : task[b] \in Errors /\ Fails(task[b])
      BY <2>2
    <3>2. Ends(task[b])
      BY <2>1, <3>1 DEF Ends, Errors
    <3> QED
      BY <3>2
  <2>3. CASE ~(\E b \in Unfinished : task[b] \in Errors /\ Fails(task[b]))
    <3>1. Moves("flush")
      BY <1>4, <2>1, <2>3 DEF WaitForDownloadCapacity, Moves
    <3> QED
      BY <3>1
  <2> QED
    BY <2>2, <2>3
<1>5. CASE FlushCompletedBlocks
  <2>1. UNCHANGED <<tasks, user>> /\ pc \in {"flush", "lastFlush"} /\ "server" \in Errors
    BY <1>5 DEF FlushCompletedBlocks, Errors
  <2>2. CASE Fails("server")
    <3>1. Ends("server")
      BY <2>1, <2>2 DEF Ends
    <3> QED
      BY <3>1
  <2>3. CASE ~Fails("server")
    BY <1>5, <2>3 DEF FlushCompletedBlocks, Writes, WriteFails, Chunk
  <2> QED
    BY <2>2, <2>3
<1>6. CASE Flushed
  <2>1. /\ pc \in {"flush", "lastFlush"} /\ ~IsNextBlockDownloaded /\ UNCHANGED <<tasks, user>>
        /\ "server" \in Errors
    BY <1>6 DEF Flushed, Errors
  <2>2. CASE pc = "flush"
    <3>1. Continue(IF page = {} THEN "page" ELSE "block") /\ UNCHANGED end
      BY <1>6, <2>2 DEF Flushed
    <3>2. Moves(IF page = {} THEN "page" ELSE "block")
      BY <2>1, <2>2, <3>1 DEF Moves
    <3> QED
      BY <3>2
  <2>3. CASE pc # "flush" /\ ongoing # {}
    <3>1. Ends("server")
      BY <1>6, <2>1, <2>3 DEF Flushed, Ends
    <3> QED
      BY <3>1
  <2>4. CASE pc # "flush" /\ ongoing = {}
    <3>1. Moves("manifest")
      BY <1>6, <2>1, <2>4 DEF Flushed, Moves
    <3> QED
      BY <3>1
  <2> QED
    BY <2>2, <2>3, <2>4
<1>7. CASE AwaitDownloads
  <2>1. UNCHANGED <<tasks, user>> /\ pc = "rest"
    BY <1>7 DEF AwaitDownloads
  <2>2. CASE \E b \in Unfinished : task[b] \in Errors /\ Fails(task[b])
    <3>1. PICK b \in Unfinished : task[b] \in Errors /\ Fails(task[b])
      BY <2>2
    <3>2. Ends(task[b])
      BY <2>1, <3>1 DEF Ends, Errors
    <3> QED
      BY <3>2
  <2>3. CASE ~(\E b \in Unfinished : task[b] \in Errors /\ Fails(task[b]))
    <3>1. Moves("lastFlush")
      BY <1>7, <2>1, <2>3 DEF AwaitDownloads, Moves
    <3> QED
      BY <3>1
  <2> QED
    BY <2>2, <2>3
<1>8. CASE VerifyManifest
  <2>1. pc = "manifest" /\ UNCHANGED <<tasks, user>> /\ "integrity" \in Errors
    BY <1>8 DEF VerifyManifest, Errors
  <2>2. CASE Fails("integrity")
    <3>1. Ends("integrity")
      BY <2>1, <2>2 DEF Ends
    <3> QED
      BY <3>1
  <2>3. CASE Fails("signature")
    <3>1. Ends("signature")
      BY <2>1, <2>3 DEF Ends
    <3> QED
      BY <3>1
  <2>4. CASE ~Fails("integrity") /\ ~Fails("signature")
    <3>1. EndsWell
      BY <1>8, <2>1, <2>4 DEF VerifyManifest, EndsWell
    <3> QED
      BY <3>1
  <2> QED
    BY <2>2, <2>3, <2>4
<1> QED
  BY <1>1, <1>2, <1>3, <1>4, <1>5, <1>6, <1>7, <1>8 DEF LoopStep
\* A step of a block leaves the loop alone; it belongs to a block that is under way.
LEMMA BlockCases ==
    ASSUME DownloadTypeOK, NEW b \in Blocks, BlockStep(b)
    PROVE  /\ UNCHANGED <<loop, end, user>>
           /\ task[b] \in {"wait", "get", "receive", "token"}
           /\ \E s \in {"wait", "get", "receive", "token", "buffered"} \cup Errors :
                 task' = [task EXCEPT ![b] = s]
           /\ content' = content \/
                 \E c \in {"good", "bad"} : (Safe => c = "good") /\ content' = [content EXCEPT ![b] = c]
<1> USE DEF Task, Errors
<1>1. CASE BlockWaits(b)
  BY <1>1 DEF BlockWaits
<1>2. CASE BlockProgress(b)
  BY <1>2 DEF BlockProgress
<1>3. CASE BlockArrives(b)
  <2>1. PICK c \in {"good", "bad"} : (Safe => c = "good") /\ content' = [content EXCEPT ![b] = c]
    BY <1>3 DEF BlockArrives
  <2>2. /\ task' = [task EXCEPT ![b] = "buffered"] /\ UNCHANGED <<loop, end, user>>
        /\ task[b] = "receive"
    BY <1>3 DEF BlockArrives
  <2> QED
    BY <2>1, <2>2
<1>4. CASE BlockFails(b)
  BY <1>4 DEF BlockFails
<1>5. CASE GetRevisionBlockToken(b)
  BY <1>5 DEF GetRevisionBlockToken
<1> QED
  BY <1>1, <1>2, <1>3, <1>4, <1>5 DEF BlockStep

\* The caller pauses, resumes or aborts: aborted is for good, and not after the end.
UserStep ==
    /\ UNCHANGED <<loop, end, tasks>> /\ (aborted => aborted') /\ (pc = "done" => aborted' = aborted)

LEMMA FileCases ==
    ASSUME DownloadTypeOK, [DownloadNext]_downloadVars
    PROVE  /\ revision' = revision
           /\ \/ LoopStep
              \/ \E b \in Blocks : BlockStep(b)
              \/ UserStep
<1>1. CASE Pause \/ Resume \/ Abort
  <2>1. UserStep
    BY <1>1 DEF Pause, Resume, Abort, UserStep
  <2>2. CASE revision' = revision
    BY <2>1, <2>2
  <2>3. CASE UNCHANGED downloadVars
    BY <2>1, <2>3 DEF downloadVars
  <2> QED
    BY <2>2, <2>3 DEF DownloadNext
<1>2. CASE UNCHANGED downloadVars
  <2>1. UserStep
    BY <1>2 DEF UserStep, downloadVars, user
  <2> QED
    BY <1>2, <2>1 DEF downloadVars
<1> QED
  BY <1>1, <1>2 DEF DownloadNext

-----------------------------------------------------------------------------
(* Types.                                                                  *)

FileFlags ==
    /\ retried \in [Blocks -> BOOLEAN]
    /\ rewriting \in BOOLEAN /\ aborted \in BOOLEAN /\ paused \in BOOLEAN
    /\ signatureIssues \in BOOLEAN

LEMMA FileFlagsStep ==
    ASSUME DownloadTypeOK, [DownloadNext]_downloadVars
    PROVE  FileFlags'
<1>1. FileFlags
  BY Zenon DEF DownloadTypeOK, FileFlags
<1>2. CASE UNCHANGED downloadVars
  BY <1>1, <1>2, Zenon DEF FileFlags, downloadVars, loop, end, tasks, user
<1>3. CASE Pause \/ Resume \/ Abort
  BY <1>1, <1>3, Zenon DEF FileFlags, Pause, Resume, Abort, loop, end, tasks, user
<1>4. ASSUME NEW b \in Blocks, BlockStep(b)
      PROVE  FileFlags'
  <2>1. UNCHANGED <<loop, end, user>>
    BY <1>4, BlockCases
  <2>2. retried' = retried \/ retried' = [retried EXCEPT ![b] = TRUE]
    BY <1>4 DEF BlockStep, BlockWaits, BlockProgress, BlockArrives, BlockFails, GetRevisionBlockToken
  <2>3. retried' \in [Blocks -> BOOLEAN]
    BY <1>1, <2>2, Zenon DEF FileFlags
  <2> QED
    BY <1>1, <2>1, <2>3, Zenon DEF FileFlags, loop, end, user
<1>5. CASE LoopStep
  <2>1. ASSUME NEW step, Moves(step)
        PROVE  FileFlags'
    BY <1>1, <2>1, Zenon DEF Moves, Continue, FileFlags, end, tasks, user
  <2>2. CASE PageComes \/ StartBlock \/ Writes \/ WriteFails \/ KeysFail
    BY <1>1, <2>2, Zenon DEF PageComes, StartBlock, Writes, WriteFails, KeysFail, Continue,
       FileFlags, end, tasks, user
  <2>3. ASSUME NEW e, Ends(e)
        PROVE  FileFlags'
    <3>1. signatureIssues' \in BOOLEAN
      BY <2>3 DEF Ends, Fails, Finish
    <3> QED
      BY <1>1, <2>3, <3>1, Zenon DEF Ends, Fails, FileFlags, tasks, user
  <2>4. CASE EndsWell
    BY <1>1, <2>4, Zenon DEF EndsWell, Succeeds, FileFlags, tasks, user
  <2> QED
    BY <1>5, <2>1, <2>2, <2>3, <2>4, LoopCases
<1> QED
  BY <1>2, <1>3, <1>4, <1>5 DEF DownloadNext

\* A set of numbers that is not empty has a least one.
LEMMA LeastNumber ==
    ASSUME NEW S, S \subseteq Nat, S # {}
    PROVE  \E m \in S : \A y \in S : m <= y
<1>1. PICK m \in S : \A y \in S : <<y, m>> \notin OpToRel(<, Nat)
  BY NatLessThanWellFounded, WFMin, Zenon
<1>2. \A y \in S : y \in Nat /\ m \in Nat /\ ~(y < m)
  BY <1>1 DEF OpToRel
<1> QED
  BY <1>2

\* The smallest of a set of numbers.
LEMMA MinIs ==
    ASSUME NEW S, S \subseteq Nat, S # {}
    PROVE  Min(S) \in S /\ \A y \in S : Min(S) <= y
BY LeastNumber DEF Min

\* The blocks of a revision are numbers, finitely many.
LEMMA BlocksAre ==
    ASSUME revision \in Cases
    PROVE  /\ revision.blocks \subseteq Nat \ {0} /\ IsFiniteSet(revision.blocks)
           /\ revision.blocks \subseteq Blocks /\ Blocks \subseteq Nat \ {0}
           /\ revision.signature \in {"good", "bad", "missing"}
           /\ Cardinality(revision.blocks) \in Nat
           /\ \A S \in SUBSET revision.blocks : IsFiniteSet(S) /\ Cardinality(S) \in Nat
<1>1. revision \in Case /\ IsFiniteSet(revision.blocks)
  BY FileDownloaderConstants
<1>2. /\ revision.blocks \subseteq Nat \ {0}
      /\ revision.signature \in {"good", "bad", "missing"}
  BY <1>1 DEF Case
<1>3. revision.blocks \subseteq Blocks
  BY DEF Blocks
<1>4. Blocks \subseteq Nat \ {0}
  BY FileDownloaderConstants DEF Blocks, Case
<1>5. \A S \in SUBSET revision.blocks : IsFiniteSet(S) /\ Cardinality(S) \in Nat
  BY <1>1, FS_Subset, FS_CardinalityType
<1> QED
  BY <1>1, <1>2, <1>3, <1>4, <1>5

\* The errors that are reported, as a sequence.
LEMMA CategoryIs ==
    ASSUME NEW e
    PROVE  LET s == SetToSeq(GetErrorCategory(e)) IN
           /\ s \in Seq({"finished", "server_error", "decryption_error", "integrity_error"})
           /\ Len(s) = IF e = "abort" THEN 0 ELSE 1
<1> DEFINE C == GetErrorCategory(e)
           W == {"finished", "server_error", "decryption_error", "integrity_error"}
           s == SetToSeq(C)
<1>1. (e = "abort" /\ C = {}) \/ (e # "abort" /\ \E x \in W : C = {x})
  BY DEF GetErrorCategory
<1>2. C \subseteq W
  BY <1>1
<1>3. IsFiniteSet(C) /\ Cardinality(C) = IF e = "abort" THEN 0 ELSE 1
  <2> HIDE DEF C
  <2>1. CASE e = "abort"
    BY <1>1, <2>1, FS_EmptySet
  <2>2. CASE e # "abort"
    <3>1. PICK x \in W : C = {x}
      BY <1>1, <2>2
    <3> QED
      BY <2>2, <3>1, FS_Singleton
  <2> QED
    BY <2>1, <2>2
<1> HIDE DEF C, W
<1>4. PICK f : f \in Bijection(1..Cardinality(C), C)
  BY <1>3, FS_CardinalityType DEF ExistsBijection
<1>5. f \in [1..Cardinality(C) -> C] /\ IsInjective(f)
  BY <1>4 DEF Bijection, Injection, IsInjective
<1>6. s \in [1..Cardinality(C) -> C]
  BY <1>5 DEF SetToSeq
<1> HIDE DEF s
<1>7. s \in [1..Cardinality(C) -> W] /\ Cardinality(C) \in Nat
  BY <1>2, <1>3, <1>6
<1>8. s \in Seq(W) /\ Len(s) = Cardinality(C)
  BY <1>7
<1> QED
  BY <1>3, <1>8 DEF s, C, W
Places == {"keys", "page", "block", "capacity", "flush", "rest", "lastFlush", "manifest", "done"}
Written == [block : Blocks, content : {"good", "bad"}]
Words == {"finished", "server_error", "decryption_error", "integrity_error"}
TaskStates == {"none", "wait", "get", "receive", "token", "buffered"} \cup Errors

\* DownloadTypeOK in three parts: the loop, the tasks and the end.
LoopTypes ==
    /\ revision \in Cases /\ pc \in Places
    /\ page \subseteq revision.blocks /\ ongoing \subseteq revision.blocks
    /\ hashes \in Seq(Blocks \cup {0}) /\ manifest \in {"good", "bad", "missing"}
    /\ written \in Seq(Written)
    /\ fromBlockIndex \in Nat /\ nextBlockIndex \in Nat

TaskTypes ==
    /\ task \in [Blocks -> TaskStates]
    /\ content \in [Blocks -> {"good", "bad"}]
    /\ blockProgress \in [Blocks -> Nat] /\ fileProgress \in Int
    /\ expired \in Nat /\ pauses \in Nat

EndTypes ==
    /\ finished \in Nat
    /\ result \in Errors \cup {"none", "ok", "signature"}
    /\ reported \in Seq(Words)

LEMMA FileTypes ==
    DownloadTypeOK <=> FileFlags /\ LoopTypes /\ TaskTypes /\ EndTypes
BY DEF DownloadTypeOK, FileFlags, LoopTypes, TaskTypes, EndTypes, Places, Written, Words, TaskStates

LEMMA FileTypesAfter ==
    ASSUME FileFlags', LoopTypes', TaskTypes', EndTypes'
    PROVE  DownloadTypeOK'
BY DEF DownloadTypeOK, FileFlags, LoopTypes, TaskTypes, EndTypes, Places, Written, Words, TaskStates

\* The block StartBlock starts is the first that is left.
LEMMA FirstOfPage ==
    ASSUME DownloadTypeOK, IndexInv, pc = "block"
    PROVE  LET b == Min(page) IN
           /\ b \in page /\ b \in revision.blocks /\ b \in Nat /\ b >= fromBlockIndex
           /\ \A c \in revision.blocks : c >= fromBlockIndex => c >= b
<1> DEFINE b == Min(page)
<1>1. /\ page \subseteq revision.blocks /\ page # {} /\ revision \in Cases
      /\ fromBlockIndex \in Nat
  BY DEF DownloadTypeOK, IndexInv
<1>2. revision.blocks \subseteq Nat /\ IsFiniteSet(page)
  BY <1>1, BlocksAre
<1>3. page \subseteq Nat
  BY <1>1, <1>2
<1>4. b \in page /\ \A y \in page : b <= y
  BY <1>1, <1>2, <1>3, MinIs
<1> HIDE DEF b
<1>5. b \in revision.blocks /\ b \in Nat /\ b >= fromBlockIndex
  BY <1>1, <1>3, <1>4 DEF IndexInv
<1>6. ASSUME NEW c \in revision.blocks, c >= fromBlockIndex
      PROVE  c >= b
  <2>1. c \in Nat
    BY <1>2
  <2> SUFFICES ASSUME c < b PROVE FALSE
    BY <1>5, <2>1
  <2>2. c \in page
    BY <1>1, <1>4, <1>5, <1>6, <2>1 DEF IndexInv
  <2> QED
    BY <1>4, <1>5, <2>1, <2>2
<1> QED
  BY <1>4, <1>5, <1>6 DEF b

\* The block that is written.
LEMMA ChunkIs ==
    ASSUME DownloadTypeOK, IsNextBlockDownloaded
    PROVE  /\ nextBlockIndex \in ongoing /\ nextBlockIndex \in revision.blocks
           /\ nextBlockIndex \in Blocks /\ nextBlockIndex \in Nat
           /\ Chunk \in Written /\ Chunk.block = nextBlockIndex
           /\ Chunk.content = content[nextBlockIndex]
<1>1. nextBlockIndex \in ongoing /\ ongoing \subseteq revision.blocks /\ revision \in Cases
  BY DEF IsNextBlockDownloaded, DownloadTypeOK
<1>2. nextBlockIndex \in revision.blocks /\ nextBlockIndex \in Blocks /\ nextBlockIndex \in Nat
  BY <1>1, BlocksAre
<1>3. content[nextBlockIndex] \in {"good", "bad"}
  BY <1>2 DEF DownloadTypeOK
<1> QED
  BY <1>1, <1>2, <1>3 DEF Chunk, Written

LEMMA LoopTypesStep ==
    ASSUME DownloadTypeOK, FileInv, LoopStep, revision' = revision
    PROVE  LoopTypes'
<1>1. LoopTypes /\ IndexInv
  BY FileTypes DEF FileInv
<1>2. /\ revision.blocks \subseteq Nat \ {0} /\ revision.blocks \subseteq Blocks
      /\ revision.signature \in {"good", "bad", "missing"}
  BY <1>1, BlocksAre DEF LoopTypes
<1>3. ASSUME NEW step, Moves(step)
      PROVE  LoopTypes'
  BY <1>1, <1>3 DEF LoopTypes, Moves, Continue, Places
<1>4. CASE PageComes
  <2>1. hashes' \in Seq(Blocks \cup {0})
    <3>1. <<0>> \in Seq(Blocks \cup {0})
      OBVIOUS
    <3>2. hashes' \in {<<0>>, hashes}
      BY <1>4 DEF PageComes
    <3> QED
      BY <1>1, <3>1, <3>2 DEF LoopTypes
  <2>2. page' \subseteq revision.blocks /\ pc' \in Places
    BY <1>4 DEF PageComes, PageOf, Places
  <2> QED
    BY <1>1, <1>2, <1>4, <2>1, <2>2 DEF LoopTypes, PageComes
<1>5. CASE StartBlock
  <2> DEFINE b == Min(page)
  <2>1. /\ page' = page \ {b} /\ fromBlockIndex' = b + 1 /\ hashes' = Append(hashes, b)
        /\ ongoing' = ongoing \cup {b} /\ pc' = "capacity" /\ pc = "block"
        /\ UNCHANGED <<nextBlockIndex, manifest, written>>
    BY <1>5 DEF StartBlock
  <2>2. b \in revision.blocks /\ b \in Nat
    BY <1>1, <2>1, FirstOfPage
  <2> HIDE DEF b
  <2>3. hashes' \in Seq(Blocks \cup {0})
    BY <1>1, <1>2, <2>1, <2>2 DEF LoopTypes
  <2> QED
    BY <1>1, <2>1, <2>2, <2>3 DEF LoopTypes, Places
<1>6. CASE Writes \/ WriteFails
  <2>1. Chunk \in Written /\ nextBlockIndex \in Nat
    BY <1>6, ChunkIs DEF Writes, WriteFails
  <2>2. written' \in Seq(Written)
    BY <1>1, <1>6, <2>1 DEF Writes, WriteFails, LoopTypes
  <2> QED
    BY <1>1, <1>6, <2>1, <2>2 DEF LoopTypes, Writes, WriteFails
<1>7. CASE KeysFail \/ EndsWell
  BY <1>1, <1>7 DEF LoopTypes, KeysFail, EndsWell, Succeeds, Continue, Places
<1>8. ASSUME NEW e, Ends(e)
      PROVE  LoopTypes'
  BY <1>1, <1>8 DEF LoopTypes, Ends, Fails, Finish, Places
<1> QED
  BY <1>3, <1>4, <1>5, <1>6, <1>7, <1>8, LoopCases

LEMMA EndTypesStep ==
    ASSUME DownloadTypeOK, LoopStep
    PROVE  EndTypes'
<1>1. EndTypes
  BY FileTypes
<1>2. CASE (\E step : Moves(step)) \/ PageComes \/ StartBlock \/ Writes \/ WriteFails
  <2>1. UNCHANGED end
    BY <1>2 DEF Moves, PageComes, StartBlock, Writes, WriteFails
  <2> QED
    BY <1>1, <2>1 DEF EndTypes, end
<1>3. CASE KeysFail
  BY <1>1, <1>3 DEF KeysFail, EndTypes, Errors
<1>4. CASE EndsWell
  <2>1. reported' = Append(reported, "finished") /\ "finished" \in Words
    BY <1>4 DEF EndsWell, Succeeds, Words
  <2> QED
    BY <1>1, <1>4, <2>1 DEF EndsWell, Succeeds, EndTypes
<1>5. ASSUME NEW e, Ends(e)
      PROVE  EndTypes'
  <2> DEFINE s == SetToSeq(GetErrorCategory(e))
  <2>1. s \in Seq(Words)
    BY CategoryIs DEF Words
  <2>2. reported' = reported \o s /\ result' = e /\ finished' = finished + 1
        /\ e \in Errors \cup {"signature"}
    BY <1>5 DEF Ends, Fails, Finish
  <2> HIDE DEF s
  <2> QED
    BY <1>1, <2>1, <2>2 DEF EndTypes
<1> QED
  BY <1>2, <1>3, <1>4, <1>5, LoopCases

LEMMA FileTypeStep ==
    ASSUME DownloadTypeOK, FileInv, [DownloadNext]_downloadVars
    PROVE  DownloadTypeOK'
<1>1. LoopTypes /\ TaskTypes /\ EndTypes /\ FileFlags'
  BY FileTypes, FileFlagsStep
<1>2. revision' = revision
  BY FileCases
<1>3. CASE LoopStep
  <2>1. LoopTypes' /\ EndTypes'
    BY <1>2, <1>3, LoopTypesStep, EndTypesStep
  <2>2. CASE StartBlock
    <3> DEFINE b == Min(page)
    <3>1. b \in Blocks
      <4>1. b \in revision.blocks
        BY <2>2, FirstOfPage DEF StartBlock, FileInv
      <4> QED
        BY <1>1, <4>1, BlocksAre DEF LoopTypes
    <3>2. /\ task' = [task EXCEPT ![b] = "wait"]
          /\ UNCHANGED <<content, blockProgress, fileProgress, expired, user>>
      BY <2>2 DEF StartBlock
    <3> HIDE DEF b
    <3>3. TaskTypes'
      BY <1>1, <3>1, <3>2 DEF TaskTypes, TaskStates, user
    <3> QED
      BY <1>1, <2>1, <3>3, FileTypesAfter
  <2>3. CASE ~StartBlock
    <3>1. UNCHANGED <<tasks, user>>
      BY <1>3, <2>3 DEF LoopStep, GetRevisionKeys, IterateRevisionBlocks, WaitForDownloadCapacity,
         FlushCompletedBlocks, Flushed, AwaitDownloads, VerifyManifest
    <3>2. TaskTypes'
      BY <1>1, <3>1 DEF TaskTypes, tasks, user
    <3> QED
      BY <1>1, <2>1, <3>2, FileTypesAfter
  <2> QED
    BY <2>2, <2>3
<1>4. ASSUME NEW b \in Blocks, BlockStep(b)
      PROVE  DownloadTypeOK'
  <2>1. UNCHANGED <<loop, end, user>>
    BY <1>4, BlockCases
  <2>2. LoopTypes' /\ EndTypes'
    BY <1>1, <1>2, <2>1 DEF LoopTypes, EndTypes, loop, end
  <2>3. task' \in [Blocks -> TaskStates]
    <3>1. PICK s \in {"wait", "get", "receive", "token", "buffered"} \cup Errors :
             task' = [task EXCEPT ![b] = s]
      BY <1>4, BlockCases
    <3> QED
      BY <1>1, <3>1 DEF TaskTypes, TaskStates
  <2>4. content' \in [Blocks -> {"good", "bad"}]
    BY <1>1, <1>4, BlockCases DEF TaskTypes
  <2>5. /\ blockProgress' \in [Blocks -> Nat] /\ fileProgress' \in Int
        /\ expired' \in Nat /\ pauses' \in Nat
    <3>1. blockProgress[b] \in Nat
      BY <1>1 DEF TaskTypes
    <3> QED
      BY <1>1, <1>4, <2>1, <3>1 DEF TaskTypes, BlockStep, BlockWaits, BlockProgress, BlockArrives,
         BlockFails, TakeBackProgress, GetRevisionBlockToken, user
  <2>6. TaskTypes'
    BY <2>3, <2>4, <2>5 DEF TaskTypes
  <2> QED
    BY <1>1, <2>2, <2>6, FileTypesAfter
<1>5. CASE Pause \/ Resume \/ Abort \/ UNCHANGED downloadVars
  <2>1. UNCHANGED <<loop, end, tasks>> /\ (pauses' = pauses \/ pauses' = pauses + 1)
    BY <1>5 DEF Pause, Resume, Abort, downloadVars, user
  <2>2. LoopTypes' /\ EndTypes' /\ TaskTypes'
    BY <1>1, <1>2, <2>1 DEF LoopTypes, EndTypes, TaskTypes, loop, end, tasks
  <2> QED
    BY <1>1, <2>2, FileTypesAfter
<1> QED
  BY <1>3, <1>4, <1>5 DEF DownloadNext

-----------------------------------------------------------------------------
(* The indexes.                                                            *)

\* A page is the beginning of what is left, and empty only if nothing is left.
LEMMA PageIs ==
    ASSUME revision \in Cases, NEW from \in Nat
    PROVE  /\ \A b \in PageOf(from) : b \in revision.blocks /\ b >= from
           /\ \A b \in PageOf(from), c \in revision.blocks :
                 from <= c /\ c <= b => c \in PageOf(from)
           /\ PageOf(from) = {} => \A b \in revision.blocks : b < from
<1> DEFINE R == {b \in revision.blocks : b >= from}
           L(b) == {c \in R : c < b}
<1>1. revision.blocks \subseteq Nat
  BY BlocksAre
<1>2. IsFiniteSet(R)
  BY BlocksAre
<1>3. \A b : IsFiniteSet(L(b)) /\ Cardinality(L(b)) \in Nat
  BY <1>2, FS_Subset, FS_CardinalityType
<1>4. \A b : b \in PageOf(from) <=> b \in R /\ Cardinality(L(b)) < PageSize
  BY DEF PageOf
<1>5. PageSize \in Nat /\ PageSize > 0
  BY FileDownloaderConstants
<1>6. ASSUME NEW b \in PageOf(from), NEW c \in revision.blocks, from <= c, c <= b
      PROVE  c \in PageOf(from)
  <2>1. b \in Nat /\ c \in Nat /\ c \in R
    BY <1>1, <1>4, <1>6
  <2>2. L(c) \subseteq L(b)
    BY <1>1, <1>6, <2>1
  <2>3. IsFiniteSet(L(b)) /\ Cardinality(L(b)) < PageSize
    BY <1>3, <1>4
  <2>4. Cardinality(L(c)) \in Nat /\ Cardinality(L(b)) \in Nat
    BY <1>3
  <2> HIDE DEF L, R
  <2>5. Cardinality(L(c)) <= Cardinality(L(b))
    BY <2>2, <2>3, FS_Subset
  <2>6. Cardinality(L(c)) < PageSize
    BY <1>5, <2>3, <2>4, <2>5
  <2> QED
    BY <1>4, <2>1, <2>6
<1>7. ASSUME PageOf(from) = {}
      PROVE  \A b \in revision.blocks : b < from
  <2> SUFFICES R = {}
    BY <1>1
  <2> SUFFICES ASSUME R # {} PROVE FALSE
    OBVIOUS
  <2> DEFINE m == Min(R)
  <2>1. R \subseteq Nat
    BY <1>1
  <2>2. m \in R /\ \A y \in R : m <= y
    <3> HIDE DEF R
    <3> QED
      BY <1>2, <2>1, MinIs
  <2> HIDE DEF m
  <2>3. L(m) = {}
    BY <2>1, <2>2
  <2>4. Cardinality(L(m)) = 0
    <3> HIDE DEF L
    <3> QED
      BY <2>3, FS_EmptySet
  <2> QED
    BY <1>4, <1>5, <1>7, <2>2, <2>4
<1> QED
  BY <1>4, <1>6, <1>7

LEMMA IndexStep ==
    ASSUME DownloadTypeOK, FileInv, [DownloadNext]_downloadVars
    PROVE  IndexInv'
<1>1. IndexInv /\ LoopTypes /\ revision' = revision /\ revision \in Cases
  BY FileTypes, FileCases DEF FileInv, LoopTypes
<1>2. revision.blocks \subseteq Nat \ {0}
  BY <1>1, BlocksAre
<1>3. CASE UserStep
  BY <1>1, <1>3 DEF UserStep, IndexInv, Started, loop
<1>4. CASE \E b \in Blocks : BlockStep(b)
  <2>1. UNCHANGED <<loop, user>>
    BY <1>4, BlockCases
  <2> QED
    BY <1>1, <2>1 DEF IndexInv, Started, loop, user
<1>5. CASE \E step : Moves(step)
  BY <1>1, <1>5 DEF Moves, Continue, IndexInv, Started, user
<1>6. CASE PageComes
  <2>1. /\ UNCHANGED <<fromBlockIndex, nextBlockIndex, ongoing, user>>
        /\ page' = PageOf(fromBlockIndex) /\ pc' = IF page' = {} THEN "rest" ELSE "block"
    BY <1>6 DEF PageComes
  <2>2. /\ \A b \in page' : b \in revision.blocks /\ b >= fromBlockIndex
        /\ \A b \in page', c \in revision.blocks : fromBlockIndex <= c /\ c <= b => c \in page'
        /\ page' = {} => \A b \in revision.blocks : b < fromBlockIndex
    <3>1. fromBlockIndex \in Nat
      BY <1>1 DEF LoopTypes
    <3> QED
      BY <1>1, <2>1, <3>1, PageIs
  <2> QED
    BY <1>1, <2>1, <2>2 DEF IndexInv, Started
<1>7. CASE StartBlock
  <2> DEFINE b == Min(page)
  <2>1. /\ page' = page \ {b} /\ fromBlockIndex' = b + 1
        /\ ongoing' = ongoing \cup {b} /\ pc' = "capacity" /\ pc = "block"
        /\ UNCHANGED <<nextBlockIndex, user>>
    BY <1>7 DEF StartBlock
  <2>2. /\ b \in page /\ b \in revision.blocks /\ b \in Nat /\ b >= fromBlockIndex
        /\ \A c \in revision.blocks : c >= fromBlockIndex => c >= b
    BY <1>1, <2>1, FirstOfPage
  <2> HIDE DEF b
  <2>3. fromBlockIndex' \in Nat \ {0} /\ nextBlockIndex' \in 1..fromBlockIndex'
    BY <1>1, <2>1, <2>2 DEF IndexInv
  <2>4. ongoing' = {c \in revision.blocks : nextBlockIndex <= c /\ c < b + 1}
    BY <1>1, <1>2, <2>1, <2>2 DEF IndexInv
  <2>5. \A c \in page' : c >= b + 1
    BY <1>1, <1>2, <2>1, <2>2 DEF IndexInv, LoopTypes
  <2>6. \A d \in page', c \in revision.blocks : b + 1 <= c /\ c <= d => c \in page'
    BY <1>1, <1>2, <2>1, <2>2 DEF IndexInv, LoopTypes
  <2> QED
    BY <1>1, <2>1, <2>3, <2>4, <2>5, <2>6 DEF IndexInv
<1>8. CASE Writes
  <2>1. /\ ongoing' = ongoing \ {nextBlockIndex} /\ nextBlockIndex' = nextBlockIndex + 1
        /\ UNCHANGED <<pc, page, fromBlockIndex, user>> /\ pc \in {"flush", "lastFlush"}
    BY <1>8 DEF Writes
  <2>2. nextBlockIndex \in ongoing /\ nextBlockIndex \in revision.blocks /\ nextBlockIndex \in Nat
    BY <1>8, ChunkIs DEF Writes
  <2>3. nextBlockIndex' \in 1..fromBlockIndex
    BY <1>1, <2>1, <2>2 DEF IndexInv
  <2>4. ongoing' = {c \in revision.blocks : nextBlockIndex + 1 <= c /\ c < fromBlockIndex}
    BY <1>1, <1>2, <2>1, <2>2 DEF IndexInv
  <2>5. \A c \in 1..(nextBlockIndex + 1 - 1) : c \in revision.blocks
    BY <1>1, <2>2 DEF IndexInv
  <2> QED
    BY <1>1, <2>1, <2>3, <2>4, <2>5 DEF IndexInv, Started, user
<1>9. CASE WriteFails
  BY <1>1, <1>9 DEF WriteFails, IndexInv, Started, user
<1>10. CASE KeysFail \/ EndsWell \/ \E e : Ends(e)
  BY <1>1, <1>10 DEF KeysFail, EndsWell, Ends, Fails, Finish, Succeeds, Continue, IndexInv, user
<1> QED
  BY <1>3, <1>4, <1>5, <1>6, <1>7, <1>8, <1>9, <1>10, FileCases, LoopCases

-----------------------------------------------------------------------------
(* The tasks.                                                              *)

\* Only between a failed write and its repetition is a block written twice.
LEMMA NotRewriting ==
    ASSUME FileInv, ~IsNextBlockDownloaded \/ pc \notin {"flush", "lastFlush", "done"}
    PROVE  ~rewriting
BY DEF FileInv, TaskInv

LEMMA TaskStep ==
    ASSUME DownloadTypeOK, FileInv, [DownloadNext]_downloadVars
    PROVE  TaskInv'
<1>1. /\ IndexInv /\ TaskInv /\ LoopTypes /\ TaskTypes
      /\ revision' = revision /\ revision \in Cases
  BY FileTypes, FileCases DEF FileInv, LoopTypes
<1>2. revision.blocks \subseteq Nat \ {0} /\ revision.blocks \subseteq Blocks
  BY <1>1, BlocksAre
<1>3. \A b \in 1..(nextBlockIndex - 1) : b \in Blocks
  BY <1>1, <1>2 DEF IndexInv
<1>4. CASE UserStep
  BY <1>1, <1>4 DEF UserStep, TaskInv, Started, IsNextBlockDownloaded, loop, tasks
<1>5. ASSUME NEW b \in Blocks, BlockStep(b)
      PROVE  TaskInv'
  <2>1. UNCHANGED loop /\ task[b] \in {"wait", "get", "receive", "token"}
    BY <1>5, BlockCases
  <2>2. PICK s \in {"wait", "get", "receive", "token", "buffered"} \cup Errors :
           task' = [task EXCEPT ![b] = s]
    BY <1>5, BlockCases
  <2>3. \A c \in Blocks : c # b => task'[c] = task[c]
    BY <1>1, <2>2 DEF TaskTypes
  <2>4. \A c \in Blocks : task[c] = "buffered" => task'[c] = "buffered"
    BY <2>1, <2>3
  <2>5. IsNextBlockDownloaded => IsNextBlockDownloaded'
    BY <1>1, <1>2, <2>1, <2>4 DEF IsNextBlockDownloaded, LoopTypes, loop
  <2>6. \A c \in Blocks : task'[c] # "none" => c \in Started
    BY <1>1, <2>1, <2>3 DEF TaskInv
  <2>7. Started' = Started
    BY <1>1, <2>1 DEF Started, loop
  <2>8. \A c \in 1..(nextBlockIndex - 1) : task'[c] = "buffered"
    BY <1>1, <1>3, <2>4 DEF TaskInv
  <2> QED
    BY <1>1, <2>1, <2>5, <2>6, <2>7, <2>8 DEF TaskInv, loop
<1>6. CASE \E step : Moves(step)
  <2>1. ~rewriting
    BY <1>6, NotRewriting DEF Moves
  <2> QED
    BY <1>1, <1>6, <2>1 DEF Moves, Continue, TaskInv, Started, tasks
<1>7. CASE PageComes
  <2>1. ~rewriting
    BY <1>7, NotRewriting DEF PageComes
  <2> QED
    BY <1>1, <1>7, <2>1 DEF PageComes, TaskInv, Started, tasks
<1>8. CASE StartBlock
  <2> DEFINE b == Min(page)
  <2>1. /\ fromBlockIndex' = b + 1 /\ task' = [task EXCEPT ![b] = "wait"] /\ pc = "block"
        /\ UNCHANGED <<nextBlockIndex, rewriting>>
    BY <1>8 DEF StartBlock
  <2>2. b \in revision.blocks /\ b \in Nat /\ b >= fromBlockIndex
    BY <1>1, <2>1, FirstOfPage
  <2> HIDE DEF b
  <2>3. ~rewriting
    BY <2>1, NotRewriting
  <2>4. fromBlockIndex \in Nat /\ nextBlockIndex \in Nat /\ nextBlockIndex <= fromBlockIndex
    BY <1>1 DEF IndexInv
  <2>5. Started' = Started \cup {b}
    <3>1. \A c \in revision.blocks : c < b + 1 <=> c < fromBlockIndex \/ c = b
      <4>1. \A c \in revision.blocks : c >= fromBlockIndex => c >= b
        BY <1>1, <2>1, FirstOfPage DEF b
      <4> QED
        BY <1>2, <2>2, <2>4, <4>1
    <3> QED
      BY <1>1, <2>1, <2>2, <3>1 DEF Started
  <2>6. \A c \in Blocks : task'[c] # "none" => c \in Started'
    BY <1>1, <2>1, <2>5 DEF TaskInv, TaskTypes
  <2>7. \A c \in 1..(nextBlockIndex - 1) : c # b
    BY <2>2, <2>4
  <2>8. \A c \in 1..(nextBlockIndex - 1) : task'[c] = "buffered"
    BY <1>1, <1>3, <2>1, <2>7 DEF TaskInv, TaskTypes
  <2> QED
    BY <2>1, <2>3, <2>6, <2>8 DEF TaskInv
<1>9. CASE Writes
  <2>1. /\ nextBlockIndex' = nextBlockIndex + 1 /\ ~rewriting'
        /\ UNCHANGED <<fromBlockIndex, task>> /\ task[nextBlockIndex] = "buffered"
    BY <1>9 DEF Writes, tasks, IsNextBlockDownloaded
  <2>2. nextBlockIndex \in Nat
    BY <1>9, ChunkIs DEF Writes
  <2>3. nextBlockIndex' - 1 = nextBlockIndex /\ task' = task
    BY <2>1, <2>2
  <2>7. \A c \in 1..nextBlockIndex : task[c] = "buffered"
    BY <1>1, <2>1, <2>2 DEF TaskInv
  <2>4. Started' = Started /\ ~rewriting'
    BY <1>1, <2>1 DEF Started
  <2>5. \A c \in Blocks : task'[c] # "none" => c \in Started'
    BY <1>1, <2>1, <2>4 DEF TaskInv
  <2>6. \A c \in 1..(nextBlockIndex' - 1) : task'[c] = "buffered"
    BY <2>3, <2>7, Zenon
  <2> QED
    BY <2>4, <2>5, <2>6, Zenon DEF TaskInv
<1>10. CASE WriteFails
  BY <1>1, <1>10 DEF WriteFails, TaskInv, Started, IsNextBlockDownloaded, tasks
<1>11. CASE KeysFail \/ EndsWell \/ \E e : Ends(e)
  BY <1>1, <1>11 DEF KeysFail, EndsWell, Ends, Fails, Finish, Succeeds, Continue, TaskInv, Started,
     IsNextBlockDownloaded, tasks
<1> QED
  BY <1>4, <1>5, <1>6, <1>7, <1>8, <1>9, <1>10, <1>11, FileCases, LoopCases

-----------------------------------------------------------------------------
(* The stream.                                                             *)

\* What a write, complete or not, adds to the stream.
LEMMA ChunkWritten ==
    ASSUME DownloadTypeOK, FileInv, IsNextBlockDownloaded, written' = Append(written, Chunk),
           revision' = revision
    PROVE  /\ LastWritten' = nextBlockIndex /\ Output' = 1..nextBlockIndex
           /\ \A i \in 1..Len(written') :
                 written'[i].block - (IF i = 1 THEN 0 ELSE written'[i - 1].block) \in {0, 1}
           /\ Safe => \A i \in 1..Len(written') : written'[i].content = "good"
<1> DEFINE n == nextBlockIndex
           L == Len(written)
           P(w, i) == w[i].block - (IF i = 1 THEN 0 ELSE w[i - 1].block) \in {0, 1}
<1>1. /\ n \in Nat /\ Chunk \in Written /\ Chunk.block = n /\ Chunk.content = content[n]
      /\ n \in Blocks
  BY ChunkIs
<1>2. written \in Seq(Written) /\ L \in Nat /\ WriteInv /\ IndexInv
  BY FileTypes DEF LoopTypes, FileInv
<1>3. n >= 1
  BY <1>2 DEF IndexInv
<1>4. /\ Len(written') = L + 1 /\ written'[L + 1] = Chunk
      /\ \A i \in 1..L : written'[i] = written[i]
  BY <1>1, <1>2
<1>5. LastWritten \in {n - 1, n}
  BY <1>1, <1>2 DEF WriteInv
<1>6. LastWritten' = n
  <2>1. written' # <<>>
    BY <1>2, <1>4
  <2> QED
    BY <1>1, <1>4, <2>1 DEF LastWritten
<1>7. Output' = Output \cup {n}
  BY <1>1, <1>2, <1>4 DEF Output
<1>8. Output' = 1..n
  BY <1>1, <1>2, <1>3, <1>5, <1>7 DEF WriteInv
<1>9. ASSUME NEW i \in 1..(L + 1)
      PROVE  P(written', i)
  <2>1. CASE i = L + 1
    <3>1. CASE L = 0
      <4>1. written = <<>>
        BY <1>2, <3>1
      <4> QED
        BY <1>1, <1>3, <1>4, <1>5, <2>1, <3>1, <4>1 DEF LastWritten
    <3>2. CASE L # 0
      <4>1. written # <<>> /\ i # 1 /\ i - 1 = L /\ L \in 1..L
        BY <1>2, <2>1, <3>2
      <4>2. written'[i - 1].block = LastWritten
        BY <1>4, <4>1 DEF LastWritten
      <4> QED
        BY <1>1, <1>4, <1>5, <2>1, <4>1, <4>2
    <3> QED
      BY <3>1, <3>2
  <2>2. CASE i # L + 1
    <3>1. i \in 1..L /\ (i # 1 => i - 1 \in 1..L)
      BY <1>2, <2>2
    <3>2. P(written, i)
      BY <1>2, <3>1 DEF WriteInv
    <3> QED
      BY <1>4, <3>1, <3>2
  <2> QED
    BY <2>1, <2>2
<1>10. ASSUME Safe, NEW i \in 1..(L + 1)
       PROVE  written'[i].content = "good"
  <2>1. CASE i = L + 1
    BY <1>1, <1>2, <1>4, <1>10, <2>1 DEF WriteInv
  <2>2. CASE i # L + 1
    <3>1. i \in 1..L
      BY <1>2, <2>2
    <3> QED
      BY <1>2, <1>4, <1>10, <3>1 DEF WriteInv
  <2> QED
    BY <2>1, <2>2
<1> QED
  BY <1>4, <1>6, <1>8, <1>9, <1>10

LEMMA WriteStep ==
    ASSUME DownloadTypeOK, FileInv, [DownloadNext]_downloadVars
    PROVE  WriteInv'
<1>1. WriteInv /\ TaskTypes /\ revision' = revision /\ Safe' = Safe /\ nextBlockIndex \in Nat
  BY FileTypes, FileCases DEF FileInv, Safe, LoopTypes
<1>2. CASE UNCHANGED <<written, nextBlockIndex, rewriting, content>>
  BY <1>1, <1>2 DEF WriteInv, LastWritten, Output
<1>3. ASSUME NEW b \in Blocks, BlockStep(b)
      PROVE  WriteInv'
  <2>1. UNCHANGED <<written, nextBlockIndex, rewriting>>
    BY <1>3, BlockCases DEF loop
  <2>2. \/ content' = content
        \/ \E c \in {"good", "bad"} : (Safe => c = "good") /\ content' = [content EXCEPT ![b] = c]
    BY <1>3, BlockCases
  <2>3. Safe => \A c \in Blocks : content'[c] = "good"
    BY <1>1, <2>2 DEF WriteInv, TaskTypes
  <2>4. Output' = Output /\ LastWritten' = LastWritten
    BY <2>1 DEF Output, LastWritten
  <2> QED
    BY <1>1, <2>1, <2>3, <2>4 DEF WriteInv
<1>4. CASE Writes
  <2>1. /\ LastWritten' = nextBlockIndex /\ Output' = 1..nextBlockIndex
        /\ \A i \in 1..Len(written') :
              written'[i].block - (IF i = 1 THEN 0 ELSE written'[i - 1].block) \in {0, 1}
        /\ Safe => \A i \in 1..Len(written') : written'[i].content = "good"
    BY <1>1, <1>4, ChunkWritten DEF Writes
  <2>2. nextBlockIndex' - 1 = nextBlockIndex /\ content' = content
    BY <1>1, <1>4 DEF Writes, tasks
  <2> QED
    BY <1>1, <2>1, <2>2 DEF WriteInv
<1>5. CASE WriteFails /\ written' # written
  <2>1. /\ LastWritten' = nextBlockIndex /\ Output' = 1..nextBlockIndex
        /\ \A i \in 1..Len(written') :
              written'[i].block - (IF i = 1 THEN 0 ELSE written'[i - 1].block) \in {0, 1}
        /\ Safe => \A i \in 1..Len(written') : written'[i].content = "good"
    BY <1>1, <1>5, ChunkWritten DEF WriteFails
  <2>2. nextBlockIndex' = nextBlockIndex /\ content' = content /\ rewriting' = TRUE
    BY <1>5 DEF WriteFails, tasks
  <2> QED
    BY <1>1, <2>1, <2>2 DEF WriteInv
<1>6. CASE WriteFails /\ written' = written
  <2>1. UNCHANGED <<written, nextBlockIndex, content>> /\ rewriting' = TRUE
    BY <1>6 DEF WriteFails, tasks
  <2> QED
    BY <1>1, <2>1 DEF WriteInv, LastWritten, Output
<1>7. CASE (\E step : Moves(step)) \/ PageComes \/ StartBlock \/ KeysFail \/ EndsWell
           \/ (\E e : Ends(e)) \/ UserStep
  <2>1. UNCHANGED <<written, nextBlockIndex, rewriting, content>>
    BY <1>7 DEF Moves, PageComes, StartBlock, KeysFail, EndsWell, Ends, Fails, Succeeds, Continue,
       UserStep, loop, tasks
  <2> QED
    BY <1>2, <2>1
<1> QED
  BY <1>3, <1>4, <1>5, <1>6, <1>7, FileCases, LoopCases

-----------------------------------------------------------------------------
(* What is compared with the manifest.                                     *)

\* A block that is started is one more.
LEMMA StartedGrows ==
    ASSUME DownloadTypeOK, FileInv, StartBlock, revision' = revision
    PROVE  /\ Started' = Started \cup {Min(page)} /\ Min(page) \notin Started
           /\ IsFiniteSet(Started) /\ Cardinality(Started) \in Nat
           /\ Cardinality(Started') = Cardinality(Started) + 1
<1> DEFINE b == Min(page)
<1>1. /\ fromBlockIndex' = b + 1 /\ pc = "block" /\ IndexInv /\ LoopTypes
  BY FileTypes DEF StartBlock, FileInv
<1>2. /\ b \in revision.blocks /\ b \in Nat /\ b >= fromBlockIndex
      /\ \A c \in revision.blocks : c >= fromBlockIndex => c >= b
  BY <1>1, FirstOfPage
<1> HIDE DEF b
<1>3. revision.blocks \subseteq Nat \ {0} /\ fromBlockIndex \in Nat /\ revision \in Cases
  BY <1>1, BlocksAre DEF LoopTypes
<1>4. \A c \in revision.blocks : c < b + 1 <=> c < fromBlockIndex \/ c = b
  BY <1>2, <1>3
<1>5. Started' = Started \cup {b} /\ b \notin Started
  BY <1>1, <1>2, <1>3, <1>4 DEF Started
<1>6. Started \in SUBSET revision.blocks
  BY DEF Started
<1>7. IsFiniteSet(Started) /\ Cardinality(Started) \in Nat
  BY <1>3, <1>6, BlocksAre
<1>8. Cardinality(Started \cup {b}) = Cardinality(Started) + 1
  BY <1>5, <1>7, FS_AddElement
<1> QED
  BY <1>5, <1>7, <1>8 DEF b

LEMMA HashStep ==
    ASSUME DownloadTypeOK, FileInv, [DownloadNext]_downloadVars
    PROVE  HashInv'
<1>1. /\ IndexInv /\ HashInv /\ LoopTypes /\ revision' = revision /\ revision \in Cases
      /\ fromBlockIndex \in Nat
  BY FileTypes, FileCases DEF FileInv, LoopTypes
<1>2. CASE UserStep \/ (\E b \in Blocks : BlockStep(b)) \/ WriteFails \/ Writes
  <2>1. UNCHANGED <<pc, fromBlockIndex, hashes, manifest>>
    BY <1>2, BlockCases DEF UserStep, WriteFails, Writes, loop
  <2> QED
    BY <1>1, <2>1 DEF HashInv, Started
<1>3. CASE \E step : Moves(step)
  <2>1. UNCHANGED <<fromBlockIndex, hashes, manifest>>
    BY <1>3 DEF Moves, Continue
  <2>2. /\ pc' \in {"capacity", "flush"} => pc = "capacity"
        /\ pc' \in {"keys", "page"} => pc \in {"keys", "flush"}
    BY <1>3 DEF Moves, Continue
  <2>3. Started' = Started
    BY <1>1, <2>1 DEF Started
  <2> QED
    BY <1>1, <2>1, <2>2, <2>3 DEF HashInv
<1>4. CASE PageComes
  <2>1. /\ fromBlockIndex' = fromBlockIndex /\ pc' \in {"rest", "block"} /\ pc = "page"
        /\ hashes' = IF fromBlockIndex = 1 /\ revision.thumbnail THEN <<0>> ELSE hashes
        /\ manifest' = IF fromBlockIndex = 1 THEN revision.signature ELSE manifest
    BY <1>4 DEF PageComes
  <2>2. Started' = Started
    BY <1>1, <2>1 DEF Started
  <2>3. CASE fromBlockIndex = 1
    <3>1. hashes = <<>>
      BY <1>1, <2>1, <2>3 DEF HashInv
    <3>2. Started = {}
      <4>1. revision.blocks \subseteq Nat \ {0}
        BY <1>1, BlocksAre
      <4> QED
        BY <2>3, <4>1 DEF Started
    <3>3. Cardinality(Started) = 0
      BY <3>2, FS_EmptySet
    <3>4. Len(hashes') = IF revision.thumbnail THEN 1 ELSE 0
      BY <2>1, <2>3, <3>1
    <3>5. Len(hashes') = (IF revision.thumbnail THEN 1 ELSE 0) + Cardinality(Started)
      BY <3>3, <3>4
    <3> QED
      BY <1>1, <2>1, <2>2, <2>3, <3>5 DEF HashInv
  <2>4. CASE fromBlockIndex # 1
    BY <1>1, <2>1, <2>2, <2>4 DEF HashInv
  <2> QED
    BY <2>3, <2>4
<1>5. CASE StartBlock
  <2> DEFINE b == Min(page)
  <2>1. /\ fromBlockIndex' = b + 1 /\ hashes' = Append(hashes, b) /\ pc' = "capacity"
        /\ manifest' = manifest /\ pc = "block"
    BY <1>5 DEF StartBlock
  <2>2. b \in Nat /\ b >= fromBlockIndex /\ fromBlockIndex >= 1
    BY <1>1, <2>1, FirstOfPage DEF IndexInv
  <2>3. Cardinality(Started) \in Nat /\ Cardinality(Started') = Cardinality(Started) + 1
    BY <1>1, <1>5, StartedGrows
  <2> HIDE DEF b
  <2>4. Len(hashes) \in Nat /\ Len(hashes') = Len(hashes) + 1
    BY <1>1, <2>1 DEF LoopTypes
  <2>5. fromBlockIndex' > 1
    BY <1>1, <2>1, <2>2
  <2> QED
    BY <1>1, <2>1, <2>3, <2>4, <2>5 DEF HashInv
<1>6. CASE KeysFail \/ EndsWell \/ \E e : Ends(e)
  <2>1. UNCHANGED <<fromBlockIndex, hashes, manifest>> /\ pc' = "done"
    BY <1>6 DEF KeysFail, EndsWell, Ends, Fails, Finish, Succeeds, Continue
  <2>2. Started' = Started
    BY <1>1, <2>1 DEF Started
  <2> QED
    BY <1>1, <2>1, <2>2 DEF HashInv
<1> QED
  BY <1>2, <1>3, <1>4, <1>5, <1>6, FileCases, LoopCases

-----------------------------------------------------------------------------
(* How it ends.                                                            *)

\* At the manifest every block that was started was written.
LEMMA AtManifest ==
    ASSUME DownloadTypeOK, FileInv, pc = "manifest"
    PROVE  /\ Started = 1..(nextBlockIndex - 1) /\ Output = Started
           /\ nextBlockIndex \in Nat /\ nextBlockIndex >= 1
           /\ \A b \in Blocks : task[b] \in {"none", "buffered"}
           /\ \A b \in Blocks : task[b] = "buffered" <=> b \in Started
           /\ ~aborted => Started = revision.blocks
<1>1. IndexInv /\ TaskInv /\ WriteInv /\ ongoing = {} /\ ~rewriting /\ revision \in Cases
  BY NotRewriting DEF FileInv, IndexInv, DownloadTypeOK
<1>2. revision.blocks \subseteq Nat \ {0} /\ revision.blocks \subseteq Blocks
  BY <1>1, BlocksAre
<1>3. /\ nextBlockIndex \in Nat /\ nextBlockIndex >= 1 /\ fromBlockIndex \in Nat
      /\ nextBlockIndex <= fromBlockIndex
  BY <1>1 DEF IndexInv
<1>4. \A b \in revision.blocks : ~(nextBlockIndex <= b /\ b < fromBlockIndex)
  BY <1>1 DEF IndexInv
<1>5. Started = 1..(nextBlockIndex - 1)
  BY <1>1, <1>2, <1>3, <1>4 DEF Started, IndexInv
<1>6. LastWritten = nextBlockIndex - 1 /\ Output = 1..LastWritten
  BY <1>1 DEF WriteInv
<1>7. \A b \in Started : task[b] = "buffered"
  BY <1>1, <1>5 DEF TaskInv
<1>8. \A b \in Blocks : task[b] # "none" => b \in Started
  BY <1>1 DEF TaskInv
<1>9. ~aborted => Started = revision.blocks
  BY <1>1 DEF IndexInv
<1> QED
  BY <1>3, <1>5, <1>6, <1>7, <1>8, <1>9

\* The manifest that was signed has as many hashes as there are, so that a
\* verified download has started them all.
LEMMA VerifiedStartedAll ==
    ASSUME DownloadTypeOK, FileInv, manifest = "good", hashes = Signed
    PROVE  Started = revision.blocks /\ revision.signature = "good"
<1>1. HashInv /\ revision \in Cases
  BY DEF FileInv, DownloadTypeOK
<1> DEFINE t == IF revision.thumbnail THEN <<0>> ELSE <<>>
           k == IF revision.thumbnail THEN 1 ELSE 0
           N == Cardinality(revision.blocks)
           o == InOrder(revision.blocks)
<1>2. manifest = revision.signature /\ Len(hashes) = k + Cardinality(Started)
  BY <1>1 DEF HashInv
<1>3. IsFiniteSet(revision.blocks) /\ N \in Nat
  BY <1>1, BlocksAre
<1>4. Started \in SUBSET revision.blocks
  BY DEF Started
<1>5. Cardinality(Started) \in Nat
  BY <1>1, <1>4, BlocksAre
<1>6. Len(Signed) = k + N
  <2>1. hashes \in Seq(Blocks \cup {0})
    BY DEF DownloadTypeOK
  <2> DEFINE g(i) == CHOOSE b \in revision.blocks :
                        Cardinality({c \in revision.blocks : c < b}) = i - 1
             S == {g(i) : i \in 1..N} \cup {0}
  <2>3. o \in Seq(S) /\ Len(o) = N
    <3>1. o = [i \in 1..N |-> g(i)]
      BY DEF InOrder
    <3>2. \A i \in 1..N : g(i) \in S
      OBVIOUS
    <3> HIDE DEF o, N, S, g
    <3>3. o \in [1..N -> S]
      BY <3>1, <3>2
    <3> QED
      BY <1>3, <3>3
  <2>4. t \in Seq(S) /\ Len(t) = k
    <3>1. CASE revision.thumbnail
      BY <3>1
    <3>2. CASE ~revision.thumbnail
      BY <3>2
    <3> QED
      BY <3>1, <3>2
  <2>5. Signed = t \o o
    BY DEF Signed
  <2> HIDE DEF t, o, N, S, g, k
  <2>6. Len(t \o o) = Len(t) + Len(o)
    BY <2>3, <2>4
  <2> QED
    BY <2>3, <2>4, <2>5, <2>6
<1>7. Cardinality(Started) = N
  <2> HIDE DEF N
  <2> QED
    BY <1>2, <1>3, <1>5, <1>6
<1>8. Started = revision.blocks
  BY <1>3, <1>4, <1>7, FS_Subset
<1> QED
  BY <1>2, <1>8

LEMMA EndStep ==
    ASSUME DownloadTypeOK, FileInv, [DownloadNext]_downloadVars
    PROVE  EndInv'
<1>1. /\ EndInv /\ EndTypes /\ LoopTypes /\ TaskTypes /\ revision' = revision
  BY FileTypes, FileCases DEF FileInv
<1>2. ASSUME pc # "done"
      PROVE  result = "none" /\ ~signatureIssues /\ finished = 0 /\ reported = <<>>
  <2>1. result = "none" /\ ~signatureIssues /\ finished = 0
    BY <1>1, <1>2 DEF EndInv, FinishedAndReportedOnce
  <2>2. Len(reported) = 0
    BY <1>1, <2>1 DEF EndInv, FinishedAndReportedOnce
  <2> QED
    BY <1>1, <2>1, <2>2 DEF EndTypes
<1>3. CASE UserStep
  BY <1>1, <1>3 DEF UserStep, EndInv, VerifiedIsWhole, SignatureIssuesMeanComplete, Output,
     FinishedAndReportedOnce, loop, end, tasks
<1>4. ASSUME NEW b \in Blocks, BlockStep(b)
      PROVE  EndInv'
  <2>1. UNCHANGED <<loop, end, user>> /\ task[b] \in {"wait", "get", "receive", "token"}
    BY <1>4, BlockCases
  <2>2. result # "ok"
    BY <1>1, <2>1 DEF EndInv
  <2>3. (VerifiedIsWhole /\ SignatureIssuesMeanComplete /\ FinishedAndReportedOnce)'
    BY <1>1, <2>1 DEF EndInv, VerifiedIsWhole, SignatureIssuesMeanComplete, Output,
       FinishedAndReportedOnce, loop, end, user
  <2>4. (result # "none" \/ signatureIssues => pc = "done")'
    BY <1>1, <2>1 DEF EndInv, loop, end
  <2>5. result' # "ok"
    BY <2>1, <2>2 DEF end
  <2> QED
    BY <2>3, <2>4, <2>5 DEF EndInv
<1>5. CASE (\E step : Moves(step)) \/ PageComes \/ StartBlock \/ Writes \/ WriteFails
  <2>1. UNCHANGED end /\ pc # "done" /\ pc' # "done"
    BY <1>5 DEF Moves, Continue, PageComes, StartBlock, Writes, WriteFails
  <2>2. result' = "none" /\ ~signatureIssues' /\ finished' = 0 /\ reported' = <<>>
    BY <1>2, <2>1 DEF end
  <2> QED
    BY <2>1, <2>2 DEF EndInv, VerifiedIsWhole, SignatureIssuesMeanComplete, FinishedAndReportedOnce
<1>6. CASE KeysFail
  <2>1. /\ pc # "done" /\ pc' = "done" /\ result' = "server"
        /\ UNCHANGED <<signatureIssues, finished, reported>>
    BY <1>6 DEF KeysFail, Continue
  <2>2. ~signatureIssues' /\ finished' = 0 /\ reported' = <<>>
    BY <1>2, <2>1
  <2> QED
    BY <2>1, <2>2 DEF EndInv, VerifiedIsWhole, SignatureIssuesMeanComplete, FinishedAndReportedOnce
<1>7. ASSUME NEW e, Ends(e)
      PROVE  EndInv'
  <2> DEFINE s == SetToSeq(GetErrorCategory(e))
  <2>1. /\ pc # "done" /\ pc' = "done" /\ result' = e /\ signatureIssues' = (e = "signature")
        /\ finished' = finished + 1 /\ reported' = reported \o s
        /\ e \in Errors \cup {"signature"} /\ (e = "signature" => pc = "manifest")
        /\ UNCHANGED <<written, user>>
    BY <1>7 DEF Ends, Fails, Finish
  <2>2. s \in Seq(Words) /\ Len(s) = IF e = "abort" THEN 0 ELSE 1
    BY CategoryIs DEF Words
  <2> HIDE DEF s
  <2>3. reported' = s /\ finished' = 1
    BY <1>2, <2>1, <2>2
  <2>4. e # "ok" /\ e # "none" /\ result' # "ok"
    BY <2>1 DEF Errors
  <2>5. FinishedAndReportedOnce'
    <3>1. ~(result' = "server" /\ reported' = <<>>)
      BY <2>1, <2>2, <2>3
    <3> QED
      BY <2>1, <2>2, <2>3, <3>1 DEF FinishedAndReportedOnce
  <2>6. SignatureIssuesMeanComplete'
    <3>1. signatureIssues' => e = "signature"
      BY <2>1
    <3>2. e = "signature" /\ ~aborted => Output = revision.blocks
      BY <2>1, AtManifest
    <3>3. Output' = Output /\ aborted' = aborted
      BY <2>1 DEF Output, user
    <3> QED
      BY <1>1, <3>1, <3>2, <3>3 DEF SignatureIssuesMeanComplete
  <2>7. VerifiedIsWhole'
    BY <2>4 DEF VerifiedIsWhole
  <2> QED
    BY <2>1, <2>4, <2>5, <2>6, <2>7 DEF EndInv
<1>8. CASE EndsWell
  <2>1. /\ pc = "manifest" /\ pc' = "done" /\ result' = "ok" /\ finished' = finished + 1
        /\ reported' = Append(reported, "finished")
        /\ UNCHANGED <<signatureIssues, written, task>>
        /\ revision.mode = "safe" => manifest = "good" /\ hashes = Signed
    BY <1>8 DEF EndsWell, Succeeds, tasks
  <2>2. ~signatureIssues' /\ finished' = 1 /\ Len(reported') = 1
    BY <1>2, <2>1
  <2>3. FinishedAndReportedOnce'
    BY <2>1, <2>2 DEF FinishedAndReportedOnce
  <2>4. \A b \in Blocks : task'[b] \in {"none", "buffered"}
    BY <2>1, AtManifest
  <2>5. ASSUME revision.mode = "safe"
        PROVE  /\ revision.signature = "good"
               /\ Output = revision.blocks /\ revision.blocks = 1..Cardinality(revision.blocks)
               /\ \A i \in 1..Len(written) : written[i].content = "good"
    <3>1. Started = revision.blocks /\ revision.signature = "good"
      BY <2>1, <2>5, VerifiedStartedAll
    <3>2. /\ Started = 1..(nextBlockIndex - 1) /\ Output = Started
          /\ nextBlockIndex \in Nat /\ nextBlockIndex >= 1
      BY <2>1, AtManifest
    <3>3. nextBlockIndex - 1 \in Nat
      BY <3>2
    <3>4. Cardinality(1..(nextBlockIndex - 1)) = nextBlockIndex - 1
      BY <3>3, FS_Interval
    <3>5. \A i \in 1..Len(written) : written[i].content = "good"
      BY <2>5 DEF FileInv, WriteInv, Safe
    <3> QED
      BY <3>1, <3>2, <3>4, <3>5
  <2>6. VerifiedIsWhole'
    <3>1. Output' = Output /\ written' = written
      BY <2>1 DEF Output
    <3> QED
      BY <1>1, <2>5, <3>1 DEF VerifiedIsWhole
  <2>7. SignatureIssuesMeanComplete'
    BY <2>2 DEF SignatureIssuesMeanComplete
  <2> QED
    BY <2>1, <2>3, <2>4, <2>6, <2>7 DEF EndInv
<1> QED
  BY <1>3, <1>4, <1>5, <1>6, <1>7, <1>8, FileCases, LoopCases

-----------------------------------------------------------------------------
(* The buffer.                                                             *)

LEMMA BufferStep ==
    ASSUME DownloadTypeOK, FileInv, [DownloadNext]_downloadVars
    PROVE  BufferInv'
<1>1. /\ IndexInv /\ BufferInv /\ LoopTypes /\ TaskTypes /\ revision' = revision
      /\ revision \in Cases
  BY FileTypes, FileCases DEF FileInv, LoopTypes
<1> DEFINE N == Cardinality(revision.blocks)
<1> SUFFICES ASSUME revision.blocks = 1..N
             PROVE  /\ Cardinality(ongoing') <= MaxOngoing
                    /\ pc' \in {"keys", "page", "block"} => Cardinality(ongoing') < MaxOngoing
                    /\ pc' = "flush" => Cardinality(ongoing') < MaxOngoing \/ IsNextBlockDownloaded'
  BY <1>1 DEF BufferInv
<1> DEFINE Goal == /\ Cardinality(ongoing') <= MaxOngoing
                   /\ pc' \in {"keys", "page", "block"} => Cardinality(ongoing') < MaxOngoing
                   /\ pc' = "flush" => Cardinality(ongoing') < MaxOngoing \/ IsNextBlockDownloaded'
<1>2. /\ IsFiniteSet(ongoing) /\ Cardinality(ongoing) \in Nat /\ N \in Nat
      /\ revision.blocks \subseteq Nat \ {0} /\ revision.blocks \subseteq Blocks
      /\ MaxOngoing \in Nat /\ MaxOngoing > 0
  BY <1>1, BlocksAre, FileDownloaderConstants DEF LoopTypes
<1>3. /\ Cardinality(ongoing) <= MaxOngoing
      /\ pc \in {"keys", "page", "block"} => Cardinality(ongoing) < MaxOngoing
      /\ pc = "flush" => Cardinality(ongoing) < MaxOngoing \/ IsNextBlockDownloaded
  BY <1>1 DEF BufferInv
<1> HIDE DEF N
<1>4. CASE UserStep
  BY <1>3, <1>4 DEF UserStep, IsNextBlockDownloaded, loop, tasks
<1>5. ASSUME NEW b \in Blocks, BlockStep(b)
      PROVE  Goal
  <2>1. UNCHANGED loop /\ task[b] \in {"wait", "get", "receive", "token"}
    BY <1>5, BlockCases
  <2>2. PICK s \in {"wait", "get", "receive", "token", "buffered"} \cup Errors :
           task' = [task EXCEPT ![b] = s]
    BY <1>5, BlockCases
  <2>3. IsNextBlockDownloaded => IsNextBlockDownloaded'
    BY <1>1, <1>2, <2>1, <2>2 DEF IsNextBlockDownloaded, LoopTypes, TaskTypes, loop
  <2> QED
    BY <1>3, <2>1, <2>3 DEF loop
<1>6. ASSUME NEW step, Moves(step)
      PROVE  Goal
  <2>1. UNCHANGED <<nextBlockIndex, ongoing, task>> /\ pc' = step
    BY <1>6 DEF Moves, Continue, tasks
  <2>2. IsNextBlockDownloaded' = IsNextBlockDownloaded
    BY <2>1 DEF IsNextBlockDownloaded
  <2>3. CASE pc = "capacity"
    <3>1. /\ step = "flush"
          /\ Cardinality(ongoing) < MaxOngoing \/ IsNextBlockDownloaded \/ Unfinished = {}
      BY <1>6, <2>3 DEF Moves
    <3>2. ASSUME Unfinished = {}
          PROVE  Cardinality(ongoing) < MaxOngoing \/ IsNextBlockDownloaded
      <4>1. CASE ongoing = {}
        BY <1>2, <4>1, FS_EmptySet
      <4>2. CASE ongoing # {}
        <5>1. PICK b \in ongoing : TRUE
          BY <4>2
        <5>2. /\ b \in 1..N /\ nextBlockIndex <= b /\ b < fromBlockIndex /\ nextBlockIndex \in Nat
              /\ nextBlockIndex >= 1 /\ fromBlockIndex \in Nat
          BY <1>1, <5>1 DEF IndexInv
        <5>3. nextBlockIndex \in 1..N /\ nextBlockIndex < fromBlockIndex
          BY <1>2, <5>2
        <5>4. nextBlockIndex \in ongoing
          BY <1>1, <5>2, <5>3 DEF IndexInv
        <5> QED
          BY <3>2, <5>4 DEF Unfinished, IsNextBlockDownloaded
      <4> QED
        BY <4>1, <4>2
    <3> QED
      BY <1>3, <2>1, <2>2, <3>1, <3>2
  <2>4. CASE pc # "capacity"
    <3>1. /\ step # "flush"
          /\ step \in {"page", "block"} => pc = "keys" \/ (pc = "flush" /\ ~IsNextBlockDownloaded)
          /\ step # "keys"
      BY <1>6, <2>4 DEF Moves
    <3> QED
      BY <1>3, <2>1, <3>1
  <2> QED
    BY <2>3, <2>4
<1>7. CASE PageComes
  <2>1. ongoing' = ongoing /\ pc = "page" /\ pc' \in {"rest", "block"}
    BY <1>7 DEF PageComes
  <2> QED
    BY <1>3, <2>1
<1>8. CASE StartBlock
  <2>1. ongoing' = ongoing \cup {Min(page)} /\ pc = "block" /\ pc' = "capacity"
    BY <1>8 DEF StartBlock
  <2> DEFINE m == Min(page)
  <2> HIDE DEF m
  <2>2. Cardinality(ongoing') \in {Cardinality(ongoing), Cardinality(ongoing) + 1}
    <3>1. ongoing' = ongoing \cup {m}
      BY <2>1 DEF m
    <3> QED
      BY <1>2, <3>1, FS_AddElement
  <2>3. Cardinality(ongoing') \in Nat /\ Cardinality(ongoing') <= Cardinality(ongoing) + 1
    BY <1>2, <2>2
  <2> QED
    BY <1>2, <1>3, <2>1, <2>2, <2>3
<1>9. CASE Writes
  <2>1. ongoing' = ongoing \ {nextBlockIndex} /\ pc' \in {"flush", "lastFlush"}
        /\ nextBlockIndex \in ongoing
    BY <1>9 DEF Writes, IsNextBlockDownloaded
  <2>2. Cardinality(ongoing') = Cardinality(ongoing) - 1
    BY <1>2, <2>1, FS_RemoveElement
  <2> QED
    BY <1>2, <1>3, <2>1, <2>2
<1>10. CASE WriteFails
  BY <1>3, <1>10 DEF WriteFails, IsNextBlockDownloaded, tasks
<1>11. CASE KeysFail \/ EndsWell \/ \E e : Ends(e)
  <2>1. ongoing' = ongoing /\ pc' = "done"
    BY <1>11 DEF KeysFail, EndsWell, Ends, Fails, Finish, Succeeds, Continue
  <2> QED
    BY <1>3, <2>1
<1> QED
  BY <1>4, <1>5, <1>6, <1>7, <1>8, <1>9, <1>10, <1>11, FileCases, LoopCases

-----------------------------------------------------------------------------
(* The progress.                                                           *)

\* The blocks that count.
Counted == {b \in Blocks : blockProgress[b] = 1}

LEMMA CountedIsFinite ==
    ASSUME DownloadTypeOK, FileInv
    PROVE  /\ Counted \subseteq Started /\ IsFiniteSet(Counted) /\ Cardinality(Counted) \in Nat
           /\ fileProgress = Cardinality(Counted)
<1>1. ProgressInv /\ TaskInv /\ revision \in Cases
  BY DEF FileInv, DownloadTypeOK
<1>2. Counted \subseteq Started
  BY <1>1 DEF Counted, ProgressInv, TaskInv
<1>3. Started \subseteq revision.blocks
  BY DEF Started
<1>4. Counted \in SUBSET revision.blocks
  BY <1>2, <1>3
<1> QED
  BY <1>1, <1>2, <1>4, BlocksAre DEF ProgressInv, Counted

\* What a step of a block does to the progress of its block, given its task.
BlockProgressOK(s, p) ==
    /\ p \in {0, 1}
    /\ s \in {"receive", "buffered"} => p = 1
    /\ s \in {"none", "wait", "get", "token"} => p = 0

LEMMA BlockProgressCases ==
    ASSUME DownloadTypeOK, FileInv, NEW b \in Blocks, BlockStep(b)
    PROVE  \E s, p :
              /\ task' = [task EXCEPT ![b] = s] /\ BlockProgressOK(s, p)
              /\ blockProgress' = [blockProgress EXCEPT ![b] = p]
              /\ fileProgress' = fileProgress - blockProgress[b] + p
<1>1. TaskTypes /\ ProgressInv
  BY FileTypes DEF FileInv
<1>2. fileProgress \in Int /\ BlockProgressOK(task[b], blockProgress[b])
  BY <1>1 DEF TaskTypes, ProgressInv, BlockProgressOK
<1> DEFINE p == blockProgress[b]
<1>3. blockProgress = [blockProgress EXCEPT ![b] = p]
  BY <1>1 DEF TaskTypes
<1>4. p \in {0, 1} /\ fileProgress = fileProgress - p + p /\ fileProgress - p = fileProgress - p + 0
  BY <1>2 DEF BlockProgressOK
<1>5. CASE BlockWaits(b)
  <2>1. /\ task' = [task EXCEPT ![b] = "get"] /\ task[b] = "wait"
        /\ UNCHANGED <<blockProgress, fileProgress>>
    BY <1>5 DEF BlockWaits, Task
  <2>2. BlockProgressOK("get", p)
    BY <1>2, <2>1 DEF BlockProgressOK
  <2> QED
    BY <1>3, <1>4, <2>1, <2>2
<1>6. CASE BlockProgress(b)
  <2>1. /\ task' = [task EXCEPT ![b] = "receive"] /\ task[b] = "get"
        /\ blockProgress' = [blockProgress EXCEPT ![b] = p + 1]
        /\ fileProgress' = fileProgress + 1
    BY <1>6 DEF BlockProgress, Task
  <2>2. p = 0 /\ BlockProgressOK("receive", 1)
    BY <1>2, <2>1 DEF BlockProgressOK
  <2>3. /\ blockProgress' = [blockProgress EXCEPT ![b] = 1]
        /\ fileProgress' = fileProgress - p + 1
    BY <1>2, <2>1, <2>2
  <2> QED
    BY <2>1, <2>2, <2>3
<1>7. CASE BlockArrives(b)
  <2>1. /\ task' = [task EXCEPT ![b] = "buffered"] /\ task[b] = "receive"
        /\ UNCHANGED <<blockProgress, fileProgress>>
    BY <1>7 DEF BlockArrives, Task
  <2>2. BlockProgressOK("buffered", p)
    BY <1>2, <2>1 DEF BlockProgressOK
  <2> QED
    BY <1>3, <1>4, <2>1, <2>2
<1>8. CASE BlockFails(b)
  <2>1. CASE task' = [task EXCEPT ![b] = "abort"] /\ UNCHANGED <<blockProgress, fileProgress>>
    <3>1. BlockProgressOK("abort", p)
      BY <1>2 DEF BlockProgressOK
    <3> QED
      BY <1>3, <1>4, <2>1, <3>1
  <2>2. CASE TakeBackProgress(b)
    <3>1. \E s \in {"token", "wait", "server", "decryption", "integrity"} :
             task' = [task EXCEPT ![b] = s] \/ task' = [task EXCEPT ![b] = "abort"]
      BY <1>8 DEF BlockFails, Task
    <3>2. PICK s \in {"token", "wait", "server", "decryption", "integrity", "abort"} :
             task' = [task EXCEPT ![b] = s]
      BY <3>1
    <3>3. BlockProgressOK(s, 0)
      BY DEF BlockProgressOK
    <3>4. /\ blockProgress' = [blockProgress EXCEPT ![b] = 0]
          /\ fileProgress' = fileProgress - p + 0
      BY <1>4, <2>2 DEF TakeBackProgress
    <3> QED
      BY <3>2, <3>3, <3>4
  <2> QED
    BY <1>8, <2>1, <2>2 DEF BlockFails, Task
<1>9. CASE GetRevisionBlockToken(b)
  <2>1. PICK s \in {"wait", "server", "abort"} : task' = [task EXCEPT ![b] = s]
    BY <1>9 DEF GetRevisionBlockToken, Task
  <2>2. task[b] = "token" /\ UNCHANGED <<blockProgress, fileProgress>>
    BY <1>9 DEF GetRevisionBlockToken
  <2>3. BlockProgressOK(s, p)
    BY <1>2, <2>2 DEF BlockProgressOK
  <2> QED
    BY <1>3, <1>4, <2>1, <2>2, <2>3
<1> QED
  BY <1>5, <1>6, <1>7, <1>8, <1>9 DEF BlockStep

LEMMA ProgressStep ==
    ASSUME DownloadTypeOK, FileInv, [DownloadNext]_downloadVars
    PROVE  ProgressInv'
<1>1. /\ ProgressInv /\ EndInv /\ TaskInv /\ LoopTypes /\ TaskTypes /\ revision' = revision
      /\ revision \in Cases
  BY FileTypes, FileCases DEF FileInv, LoopTypes
<1>2. ASSUME NEW b \in Blocks, BlockStep(b)
      PROVE  ProgressInv'
  <2>1. PICK s, p :
           /\ task' = [task EXCEPT ![b] = s] /\ BlockProgressOK(s, p)
           /\ blockProgress' = [blockProgress EXCEPT ![b] = p]
           /\ fileProgress' = fileProgress - blockProgress[b] + p
    BY <1>2, BlockProgressCases
  <2>2. UNCHANGED end /\ task[b] \in {"wait", "get", "receive", "token"}
    BY <1>2, BlockCases
  <2>3. result' # "ok"
    BY <1>1, <2>2 DEF EndInv, end
  <2>4. \A c \in Blocks : BlockProgressOK(task'[c], blockProgress'[c])
    BY <1>1, <2>1 DEF ProgressInv, BlockProgressOK, TaskTypes
  <2>5. /\ Counted' \ {b} = Counted \ {b} /\ (b \in Counted <=> blockProgress[b] = 1)
        /\ (b \in Counted' <=> p = 1)
    BY <1>1, <2>1 DEF Counted, TaskTypes
  <2>6. IsFiniteSet(Counted) /\ Cardinality(Counted) \in Nat /\ fileProgress = Cardinality(Counted)
    BY CountedIsFinite
  <2>7. p \in {0, 1} /\ blockProgress[b] \in {0, 1}
    BY <1>1, <2>1 DEF BlockProgressOK, ProgressInv
  <2>8. fileProgress' = Cardinality(Counted')
    <3> DEFINE C == Counted
               D == Counted'
    <3>1. CASE p = blockProgress[b]
      <4>1. D = C
        BY <2>5, <3>1
      <4> QED
        BY <2>1, <2>6, <2>7, <3>1, <4>1
    <3>2. CASE p = 1 /\ blockProgress[b] = 0
      <4>1. D = C \cup {b} /\ b \notin C
        BY <2>5, <3>2
      <4>2. Cardinality(D) = Cardinality(C) + 1
        BY <2>6, <4>1, FS_AddElement
      <4> QED
        BY <2>1, <2>6, <3>2, <4>2
    <3>3. CASE p = 0 /\ blockProgress[b] = 1
      <4>1. D = C \ {b} /\ b \in C
        BY <2>5, <3>3
      <4>2. Cardinality(D) = Cardinality(C) - 1
        BY <2>6, <4>1, FS_RemoveElement
      <4> QED
        BY <2>1, <2>6, <3>3, <4>2
    <3> QED
      BY <2>7, <3>1, <3>2, <3>3
  <2> QED
    BY <2>3, <2>4, <2>8 DEF ProgressInv, BlockProgressOK, Counted
<1>3. CASE StartBlock
  <2> DEFINE b == Min(page)
  <2>1. /\ task' = [task EXCEPT ![b] = "wait"] /\ pc = "block"
        /\ UNCHANGED <<blockProgress, fileProgress, end>>
    BY <1>3 DEF StartBlock
  <2>2. b \in revision.blocks /\ b \notin Started
    BY <1>1, <1>3, <2>1, StartedGrows, FirstOfPage DEF FileInv
  <2> HIDE DEF b
  <2>3. b \in Blocks
    BY <1>1, <2>2, BlocksAre
  <2>4. task[b] = "none"
    BY <1>1, <2>2, <2>3 DEF TaskInv
  <2>5. result' # "ok"
    BY <1>1, <2>1 DEF EndInv, end
  <2>6. \A c \in Blocks : BlockProgressOK(task'[c], blockProgress[c])
    BY <1>1, <2>1, <2>4 DEF ProgressInv, BlockProgressOK, TaskTypes
  <2> QED
    BY <1>1, <2>1, <2>5, <2>6 DEF ProgressInv, BlockProgressOK
<1>4. CASE EndsWell
  <2>1. UNCHANGED <<task, blockProgress, fileProgress, written>> /\ pc = "manifest"
    BY <1>4 DEF EndsWell, Succeeds, tasks
  <2>2. /\ Output = Started /\ \A b \in Blocks : task[b] \in {"none", "buffered"}
        /\ \A b \in Blocks : task[b] = "buffered" <=> b \in Started
    BY <2>1, AtManifest
  <2>3. Started \subseteq Blocks
    <3>1. revision.blocks \subseteq Blocks
      BY <1>1, BlocksAre
    <3> QED
      BY <3>1 DEF Started
  <2>4. Counted = Started
    BY <1>1, <2>2, <2>3 DEF Counted, ProgressInv
  <2>5. Output' = Output
    BY <2>1 DEF Output
  <2> QED
    BY <1>1, <2>1, <2>2, <2>4, <2>5 DEF ProgressInv, Counted
<1>5. CASE (\E step : Moves(step)) \/ PageComes \/ Writes \/ WriteFails
  <2>1. UNCHANGED <<task, blockProgress, fileProgress, end>> /\ pc # "done"
    BY <1>5 DEF Moves, PageComes, Writes, WriteFails, tasks
  <2>2. result' # "ok"
    BY <1>1, <2>1 DEF EndInv, end
  <2> QED
    BY <1>1, <2>1, <2>2 DEF ProgressInv
<1>6. CASE KeysFail \/ \E e : Ends(e)
  <2>1. UNCHANGED <<task, blockProgress, fileProgress>>
    BY <1>6 DEF KeysFail, Ends, tasks
  <2>2. result' # "ok"
    BY <1>6 DEF KeysFail, Ends, Fails, Finish, Errors
  <2> QED
    BY <1>1, <2>1, <2>2 DEF ProgressInv
<1>7. CASE UserStep
  BY <1>1, <1>7 DEF UserStep, ProgressInv, Output, loop, end, tasks
<1> QED
  BY <1>2, <1>3, <1>4, <1>5, <1>6, <1>7, FileCases, LoopCases

-----------------------------------------------------------------------------
(* The theorem.                                                            *)

LEMMA FileStarts ==
    ASSUME DownloadInit
    PROVE  DownloadTypeOK /\ FileInv
<1>1. revision \in Cases
  BY DEF DownloadInit
<1>2. revision.blocks \subseteq Nat \ {0} /\ Blocks \subseteq Nat \ {0}
  BY <1>1, BlocksAre
<1>3. DownloadTypeOK
  <2>1. FileFlags
    BY Zenon DEF DownloadInit, FileFlags
  <2>2. LoopTypes
    BY <1>1 DEF DownloadInit, LoopTypes, Places
  <2>3. TaskTypes /\ EndTypes
    BY DEF DownloadInit, TaskTypes, EndTypes, TaskStates, Errors
  <2> QED
    BY <2>1, <2>2, <2>3, FileTypes
<1>4. Started = {} /\ Output = {} /\ LastWritten = 0
  BY <1>2 DEF DownloadInit, Started, Output, LastWritten
<1>5. IndexInv /\ TaskInv
  BY <1>2, <1>4 DEF DownloadInit, IndexInv, TaskInv
<1>6. WriteInv /\ HashInv
  <2>1. WriteInv
    BY <1>4 DEF DownloadInit, WriteInv
  <2> QED
    BY <2>1 DEF DownloadInit, HashInv
<1>7. EndInv
  BY DEF DownloadInit, EndInv, VerifiedIsWhole, SignatureIssuesMeanComplete, FinishedAndReportedOnce
<1>8. Cardinality({}) = 0
  BY FS_EmptySet
<1>9. BufferInv
  <2>1. MaxOngoing \in Nat /\ MaxOngoing > 0 /\ ongoing = {}
    BY FileDownloaderConstants DEF DownloadInit
  <2> QED
    BY <1>8, <2>1 DEF BufferInv
<1>10. ProgressInv
  <2>1. {b \in Blocks : blockProgress[b] = 1} = {}
    BY DEF DownloadInit
  <2> QED
    BY <1>8, <2>1 DEF DownloadInit, ProgressInv
<1> QED
  BY <1>3, <1>5, <1>6, <1>7, <1>9, <1>10 DEF FileInv

LEMMA FileStep ==
    ASSUME DownloadTypeOK, FileInv, [DownloadNext]_downloadVars
    PROVE  DownloadTypeOK' /\ FileInv'
BY FileTypeStep, IndexStep, TaskStep, WriteStep, HashStep, EndStep, BufferStep, ProgressStep
   DEF FileInv

\* What the downloads of the composition do is what one of them does.
LEMMA PartsAreDownloads ==
    ASSUME [Next]_allVars
    PROVE  [DownloadNext]_downloadVars
BY DEF Next, allVars

\* What the caller gets of a download to a stream is the revision, for revisions
\* of any blocks and limits of any size: fileDownloader.ts writes the blocks in the
\* order of the file whatever order they arrive in, completion() of a verified
\* download means every block of the revision was written as its author signed it,
\* and a download with signature issues only is complete unless it was aborted.
THEOREM DeliveriesAreRight == Spec => []DeliveredIsRevision
<1>1. Init => DownloadTypeOK /\ FileInv
  BY FileStarts DEF Init
<1>2. (DownloadTypeOK /\ FileInv) /\ [Next]_allVars => (DownloadTypeOK /\ FileInv)'
  BY FileStep, PartsAreDownloads
<1>3. DownloadTypeOK /\ FileInv => DeliveredIsRevision
  <2> SUFFICES ASSUME DownloadTypeOK, FileInv
               PROVE  DeliveredIsRevision
    OBVIOUS
  <2>1. VerifiedIsWhole /\ SignatureIssuesMeanComplete
    BY DEF FileInv, EndInv
  <2>2. WrittenInOrder
    <3>1. /\ LastWritten \in {nextBlockIndex - 1, nextBlockIndex} /\ Output = 1..LastWritten
          /\ \A i \in 1..Len(written) :
                written[i].block - (IF i = 1 THEN 0 ELSE written[i - 1].block) \in {0, 1}
      BY DEF FileInv, WriteInv
    <3> QED
      BY <3>1 DEF WrittenInOrder
  <2> QED
    BY <2>1, <2>2 DEF DeliveredIsRevision
<1> QED
  BY <1>1, <1>2, <1>3, PTL DEF Spec

-----------------------------------------------------------------------------
(* The queue.                                                              *)

\* The downloads that are going on and hold a slot.
Holders == {d \in Downloads : state[d] \in {"loading", "downloader", "downloading"}}

QueueInv ==
    /\ IsFiniteSet(Holders) /\ IsFiniteSet(keptSlot)
    /\ \A d \in keptSlot : state[d] = "done"
    /\ capacity = Cardinality(Holders) + Cardinality(keptSlot)

QueueStates == {"waiting", "admitted", "loading", "downloader", "downloading", "done"}

LEMMA QueueStarts ==
    ASSUME QueueInit
    PROVE  QueueTypeOK /\ QueueInv
<1>1. Holders = {} /\ keptSlot = {}
  BY DEF QueueInit, Holders
<1>2. IsFiniteSet({}) /\ Cardinality({}) = 0
  BY FS_EmptySet
<1> QED
  BY <1>1, <1>2 DEF QueueInit, QueueTypeOK, QueueInv

\* A step moves one download; what it does to the slots follows from where it
\* comes from and goes to.
LEMMA QueueCases ==
    ASSUME QueueTypeOK, NEW d \in Downloads, QueueStep(d)
    PROVE  /\ kind' = kind
           /\ \/ /\ state[d] = "waiting" /\ state' = [state EXCEPT ![d] = "admitted"]
                 /\ UNCHANGED <<capacity, keptSlot>>
              \/ /\ state[d] = "admitted" /\ state' = [state EXCEPT ![d] = "loading"]
                 /\ capacity' = capacity + 1 /\ keptSlot' = keptSlot
              \/ /\ state[d] \in {"loading", "downloader"}
                 /\ \E s \in {"downloader", "downloading"} : state' = [state EXCEPT ![d] = s]
                 /\ UNCHANGED <<capacity, keptSlot>>
              \/ /\ state[d] \in {"loading", "downloading"} /\ state' = [state EXCEPT ![d] = "done"]
                 /\ capacity' = capacity - 1 /\ keptSlot' = keptSlot
              \/ /\ state[d] = "downloader" /\ state' = [state EXCEPT ![d] = "done"]
                 /\ capacity' = capacity /\ keptSlot' = keptSlot \cup {d}
<1>1. CASE WaitForCapacity(d) \/ TakeSlot(d) \/ OnFinish(d)
  BY <1>1 DEF WaitForCapacity, TakeSlot, OnFinish, ReleaseSlot, To
<1>2. CASE GetFileDownloader(d) \/ GetFileRevisionDownloader(d)
  <2>1. Load(d)
    BY <1>2 DEF GetFileDownloader, GetFileRevisionDownloader
  <2> QED
    BY <2>1 DEF Load, ReleaseSlot, To
<1>3. CASE DownloadToStream(d) \/ GetSeekableStream(d)
  BY <1>3 DEF DownloadToStream, GetSeekableStream, To
<1> QED
  BY <1>1, <1>2, <1>3 DEF QueueStep

LEMMA QueueKeeps ==
    ASSUME QueueTypeOK, QueueInv, [QueueNext]_queueVars
    PROVE  QueueTypeOK' /\ QueueInv'
<1>1. CASE UNCHANGED queueVars
  BY <1>1 DEF QueueTypeOK, QueueInv, Holders, queueVars
<1>2. ASSUME NEW d \in Downloads, QueueStep(d)
      PROVE  QueueTypeOK' /\ QueueInv'
  <2> DEFINE H == Holders
             K == keptSlot
  <2>1. /\ state \in [Downloads -> QueueStates] /\ capacity \in Nat /\ K \subseteq Downloads
        /\ kind \in Kinds
    BY DEF QueueTypeOK, QueueStates
  <2>2. /\ IsFiniteSet(H) /\ IsFiniteSet(K) /\ Cardinality(H) \in Nat /\ Cardinality(K) \in Nat
        /\ capacity = Cardinality(H) + Cardinality(K)
    BY FS_CardinalityType DEF QueueInv
  <2>3. kind' = kind
    BY <1>2, QueueCases
  <2>4. \A e \in Downloads : e \in H <=> state[e] \in {"loading", "downloader", "downloading"}
    BY DEF Holders
  <2>5. ASSUME NEW s \in QueueStates, state' = [state EXCEPT ![d] = s]
        PROVE  /\ state' \in [Downloads -> QueueStates]
               /\ Holders' = IF s \in {"loading", "downloader", "downloading"} THEN H \cup {d}
                             ELSE H \ {d}
               /\ state'[d] = s /\ \A e \in Downloads : e # d => state'[e] = state[e]
    BY <2>1, <2>5 DEF Holders
  <2>6. \A e \in K : state[e] = "done"
    BY DEF QueueInv
  <2>7. CASE /\ state[d] = "waiting" /\ state' = [state EXCEPT ![d] = "admitted"]
             /\ UNCHANGED <<capacity, keptSlot>>
    <3>1. Holders' = H /\ d \notin K
      BY <2>4, <2>5, <2>6, <2>7 DEF QueueStates
    <3>2. state' \in [Downloads -> QueueStates] /\ \A e \in Downloads : e # d => state'[e] = state[e]
      BY <2>5, <2>7 DEF QueueStates
    <3> QED
      BY <2>1, <2>2, <2>3, <2>6, <2>7, <3>1, <3>2 DEF QueueTypeOK, QueueInv, QueueStates
  <2>8. CASE /\ state[d] = "admitted" /\ state' = [state EXCEPT ![d] = "loading"]
             /\ capacity' = capacity + 1 /\ keptSlot' = keptSlot
    <3>1. Holders' = H \cup {d} /\ d \notin H /\ d \notin K
      BY <2>4, <2>5, <2>6, <2>8 DEF QueueStates
    <3>2. IsFiniteSet(Holders') /\ Cardinality(Holders') = Cardinality(H) + 1
      BY <2>2, <3>1, FS_AddElement
    <3>3. state' \in [Downloads -> QueueStates] /\ \A e \in Downloads : e # d => state'[e] = state[e]
      BY <2>5, <2>8 DEF QueueStates
    <3> QED
      BY <2>1, <2>2, <2>3, <2>6, <2>8, <3>1, <3>2, <3>3 DEF QueueTypeOK, QueueInv, QueueStates
  <2>9. CASE /\ state[d] \in {"loading", "downloader"}
             /\ \E s \in {"downloader", "downloading"} : state' = [state EXCEPT ![d] = s]
             /\ UNCHANGED <<capacity, keptSlot>>
    <3>0. PICK s \in {"downloader", "downloading"} : state' = [state EXCEPT ![d] = s]
      BY <2>9
    <3>1. Holders' = H /\ d \notin K
      <4>1. s \in QueueStates
        BY DEF QueueStates
      <4>2. Holders' = H \cup {d}
        BY <2>5, <3>0, <4>1
      <4> QED
        BY <2>4, <2>6, <2>9, <4>2
    <3>2. state' \in [Downloads -> QueueStates] /\ \A e \in Downloads : e # d => state'[e] = state[e]
      BY <2>5, <3>0 DEF QueueStates
    <3> QED
      BY <2>1, <2>2, <2>3, <2>6, <2>9, <3>1, <3>2 DEF QueueTypeOK, QueueInv, QueueStates
  <2>10. CASE /\ state[d] \in {"loading", "downloading"} /\ state' = [state EXCEPT ![d] = "done"]
              /\ capacity' = capacity - 1 /\ keptSlot' = keptSlot
    <3>1. Holders' = H \ {d} /\ d \in H /\ d \notin K
      BY <2>4, <2>5, <2>6, <2>10 DEF QueueStates
    <3>2. IsFiniteSet(Holders') /\ Cardinality(Holders') = Cardinality(H) - 1
      BY <2>2, <3>1, FS_RemoveElement
    <3>3. Cardinality(Holders') \in Nat
      BY <3>2, FS_CardinalityType
    <3>4. state' \in [Downloads -> QueueStates] /\ \A e \in Downloads : e # d => state'[e] = state[e]
      BY <2>5, <2>10 DEF QueueStates
    <3> QED
      BY <2>1, <2>2, <2>3, <2>6, <2>10, <3>1, <3>2, <3>3, <3>4
         DEF QueueTypeOK, QueueInv, QueueStates
  <2>11. CASE /\ state[d] = "downloader" /\ state' = [state EXCEPT ![d] = "done"]
              /\ capacity' = capacity /\ keptSlot' = keptSlot \cup {d}
    <3>1. Holders' = H \ {d} /\ d \in H /\ d \notin K
      BY <2>4, <2>5, <2>6, <2>11 DEF QueueStates
    <3>2. IsFiniteSet(Holders') /\ Cardinality(Holders') = Cardinality(H) - 1
      BY <2>2, <3>1, FS_RemoveElement
    <3>3. IsFiniteSet(keptSlot') /\ Cardinality(keptSlot') = Cardinality(K) + 1
      BY <2>2, <2>11, <3>1, FS_AddElement
    <3>4. /\ state' \in [Downloads -> QueueStates] /\ state'[d] = "done"
          /\ \A e \in Downloads : e # d => state'[e] = state[e]
      BY <2>5, <2>11 DEF QueueStates
    <3> QED
      BY <2>1, <2>2, <2>3, <2>6, <2>11, <3>2, <3>3, <3>4
         DEF QueueTypeOK, QueueInv, QueueStates
  <2> QED
    BY <1>2, <2>7, <2>8, <2>9, <2>10, <2>11, QueueCases
<1> QED
  BY <1>1, <1>2 DEF QueueNext

-----------------------------------------------------------------------------
(* The thumbnails.                                                         *)

\* The elements of a sequence beyond the first d, and that they are distinct.
Beyond(s, d) == {s[i] : i \in (d + 1)..Len(s)}
Distinct(s, d) == \A i, j \in (d + 1)..Len(s) : s[i] = s[j] => i = j

LEMMA BeyondConcat ==
    ASSUME NEW S, NEW s \in Seq(S), NEW t \in Seq(S), NEW d \in 0..Len(s),
           Distinct(s, d), Distinct(t, 0), Beyond(s, d) \cap Beyond(t, 0) = {}
    PROVE  /\ Beyond(s \o t, d) = Beyond(s, d) \cup Beyond(t, 0)
           /\ Distinct(s \o t, d)
<1> DEFINE m == Len(s)
           n == Len(t)
           u == s \o t
<1>1. /\ m \in Nat /\ n \in Nat /\ Len(u) = m + n /\ d \in Nat /\ d <= m
      /\ \A i \in 1..m : u[i] = s[i]
      /\ \A i \in 1..n : u[m + i] = t[i]
  OBVIOUS
<1> HIDE DEF m, n, u
<1>2. /\ \A i \in (d + 1)..m : u[i] = s[i]
      /\ \A i \in (m + 1)..(m + n) : i - m \in 1..n /\ u[i] = t[i - m]
  BY <1>1
<1>3. /\ Beyond(s, d) = {s[i] : i \in (d + 1)..m}
      /\ Beyond(t, 0) = {t[i] : i \in 1..n}
      /\ Beyond(u, d) = {u[i] : i \in (d + 1)..(m + n)}
  BY <1>1 DEF Beyond, m, n
<1>4. \A i \in (d + 1)..(m + n) : i \in (d + 1)..m \/ i \in (m + 1)..(m + n)
  BY <1>1
<1>5. Beyond(u, d) \subseteq Beyond(s, d) \cup Beyond(t, 0)
  BY <1>2, <1>3, <1>4
<1>6. Beyond(s, d) \subseteq Beyond(u, d)
  <2>1. \A i \in (d + 1)..m : i \in (d + 1)..(m + n)
    BY <1>1
  <2> QED
    BY <1>2, <1>3, <2>1
<1>7. Beyond(t, 0) \subseteq Beyond(u, d)
  <2>1. \A i \in 1..n : m + i \in (d + 1)..(m + n)
    BY <1>1
  <2> QED
    BY <1>1, <1>3, <2>1
<1>8. Distinct(u, d)
  <2> SUFFICES ASSUME NEW i \in (d + 1)..(m + n), NEW j \in (d + 1)..(m + n), u[i] = u[j]
               PROVE  i = j
    BY <1>1 DEF Distinct
  <2>1. CASE i \in (d + 1)..m /\ j \in (d + 1)..m
    BY <1>2, <2>1 DEF Distinct, m
  <2>2. CASE i \in (m + 1)..(m + n) /\ j \in (m + 1)..(m + n)
    <3>1. i - m \in 1..n /\ j - m \in 1..n /\ t[i - m] = t[j - m]
      BY <1>2, <2>2
    <3>2. i - m = j - m
      BY <1>1, <3>1 DEF Distinct, n
    <3> QED
      BY <1>1, <3>2
  <2>3. CASE i \in (d + 1)..m /\ j \in (m + 1)..(m + n)
    <3>1. s[i] \in Beyond(s, d) /\ t[j - m] \in Beyond(t, 0) /\ s[i] = t[j - m]
      BY <1>2, <1>3, <2>3
    <3> QED
      BY <3>1
  <2>4. CASE j \in (d + 1)..m /\ i \in (m + 1)..(m + n)
    <3>1. s[j] \in Beyond(s, d) /\ t[i - m] \in Beyond(t, 0) /\ s[j] = t[i - m]
      BY <1>2, <1>3, <2>4
    <3> QED
      BY <3>1
  <2> QED
    BY <1>4, <2>1, <2>2, <2>3, <2>4
<1> QED
  BY <1>5, <1>6, <1>7, <1>8 DEF u

LEMMA BeyondAppend ==
    ASSUME NEW S, NEW s \in Seq(S), NEW x \in S, NEW d \in 0..Len(s),
           Distinct(s, d), x \notin Beyond(s, d)
    PROVE  /\ Beyond(Append(s, x), d) = Beyond(s, d) \cup {x}
           /\ Distinct(Append(s, x), d)
<1> DEFINE t == <<x>>
<1>1. t \in Seq(S) /\ Append(s, x) = s \o t
  OBVIOUS
<1>2. Beyond(t, 0) = {x} /\ Distinct(t, 0)
  BY DEF Beyond, Distinct
<1> HIDE DEF t
<1>3. Beyond(s, d) \cap Beyond(t, 0) = {}
  BY <1>2
<1> QED
  BY <1>1, <1>2, <1>3, BeyondConcat

\* A sequence of distinct elements is as long as the set of them is large.
LEMMA DistinctCounts ==
    ASSUME NEW S, NEW s \in Seq(S), Distinct(s, 0)
    PROVE  Cardinality(Beyond(s, 0)) = Len(s) /\ IsFiniteSet(Beyond(s, 0))
<1> DEFINE n == Len(s)
           R == Beyond(s, 0)
<1>1. n \in Nat /\ s \in [1..n -> S] /\ R = {s[i] : i \in 1..n}
  BY DEF Beyond
<1>2. \A i, j \in 1..n : s[i] = s[j] => i = j
  BY DEF Distinct
<1> HIDE DEF n, R
<1>3. s \in [1..n -> R]
  BY <1>1
<1>4. s \in Bijection(1..n, R)
  BY <1>1, <1>2, <1>3 DEF Bijection, Injection, Surjection, IsInjective
<1>5. ExistsBijection(1..n, R)
  BY <1>4 DEF ExistsBijection
<1>6. Cardinality(R) = n
  BY <1>1, <1>5, FS_CountingElements
<1>7. IsFiniteSet(R)
  BY <1>1, <1>4, FS_NatBijection, <1>5
<1> QED
  BY <1>6, <1>7 DEF n, R

LEMMA SetAsSeqIs ==
    ASSUME NEW S, IsFiniteSet(S)
    PROVE  /\ SetAsSeq(S) \in Seq(S)
           /\ Beyond(SetAsSeq(S), 0) = S /\ Distinct(SetAsSeq(S), 0)
<1> DEFINE n == Cardinality(S)
           s == SetAsSeq(S)
<1>1. n \in Nat
  BY FS_CardinalityType
<1>2. PICK f : f \in Bijection(1..n, S)
  BY FS_CardinalityType DEF ExistsBijection
<1>3. f \in [1..n -> S] /\ \A i, j \in DOMAIN f : i # j => f[i] # f[j]
  BY <1>2 DEF Bijection, Injection, IsInjective
<1>4. s \in [1..n -> S] /\ \A i, j \in DOMAIN s : i # j => s[i] # s[j]
  BY <1>3 DEF SetAsSeq
<1> HIDE DEF n, s
<1>5. s \in Seq(S) /\ Len(s) = n /\ DOMAIN s = 1..n
  BY <1>1, <1>4
<1>6. Distinct(s, 0)
  BY <1>4, <1>5 DEF Distinct
<1>7. Beyond(s, 0) \subseteq S
  BY <1>4, <1>5 DEF Beyond
<1>8. Cardinality(Beyond(s, 0)) = n
  BY <1>5, <1>6, DistinctCounts
<1>9. Beyond(s, 0) = S
  BY <1>7, <1>8, FS_Subset DEF n
<1> QED
  BY <1>5, <1>6, <1>9 DEF s

\* Where a node is: not looked at, in the batch, downloading, in the buffer,
\* yielded, or lost; nowhere twice, and a node that is not lost in one of them.
Waiting == Beyond(buffered, drained)

Apart(a, b, c, d, e) ==
    /\ a \cap (b \cup c \cup d \cup e) = {}
    /\ b \cap (c \cup d \cup e) = {}
    /\ c \cap (d \cup e) = {}
    /\ d \cap e = {}

PhaseInv ==
    /\ phase \in {"request", "rest", "raceRest", "drainRest", "resetRest", "drainLast", "resetLast",
                  "done"} => left = {}
    /\ phase \in {"rest", "raceRest", "drainRest", "resetRest", "drainLast", "resetLast", "done"}
          => batched = {}
    /\ phase \in {"drainLast", "resetLast", "done"} => downloads = {}
    /\ phase = "done" => buffered = <<>>

ThumbnailInv ==
    /\ IsFiniteSet(batched)
    /\ Distinct(buffered, drained) /\ Distinct(yielded, 0)
    /\ Apart(left, batched, downloads, Waiting, Yielded)
    /\ Nodes = left \cup batched \cup downloads \cup Waiting \cup Yielded \cup lost
    /\ PhaseInv

ThumbnailPhases ==
    {"iterate", "requestFull", "full", "raceFull", "drainFull", "resetFull", "request", "rest",
     "raceRest", "drainRest", "resetRest", "drainLast", "resetLast", "done", "failed"}

LEMMA YieldedIs == Yielded = Beyond(yielded, 0)
BY DEF Yielded, Beyond

LEMMA ThumbnailStarts ==
    ASSUME ThumbnailInit
    PROVE  ThumbnailTypeOK /\ ThumbnailInv
<1>1. ThumbnailTypeOK
  <2>1. 0 \in 0..MaxAttempts
    BY ThumbnailDownloaderConstants
  <2> QED
    BY <2>1 DEF ThumbnailInit, ThumbnailTypeOK
<1>2. Waiting = {} /\ Yielded = {} /\ Distinct(buffered, drained) /\ Distinct(yielded, 0)
  BY DEF ThumbnailInit, Waiting, Yielded, Beyond, Distinct
<1>3. IsFiniteSet(batched)
  BY FS_EmptySet DEF ThumbnailInit
<1> QED
  BY <1>1, <1>2, <1>3 DEF ThumbnailInit, ThumbnailInv, Apart, PhaseInv

\* The steps that only change the phase, the race or the attempts.
LEMMA ThumbnailIdle ==
    ASSUME ThumbnailTypeOK, ThumbnailInv,
           UNCHANGED <<asked, left, batched, downloads, buffered, drained, yielded, lost>>,
           racing' \subseteq Nodes, attempt' \in [Nodes -> 0..MaxAttempts],
           phase' \in ThumbnailPhases, PhaseInv'
    PROVE  ThumbnailTypeOK' /\ ThumbnailInv'
<1>1. ThumbnailTypeOK'
  BY DEF ThumbnailTypeOK, ThumbnailPhases
<1>2. Waiting' = Waiting /\ Yielded' = Yielded
  BY DEF Waiting, Yielded, Beyond
<1>3. Distinct(buffered, drained)' /\ Distinct(yielded, 0)'
  BY DEF ThumbnailInv, Distinct
<1> QED
  BY <1>1, <1>2, <1>3 DEF ThumbnailInv

LEMMA ThumbnailKeeps ==
    ASSUME ThumbnailTypeOK, ThumbnailInv, [ThumbnailNext]_thumbnailVars
    PROVE  ThumbnailTypeOK' /\ ThumbnailInv'
<1>1. /\ asked \in Requests /\ left \subseteq Nodes /\ batched \subseteq Nodes
      /\ downloads \subseteq Nodes /\ racing \subseteq Nodes
      /\ attempt \in [Nodes -> 0..MaxAttempts]
      /\ buffered \in Seq(Nodes) /\ drained \in 0..Len(buffered)
      /\ yielded \in Seq(Nodes) /\ lost \subseteq Nodes /\ phase \in ThumbnailPhases
  BY DEF ThumbnailTypeOK, ThumbnailPhases
<1>2. /\ IsFiniteSet(batched)
      /\ Distinct(buffered, drained) /\ Distinct(yielded, 0)
      /\ Apart(left, batched, downloads, Waiting, Yielded)
      /\ Nodes = left \cup batched \cup downloads \cup Waiting \cup Yielded \cup lost
      /\ PhaseInv
  BY DEF ThumbnailInv
<1>3. Len(buffered) \in Nat /\ drained \in Nat /\ drained <= Len(buffered)
      /\ Len(yielded) \in Nat /\ 0 \in 0..Len(yielded)
  BY <1>1
<1>4. CASE UNCHANGED thumbnailVars
  <2>1. /\ UNCHANGED <<asked, left, batched, downloads, buffered, drained, yielded, lost>>
        /\ racing' \subseteq Nodes /\ attempt' \in [Nodes -> 0..MaxAttempts]
        /\ phase' \in ThumbnailPhases
    BY <1>1, <1>4 DEF thumbnailVars
  <2>2. PhaseInv'
    BY <1>2, <1>4 DEF PhaseInv, thumbnailVars
  <2> QED
    BY <2>1, <2>2, ThumbnailIdle
<1>5. CASE IterationFails \/ AllNodes \/ EnterRace \/ LeaveLoop \/ RaceSettles
  <2>1. /\ UNCHANGED <<asked, left, batched, downloads, buffered, drained, yielded, lost, attempt>>
        /\ racing' \subseteq Nodes
    BY <1>1, <1>5 DEF IterationFails, AllNodes, EnterRace, LeaveLoop, RaceSettles
  <2>2. phase' \in ThumbnailPhases
    BY <1>5 DEF IterationFails, AllNodes, EnterRace, LeaveLoop, RaceSettles, ThumbnailPhases
  <2>3. PhaseInv'
    BY <1>2, <1>5, <2>1 DEF IterationFails, AllNodes, EnterRace, LeaveLoop, RaceSettles, PhaseInv
  <2> QED
    BY <1>1, <2>1, <2>2, <2>3, ThumbnailIdle
<1>6. ASSUME NEW n \in Nodes, ThumbnailRetries(n)
      PROVE  ThumbnailTypeOK' /\ ThumbnailInv'
  <2>1. /\ UNCHANGED <<asked, left, batched, downloads, buffered, drained, yielded, lost, racing,
                       phase>>
        /\ attempt[n] < MaxAttempts /\ attempt' = [attempt EXCEPT ![n] = attempt[n] + 1]
    BY <1>6 DEF ThumbnailRetries
  <2>2. attempt[n] + 1 \in 0..MaxAttempts
    BY <1>1, <2>1, ThumbnailDownloaderConstants
  <2>3. attempt' \in [Nodes -> 0..MaxAttempts]
    BY <1>1, <2>1, <2>2
  <2>4. PhaseInv'
    BY <1>2, <2>1 DEF PhaseInv
  <2> QED
    BY <1>1, <2>1, <2>3, <2>4, ThumbnailIdle
<1>7. ASSUME NEW n \in Nodes, IterateThumbnailUids(n)
      PROVE  ThumbnailTypeOK' /\ ThumbnailInv'
  <2>1. /\ phase = "iterate" /\ n \in left /\ left' = left \ {n}
        /\ UNCHANGED <<asked, downloads, attempt, buffered, drained, racing, lost>>
    BY <1>7 DEF IterateThumbnailUids
  <2>2. Waiting' = Waiting /\ Distinct(buffered, drained)'
    BY <1>2, <2>1 DEF Waiting, Beyond, Distinct
  <2>3. n \notin batched /\ n \notin downloads /\ n \notin Waiting /\ n \notin Yielded
    BY <1>2, <2>1 DEF Apart
  <2>4. CASE asked[n] # "thumbnail"
    <3>1. yielded' = Append(yielded, n) /\ UNCHANGED <<batched, phase>>
      BY <1>7, <2>4 DEF IterateThumbnailUids
    <3>2. Yielded' = Yielded \cup {n} /\ Distinct(yielded, 0)' /\ yielded' \in Seq(Nodes)
      <4>1. n \notin Beyond(yielded, 0)
        BY <2>3, YieldedIs
      <4>2. Beyond(yielded', 0) = Beyond(yielded, 0) \cup {n} /\ Distinct(yielded', 0)
        BY <1>1, <1>2, <1>3, <3>1, <4>1, BeyondAppend
      <4>3. Yielded' = Beyond(yielded', 0)
        BY DEF Yielded, Beyond
      <4> QED
        BY <1>1, <3>1, <4>2, <4>3, YieldedIs
    <3>3. Apart(left', batched, downloads, Waiting, Yielded \cup {n})
      BY <1>2, <2>1, <2>3 DEF Apart
    <3>4. Nodes = left' \cup batched \cup downloads \cup Waiting \cup (Yielded \cup {n}) \cup lost
      BY <1>2, <2>1
    <3>5. PhaseInv'
      BY <2>1, <3>1 DEF PhaseInv
    <3>6. ThumbnailTypeOK'
      BY <1>1, <2>1, <3>1, <3>2 DEF ThumbnailTypeOK, ThumbnailPhases
    <3> QED
      BY <1>2, <2>1, <2>2, <3>1, <3>2, <3>3, <3>4, <3>5, <3>6 DEF ThumbnailInv
  <2>5. CASE asked[n] = "thumbnail"
    <3>1. batched' = batched \cup {n} /\ phase' \in {"requestFull", "full"} /\ yielded' = yielded
      BY <1>7, <2>5 DEF IterateThumbnailUids
    <3>2. Yielded' = Yielded /\ Distinct(yielded, 0)' /\ IsFiniteSet(batched')
      BY <1>2, <3>1, FS_AddElement DEF Yielded, Distinct
    <3>3. Apart(left', batched', downloads, Waiting, Yielded)
      BY <1>2, <2>1, <2>3, <3>1 DEF Apart
    <3>4. Nodes = left' \cup batched' \cup downloads \cup Waiting \cup Yielded \cup lost
      BY <1>2, <2>1, <3>1
    <3>5. PhaseInv'
      BY <3>1 DEF PhaseInv
    <3>6. ThumbnailTypeOK'
      BY <1>1, <2>1, <3>1 DEF ThumbnailTypeOK, ThumbnailPhases
    <3> QED
      BY <1>2, <2>1, <2>2, <3>1, <3>2, <3>3, <3>4, <3>5, <3>6 DEF ThumbnailInv
  <2> QED
    BY <2>4, <2>5
<1>8. CASE RequestBatchedThumbnailDownloads
  <2>1. PICK answer \in ThumbnailTokens(batched) : IterateThumbnailDownloads(answer[1], answer[2])
    BY <1>8 DEF RequestBatchedThumbnailDownloads
  <2> DEFINE given == answer[1]
             rest == batched \ given
             t == SetAsSeq(rest)
  <2>2. given \subseteq batched
    BY DEF ThumbnailTokens
  <2>3. /\ downloads' = downloads \cup given /\ buffered' = buffered \o t /\ batched' = {}
        /\ phase \in {"requestFull", "request"}
        /\ phase' = IF phase = "request" THEN "rest" ELSE "full"
        /\ UNCHANGED <<asked, left, attempt, drained, racing, yielded, lost>>
    BY <1>8, <2>1 DEF RequestBatchedThumbnailDownloads, IterateThumbnailDownloads
  <2>4. IsFiniteSet(rest) /\ rest \subseteq batched
    BY <1>2, FS_Subset
  <2> HIDE DEF given
  <2>5. t \in Seq(rest) /\ Beyond(t, 0) = rest /\ Distinct(t, 0)
    BY <2>4, SetAsSeqIs
  <2>6. t \in Seq(Nodes) /\ Waiting \cap rest = {}
    <3>1. rest \subseteq Nodes
      BY <1>1, <2>4
    <3>2. Waiting \cap rest = {}
      BY <1>2, <2>4 DEF Apart
    <3> HIDE DEF rest, t
    <3> QED
      BY <2>5, <3>1, <3>2
  <2> HIDE DEF t
  <2>7. Beyond(buffered', drained) = Waiting \cup rest /\ Distinct(buffered', drained)
    BY <1>1, <1>2, <2>3, <2>5, <2>6, BeyondConcat DEF Waiting
  <2>8. Waiting' = Waiting \cup rest
    BY <2>3, <2>7 DEF Waiting
  <2>9. Yielded' = Yielded /\ Distinct(yielded, 0)' /\ Distinct(buffered, drained)'
    <3>1. yielded' = yielded /\ drained' = drained
      BY <2>3
    <3>2. Yielded' = Yielded
      BY <3>1 DEF Yielded
    <3>3. Distinct(yielded', 0) /\ Distinct(buffered', drained')
      BY <1>2, <2>7, <3>1
    <3> QED
      BY <3>2, <3>3
  <2>10. Apart(left, {}, downloads \cup given, Waiting \cup rest, Yielded)
    BY <1>2, <2>2 DEF Apart
  <2>11. Nodes = left \cup {} \cup (downloads \cup given) \cup (Waiting \cup rest) \cup Yielded
                  \cup lost
    BY <1>2, <2>2
  <2>12. PhaseInv'
    BY <1>2, <2>3 DEF PhaseInv
  <2>13. buffered' \in Seq(Nodes) /\ drained' \in 0..Len(buffered')
    BY <1>1, <2>3, <2>6
  <2>14. ThumbnailTypeOK'
    BY <1>1, <2>2, <2>3, <2>13 DEF ThumbnailTypeOK, ThumbnailPhases
  <2>15. IsFiniteSet(batched')
    BY <2>3, FS_EmptySet
  <2> QED
    BY <2>3, <2>8, <2>9, <2>10, <2>11, <2>12, <2>14, <2>15 DEF ThumbnailInv
<1>9. ASSUME NEW n \in Nodes, ThumbnailEnds(n)
      PROVE  ThumbnailTypeOK' /\ ThumbnailInv'
  <2>1. /\ n \in downloads /\ downloads' = downloads \ {n} /\ buffered' = Append(buffered, n)
        /\ UNCHANGED <<asked, left, batched, attempt, drained, racing, phase, yielded, lost>>
    BY <1>9 DEF ThumbnailEnds
  <2>2. n \notin Waiting
    BY <1>2, <2>1 DEF Apart
  <2>3. Beyond(buffered', drained) = Waiting \cup {n} /\ Distinct(buffered', drained)
    BY <1>1, <1>2, <2>1, <2>2, BeyondAppend DEF Waiting
  <2>4. Waiting' = Waiting \cup {n}
    BY <2>1, <2>3 DEF Waiting
  <2>5. Yielded' = Yielded /\ Distinct(yielded, 0)' /\ Distinct(buffered, drained)'
    <3>1. yielded' = yielded /\ drained' = drained
      BY <2>1
    <3>2. Yielded' = Yielded
      BY <3>1 DEF Yielded
    <3>3. Distinct(yielded', 0) /\ Distinct(buffered', drained')
      BY <1>2, <2>3, <3>1
    <3> QED
      BY <3>2, <3>3
  <2>6. Apart(left, batched, downloads', Waiting \cup {n}, Yielded)
    BY <1>2, <2>1 DEF Apart
  <2>7. Nodes = left \cup batched \cup downloads' \cup (Waiting \cup {n}) \cup Yielded \cup lost
    BY <1>2, <2>1
  <2>8. PhaseInv'
    BY <1>2, <2>1 DEF PhaseInv
  <2>9. buffered' \in Seq(Nodes) /\ drained' \in 0..Len(buffered')
    BY <1>1, <2>1
  <2>10. ThumbnailTypeOK'
    BY <1>1, <2>1, <2>9 DEF ThumbnailTypeOK, ThumbnailPhases
  <2> QED
    BY <1>2, <2>1, <2>4, <2>5, <2>6, <2>7, <2>8, <2>10 DEF ThumbnailInv
<1>10. CASE Drain /\ drained < Len(buffered)
  <2> DEFINE x == buffered[drained + 1]
  <2>1. /\ yielded' = Append(yielded, x) /\ drained' = drained + 1
        /\ UNCHANGED <<asked, left, batched, downloads, attempt, buffered, racing, lost, phase>>
    BY <1>10 DEF Drain
  <2>2. drained + 1 \in (drained + 1)..Len(buffered) /\ drained + 1 \in 1..Len(buffered)
    BY <1>3, <1>10
  <2>3. x \in Waiting /\ x \in Nodes
    BY <1>1, <2>2 DEF Waiting, Beyond
  <2>4. x \notin Yielded
    BY <1>2, <2>3 DEF Apart
  <2>5. Waiting' = Waiting \ {x}
    <3>1. \A i \in (drained + 1)..Len(buffered) :
             i = drained + 1 \/ i \in (drained + 1 + 1)..Len(buffered)
      BY <1>3
    <3>2. \A i \in (drained + 1 + 1)..Len(buffered) :
             i \in (drained + 1)..Len(buffered) /\ i # drained + 1
      BY <1>3
    <3>3. \A i \in (drained + 1 + 1)..Len(buffered) : buffered[i] # x
      BY <1>2, <2>2, <3>2 DEF Distinct
    <3> QED
      BY <2>1, <3>1, <3>2, <3>3 DEF Waiting, Beyond
  <2>6. Distinct(buffered, drained)'
    <3>1. \A i \in (drained + 1 + 1)..Len(buffered) : i \in (drained + 1)..Len(buffered)
      BY <1>3
    <3> QED
      BY <1>2, <2>1, <3>1 DEF Distinct
  <2> HIDE DEF x
  <2>7. Yielded' = Yielded \cup {x} /\ Distinct(yielded, 0)' /\ yielded' \in Seq(Nodes)
    <3>1. x \notin Beyond(yielded, 0)
      BY <2>4, YieldedIs
    <3>2. Beyond(Append(yielded, x), 0) = Beyond(yielded, 0) \cup {x} /\ Distinct(Append(yielded, x), 0)
      <4>1. yielded \in Seq(Nodes) /\ x \in Nodes /\ 0 \in 0..Len(yielded) /\ Distinct(yielded, 0)
        BY <1>1, <1>2, <1>3, <2>3
      <4> QED
        BY <3>1, <4>1, BeyondAppend
    <3>4. yielded' = Append(yielded, x)
      BY <2>1
    <3>3. Yielded' = Beyond(yielded', 0)
      BY DEF Yielded, Beyond
    <3>5. yielded' \in Seq(Nodes)
      BY <1>1, <2>3, <3>4
    <3> QED
      BY <3>2, <3>3, <3>4, <3>5, YieldedIs
  <2>8. Apart(left, batched, downloads, Waiting \ {x}, Yielded \cup {x})
    BY <1>2, <2>3 DEF Apart
  <2>9. Nodes = left \cup batched \cup downloads \cup (Waiting \ {x}) \cup (Yielded \cup {x})
                \cup lost
    BY <1>2, <2>3
  <2>10. PhaseInv'
    BY <1>2, <2>1 DEF PhaseInv
  <2>11. drained' \in 0..Len(buffered')
    BY <1>3, <1>10, <2>1
  <2>12. ThumbnailTypeOK'
    BY <1>1, <2>1, <2>7, <2>11 DEF ThumbnailTypeOK, ThumbnailPhases
  <2> QED
    BY <1>2, <2>1, <2>5, <2>6, <2>7, <2>8, <2>9, <2>10, <2>12 DEF ThumbnailInv
<1>11. CASE Drain /\ ~(drained < Len(buffered))
  <2>1. /\ phase \in {"drainFull", "drainRest", "drainLast"}
        /\ phase' = CASE phase = "drainFull" -> "resetFull"
                      [] phase = "drainRest" -> "resetRest"
                      [] OTHER -> "resetLast"
        /\ UNCHANGED <<asked, left, batched, downloads, attempt, buffered, drained, racing, lost,
                       yielded>>
    BY <1>11 DEF Drain
  <2>2. /\ phase' \in {"resetFull", "resetRest", "resetLast"}
        /\ phase' = "resetRest" => phase = "drainRest"
        /\ phase' = "resetLast" => phase = "drainLast"
    BY <2>1
  <2>3. PhaseInv' /\ phase' \in ThumbnailPhases
    BY <1>2, <2>1, <2>2 DEF PhaseInv, ThumbnailPhases
  <2> QED
    BY <1>1, <2>1, <2>3, ThumbnailIdle
<1>12. CASE Reset
  <2>1. /\ lost' = lost \cup Waiting /\ buffered' = <<>> /\ drained' = 0
        /\ phase \in {"resetFull", "resetRest", "resetLast"}
        /\ phase' = CASE phase = "resetFull" -> "full" [] phase = "resetRest" -> "rest"
                      [] OTHER -> "done"
        /\ UNCHANGED <<asked, left, batched, downloads, attempt, racing, yielded>>
    BY <1>12 DEF Reset, Waiting, Beyond
  <2>2. /\ phase' \in {"full", "rest", "done"}
        /\ phase' = "rest" => phase = "resetRest"
        /\ phase' = "done" => phase = "resetLast"
    BY <2>1
  <2>3. Waiting' = {} /\ Distinct(buffered, drained)'
    BY <2>1 DEF Waiting, Beyond, Distinct
  <2>4. Yielded' = Yielded /\ Distinct(yielded, 0)'
    BY <1>2, <2>1 DEF Yielded, Distinct
  <2>5. Apart(left, batched, downloads, {}, Yielded)
    BY <1>2 DEF Apart
  <2>6. Nodes = left \cup batched \cup downloads \cup {} \cup Yielded \cup (lost \cup Waiting)
    BY <1>2
  <2>7. PhaseInv'
    BY <1>2, <2>1, <2>2 DEF PhaseInv
  <2>8. buffered' \in Seq(Nodes) /\ drained' \in 0..Len(buffered') /\ lost' \subseteq Nodes
    <3>1. Waiting \subseteq Nodes
      BY <1>2
    <3> QED
      BY <1>1, <2>1, <3>1
  <2>9. ThumbnailTypeOK'
    BY <1>1, <2>1, <2>2, <2>8 DEF ThumbnailTypeOK
  <2> QED
    BY <1>2, <2>1, <2>3, <2>4, <2>5, <2>6, <2>7, <2>9 DEF ThumbnailInv
<1> QED
  BY <1>4, <1>5, <1>6, <1>7, <1>8, <1>9, <1>10, <1>11, <1>12 DEF ThumbnailNext, Generator

LEMMA ResultsAreOne ==
    ASSUME ThumbnailTypeOK, ThumbnailInv
    PROVE  OneResultPerNode
<1>1. Cardinality(Yielded) = Len(yielded)
  <2>1. yielded \in Seq(Nodes) /\ Distinct(yielded, 0)
    BY DEF ThumbnailTypeOK, ThumbnailInv
  <2> QED
    BY <2>1, DistinctCounts, YieldedIs
<1>2. ASSUME phase = "done"
      PROVE  Nodes = Yielded \cup lost
  <2>1. left = {} /\ batched = {} /\ downloads = {} /\ buffered = <<>>
    BY <1>2 DEF ThumbnailInv, PhaseInv
  <2>2. Waiting = {}
    BY <2>1 DEF Waiting, Beyond, ThumbnailTypeOK
  <2> QED
    BY <2>1, <2>2 DEF ThumbnailInv
<1> QED
  BY <1>1, <1>2 DEF OneResultPerNode

-----------------------------------------------------------------------------
(* The seekable stream: where blocks start.                                *)

Before(sizes) ==
    CHOOSE f : f = [k \in 0..Len(sizes) |-> IF k = 0 THEN 0 ELSE f[k - 1] + sizes[k]]

LEMMA StartIsBefore ==
    ASSUME NEW s, NEW i
    PROVE  Start(s, i) = Before(s)[i - 1]
BY DEF Start, Before

\* The starts add up.
LEMMA BeforeAddsUp ==
    ASSUME NEW s \in Seq(Nat)
    PROVE  /\ Before(s)[0] = 0
           /\ \A k \in 0..Len(s) : Before(s)[k] \in Nat
           /\ \A k \in 1..Len(s) : Before(s)[k] = Before(s)[k - 1] + s[k]
<1> DEFINE N == Len(s)
           Adds(g, n) == /\ g \in [0..n -> Nat] /\ g[0] = 0
                         /\ \A k \in 1..n : g[k] = g[k - 1] + s[k]
<1>1. N \in Nat /\ \A k \in 1..N : s[k] \in Nat
  OBVIOUS
<1>2. \A n \in 0..N : \E g : Adds(g, n)
  <2> DEFINE Bad == {n \in 0..N : ~\E g : Adds(g, n)}
  <2> SUFFICES Bad = {}
    OBVIOUS
  <2> SUFFICES ASSUME Bad # {} PROVE FALSE
    OBVIOUS
  <2>1. PICK m \in Bad : \A y \in Bad : m <= y
    <3>1. Bad \subseteq Nat
      BY <1>1
    <3> HIDE DEF Bad
    <3> QED
      BY <3>1, LeastNumber
  <2>2. m # 0
    <3> DEFINE g == [k \in 0..0 |-> 0]
    <3>1. Adds(g, 0)
      OBVIOUS
    <3> QED
      BY <3>1
  <2>3. m \in Nat /\ m - 1 \in 0..N /\ m - 1 \in Nat /\ m \in 1..N /\ m - 1 < m
    BY <1>1, <2>2
  <2>4. m - 1 \notin Bad
    <3> HIDE DEF Bad
    <3> QED
      BY <2>1, <2>3
  <2>5. PICK g : Adds(g, m - 1)
    BY <2>3, <2>4
  <2> DEFINE h == [k \in 0..m |-> IF k = m THEN g[m - 1] + s[m] ELSE g[k]]
  <2>6. \A k \in 0..m : k # m => k \in 0..(m - 1)
    BY <2>3
  <2>7. g[m - 1] \in Nat /\ s[m] \in Nat /\ \A k \in 0..(m - 1) : g[k] \in Nat
    BY <1>1, <2>3, <2>5
  <2>8. h \in [0..m -> Nat]
    BY <2>6, <2>7
  <2>9. h[0] = 0
    BY <2>2, <2>3, <2>5
  <2>10. ASSUME NEW k \in 1..m
         PROVE  h[k] = h[k - 1] + s[k]
    <3>1. k \in 0..m /\ k - 1 \in 0..m /\ k - 1 # m
      BY <2>3
    <3>2. h[k - 1] = g[k - 1]
      BY <3>1
    <3>3. CASE k = m
      BY <3>1, <3>2, <3>3
    <3>4. CASE k # m
      <4>1. k \in 1..(m - 1)
        BY <2>3, <3>4
      <4>2. h[k] = g[k]
        BY <3>1, <3>4
      <4> QED
        BY <2>5, <3>2, <4>1, <4>2
    <3> QED
      BY <3>3, <3>4
  <2>11. Adds(h, m)
    BY <2>8, <2>9, <2>10
  <2> QED
    BY <2>11
<1>3. PICK g : Adds(g, N)
  <2>1. N \in 0..N
    BY <1>1
  <2> HIDE DEF Adds, N
  <2> QED
    BY <1>2, <2>1
<1>4. g = [k \in 0..N |-> IF k = 0 THEN 0 ELSE g[k - 1] + s[k]]
  <2>1. \A k \in 0..N : k = 0 \/ k \in 1..N
    BY <1>1
  <2>2. \A k \in 0..N : g[k] = IF k = 0 THEN 0 ELSE g[k - 1] + s[k]
    BY <1>3, <2>1
  <2> QED
    BY <1>3, <2>2
<1> DEFINE f == Before(s)
<1>5. f = [k \in 0..N |-> IF k = 0 THEN 0 ELSE f[k - 1] + s[k]]
  <2> DEFINE P(h) == h = [k \in 0..N |-> IF k = 0 THEN 0 ELSE h[k - 1] + s[k]]
  <2>1. P(g)
    BY <1>4, Zenon
  <2>2. Before(s) = CHOOSE h : P(h)
    BY Zenon DEF Before
  <2>3. P(CHOOSE h : P(h))
    <3> HIDE DEF P
    <3> QED
      BY <2>1, Zenon
  <2>4. P(Before(s))
    <3> HIDE DEF P
    <3> QED
      BY <2>2, <2>3, Zenon
  <2> QED
    BY <2>4, Zenon
<1> HIDE DEF f
<1>6. f[0] = 0 /\ \A k \in 1..N : f[k] = f[k - 1] + s[k]
  <2>1. 0 \in 0..N /\ \A k \in 1..N : k \in 0..N /\ k # 0
    BY <1>1
  <2> QED
    BY <1>5, <2>1
<1>7. \A k \in 0..N : f[k] \in Nat
  <2> DEFINE Bad == {n \in 0..N : f[n] \notin Nat}
  <2> SUFFICES Bad = {}
    OBVIOUS
  <2> SUFFICES ASSUME Bad # {} PROVE FALSE
    OBVIOUS
  <2>1. PICK m \in Bad : \A y \in Bad : m <= y
    <3>1. Bad \subseteq Nat
      BY <1>1
    <3> HIDE DEF Bad
    <3> QED
      BY <3>1, LeastNumber
  <2>2. m # 0
    BY <1>6
  <2>3. m \in Nat /\ m - 1 \in 0..N /\ m \in 1..N /\ m - 1 < m
    BY <1>1, <2>2
  <2>4. m - 1 \notin Bad
    <3> HIDE DEF Bad
    <3> QED
      BY <2>1, <2>3
  <2>5. f[m - 1] \in Nat /\ s[m] \in Nat /\ f[m] = f[m - 1] + s[m]
    BY <1>1, <1>6, <2>3, <2>4
  <2> QED
    BY <2>5
<1> QED
  BY <1>6, <1>7 DEF f

LEMMA StartsAddUp ==
    ASSUME NEW s \in Seq(Nat)
    PROVE  /\ Start(s, 1) = 0
           /\ \A i \in 1..(Len(s) + 1) : Start(s, i) \in Nat
           /\ \A i \in 1..Len(s) : Start(s, i + 1) = Start(s, i) + s[i]
<1>1. Len(s) \in Nat
  OBVIOUS
<1>2. Start(s, 1) = Before(s)[0]
  BY StartIsBefore
<1>3. ASSUME NEW i \in 1..(Len(s) + 1)
      PROVE  Start(s, i) = Before(s)[i - 1] /\ i - 1 \in 0..Len(s)
  BY <1>1, StartIsBefore
<1>4. ASSUME NEW i \in 1..Len(s)
      PROVE  Start(s, i + 1) = Start(s, i) + s[i]
  <2>1. i \in 1..(Len(s) + 1) /\ i + 1 \in 1..(Len(s) + 1) /\ (i + 1) - 1 = i
    BY <1>1
  <2> QED
    BY <1>3, <2>1, BeforeAddsUp
<1> QED
  BY <1>2, <1>3, <1>4, BeforeAddsUp

\* No block starts after the end of the file.
LEMMA StartsWithin ==
    ASSUME NEW s \in Seq(Nat), NEW i \in 1..(Len(s) + 1)
    PROVE  Start(s, i) <= Sum(s) /\ Sum(s) \in Nat
<1> DEFINE N == Len(s)
           St(j) == Start(s, j)
<1>1. N \in Nat /\ \A k \in 1..N : s[k] \in Nat
  OBVIOUS
<1>2. /\ \A j \in 1..(N + 1) : St(j) \in Nat
      /\ \A j \in 1..N : St(j + 1) = St(j) + s[j]
  BY StartsAddUp
<1>3. Sum(s) = St(N + 1) /\ Sum(s) \in Nat
  BY <1>1, <1>2 DEF Sum
<1> HIDE DEF N, St
<1>4. \A d \in 0..N : St(N + 1 - d) <= Sum(s)
  <2> DEFINE Bad == {d \in 0..N : ~(St(N + 1 - d) <= Sum(s))}
  <2> SUFFICES Bad = {}
    OBVIOUS
  <2> SUFFICES ASSUME Bad # {} PROVE FALSE
    OBVIOUS
  <2>1. PICK m \in Bad : \A y \in Bad : m <= y
    <3>1. Bad \subseteq Nat
      BY <1>1
    <3> HIDE DEF Bad
    <3> QED
      BY <3>1, LeastNumber
  <2>2. m # 0
    <3>1. N + 1 - 0 = N + 1
      BY <1>1
    <3> QED
      BY <1>3, <3>1
  <2>3. m \in Nat /\ m - 1 \in 0..N /\ m - 1 < m
    BY <1>1, <2>2
  <2>4. m - 1 \notin Bad
    <3> HIDE DEF Bad
    <3> QED
      BY <2>1, <2>3
  <2> DEFINE j == N + 1 - m
  <2>5. j \in 1..N /\ j \in 1..(N + 1) /\ j + 1 \in 1..(N + 1) /\ N + 1 - (m - 1) = j + 1
    BY <1>1, <2>2, <2>3
  <2>6. St(j + 1) <= Sum(s)
    BY <2>3, <2>4, <2>5
  <2>7. St(j + 1) = St(j) + s[j] /\ St(j) \in Nat /\ s[j] \in Nat
    BY <1>1, <1>2, <2>5
  <2>8. St(j) <= Sum(s)
    BY <1>3, <2>6, <2>7
  <2> QED
    BY <2>8
<1>5. N + 1 - i \in 0..N /\ N + 1 - (N + 1 - i) = i
  BY <1>1 DEF N
<1> QED
  BY <1>3, <1>4, <1>5 DEF St

LEMMA BytesAre ==
    ASSUME NEW from \in Nat, NEW to \in Nat
    PROVE  /\ Bytes(from, to) \in Seq(Nat)
           /\ Len(Bytes(from, to)) = IF to > from THEN to - from ELSE 0
           /\ \A k \in 1..Len(Bytes(from, to)) : Bytes(from, to)[k] = from + k - 1 /\ from + k - 1 < to
<1> DEFINE n == IF to > from THEN to - from ELSE 0
           b == Bytes(from, to)
<1>1. n \in Nat
  OBVIOUS
<1>2. b = [k \in 1..n |-> from + k - 1]
  BY DEF Bytes
<1>3. \A k \in 1..n : from + k - 1 \in Nat /\ from + k - 1 < to
  OBVIOUS
<1> HIDE DEF n, b
<1>4. b \in Seq(Nat) /\ Len(b) = n
  BY <1>1, <1>2, <1>3
<1>5. \A k \in 1..n : b[k] = from + k - 1
  BY <1>2
<1> QED
  BY <1>3, <1>4, <1>5 DEF n, b

\* getBlockIndex finds the block the position is in.
LEMMA BlockIndexIs ==
    ASSUME NEW sizes \in Seq(Nat), NEW pos \in Nat, GetBlockIndex(sizes, pos) # <<>>
    PROVE  \E i \in Nat \ {0}, o \in Nat :
              /\ GetBlockIndex(sizes, pos) = <<i, o>>
              /\ sizes # <<>> => i \in 1..Len(sizes) /\ Start(sizes, i) + o = pos
<1> DEFINE in == {i \in 1..Len(sizes) : pos < Start(sizes, i) + sizes[i]}
           m == Min(in)
<1>1. CASE sizes = <<>>
  <2>1. GetBlockIndex(sizes, pos) = <<pos \div DefaultChunk + 1, pos % DefaultChunk>>
    BY <1>1 DEF GetBlockIndex
  <2>2. DefaultChunk \in Nat /\ DefaultChunk > 0
    BY SeekableStreamConstants
  <2>3. pos \div DefaultChunk \in Nat /\ pos % DefaultChunk \in Nat
    BY <2>2
  <2>4. pos \div DefaultChunk + 1 \in Nat \ {0}
    BY <2>3
  <2> QED
    BY <1>1, <2>1, <2>3, <2>4
<1>2. CASE sizes # <<>>
  <2>1. in # {} /\ GetBlockIndex(sizes, pos) = <<m, pos - Start(sizes, m)>>
    BY <1>2 DEF GetBlockIndex
  <2>2. Len(sizes) \in Nat /\ \A k \in 1..Len(sizes) : sizes[k] \in Nat
    OBVIOUS
  <2>3. in \subseteq 1..Len(sizes) /\ in \subseteq Nat
    BY <2>2
  <2>4. IsFiniteSet(in)
    <3>1. IsFiniteSet(1..Len(sizes))
      BY <2>2, FS_Interval
    <3> HIDE DEF in
    <3> QED
      BY <2>3, <3>1, FS_Subset
  <2>5. m \in in /\ \A y \in in : m <= y
    <3> HIDE DEF in
    <3> QED
      BY <2>1, <2>3, <2>4, MinIs
  <2> HIDE DEF m
  <2>6. m \in 1..Len(sizes) /\ m \in Nat \ {0} /\ m \in 1..(Len(sizes) + 1)
    BY <2>2, <2>5
  <2>7. Start(sizes, m) \in Nat
    BY <2>6, StartsAddUp
  <2>8. Start(sizes, m) <= pos
    <3>1. CASE m = 1
      <4>1. Start(sizes, m) = 0
        BY <3>1, StartsAddUp
      <4> QED
        BY <4>1
    <3>2. CASE m # 1
      <4> DEFINE l == m - 1
      <4>1. l \in 1..Len(sizes) /\ l < m /\ l + 1 = m /\ l \in Nat
        BY <2>2, <2>6, <3>2
      <4>2. l \notin in
        BY <2>5, <2>6, <4>1
      <4>3. Start(sizes, m) = Start(sizes, l) + sizes[l]
        BY <4>1, StartsAddUp
      <4> HIDE DEF l
      <4>4. ~(pos < Start(sizes, l) + sizes[l])
        BY <4>1, <4>2
      <4> QED
        BY <2>7, <4>3, <4>4
    <3> QED
      BY <3>1, <3>2
  <2> DEFINE o == pos - Start(sizes, m)
  <2>9. o \in Nat /\ Start(sizes, m) + o = pos
    BY <2>7, <2>8
  <2> QED
    BY <2>1, <2>6, <2>9
<1> QED
  BY <1>1, <1>2

\* What a pull gives: bytes; those at its position if the claimed sizes are the
\* real ones.
LEMMA PulledIs ==
    ASSUME file \in Files, NEW pos \in Nat
    PROVE  LET r == DownloadDataFromPosition(pos) IN
           /\ r.data \in Seq(Nat)
           /\ file.claimed = file.real =>
                 \A k \in 1..Len(r.data) : r.data[k] = pos + k - 1 /\ r.data[k] < Sum(file.real)
<1> DEFINE r == DownloadDataFromPosition(pos)
           at == GetBlockIndex(file.claimed, pos)
<1>1. file.claimed \in Seq(Nat) /\ file.real \in Seq(Nat)
  BY SeekableStreamConstants
<1>2. CASE r.data = <<>>
  <2>1. r.data \in Seq(Nat) /\ Len(r.data) = 0
    BY <1>2
  <2> QED
    BY <2>1
<1>3. CASE r.data # <<>>
  <2>1. /\ at # <<>> /\ ~(at[1] > Len(file.real))
        /\ r.data = Bytes(Start(file.real, at[1]) + at[2], Start(file.real, at[1] + 1))
    BY <1>3 DEF DownloadDataFromPosition
  <2>2. PICK i \in Nat \ {0}, o \in Nat :
           /\ at = <<i, o>>
           /\ file.claimed # <<>> => i \in 1..Len(file.claimed) /\ Start(file.claimed, i) + o = pos
    BY <1>1, <2>1, BlockIndexIs
  <2> HIDE DEF at
  <2>3. at[1] = i /\ at[2] = o
    BY <2>2
  <2>4. i \in 1..Len(file.real) /\ i \in 1..(Len(file.real) + 1) /\ i + 1 \in 1..(Len(file.real) + 1)
    BY <1>1, <2>1, <2>3
  <2> DEFINE from == Start(file.real, i) + o
             to == Start(file.real, i + 1)
  <2>5. from \in Nat /\ to \in Nat
    BY <1>1, <2>4, StartsAddUp
  <2>6. to <= Sum(file.real) /\ Sum(file.real) \in Nat
    BY <1>1, <2>4, StartsWithin
  <2>7. r.data = Bytes(from, to)
    BY <2>1, <2>3
  <2>8. file.claimed = file.real => from = pos
    <3>1. file.real # <<>>
      BY <1>1, <2>4
    <3> QED
      BY <2>2, <3>1
  <2> HIDE DEF from, to, r
  <2> DEFINE B == Bytes(from, to)
  <2>9. B \in Seq(Nat) /\ \A k \in 1..Len(B) : B[k] = from + k - 1 /\ from + k - 1 < to
    BY <2>5, BytesAre, Zenon
  <2>10. r.data \in Seq(Nat)
    BY <2>7, <2>9, Zenon
  <2>11. \A k \in 1..Len(r.data) : r.data[k] = from + k - 1 /\ from + k - 1 < to
    BY <2>7, <2>9, Zenon
  <2>12. ASSUME NEW k \in 1..Len(r.data)
         PROVE  r.data[k] = from + k - 1 /\ r.data[k] < Sum(file.real)
    <3>1. Len(r.data) \in Nat
      BY <2>10
    <3>2. k \in Nat
      BY <3>1
    <3>3. r.data[k] = from + k - 1 /\ from + k - 1 < to
      BY <2>11
    <3> QED
      BY <2>5, <2>6, <3>2, <3>3
  <2>13. ASSUME file.claimed = file.real, NEW k \in 1..Len(r.data)
         PROVE  r.data[k] = pos + k - 1 /\ r.data[k] < Sum(file.real)
    BY <2>8, <2>12, <2>13
  <2> QED
    BY <2>10, <2>13 DEF r
<1> QED
  BY <1>2, <1>3

-----------------------------------------------------------------------------
(* The seekable stream: types.                                             *)

\* The source is closed for good, and the buffer is left behind only at its end.
ControlInv ==
    /\ source # "open" => pulling = -1
    /\ streamClosed => source = "closed" /\ queue = <<>>
    /\ bufferPosition > Len(buffer) => source = "closed" /\ queue = <<>> /\ chunks = <<>>

\* SeekTypeOK without the flags.
SeekTypes ==
    /\ file \in Files
    /\ position \in Nat /\ bufferPosition \in Nat /\ currentPosition \in Nat /\ reading \in Nat
    /\ pulling \in Nat \cup {-1} /\ source \in {"open", "closed", "errored"}
    /\ queue \in Seq(Seq(Nat)) /\ buffer \in Seq(Nat) /\ chunks \in Seq(Nat)
    /\ lastRead \in [at : Nat, asked : Nat, value : Seq(Nat)]

LEMMA SeekTypesAre ==
    SeekTypeOK <=> SeekTypes /\ streamClosed \in BOOLEAN /\ stranded \in BOOLEAN
BY DEF SeekTypeOK, SeekTypes

LEMMA SeekTypesAfter ==
    SeekTypes' /\ streamClosed' \in BOOLEAN /\ stranded' \in BOOLEAN => SeekTypeOK'
BY DEF SeekTypeOK, SeekTypes

\* A part of a sequence, from anywhere up to something in it.
LEMMA PartOf ==
    ASSUME NEW S, NEW s \in Seq(S), NEW a \in Nat, NEW n \in 0..Len(s)
    PROVE  /\ SubSeq(s, a + 1, n) \in Seq(S)
           /\ Len(SubSeq(s, a + 1, n)) = IF a < n THEN n - a ELSE 0
           /\ \A k \in 1..Len(SubSeq(s, a + 1, n)) : SubSeq(s, a + 1, n)[k] = s[a + k]
<1> DEFINE u == SubSeq(s, a + 1, n)
<1>1. Len(s) \in Nat /\ n \in Nat /\ n <= Len(s)
  OBVIOUS
<1>2. CASE a < n
  <2>1. a + 1 \in 1..(Len(s) + 1) /\ n \in (a + 1 - 1)..Len(s)
    BY <1>1, <1>2
  <2>2. /\ u \in Seq(S) /\ Len(u) = IF a + 1 <= n THEN n - (a + 1) + 1 ELSE 0
        /\ \A k \in 1..(n - (a + 1) + 1) : u[k] = s[a + 1 + k - 1]
    BY <2>1, SubSeqProperties
  <2> HIDE DEF u
  <2>3. Len(u) = n - a /\ n - (a + 1) + 1 = n - a
    BY <1>1, <1>2, <2>2
  <2>4. \A k \in 1..(n - a) : a + 1 + k - 1 = a + k
    BY <1>1
  <2>5. \A k \in 1..Len(u) : u[k] = s[a + k]
    BY <2>2, <2>3, <2>4
  <2> QED
    BY <1>2, <2>2, <2>3, <2>5 DEF u
<1>3. CASE ~(a < n)
  <2>1. u = <<>>
    <3>1. a + 1 \in Int /\ n \in Int /\ a + 1 > n
      BY <1>1, <1>3
    <3> QED
      BY <3>1, SubSeqEmpty
  <2>2. u \in Seq(S) /\ Len(u) = 0
    <3> HIDE DEF u
    <3> QED
      BY <2>1
  <2> HIDE DEF u
  <2> QED
    BY <1>3, <2>2 DEF u
<1> QED
  BY <1>2, <1>3

LEMMA SeekStarts ==
    ASSUME SeekInit
    PROVE  SeekTypeOK /\ ControlInv
<1>1. SeekTypes
  BY DEF SeekInit, SeekTypes
<1>2. streamClosed \in BOOLEAN /\ stranded \in BOOLEAN
  BY Zenon DEF SeekInit
<1>3. ControlInv
  BY DEF SeekInit, ControlInv
<1> QED
  BY <1>1, <1>2, <1>3, SeekTypesAre

LEMMA SeekFlagStep ==
    ASSUME SeekTypeOK, [SeekNext]_seekVars
    PROVE  streamClosed' \in BOOLEAN /\ stranded' \in BOOLEAN
<1>1. streamClosed \in BOOLEAN /\ stranded \in BOOLEAN
  BY DEF SeekTypeOK
<1>2. streamClosed' = streamClosed \/ streamClosed' = TRUE \/ streamClosed' = FALSE
  BY Zenon DEF SeekNext, ReadStep, PullStarts, PullEnds, EnsureBufferSize, ReadReturns, Read, Seek,
     seekVars
<1>3. stranded' = stranded \/ stranded' = (stranded \/ source = "closed")
  BY Zenon DEF SeekNext, ReadStep, PullStarts, PullEnds, EnsureBufferSize, ReadReturns, Read, Seek,
     seekVars
<1> QED
  BY <1>1, <1>2, <1>3, Zenon

\* What the end of a read does.
LEMMA ReturnIs ==
    ASSUME SeekTypes, ControlInv, ReadReturns
    PROVE  LET from == IF chunks = <<>> THEN bufferPosition ELSE 0
               hi == IF from + reading > Len(buffer') THEN Len(buffer') ELSE from + reading IN
           /\ buffer' \in Seq(Nat) /\ hi \in 0..Len(buffer') /\ from \in Nat
           /\ lastRead' = [at |-> currentPosition, asked |-> reading,
                           value |-> SubSeq(buffer', from + 1, hi)]
           /\ lastRead'.value \in Seq(Nat)
           /\ bufferPosition' = from + reading
           /\ chunks = <<>> => buffer' = buffer
           /\ chunks # <<>> =>
                 /\ bufferPosition <= Len(buffer)
                 /\ Len(buffer') = Len(buffer) - bufferPosition + Len(chunks)
                 /\ \A k \in 1..(Len(buffer) - bufferPosition) : buffer'[k] = buffer[bufferPosition + k]
                 /\ \A k \in 1..Len(chunks) : buffer'[Len(buffer) - bufferPosition + k] = chunks[k]
<1> DEFINE from == IF chunks = <<>> THEN bufferPosition ELSE 0
           hi == IF from + reading > Len(buffer') THEN Len(buffer') ELSE from + reading
           unused == SubSeq(buffer, bufferPosition + 1, Len(buffer))
           L == Len(buffer)
           b == bufferPosition
<1>1. /\ b \in Nat /\ reading \in Nat /\ buffer \in Seq(Nat) /\ chunks \in Seq(Nat)
      /\ L \in Nat /\ Len(chunks) \in Nat /\ currentPosition \in Nat
  BY DEF SeekTypes
<1>2. /\ buffer' = IF chunks = <<>> THEN buffer ELSE unused \o chunks
      /\ bufferPosition' = from + reading
      /\ lastRead' = [at |-> currentPosition, asked |-> reading,
                      value |-> SubSeq(buffer', from + 1, hi)]
  BY DEF ReadReturns
<1>3. from \in Nat
  BY <1>1
<1>4. /\ unused \in Seq(Nat) /\ Len(unused) = IF b < L THEN L - b ELSE 0
      /\ \A k \in 1..Len(unused) : unused[k] = buffer[b + k]
  <2>1. L \in 0..Len(buffer)
    BY <1>1
  <2> QED
    BY <1>1, <2>1, PartOf
<1> HIDE DEF unused
<1>5. buffer' \in Seq(Nat)
  BY <1>1, <1>2, <1>4
<1>6. hi \in 0..Len(buffer')
  <2>1. Len(buffer') \in Nat
    BY <1>5
  <2> QED
    BY <1>1, <1>3, <2>1
<1>7. ASSUME chunks # <<>>
      PROVE  /\ b <= L /\ Len(buffer') = L - b + Len(chunks)
             /\ \A k \in 1..(L - b) : buffer'[k] = buffer[b + k]
             /\ \A k \in 1..Len(chunks) : buffer'[L - b + k] = chunks[k]
  <2>1. b <= L
    BY <1>1, <1>7 DEF ControlInv
  <2>2. Len(unused) = L - b /\ L - b \in Nat
    BY <1>1, <1>4, <2>1
  <2>3. buffer' = unused \o chunks
    BY <1>2, <1>7
  <2> HIDE DEF L, b
  <2>4. /\ Len(unused \o chunks) = Len(unused) + Len(chunks)
        /\ \A k \in 1..Len(unused) : (unused \o chunks)[k] = unused[k]
        /\ \A k \in 1..Len(chunks) : (unused \o chunks)[Len(unused) + k] = chunks[k]
    <3>1. unused \in Seq(Nat) /\ chunks \in Seq(Nat)
      BY <1>1, <1>4
    <3> QED
      BY <3>1
  <2> QED
    BY <1>4, <2>1, <2>2, <2>3, <2>4
<1>8. lastRead'.value \in Seq(Nat)
  <2> HIDE DEF hi, from
  <2>1. lastRead'.value = SubSeq(buffer', from + 1, hi)
    BY <1>2
  <2>2. SubSeq(buffer', from + 1, hi) \in Seq(Nat)
    BY <1>3, <1>5, <1>6, PartOf
  <2> QED
    BY <2>1, <2>2
<1>9. chunks = <<>> => buffer' = buffer
  BY <1>2
<1> QED
  BY <1>2, <1>3, <1>5, <1>6, <1>7, <1>8, <1>9

LEMMA SeekKeeps ==
    ASSUME SeekTypeOK, ControlInv, [SeekNext]_seekVars
    PROVE  SeekTypeOK' /\ ControlInv'
<1>1. SeekTypes /\ streamClosed' \in BOOLEAN /\ stranded' \in BOOLEAN
  BY SeekTypesAre, SeekFlagStep
<1> SUFFICES SeekTypes' /\ ControlInv'
  BY <1>1, SeekTypesAfter
<1>2. CASE UNCHANGED seekVars
  BY <1>1, <1>2 DEF SeekTypes, ControlInv, seekVars, stream
<1>3. CASE PullStarts
  BY <1>1, <1>3 DEF PullStarts, SeekTypes, ControlInv
<1>4. CASE PullEnds
  <2> DEFINE r == DownloadDataFromPosition(pulling)
  <2>1. pulling # -1 /\ pulling \in Nat /\ source = "open"
    BY <1>1, <1>4 DEF PullEnds, SeekTypes, ControlInv
  <2>2. r.data \in Seq(Nat)
    BY <1>1, <2>1, PulledIs DEF SeekTypes
  <2>3. /\ pulling' = -1
        /\ UNCHANGED <<file, buffer, bufferPosition, currentPosition, streamClosed, reading, chunks,
                       lastRead>>
        /\ \/ source' \in {"closed", "errored"} /\ UNCHANGED <<position, queue>>
           \/ queue' = Append(queue, r.data) /\ position' = position + Len(r.data)
              /\ source' = source
    BY <1>4 DEF PullEnds
  <2> HIDE DEF r
  <2>4. queue' \in Seq(Seq(Nat)) /\ position' \in Nat /\ source' \in {"open", "closed", "errored"}
    <3>1. Append(queue, r.data) \in Seq(Seq(Nat)) /\ position + Len(r.data) \in Nat
      BY <1>1, <2>2 DEF SeekTypes
    <3> QED
      BY <1>1, <2>1, <2>3, <3>1 DEF SeekTypes
  <2>5. ~streamClosed /\ ~(bufferPosition > Len(buffer))
    BY <2>1 DEF ControlInv
  <2>6. SeekTypes'
    BY <1>1, <2>3, <2>4 DEF SeekTypes
  <2>7. ControlInv'
    BY <2>3, <2>5 DEF ControlInv
  <2> QED
    BY <2>6, <2>7
<1>5. CASE EnsureBufferSize
  <2>1. /\ UNCHANGED <<file, position, source, pulling, buffer, bufferPosition, currentPosition,
                       lastRead>>
        /\ \/ /\ queue # <<>> /\ chunks' = chunks \o Head(queue) /\ queue' = Tail(queue)
              /\ UNCHANGED <<streamClosed, reading>>
           \/ /\ queue = <<>> /\ source = "closed" /\ streamClosed'
              /\ UNCHANGED <<chunks, queue, reading>>
           \/ reading' = 0 /\ UNCHANGED <<chunks, queue, streamClosed>>
        /\ ~streamClosed
    BY <1>5 DEF EnsureBufferSize
  <2>2. chunks' \in Seq(Nat) /\ queue' \in Seq(Seq(Nat)) /\ reading' \in Nat
    <3>1. /\ queue \in Seq(Seq(Nat)) /\ chunks \in Seq(Nat) /\ reading \in Nat
      BY <1>1 DEF SeekTypes
    <3>2. queue # <<>> => Head(queue) \in Seq(Nat) /\ Tail(queue) \in Seq(Seq(Nat))
      BY <3>1
    <3>3. queue # <<>> => chunks \o Head(queue) \in Seq(Nat)
      BY <3>1, <3>2
    <3>4. /\ chunks' = chunks \/ (queue # <<>> /\ chunks' = chunks \o Head(queue))
          /\ queue' = queue \/ (queue # <<>> /\ queue' = Tail(queue))
          /\ reading' = reading \/ reading' = 0
      BY <2>1
    <3>5. chunks' \in Seq(Nat) /\ queue' \in Seq(Seq(Nat))
      BY <3>1, <3>2, <3>3, <3>4, Zenon
    <3>6. reading' \in Nat
      BY <3>1, <3>4
    <3> QED
      BY <3>5, <3>6
  <2>3. SeekTypes'
    BY <1>1, <2>1, <2>2 DEF SeekTypes
  <2>4. ControlInv'
    BY <2>1 DEF ControlInv
  <2> QED
    BY <2>3, <2>4
<1>6. CASE ReadReturns
  <2> DEFINE from == IF chunks = <<>> THEN bufferPosition ELSE 0
  <2>1. /\ buffer' \in Seq(Nat) /\ from \in Nat /\ lastRead'.value \in Seq(Nat)
        /\ bufferPosition' = from + reading
        /\ \E v : lastRead' = [at |-> currentPosition, asked |-> reading, value |-> v]
        /\ chunks = <<>> => buffer' = buffer
        /\ chunks # <<>> =>
              /\ bufferPosition <= Len(buffer)
              /\ Len(buffer') = Len(buffer) - bufferPosition + Len(chunks)
    BY <1>1, <1>6, ReturnIs
  <2>2. /\ currentPosition' = currentPosition + reading /\ reading' = 0 /\ chunks' = <<>>
        /\ UNCHANGED <<file, stream, streamClosed>>
        /\ ~NeedsMore \/ streamClosed
    BY <1>6 DEF ReadReturns
  <2>3. /\ bufferPosition \in Nat /\ reading \in Nat /\ currentPosition \in Nat
        /\ Len(buffer) \in Nat /\ Len(chunks) \in Nat /\ Len(buffer') \in Nat
    BY <1>1, <2>1 DEF SeekTypes
  <2>4. lastRead' \in [at : Nat, asked : Nat, value : Seq(Nat)]
    BY <2>1, <2>3
  <2>5. SeekTypes'
    <3>1. bufferPosition' \in Nat /\ currentPosition' \in Nat /\ reading' \in Nat
      BY <2>1, <2>2, <2>3
    <3>2. /\ UNCHANGED <<file, position, source, queue, pulling>> /\ buffer' \in Seq(Nat)
          /\ chunks' \in Seq(Nat)
      BY <2>1, <2>2 DEF stream
    <3> QED
      BY <1>1, <2>4, <3>1, <3>2 DEF SeekTypes
  <2>6. streamClosed \/ bufferPosition' <= Len(buffer')
    <3> SUFFICES ASSUME ~streamClosed
                 PROVE  bufferPosition' <= Len(buffer')
      OBVIOUS
    <3>1. ~(Len(chunks) < reading - (Len(buffer) - bufferPosition))
      BY <2>2 DEF NeedsMore
    <3>2. CASE chunks = <<>>
      <4>1. Len(chunks) = 0
        BY <3>2
      <4> QED
        BY <2>1, <2>3, <3>1, <3>2, <4>1
    <3>3. CASE chunks # <<>>
      BY <2>1, <2>3, <3>1, <3>3
    <3> QED
      BY <3>2, <3>3
  <2>7. ControlInv'
    <3>1. bufferPosition' \in Nat
      BY <2>1, <2>3
    <3>2. bufferPosition' > Len(buffer') => streamClosed
      BY <2>3, <2>6, <3>1
    <3> QED
      BY <2>2, <3>2 DEF ControlInv, stream
  <2> QED
    BY <2>5, <2>7
<1>7. ASSUME NEW n \in 1..MaxRead, Read(n)
      PROVE  SeekTypes' /\ ControlInv'
  <2>1. n \in Nat
    BY SeekableStreamConstants
  <2>2. /\ reading' = n /\ chunks' = <<>>
        /\ UNCHANGED <<file, stream, buffer, bufferPosition, currentPosition, streamClosed, lastRead>>
    BY <1>7 DEF Read
  <2> QED
    BY <1>1, <2>1, <2>2 DEF SeekTypes, ControlInv, stream
<1>8. ASSUME NEW p \in 0..MaxSeek, Seek(p)
      PROVE  SeekTypes' /\ ControlInv'
  <2> DEFINE e == currentPosition + Len(buffer) - bufferPosition
  <2>1. p \in Nat /\ currentPosition' = p /\ UNCHANGED <<file, source, queue, pulling, lastRead>>
    BY <1>8, SeekableStreamConstants DEF Seek
  <2>2. bufferPosition \in Nat /\ currentPosition \in Nat /\ Len(buffer) \in Nat
    BY <1>1 DEF SeekTypes
  <2>3. CASE p > e \/ p < currentPosition
    <3>1. /\ buffer' = <<>> /\ bufferPosition' = 0 /\ position' = p
          /\ ~streamClosed' /\ reading' = 0 /\ chunks' = <<>>
      BY <1>8, <2>3 DEF Seek
    <3>2. SeekTypes'
      BY <1>1, <2>1, <3>1 DEF SeekTypes
    <3>3. ControlInv'
      BY <2>1, <3>1 DEF ControlInv
    <3> QED
      BY <3>2, <3>3
  <2>4. CASE ~(p > e \/ p < currentPosition)
    <3>1. /\ bufferPosition' = bufferPosition + p - currentPosition
          /\ UNCHANGED <<buffer, position, streamClosed, reading, chunks>>
      BY <1>8, <2>4 DEF Seek
    <3>2. bufferPosition' \in Nat /\ bufferPosition' <= Len(buffer)
      BY <2>1, <2>2, <2>4, <3>1
    <3>3. SeekTypes'
      BY <1>1, <2>1, <3>1, <3>2 DEF SeekTypes
    <3>4. ~(bufferPosition' > Len(buffer'))
      BY <2>2, <3>1, <3>2
    <3>5. ControlInv'
      BY <2>1, <3>1, <3>4 DEF ControlInv
    <3> QED
      BY <3>3, <3>5
  <2> QED
    BY <2>3, <2>4
<1> QED
  BY <1>2, <1>3, <1>4, <1>5, <1>6, <1>7, <1>8 DEF SeekNext, ReadStep

-----------------------------------------------------------------------------
(* What is accounted for.                                                  *)

PartsInv ==
    /\ DownloadTypeOK /\ FileInv
    /\ SeekTypeOK /\ ControlInv
    /\ ThumbnailTypeOK /\ ThumbnailInv
    /\ QueueTypeOK /\ QueueInv

\* A step of the composition is a step of one part or none of each.
LEMMA PartsStep ==
    ASSUME [Next]_allVars
    PROVE  /\ [DownloadNext]_downloadVars /\ [SeekNext]_seekVars
           /\ [ThumbnailNext]_thumbnailVars /\ [QueueNext]_queueVars
BY DEF Next, allVars

LEMMA PartsHold == Spec => []PartsInv
<1>1. Init => PartsInv
  BY FileStarts, SeekStarts, ThumbnailStarts, QueueStarts DEF Init, PartsInv
<1>2. PartsInv /\ [Next]_allVars => PartsInv'
  BY PartsStep, FileStep, SeekKeeps, ThumbnailKeeps, QueueKeeps DEF PartsInv
<1> QED
  BY <1>1, <1>2, PTL DEF Spec

\* What is taken and told is accounted for, whichever way downloads end and
\* however many there are: the buffer of fileDownloader.ts is bounded, every slot
\* of queue.ts belongs to a download or was kept by one that ended, the clean-up
\* runs and the download is reported once, the progress is each block's once, and
\* thumbnailDownloader.ts yields one result for each node.
THEOREM AccountsAreRight == Spec => []DownloadsAccounted
<1>1. PartsInv => DownloadsAccounted
  <2> SUFFICES ASSUME PartsInv
               PROVE  DownloadsAccounted
    OBVIOUS
  <2>1. TypeOK
    BY DEF PartsInv, TypeOK
  <2>2. BufferBounded /\ FinishedAndReportedOnce
    BY DEF PartsInv, FileInv, BufferInv, BufferBounded, EndInv
  <2>3. SlotsAccounted
    BY DEF PartsInv, QueueInv, Holders, SlotsAccounted
  <2>4. ProgressIsRight
    <3>1. fileProgress \in Nat
      BY CountedIsFinite DEF PartsInv
    <3> QED
      BY <3>1 DEF PartsInv, FileInv, ProgressInv, ProgressIsRight
  <2>5. OneResultPerNode
    BY ResultsAreOne DEF PartsInv
  <2> QED
    BY <2>1, <2>2, <2>3, <2>4, <2>5 DEF DownloadsAccounted
<1> QED
  BY <1>1, PartsHold, PTL

-----------------------------------------------------------------------------
(* The seekable stream: positions.                                         *)

\* Bytes of the file, the first of them the one at offset at.
At(s, at) == \A k \in 1..Len(s) : s[k] = at + k - 1 /\ s[k] < Sum(file.real)

\* Where the buffer ends.
EndOfBuffer == currentPosition + Len(buffer) - bufferPosition

\* A read holds the stream from its first pull to its last chunk.
HoldInv ==
    /\ reading = 0 => pulling = -1 /\ queue = <<>>
    /\ pulling # -1 => queue = <<>> /\ NeedsMore /\ ~streamClosed /\ pulling = position
    /\ queue # <<>> => Len(queue) = 1 /\ NeedsMore /\ ~streamClosed /\ source = "open"
    /\ reading = 0 /\ source # "errored" => chunks = <<>>

\* Buffer, chunks and queue follow each other in the file, and the source them.
PlaceInv ==
    /\ source # "errored" =>
          position = EndOfBuffer + Len(chunks) + (IF queue = <<>> THEN 0 ELSE Len(queue[1]))
    /\ At(buffer, currentPosition - bufferPosition)
    /\ At(chunks, EndOfBuffer)
    /\ queue # <<>> => At(queue[1], EndOfBuffer + Len(chunks))

\* A source that has closed has come to the end of the file, unless it was seeked
\* after that: then nothing comes any more.
LastInv ==
    /\ stranded => source = "closed" /\ buffer = <<>> /\ chunks = <<>> /\ queue = <<>>
    /\ source = "closed" => stranded \/ position >= Sum(file.real)

PositionInv == HoldInv /\ PlaceInv /\ LastInv /\ ReadsRightBytes

LEMMA PositionStarts ==
    ASSUME SeekInit
    PROVE  PositionInv
<1>1. HoldInv
  BY DEF SeekInit, HoldInv
<1>2. PlaceInv
  BY DEF SeekInit, PlaceInv, At, EndOfBuffer
<1>3. ReadsRightBytes
  <2>1. lastRead.value = <<>> /\ lastRead.at = 0 /\ lastRead.asked = 0 /\ file.real \in Seq(Nat)
    BY SeekableStreamConstants DEF SeekInit
  <2>2. Sum(file.real) \in Nat
    <3>1. 1 \in 1..(Len(file.real) + 1)
      BY <2>1
    <3> QED
      BY <2>1, <3>1, StartsWithin
  <2>3. Min({Sum(file.real), 0 + 0}) = 0
    <3> DEFINE t == Sum(file.real)
    <3> HIDE DEF t
    <3>1. 0 \in {t, 0 + 0} /\ \A y \in {t, 0 + 0} : 0 <= y
      BY <2>2 DEF t
    <3>2. \A x \in {t, 0 + 0} : (\A y \in {t, 0 + 0} : x <= y) => x = 0
      BY <2>2 DEF t
    <3>3. Min({t, 0 + 0}) = 0
      BY <3>1, <3>2 DEF Min
    <3> QED
      BY <3>3 DEF t
  <2>4. Expected = <<>>
    <3>1. Expected = Bytes(0, 0)
      BY <2>1, <2>3 DEF Expected
    <3>2. Bytes(0, 0) \in Seq(Nat) /\ Len(Bytes(0, 0)) = 0
      BY BytesAre
    <3> QED
      BY <3>1, <3>2
  <2> QED
    BY <2>1, <2>4 DEF ReadsRightBytes
<1>4. LastInv
  BY DEF SeekInit, LastInv
<1> QED
  BY <1>1, <1>2, <1>3, <1>4 DEF PositionInv

\* The least of two numbers.
LEMMA MinOfTwo ==
    ASSUME NEW a \in Nat, NEW b \in Nat
    PROVE  Min({a, b}) = IF a <= b THEN a ELSE b
<1> DEFINE m == IF a <= b THEN a ELSE b
<1>1. m \in {a, b} /\ \A y \in {a, b} : m <= y
  OBVIOUS
<1>2. \A x \in {a, b} : (\A y \in {a, b} : x <= y) => x = m
  OBVIOUS
<1> HIDE DEF m
<1>3. Min({a, b}) = m
  BY <1>1, <1>2 DEF Min
<1> QED
  BY <1>3 DEF m

\* A sequence of the file's bytes from at on, no longer than was asked, is what is
\* expected there if it is as long as was asked or reaches the end of the file.
LEMMA ReadIsRight ==
    ASSUME file \in Files, NEW v \in Seq(Nat), NEW at \in Nat, NEW n \in Nat, Len(v) <= n, At(v, at),
           NEW e, e = Bytes(at, Min({Sum(file.real), at + n}))
    PROVE  Len(v) = n \/ at + Len(v) >= Sum(file.real) => v = e
<1> DEFINE t == Sum(file.real)
           to == IF t <= at + n THEN t ELSE at + n
           L == Len(v)
<1>1. t \in Nat
  <2>1. file.real \in Seq(Nat)
    BY SeekableStreamConstants
  <2>2. 1 \in 1..(Len(file.real) + 1)
    BY <2>1
  <2> QED
    BY <2>1, <2>2, StartsWithin
<1>2. at + n \in Nat
  OBVIOUS
<1> HIDE DEF t
<1>3. Min({t, at + n}) = to /\ to \in Nat
  BY <1>1, <1>2, MinOfTwo
<1>4. /\ e \in Seq(Nat) /\ Len(e) = IF to > at THEN to - at ELSE 0
      /\ \A k \in 1..Len(e) : e[k] = at + k - 1
  <2>1. e = Bytes(at, to)
    BY <1>3 DEF t
  <2> HIDE DEF to
  <2>2. /\ Bytes(at, to) \in Seq(Nat)
        /\ Len(Bytes(at, to)) = IF to > at THEN to - at ELSE 0
        /\ \A k \in 1..Len(Bytes(at, to)) : Bytes(at, to)[k] = at + k - 1
    BY <1>3, BytesAre, Zenon
  <2> QED
    BY <2>1, <2>2, Zenon
<1>5. L \in Nat /\ \A k \in 1..L : v[k] = at + k - 1 /\ v[k] < t
  BY DEF At, t
<1>6. L <= Len(e)
  <2>1. CASE L = 0
    BY <1>3, <1>4, <2>1
  <2>2. CASE L # 0
    <3>1. L \in 1..L
      BY <1>5, <2>2
    <3>2. at + L - 1 < t
      BY <1>5, <3>1
    <3>3. to > at /\ L <= to - at
      BY <1>1, <1>5, <2>2, <3>2
    <3> QED
      BY <1>4, <3>3
  <2> QED
    BY <2>1, <2>2
<1> HIDE DEF L, to
<1>7. /\ SubSeq(e, 1, L) \in Seq(Nat) /\ Len(SubSeq(e, 1, L)) = L
      /\ \A k \in 1..L : SubSeq(e, 1, L)[k] = e[k]
  <2>1. L \in 0..Len(e)
    BY <1>4, <1>5, <1>6
  <2>2. PICK a \in Nat : a = 0
    OBVIOUS
  <2>3. /\ SubSeq(e, a + 1, L) \in Seq(Nat)
        /\ Len(SubSeq(e, a + 1, L)) = IF a < L THEN L - a ELSE 0
        /\ \A k \in 1..Len(SubSeq(e, a + 1, L)) : SubSeq(e, a + 1, L)[k] = e[a + k]
    <3>1. e \in Seq(Nat)
      BY <1>4
    <3> QED
      BY <2>1, <3>1, PartOf, Zenon
  <2>4. a + 1 = 1 /\ (IF a < L THEN L - a ELSE 0) = L /\ \A k \in 1..L : a + k = k
    BY <1>5, <2>2
  <2> QED
    BY <2>3, <2>4
<1>8. SubSeq(e, 1, L) = v
  <2> DEFINE u == SubSeq(e, 1, L)
  <2>1. \A k \in 1..L : k \in 1..Len(e)
    BY <1>4, <1>5, <1>6
  <2>2. \A k \in 1..L : u[k] = v[k]
    BY <1>4, <1>5, <1>7, <2>1
  <2>3. Len(u) = L /\ Len(v) = L /\ u \in Seq(Nat) /\ v \in Seq(Nat)
    BY <1>7 DEF L
  <2> HIDE DEF u
  <2>4. u = v
    BY <1>5, <2>2, <2>3
  <2> QED
    BY <2>4 DEF u
<1>9. ASSUME L = n \/ at + L >= t
      PROVE  v = e
  <2>1. Len(e) <= n /\ (Len(e) <= t - at \/ Len(e) = 0)
    BY <1>1, <1>3, <1>4 DEF to
  <2>2. Len(e) = L /\ Len(e) \in Nat
    BY <1>1, <1>4, <1>5, <1>6, <1>9, <2>1
  <2>3. SubSeq(e, 1, Len(e)) = e
    BY <1>4, SubSeqFull
  <2> QED
    BY <1>8, <2>2, <2>3
<1> QED
  BY <1>9 DEF L, t

\* What was read stays right: the file does not change and a stranded source stays so.
LEMMA ReadStaysRight ==
    ASSUME ReadsRightBytes, UNCHANGED <<lastRead, file>>, stranded => stranded'
    PROVE  ReadsRightBytes'
BY DEF ReadsRightBytes, Expected

\* The source ends at the end of the file.
LEMMA DoneIs ==
    ASSUME file \in Files, file.claimed = file.real, NEW pos \in Nat,
           DownloadDataFromPosition(pos).is = "done"
    PROVE  pos >= Sum(file.real)
<1> DEFINE sizes == file.real
           n == Len(sizes)
<1>1. sizes \in Seq(Nat) /\ n \in Nat
  BY SeekableStreamConstants
<1>2. GetBlockIndex(sizes, pos) = <<>>
  BY DEF DownloadDataFromPosition
<1>3. sizes # <<>> /\ \A i \in 1..n : ~(pos < Start(sizes, i) + sizes[i])
  BY <1>2 DEF GetBlockIndex
<1> HIDE DEF sizes
<1>4. n \in 1..n /\ n \in 1..(n + 1)
  BY <1>1, <1>3
<1>5. /\ Start(sizes, n + 1) = Start(sizes, n) + sizes[n]
      /\ Start(sizes, n) \in Nat /\ sizes[n] \in Nat
  BY <1>1, <1>4, StartsAddUp
<1>6. ~(pos < Start(sizes, n) + sizes[n])
  BY <1>3, <1>4
<1>7. pos >= Sum(sizes)
  BY <1>5, <1>6 DEF Sum
<1> QED
  BY <1>7 DEF sizes

\* A closed source stays at the end, or stranded.
LEMMA LastKeeps ==
    ASSUME SeekTypeOK, ControlInv, PositionInv, [SeekNext]_seekVars,
           \A f \in Files : f.claimed = f.real, ~MayOvertake
    PROVE  LastInv'
<1>1. SeekTypes /\ HoldInv /\ LastInv
  BY SeekTypesAre DEF PositionInv
<1>2. CASE UNCHANGED seekVars
  BY <1>1, <1>2 DEF LastInv, seekVars, stream
<1>3. CASE PullStarts
  BY <1>1, <1>3 DEF PullStarts, LastInv
<1>4. CASE PullEnds
  <2>1. pulling # -1 /\ pulling \in Nat /\ source = "open" /\ pulling = position
    BY <1>1, <1>4 DEF PullEnds, SeekTypes, ControlInv, HoldInv
  <2>2. ~stranded /\ UNCHANGED <<stranded, file>>
    BY <1>1, <1>4, <2>1 DEF PullEnds, LastInv
  <2>3. source' = "closed" =>
           DownloadDataFromPosition(pulling).is = "done" /\ position' = position
    BY <1>4, <2>1 DEF PullEnds
  <2>4. source' = "closed" => position' >= Sum(file'.real)
    BY <1>1, <2>1, <2>2, <2>3, DoneIs DEF SeekTypes
  <2> QED
    BY <2>2, <2>4 DEF LastInv
<1>5. CASE EnsureBufferSize
  <2>1. /\ UNCHANGED <<file, position, source, buffer, stranded>>
        /\ queue = <<>> => UNCHANGED <<chunks, queue>>
    BY <1>5 DEF EnsureBufferSize
  <2>2. stranded => queue = <<>>
    BY <1>1 DEF LastInv
  <2> QED
    BY <1>1, <2>1, <2>2 DEF LastInv
<1>6. CASE ReadReturns
  <2>1. /\ UNCHANGED <<file, position, source, queue, stranded>> /\ chunks' = <<>>
        /\ chunks = <<>> => buffer' = buffer
    BY <1>6 DEF ReadReturns, stream
  <2> QED
    BY <1>1, <2>1 DEF LastInv
<1>7. ASSUME NEW n \in 1..MaxRead, Read(n)
      PROVE  LastInv'
  <2>1. UNCHANGED <<file, position, source, queue, buffer, stranded>> /\ chunks' = <<>>
    BY <1>7 DEF Read, stream
  <2> QED
    BY <1>1, <2>1 DEF LastInv
<1>8. ASSUME NEW p \in 0..MaxSeek, Seek(p)
      PROVE  LastInv'
  <2>1. reading = 0 /\ queue = <<>> /\ UNCHANGED <<file, source, queue>>
    BY <1>1, <1>8 DEF Seek, HoldInv
  <2>2. CASE p > currentPosition + Len(buffer) - bufferPosition \/ p < currentPosition
    <3>1. buffer' = <<>> /\ chunks' = <<>> /\ stranded' = (stranded \/ source = "closed")
      BY <1>8, <2>2 DEF Seek
    <3>2. stranded' => source = "closed"
      BY <1>1, <3>1, Zenon DEF LastInv
    <3>3. source = "closed" => stranded'
      BY <3>1, Zenon
    <3> QED
      BY <2>1, <3>1, <3>2, <3>3 DEF LastInv
  <2>3. CASE ~(p > currentPosition + Len(buffer) - bufferPosition \/ p < currentPosition)
    <3>1. UNCHANGED <<buffer, position, chunks, stranded>>
      BY <1>8, <2>3 DEF Seek
    <3> QED
      BY <1>1, <2>1, <3>1 DEF LastInv
  <2> QED
    BY <2>2, <2>3
<1> QED
  BY <1>2, <1>3, <1>4, <1>5, <1>6, <1>7, <1>8 DEF SeekNext, ReadStep

LEMMA PositionKeeps ==
    ASSUME SeekTypeOK, ControlInv, PositionInv, [SeekNext]_seekVars,
           \A f \in Files : f.claimed = f.real, ~MayOvertake
    PROVE  PositionInv'
<1>1. SeekTypes /\ HoldInv /\ PlaceInv /\ LastInv /\ ReadsRightBytes
  BY SeekTypesAre DEF PositionInv
<1>2. /\ position \in Nat /\ bufferPosition \in Nat /\ currentPosition \in Nat /\ reading \in Nat
      /\ queue \in Seq(Seq(Nat)) /\ buffer \in Seq(Nat) /\ chunks \in Seq(Nat)
      /\ Len(buffer) \in Nat /\ Len(chunks) \in Nat /\ EndOfBuffer \in Int
  BY <1>1 DEF SeekTypes, EndOfBuffer
<1>2a. LastInv'
  BY LastKeeps
<1>3. CASE UNCHANGED seekVars
  <2>1. HoldInv' /\ PlaceInv'
    BY <1>1, <1>3 DEF HoldInv, PlaceInv, NeedsMore, At, EndOfBuffer, seekVars, stream
  <2>2. ReadsRightBytes'
    BY <1>1, <1>3, ReadStaysRight DEF seekVars, stream
  <2> QED
    BY <2>1, <2>2, <1>2a DEF PositionInv
<1>4. CASE PullStarts
  <2>1. /\ reading > 0 /\ queue = <<>> /\ source = "open" /\ NeedsMore /\ ~streamClosed
        /\ pulling' = position
        /\ UNCHANGED <<file, position, source, queue, buffer, bufferPosition, currentPosition,
                       streamClosed, reading, chunks, lastRead, stranded>>
    BY <1>4 DEF PullStarts
  <2>2. HoldInv'
    BY <1>1, <1>2, <2>1 DEF HoldInv, NeedsMore
  <2>3. PlaceInv'
    BY <1>1, <2>1 DEF PlaceInv, At, EndOfBuffer
  <2>4. ReadsRightBytes'
    BY <1>1, <2>1, ReadStaysRight
  <2> QED
    BY <2>2, <2>3, <2>4, <1>2a DEF PositionInv
<1>5. CASE PullEnds
  <2> DEFINE r == DownloadDataFromPosition(pulling)
             d == r.data
  <2>1. /\ pulling # -1 /\ pulling' = -1
        /\ UNCHANGED <<file, buffer, bufferPosition, currentPosition, streamClosed, reading, chunks,
                       lastRead, stranded>>
        /\ \/ source' \in {"closed", "errored"} /\ UNCHANGED <<position, queue>>
           \/ queue' = Append(queue, d) /\ position' = position + Len(d) /\ source' = source
    BY <1>5 DEF PullEnds
  <2>2. /\ pulling \in Nat /\ source = "open" /\ queue = <<>> /\ NeedsMore /\ ~streamClosed
        /\ pulling = position /\ reading # 0
    BY <1>1, <2>1 DEF SeekTypes, ControlInv, HoldInv
  <2>3. d \in Seq(Nat) /\ \A k \in 1..Len(d) : d[k] = pulling + k - 1 /\ d[k] < Sum(file.real)
    BY <1>1, <2>2, PulledIs DEF SeekTypes
  <2> HIDE DEF r, d
  <2>4. position = EndOfBuffer + Len(chunks)
    BY <1>1, <1>2, <2>2 DEF PlaceInv
  <2>5. ReadsRightBytes'
    BY <1>1, <2>1, <2>2, ReadStaysRight
  <2>6. /\ EndOfBuffer' = EndOfBuffer /\ NeedsMore' = NeedsMore
        /\ At(buffer, currentPosition - bufferPosition)' /\ At(chunks, EndOfBuffer)'
    BY <1>1, <2>1 DEF PlaceInv, At, EndOfBuffer, NeedsMore
  <2>7. CASE source' \in {"closed", "errored"} /\ UNCHANGED <<position, queue>>
    <3>1. HoldInv'
      BY <1>1, <2>1, <2>2, <2>7 DEF HoldInv
    <3>2. PlaceInv'
      BY <1>2, <2>1, <2>2, <2>4, <2>6, <2>7 DEF PlaceInv
    <3> QED
      BY <2>5, <3>1, <3>2, <1>2a DEF PositionInv
  <2>8. CASE queue' = Append(queue, d) /\ position' = position + Len(d) /\ source' = source
    <3>1. queue' # <<>> /\ Len(queue') = 1 /\ queue'[1] = d
      BY <2>2, <2>3, <2>8
    <3>2. HoldInv'
      BY <2>1, <2>2, <2>6, <2>8, <3>1 DEF HoldInv
    <3>3. /\ EndOfBuffer' + Len(chunks') = position
          /\ Sum(file.real)' = Sum(file.real)
      <4>1. EndOfBuffer' = EndOfBuffer /\ chunks' = chunks /\ file' = file
        BY <2>1, <2>6
      <4> QED
        BY <2>4, <4>1
    <3>4. position' = EndOfBuffer' + Len(chunks') + Len(d)
      BY <2>1, <2>4, <2>6, <2>8
    <3>5. At(queue[1], EndOfBuffer + Len(chunks))'
      <4> SUFFICES ASSUME NEW k \in 1..Len(queue'[1])
                   PROVE  /\ queue'[1][k] = EndOfBuffer' + Len(chunks') + k - 1
                          /\ queue'[1][k] < Sum(file.real)'
        BY DEF At
      <4>1. k \in 1..Len(d) /\ queue'[1][k] = d[k]
        BY <3>1
      <4>2. d[k] = position + k - 1 /\ d[k] < Sum(file.real)
        BY <2>2, <2>3, <4>1
      <4>3. queue'[1][k] = position + k - 1 /\ queue'[1][k] < Sum(file.real)
        BY <4>1, <4>2, Zenon
      <4> QED
        BY <3>3, <4>3, Zenon
    <3>6. PlaceInv'
      BY <2>6, <3>1, <3>4, <3>5 DEF PlaceInv
    <3> QED
      BY <2>5, <3>2, <3>6, <1>2a DEF PositionInv
  <2> QED
    BY <2>1, <2>7, <2>8
<1>6. CASE EnsureBufferSize
  <2>1. /\ UNCHANGED <<file, position, source, pulling, buffer, bufferPosition, currentPosition,
                       lastRead, stranded>>
        /\ reading > 0 /\ NeedsMore /\ ~streamClosed
    BY <1>6 DEF EnsureBufferSize
  <2>2. ReadsRightBytes'
    BY <1>1, <2>1, ReadStaysRight
  <2>3. EndOfBuffer' = EndOfBuffer /\ At(buffer, currentPosition - bufferPosition)'
    BY <1>1, <2>1 DEF EndOfBuffer, At, PlaceInv
  <2>4. CASE queue # <<>>
    <3> DEFINE d == queue[1]
    <3>1. /\ chunks' = chunks \o Head(queue) /\ queue' = Tail(queue) /\ reading' = reading
          /\ ~streamClosed'
      BY <1>6, <2>1, <2>4 DEF EnsureBufferSize
    <3>2. Len(queue) = 1 /\ source = "open" /\ pulling = -1
      BY <1>1, <2>4 DEF HoldInv
    <3>3. Head(queue) = d /\ queue' = <<>> /\ d \in Seq(Nat) /\ Len(d) \in Nat
      <4>1. /\ Head(queue) \in Seq(Nat) /\ Tail(queue) \in Seq(Seq(Nat))
            /\ Len(Tail(queue)) = Len(queue) - 1
        BY <1>2, <2>4, HeadTailProperties
      <4>2. Head(queue) = d
        BY <1>2, <2>4 DEF Head
      <4>3. Tail(queue) = <<>>
        <5> DEFINE t == Tail(queue)
        <5> HIDE DEF t
        <5>1. t \in Seq(Seq(Nat)) /\ Len(t) = 0
          BY <3>2, <4>1 DEF t
        <5>2. t = <<>>
          BY <5>1
        <5> QED
          BY <5>2 DEF t
      <4> QED
        BY <3>1, <4>1, <4>3
    <3> HIDE DEF d
    <3>4. /\ chunks' = chunks \o d
          /\ Len(chunks') = Len(chunks) + Len(d)
          /\ \A k \in 1..Len(chunks) : chunks'[k] = chunks[k]
          /\ \A k \in 1..Len(d) : chunks'[Len(chunks) + k] = d[k]
      <4>1. /\ Len(chunks \o d) = Len(chunks) + Len(d)
            /\ \A k \in 1..Len(chunks) : (chunks \o d)[k] = chunks[k]
            /\ \A k \in 1..Len(d) : (chunks \o d)[Len(chunks) + k] = d[k]
        BY <1>2, <3>3
      <4>2. chunks' = chunks \o d
        BY <3>1, <3>3
      <4> QED
        BY <4>1, <4>2, Zenon
    <3>5. HoldInv'
      BY <2>1, <3>1, <3>2, <3>3, <1>2 DEF HoldInv
    <3>6. /\ position = EndOfBuffer + Len(chunks) + Len(d)
          /\ At(chunks, EndOfBuffer) /\ At(d, EndOfBuffer + Len(chunks))
      BY <1>1, <2>4, <3>2 DEF PlaceInv, d
    <3>7. At(chunks', EndOfBuffer)
      <4> SUFFICES ASSUME NEW k \in 1..Len(chunks')
                   PROVE  chunks'[k] = EndOfBuffer + k - 1 /\ chunks'[k] < Sum(file.real)
        BY DEF At
      <4>1. CASE k <= Len(chunks)
        <5>1. k \in 1..Len(chunks)
          BY <1>2, <3>3, <3>4, <4>1
        <5> QED
          BY <3>4, <3>6, <5>1 DEF At
      <4>2. CASE ~(k <= Len(chunks))
        <5> DEFINE j == k - Len(chunks)
        <5>1. j \in 1..Len(d) /\ Len(chunks) + j = k /\ j \in Int
          BY <1>2, <3>3, <3>4, <4>2
        <5> HIDE DEF j
        <5>2. chunks'[k] = d[j] /\ d[j] = EndOfBuffer + Len(chunks) + j - 1 /\ d[j] < Sum(file.real)
          BY <3>4, <3>6, <5>1 DEF At
        <5>3. EndOfBuffer + Len(chunks) + j - 1 = EndOfBuffer + k - 1
          <6> DEFINE f == EndOfBuffer
                     g == Len(chunks)
          <6>1. f \in Int /\ g \in Int /\ j \in Int /\ k = g + j
            BY <1>2, <5>1
          <6> HIDE DEF f, g
          <6>2. f + g + j - 1 = f + k - 1
            BY <6>1
          <6> QED
            BY <6>2 DEF f, g
        <5> QED
          BY <5>2, <5>3
      <4> QED
        BY <4>1, <4>2
    <3>8. At(chunks, EndOfBuffer)'
      BY <2>1, <2>3, <3>7 DEF At
    <3>9. position' = EndOfBuffer' + Len(chunks')
      BY <1>2, <2>1, <2>3, <3>3, <3>4, <3>6
    <3>10. PlaceInv'
      <4>1. Len(chunks') \in Nat /\ EndOfBuffer' \in Int
        BY <1>2, <2>3, <3>3, <3>4
      <4> QED
        BY <2>3, <3>3, <3>8, <3>9, <4>1 DEF PlaceInv
    <3> QED
      BY <2>2, <3>5, <3>10, <1>2a DEF PositionInv
  <2>5. CASE queue = <<>>
    <3>1. /\ UNCHANGED <<chunks, queue>> /\ pulling = -1
          /\ reading' = reading \/ (reading' = 0 /\ source = "errored")
      BY <1>6, <2>1, <2>5 DEF EnsureBufferSize, ControlInv
    <3>2. HoldInv'
      BY <1>2, <2>1, <2>5, <3>1 DEF HoldInv
    <3>3. PlaceInv'
      BY <1>1, <2>1, <2>3, <2>5, <3>1 DEF PlaceInv, At
    <3> QED
      BY <2>2, <3>2, <3>3, <1>2a DEF PositionInv
  <2> QED
    BY <2>4, <2>5
<1>7. ASSUME NEW n \in 1..MaxRead, Read(n)
      PROVE  PositionInv'
  <2>1. /\ reading = 0 /\ reading' = n /\ chunks' = <<>> /\ n # 0
        /\ UNCHANGED <<file, position, source, queue, pulling, buffer, bufferPosition,
                       currentPosition, streamClosed, lastRead, stranded>>
    BY <1>7 DEF Read, stream
  <2>2. pulling = -1 /\ queue = <<>> /\ (source # "errored" => chunks = <<>>)
    BY <1>1, <2>1 DEF HoldInv
  <2>3. HoldInv'
    BY <2>1, <2>2 DEF HoldInv
  <2>4. PlaceInv'
    BY <1>1, <2>1, <2>2 DEF PlaceInv, At, EndOfBuffer
  <2>5. ReadsRightBytes'
    BY <1>1, <2>1, ReadStaysRight
  <2> QED
    BY <2>3, <2>4, <2>5, <1>2a DEF PositionInv
<1>8. ASSUME NEW p \in 0..MaxSeek, Seek(p)
      PROVE  PositionInv'
  <2>1. /\ reading = 0 /\ currentPosition' = p /\ UNCHANGED <<file, source, queue, pulling, lastRead>>
        /\ p \in Nat
    BY <1>8, SeekableStreamConstants DEF Seek
  <2>2. pulling = -1 /\ queue = <<>> /\ (source # "errored" => chunks = <<>>)
    BY <1>1, <2>1 DEF HoldInv
  <2>3. ReadsRightBytes'
    <3>1. stranded => stranded'
      BY <1>8, Zenon DEF Seek
    <3> QED
      BY <1>1, <2>1, <3>1, ReadStaysRight
  <2>4. CASE p > EndOfBuffer \/ p < currentPosition
    <3>1. /\ buffer' = <<>> /\ bufferPosition' = 0 /\ position' = p
          /\ reading' = 0 /\ chunks' = <<>>
      BY <1>8, <2>4 DEF Seek, EndOfBuffer
    <3>2. HoldInv'
      BY <2>1, <2>2, <3>1 DEF HoldInv
    <3>3. PlaceInv'
      BY <2>1, <2>2, <3>1 DEF PlaceInv, At, EndOfBuffer
    <3> QED
      BY <2>3, <3>2, <3>3, <1>2a DEF PositionInv
  <2>5. CASE ~(p > EndOfBuffer \/ p < currentPosition)
    <3>1. /\ bufferPosition' = bufferPosition + p - currentPosition
          /\ UNCHANGED <<buffer, position, reading, chunks>>
      BY <1>8, <2>5 DEF Seek, EndOfBuffer
    <3>2. /\ currentPosition' - bufferPosition' = currentPosition - bufferPosition
          /\ EndOfBuffer' = EndOfBuffer
      BY <1>2, <2>1, <3>1 DEF EndOfBuffer
    <3>3. HoldInv'
      BY <2>1, <2>2, <3>1 DEF HoldInv
    <3>4. PlaceInv'
      BY <1>1, <2>1, <2>2, <3>1, <3>2 DEF PlaceInv, At
    <3> QED
      BY <2>3, <3>3, <3>4, <1>2a DEF PositionInv
  <2> QED
    BY <2>4, <2>5
<1>9. CASE ReadReturns
  <2> DEFINE from == IF chunks = <<>> THEN bufferPosition ELSE 0
             L == Len(buffer')
             hi == IF from + reading > L THEN L ELSE from + reading
             v == SubSeq(buffer', from + 1, hi)
             c == currentPosition
             b == bufferPosition
  <2>1. /\ buffer' \in Seq(Nat) /\ hi \in 0..L /\ from \in Nat
        /\ lastRead' = [at |-> c, asked |-> reading, value |-> v]
        /\ bufferPosition' = from + reading
        /\ chunks = <<>> => buffer' = buffer
        /\ chunks # <<>> =>
              /\ b <= Len(buffer) /\ L = Len(buffer) - b + Len(chunks)
              /\ \A k \in 1..(Len(buffer) - b) : buffer'[k] = buffer[b + k]
              /\ \A k \in 1..Len(chunks) : buffer'[Len(buffer) - b + k] = chunks[k]
    BY <1>1, <1>9, ReturnIs
  <2>2. /\ currentPosition' = c + reading /\ reading' = 0 /\ chunks' = <<>> /\ reading > 0
        /\ UNCHANGED <<file, position, source, queue, pulling, streamClosed, stranded>>
        /\ ~NeedsMore \/ streamClosed
    BY <1>9 DEF ReadReturns, stream
  <2>3. L \in Nat
    BY <2>1
  <2>4. pulling = -1 /\ queue = <<>>
    BY <1>1, <2>2 DEF HoldInv
  <2>5. HoldInv'
    BY <2>2, <2>4 DEF HoldInv
  \* The new buffer.
  <2>6. At(buffer', c - from)
    <3>1. CASE chunks = <<>>
      BY <1>1, <2>1, <3>1 DEF PlaceInv, At
    <3>2. CASE chunks # <<>>
      <4> DEFINE u == Len(buffer) - b
      <4>1. u \in Nat /\ L = u + Len(chunks) /\ EndOfBuffer = c + u /\ from = 0
        BY <1>2, <2>1, <3>2 DEF EndOfBuffer
      <4> SUFFICES ASSUME NEW k \in 1..L
                   PROVE  buffer'[k] = c - 0 + k - 1 /\ buffer'[k] < Sum(file.real)
        BY <4>1 DEF At
      <4>2. CASE k <= u
        <5>1. k \in 1..u /\ b + k \in 1..Len(buffer)
          BY <1>2, <2>3, <4>2
        <5>2. buffer'[k] = buffer[b + k]
          BY <2>1, <3>2, <5>1
        <5>3. buffer[b + k] = c - b + (b + k) - 1 /\ buffer[b + k] < Sum(file.real)
          BY <1>1, <5>1 DEF PlaceInv, At
        <5>4. c - b + (b + k) - 1 = c - 0 + k - 1
          BY <1>2
        <5> QED
          BY <5>2, <5>3, <5>4
      <4>3. CASE ~(k <= u)
        <5> DEFINE j == k - u
        <5>1. j \in 1..Len(chunks) /\ u + j = k /\ j \in Int
          BY <1>2, <4>1, <4>3
        <5> HIDE DEF j
        <5>2. buffer'[k] = chunks[j]
          BY <2>1, <3>2, <5>1
        <5>3. chunks[j] = EndOfBuffer + j - 1 /\ chunks[j] < Sum(file.real)
          BY <1>1, <5>1 DEF PlaceInv, At
        <5>4. EndOfBuffer + j - 1 = c - 0 + k - 1
          <6>1. EndOfBuffer = c + u /\ c \in Int /\ u \in Int /\ j \in Int /\ k = u + j
            BY <1>2, <4>1, <5>1
          <6> HIDE DEF c, u
          <6> QED
            BY <6>1
        <5> QED
          BY <5>2, <5>3, <5>4
      <4> QED
        BY <4>2, <4>3
    <3> QED
      BY <3>1, <3>2
  <2>7. currentPosition' - bufferPosition' = c - from
    BY <1>2, <2>1, <2>2
  <2>8. EndOfBuffer' = EndOfBuffer + Len(chunks)
    <3>1. EndOfBuffer' = c + reading + L - (from + reading)
      BY <2>1, <2>2 DEF EndOfBuffer
    <3>2. CASE chunks = <<>>
      <4>1. Len(chunks) = 0 /\ L = Len(buffer) /\ from = b
        BY <2>1, <3>2
      <4> QED
        BY <1>2, <3>1, <4>1 DEF EndOfBuffer
    <3>3. CASE chunks # <<>>
      <4>1. from = 0 /\ L = Len(buffer) - b + Len(chunks)
        BY <2>1, <3>3
      <4>2. EndOfBuffer = c + Len(buffer) - b
        BY DEF EndOfBuffer
      <4>3. EndOfBuffer' = c + reading + L - (0 + reading)
        BY <3>1, <4>1
      <4>4. c \in Nat /\ b \in Nat /\ reading \in Nat /\ Len(buffer) \in Nat /\ Len(chunks) \in Nat
        BY <1>2
      <4> HIDE DEF from, L, c, b
      <4> QED
        BY <4>1, <4>2, <4>3, <4>4
    <3> QED
      BY <3>2, <3>3
  <2>9. PlaceInv'
    <3>1. At(buffer, currentPosition - bufferPosition)'
      BY <2>2, <2>6, <2>7 DEF At
    <3>2. Len(chunks') = 0 /\ EndOfBuffer' \in Int
      BY <1>2, <2>2, <2>8
    <3>3. At(chunks, EndOfBuffer)'
      BY <3>2 DEF At
    <3>4. source' # "errored" => position' = EndOfBuffer' + Len(chunks') + 0
      BY <1>1, <1>2, <2>2, <2>4, <2>8, <3>2 DEF PlaceInv
    <3> QED
      BY <2>2, <2>4, <3>1, <3>3, <3>4 DEF PlaceInv
  \* What was read.
  <2>10. /\ v \in Seq(Nat) /\ Len(v) = IF from < hi THEN hi - from ELSE 0
         /\ \A k \in 1..Len(v) : v[k] = buffer'[from + k]
    <3> HIDE DEF hi, from
    <3> QED
      BY <2>1, PartOf
  <2>11. At(v, c)
    <3> SUFFICES ASSUME NEW k \in 1..Len(v)
                 PROVE  v[k] = c + k - 1 /\ v[k] < Sum(file.real)
      BY DEF At
    <3> HIDE DEF v, hi, from, c
    <3>1. Len(v) \in Nat
      BY <2>10
    <3>2. from < hi /\ Len(v) = hi - from
      BY <2>10, <3>1
    <3>3. from + k \in 1..L
      BY <2>1, <2>3, <3>1, <3>2
    <3>4. buffer'[from + k] = c - from + (from + k) - 1 /\ buffer'[from + k] < Sum(file.real)
      BY <2>6, <3>3 DEF At
    <3>5. c - from + (from + k) - 1 = c + k - 1
      BY <1>2, <2>1, <3>1 DEF c
    <3> QED
      BY <2>10, <3>4, <3>5
  <2>12. Len(v) <= reading /\ (Len(v) = reading \/ streamClosed)
    <3>1. Len(v) <= reading
      BY <1>2, <2>1, <2>3, <2>10
    <3>2. ASSUME ~streamClosed
          PROVE  Len(v) = reading
      <4>1. ~(Len(chunks) < reading - (Len(buffer) - b))
        BY <2>2, <3>2 DEF NeedsMore
      <4>2. from + reading <= L
        <5>1. CASE chunks = <<>>
          <6>1. Len(chunks) = 0 /\ L = Len(buffer) /\ from = b
            BY <2>1, <5>1
          <6> QED
            BY <1>2, <4>1, <6>1
        <5>2. CASE chunks # <<>>
          <6>1. from = 0 /\ L = Len(buffer) - b + Len(chunks)
            BY <2>1, <5>2
          <6> QED
            BY <1>2, <4>1, <6>1
        <5> QED
          BY <5>1, <5>2
      <4>3. hi = from + reading
        BY <1>2, <2>1, <2>3, <4>2
      <4> QED
        BY <1>2, <2>1, <2>2, <2>10, <4>3
    <3> QED
      BY <3>1, <3>2
  \* Where it is shorter than was asked the file ends, or the source is stranded.
  <2>13. ASSUME streamClosed, ~stranded, Len(v) # reading
         PROVE  c + Len(v) >= Sum(file.real)
    <3>1. source = "closed" /\ position >= Sum(file.real)
      BY <1>1, <2>13 DEF ControlInv, LastInv
    <3>2. position = EndOfBuffer + Len(chunks)
      BY <1>1, <1>2, <2>4, <3>1 DEF PlaceInv
    <3>3. EndOfBuffer + Len(chunks) = c + L - from
      <4>1. EndOfBuffer' = c + reading + L - (from + reading)
        BY <2>1, <2>2 DEF EndOfBuffer
      <4>2. c \in Nat /\ reading \in Nat /\ from \in Nat
        BY <1>2, <2>1
      <4> HIDE DEF c, from, L
      <4> QED
        BY <2>3, <2>8, <4>1, <4>2
    <3>4. c \in Nat /\ reading \in Nat
      BY <1>2
    <3> HIDE DEF c, v, from, L
    <3>5. Len(v) >= L - from /\ Len(v) \in Nat
      <4>3. Len(v) = (IF from < hi THEN hi - from ELSE 0) /\ from \in Nat
        BY <2>1, <2>10
      <4>1. CASE from + reading > L
        <5>1. hi = L
          BY <4>1
        <5> QED
          BY <2>3, <4>3, <5>1
      <4>2. CASE ~(from + reading > L)
        <5>1. hi = from + reading
          BY <4>2
        <5>2. Len(v) = reading
          BY <2>2, <3>4, <4>3, <5>1
        <5> QED
          BY <2>13, <5>2
      <4> QED
        BY <4>1, <4>2
    <3>6. c + Len(v) >= c + L - from
      BY <2>1, <2>3, <3>4, <3>5
    <3>7. position = c + L - from /\ position \in Nat
      BY <1>2, <3>2, <3>3
    <3>8. Sum(file.real) \in Nat
      <4>1. file.real \in Seq(Nat)
        BY <1>1, SeekableStreamConstants DEF SeekTypes
      <4>2. 1 \in 1..(Len(file.real) + 1)
        BY <4>1
      <4> QED
        BY <4>1, <4>2, StartsWithin
    <3>9. from \in Nat
      BY <2>1
    <3>10. Sum(file.real) <= c + L - from
      BY <3>1, <3>7
    <3> QED
      BY <2>3, <3>4, <3>5, <3>6, <3>8, <3>9, <3>10
  <2>14. stranded => v = <<>>
    <3> SUFFICES ASSUME stranded
                 PROVE  v = <<>>
      OBVIOUS
    <3>1. chunks = <<>> /\ buffer = <<>>
      BY <1>1 DEF LastInv
    <3>2. L = 0
      BY <2>1, <3>1
    <3> HIDE DEF L, from, v
    <3>3. Len(v) = 0
      BY <2>1, <2>10, <3>2
    <3> QED
      BY <2>10, <3>3
  <2>15. ReadsRightBytes'
    <3> DEFINE e == Bytes(c, Min({Sum(file.real), c + reading}))
    <3>1. lastRead'.value = v /\ lastRead'.at = c /\ lastRead'.asked = reading
      BY <2>1
    <3>2. Expected' = e
      BY <2>2, <3>1 DEF Expected
    <3>3. Len(v) = reading \/ c + Len(v) >= Sum(file.real) => v = e
      <4>1. file \in Files
        BY <1>1 DEF SeekTypes
      <4> HIDE DEF v, e, c
      <4>2. e = Bytes(c, Min({Sum(file.real), c + reading})) /\ c \in Nat
        BY <1>2 DEF e, c
      <4> QED
        <5>1. v \in Seq(Nat) /\ reading \in Nat /\ Len(v) <= reading /\ At(v, c)
          <6>1. v \in Seq(Nat) /\ At(v, c)
            BY <2>10, <2>11, Zenon
          <6>2. reading \in Nat /\ Len(v) <= reading
            BY <1>2, <2>12, Zenon
          <6> QED
            BY <6>1, <6>2
        <5> QED
          BY <4>1, <4>2, <5>1, ReadIsRight
    <3> HIDE DEF v, e, c
    <3>4. v = e \/ (stranded /\ v = <<>>)
      BY <2>12, <2>13, <2>14, <3>3, Zenon
    <3>5. stranded' = stranded
      BY <2>2
    <3> QED
      BY <3>1, <3>2, <3>4, <3>5 DEF ReadsRightBytes
  <2> QED
    BY <2>5, <2>9, <2>15, <1>2a DEF PositionInv
<1> QED
  BY <1>3, <1>4, <1>5, <1>6, <1>7, <1>8, <1>9 DEF SeekNext, ReadStep


\* The lengths of one queued chunk, or none, add up to the one there is.
LEMMA QueuedIs ==
    ASSUME NEW q \in Seq(Seq(Nat)), q = <<>> \/ Len(q) = 1
    PROVE  Sum([i \in 1..Len(q) |-> Len(q[i])]) = IF q = <<>> THEN 0 ELSE Len(q[1])
<1> DEFINE s == [i \in 1..Len(q) |-> Len(q[i])]
<1>1. s \in Seq(Nat) /\ Len(s) = Len(q) /\ \A i \in 1..Len(q) : s[i] = Len(q[i])
  <2>1. Len(q) \in Nat /\ \A i \in 1..Len(q) : Len(q[i]) \in Nat
    OBVIOUS
  <2> QED
    BY <2>1
<1> HIDE DEF s
<1>2. /\ Start(s, 1) = 0
      /\ \A i \in 1..Len(s) : Start(s, i + 1) = Start(s, i) + s[i]
  BY <1>1, StartsAddUp
<1>3. CASE q = <<>>
  <2>1. Len(s) + 1 = 1
    BY <1>1, <1>3
  <2>2. Sum(s) = 0
    BY <1>2, <2>1 DEF Sum
  <2> QED
    BY <1>3, <2>2 DEF s
<1>4. CASE q # <<>>
  <2>1. Len(q) = 1 /\ Len(s) = 1 /\ 1 \in 1..Len(s) /\ s[1] = Len(q[1]) /\ s[1] \in Nat
    BY <1>1, <1>4
  <2>2. Start(s, Len(s) + 1) = Start(s, Len(s)) + s[Len(s)]
    BY <1>2, <2>1
  <2>3. Start(s, Len(s)) = 0 /\ s[Len(s)] = Len(q[1])
    BY <1>2, <2>1
  <2>4. Sum(s) = Len(q[1])
    BY <2>1, <2>2, <2>3 DEF Sum
  <2> QED
    BY <1>4, <2>4 DEF s
<1> QED
  BY <1>3, <1>4

\* A seekable stream (seekableStream.ts, getSeekableStream of fileDownloader.ts)
\* reads the bytes at its position, and its source is where the next block
\* continues the buffer, for files of any blocks and any sequence of reads and
\* seeks: provided that the block sizes the author claims are the real ones, and
\* that no seek is made before the last read has returned.  A read that is seeked to
\* out of the buffer after the source has closed gives nothing (seekableStream.ts:157).
THEOREM StreamsArePositioned ==
    ASSUME \A f \in Files : f.claimed = f.real, ~MayOvertake
    PROVE  Spec => []StreamIsPositioned
<1>1. Init => PositionInv
  BY PositionStarts DEF Init
<1>2. PartsInv /\ PositionInv /\ [Next]_allVars => PositionInv'
  BY PartsStep, PositionKeeps DEF PartsInv
<1>3. PartsInv /\ PositionInv => StreamIsPositioned
  <2> SUFFICES ASSUME PartsInv, PositionInv
               PROVE  StreamIsPositioned
    OBVIOUS
  <2>1. SeekTypes /\ HoldInv /\ PlaceInv /\ ReadsRightBytes
    BY SeekTypesAre DEF PartsInv, PositionInv
  <2>2. queue \in Seq(Seq(Nat)) /\ (queue = <<>> \/ Len(queue) = 1)
    BY <2>1 DEF SeekTypes, HoldInv
  <2> DEFINE n == Sum([i \in 1..Len(queue) |-> Len(queue[i])])
  <2>3. n = IF queue = <<>> THEN 0 ELSE Len(queue[1])
    BY <2>2, QueuedIs
  <2> HIDE DEF n
  <2>4. source # "errored" =>
           position = currentPosition + Len(buffer) - bufferPosition + Len(chunks) + n
    BY <2>1, <2>3 DEF PlaceInv, EndOfBuffer
  <2>5. SourceFollowsBuffer
    BY <2>4 DEF SourceFollowsBuffer, n
  <2> QED
    BY <2>1, <2>5 DEF StreamIsPositioned
<1> QED
  BY <1>1, <1>2, <1>3, PartsHold, PTL DEF Spec
=============================================================================
