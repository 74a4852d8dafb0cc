--------------------------- MODULE FileDownloader ---------------------------
(***************************************************************************)
(* One download of the JS SDK to a stream                                  *)
(* (js/sdk/src/internal/download/fileDownloader.ts): the loop that pages   *)
(* through the blocks of a revision, the block downloads it starts and     *)
(* does not wait for, the buffer they fill in any order, the writes in the *)
(* order of the blocks, pause, abort, and the verification at the end.     *)
(*                                                                         *)
(* Block downloads are processes of their own: they go on while the loop   *)
(* waits for a page, a write or the manifest, and after it has failed.     *)
(***************************************************************************)
EXTENDS Integers, Sequences, FiniteSets, FiniteSetsExt, SequencesExt

CONSTANTS
    Cases,        \* the revisions to download, and how
    PageSize,     \* BLOCKS_PAGE_SIZE
    MaxOngoing,   \* MAX_DOWNLOAD_BLOCK_SIZE
    MaxExpired,   \* bound: block tokens that expire
    MaxPauses     \* bound: calls of pause()

Errors == {"abort", "server", "integrity", "decryption"}

\* How it is called; the indexes the server has; whether there is a thumbnail;
\* the manifest signature.
Case == [mode : {"safe", "unsafe", "ignoreManifest"}, blocks : SUBSET (Nat \ {0}),
         thumbnail : BOOLEAN, signature : {"good", "bad", "missing"}]

ASSUME FileDownloaderConstants ==
    /\ Cases \subseteq Case /\ \A c \in Cases : IsFiniteSet(c.blocks)
    /\ {PageSize, MaxOngoing, MaxExpired, MaxPauses} \subseteq Nat
    /\ PageSize > 0 /\ MaxOngoing > 0

VARIABLES
    revision,            \* the case that is downloaded
    pc,                  \* internalDownloadToStream
    page,                \* blocks of the page not looked at yet
    fromBlockIndex,
    hashes, manifest,    \* allBlockHashes, armoredManifestSignature
    nextBlockIndex,
    ongoing,             \* ongoingDownloads: its keys
    task,                \* per block, its download; an error once it failed
    retried,             \* per block, retries # 0
    content,             \* per block, what was decrypted
    blockProgress, fileProgress,
    written,             \* what was written
    rewriting,           \* the write is the second one of its block
    aborted, paused,     \* signal.aborted; DownloadController.paused
    result,
    signatureIssues,     \* isDownloadCompleteWithSignatureIssues
    finished,            \* calls of onFinish
    reported,            \* metrics recorded
    expired, pauses      \* bounded counters

Blocks == UNION {c.blocks : c \in Cases}
Safe == revision.mode # "unsafe"

loop == <<pc, page, fromBlockIndex, hashes, manifest, nextBlockIndex, ongoing, written, rewriting>>
end == <<result, signatureIssues, finished, reported>>
tasks == <<task, retried, content, blockProgress, fileProgress, expired>>
user == <<aborted, paused, pauses>>
downloadVars == <<revision, loop, end, tasks, user>>

DownloadInit ==
    /\ revision \in Cases
    /\ pc = "keys" /\ page = {} /\ fromBlockIndex = 1 /\ hashes = <<>> /\ manifest = "missing"
    /\ nextBlockIndex = 1 /\ ongoing = {} /\ written = <<>> /\ rewriting = FALSE
    /\ task = [b \in Blocks |-> "none"] /\ retried = [b \in Blocks |-> FALSE]
    /\ content = [b \in Blocks |-> "good"]
    /\ blockProgress = [b \in Blocks |-> 0] /\ fileProgress = 0
    /\ aborted = FALSE /\ paused = FALSE /\ pauses = 0 /\ expired = 0
    /\ result = "none" /\ signatureIssues = FALSE /\ finished = 0 /\ reported = <<>>

-----------------------------------------------------------------------------
(* The end of the download.                                                *)

\* getErrorCategory: an abort is not reported.
GetErrorCategory(e) ==
    CASE e = "abort" -> {}
      [] e = "server" -> {"server_error"}
      [] e = "decryption" -> {"decryption_error"}
      [] OTHER -> {"integrity_error"}

\* catch and finally.
Finish(e) ==
    /\ pc' = "done" /\ result' = e
    /\ signatureIssues' = (e = "signature")
    /\ finished' = finished + 1
    /\ reported' = reported \o SetToSeq(GetErrorCategory(e))

Fails(e) ==
    /\ Finish(e)
    /\ UNCHANGED <<page, fromBlockIndex, hashes, manifest, nextBlockIndex, ongoing, written,
                   rewriting>>

Succeeds ==
    /\ pc' = "done" /\ result' = "ok" /\ finished' = finished + 1
    /\ reported' = Append(reported, "finished")
    /\ UNCHANGED <<signatureIssues, page, fromBlockIndex, hashes, manifest, nextBlockIndex,
                   ongoing, written, rewriting>>

Continue(step) ==
    /\ pc' = step
    /\ UNCHANGED <<page, fromBlockIndex, hashes, manifest, nextBlockIndex, ongoing, written,
                   rewriting>>

-----------------------------------------------------------------------------
(* internalDownloadToStream.                                               *)

\* getRevisionKeys is called before the try: when it fails nothing is cleaned up.
GetRevisionKeys ==
    /\ pc = "keys"
    /\ \/ Continue("page") /\ UNCHANGED end
       \/ Continue("done") /\ result' = "server" /\ UNCHANGED <<signatureIssues, finished, reported>>
    /\ UNCHANGED <<tasks, user>>

\* The blocks of a request with PageSize and FromBlockIndex (the server's part).
PageOf(from) ==
    LET rest == {b \in revision.blocks : b >= from} IN
    {b \in rest : Cardinality({c \in rest : c < b}) < PageSize}

\* iterateRevisionBlocks: an abort between two pages just ends the iteration.
IterateRevisionBlocks ==
    /\ pc = "page"
    /\ \/ aborted /\ Continue("rest") /\ UNCHANGED end
       \/ /\ ~aborted
          /\ page' = PageOf(fromBlockIndex)
          /\ hashes' = IF fromBlockIndex = 1 /\ revision.thumbnail THEN <<0>> ELSE hashes
          /\ manifest' = IF fromBlockIndex = 1 THEN revision.signature ELSE manifest
          /\ pc' = IF page' = {} THEN "rest" ELSE "block"
          /\ UNCHANGED <<fromBlockIndex, nextBlockIndex, ongoing, written, rewriting, end>>
       \/ Fails("server")
       \/ aborted /\ Fails("abort")
    /\ UNCHANGED <<tasks, user>>

\* Mutant: an abort does not end the wait.
WaitWhilePausedOnly == ~paused

\* waitWhilePaused returns when the download is not paused or was aborted.
WaitWhilePaused == ~paused \/ aborted

\* The next block of the page: its download is started and not waited for.
StartBlock ==
    /\ pc = "block" /\ WaitWhilePaused
    /\ LET b == Min(page) IN
       /\ page' = page \ {b}
       /\ fromBlockIndex' = b + 1
       /\ hashes' = Append(hashes, b)
       /\ ongoing' = ongoing \cup {b}
       /\ task' = [task EXCEPT ![b] = "wait"]
    /\ pc' = "capacity"
    /\ UNCHANGED <<nextBlockIndex, manifest, written, rewriting, retried, content,
                   blockProgress, fileProgress, expired, end, user>>

IsNextBlockDownloaded == nextBlockIndex \in ongoing /\ task[nextBlockIndex] = "buffered"
Unfinished == {b \in ongoing : task[b] # "buffered"}

\* waitForDownloadCapacity: any failure is thrown, as Promise.race gives it.
WaitForDownloadCapacity ==
    /\ pc = "capacity"
    /\ \/ /\ Cardinality(ongoing) < MaxOngoing \/ IsNextBlockDownloaded \/ Unfinished = {}
          /\ Continue("flush") /\ UNCHANGED end
       \/ /\ Cardinality(ongoing) >= MaxOngoing /\ ~IsNextBlockDownloaded
          /\ \E b \in Unfinished : task[b] \in Errors /\ Fails(task[b])
    /\ UNCHANGED <<tasks, user>>

\* Mutant: whichever block is there is written.
FlushAny ==
    /\ pc \in {"flush", "lastFlush"}
    /\ \E b \in ongoing \ Unfinished :
          /\ written' = Append(written, [block |-> b, content |-> content[b]])
          /\ ongoing' = ongoing \ {b} /\ nextBlockIndex' = nextBlockIndex + 1
    /\ UNCHANGED <<pc, page, fromBlockIndex, hashes, manifest, rewriting, end, tasks, user>>

\* flushCompletedBlocks.  A write that fails, having written or not, is tried
\* once more.
FlushCompletedBlocks ==
    /\ pc \in {"flush", "lastFlush"} /\ IsNextBlockDownloaded
    /\ LET chunk == [block |-> nextBlockIndex, content |-> content[nextBlockIndex]] IN
       \/ /\ written' = Append(written, chunk)
          /\ ongoing' = ongoing \ {nextBlockIndex} /\ nextBlockIndex' = nextBlockIndex + 1
          /\ rewriting' = FALSE
          /\ UNCHANGED <<pc, page, fromBlockIndex, hashes, manifest, end>>
       \/ /\ ~rewriting /\ rewriting' = TRUE
          /\ written' \in {written, Append(written, chunk)}
          /\ UNCHANGED <<pc, page, fromBlockIndex, hashes, manifest, nextBlockIndex, ongoing, end>>
       \/ rewriting /\ Fails("server")
    /\ UNCHANGED <<tasks, user>>

\* Nothing more to write: the next block, the next page, or the final checks.
Flushed ==
    /\ pc \in {"flush", "lastFlush"} /\ ~IsNextBlockDownloaded
    /\ IF pc = "flush" THEN Continue(IF page = {} THEN "page" ELSE "block") /\ UNCHANGED end
       ELSE IF ongoing # {} THEN Fails("server")   \* "Some blocks were not downloaded"
       ELSE Continue("manifest") /\ UNCHANGED end
    /\ UNCHANGED <<tasks, user>>

\* Promise.all of the downloads.
AwaitDownloads ==
    /\ pc = "rest"
    /\ \/ Unfinished = {} /\ Continue("lastFlush") /\ UNCHANGED end
       \/ \E b \in Unfinished : task[b] \in Errors /\ Fails(task[b])
    /\ UNCHANGED <<tasks, user>>

\* The numbers of a set in their order: the i-th has i - 1 smaller ones.
InOrder(S) ==
    [i \in 1..Cardinality(S) |-> CHOOSE b \in S : Cardinality({c \in S : c < b}) = i - 1]

\* The thumbnail's hash, then the blocks' (what was signed).
Signed == (IF revision.thumbnail THEN <<0>> ELSE <<>>) \o InOrder(revision.blocks)

\* verifyManifest, unless it is ignored.
VerifyManifest ==
    /\ pc = "manifest"
    /\ IF revision.mode # "safe" THEN Succeeds
       ELSE IF manifest = "missing" THEN Fails("integrity")
       ELSE IF manifest = "good" /\ hashes = Signed
            THEN Succeeds \/ Fails("signature")   \* the keys cannot be had
       ELSE Fails("signature")
    /\ UNCHANGED <<tasks, user>>

-----------------------------------------------------------------------------
(* downloadBlockData, one process per block.                               *)

Task(b, state) == task' = [task EXCEPT ![b] = state]

\* The loop of downloadBlockData: wait while paused, then ask for the block.
BlockWaits(b) ==
    /\ task[b] = "wait" /\ WaitWhilePaused
    /\ Task(b, "get")
    /\ UNCHANGED <<retried, content, blockProgress, fileProgress, expired, loop, end, user>>

\* Bytes arrive (ObserverStream).
BlockProgress(b) ==
    /\ task[b] = "get" /\ Task(b, "receive")
    /\ blockProgress' = [blockProgress EXCEPT ![b] = @ + 1]
    /\ fileProgress' = fileProgress + 1
    /\ UNCHANGED <<retried, content, expired, loop, end, user>>

\* The whole block arrives, intact, or damaged where nobody looks; it is
\* decrypted into the buffer.
BlockArrives(b) ==
    /\ task[b] = "receive"
    /\ \E c \in {"good", "bad"} : (Safe => c = "good") /\ content' = [content EXCEPT ![b] = c]
    /\ Task(b, "buffered")
    /\ UNCHANGED <<retried, blockProgress, fileProgress, expired, loop, end, user>>

\* onProgress(-blockProgress).
TakeBackProgress(b) ==
    /\ blockProgress' = [blockProgress EXCEPT ![b] = 0]
    /\ fileProgress' = fileProgress - blockProgress[b]

\* The attempt fails: the request, the hash, or the decryption.
BlockFails(b) ==
    /\ task[b] \in {"get", "receive"}
    /\ \/ /\ aborted /\ Task(b, "abort")
          /\ UNCHANGED <<retried, expired, blockProgress, fileProgress>>
       \/ /\ ~aborted /\ expired < MaxExpired      \* 404: the token expired
          /\ Task(b, "token") /\ expired' = expired + 1
          /\ TakeBackProgress(b) /\ UNCHANGED retried
       \/ /\ ~aborted /\ ~retried[b]
          /\ Task(b, "wait") /\ retried' = [retried EXCEPT ![b] = TRUE]
          /\ TakeBackProgress(b) /\ UNCHANGED expired
       \/ /\ ~aborted /\ retried[b]
          /\ \E e \in {"server", "decryption"} \cup (IF Safe THEN {"integrity"} ELSE {}) : Task(b, e)
          /\ TakeBackProgress(b) /\ UNCHANGED <<retried, expired>>
    /\ UNCHANGED <<content, loop, end, user>>

\* getRevisionBlockToken: a failure leaves the loop.
GetRevisionBlockToken(b) ==
    /\ task[b] = "token"
    /\ \E to \in {"wait", "server", "abort"} : (to = "abort" => aborted) /\ Task(b, to)
    /\ UNCHANGED <<retried, content, blockProgress, fileProgress, expired, loop, end, user>>

BlockStep(b) ==
    BlockWaits(b) \/ BlockProgress(b) \/ BlockArrives(b) \/ BlockFails(b) \/ GetRevisionBlockToken(b)

-----------------------------------------------------------------------------
(* DownloadController.                                                     *)

Pause == /\ ~paused /\ pauses < MaxPauses
         /\ paused' = TRUE /\ pauses' = pauses + 1 /\ UNCHANGED <<loop, end, tasks, aborted>>
Resume == paused /\ paused' = FALSE /\ UNCHANGED <<loop, end, tasks, aborted, pauses>>
Abort == ~aborted /\ pc # "done" /\ aborted' = TRUE /\ UNCHANGED <<loop, end, tasks, paused, pauses>>

LoopStep ==
    \/ GetRevisionKeys \/ IterateRevisionBlocks \/ StartBlock \/ WaitForDownloadCapacity
    \/ FlushCompletedBlocks \/ Flushed \/ AwaitDownloads \/ VerifyManifest

DownloadNext ==
    /\ LoopStep \/ (\E b \in Blocks : BlockStep(b)) \/ Pause \/ Resume \/ Abort
    /\ UNCHANGED revision

DownloadSpec == DownloadInit /\ [][DownloadNext]_downloadVars

-----------------------------------------------------------------------------
(* Properties.                                                             *)

DownloadTypeOK ==
    /\ revision \in Cases
    /\ pc \in {"keys", "page", "block", "capacity", "flush", "rest", "lastFlush", "manifest", "done"}
    /\ page \subseteq revision.blocks /\ ongoing \subseteq revision.blocks
    /\ hashes \in Seq(Blocks \cup {0}) /\ manifest \in {"good", "bad", "missing"}
    /\ task \in [Blocks -> {"none", "wait", "get", "receive", "token", "buffered"} \cup Errors]
    /\ retried \in [Blocks -> BOOLEAN] /\ content \in [Blocks -> {"good", "bad"}]
    /\ blockProgress \in [Blocks -> Nat] /\ fileProgress \in Int
    /\ written \in Seq([block : Blocks, content : {"good", "bad"}])
    /\ {fromBlockIndex, nextBlockIndex, expired, pauses, finished} \subseteq Nat
    /\ {rewriting, aborted, paused, signatureIssues} \subseteq BOOLEAN
    /\ result \in Errors \cup {"none", "ok", "signature"}
    /\ reported \in Seq({"finished", "server_error", "decryption_error", "integrity_error"})

\* The blocks that were written, without the repetition of a retried write.
Output == {written[i].block : i \in 1..Len(written)}

\* Whatever order the blocks arrive in, the stream gets them in the order of the
\* file, none skipped; only a chunk whose write failed is there twice.
WrittenInOrder ==
    /\ \A i \in 1..Len(written) :
          written[i].block - (IF i = 1 THEN 0 ELSE written[i - 1].block) \in {0, 1}
    /\ Output \in {1..(nextBlockIndex - 1), 1..nextBlockIndex}

\* completion() resolves for downloadToStream only if every block of the revision
\* was written, intact, and the author signed for exactly these: no gap in the
\* indexes, no page lost to an abort, no unsigned revision.
VerifiedIsWhole ==
    result = "ok" /\ revision.mode = "safe" =>
        /\ revision.signature = "good"
        /\ Output = revision.blocks /\ revision.blocks = 1..Cardinality(revision.blocks)
        /\ \A i \in 1..Len(written) : written[i].content = "good"

\* "The download can throw at completion() call, but the download is still
\* completed": without an abort, signature issues mean every block was written.
SignatureIssuesMeanComplete ==
    signatureIssues /\ ~aborted => Output = revision.blocks

\* "prevent downloading too many blocks at the same time and running out of
\* memory": between two blocks the buffer is bounded if the server's indexes
\* have no gap.
BufferBounded ==
    revision.blocks = 1..Cardinality(revision.blocks) =>
        Cardinality(ongoing) <= MaxOngoing

\* The clean-up that gives the queue its slot back runs once, unless the keys
\* could not be had; and each download is reported once, an abort not at all.
FinishedAndReportedOnce ==
    /\ finished = IF pc = "done" /\ ~(result = "server" /\ reported = <<>>) THEN 1 ELSE 0
    /\ Len(reported) = IF finished = 1 /\ result # "abort" THEN 1 ELSE 0

\* Progress that failed attempts reported is taken back: a download that succeeds
\* has reported each block once.
ProgressIsRight ==
    /\ fileProgress >= 0
    /\ result = "ok" => fileProgress = Cardinality(Output)
=============================================================================
