----------------------------- MODULE DownloadParts ----------------------------
(***************************************************************************)
(* What the JS SDK does to download (js/sdk/src/internal/download): one    *)
(* file to a stream, one file through a seekable stream, thumbnails, and   *)
(* the queue of downloads.  The parts share no state but the queue's slots,*)
(* which DownloadQueue accounts for, so that they are explored one at a    *)
(* time: `part' says which.                                                *)
(***************************************************************************)
EXTENDS FileDownloader, SeekableStream, ThumbnailDownloader, DownloadQueue

VARIABLE part

allVars == <<part, downloadVars, seekVars, thumbnailVars, queueVars>>

Init ==
    /\ part \in {"file", "seekable", "thumbnails", "queue"}
    /\ DownloadInit /\ SeekInit /\ ThumbnailInit /\ QueueInit
    \* The parts that are not explored have one initial state.
    /\ part # "file" => revision = CHOOSE c \in Cases : TRUE
    /\ part # "seekable" => file = CHOOSE f \in Files : TRUE
    /\ part # "thumbnails" => asked = CHOOSE r \in Requests : TRUE
    /\ part # "queue" => kind = CHOOSE k \in Kinds : TRUE

Next ==
    \/ part = "file" /\ DownloadNext /\ UNCHANGED <<part, seekVars, thumbnailVars, queueVars>>
    \/ part = "seekable" /\ SeekNext /\ UNCHANGED <<part, downloadVars, thumbnailVars, queueVars>>
    \/ part = "thumbnails" /\ ThumbnailNext /\ UNCHANGED <<part, downloadVars, seekVars, queueVars>>
    \/ part = "queue" /\ QueueNext /\ UNCHANGED <<part, downloadVars, seekVars, thumbnailVars>>

Spec == Init /\ [][Next]_allVars

\* The steps the program takes by itself: requests end and promises settle.
Progress ==
    \/ /\ part = "file" /\ (LoopStep \/ \E b \in Blocks : BlockStep(b))
       /\ UNCHANGED <<part, revision, seekVars, thumbnailVars, queueVars>>
    \/ part = "seekable" /\ ReadStep /\ UNCHANGED <<part, downloadVars, thumbnailVars, queueVars>>
    \/ /\ part = "thumbnails" /\ (Generator \/ \E n \in Nodes : ThumbnailEnds(n))
       /\ UNCHANGED <<part, downloadVars, seekVars, queueVars>>
    \/ part = "queue" /\ QueueNext /\ UNCHANGED <<part, downloadVars, seekVars, thumbnailVars>>

\* One condition is enough: none of these steps can be repeated for ever, so that
\* no request starves another.
FairSpec == Spec /\ WF_allVars(Progress)

TypeOK == DownloadTypeOK /\ SeekTypeOK /\ ThumbnailTypeOK /\ QueueTypeOK

\* What is started ends.  A download to a stream that is not paused ends or is
\* paused again, and an abort ends it also when paused; every read returns or
\* fails; the generator of thumbnails ends; and "the download is queued and
\* started when the slot is available": as long as no slot is kept, every download
\* gets its turn.
EverythingEnds ==
    /\ (part = "file" /\ (~paused \/ aborted)) ~> (pc = "done" \/ (paused /\ ~aborted))
    /\ (reading > 0) ~> (reading = 0)
    /\ (part = "thumbnails") ~> (phase \in {"done", "failed"})
    /\ (part = "queue") ~> (keptSlot # {} \/ \A d \in Downloads : state[d] = "done")

\* What the caller gets of a download to a stream is the revision: its blocks in
\* order, whole when it was verified, and whole when only signatures are wrong.
DeliveredIsRevision == WrittenInOrder /\ VerifiedIsWhole /\ SignatureIssuesMeanComplete

\* A seekable stream reads the bytes at its position, and its source is where the
\* next block continues the buffer, through any sequence of reads and seeks.
StreamIsPositioned == ReadsRightBytes /\ SourceFollowsBuffer

\* What is taken and told is accounted for, whichever way downloads end: buffered
\* blocks, slots of the queue, clean-up, progress, and one result for each thumbnail.
DownloadsAccounted ==
    /\ TypeOK /\ BufferBounded /\ SlotsAccounted
    /\ FinishedAndReportedOnce /\ ProgressIsRight /\ OneResultPerNode
=============================================================================
