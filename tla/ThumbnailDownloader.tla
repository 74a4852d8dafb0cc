------------------------ MODULE ThumbnailDownloader ------------------------
(***************************************************************************)
(* Thumbnails of many nodes in the JS SDK                                  *)
(* (js/sdk/src/internal/download/thumbnailDownloader.ts): a generator that *)
(* collects thumbnail ids into batches, asks the server for their tokens,  *)
(* downloads them side by side, and yields what the downloads leave in a   *)
(* buffer.  The generator empties the buffer in two steps, with other      *)
(* promises running between them.                                          *)
(***************************************************************************)
EXTENDS Integers, Sequences, FiniteSets

CONSTANTS
    Nodes,            \* nodeUids
    Requests,         \* what the nodes are: functions into NodeKind
    MaxThumbnails,    \* MAX_DOWNLOAD_THUMBNAILS
    MaxAttempts       \* MAX_THUMBNAIL_DOWNLOAD_ATTEMPTS

\* Gone; without a thumbnail; with one.
NodeKind == {"missing", "none", "thumbnail"}

ASSUME ThumbnailDownloaderConstants ==
    /\ Requests \subseteq [Nodes -> NodeKind]
    /\ {MaxThumbnails, MaxAttempts} \subseteq Nat /\ MaxThumbnails > 0

VARIABLES
    asked,       \* the request
    left,        \* nodes iterateNodes has not given yet
    batched,     \* batchThumbnailToNodeUids
    downloads,   \* ongoingDownloads: its keys
    attempt,     \* per node, attempts at its thumbnail
    buffered,    \* bufferedThumbnails
    drained,     \* how many of them the generator has yielded
    racing,      \* ongoingDownloads as Promise.race was given it
    phase,       \* where the generator stands
    yielded,     \* the results it has yielded
    lost         \* history: results the reset threw away

thumbnailVars == <<asked, left, batched, downloads, attempt, buffered, drained, racing, phase,
                   yielded, lost>>

ThumbnailInit ==
    /\ asked \in Requests /\ left = Nodes
    /\ batched = {} /\ downloads = {} /\ attempt = [n \in Nodes |-> 0]
    /\ buffered = <<>> /\ drained = 0 /\ racing = {} /\ phase = "iterate"
    /\ yielded = <<>> /\ lost = {}

-----------------------------------------------------------------------------
(* The generator.                                                          *)

\* iterateThumbnailUids: a node that is gone or has no thumbnail is an error at
\* once; the others make a batch, requested when it is full.
IterateThumbnailUids(n) ==
    /\ phase = "iterate" /\ n \in left
    /\ left' = left \ {n}
    /\ IF asked[n] # "thumbnail"
       THEN yielded' = Append(yielded, n) /\ UNCHANGED <<batched, phase>>
       ELSE /\ batched' = batched \cup {n}
            /\ phase' = IF Cardinality(batched') >= MaxThumbnails THEN "requestFull" ELSE "full"
            /\ UNCHANGED yielded
    /\ UNCHANGED <<asked, downloads, attempt, buffered, drained, racing, lost>>

\* iterateNodes throws, or the request for the tokens.
IterationFails ==
    /\ phase \in {"iterate", "requestFull", "request"}
    /\ phase' = "failed"
    /\ UNCHANGED <<asked, left, batched, downloads, attempt, buffered, drained, racing, yielded,
                   lost>>

AllNodes == phase = "iterate" /\ left = {} /\ phase' = "request"
            /\ UNCHANGED <<asked, left, batched, downloads, attempt, buffered, drained, racing,
                           yielded, lost>>

SetAsSeq(S) == CHOOSE s \in [1..Cardinality(S) -> S] : \A i, j \in DOMAIN s : i # j => s[i] # s[j]

\* Mutant: a thumbnail the server does not mention is forgotten.
RequestMentioned(given, refused) ==
    /\ downloads' = downloads \cup given
    /\ buffered' = buffered \o SetAsSeq(refused)

\* Every thumbnail the server gave a token for is downloaded; the others, also
\* those it did not mention, are errors (iterateThumbnailDownloads).
IterateThumbnailDownloads(given, refused) ==
    /\ downloads' = downloads \cup given
    /\ buffered' = buffered \o SetAsSeq(batched \ given)

\* iterateThumbnails of the API service: tokens for some, errors for some.
ThumbnailTokens(S) == {answer \in (SUBSET S) \X (SUBSET S) : answer[1] \cap answer[2] = {}}

\* requestBatchedThumbnailDownloads.
RequestBatchedThumbnailDownloads ==
    /\ phase \in {"requestFull", "request"}
    /\ \E answer \in ThumbnailTokens(batched) : IterateThumbnailDownloads(answer[1], answer[2])
    /\ batched' = {}
    /\ phase' = IF phase = "request" THEN "rest" ELSE "full"
    /\ UNCHANGED <<asked, left, attempt, drained, racing, yielded, lost>>

\* Promise.race is entered while there are too many downloads, or any at the end.
EnterRace ==
    /\ \/ phase = "full" /\ Cardinality(downloads) >= MaxThumbnails
       \/ phase = "rest" /\ downloads # {}
    /\ racing' = downloads
    /\ phase' = IF phase = "full" THEN "raceFull" ELSE "raceRest"
    /\ UNCHANGED <<asked, left, batched, downloads, attempt, buffered, drained, yielded, lost>>

LeaveLoop ==
    /\ \/ phase = "full" /\ Cardinality(downloads) < MaxThumbnails /\ phase' = "iterate"
       \/ phase = "rest" /\ downloads = {} /\ phase' = "drainLast"
    /\ UNCHANGED <<asked, left, batched, downloads, attempt, buffered, drained, racing, yielded,
                   lost>>

RaceSettles ==
    /\ phase \in {"raceFull", "raceRest"} /\ racing # downloads
    /\ phase' = IF phase = "raceFull" THEN "drainFull" ELSE "drainRest"
    /\ UNCHANGED <<asked, left, batched, downloads, attempt, buffered, drained, racing, yielded,
                   lost>>

\* yield* over the buffer: the next one, also one that was added meanwhile, or
\* the end of the array.
Drain ==
    /\ phase \in {"drainFull", "drainRest", "drainLast"}
    /\ IF drained < Len(buffered)
       THEN /\ yielded' = Append(yielded, buffered[drained + 1])
            /\ drained' = drained + 1 /\ UNCHANGED phase
       ELSE /\ phase' = CASE phase = "drainFull" -> "resetFull"
                          [] phase = "drainRest" -> "resetRest"
                          [] OTHER -> "resetLast"
            /\ UNCHANGED <<yielded, drained>>
    /\ UNCHANGED <<asked, left, batched, downloads, attempt, buffered, racing, lost>>

\* this.bufferedThumbnails = [], a few promises later.
Reset ==
    /\ phase \in {"resetFull", "resetRest", "resetLast"}
    /\ lost' = lost \cup {buffered[i] : i \in (drained + 1)..Len(buffered)}
    /\ buffered' = <<>> /\ drained' = 0
    /\ phase' = CASE phase = "resetFull" -> "full" [] phase = "resetRest" -> "rest" [] OTHER -> "done"
    /\ UNCHANGED <<asked, left, batched, downloads, attempt, racing, yielded>>

-----------------------------------------------------------------------------
(* downloadThumbnail.                                                      *)

\* The thumbnail, or the error of the last attempt, goes to the buffer.
ThumbnailEnds(n) ==
    /\ n \in downloads
    /\ downloads' = downloads \ {n}
    /\ buffered' = Append(buffered, n)
    /\ UNCHANGED <<asked, left, batched, attempt, drained, racing, phase, yielded, lost>>

ThumbnailRetries(n) ==
    /\ n \in downloads /\ attempt[n] < MaxAttempts
    /\ attempt' = [attempt EXCEPT ![n] = @ + 1]
    /\ UNCHANGED <<asked, left, batched, downloads, buffered, drained, racing, phase, yielded, lost>>

Generator ==
    \/ \E n \in Nodes : IterateThumbnailUids(n)
    \/ AllNodes \/ RequestBatchedThumbnailDownloads \/ EnterRace \/ LeaveLoop \/ RaceSettles
    \/ Drain \/ Reset

ThumbnailNext ==
    \/ Generator \/ IterationFails
    \/ \E n \in Nodes : ThumbnailEnds(n) \/ ThumbnailRetries(n)

ThumbnailSpec == ThumbnailInit /\ [][ThumbnailNext]_thumbnailVars

-----------------------------------------------------------------------------
(* Properties.                                                             *)

ThumbnailTypeOK ==
    /\ asked \in Requests /\ left \subseteq Nodes
    /\ batched \subseteq Nodes /\ downloads \subseteq Nodes /\ racing \subseteq Nodes
    /\ attempt \in [Nodes -> 0..MaxAttempts]
    /\ buffered \in Seq(Nodes) /\ drained \in 0..Len(buffered)
    /\ yielded \in Seq(Nodes) /\ lost \subseteq Nodes
    /\ phase \in {"iterate", "requestFull", "full", "raceFull", "drainFull", "resetFull",
                  "request", "rest", "raceRest", "drainRest", "resetRest", "drainLast",
                  "resetLast", "done", "failed"}

Yielded == {yielded[i] : i \in 1..Len(yielded)}

\* No node gets two results, however its thumbnail travelled; and when the
\* generator is done every node has one, except those whose download ended
\* between the end of a yield* and the reset of the buffer.
OneResultPerNode ==
    /\ Cardinality(Yielded) = Len(yielded)
    /\ phase = "done" => Nodes = Yielded \cup lost
=============================================================================
