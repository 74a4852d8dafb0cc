--------------------------- MODULE DownloadQueue ---------------------------
(***************************************************************************)
(* The queue of downloads of the JS SDK                                    *)
(* (js/sdk/src/internal/download/{queue,index}.ts): who holds one of the   *)
(* slots, from getFileDownloader until the clean-up of the download.  What *)
(* the download does is FileDownloader's.                                  *)
(***************************************************************************)
EXTENDS Integers, FiniteSets

CONSTANTS
    Downloads,
    Kinds,          \* per download, how its downloader is used: see Kind
    MaxDownloads    \* MAX_CONCURRENT_DOWNLOADS

\* The active revision or one asked for; read through a seekable stream.
Kind == {"file", "revision", "seekable"}

ASSUME DownloadQueueConstants ==
    Kinds \subseteq [Downloads -> Kind] /\ MaxDownloads \in Nat \ {0}

VARIABLES
    kind,
    capacity,     \* DownloadQueue.capacity
    state,        \* per download
    keptSlot      \* history: downloads over whose slot nobody will give back

queueVars == <<kind, capacity, state, keptSlot>>

QueueInit ==
    /\ kind \in Kinds
    /\ capacity = 0 /\ state = [d \in Downloads |-> "waiting"] /\ keptSlot = {}

To(d, s) == state' = [state EXCEPT ![d] = s]

\* waitForCapacity: the condition is checked, the slot taken a promise later.
WaitForCapacity(d) ==
    /\ state[d] = "waiting" /\ capacity < MaxDownloads
    /\ To(d, "admitted")
    /\ UNCHANGED <<kind, capacity, keptSlot>>

TakeSlot(d) ==
    /\ state[d] = "admitted"
    /\ capacity' = capacity + 1 /\ To(d, "loading")
    /\ UNCHANGED <<kind, keptSlot>>

\* releaseCapacity.
ReleaseSlot == capacity' = capacity - 1

\* Node, keys and revision are loaded, or the slot is given back.
Load(d) ==
    /\ state[d] = "loading"
    /\ \/ To(d, "downloader") /\ UNCHANGED capacity
       \/ To(d, "done") /\ ReleaseSlot
    /\ UNCHANGED <<kind, keptSlot>>

GetFileDownloader(d) == kind[d] # "revision" /\ Load(d)
GetFileRevisionDownloader(d) == kind[d] = "revision" /\ Load(d)

\* downloadToStream: without the keys of the author the slot is kept.
DownloadToStream(d) ==
    /\ state[d] = "downloader" /\ kind[d] # "seekable"
    /\ \/ To(d, "downloading") /\ UNCHANGED keptSlot
       \/ To(d, "done") /\ keptSlot' = keptSlot \cup {d}
    /\ UNCHANGED <<kind, capacity>>

\* onFinish of internalDownloadToStream.
OnFinish(d) ==
    /\ state[d] = "downloading"
    /\ To(d, "done") /\ ReleaseSlot
    /\ UNCHANGED <<kind, keptSlot>>

\* getSeekableStream gives the slot back only on cancel(), which the platform
\* refuses for a stream that is locked, and BufferedSeekableStream locks itself.
GetSeekableStream(d) ==
    /\ state[d] = "downloader" /\ kind[d] = "seekable"
    /\ To(d, "done") /\ keptSlot' = keptSlot \cup {d}
    /\ UNCHANGED <<kind, capacity>>

QueueStep(d) ==
    \/ WaitForCapacity(d) \/ TakeSlot(d) \/ GetFileDownloader(d) \/ GetFileRevisionDownloader(d)
    \/ DownloadToStream(d) \/ OnFinish(d) \/ GetSeekableStream(d)

QueueNext == \E d \in Downloads : QueueStep(d)

QueueSpec == QueueInit /\ [][QueueNext]_queueVars

-----------------------------------------------------------------------------
(* Properties.                                                             *)

QueueTypeOK ==
    /\ kind \in Kinds /\ capacity \in Nat /\ keptSlot \subseteq Downloads
    /\ state \in [Downloads -> {"waiting", "admitted", "loading", "downloader", "downloading",
                                "done"}]

\* Every slot in use belongs to a download that is going on, or to one that ended
\* without giving it back: none is given back twice or by the wrong caller.
SlotsAccounted ==
    capacity = Cardinality({d \in Downloads : state[d] \in {"loading", "downloader", "downloading"}})
               + Cardinality(keptSlot)
=============================================================================
