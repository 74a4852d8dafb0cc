------------------------------ MODULE Download ------------------------------
(***************************************************************************)
(* Downloading a file: the Transfer the user sees and its task do_download *)
(* (transfer.rs), the preparation file_downloader (client.rs), and the     *)
(* block-download protocol download_to_writer (download.rs).               *)
(*                                                                         *)
(* The node that is downloaded has revisions, numbered in the order in     *)
(* which other clients commit them; a superseded one can disappear.  Block *)
(* i of revision r is <<r, i>>, and so is the piece of a file it decrypts  *)
(* to.  The server (external) lists the blocks of a revision in any order, *)
(* and, as it pages long lists, possibly not all of them.                  *)
(*                                                                         *)
(* A tokio file hands each write to a thread of the blocking pool and      *)
(* waits for it at the next write or flush only: pending[d] is that write. *)
(* Nothing keeps two downloads from the same destination.                  *)
(*                                                                         *)
(* Every request is a GET: a retry repeats it without effect, so attempts  *)
(* are not counted.                                                        *)
(***************************************************************************)
EXTENDS Naturals, Sequences, FiniteSets

CONSTANTS
    Downloads,    \* transfers the user starts, one spawn_download each
    Paths,        \* local destinations
    DestOf,       \* dest_dir / node_name of a download
    MaxRevision,  \* bound: revisions of the node
    BlocksOf,     \* the number of blocks of a revision
    Signed,       \* whether a revision has a manifest signature
    OldLength,    \* pieces of the file a destination holds before any download
    None

Revisions == 1..MaxRevision

\* How do_download can end.
Results == {"ok", "cancel", "empty", "unsigned", "integrity", "error"}

ASSUME DownloadConstants ==
    /\ DestOf \in [Downloads -> Paths]
    /\ MaxRevision \in Nat \ {0}
    /\ BlocksOf \in [Revisions -> Nat \ {0}]
    /\ Signed \in [Revisions -> BOOLEAN]
    /\ OldLength \in Nat
    /\ None \notin Revisions
    /\ None \notin Results

VARIABLES
    active,     \* server: the node's active revision
    gone,       \* server: revisions that can no longer be fetched
    disk,       \* per path, the pieces the file holds
    pc,         \* where the download's task stands
    rev,        \* revision_id, from the link
    list,       \* sorted_blocks: their indices
    body,       \* the block fetched and decrypted, if any
    next,       \* position in the list of the block that is fetched next
    pending,    \* the write under way in the blocking pool, if any
    ioError,    \* a write failed; the next write or flush reports it
    verified,   \* DownloadStats::signature_verified
    outcome,    \* outcome_rx: how the task ended
    state,      \* TransferState
    cancelled,  \* the Transfer's cancellation token
    clash       \* history: since d created its file, another download touched it

server == <<active, gone>>
plan == <<rev, list>>
file == <<disk, pending, ioError, clash>>
result == <<verified, outcome>>
ui == <<state, cancelled>>
vars == <<server, file, pc, plan, body, next, result, ui>>

\* A piece of a file: a block, what was there before, zeros where a file was
\* written past its end, or what a block with a wrong hash decrypts to.
OldPiece == <<0, 0>>
Zeros == <<0, 1>>
Corrupt == <<0, 2>>
Piece == (0..MaxRevision) \X Nat

\* The content of a revision.
Content(r) == [i \in 1..BlocksOf[r] |-> <<r, i>>]

Working == {"start", "link", "keys", "create", "opened", "revision", "fetch",
            "write", "flush", "verify", "xattr"}
Terminal == {"completed", "cancelled", "failed"}
Outcome == {None} \cup Results

Init ==
    /\ active \in Revisions
    /\ gone = {}
    /\ disk = [p \in Paths |-> [i \in 1..OldLength |-> OldPiece]]
    /\ pc = [d \in Downloads |-> "idle"]
    /\ rev = [d \in Downloads |-> None]
    /\ list = [d \in Downloads |-> <<>>]
    /\ body = [d \in Downloads |-> <<>>]
    /\ next = [d \in Downloads |-> 1]
    /\ pending = [d \in Downloads |-> <<>>]
    /\ ioError = [d \in Downloads |-> FALSE]
    /\ verified = [d \in Downloads |-> FALSE]
    /\ outcome = [d \in Downloads |-> None]
    /\ state = [d \in Downloads |-> "none"]
    /\ cancelled = [d \in Downloads |-> FALSE]
    /\ clash = [d \in Downloads |-> FALSE]

-----------------------------------------------------------------------------
(* How a step of the task ends.                                            *)

Advance(d, step) ==
    /\ pc' = [pc EXCEPT ![d] = step]
    /\ UNCHANGED outcome

\* do_download returns and the spawned task sends its outcome.
Finish(d, how) ==
    /\ pc' = [pc EXCEPT ![d] = "done"]
    /\ outcome' = [outcome EXCEPT ![d] = how]

\* Download d touches its destination: a clash for all others with that file.
Touches(d) ==
    clash' = [e \in Downloads |->
        \/ clash[e]
        \/ /\ e # d
           /\ DestOf[e] = DestOf[d]
           /\ pc[e] \notin {"idle", "start", "link", "keys", "create"}]

-----------------------------------------------------------------------------
(* The user and the server.                                                *)

\* App::start_download: spawn_download.
SpawnDownload(d) ==
    /\ pc[d] = "idle"
    /\ pc' = [pc EXCEPT ![d] = "start"]
    /\ state' = [state EXCEPT ![d] = "running"]
    /\ UNCHANGED <<server, file, plan, body, next, result, cancelled>>

\* Mutant: an outcome that is an error does not change the state.
PollOkOnly(d) ==
    /\ state[d] = "running"
    /\ outcome[d] = "ok"
    /\ state' = [state EXCEPT ![d] = "completed"]
    /\ UNCHANGED <<server, file, pc, plan, body, next, result, cancelled>>

\* Transfer::poll from App::tick; a terminal transfer is left alone.
Poll(d) ==
    /\ state[d] = "running"
    /\ outcome[d] # None
    /\ state' = [state EXCEPT ![d] = IF outcome[d] = "ok" THEN "completed" ELSE "failed"]
    /\ UNCHANGED <<server, file, pc, plan, body, next, result, cancelled>>

\* Transfer::cancel.
CancelTransfer(d) ==
    /\ state[d] = "running"
    /\ cancelled' = [cancelled EXCEPT ![d] = TRUE]
    /\ state' = [state EXCEPT ![d] = "cancelled"]
    /\ UNCHANGED <<server, file, pc, plan, body, next, result>>

\* Another client commits a new revision.
NewRevision ==
    /\ active < MaxRevision
    /\ active' = active + 1
    /\ UNCHANGED <<gone, file, pc, plan, body, next, result, ui>>

\* The server drops a superseded revision and its blocks.
DropRevision(r) ==
    /\ r < active
    /\ r \notin gone
    /\ gone' = gone \cup {r}
    /\ UNCHANGED <<active, file, pc, plan, body, next, result, ui>>

\* pdtui ends, by exit or by crash: its memory and the writes under way with it.
ProcessEnds ==
    /\ \E d \in Downloads : pc[d] \notin {"idle", "dead"}
    /\ pc' = [d \in Downloads |-> IF pc[d] = "idle" THEN "idle" ELSE "dead"]
    /\ rev' = [d \in Downloads |-> None]
    /\ list' = [d \in Downloads |-> <<>>]
    /\ body' = [d \in Downloads |-> <<>>]
    /\ next' = [d \in Downloads |-> 1]
    /\ pending' = [d \in Downloads |-> <<>>]
    /\ ioError' = [d \in Downloads |-> FALSE]
    /\ verified' = [d \in Downloads |-> FALSE]
    /\ outcome' = [d \in Downloads |-> None]
    /\ state' = [d \in Downloads |-> "none"]
    /\ cancelled' = [d \in Downloads |-> FALSE]
    /\ UNCHANGED <<server, disk, clash>>

-----------------------------------------------------------------------------
(* do_download up to the open file.                                        *)

\* The token is checked.
Start(d) ==
    /\ pc[d] = "start"
    /\ IF cancelled[d] THEN Finish(d, "cancel") ELSE Advance(d, "link")
    /\ UNCHANGED <<server, file, plan, body, next, verified, ui>>

\* file_downloader, step 1: the link names the active revision.
FetchLink(d) ==
    /\ pc[d] = "link"
    /\ rev' = [rev EXCEPT ![d] = active]
    /\ Advance(d, "keys")
    /\ UNCHANGED <<server, file, list, body, next, verified, ui>>

\* Steps 2 to 5: volume, share key, chain of node keys, and the signer's public
\* keys, without which the download goes on with the node's own.
ResolveKeys(d) ==
    /\ pc[d] = "keys"
    /\ Advance(d, "create")
    /\ UNCHANGED <<server, file, plan, body, next, verified, ui>>

\* File::create truncates what is there.
CreateFile(d) ==
    /\ pc[d] = "create"
    /\ disk' = [disk EXCEPT ![DestOf[d]] = <<>>]
    /\ Touches(d)
    /\ Advance(d, "opened")
    /\ UNCHANGED <<server, pending, ioError, plan, body, next, verified, ui>>

\* The token is checked for the last time, with the file truncated.
CheckCancel(d) ==
    /\ pc[d] = "opened"
    /\ IF cancelled[d] THEN Finish(d, "cancel") ELSE Advance(d, "revision")
    /\ UNCHANGED <<server, file, plan, body, next, verified, ui>>

-----------------------------------------------------------------------------
(* download_to_writer.                                                     *)

\* What the server may list: distinct blocks of the revision, in any order.
Listings(r) ==
    UNION {{reply \in [1..k -> 1..BlocksOf[r]] :
               \A i, j \in 1..k : reply[i] = reply[j] => i = j} : k \in 0..BlocksOf[r]}

\* sort_by_key: the i-th block has i - 1 blocks before it.
SortedByIndex(reply) ==
    [i \in 1..Len(reply) |->
        CHOOSE x \in {reply[j] : j \in 1..Len(reply)} :
            Cardinality({j \in 1..Len(reply) : reply[j] < x}) = i - 1]

\* Steps 1 and 2: the revision has blocks and a manifest signature, and the
\* content key can be decrypted; the blocks are sorted.
FetchRevision(d) ==
    /\ pc[d] = "revision"
    /\ rev[d] \notin gone
    /\ \E reply \in Listings(rev[d]) :
        IF reply = <<>> THEN Finish(d, "empty") /\ UNCHANGED list
        ELSE IF ~Signed[rev[d]] THEN Finish(d, "unsigned") /\ UNCHANGED list
        ELSE /\ Advance(d, "fetch")
             /\ list' = [list EXCEPT ![d] = SortedByIndex(reply)]
    /\ UNCHANGED <<server, file, rev, body, next, verified, ui>>

\* What a GET of the next block may return: the block, unless its revision was
\* dropped, or other bytes (a damaged body, an error page).
Bodies(d) ==
    {Corrupt} \cup
        (IF rev[d] \in gone THEN {} ELSE {<<rev[d], list[d][next[d]]>>})

\* Mutant: the hash is not compared.
FetchBlockUnchecked(d) ==
    /\ pc[d] = "fetch"
    /\ \E bytes \in Bodies(d) : body' = [body EXCEPT ![d] = <<bytes>>]
    /\ Advance(d, "write")
    /\ UNCHANGED <<server, file, plan, next, verified, ui>>

\* Step 3, fetch_and_decrypt_block: the SHA-256 of the bytes must be the hash
\* the revision gives for the block.
FetchBlock(d) ==
    /\ pc[d] = "fetch"
    /\ \E bytes \in Bodies(d) :
        IF bytes = <<rev[d], list[d][next[d]]>>
        THEN Advance(d, "write") /\ body' = [body EXCEPT ![d] = <<bytes>>]
        ELSE Finish(d, "integrity") /\ UNCHANGED body
    /\ UNCHANGED <<server, file, plan, next, verified, ui>>

\* Step 3, write_all: once the write before has ended, hand over the next.
WriteBlock(d) ==
    /\ pc[d] = "write"
    /\ pending[d] = <<>>
    /\ IF ioError[d] THEN Finish(d, "error") /\ UNCHANGED <<pending, next>>
       ELSE /\ pending' = [pending EXCEPT ![d] = body[d]]
            /\ next' = [next EXCEPT ![d] = @ + 1]
            /\ Advance(d, IF next[d] < Len(list[d]) THEN "fetch" ELSE "flush")
    /\ body' = [body EXCEPT ![d] = <<>>]
    /\ UNCHANGED <<server, disk, ioError, clash, plan, verified, ui>>

\* A file after a piece was written at a position, which may be past its end.
WriteAt(content, position, piece) ==
    [i \in 1..(IF position > Len(content) THEN position ELSE Len(content)) |->
        IF i = position THEN piece
        ELSE IF i <= Len(content) THEN content[i] ELSE Zeros]

\* The blocking pool writes where the blocks before end, also after the task
\* has ended; or it fails.
DiskWrite(d) ==
    /\ pending[d] # <<>>
    /\ pending' = [pending EXCEPT ![d] = <<>>]
    /\ \/ /\ disk' = [disk EXCEPT ![DestOf[d]] =
                        WriteAt(@, next[d] - 1, pending[d][1])]
          /\ Touches(d)
          /\ UNCHANGED ioError
       \/ /\ ioError' = [ioError EXCEPT ![d] = TRUE]
          /\ UNCHANGED <<disk, clash>>
    /\ UNCHANGED <<server, pc, plan, body, next, result, ui>>

\* Mutant: the file is not flushed.
FlushSkipped(d) ==
    /\ pc[d] = "flush"
    /\ Advance(d, "verify")
    /\ UNCHANGED <<server, file, plan, body, next, verified, ui>>

\* Step 3, flush: the last write has ended; its error is reported.
Flush(d) ==
    /\ pc[d] = "flush"
    /\ pending[d] = <<>>
    /\ IF ioError[d] THEN Finish(d, "error") ELSE Advance(d, "verify")
    /\ UNCHANGED <<server, file, plan, body, next, verified, ui>>

\* Step 4, verify_manifest: the signature covers the hashes of all blocks of
\* the revision, and verifies if one of the keys found is the signer's.
VerifyManifest(d) ==
    /\ pc[d] = "verify"
    /\ \E keyFound \in BOOLEAN :
        verified' = [verified EXCEPT ![d] = keyFound /\ Len(list[d]) = BlocksOf[rev[d]]]
    /\ Advance(d, "xattr")
    /\ UNCHANGED <<server, file, plan, body, next, ui>>

\* Step 5, verify_xattr: another size or digest than the attributes claim is
\* logged.  do_download returns Ok, whatever DownloadStats says.
VerifyXattr(d) ==
    /\ pc[d] = "xattr"
    /\ Finish(d, "ok")
    /\ UNCHANGED <<server, file, plan, body, next, verified, ui>>

\* A step may return an error; what is on the disk stays there.  The looks at the
\* token and verify_xattr cannot, and the errors of write_all and flush are those
\* of ioError.
StepFails(d) ==
    /\ pc[d] \in Working \ {"start", "opened", "write", "flush", "xattr"}
    /\ Finish(d, "error")
    /\ body' = [body EXCEPT ![d] = <<>>]
    /\ UNCHANGED <<server, file, plan, next, verified, ui>>

-----------------------------------------------------------------------------

Task(d) ==
    \/ Start(d) \/ FetchLink(d) \/ ResolveKeys(d) \/ CreateFile(d) \/ CheckCancel(d)
    \/ FetchRevision(d) \/ FetchBlock(d) \/ WriteBlock(d) \/ Flush(d)
    \/ VerifyManifest(d) \/ VerifyXattr(d) \/ StepFails(d)

Next ==
    \/ \E d \in Downloads :
        SpawnDownload(d) \/ Poll(d) \/ CancelTransfer(d) \/ Task(d) \/ DiskWrite(d)
    \/ NewRevision
    \/ \E r \in Revisions : DropRevision(r)
    \/ ProcessEnds

Spec == Init /\ [][Next]_vars

\* The runtime runs every task (requests return within the client's timeout),
\* the blocking pool every write, and the application ticks every 100 ms.
Fairness ==
    \A d \in Downloads : WF_vars(Task(d)) /\ WF_vars(DiskWrite(d)) /\ WF_vars(Poll(d))

FairSpec == Spec /\ Fairness

-----------------------------------------------------------------------------
(* Properties.                                                             *)

TypeOK ==
    /\ active \in Revisions /\ gone \in SUBSET Revisions
    /\ disk \in [Paths -> Seq(Piece)]
    /\ pc \in [Downloads -> Working \cup {"idle", "done", "dead"}]
    /\ rev \in [Downloads -> Revisions \cup {None}]
    /\ list \in [Downloads -> Seq(Nat)]
    /\ body \in [Downloads -> Seq(Piece)]
    /\ \A d \in Downloads : next[d] \in 1..(Len(list[d]) + 1)
    /\ pending \in [Downloads -> Seq(Piece)]
    /\ ioError \in [Downloads -> BOOLEAN]
    /\ verified \in [Downloads -> BOOLEAN]
    /\ outcome \in [Downloads -> Outcome]
    /\ state \in [Downloads -> {"none", "running"} \cup Terminal]
    /\ cancelled \in [Downloads -> BOOLEAN]
    /\ clash \in [Downloads -> BOOLEAN]

\* A download that ended well, whose manifest verified, and whose file no other
\* download touched, has left exactly the revision the link named, although the
\* revision may be superseded and dropped meanwhile, the blocks come in any
\* order and the disk writes run behind.
CompletedIsRevision ==
    \A d \in Downloads :
        (outcome[d] = "ok" /\ verified[d] /\ ~clash[d]) =>
            disk[DestOf[d]] = Content(rev[d])

\* What a download has written at any moment, and leaves behind when it fails or
\* is cancelled, is the beginning of the revision's list of blocks: none is
\* missing or twice, and none failed the hash check.
PartialIsPrefix ==
    \A d \in Downloads :
        (list[d] # <<>> /\ ~clash[d]) =>
            \E k \in 0..(next[d] - 1) :
                disk[DestOf[d]] = [i \in 1..k |-> <<rev[d], list[d][i]>>]

\* download_to_writer: of a revision without manifest signature "no plaintext
\* must reach the writer".
UnsignedWritesNothing ==
    \A p \in Paths : \A i \in 1..Len(disk[p]) :
        disk[p][i][1] \in Revisions => Signed[disk[p][i][1]]

\* Downloads that overlap on one file truncate and overwrite each other; but
\* when all of them ended well with all blocks of one revision, the file is
\* that revision.
SameRevisionConverges ==
    \A p \in Paths : \A r \in Revisions :
        LET here == {d \in Downloads : DestOf[d] = p /\ pc[d] # "idle"} IN
        (here # {} /\ \A d \in here : /\ outcome[d] = "ok" /\ rev[d] = r
                                      /\ Len(list[d]) = BlocksOf[r])
            => disk[p] = Content(r)

\* Every download that is shown as running ends, or the process does.
DownloadsEnd ==
    \A d \in Downloads : state[d] = "running" ~> state[d] # "running"

\* Completed means the revision is in the file: for a verified download that was
\* alone with it, and for downloads of one revision that overlapped.
CompletedIsRight == TypeOK /\ CompletedIsRevision /\ SameRevisionConverges

\* Whatever fails, the file holds a beginning of the revision's blocks, and nothing
\* of a revision without manifest signature.
DestinationIsSound == PartialIsPrefix /\ UnsignedWritesNothing
=============================================================================
