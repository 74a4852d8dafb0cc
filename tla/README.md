# TLA+ specifications of the Proton Drive clients

This directory specifies, model-checks and proves properties of the two Drive clients of the
repository: the JavaScript SDK in `reference/js/sdk/src` (the reference implementation, "JS SDK"
below), and the Rust client in `rust/`, the library `proton-drive-core` and the terminal program
`pdtui`.

Paths below are relative to `reference/js/sdk/src/` for `.ts` files; `session.rs`, `http.rs`,
`transfer.rs`, `app.rs` are in `rust/apps/pdtui/src/`, `events.rs`, `upload.rs`, `download.rs`,
`client.rs` in `rust/crates/proton-drive-core/src/`.

## The systems

### The JS SDK

A library for one-threaded runtimes: code runs until an `await`, and between two awaits of a call
every other call, timer or listener may run. So interleavings happen at awaits, and each action of
the models is what runs from one await to the next, but for a few which the sections on the modules
name. All state is in memory but for the caches, which
the application provides and may keep over a restart.

| Component | State it keeps | Operations | Interacts through |
|---|---|---|---|
| Stream upload (`internal/upload/streamUploader.ts`, `fileUploader.ts`) | encrypted blocks waiting, uploads going on, progress, error, abort controller | draft, encrypt, request tokens, put blocks and thumbnails, retry, pause, abort, verify, commit, clean up | the caller's stream and signal, the queue, drafts on the server |
| Drafts and queue (`manager.ts`, `queue.ts`) | number and size of uploads | wait for capacity, create a draft, resolve a conflict, commit or delete | all uploads of the client, other clients |
| Small upload (`smallFileUploader.ts`) | the block, the thumbnails | read, verify, encrypt, send in one request | as above |
| API service (`internal/apiService`) | counters of 429, 5xx and offline errors, told events | request with retries, abort | every part, the event listeners of the application |
| Download (`internal/download`) | blocks going on and buffered, next index, slots | page through blocks, download, write in order, verify, seek, thumbnails | the caller's stream, the queue |
| Nodes (`internal/nodes`) | cached nodes, "children loaded" flags, keys, debounced loads | get, list, rename, move, copy, create, trash, restore, delete | events, server |
| Events (`internal/events`) | managers with latest id, listeners, retry index | subscribe, dispose, poll, tell | caches of nodes and sharing, the application |
| Sharing (`internal/sharing`) | cached lists of shared nodes | share, unshare, convert, resend, public link; list, event handling | server, nodes, events |
| Shares (`internal/shares`) | the own volume's ids, share keys | find or create the volume | every part |
| Photos (`internal/photos`) | queue of photos to transfer, photos retried | add, save, remove, delete album, tag, upload | nodes, server |
| Node cryptography (`crypto`, `*/cryptoService.ts`) | none: what is stored with the nodes | generate, encrypt and sign keys, names, hashes, attributes, packets of shares | every part |
| Public link (`internal/sharingPublic/session`) | session, stored SRP information | handshake, request, renew on 401 | API service |
| Clients, diagnostic, telemetry, types | none that matters to the others | | |

What is hard in it, and what correctness means there:

* **Uploads.** Three kinds of tasks work on the same maps between each other's awaits; a failure may
  come while the loop waits for something else; answers to drafts and commits get lost; two uploads
  of one name may delete each other's drafts. Correct means: what is committed is the file, success
  means committed, capacity and drafts are given back once, nobody else's draft is deleted, an abort
  ends everything.
* **Downloads.** Blocks overtake each other, are retried and go on after the loop has failed. Correct
  means: in order, verified implies whole, memory and slots bounded, reads at the right offset.
* **API service.** Concurrent requests share counters that decide about retries and events. Correct
  means: the events told are true, retries bounded, an abort gets through.
* **Nodes and events.** The cache is filled by reads that may be slow, and invalidated by own
  operations and by events in between. Correct means: what is returned is not older than what the
  client was told, a loaded folder lists everything, no event is lost, the cache is told first.
* **Sharing, shares.** A call reads the share in four requests and then works from what it read.
  Correct means: what was asked is done, nobody else is affected, cached lists are the server's, all
  parts use one volume.
* **Photos.** Batches with a retry, related photos that others add meanwhile. Correct means: one true
  result for each photo, no photo lost with an album.
* **Cryptography.** Nodes are renamed, moved, copied and shared from cached copies. Correct means:
  who is granted a node can decrypt it, authors verify, names stay unique, no change is undone.

### The Rust client

`pdtui` runs on a multi-threaded tokio runtime. One task is the terminal loop (`App::run`: draw,
look at a finished login, poll the transfers, handle a key). It spawns the login, and one task per
transfer. The session manager spawns a refresh loop, an event subscription spawns a polling loop.
All of them talk to the server through one `SessionAwareHttpClient`, so they meet in the session.

| Component | State it keeps | Operations | Interacts through |
|---|---|---|---|
| Session manager (`session.rs`) | uid, access and refresh token, key password behind a tokio `RwLock`; three stores: OS keyring (an entry per uid), 0600 secret file, `session.json` | login, resume, proactive refresh, forced refresh, logout | the write lock; the stores, shared by all managers and processes of the user; `POST /auth/refresh`, which rotates a single-use token |
| Session-aware client, transport (`http.rs`) | nothing of its own; attempts of a request | JSON and blob request, retry with back-off, refresh and one retry on 401 | the session manager's snapshot and `force_refresh` |
| Event subscription (`events.rs`, `client.rs`) | cursor, page under way, cancellation token; the host's `LatestEventIdProvider` | resolve the first cursor, poll, drain pages, dispatch, persist, cancel | the server's event log, the host's listener and cursor provider |
| Upload (`upload.rs`) | blocks read, links, byte total | draft, verification code, block leases, block puts, commit | the local file, drafts and revisions on the server |
| Download (`download.rs`) | blocks, hash and manifest state | fetch revision, fetch, check and decrypt blocks, verify manifest and attributes | revisions on the server, the destination file |
| Transfers (`transfer.rs`) | `TransferState`, progress and outcome channels, cancellation token | spawn, poll, cancel | its task, the terminal loop |
| Application, panes (`app.rs`, `panes.rs`, `keymap.rs`) | screen, focus, entries and cursors of two panes, list of transfers, client, session | keys: navigate, refresh, upload, download, log in, quit | everything above |
| Listing and key chain (`client.rs`, `nodes.rs`) | page number, chain of ancestors | list children, resolve a node key through its parents | server |
| Account bootstrap (`account.rs`) | unlocked user and address keys | unlock cascade, key lookup | server, crypto |
| Login, crypto, cache, API types, telemetry, rendering, entry points | none that matters to the others | | |

What is hard in it:

* **Session.** The refresh token is single use, several tasks may want to rotate it at the same
  time, the rotation is written to three places one after the other, answers get lost after the
  server rotated, processes end anywhere and several processes share the stores. Correct means: no
  task posts a spent token, a restart loads the live one, a request is never retried with the token
  that was just refused, nobody waits for ever; and, where something does cost the session its
  token, it is one of a short list of causes.
* **Event subscription.** The cursor is kept in three places of different ages. Correct means: no
  event is skipped, order is kept, through failed polls, crashes and a provider that forgets; a
  cancelled subscription ends.
* **Download.** The file is truncated first, written while the revision it comes from may disappear,
  verified last, and open to other downloads. Correct means: verified and alone implies whole,
  otherwise a prefix; nothing unsigned on the disk; every transfer ends.
* **Upload.** Eight requests against a server that may act and lose its answer, a local file that
  others change, links in any order. Correct means: what is committed is the whole file, in order;
  what is shown as completed is committed; every transfer ends.

`PROJECT.json` lists every component with its status, and under `hazards` the lines where these
difficulties bite and the properties that watch them.

## Modules

| Module | Models | Explored by |
|---|---|---|
| `StreamUploader` | one upload of the JS SDK, its draft and its clean-up | `MCStreamUploader` |
| `UploadDrafts` | uploads that meet: queue, drafts, conflicts, revisions, photos | `MCClientParts` |
| `SmallUpload` | an upload in one request | `MCClientParts` |
| `DriveApi` | `DriveAPIService` and the HTTP client of public links | `MCDriveApi` |
| `FileDownloader`, `SeekableStream`, `ThumbnailDownloader`, `DownloadQueue` | the parts of `internal/download`; composed in `DownloadParts` | `MCDownloadParts` |
| `NodesCache` | node cache, reads, operations, event handler | `MCNodesCache` |
| `DriveEvents`, `NodesLoading`, `NodeSharing`, `SharingLists`, `SharesManager` | events, batch loading and debouncer, sharing, cached lists, own volume; composed in `ServiceParts` | `MCServiceParts` |
| `PhotoAlbums`, `NodeCrypto`, `PublicSession` | albums and photos, keys and signatures, session of a public link; with `SmallUpload` and `UploadDrafts` composed in `ClientParts` | `MCClientParts` |
| `Session` | Rust: session manager, session-aware client, retry of the refresh POST | `MCSession` |
| `EventDelivery` | abstract: at-least-once, in-order delivery | |
| `EventFeed` | Rust: the event subscription; refines `EventDelivery` | `MCRustParts` |
| `Upload` | Rust: upload transfers: `Transfer`, `do_upload`, `run_upload`; composed with `EventFeed` in `RustParts` for liveness | `MCUpload`, `MCRustParts` |
| `Download` | Rust: download transfers: `Transfer`, `do_download`, `file_downloader`, `download_to_writer` | `MCDownload` |
| `SessionProofs`, `UploadProofs`, `DownloadProofs` | proofs about the Rust client's modules | |
| `EventProofs` | proofs about both ends of the event feed: `EventFeed`, with the refinement of `EventDelivery`, and `NodesCache` | |
| `StreamUploaderProofs`, `ServicesProofs`, `DownloadPartsProofs`, `ClientProofs` | proofs about the JS SDK's modules: `ServicesProofs` about `DriveApi`, and `DriveEvents` and `SharesManager` composed in `ServiceParts`; `ClientProofs` about `PublicSession`, `SmallUpload` and `UploadDrafts`, alone and composed in `ClientParts` | |

`DownloadParts`, `ServiceParts`, `ClientParts` and `RustParts` explore components one at a time: `part` is chosen
in the initial state and the other components stand still. The components of one such module share
no state in the client, so that their product would only multiply states. Where two of them do
meet, the meeting is inside one module: the queue's slots in `DownloadQueue`, uploads of one name in
`UploadDrafts`, own operations and events in `NodesCache`.

Definitions marked `Mutant` in the modules are not part of the models: each is a plausible wrong
version of the definition that follows it, and `PROJECT.json` says which property it must break.
Variables commented as history record what happened and guard nothing.

### StreamUploader

An item is a thumbnail or a block; the stream is its size in units and whether it has the digest
that is expected. The loop (`Main`), the encryption and one process per token run between each
other's awaits, with the same two waits the code has (for capacity and for the buffer). `error`,
`isUploadAborted` and the abort signal are kept apart, since different waits look at different ones.
The server may execute a request and lose its answer; `commitDraft` then asks whether the revision
is there. Block and thumbnail content is symbolic; the block verifier is a failing encryption.

### UploadDrafts

Uploads of five kinds (stream, photo, small, revision, small revision) of clients with and without
`clientUid`, for one name or one file. The actions are `waitForCapacity`, the creation of a draft
with `handleConflictError` (a draft of the same client, or one that may be overridden, is deleted
and the creation retried once), the commit with its question to the server after a lost answer,
deletion and `releaseCapacity`. Every request may fail before or after the server executed it.

### SmallUpload

Bytes delivered, declared size and digest, encryption that may produce a damaged block
(found by decrypting it again, retried a limited number of times), thumbnails in the order given and
sorted by type in the manifest, and the one request.

### DriveApi

`fetch` with its cases (timeout, offline, 429, 5xx, 401, other), the shared counters with their
cool-downs, the events sent when a limit is reached or left, and the abort. Counters are known up to
their limit plus one, time by whether a cool-down runs. A request of a public link that meets an expired
session awaits `reauth`: two requests through the main client's `DriveAPIService`, which carry no signal
and are retried there by the same rules, with counters of that service that are not modelled here.

### Downloads

`FileDownloader`: pages of blocks, at most `MaxOngoing` started, a buffer filled in any order, writes
in order with a retry, expired tokens, pause, abort, manifest and SHA1 checks for the three ways to
download. Block downloads go on after the loop failed. `SeekableStream`: a byte stands for its
offset; the platform's `ReadableStream` is external. `ThumbnailDownloader`: the generator yields
what the downloads left in the buffer, then resets it: two steps. `DownloadQueue`: slots.

### NodesCache

The server has a tree and a version per node; a change, by whomever, appends an event. A call is a
sequence of steps: look in the cache, read, store, send the change, read the entry to be changed, write
it back (`GetChangedNode`, `NotifyNodeChanged`); the handler of an updated node reads and writes in two
steps too (`GetUpdatedNode`, `OnNodeUpdated`), and everything else may happen in between but for the
next event, which waits for this one, and for what a poll finds (`EventsLost`, `AccessLost`: the next
poll waits as well). What is written back is the copy that was read, whatever was stored or removed
meanwhile. A write may fail and is then only logged: of a node just read (`DecryptNode`, and some of a
listing's nodes in `LoadNodesWithMissingReport`, which flags the folder all the same; a degraded node,
whose parent's keys cannot be decrypted, is not stored either), of a node the client has changed, of a
node an event updates. A node that cannot be decrypted at all ends the listing before missing nodes are
removed and the folder is flagged (`LoadSomeNodesFails`). Removals and the children flags are modelled
without failures: they are writes of the caller's cache whose errors end the call, or the handling of
the event. Three things are one step although they await in between: the removal of a node with all
that is tagged below it, making all nodes of a volume stale, and the end of a batch, which in the code
stores its nodes one by one before it removes the missing ones and sets the flag; here all are stored
when the last one is. Children are found by the tag of their parent, whether the parent is cached or
not (`Tagged`).

The exceptions in the properties are history variables set where the code really has the case, so that
the properties say: nothing else goes wrong. `late`: a copy older than what was told was stored over
it, a copy of another place was written back over it, or the writing back failed; `lost`: cached when a
refresh replaced its events; `astray`: deleted with a folder from which the tags did not lead to it;
`swept`: removed with a folder it had left; `missed`: updated while not cached, or listed and not
stored; `lateLists`: a folder flagged although it was reset meanwhile; `filtered`: dropped by a listing
with a filter. So the races of read and write-back are in the model, and excepted where they do harm:
the code has no protection against them, which the list of hazards says.

### Services

`DriveEvents`: managers of volume and core events, subscriptions and disposal, pages, back-off, a
throwing listener, the ids given to the application. `NodesLoading`: a batch (`asked`), answered in any
order, that decrypts a window of nodes, of which one is the parent of others, beside a single `getNode`
that goes through the same debouncer. `NodeSharing`: `shareNode`, `unshareNode`, converting and
resending invitations; others change the share and the invited answer between any two requests; that a
public link is to be removed can only be asked of `unshareNode`. Three history variables say what others
did: `before` is the share as it was when the call began with every change of others since, `touched`
whom they changed, `swept` who lost access with a share the call deleted. `SharingLists`: one list, its
set in memory and its entry in the application's cache. A list is changed in memory first and stored
then, two steps of each of the three writers (a listing, an own change, the event handler), of which the
second may fail; an empty list is stored as the empty string, which reads as one blank uid or, with
some caches, as a missing entry (`emptyIsNone`). Reading the entry and keeping it in memory are one step.
`SharesManager`: `getRootIDs` and its callers, one volume per user on the server.

### Client parts

`PhotoAlbums`: the queue of photos, payloads built in slices of `LoadSize`, batches of at most
`BatchLimit` counting related photos, the retry with the photos the server misses, copies of photos
of other volumes, album deletion that saves first (the photos to save come in any order), tags and
favourites. A caller names each photo once and no tag both to add and to remove; other clients add and
delete photos and related photos meanwhile, but put nothing into an album that the call takes out of it
or tags. `NodeCrypto`: messages record the session key, the keys with a packet for it, and the signing
key; four clients (the owner, a member of the shared folder, a guest invited to single items, the
visitor of the public link) work from cached nodes of any age. A move or copy signs the passphrase again
only where the author of the key is anonymous. `PublicSession`: the SRP handshakes of several requests,
whose answers come in any order.

### Session

Token pairs of a server session are numbered by the rotation that issued them, so "newer" is `>`,
and `server[u]` is the number of the one refresh token the server accepts. A manager is in `status`
none, login, loading, live, dropped (its `Arc` is gone, its loop is not) or in one of the three
steps of a logout. An *actor* is a manager, standing for its proactive loop, or a request; `pc` says
where it is. Both run the same refresh (`do_refresh`): `AcquireWriteLock`, the POST with its
attempts (`RefreshAccepted`, `RefreshRejected`, `RequestLost`, `ReplyLost`), then `SaveKeyring`,
`SaveSecretFile`, `WriteSessionFile`, each a step at which others may run or the process may end.
`from_login` persists through the same three writes, so it starts at the first of them. A failed
keyring write is ignored, as in the code; a failed file write ends the refresh and may leave the old
file, none that parses, or the new one. `Drop` detaches the loop, because dropping a tokio
`JoinHandle` does. `ProcessEnds` is exit or crash; an in-memory keyring forgets with it.

`cause[u]` is history: what has happened to a session that can cost it its token. The invariants
speak of sessions with `cause[u] = {}`, and the list of places where `Blame` is called is the list
of such causes: a lost answer to a refresh, a failed write, a crash while persisting, two managers on
one session, a revocation, an expiry, a logout.

Left out: expiry times (the loop's timer may fire at any moment, which covers every clock), the key
password (it travels with the refresh token), the content of ordinary answers (a 401 may come at any
time), URL and header assembly.

### EventFeed and EventDelivery

A cursor is the number of the last event it covers. The task goes through start, wait, fetch,
dispatch, persist; `cursor` is the loop's, `drain` the drain's own, `stored` the provider's. The
server answers a fetch with any prefix of what follows, an order to resync, an error, not-found, or
(misbehaving) a page with `More` that does not advance. Events that concern no node
(`visible` omits them) advance the cursor only. `delivered` and `base` are history: what
the listener was given, and up to where the host has resynced.

`EventDelivery` says what the host may rely on: an event is delivered only when all earlier ones are
known, and the point to resume from never passes an event the host does not know, though it may fall
back after a crash. `EventFeed` implements it with `resume` mapped to the loop's cursor while a loop
runs and to the stored one otherwise.

Left out: poll interval and back-off lengths, one subscription only.

### Upload

A unit of content is a version and a position, so that a block in the wrong place, a missing block
and a mixture of two versions of the file can all be told from the right content. `Stat` takes the
expected size, `Open` looks at the transfer's token for the last time (`run_upload` gets a fresh
one), the steps up to `GetVerificationCode` follow the code's requests, `ReadSome` is one
`stream.read` with any number of units that fit, `FinishBlock` and `StopAtEof` end the inner loop,
`CheckSize` compares. `RequestBlocks` takes the server's links in any order and possibly too few,
counts and sorts them; `PutBlock`, `SignManifest` and `CommitRevision` finish. `ReplyLost` in any of
the requests that change the server: it acted, the client sends again or gives up. `StepFails`: any
step may return an error, and nothing is undone. The server commits whatever it has been given;
nothing is expected of it that the client should ensure.

The client's part of `Transfer` is `SpawnUpload`, `Poll`, `CancelTransfer`. Another program may
change the file at any moment (`Edit`), the server may drop a draft (`ReapDraft`).

Left out: cryptographic content, the byte counter of the progress channel, the cap on the list of
transfers. Links with wrong or repeated indices are outside the server's contract and not modelled.

### Download

A revision is a number, its block `i` and the piece of a file it decrypts to are `<<r, i>>`. The
steps follow `do_download` (`Start`, `CreateFile`, which truncates, `CheckCancel`), `file_downloader`
(`FetchLink` takes the revision id, `ResolveKeys`) and `download_to_writer` (`FetchRevision`,
`FetchBlock`, `WriteBlock`, `Flush`, `VerifyManifest`, `VerifyXattr`). The server commits new
revisions and drops superseded ones at any moment, lists blocks in any order and perhaps not all,
and returns damaged bodies. A tokio file hands a write to a thread and waits for it only at the next
write or flush, so `DiskWrite` is a step of its own: it may come after the task has failed, land in
a file another download has truncated meanwhile, or fail. `clash[d]` is history: another download
touched the file of `d` since `d` created it; `CompletedIsRevision` and `PartialIsPrefix` speak of
downloads without a clash, `SameRevisionConverges` of those with one.

`do_download` does not look at `signature_verified`, so a download that is shown as completed may be
neither authentic nor, if the server listed too few blocks, whole; hence the premise `verified[d]`
in `CompletedIsRevision`. (`docs/adr/0009` wants a manifest mismatch to abort before any block is
fetched; the comments in `download.rs` say why the code decides otherwise.)

Left out: attempts (all requests are GETs), decryption other than its success, the walk up the chain
of parents.

## What is checked

All runs switch deadlock checking off: a client without a call, session, subscription or transfer
under way may rightly do nothing, and bounds stop the environment. Each property's comment in its
module says which behaviour of the code it is about.

| Run | Checks | Bounds |
|---|---|---|
| `sdk_upload` | `CommittedIsWhole`, `UploadEndsRight`, `WithinBounds`, `AbortEndsAll` | files of 0, 1 and 2 blocks, with and without a thumbnail, shorter and longer than announced, a wrong digest; buffer of 1, 2 uploads at a time, 1 retry |
| `sdk_client` | `ClientTypeOK`, `AlbumCallsAreTrue`, `NodesAreReadable`, `UploadsAreTrue`, `NeverRefusedTwiceWithOne`, `OthersWorkIsKept`, `ClientProgress` | 12 calls on 3 photos and 2 related ones; 2 nodes, 3 operations; 2 requests, 3 expiries; sizes 0 to 3; 3 uploads at a time in 4 constellations, queue of 2 |
| `sdk_api` | `EventsTellTheTruth`, `WithinLimits`, `AbortEndsRequest` | 2 requests, limits of 1, 3 attempts, 2 sessions |
| `sdk_download` | `DeliveredIsRevision`, `StreamIsPositioned`, `DownloadsAccounted`, `EverythingEnds` | 3 blocks on 2 pages, 2 at a time; a file of 3 blocks, reads of up to 3; 4 nodes, batches of 2; 3 downloads, 2 slots |
| `sdk_nodes` | `CacheIsCurrent`, `ListingComplete` | a file in a folder in a folder, the top one in the trash at first or nothing, 2 calls side by side, 3 changes and calls together |
| `sdk_nodes_filter` | expected violation of `MissingIsGone` | as above |
| `sdk_services` | `EventsAreTold`, `SharingDoesAsAsked`, `ClientAgreesWithServer`, `ServicesProgress` | 2 subscribers, 2 events; a parent and 2 children; 2 people, 8 calls, 2 steps of others; 2 nodes in a list; 2 callers |
| `sdk_unshare` | expected violation of `OnlyEmptyIsDeleted` | 2 people, 2 calls of `unshareNode` |
| `session_one` | `TypeOK`, `PostsLiveToken`, `ResumeLoadsLiveToken`, `RetryUsesNewerToken`, `SessionProgress` | one manager, one request, 4 tokens, 2 attempts |
| `rust_parts` | `FeedTypeOK`, `NoEventSkipped`, `DeliversAtLeastOnce` (the refinement), `FeedProgress`, `UploadsEnd` | 2 events; two uploads, a file of 3 units |
| `upload` | `CommittedIsWhole`, `OutcomesAreTrue`, `TerminalIsFinal` | two uploads of one name, 6 versions of the file, blocks of 2, files of at most 4, 2 attempts, one edit; uploads symmetric |
| `download` | `CompletedIsRight`, `DestinationIsSound`, `DownloadsEnd` | two downloads into one file, a signed revision of 2 blocks superseded by an unsigned one |

Where a property is a conjunction, its conjuncts are the statements to read; each has a name and a
comment in the module of its component:

| Property | Conjuncts |
|---|---|
| `UploadEndsRight`, `WithinBounds` | `OkMeansCommitted`, `EndsCleanly`; `TypeOK`, `BufferIsBounded` |
| `AlbumCallsAreTrue` | `OneResultPerPhoto`, `ResultsAreTrue`, `ThrowsOnlyOnFailure`, `DeletedAlbumIsSaved`, `ViewFollows` |
| `NodesAreReadable` | `GrantedIsDecryptable`, `AuthorsVerify`, `SiblingNamesDiffer` |
| `UploadsAreTrue` | `StoredAsDeclared`, `OkMeansCommitted`, `ExistsMeansTaken`, `CapacityAccounted`, `NoDraftLeftBehind` |
| `OthersWorkIsKept` | `NoChangeIsUndone`, `OthersDraftsAreKept` |
| `WithinLimits` | `TypeOK`, `StormEnds`, `RetriesAreBounded` |
| `DeliveredIsRevision`, `StreamIsPositioned` | `WrittenInOrder`, `VerifiedIsWhole`, `SignatureIssuesMeanComplete`; `ReadsRightBytes`, `SourceFollowsBuffer` |
| `DownloadsAccounted` | `TypeOK`, `BufferBounded`, `SlotsAccounted`, `FinishedAndReportedOnce`, `ProgressIsRight`, `OneResultPerNode` |
| `CacheIsCurrent` | `NodesTypeOK`, `FreshKnowsHandled`, `GoneIsForgotten` |
| `EventsAreTold` | `NothingLost`, `LatestIsSeen`, `CacheBeforeApplication` |
| `SharingDoesAsAsked` | `AskedIsDone`, `NobodyElse`, `OnlyLatecomersSwept`, `LinkIsKept` |
| `ClientAgreesWithServer` | `ServicesTypeOK`, `NodeKnowsShare`, `CachedListIsServers`, `OnlyMissingIsRemoved` |
| `SessionProgress`, `FeedProgress` | `RequestsReturn`, `LoopRetries`; `CancelEndsTask`, `EventsArrive` |
| `OutcomesAreTrue` | `TypeOK`, `CompletedIsCommitted`, `SizeErrorMeansEdited` |
| `CompletedIsRight`, `DestinationIsSound` | `TypeOK`, `CompletedIsRevision`, `SameRevisionConverges`; `PartialIsPrefix`, `UnsignedWritesNothing` |

Why the bounds are enough. *JS uploads and downloads*: two blocks or a block and a thumbnail can
overtake each other; a buffer of one is full with one; three blocks on two pages with two at a time
make the loop wait in every place it can; one retry is a retry and its exhaustion. Three uploads are
the least with which one waits in a queue of two, and with which a conflict can be resolved while a
third creates its draft. *API service*: limits of one are reached, exceeded and left by two requests;
three attempts allow any mix of two kinds of errors before the last. *Nodes*: a race is between
a slow read and one operation or event; three changes and calls together give a change between the
steps of two calls, and a move out of a folder, or into it, before the folder is deleted. Also proved
without the bound. *Services*: two subscribers are one that disposes and one that stays; two people are
one with and one without an account; two callers are a race for the volume. *Photos*: three photos
with related ones fill more than one batch of three. *Cryptography*: three operations are a share, a
rename and a move in any order, from a cached node of any age. *Session*: a race needs two actors on
one lock, and the proactive loop and a request are two; four tokens allow a rotation by each, a third
by whoever was stale, and a login; two attempts are a retry. What happens between managers that share
the stores is proved for any number of them (below), not only model-checked. *EventFeed*: two events are one page of two, two
pages of one, or one delivered and one to come. Also proved without the bound. *Upload*: the versions
have lengths 0, 1, 3, 4 and 5; with blocks of 2 that is a short block, a full and a short one, two
full ones; 0 and 5 are the refused sizes, and length 3 occurs twice for an edit that keeps the size.
One edit is enough to change the file between any two steps.
*Download*: two blocks can be listed in the wrong order or one of them omitted; two downloads can
truncate and overwrite each other at every point; the old file is longer than any revision. Symmetric
sets occur in no choice or ordering, and only in runs without liveness.

Fairness. *JS SDK*: the runtime runs every promise that is settled and every timer, and a request
ends, since it has a timeout; so the steps of the SDK are weakly fair, each process on its own in
`StreamUploader` and `DriveApi`, together in the composed modules. Users and other clients need
not do anything; a paused transfer need not be resumed, and the liveness properties do not ask it to
end. That errors stop is bounded by named constants, or, where the SDK retries without limit (offline,
429), not assumed: `AbortEndsRequest` lets them be retried for ever and says that an abort ends the
request all the same, except in `reauth`, which an abort does not reach and which may be retried for
ever. *Session*: tokio runs every task that can run, timers fire, requests have a timeout and
file writes return, so a refresh goes on (weak fairness); tokio's `RwLock` serves its waiters first
in, first out, so a waiter that finds the lock free again and again gets it (strong fairness). The
process need not end and nobody need log in. *EventFeed*: only that the task runs. `EventsArrive`
has a premise of its own (`ServerLists`): a server asked again and again with one cursor that events
follow lists some of them now and then, without which no client could deliver; it may leave a
caught-up feed with empty pages for ever and never order a resync. *Upload*, *Download*: the tasks run, the
blocking pool runs its writes, and the terminal loop polls every 100 ms.

### Disagreements with docs and comments

`sdk_nodes_filter` checks a statement of the code and ends in a violation: the nodes a batch did not
return are said to be "not existing on the API anymore" and removed from the cache, but a listing
with a type filter does not return existing nodes of the other type (`nodesAccess.ts:311`).

`sdk_unshare` ends in a violation, too: the comment at `internal/sharing/sharingManagement.ts:389` expects
the deletion of a share to fail when "other client updated the share and it is not empty", but it is
forced (line 387), and takes along whoever was let in, or accepted, after the share was read.
`OnlyLatecomersSwept`, a part of `SharingDoesAsAsked`, says that it takes nobody else.

The following were met while modelling. The models have the behaviour; the properties are stated so
that they hold with it (each exception is a named history variable or premise), and no run is
devoted to it.

JS SDK:

* `internal/sharing/cache.ts:7`: a cached list is said to be full; two writers that overlap, or a
  change during a listing, can leave one that is not. What is stored differs from what is in memory when
  storing it fails (line 129; the event handler swallows the error, `events.ts:29`) or ends after a later
  one. And an empty list is stored as the empty string and read after a restart as a list of one blank
  uid (line 118), or, where the cache takes the empty string for nothing, as none. `CachedListIsServers`
  speaks of lists none of this happened to.
* `internal/nodes/nodesAccess.ts:240`: a node counts as loaded before it is stored.
* `internal/nodes/cache.ts:126`: `removeNodes` takes what is tagged below a folder. A node moved out of
  the folder whose move was not handled yet goes with it, while the folder it is in now stays flagged as
  loaded and lists without it; a node moved into the folder, or below one that is not tagged so, stays
  in the cache as it was, though it is deleted. (Both met when `CacheIsCurrent` and `ListingComplete`
  were to be proved: an instance with one folder had neither.)
* `internal/nodes/events.ts:19`: a refresh makes entries stale and never removes one: a node deleted
  before it stays in the cache until it is read.
* `internal/events/volumeEventManager.ts:66`: polling should stop after a removed tree, but goes on
  and tells the removal again.
* `internal/download/seekableStream.ts:157`: "if the position is seeked back, the buffer is read again
  from the underlying source", but once something was read past the end the platform's stream is
  closed, and a read after a seek back out of the buffer gives nothing. `ReadsRightBytes` has this one
  exception (`stranded`).
* `internal/download/seekableStream.ts:45`: a read and a seek that overlap give bytes of another place,
  and a file whose author claims wrong block sizes can make a read wait for ever. Neither is in the
  run (`MayOvertake`, `MCFiles`), and the theorem excludes both by its premises.
* `internal/upload/streamUploader.ts`: an error of the upload's own can surface as `AbortError`. And
  `verifyIntegrity` compares the number of blocks and their total size with what was announced, not
  with what was encrypted: of a stream longer than announced, the revision that is committed can lack
  a block whose upload failed while the loop awaited something else. (Met when `CommittedIsWhole` was
  to be proved; it speaks of the whole stream only where the stream is not longer than announced.)
* `internal/upload/fileUploader.ts:63`: an expected size filled in after the capacity was taken makes
  the queue's total drift.
* `internal/upload/manager.ts:298`: an upload that fails to delete the client's own leftover draft
  reports "already exists" as if the name were taken by somebody; if the deletion was carried out and
  only its answer lost, the name is free and the node the error names is gone. `ExistsMeansTaken`
  has this one exception (`deleteFailed`).
* `internal/upload/smallFileUploader.ts:36`: the caller's abort signal is never connected.
* `internal/photos/upload.ts:204`: a lost answer to the commit of a photo is reported as a failure.
* `internal/photos/addToAlbum.ts`, `photosManager.ts`: related photos that move along are not told to
  the cache, and their errors are ignored.
* `internal/photos/albumsManager.ts:189`: a deletion that throws at the first photo it could not save
  leaves the photos that were moved after it in the same batch cached in the album, marked as fresh;
  and an update of which a later request fails (`photosManager.ts:164`) leaves the new favourite cached
  where it was. `ViewFollows` speaks of photos reported as done, and of calls that end normally.
* `internal/nodes/cryptoService.ts:176`: a folder created by an anonymous visitor and later moved shows a
  wrong signature warning for its attributes; `moveNode` and `copyNode` return the mover as author of
  a key that was not signed again; a copy of a file uploaded before 2023 loses a fallback.
* `internal/sharingPublic/session/httpClient.ts`: blocks of a public link are fetched without renewing
  the session. And a request that re-authenticates (line 28) does not hear its signal: the two requests
  of `reauth` are sent without it (`session/apiService.ts:35`, `72`), offline and 429 are retried
  without limit (`apiService/apiService.ts:320`, `359`), so an aborted request may never end there.

Rust client:

* `session.rs:19`, `630`: logout clears the stores, but a refresh that is persisting writes them back.
* `session.rs:508`: the refresh task is aborted on drop; it is detached and goes on.
* `session.rs:376`, `406`: the keyring entry is cleared so that the need to log in is noticed; the
  next start resumes from the secret file.
* `session.rs:428`, `562`: the secret file is authoritative; a stale keyring entry is preferred.
* `upload.rs:184`, `364`, `522`: a cancelled upload puts all its blocks and commits.
* `upload.rs:86`, `475`: an upload without SHA1 match is failed; the digest is never compared.

### Hazards without a property

`hazards` in `PROJECT.json` lists the most important ones, each with its property. Beyond it, these are
real and no property speaks of them: in the Rust client, two subscriptions that share one
`LatestEventIdProvider` (`client.rs:466`), a failed listing that leaves the old entries under the new
folder (`app.rs:541`), pages of a children listing that shift while others change the folder
(`client.rs:188`), a draft that stays behind after an error (`upload.rs:475`: the code promises no
cleanup), a growing file read into memory without bound (`upload.rs:376`); in the JS SDK, the items of
the list above.

## What is proved

The `...Proofs` modules are checked by TLAPS for every value of the constants that satisfies the named
`ASSUME` of the module they are about, so for any number of managers, requests, uploads, downloads,
blocks, events, retries and clients. The assumptions are types and non-zero bounds, and:

* `SessionConstants`: managers and requests are different actors; each request has its manager;
* `MaxAttempts >= 2` in `DriveApi` (the code has 3): a failed request is always tried a second time;
* `None` is no result, draft or state, and `"visit"` is no request (`PublicSession` uses it for the
  handshake that opens the link);
* thumbnails and lists of blocks are finite, and so are the nodes of `NodeCrypto`, the nodes loaded
  together (`NodesLoading`) and the photos of a call;
* `NodeCryptoConstants`: there are two names, and at most one file uploaded before 2023;
* `PhotoAlbumsConstants`: what a caller names, as said above;
* `StreamsArePositioned` alone has premises in its statement: every block has the size its author
  claims, and no `seek` overtakes a `read` of the caller. Without either the property fails, which is
  in the list of disagreements above.

No invariant below is inductive alone. Each section names what was added.

| Module | Theorem | Property |
|---|---|---|
| `SessionProofs` | `TypeCorrect`, `RefreshPostsLiveToken`, `RestartLoadsLiveToken`, `RetryIsNewer`, `SessionInvariant` | `TypeOK`, `PostsLiveToken`, `ResumeLoadsLiveToken`, `RetryUsesNewerToken` |
| `EventProofs`, of `EventFeed` | `TypeCorrect`, `NothingSkipped`, `DeliveredInOrder`, `ImplementsDelivery`, `FeedInvariant` | `FeedTypeOK`, `NoEventSkipped`, `DeliversAtLeastOnce` |
| `EventProofs`, of `NodesCache` | `TheCacheIsCurrent`, `TheListingIsComplete`, `PlacesAreRight`, `CacheInvariant` | `CacheIsCurrent`, `ListingComplete` |
| `UploadProofs` | `TypeCorrect`, `CommitsAreWhole`, `EndsAreTrue`, `TerminalStays` | `CommittedIsWhole`, `OutcomesAreTrue`, `TerminalIsFinal` |
| `DownloadProofs` | `TypeCorrect`, `CompletionsAreRight`, `DestinationsAreSound` | `CompletedIsRight`, `DestinationIsSound` |
| `StreamUploaderProofs` | `BoundsHold`, `EndsAreRight`, `CommitsAreWhole` | `WithinBounds`, `UploadEndsRight`, `CommittedIsWhole` |
| `ServicesProofs` | `ApiTypeCorrect`, `EventsAreTrue`, `LimitsHold`, `EventsReachAll`, `LoadingReportsTruly`, `SharingIsTrue`, `ClientAndServerAgree` | `EventsTellTheTruth`, `WithinLimits`, `EventsAreTold`, `SharingDoesAsAsked`, `ClientAgreesWithServer` |
| `DownloadPartsProofs` | `DeliveriesAreRight`, `AccountsAreRight`, `StreamsArePositioned` | `DeliveredIsRevision`, `DownloadsAccounted`, `StreamIsPositioned` |
| `ClientProofs` | `LinkTypeCorrect`, `RefusedSessionIsReplaced`, `UploadsTellTheTruth`, `DraftsOfOthersAreKept`, `CryptoTypeCorrect`, `NodesReadable`, `WorkOfOthersIsKept`, `AlbumsAreTrue`, `ClientTypeCorrect` | `NeverRefusedTwiceWithOne`, `UploadsAreTrue`, `NodesAreReadable`, `OthersWorkIsKept`, `AlbumCallsAreTrue`, `ClientTypeOK` |

**Session.** That a refresh posts a live token depends on what the last one wrote and on who else could
have rotated. `SessionInv` is inductive together with `TypeOK`:

1. `Structure`: who refreshes holds its manager's lock, tasks belong to started managers, requests
   to live ones. From it, at most one actor per manager is persisting.
2. `UntouchedLeavesNoTrace`: a session not opened yet is nowhere. It makes a login alone on its
   session.
3. `LiveTokenHeld`: a session nothing happened to has one manager at work; its token in memory is
   the server's, or the one being persisted is.
4. `StoresHoldLiveToken`: keyring entry and secret file of such a session hold the live token or
   nothing, up to the writes still to come. 2, 3 and 4 go together: a resume relies on 4 to
   establish 3, a rotation on 3 to establish 4.
5. `TokensAdvance`: tokens in memory, in `session.json` and in requests are never ahead of the
   server, the one being persisted is ahead of the one in memory, a refused one is behind it once
   the refresh is done.

Most steps only *retreat* (they remove, or record a cause) or *install no token*; a lemma each shows
that such steps keep 2 to 4, and 5, and the few others (login, load, rotation, the final
assignment) have lemmas of their own.

**EventFeed.** `FeedInv` adds to the promises what holds inside a drain: until a page is dispatched,
its events are all that the drain's cursor covers and the host does not know. In `ImplementsDelivery`
each action maps to an action of `EventDelivery` or to a stutter.

**NodesCache.** What a property says of a node whose events are all handled has to be said of every
other node too: it is right, or an event that waits will put it right. `CacheInv` says so of each place
where a copy of a node can be. The feed (`EventOK`): an event is not ahead of the server, the last
version of its nodes is told by it or by a later one, and an update that is followed by others leaves
the node where it was when one of them deletes it (`Placed`). What the cache was told (`ToldOK`). A link
a call has read (`ReadOK`), which may be stored at any later time: it is as the server has it, or an
event that waits renews it, or it is late. An entry (`EntryOK`). A copy that is to be written back
(`WriteOK`, `UpdatingOK`) is only said to be of a cached node: by the event, or by the entry it
overwrites, it is put where it belongs, or the node is late. A call in progress (`CallOK`): what its
listing has found, has still to load or has been told of is all there is; a move it has not told yet
goes to the right folder, if nothing newer was told. And the flagged folders (`Listed`). Three groups of
lemmas carry it over the three kinds of steps: the server's (`Grown`: versions grow by one, and each
changed node is covered by a new event), the handling of the oldest event (`Pop`: what this event renews
is renewed, what it does not is promised by the rest of the feed), and the calls, of which those that
store (`StoresInv`) and those that tell the cache (`AckInv`) have a lemma each. That removal by tags
reaches what it should is `SubtreeIs`: the tagged nodes are the least set that holds the folder and what
is tagged with a member of it.

**Rust Upload.** `UploadInv` says, for each upload, what was read (every block before the last is full
and holds its positions; the file read is one version, or it was edited: `ReadInv`), what was sent
(sorted links are the identity, the blocks put so far are the blocks read: `SendInv`) and what the
server has (a committed node of this upload is whole, an unfinished one is its own draft:
`ServerInv`). The lemmas say of each step which of the three it can touch.

**Rust Download.** `DownloadInv` has, for each download, the plan (the listed blocks sorted: `PlanInv`),
the bytes between task and disk (`WriteInv`), the outcome, and the file (`FileInv`: as long as nobody
else touched it, it is a prefix of the plan, with what is pending the next piece). For downloads that
do clash, `ConvergesInv` says of a path and a revision: while all of its downloads write this revision,
every piece of the file is the right one, or is about to be.

**JS stream upload.** `StreamInv`: blocks and thumbnails in the buffer, requested, under way and stored
are parts of the stream (`PartsInv`); the encryption adds a block only where there is room
(`BufferInv`); capacity and draft at the end (`EndInv`); and an upload under way is awaited, so that
none is when what passed `verifyIntegrity` is committed (`CommitInv`). That passing means whole is
arithmetic: as many blocks as the announced size has, with the announced total, are all of them if the
stream is not longer.

**JS API service.** The events: a listener that was told "throttled" or "offline" has not been told the
end, exactly while the counters say so. The limits (`LimitsInv`): a storm of requests over the limit is
at most the requests that were waiting when the limit was met; failures are counted; a session in use
was proven.

**JS services.** `EventsInv` says of each event manager: what it goes by are ids of the log, or none once
the volume is gone (`IdsInv`); up to each event of the page being told, and up to where the page ends,
everything was told or waits before it (`LostInv`, which needs that a page holds every node event between
its ends in their order: `PageIs`); the listeners are the subscribers, once each, after the cache, and
who is missing was skipped (`ListInv`); the listeners before the next one have seen the event, the others
the one before (`SeenInv`). A dispose shifts the listeners under the loop, and `DisposeKeeps` shows that
exactly the listener that moves into the place already passed is skipped. There are never more managers than
subscriptions made, which is why a new one always has a place. `SharesInv`: the server's volume is made once
and every id on its way is its id.

`LoadInv`: what the API told of exists, wherever it is by now (`ToldExists`), and a node of the batch
that exists is still to be pulled from the answer or has a job that was begun (`NoneOverlooked`), so what
is left over at the end does not exist. `ListsInv`: the last event of a node tells how the node is
(`EventsTrue`), what the handler is about to write is right or another event will put it right
(`HandlerTrue`), and so is each node of the list in memory (`MemoryTrue`) and of the pages a listing has
read (`ListingTrue`), unless one of the recorded races happened; what is in memory is stored or on its way
there (`StoredFollows`), and what is stored is right when nothing is in memory to go by (`StoredTrue`).
`SharingInv`: what a call has read of
the share is what is there, but for what others touched (`InfoTrue`); who is no longer to do has what was
asked for him (`TodoTrue`), who still is to do has what he had and what others gave him (`WaitingTrue`);
the flag and the link are as asked once they were set (`SettingsTrue`); a fresh node knows of the share unless an answer was lost and an event is on
its way (`NodeTrue`); and each phase is reached with a request that leads to it (`PhaseTrue`), without
which the deletion of the share could not be told from the removal of somebody else's access.

**JS downloads.** `FileInv` has eight parts: indexes, tasks, the stream written so far, what is compared
with the manifest, the end, the buffer, the progress and types. `QueueInv`: taken slots are the
downloads that hold one. `ThumbnailInv`: every node has its result exactly once, through buffer, batch
and the generator's two-step reset. `PositionInv` of the seekable stream relates four places: what the
caller asked for, the buffer kept over from the last read, the chunks the platform's stream holds, and
where the block source stands; and a source that has closed stands at the end of the file, or was seeked
after that and gives nothing any more (`LastInv`).

**JS client.** `LinkInv`: a session on its way to a request was never held, so no request was refused
with it. `DraftsInv`: ids are given once (`IdInv`), an upload knows the draft it made and its conflict
is one the server had (`KnowInv`), drafts left behind have a reason (`LeftInv`), the queue's counters
are what the holders took (`CapacityInv`), and `ExistsMeansTaken`. `SmallInv`: what is encrypted is as
declared, and a block to be sent was verified.

`CryptoInv`: that a reader can open a node depends on every operation that ever made or passed on a key
of it. A link's passphrase and name are encrypted for the key above it, with the session keys of the node
it originates from, since copies keep them (`EncryptedSound`); each signature is one of the author the
link claims (`SignaturesSound`), and that author is the true one (`AuthorsSound`); the packets of a share
hold the session keys its node's messages still use, however often it was renamed or moved
(`SharesSound`); only folders have children (`ParentsSound`). `CachesSound` is what makes operations on
old copies harmless: a cached copy is a sound older form of the node, of the same origin and type, and
where the node is anonymous the copy is, too; what was sound then and is sent now is sound for the place
it is sent to. Readability then needs that the chain of parents from a grant to a node can be walked:
nodes reached downwards are finite, and each opens the next.

`AlbumInv`: a photo waits at one place, once (`FlightInv`: the queues and the payloads share no photo),
and has its result exactly once it waits nowhere (`ResultInv`), whether a batch, a retry or an error took
it out; a copy is made only of a photo that then waits no more (`CopyInv`); which queues are empty in
which stage (`StageInv`); a photo reported as done is done (`DoneInv`); the tags a photo already has follow
from the steps that are left (`TagInv`), in an order in which nothing is taken away before the new tags are
there; where a cached node that is not stale says a reported photo is (`ViewInv`); and, beside it, that
a photo of the timeline is cached there while no request failed and nothing was thrown (`SavedInv`). The queues are lists
that are split, joined, filtered and mapped, and a group of lemmas says of each operation that it keeps
photos at one place (`OnceSplit`, `OnceJoin`, `OnceMap`, `OnceKept`). A retry is put at the end of a queue
of which a slice was just taken, and a batch is cut off a list while its photos get their results:
`AnswersSplit` shows that those taken, failed and tried again make up the batch, `SettledAre` that results
and queue follow.

Facts that need an induction are proved without an induction rule, which the provers cannot
instantiate: a counterexample would have a least one (`NatLessThanWellFounded` and `WFMin`), and the
step before it contradicts. So it is shown that a list of links or thumbnails can be sorted and
what its sorted form is, and that the sizes of the blocks add up to where each starts (`Start`, a recursive
function). Sums are stated as cardinalities of sets of bytes (`HeldBytes`), for which finite-set theorems
exist. Each inductive invariant was checked by TLC on a small instance before it was proved.

Only model-checked: liveness (`UploadsEnd`, `DownloadsEnd`, `SessionProgress`, `FeedProgress`,
`AbortEndsAll`, `AbortEndsRequest`, `EverythingEnds`, `ClientProgress`, `ServicesProgress`: the prover
has no fairness and no `ENABLED`). Every invariant and every action property that a run checks is a
theorem, but for `StreamIsPositioned`, which the theorem proves under its two premises, and
`MissingIsGone`, which is false.

## Not modelled, and the plan

Most lines of the JS SDK's source tree are not behaviour: 39,400 of 65,600 are the generated API types
(`driveTypes.ts`, `coreTypes.ts`), and of the rest a good part is interfaces, index files, error
classes, telemetry and façades. The models stand for about 9,800 lines, which is most of the code that keeps
state or decides something, and 15% of the tree; raising that share much further would mean modelling
declarations.

Not modelled in the JS SDK: the client façades (they wire parts together and convert uids), the
diagnostic tool (sequential reads), bookmarks and abuse reports, timeline and revision listings (plain reads),
OpenPGP and SRP (external), transformers, telemetry and the caches the application provides. Not
modelled in the Rust client: the terminal loop and panes, the listing of children and the key chain,
the unlock cascade (`account.rs`), SRP login (a straight line whose content is cryptographic;
`Session` starts from its result), the cache (a map nothing reads back), serialisation types,
telemetry, rendering, command-line scripts, and the sharing, device and photo placeholders. The SDKs
in other languages are not used by either client.

Next, in this order:

1. An abstract file store that `Upload`, `Download`, `StreamUploader` and `FileDownloader` implement.
2. The Rust listing and panes; a second subscription on one cursor provider.

## Running

    tlc -config MCSession.cfg MCSession
    tlapm SessionProofs.tla

and likewise for the other configurations and proof modules. The longest runs (`sdk_client`,
`sdk_nodes`, `sdk_upload`, `sdk_download`) take two to four minutes each with two workers, the longest
proofs (`ServicesProofs`, `ClientProofs`) ten to twenty-five minutes, the others at most a few.
