------------------------------ MODULE PhotoAlbums -----------------------------
(***************************************************************************)
(* Photos and albums of the JS SDK (js/sdk/src/internal/photos): photos    *)
(* added to an album and saved to the timeline in batches, with one retry  *)
(* when the server misses related photos; photos removed from an album;    *)
(* an album deleted, its photos saved first; tags and favourites.          *)
(*                                                                         *)
(* One call is followed.  A photo has related photos (bursts, live photos) *)
(* which must go with it; the client knows of those its cached node names. *)
(* Meanwhile other clients add related photos, put photos into the album   *)
(* and delete photos.  A photo of another volume is copied; the other ones *)
(* are linked or moved.                                                    *)
(***************************************************************************)
EXTENDS Integers, Sequences, FiniteSets, SequencesExt, FiniteSetsExt

CONSTANTS
    AlbumCases,     \* the calls made: who asks for what, and what there is before
    LoadSize,       \* BATCH_LOADING_SIZE
    BatchLimit,     \* ADD_PHOTOS_BATCH_SIZE
    MaxAlbumFaults, \* bound: requests whose answer does not come
    MaxMeanwhile    \* bound: steps of other clients

PhotosOf(c) == ToSet(c.asked) \cup c.album \cup c.timeline \cup c.elsewhere

\* A caller names each photo once, and no tag both to add and to remove.
ASSUME PhotoAlbumsConstants ==
    /\ \A c \in AlbumCases :
          /\ c.op \in {"add", "save", "remove", "delete", "tag"}
          /\ c.asked \in Seq(ToSet(c.asked))
          /\ \A i, j \in DOMAIN c.asked : i # j => c.asked[i] # c.asked[j]
          /\ c.op = "delete" => c.asked = <<>>
          /\ IsFiniteSet(c.album) /\ IsFiniteSet(c.timeline) /\ IsFiniteSet(c.elsewhere)
          /\ c.tagsToAdd \cap c.tagsToRemove = {}
    /\ LoadSize \in Nat \ {0} /\ BatchLimit \in Nat \ {0}
    /\ MaxAlbumFaults \in Nat /\ MaxMeanwhile \in Nat

VARIABLES
    albumCase,   \* the call
    stage,       \* "begin", "work", "delete", "saving", "again", "ended" or "thrown"
    inAlbum,     \* photos of the volume in the album (in the end if it is deleted), on the server
    inTimeline,  \* photos of the volume in the timeline, on the server
    copies,      \* [photo -> copies made of it in the target]
    needs,       \* [photo -> related photos, on the server]
    deleted,     \* photos deleted by others
    albumGone,   \* the album is deleted
    tags,        \* [photo -> tags, on the server]
    view,        \* [photo -> cached node: fresh, parent, related]
    sameQueue, otherQueue,   \* photos waiting: same volume and different volume
    payloads,    \* photos prepared: [photo, related]
    retried,     \* retriedPhotoUids
    results,     \* [photo -> results given to the caller]
    albumFaults, meanwhile

photoVars == <<albumCase, stage, inAlbum, inTimeline, copies, needs, deleted, albumGone, tags, view,
               sameQueue, otherQueue, payloads, retried, results, albumFaults, meanwhile>>

AlbumServer == <<inAlbum, inTimeline, copies, albumGone, tags>>
Queues == <<sameQueue, otherQueue, payloads, retried>>

AllPhotos == DOMAIN copies
Foreign(p) == p \in albumCase.foreign
ParentOf(p) == IF p \in inTimeline THEN "root" ELSE IF p \in inAlbum THEN "album" ELSE "elsewhere"

\* The node as the server has it.
Loaded(p) == [fresh |-> TRUE, parent |-> ParentOf(p), related |-> needs[p]]

PhotosInit ==
    /\ albumCase \in AlbumCases
    /\ stage = "begin"
    /\ inAlbum = albumCase.album /\ inTimeline = albumCase.timeline
    /\ copies = [p \in PhotosOf(albumCase) |-> 0]
    /\ needs = [p \in PhotosOf(albumCase) |-> albumCase.related]
    /\ deleted = {} /\ albumGone = FALSE
    /\ tags = [p \in PhotosOf(albumCase) |-> albumCase.tagsToRemove]
    /\ view = [p \in PhotosOf(albumCase) |-> [Loaded(p) EXCEPT !.related = {}]]
    /\ sameQueue = <<>> /\ otherQueue = <<>> /\ payloads = <<>> /\ retried = {}
    /\ results = [p \in PhotosOf(albumCase) |-> <<>>]
    /\ albumFaults = 0 /\ meanwhile = 0

(***************************************************************************)
(* Other clients.                                                          *)
(***************************************************************************)
Meanwhile ==
    /\ meanwhile < MaxMeanwhile /\ meanwhile' = meanwhile + 1
    /\ stage \notin {"begin", "ended", "thrown"}
    /\ UNCHANGED <<albumCase, stage, copies, albumGone, tags, view, Queues, results, albumFaults>>

RelatedAppears(p) ==
    /\ Meanwhile
    /\ \E r \in albumCase.late : r \notin needs[p] /\ needs' = [needs EXCEPT ![p] = @ \cup {r}]
    /\ UNCHANGED <<inAlbum, inTimeline, deleted>>

PhotoDeleted(p) ==
    /\ Meanwhile /\ p \notin deleted
    /\ deleted' = deleted \cup {p} /\ inAlbum' = inAlbum \ {p} /\ inTimeline' = inTimeline \ {p}
    /\ UNCHANGED needs

\* Nobody puts a photo in that the call itself takes out or tags.
AddedByOther(p) ==
    /\ Meanwhile /\ ~albumGone /\ ~Foreign(p) /\ p \notin inAlbum \cup inTimeline \cup deleted
    /\ albumCase.op \in {"remove", "tag"} => p \notin ToSet(albumCase.asked)
    /\ inAlbum' = inAlbum \cup {p}
    /\ UNCHANGED <<needs, deleted, inTimeline>>

(***************************************************************************)
(* Results and the cache.                                                  *)
(***************************************************************************)
Report(ps, ok) == [p \in AllPhotos |-> IF p \in ps THEN Append(results[p], ok) ELSE results[p]]

\* notifyNodeChanged
Changed(ps) == [p \in AllPhotos |-> IF p \in ps THEN [view[p] EXCEPT !.fresh = FALSE] ELSE view[p]]

\* Another part of the application reads a node that is marked as stale.
NodeRead(p) ==
    /\ ~view[p].fresh /\ p \notin deleted
    /\ view' = [view EXCEPT ![p] = Loaded(p)]
    /\ UNCHANGED <<albumCase, stage, AlbumServer, needs, deleted, Queues, results, albumFaults, meanwhile>>

Item(p) == [photo |-> p, extra |-> {}]
ItemsOf(photos) == [i \in DOMAIN photos |-> Item(photos[i])]

\* The items of a list that are in a set, in their order.
Kept(items, xs) ==
    LET kept[i \in 0 .. Len(items)] ==
            IF i = 0 THEN <<>> ELSE IF items[i] \in xs THEN Append(kept[i - 1], items[i]) ELSE kept[i - 1]
    IN kept[Len(items)]

(***************************************************************************)
(* The beginning of a call.                                                *)
(***************************************************************************)
SplitByVolume(ps) ==
    /\ sameQueue' = Kept(ItemsOf(ps), {x \in ToSet(ItemsOf(ps)) : ~Foreign(x.photo)})
    /\ otherQueue' = Kept(ItemsOf(ps), {x \in ToSet(ItemsOf(ps)) : Foreign(x.photo)})

BeginAlbumCall ==
    /\ stage = "begin"
    /\ stage' = IF albumCase.op = "delete" THEN "delete" ELSE "work"
    /\ CASE albumCase.op = "add" -> SplitByVolume(albumCase.asked)
         [] albumCase.op = "delete" -> UNCHANGED <<sameQueue, otherQueue>>
         [] OTHER -> /\ sameQueue' = ItemsOf(albumCase.asked)
                     /\ UNCHANGED otherQueue
    /\ UNCHANGED <<albumCase, AlbumServer, needs, deleted, view, payloads, retried, results, albumFaults, meanwhile>>

(***************************************************************************)
(* PhotoTransferPayloadBuilder: the next photos of the queue are loaded    *)
(* and encrypted for the target with their related photos.  Those that do  *)
(* not exist, are in the target already or cannot be encrypted fail.       *)
(***************************************************************************)
Target == IF albumCase.op = "add" THEN "album" ELSE "root"

\* iterateNodes: a fresh cached node is used as it is.
Seen(p) == IF view[p].fresh THEN view[p] ELSE Loaded(p)

CannotPrepare(p) ==
    \/ p \in deleted /\ ~view[p].fresh
    \/ Seen(p).parent = Target
    \/ p \in albumCase.noDigest

\* Related photos that cannot be loaded are left out.
PayloadOf(x) == [photo |-> x.photo, related |-> (Seen(x.photo).related \cup x.extra) \ albumCase.unreadable]

\* saveToTimeline sends the photos of the same volume first.
Prepare(items) ==
    LET bad == {x \in ToSet(items) : CannotPrepare(x.photo)}
        own == {x \in ToSet(items) : ~Foreign(x.photo)}
        good == Kept(items, own \ bad) \o Kept(items, ToSet(items) \ (own \cup bad))
    IN
    /\ payloads' = [i \in DOMAIN good |-> PayloadOf(good[i])]
    /\ results' = Report({x.photo : x \in bad}, "failed")
    /\ view' = [p \in AllPhotos |-> IF p \in {x.photo : x \in ToSet(items)} \ deleted THEN Seen(p) ELSE view[p]]
    \* deleteAlbum throws the error of the first photo that could not be saved.
    /\ stage' = IF stage = "saving" /\ bad # {} THEN "thrown" ELSE stage

Transfers == albumCase.op \in {"add", "save", "delete"}

PreparePhotoPayloads ==
    LET queue == IF sameQueue # <<>> THEN sameQueue ELSE otherQueue
        n == IF Len(queue) < LoadSize THEN Len(queue) ELSE LoadSize
    IN
    /\ stage \in {"work", "saving"} /\ Transfers /\ payloads = <<>> /\ n > 0
    /\ Prepare(SubSeq(queue, 1, n))
    /\ IF sameQueue # <<>> THEN sameQueue' = SubSeq(queue, n + 1, Len(queue)) /\ UNCHANGED otherQueue
                           ELSE otherQueue' = SubSeq(queue, n + 1, Len(queue)) /\ UNCHANGED sameQueue
    /\ UNCHANGED <<albumCase, AlbumServer, needs, deleted, retried, albumFaults, meanwhile>>

(***************************************************************************)
(* The server: what becomes of one photo of a request.                     *)
(***************************************************************************)
Missing(x) == needs[x.photo] \ x.related
Answer(x) == IF x.photo \in deleted THEN "error" ELSE IF Missing(x) # {} THEN "missing" ELSE "ok"
Taken(xs) == {x.photo : x \in {y \in xs : Answer(y) = "ok"}}

\* add-multiple: the photos are linked to the album.
PostAddMultiple(xs) == inAlbum' = inAlbum \cup Taken(xs) /\ UNCHANGED <<inTimeline, copies, albumGone, tags>>

\* transfer-multiple: the photos are moved to the timeline.
PutTransferMultiple(xs) == inTimeline' = inTimeline \cup Taken(xs) /\ UNCHANGED <<inAlbum, copies, albumGone, tags>>

PostCopy(x) ==
    /\ copies' = [copies EXCEPT ![x.photo] = IF Answer(x) = "ok" THEN @ + 1 ELSE @]
    /\ UNCHANGED <<inAlbum, inTimeline, albumGone, tags>>

(***************************************************************************)
(* Photos of the same volume go in batches of at most BatchLimit, counting *)
(* the related ones, unless one alone is larger.                           *)
(***************************************************************************)
Load(n) == MapThenSumSet(LAMBDA i : 1 + Cardinality(payloads[i].related), 1 .. n)

\* The number of payloads in the next batch.
CreateBatch ==
    Max({n \in DOMAIN payloads : /\ (\A i \in 1 .. n : ~Foreign(payloads[i].photo))
                                  /\ (n = 1 \/ Load(n) <= BatchLimit)})

\* Mutant: a photo is tried as long as related photos are missing.
MayRetryAlways(p) == TRUE

\* createRetryQueueItem: once per photo.
MayRetry(p) == p \notin retried

RetryItem(x) == [photo |-> x.photo, extra |-> Missing(x)]

Again(xs) == {x \in xs : Answer(x) = "missing" /\ MayRetry(x.photo)}

FailedIn(xs) == {x.photo : x \in {y \in xs \ Again(xs) : Answer(y) # "ok"}}

\* The answers that are looked at: all of them, except that deleteAlbum throws at the
\* first photo that failed, which also ends the generator that reports the photos.
FirstFailure(batch) == Min({i \in DOMAIN batch : batch[i].photo \in FailedIn(ToSet(batch))})

LookedAt(batch) ==
    IF stage = "saving" /\ FailedIn(ToSet(batch)) # {} THEN SubSeq(batch, 1, FirstFailure(batch)) ELSE batch

\* What is done with them: those that miss related photos are queued again, once; the
\* others are reported, and the cache is told of those that went.
Settle(batch) ==
    LET seen == LookedAt(batch)
        xs == ToSet(seen)
        again == Kept(seen, Again(xs))
        failed == FailedIn(xs)
    IN
    /\ retried' = retried \cup {x.photo : x \in Again(xs)}
    /\ sameQueue' = sameQueue \o [i \in DOMAIN again |-> RetryItem(again[i])]
    /\ results' = [p \in AllPhotos |->
                     results[p] \o (IF p \in failed THEN <<"failed">> ELSE <<>>) \o (IF p \in Taken(xs) THEN <<"ok">> ELSE <<>>)]
    /\ view' = Changed(Taken(xs))
    /\ stage' = IF stage = "saving" /\ failed # {} THEN "thrown" ELSE stage

SameVolume == payloads # <<>> /\ ~Foreign(payloads[1].photo)

\* addPhotosToAlbum and transferPhotos.  A request that fails ends the call, executed
\* or not; the server refuses one that is too large.
SendBatch ==
    LET n == CreateBatch
        batch == SubSeq(payloads, 1, n)
        effect == IF albumCase.op = "add" THEN PostAddMultiple(ToSet(batch)) ELSE PutTransferMultiple(ToSet(batch))
    IN
    /\ stage \in {"work", "saving"} /\ Transfers /\ SameVolume
    /\ payloads' = SubSeq(payloads, n + 1, Len(payloads))
    /\ IF n > 1 /\ ~(Load(n) <= BatchLimit)
         THEN /\ stage' = "thrown"
              /\ UNCHANGED <<AlbumServer, retried, sameQueue, results, view, albumFaults>>
         ELSE \/ effect /\ Settle(batch) /\ UNCHANGED albumFaults
              \/ /\ albumFaults < MaxAlbumFaults /\ albumFaults' = albumFaults + 1
                 /\ stage' = "thrown"
                 /\ effect \/ UNCHANGED AlbumServer
                 /\ UNCHANGED <<retried, sameQueue, results, view>>
    /\ UNCHANGED <<albumCase, needs, deleted, otherQueue, meanwhile>>

\* copyPhoto: one request for one photo and its related ones; an error is its result.
\* (An album that is deleted has photos of its own volume only.)
CopyPhoto ==
    LET x == payloads[1] IN
    /\ stage = "work" /\ Transfers /\ payloads # <<>> /\ ~SameVolume
    /\ payloads' = Tail(payloads)
    /\ \/ /\ PostCopy(x)
          /\ IF Answer(x) = "missing" /\ MayRetry(x.photo)
               THEN /\ retried' = retried \cup {x.photo}
                    /\ IF albumCase.op = "add"
                         THEN otherQueue' = Append(otherQueue, RetryItem(x)) /\ UNCHANGED sameQueue
                         ELSE sameQueue' = Append(sameQueue, RetryItem(x)) /\ UNCHANGED otherQueue
                    /\ UNCHANGED results
               ELSE /\ results' = Report({x.photo}, IF Answer(x) = "ok" THEN "ok" ELSE "failed")
                    /\ UNCHANGED <<retried, sameQueue, otherQueue>>
          /\ UNCHANGED albumFaults
       \/ /\ albumFaults < MaxAlbumFaults /\ albumFaults' = albumFaults + 1
          /\ PostCopy(x) \/ UNCHANGED AlbumServer
          /\ results' = Report({x.photo}, "failed")
          /\ UNCHANGED <<retried, sameQueue, otherQueue>>
    /\ UNCHANGED <<albumCase, stage, needs, deleted, view, meanwhile>>

\* addPhotos tells the cache in the end, whatever happened, that the album changed.
TransferEnds ==
    /\ stage \in {"work", "saving"} /\ Transfers
    /\ payloads = <<>> /\ sameQueue = <<>> /\ otherQueue = <<>>
    /\ stage' = IF stage = "saving" THEN "again" ELSE "ended"
    /\ UNCHANGED <<albumCase, AlbumServer, needs, deleted, view, Queues, results, albumFaults, meanwhile>>

(***************************************************************************)
(* removePhotosFromAlbum: batches that succeed or fail as a whole.         *)
(***************************************************************************)
PostRemoveMultiple(ps) == inAlbum' = inAlbum \ ps

RemovePhotos ==
    LET n == IF Len(sameQueue) < BatchLimit THEN Len(sameQueue) ELSE BatchLimit
        ps == {sameQueue[i].photo : i \in 1 .. n}
    IN
    /\ stage = "work" /\ albumCase.op = "remove"
    /\ IF n = 0 THEN stage' = "ended" /\ UNCHANGED <<inAlbum, view, results, sameQueue, albumFaults>>
       ELSE /\ sameQueue' = SubSeq(sameQueue, n + 1, Len(sameQueue))
            /\ \/ /\ PostRemoveMultiple(ps)
                  /\ view' = Changed(ps) /\ results' = Report(ps, "ok") /\ UNCHANGED albumFaults
               \/ /\ albumFaults < MaxAlbumFaults /\ albumFaults' = albumFaults + 1
                  /\ PostRemoveMultiple(ps) \/ UNCHANGED inAlbum
                  /\ results' = Report(ps, "failed") /\ UNCHANGED view
            /\ UNCHANGED stage
    /\ UNCHANGED <<albumCase, inTimeline, copies, needs, deleted, albumGone, tags, otherQueue, payloads, retried, meanwhile>>

(***************************************************************************)
(* deleteAlbum.  The server refuses while there are photos that are only   *)
(* in the album, and names them, unless they may be deleted with it.       *)
(***************************************************************************)
OnlyInAlbum == inAlbum \ inTimeline

DeleteRefused(force) == OnlyInAlbum # {} /\ ~force

\* Mutant: the second attempt deletes what is left in the album.
DeleteForceAgain == stage = "again" \/ albumCase.force

DeleteForce == albumCase.force

DeleteAlbum ==
    /\ stage \in {"delete", "again"}
    /\ \/ /\ ~DeleteRefused(DeleteForce)
          /\ albumGone' = TRUE
          /\ stage' = "ended"
          /\ UNCHANGED <<sameQueue, albumFaults>>
       \* The photos are saved first, then the album is deleted; the second refusal is thrown.
       \/ /\ DeleteRefused(DeleteForce)
          /\ IF stage = "delete" /\ albumCase.save
               THEN /\ \E named \in SetToSeqs(OnlyInAlbum) : sameQueue' = ItemsOf(named)
                    /\ stage' = "saving"
               ELSE stage' = "thrown" /\ UNCHANGED sameQueue
          /\ UNCHANGED <<albumGone, albumFaults>>
       \/ /\ albumFaults < MaxAlbumFaults /\ albumFaults' = albumFaults + 1
          /\ stage' = "thrown"
          /\ albumGone' \in {FALSE, ~DeleteRefused(DeleteForce)}
          /\ UNCHANGED sameQueue
    /\ UNCHANGED <<albumCase, inAlbum, inTimeline, copies, needs, deleted, tags, view, otherQueue, payloads, retried,
                   results, meanwhile>>

(***************************************************************************)
(* updatePhotos: the favourite first (which saves the photo to the         *)
(* timeline), then tags are added, then removed; a request that fails ends *)
(* the photo's update.  The photo's place in it is in its payload.         *)
(***************************************************************************)
Tagging == stage = "work" /\ albumCase.op = "tag"

\* The requests of one photo, in order.
TagSteps == <<"favourite", "add", "remove">>

\* Only what there is to do is requested.
TagStepsNeeded ==
    Kept(TagSteps, {step \in ToSet(TagSteps) :
                       CASE step = "favourite" -> "favourite" \in albumCase.tagsToAdd
                         [] step = "add" -> albumCase.tagsToAdd \ {"favourite"} # {}
                         [] step = "remove" -> albumCase.tagsToRemove # {}})

\* The payload for a favourite is prepared unless the photo is in the timeline.
PrepareUpdate ==
    LET p == sameQueue[1].photo
        ok == "favourite" \notin albumCase.tagsToAdd \/ ~CannotPrepare(p) \/ Seen(p).parent = "root"
    IN
    /\ Tagging /\ payloads = <<>> /\ sameQueue # <<>>
    /\ sameQueue' = Tail(sameQueue)
    /\ payloads' = IF ok THEN <<[photo |-> p, related |-> {}, left |-> TagStepsNeeded]>> ELSE <<>>
    /\ results' = IF ok THEN results ELSE Report({p}, "failed")
    /\ UNCHANGED <<albumCase, stage, AlbumServer, needs, deleted, view, otherQueue, retried, albumFaults, meanwhile>>

\* What the requests do on the server: a favourite is in the timeline.
PostFavorite(p) ==
    /\ tags' = [tags EXCEPT ![p] = @ \cup {"favourite"}]
    /\ inTimeline' = inTimeline \cup {p}

PostTags(p) == tags' = [tags EXCEPT ![p] = @ \cup (albumCase.tagsToAdd \ {"favourite"})] /\ UNCHANGED inTimeline

DeleteTags(p) == tags' = [tags EXCEPT ![p] = @ \ albumCase.tagsToRemove] /\ UNCHANGED inTimeline

TagEffect(p, step) ==
    /\ CASE step = "favourite" -> PostFavorite(p) [] step = "add" -> PostTags(p) [] step = "remove" -> DeleteTags(p)
    /\ UNCHANGED <<inAlbum, copies, albumGone>>

UpdateRequest ==
    LET x == payloads[1]
        step == Head(x.left)
    IN
    /\ Tagging /\ payloads # <<>> /\ x.left # <<>>
    /\ \/ /\ x.photo \notin deleted
          /\ TagEffect(x.photo, step)
          /\ payloads' = <<[x EXCEPT !.left = Tail(@)]>>
          /\ UNCHANGED <<results, albumFaults>>
       \/ /\ \/ x.photo \in deleted /\ UNCHANGED <<AlbumServer, albumFaults>>
             \/ /\ albumFaults < MaxAlbumFaults /\ albumFaults' = albumFaults + 1
                /\ (x.photo \notin deleted /\ TagEffect(x.photo, step)) \/ UNCHANGED AlbumServer
          /\ payloads' = <<>> /\ results' = Report({x.photo}, "failed")
    /\ UNCHANGED <<albumCase, stage, needs, deleted, view, sameQueue, otherQueue, retried, meanwhile>>

PhotoUpdated ==
    /\ Tagging /\ payloads # <<>> /\ payloads[1].left = <<>>
    /\ payloads' = <<>>
    /\ results' = Report({payloads[1].photo}, "ok") /\ view' = Changed({payloads[1].photo})
    /\ UNCHANGED <<albumCase, stage, AlbumServer, needs, deleted, sameQueue, otherQueue, retried, albumFaults, meanwhile>>

UpdateEnds ==
    /\ Tagging /\ payloads = <<>> /\ sameQueue = <<>>
    /\ stage' = "ended"
    /\ UNCHANGED <<albumCase, AlbumServer, needs, deleted, view, Queues, results, albumFaults, meanwhile>>

AlbumStep ==
    \/ BeginAlbumCall \/ PreparePhotoPayloads \/ SendBatch \/ CopyPhoto \/ TransferEnds
    \/ RemovePhotos \/ DeleteAlbum \/ PrepareUpdate \/ UpdateRequest
    \/ PhotoUpdated \/ UpdateEnds

PhotosNext ==
    \/ AlbumStep
    \/ \E p \in AllPhotos : RelatedAppears(p) \/ PhotoDeleted(p) \/ AddedByOther(p) \/ NodeRead(p)

PhotosSpec == PhotosInit /\ [][PhotosNext]_photoVars

-----------------------------------------------------------------------------
(* Properties.                                                             *)

\* Type invariant.
PhotosTypeOK ==
    /\ inAlbum \cup inTimeline \cup deleted \cup retried \subseteq AllPhotos
    /\ \A p \in AllPhotos : copies[p] \in Nat /\ results[p] \in Seq({"ok", "failed"})

\* Every photo asked for has one result when the call ends, and never two, however
\* many batches, retries and errors there were; an album deletion reports none.
OneResultPerPhoto ==
    \A i \in DOMAIN albumCase.asked :
        /\ Len(results[albumCase.asked[i]]) <= 1
        /\ stage = "ended" => Len(results[albumCase.asked[i]]) = 1

Done(p) ==
    CASE albumCase.op = "add" -> IF Foreign(p) THEN copies[p] = 1 ELSE p \in inAlbum
      [] albumCase.op = "save" -> IF Foreign(p) THEN copies[p] = 1 ELSE p \in inTimeline
      [] albumCase.op = "remove" -> p \notin inAlbum
      [] albumCase.op = "tag" -> albumCase.tagsToAdd \subseteq tags[p] /\ albumCase.tagsToRemove \cap tags[p] = {}
      [] OTHER -> TRUE

\* A photo reported as done is done, once; one of another volume that is reported as
\* failed was not copied unless an answer was lost; and no tag is taken away before
\* the new ones are there.
ResultsAreTrue ==
    \A p \in AllPhotos :
        /\ (results[p] = <<"ok">> /\ p \notin deleted) => Done(p)
        /\ (results[p] = <<"failed">> /\ albumFaults = 0) => copies[p] = 0
        /\ copies[p] <= 1
        /\ (albumCase.op = "tag" /\ ~albumCase.tagsToRemove \subseteq tags[p]) => albumCase.tagsToAdd \subseteq tags[p]

\* The call throws only when a request failed: a photo that cannot be added is a
\* result, and the batches are ones the server takes.
ThrowsOnlyOnFailure == (stage = "thrown" /\ albumCase.op # "delete") => albumFaults > 0

\* Deleting an album without force loses no photo, whatever others add to it while its
\* photos are saved.
DeletedAlbumIsSaved ==
    (albumGone /\ ~albumCase.force) => inAlbum \subseteq inTimeline

\* A photo the caller was told is done is not cached where it was before, whatever the
\* call; and when a call has ended without an error of its own, no photo of the
\* timeline is, also not those that were saved for the deletion of an album.  A
\* request whose answer is lost, an update that fails after its first request, and a
\* deletion that throws at one photo of a batch leave others cached where they were.
ViewFollows ==
    \A p \in AllPhotos \ deleted : view[p].fresh =>
        /\ results[p] = <<"ok">> => view[p].parent = ParentOf(p) \/ Foreign(p)
        /\ stage = "ended" /\ albumFaults = 0 /\ p \in inTimeline => view[p].parent = "root"

AlbumCallEnded == stage \in {"ended", "thrown"}
=============================================================================
