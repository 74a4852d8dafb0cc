------------------------------ MODULE EventFeed ------------------------------
(***************************************************************************)
(* The drive event subscription of proton-drive-core (events.rs): one      *)
(* background loop polls a volume's event feed, gives each event to the    *)
(* host's listener and keeps the resume cursor, in memory and through the  *)
(* host's LatestEventIdProvider.                                           *)
(*                                                                         *)
(* A cursor is the number of the last event of the volume's log it covers. *)
(* The server (external) answers a poll with any prefix of what follows    *)
(* the cursor, with a resync order, with an error, or with a page that     *)
(* says More but does not advance.                                         *)
(***************************************************************************)
EXTENDS Integers, FiniteSets

CONSTANT MaxEvents   \* bound: events the server publishes

ASSUME MaxEventsAssumption == MaxEvents \in Nat

VARIABLES
    head,        \* server: newest event of the volume
    visible,     \* server: events of the log that a page lists
    gone,        \* server: the volume's events are no longer accessible
    feed_pc,     \* where the subscription's task stands
    feed_cancelled, \* the subscription's CancellationToken
    cursor,      \* the loop's cursor
    asked,       \* drain: request_cursor
    drain,       \* drain: its local cursor
    page,        \* drain: events of the page not yet dispatched
    more,        \* drain: the page's More flag
    persisted,   \* cursor kept by the LatestEventIdProvider
    delivered,   \* history: events the listener was given
    base         \* history: event up to which the host resynced

log_vars == <<head, visible, gone>>
page_vars == <<asked, drain, page, more>>
history == <<delivered, base>>
feed_vars == <<log_vars, feed_pc, feed_cancelled, cursor, page_vars, persisted, history>>

NoCursor == -1
EventIds == 1..MaxEvents
Cursor == 0..MaxEvents

Running == {"wait", "fetch", "dispatch", "persist"}

\* The visible events after cursor a, up to n.
Between(a, n) == {e \in visible : a < e /\ e <= n}

FeedInit ==
    /\ head = 0 /\ visible = {} /\ gone = FALSE
    /\ feed_pc = "off" /\ feed_cancelled = FALSE
    /\ cursor = 0 /\ asked = 0 /\ drain = 0 /\ page = {} /\ more = FALSE
    /\ persisted = NoCursor
    /\ delivered = {} /\ base = 0

-----------------------------------------------------------------------------
(* The server and the host.                                                *)

Publish ==
    /\ head < MaxEvents
    /\ head' = head + 1
    /\ visible' \in {visible, visible \cup {head + 1}}
    /\ UNCHANGED <<gone, feed_pc, feed_cancelled, cursor, page_vars, persisted, history>>

VolumeRemoved ==
    /\ ~gone
    /\ gone' = TRUE
    /\ UNCHANGED <<head, visible, feed_pc, feed_cancelled, cursor, page_vars, persisted, history>>

\* subscribe_drive_events spawns the task with a new token.
Subscribe ==
    /\ feed_pc = "off"
    /\ feed_pc' = "start"
    /\ feed_cancelled' = FALSE
    /\ UNCHANGED <<log_vars, cursor, page_vars, persisted, delivered, base>>

\* EventSubscription::cancel, or its Drop.
Cancel ==
    /\ feed_pc \in {"start"} \cup Running
    /\ ~feed_cancelled
    /\ feed_cancelled' = TRUE
    /\ UNCHANGED <<log_vars, feed_pc, cursor, page_vars, persisted, history>>

\* The process ends; the default provider forgets the cursor with it, a host's
\* own provider keeps it.
FeedProcessEnds ==
    /\ feed_pc # "off"
    /\ feed_pc' = "off"
    /\ persisted' \in {persisted, NoCursor}
    /\ UNCHANGED <<log_vars, feed_cancelled, cursor, page_vars, history>>

-----------------------------------------------------------------------------
(* resolve_start_cursor.                                                   *)

\* Mutant: a resumed loop starts from the newest event.
StartFromNewest ==
    /\ feed_pc = "start"
    /\ persisted # NoCursor
    /\ cursor' = head
    /\ feed_pc' = "wait"
    /\ UNCHANGED <<log_vars, feed_cancelled, page_vars, persisted, history>>

StartFromStored ==
    /\ feed_pc = "start"
    /\ persisted # NoCursor
    /\ cursor' = persisted
    /\ feed_pc' = "wait"
    /\ UNCHANGED <<log_vars, feed_cancelled, page_vars, persisted, history>>

StartFromLatest ==
    /\ feed_pc = "start"
    /\ persisted = NoCursor
    /\ ~gone
    /\ cursor' = head
    /\ persisted' = head
    /\ base' = head
    /\ feed_pc' = "wait"
    /\ UNCHANGED <<log_vars, feed_cancelled, page_vars, delivered>>

\* The provider or the server fails: the loop never starts.
StartFails ==
    /\ feed_pc = "start"
    /\ feed_pc' = "ended"
    /\ UNCHANGED <<log_vars, feed_cancelled, cursor, page_vars, persisted, history>>

-----------------------------------------------------------------------------
(* The loop and drain_volume_events.                                       *)

StopOnCancel ==
    /\ feed_pc = "wait"
    /\ feed_cancelled
    /\ feed_pc' = "ended"
    /\ UNCHANGED <<log_vars, feed_cancelled, cursor, page_vars, persisted, history>>

\* The poll interval is over; cancellation is checked once more.
PollTick ==
    /\ feed_pc = "wait"
    /\ ~feed_cancelled
    /\ feed_pc' = "fetch"
    /\ drain' = cursor
    /\ UNCHANGED <<log_vars, feed_cancelled, cursor, asked, page, more, persisted, history>>

\* A page without events: FastForward if the cursor advanced; the drain ends.
FetchEmpty ==
    /\ feed_pc = "fetch"
    /\ ~gone
    /\ \E n \in drain..head :
        /\ Between(drain, n) = {}
        /\ drain' = n
    /\ feed_pc' = "persist"
    /\ UNCHANGED <<log_vars, feed_cancelled, cursor, asked, page, more, persisted, history>>

\* Mutant: the page's cursor is stored before its events are dispatched.
FetchPageStoresFirst ==
    /\ feed_pc = "fetch"
    /\ ~gone
    /\ \E n \in drain..head :
        /\ Between(drain, n) # {}
        /\ page' = Between(drain, n)
        /\ asked' = drain
        /\ drain' = n
        /\ persisted' = n
        /\ more' = (n < head)
    /\ feed_pc' = "dispatch"
    /\ UNCHANGED <<log_vars, feed_cancelled, cursor, history>>

\* A page with events; More tells whether the log goes on after it.
FetchPage ==
    /\ feed_pc = "fetch"
    /\ ~gone
    /\ \E n \in drain..head :
        /\ Between(drain, n) # {}
        /\ page' = Between(drain, n)
        /\ asked' = drain
        /\ drain' = n
        /\ more' = (n < head)
    /\ feed_pc' = "dispatch"
    /\ UNCHANGED <<log_vars, feed_cancelled, cursor, persisted, history>>

\* A misbehaving server: events and More, but the cursor it was asked with.
FetchStuckPage ==
    /\ feed_pc = "fetch"
    /\ ~gone
    /\ \E n \in drain..head :
        /\ Between(drain, n) # {}
        /\ page' = Between(drain, n)
    /\ asked' = drain
    /\ more' = TRUE
    /\ feed_pc' = "dispatch"
    /\ UNCHANGED <<log_vars, feed_cancelled, cursor, drain, persisted, history>>

\* Refresh: the listener gets TreeRefresh and the drain ends.
FetchRefresh ==
    /\ feed_pc = "fetch"
    /\ ~gone
    /\ drain' = head
    /\ base' = head
    /\ feed_pc' = "persist"
    /\ UNCHANGED <<log_vars, feed_cancelled, cursor, asked, page, more, persisted,
                   delivered>>

\* NotFound: TreeRemoval, and the loop is over.
FetchNotFound ==
    /\ feed_pc = "fetch"
    /\ gone
    /\ feed_pc' = "ended"
    /\ UNCHANGED <<log_vars, feed_cancelled, cursor, page_vars, persisted, history>>

\* Any other error: the drain's cursor is lost, the loop backs off.
FetchFails ==
    /\ feed_pc = "fetch"
    /\ feed_pc' = "wait"
    /\ UNCHANGED <<log_vars, feed_cancelled, cursor, page_vars, persisted, history>>

\* listener.on_event for the next event of the page, in order.
Dispatch ==
    /\ feed_pc = "dispatch"
    /\ \E e \in page :
        /\ \A f \in page : e <= f
        /\ delivered' = delivered \cup {e}
        /\ page' = page \ {e}
    /\ UNCHANGED <<log_vars, feed_pc, feed_cancelled, cursor, asked, drain, more, persisted, base>>

\* Mutant: a page that says More ends the poll before its cursor is kept.
PageDoneForgetsCursor ==
    /\ feed_pc = "dispatch"
    /\ page = {}
    /\ feed_pc' = IF more /\ drain # asked THEN "wait" ELSE "persist"
    /\ UNCHANGED <<log_vars, feed_cancelled, cursor, page_vars, persisted, history>>

\* After a page: go on while the server says More and the cursor advanced.
PageDone ==
    /\ feed_pc = "dispatch"
    /\ page = {}
    /\ feed_pc' = IF more /\ drain # asked THEN "fetch" ELSE "persist"
    /\ UNCHANGED <<log_vars, feed_cancelled, cursor, page_vars, persisted, history>>

\* Mutant: the loop goes on one event too late.
PersistOffByOne ==
    /\ feed_pc = "persist"
    /\ cursor' = drain + 1
    /\ persisted' \in {persisted, drain}
    /\ feed_pc' = "wait"
    /\ UNCHANGED <<log_vars, feed_cancelled, page_vars, history>>

\* The drain is over: the loop takes its cursor; provider.set is best-effort.
Persist ==
    /\ feed_pc = "persist"
    /\ cursor' = drain
    /\ persisted' \in {persisted, drain}
    /\ feed_pc' = "wait"
    /\ UNCHANGED <<log_vars, feed_cancelled, page_vars, history>>

-----------------------------------------------------------------------------

Fetch == FetchEmpty \/ FetchPage \/ FetchStuckPage \/ FetchRefresh
            \/ FetchNotFound \/ FetchFails

Start == StartFromStored \/ StartFromLatest \/ StartFails

FeedTask == Start \/ StopOnCancel \/ PollTick \/ Fetch \/ Dispatch \/ PageDone \/ Persist

FeedNext == Publish \/ VolumeRemoved \/ Subscribe \/ Cancel \/ FeedProcessEnds \/ FeedTask

FeedSpec == FeedInit /\ [][FeedNext]_feed_vars

\* The task keeps running while its process does.
FeedFairSpec == FeedSpec /\ WF_feed_vars(FeedTask)

-----------------------------------------------------------------------------
(* Properties.                                                             *)

FeedTypeOK ==
    /\ head \in Cursor
    /\ visible \in SUBSET EventIds
    /\ gone \in BOOLEAN
    /\ feed_pc \in {"off", "start", "ended"} \cup Running
    /\ feed_cancelled \in BOOLEAN
    /\ cursor \in Cursor /\ asked \in Cursor /\ drain \in Cursor
    /\ page \in SUBSET EventIds
    /\ more \in BOOLEAN
    /\ persisted \in Cursor \cup {NoCursor}
    /\ delivered \in SUBSET EventIds
    /\ base \in Cursor

\* Where the feed goes on from: the loop's cursor, or the stored one when no
\* loop runs.
ResumePoint == IF feed_pc \in Running THEN cursor ELSE persisted

Promise == INSTANCE EventDelivery WITH resume <- ResumePoint

\* No event is skipped: everything up to the loop's cursor and everything up
\* to the stored cursor has reached the listener or is covered by a resync,
\* through failed polls, unsaved cursors, crashes and restarts.
NoEventSkipped == Promise!Covered(ResumePoint) /\ Promise!Covered(persisted)

\* The listener never has an event without having all earlier ones, however
\* often pages are fetched again.
NoGap ==
    \A e \in delivered : \A f \in visible :
        f < e => f <= base \/ f \in delivered

\* What holds between the steps of a poll and makes the two above inductive:
\* until a page is dispatched, its events are all that the drain's cursor
\* covers and the host does not know.
FeedInv ==
    /\ visible \subseteq 1..head /\ delivered \subseteq visible
    /\ base <= head /\ cursor <= head /\ drain <= head /\ persisted <= head
    /\ NoGap
    /\ Promise!Covered(persisted)
    /\ feed_pc \in Running => Promise!Covered(cursor)
    /\ feed_pc \in {"fetch", "persist"} => Promise!Covered(drain)
    /\ feed_pc = "dispatch" =>
        /\ page \subseteq visible
        /\ \A f \in visible : f <= drain => Promise!Known(f) \/ f \in page
        /\ \A e \in page : \A f \in visible :
              f < e => Promise!Known(f) \/ f \in page

\* The loop implements at-least-once, in-order delivery.
DeliversAtLeastOnce == Promise!Spec

\* Once cancelled, the task ends: a server that keeps saying More without
\* advancing cannot hold it in the drain.
CancelEndsTask == feed_cancelled ~> (feed_pc \in {"off", "ended"} \/ ~feed_cancelled)

\* A server asked again and again with one cursor that events follow lists some
\* of them now and then. Nothing else is asked of it: it may answer a caught-up
\* feed with empty pages for ever, fail, repeat a page or never order a resync.
ServerLists == \A c \in Cursor : SF_feed_vars(drain = c /\ FetchPage)

\* With such a server every event reaches the listener or is covered by a
\* resync, through failed polls and pages that do not advance, unless the
\* subscription ends or the volume is gone first.
EventsArrive ==
    ServerLists =>
        \A e \in EventIds :
            (e \in visible /\ feed_pc \in Running) ~>
                (e \in delivered \/ e <= base \/ gone \/ feed_pc \notin Running)

\* Liveness: a cancelled subscription ends, and one that is not delivers every event.
FeedProgress == CancelEndsTask /\ EventsArrive
=============================================================================
