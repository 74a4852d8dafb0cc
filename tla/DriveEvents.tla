----------------------------- MODULE DriveEvents -----------------------------
(***************************************************************************)
(* The event service of the JS SDK (js/sdk/src/internal/events): how       *)
(* subscriptions create event managers, how a manager polls the events of  *)
(* a volume or of the account (core), and how it tells its listeners.      *)
(*                                                                         *)
(* The server keeps a log; the id of an event is its place in the log.     *)
(* Entries that do not concern Drive are "silent".  The first listener of  *)
(* every manager is the SDK's own cache handler, which never throws.       *)
(***************************************************************************)
EXTENDS Integers, Sequences, FiniteSets, SequencesExt

CONSTANTS
    NSubscribers,    \* number of listeners of the application
    EventPageSize,   \* entries of one answer
    MaxEvents,       \* bound: entries of the log
    MaxFailures      \* bound: failing requests, throwing listeners, events or access lost

ASSUME DriveEventsConstants ==
    /\ NSubscribers \in Nat \ {0}
    /\ EventPageSize \in Nat \ {0} /\ MaxEvents \in Nat /\ MaxFailures \in Nat

VARIABLES
    watched,     \* the manager whose polls are followed: managers share only the log
    scope,       \* "volume" or "core": which specialised manager answers getEvents
    log,         \* the server's log
    expired,     \* ids up to this one can no longer be read
    revoked,     \* the volume is not accessible any more
    persisted,   \* what latestEventIdProvider returns, or Undefined
    manager,     \* [1..N -> event manager]
    created,     \* number of event managers made
    current,     \* the manager registered for the scope, 0 if none
    subscriber,  \* [Subscribers -> state of the subscription and its manager]
    eventFailures, \* failures so far
    seen,        \* history: [manager -> [listener -> id it was last told]]
    told,        \* history: [manager -> ids told to all its listeners]
    skipped      \* history: [manager -> listeners a dispose made it skip]

eventsVars == <<watched, scope, log, expired, revoked, persisted, manager, created, current,
                subscriber, eventFailures, seen, told, skipped>>

Subscribers == 1 .. NSubscribers
Managers == 1 .. NSubscribers
Cache == 0           \* NodesEventsHandler and the other handlers of the SDK
Listeners == Subscribers \cup {Cache}
Undefined == -1     \* latestEventId is undefined
NoId == -2          \* the id 'none' of a TreeRemove event

(***************************************************************************)
(* An event manager: phase is where processEvents is.  queue holds the     *)
(* events of the page being told, next is the index of the listener to     *)
(* call, anchor and more are the page's, broken that the page ended in an  *)
(* error.                                                                  *)
(***************************************************************************)
NewManager(listeners, id) ==
    [phase |-> IF id = Undefined THEN "starting" ELSE "asking",
     listeners |-> listeners, latest |-> id, anchor |-> id,
     queue |-> <<>>, next |-> 1, more |-> FALSE, broken |-> FALSE]

Unused == [NewManager(<<>>, Undefined) EXCEPT !.phase = "unused"]

EventsInit ==
    /\ watched \in Managers
    /\ scope \in {"volume", "core"}
    /\ log = <<>> /\ expired = 0 /\ revoked = FALSE
    /\ persisted \in {Undefined, 0}
    /\ manager = [m \in Managers |-> Unused] /\ created = 0 /\ current = 0
    /\ subscriber = [s \in Subscribers |-> [state |-> "none", at |-> 0]]
    /\ eventFailures = 0
    /\ seen = [m \in Managers |-> [l \in Listeners |-> Undefined]]
    /\ told = [m \in Managers |-> {}]
    /\ skipped = [m \in Managers |-> {}]

ServerUnchanged == UNCHANGED <<watched, scope, log, expired, revoked, persisted>>
Fails == eventFailures < MaxFailures /\ eventFailures' = eventFailures + 1
History == UNCHANGED <<seen, told, skipped>>

(***************************************************************************)
(* The server.                                                             *)
(***************************************************************************)
EventHappens ==
    /\ Len(log) < MaxEvents
    /\ \E k \in {"node", "silent"} : log' = Append(log, k)
    /\ UNCHANGED <<watched, scope, expired, revoked, persisted, manager, created, current, subscriber, eventFailures>>
    /\ History

EventsExpire ==
    /\ expired < Len(log)
    /\ Fails
    /\ expired' = Len(log)
    /\ UNCHANGED <<watched, scope, log, revoked, persisted, manager, created, current, subscriber>>
    /\ History

AccessRevoked ==
    /\ scope = "volume" /\ ~revoked
    /\ Fails
    /\ revoked' = TRUE
    /\ UNCHANGED <<watched, scope, log, expired, persisted, manager, created, current, subscriber>>
    /\ History

(***************************************************************************)
(* DriveEventsService: subscribe and dispose.                              *)
(***************************************************************************)
AddListener(m, s) ==
    /\ manager' = [manager EXCEPT ![m].listeners = Append(@, s)]
    /\ seen' = [seen EXCEPT ![m][s] = manager[m].latest]
    /\ skipped' = [skipped EXCEPT ![m] =   \* added behind the place the loop has reached
                     IF manager[m].phase = "telling" /\ manager[m].next > Len(manager[m].listeners) + 1
                       THEN @ \cup {s} ELSE @ \ {s}]
    /\ UNCHANGED told

\* subscribeToTreeEvents, subscribeToCoreEvents: a registered manager is used as it
\* is, otherwise one is made, which takes a while.
SubscribeToEvents(s) ==
    /\ subscriber[s].state = "none"
    /\ \A t \in 1 .. s - 1 : subscriber[t].state # "none"   \* subscribers are interchangeable
    /\ IF current # 0
         THEN /\ subscriber' = [subscriber EXCEPT ![s] = [state |-> "on", at |-> current]]
              /\ AddListener(current, s)
         ELSE /\ subscriber' = [subscriber EXCEPT ![s].state = "creating"]
              /\ UNCHANGED manager /\ History
    /\ ServerUnchanged /\ UNCHANGED <<created, current, eventFailures>>

\* The manager is made and registered, whatever was registered meanwhile, and started.
CreateEventManager(s) ==
    LET m == created + 1 IN
    /\ subscriber[s].state = "creating"
    /\ created' = m /\ current' = m
    /\ manager' = [manager EXCEPT ![m] = NewManager(<<Cache, s>>, persisted)]
    /\ subscriber' = [subscriber EXCEPT ![s] = [state |-> "on", at |-> m]]
    /\ seen' = [seen EXCEPT ![m] = [l \in Listeners |-> persisted]]
    /\ ServerUnchanged /\ UNCHANGED <<eventFailures, told, skipped>>

\* dispose: splice(indexOf(callback), 1), where -1 removes the last listener.
Without(listeners, s) ==
    LET at == IF s \in ToSet(listeners) THEN CHOOSE i \in DOMAIN listeners : listeners[i] = s
              ELSE Len(listeners)
    IN IF listeners = <<>> THEN <<>> ELSE RemoveAt(listeners, at)

\* A dispose while an event is being told moves the later listeners one place down,
\* so that the next one is not called; a second dispose removes another listener.
MissedBy(m, s) ==
    LET mgr == manager[m]
        called == {i \in 1 .. mgr.next - 1 : i <= Len(mgr.listeners) /\ mgr.listeners[i] = s}
    IN (ToSet(mgr.listeners) \ (ToSet(Without(mgr.listeners, s)) \cup {s}))
       \cup IF mgr.phase = "telling" /\ called # {} /\ mgr.next <= Len(mgr.listeners)
              THEN {mgr.listeners[mgr.next]} ELSE {}

Dispose(s) ==
    LET m == subscriber[s].at IN
    /\ subscriber[s].state \in {"on", "disposed"} /\ m = watched
    /\ manager' = [manager EXCEPT ![m].listeners = Without(@, s)]
    /\ skipped' = [skipped EXCEPT ![m] = @ \cup MissedBy(m, s)]
    /\ subscriber' = [subscriber EXCEPT ![s].state = IF @ = "on" THEN "disposed" ELSE "over"]
    /\ ServerUnchanged /\ UNCHANGED <<created, current, eventFailures, seen, told>>

(***************************************************************************)
(* EventManager: start, the poll, and telling the listeners.               *)
(***************************************************************************)
Update(m, record) == manager' = [manager EXCEPT ![m] = record]

\* start without an id: getLatestEventId, then the first poll is scheduled.
StartWithLatest(m) ==
    /\ manager[m].phase = "starting" /\ ~revoked
    /\ Update(m, [manager[m] EXCEPT !.phase = "waiting", !.latest = Len(log)])
    /\ seen' = [seen EXCEPT ![m] = [l \in Listeners |-> Len(log)]]
    /\ ServerUnchanged /\ UNCHANGED <<created, current, subscriber, eventFailures, told, skipped>>

\* It throws: the manager stays registered and is never started.
StartFails(m) ==
    /\ manager[m].phase = "starting"
    /\ IF revoked THEN UNCHANGED eventFailures ELSE Fails
    /\ Update(m, [manager[m] EXCEPT !.phase = "off"])
    /\ ServerUnchanged /\ UNCHANGED <<created, current, subscriber>> /\ History

\* The timeout set by scheduleNextPoll.
NextPoll(m) ==
    /\ manager[m].phase = "waiting"
    /\ Update(m, [manager[m] EXCEPT !.phase = "asking", !.anchor = manager[m].latest])
    /\ ServerUnchanged /\ UNCHANGED <<created, current, subscriber, eventFailures>> /\ History

\* One answer of the API: the entries after the anchor, at most a page of them.
PageEnd(anchor) == IF anchor + EventPageSize < Len(log) THEN anchor + EventPageSize ELSE Len(log)
PageIds(anchor) == {id \in anchor + 1 .. PageEnd(anchor) : log[id] = "node"}
PageEvents(anchor) ==   \* in the order of their ids: the i-th has i - 1 smaller ones
    [i \in 1 .. Cardinality(PageIds(anchor)) |->
        [type |-> "node",
         id |-> CHOOSE id \in PageIds(anchor) : Cardinality({j \in PageIds(anchor) : j < id}) = i - 1]]

Telling(m, events, end, more, broken) ==
    Update(m, [manager[m] EXCEPT !.phase = "telling", !.queue = events, !.next = 1,
                 !.anchor = end, !.more = more, !.broken = broken])

\* VolumeEventManager.getEvents: refresh, fast forward, or the entries and the next page.
VolumeEvents(m) ==
    LET a == manager[m].anchor IN
    /\ scope = "volume" /\ manager[m].phase = "asking" /\ ~revoked /\ a # NoId
    /\ IF a < expired
         THEN Telling(m, <<[type |-> "refresh", id |-> Len(log)]>>, Len(log), FALSE, FALSE)
       ELSE IF PageEvents(a) = <<>> /\ PageEnd(a) # a
         THEN Telling(m, <<[type |-> "forward", id |-> PageEnd(a)]>>, PageEnd(a), FALSE, FALSE)
       ELSE Telling(m, PageEvents(a), PageEnd(a), PageEnd(a) < Len(log), FALSE)
    /\ ServerUnchanged /\ UNCHANGED <<created, current, subscriber, eventFailures>> /\ History

\* The volume is gone: TreeRemove is told, then the error is thrown again.
VolumeGone(m) ==
    /\ scope = "volume" /\ manager[m].phase = "asking" /\ revoked
    /\ Telling(m, <<[type |-> "remove", id |-> NoId]>>, NoId, FALSE, TRUE)
    /\ ServerUnchanged /\ UNCHANGED <<created, current, subscriber, eventFailures>> /\ History

\* The core events of one answer are summed up in one event for Drive, which carries
\* the id the answer ends with.
GetDriveEventsFromCoreEvent(a) ==
    IF a < expired \/ PageEvents(a) # <<>> THEN <<[type |-> "shared", id |-> PageEnd(a)]>> ELSE <<>>

\* CoreEventManager.getEvents: that event, or fast forward.
CoreEvents(m) ==
    LET a == manager[m].anchor
        events == GetDriveEventsFromCoreEvent(a)
    IN
    /\ scope = "core" /\ manager[m].phase = "asking"
    /\ Telling(m, IF events = <<>> /\ PageEnd(a) # a
                    THEN <<[type |-> "forward", id |-> PageEnd(a)]>> ELSE events,
               PageEnd(a), FALSE, FALSE)
    /\ ServerUnchanged /\ UNCHANGED <<created, current, subscriber, eventFailures>> /\ History

\* The request fails: the error is logged and the next poll scheduled.
PollFails(m) ==
    /\ manager[m].phase = "asking"
    /\ Fails
    /\ Update(m, [manager[m] EXCEPT !.phase = "waiting", !.more = FALSE])
    /\ ServerUnchanged /\ UNCHANGED <<created, current, subscriber>> /\ History

TheEvent(m) == Head(manager[m].queue)

\* notifyListeners: the listeners are awaited one after the other.
NotifyListener(m) ==
    LET mgr == manager[m] IN
    /\ mgr.phase = "telling" /\ mgr.queue # <<>> /\ mgr.next <= Len(mgr.listeners)
    /\ Update(m, [mgr EXCEPT !.next = @ + 1])
    /\ seen' = [seen EXCEPT ![m][mgr.listeners[mgr.next]] = TheEvent(m).id]
    /\ ServerUnchanged /\ UNCHANGED <<created, current, subscriber, eventFailures, told, skipped>>

\* A listener of the application throws: processEvents throws, no poll is scheduled.
ListenerThrows(m) ==
    LET mgr == manager[m] IN
    /\ mgr.phase = "telling" /\ mgr.queue # <<>> /\ mgr.next <= Len(mgr.listeners)
    /\ mgr.listeners[mgr.next] # Cache
    /\ Fails
    /\ Update(m, [mgr EXCEPT !.phase = "off"])
    /\ ServerUnchanged /\ UNCHANGED <<created, current, subscriber>> /\ History

\* All listeners were told: latestEventId moves to the event.
EventDone(m) ==
    LET mgr == manager[m] IN
    /\ mgr.phase = "telling" /\ mgr.queue # <<>> /\ mgr.next > Len(mgr.listeners)
    /\ Update(m, [mgr EXCEPT !.latest = TheEvent(m).id, !.queue = Tail(@), !.next = 1])
    /\ told' = [told EXCEPT ![m] = @ \cup
                  CASE TheEvent(m).type = "node" -> {TheEvent(m).id}
                    [] TheEvent(m).type \in {"refresh", "shared"} -> 1 .. TheEvent(m).id
                    [] OTHER -> {}]
    /\ ServerUnchanged /\ UNCHANGED <<created, current, subscriber, eventFailures, seen, skipped>>

\* Mutant: a poll asks for one page only, but goes on after all of the log.
PageDoneSkips(m) ==
    LET mgr == manager[m] IN
    /\ mgr.phase = "telling" /\ mgr.queue = <<>>
    /\ Update(m, [mgr EXCEPT !.phase = "waiting", !.latest = IF @ = NoId THEN @ ELSE Len(log)])
    /\ ServerUnchanged /\ UNCHANGED <<created, current, subscriber, eventFailures>> /\ History

\* The page is done: the next page, or the next poll.
PageDone(m) ==
    LET mgr == manager[m] IN
    /\ mgr.phase = "telling" /\ mgr.queue = <<>>
    /\ Update(m, [mgr EXCEPT !.phase = IF mgr.more /\ ~mgr.broken THEN "asking" ELSE "waiting",
                             !.anchor = IF mgr.more THEN @ ELSE 0, !.more = FALSE, !.broken = FALSE])
    /\ ServerUnchanged /\ UNCHANGED <<created, current, subscriber, eventFailures>> /\ History

ManagerStep(m) ==
    \/ StartWithLatest(m) \/ NextPoll(m)
    \/ VolumeEvents(m) \/ CoreEvents(m)
    \/ NotifyListener(m) \/ EventDone(m) \/ PageDone(m)

EventsNext ==
    \/ EventHappens \/ EventsExpire \/ AccessRevoked
    \/ \E s \in Subscribers : SubscribeToEvents(s) \/ CreateEventManager(s) \/ Dispose(s)
    \/ ManagerStep(watched) \/ StartFails(watched) \/ PollFails(watched)
    \/ VolumeGone(watched) \/ ListenerThrows(watched)

EventsSpec == EventsInit /\ [][EventsNext]_eventsVars

-----------------------------------------------------------------------------
(* Properties.                                                             *)

EventsTypeOK ==
    /\ log \in Seq({"node", "silent"}) /\ expired \in 0 .. Len(log) /\ created \in 0 .. NSubscribers
    /\ current \in 0 .. created
    /\ \A m \in Managers :
          /\ manager[m].phase \in {"unused", "starting", "waiting", "asking", "telling", "off"}
          /\ manager[m].listeners \in Seq(Listeners)
          /\ manager[m].latest \in {Undefined, NoId} \cup 0 .. Len(log)

\* The id up to which a manager says it has gone (getLatestEventId, which the
\* application stores and starts from the next time) is the id every subscriber was
\* told last; only a dispose in the middle of an event, or the second dispose of
\* another subscription, makes a listener miss it.
LatestIsSeen ==
    \A m \in Managers : manager[m].phase \in {"waiting", "asking"} =>
        \A l \in Listeners :
            (l = Cache \/ subscriber[l] = [state |-> "on", at |-> m]) =>
                seen[m][l] = manager[m].latest \/ l \in skipped[m]

\* No event is lost between two polls or two pages: every entry up to
\* latestEventId was told or is covered by a refresh.
NothingLost ==
    \A m \in Managers : (manager[m].phase # "unused" /\ persisted = 0) =>
        \A id \in 1 .. manager[m].latest : log[id] = "node" => id \in told[m]

\* The application is told of an event after the cache of the SDK, so that what it
\* reads in its listener is not older than the event.
CacheBeforeApplication ==
    \A m \in Managers : \A i \in 1 .. Len(manager[m].listeners) :
        (manager[m].phase = "telling" /\ manager[m].queue # <<>> /\ i < manager[m].next
           /\ Cache \in ToSet(manager[m].listeners)) => seen[m][Cache] = TheEvent(m).id
=============================================================================
