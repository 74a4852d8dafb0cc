----------------------------- MODULE EventProofs -----------------------------
(***************************************************************************)
(* Proofs about the two ends of the event feed.  EventFeed, the            *)
(* subscription of the client: its types, that no event is skipped and     *)
(* none delivered before its predecessors, and that the loop implements    *)
(* EventDelivery.  NodesCache, the cache of the SDK that events and        *)
(* operations keep up to date: an inductive invariant over the server, the *)
(* feed, the cache and the calls in progress, and what follows of it.      *)
(***************************************************************************)
EXTENDS EventFeed, NodesCache, TLAPS, FiniteSetTheorems, SequenceTheorems

(***************************************************************************)
(* EventFeed                                                               *)
(***************************************************************************)

\* The variables of the feed keep their types, for any number of events.
THEOREM TypeCorrect == FeedSpec => []FeedTypeOK
<1> USE MaxEventsAssumption DEF FeedTypeOK, EventIds, Cursor, NoCursor, Running
<1>1. FeedInit => FeedTypeOK
  <2> SUFFICES ASSUME FeedInit PROVE FeedTypeOK
    OBVIOUS
  <2>1. gone \in BOOLEAN /\ feed_cancelled \in BOOLEAN /\ more \in BOOLEAN
    BY DEF FeedInit
  <2>2. /\ {head, cursor, asked, drain, base} \subseteq Cursor
        /\ persisted \in Cursor \cup {NoCursor}
    BY DEF FeedInit
  <2>3. /\ {visible, page, delivered} \subseteq SUBSET EventIds
        /\ feed_pc \in {"off", "start", "ended"} \cup Running
    BY DEF FeedInit
  <2> QED
    BY <2>1, <2>2, <2>3
<1>2. FeedTypeOK /\ [FeedNext]_feed_vars => FeedTypeOK'
  <2> SUFFICES ASSUME FeedTypeOK, [FeedNext]_feed_vars PROVE FeedTypeOK'
    OBVIOUS
  <2>1. CASE Publish
    BY <2>1 DEF Publish, page_vars, history
  <2>2. CASE VolumeRemoved
    BY <2>2 DEF VolumeRemoved, page_vars, history
  <2>3. CASE Subscribe
    BY <2>3 DEF Subscribe, page_vars, log_vars
  <2>4. CASE Cancel
    BY <2>4 DEF Cancel, page_vars, log_vars, history
  <2>5. CASE FeedProcessEnds
    BY <2>5 DEF FeedProcessEnds, page_vars, log_vars, history
  <2>6. CASE Start
    BY <2>6 DEF Start, StartFromStored, StartFromLatest, StartFails,
                page_vars, log_vars, history
  <2>7. CASE StopOnCancel
    BY <2>7 DEF StopOnCancel, page_vars, log_vars, history
  <2>8. CASE PollTick
    BY <2>8 DEF PollTick, page_vars, log_vars, history
  <2>9. CASE Fetch
    <3>1. CASE FetchEmpty
      BY <3>1 DEF FetchEmpty, log_vars, history
    <3>2. CASE FetchPage
      <4>1. more' \in BOOLEAN
        <5>1. PICK n \in drain..head : more' = (n < head)
          BY <3>2 DEF FetchPage
        <5> QED
          BY <5>1
      <4>2. PICK n \in drain..head : page' = Between(drain, n) /\ drain' = n
        BY <3>2 DEF FetchPage
      <4>3. /\ asked' = drain /\ feed_pc' = "dispatch"
            /\ UNCHANGED <<log_vars, feed_cancelled, cursor, persisted, history>>
        BY <3>2 DEF FetchPage
      <4>4. page' \in SUBSET EventIds
        BY <4>2 DEF Between
      <4>5. drain' \in Cursor
        BY <4>2
      <4> QED
        BY <4>1, <4>3, <4>4, <4>5 DEF log_vars, history
    <3>3. CASE FetchStuckPage
      BY <3>3 DEF FetchStuckPage, Between, log_vars, history
    <3>4. CASE FetchRefresh
      BY <3>4 DEF FetchRefresh, log_vars
    <3>5. CASE FetchNotFound
      BY <3>5 DEF FetchNotFound, page_vars, log_vars, history
    <3>6. CASE FetchFails
      BY <3>6 DEF FetchFails, page_vars, log_vars, history
    <3> QED
      BY <2>9, <3>1, <3>2, <3>3, <3>4, <3>5, <3>6 DEF Fetch
  <2>10. CASE Dispatch
    BY <2>10 DEF Dispatch, log_vars
  <2>11. CASE PageDone
    BY <2>11 DEF PageDone, page_vars, log_vars, history
  <2>12. CASE Persist
    BY <2>12 DEF Persist, page_vars, log_vars, history
  <2>13. CASE UNCHANGED feed_vars
    BY <2>13 DEF feed_vars, page_vars, log_vars, history
  <2> QED
    BY <2>1, <2>2, <2>3, <2>4, <2>5, <2>6, <2>7, <2>8, <2>9, <2>10, <2>11,
       <2>12, <2>13 DEF FeedNext, FeedTask
<1> QED
  BY <1>1, <1>2, PTL DEF FeedSpec

\* The invariant is preserved by every step of the feed.
LEMMA FeedInvStep == FeedTypeOK /\ FeedTypeOK' /\ FeedInv /\ [FeedNext]_feed_vars => FeedInv'
<1> SUFFICES ASSUME FeedTypeOK, FeedTypeOK', FeedInv, [FeedNext]_feed_vars PROVE FeedInv'
  OBVIOUS
<1> USE MaxEventsAssumption
    DEF FeedTypeOK, EventIds, Cursor, NoCursor, Running, FeedInv, NoGap,
        Promise!Covered, Promise!Known, log_vars, page_vars, history
<1>1. CASE Publish
  BY <1>1 DEF Publish
<1>2. CASE VolumeRemoved
  BY <1>2 DEF VolumeRemoved
<1>3. CASE Subscribe
  BY <1>3 DEF Subscribe
<1>4. CASE Cancel
  BY <1>4 DEF Cancel
<1>5. CASE FeedProcessEnds
  BY <1>5 DEF FeedProcessEnds
<1>6. CASE StartFromStored
  BY <1>6 DEF StartFromStored
<1>7. CASE StartFromLatest
  BY <1>7 DEF StartFromLatest
<1>8. CASE StartFails
  BY <1>8 DEF StartFails
<1>9. CASE StopOnCancel
  BY <1>9 DEF StopOnCancel
<1>10. CASE PollTick
  BY <1>10 DEF PollTick
<1>11. CASE FetchEmpty
  BY <1>11 DEF FetchEmpty, Between
<1>12. CASE FetchPage
  BY <1>12 DEF FetchPage, Between
<1>13. CASE FetchStuckPage
  BY <1>13 DEF FetchStuckPage, Between
<1>14. CASE FetchRefresh
  BY <1>14 DEF FetchRefresh
<1>15. CASE FetchNotFound
  BY <1>15 DEF FetchNotFound
<1>16. CASE FetchFails
  BY <1>16 DEF FetchFails
<1>17. CASE Dispatch
  BY <1>17 DEF Dispatch
<1>18. CASE PageDone
  BY <1>18 DEF PageDone
<1>19. CASE Persist
  BY <1>19 DEF Persist
<1>20. CASE UNCHANGED feed_vars
  BY <1>20 DEF feed_vars
<1> QED
  BY <1>1, <1>2, <1>3, <1>4, <1>5, <1>6, <1>7, <1>8, <1>9, <1>10, <1>11,
     <1>12, <1>13, <1>14, <1>15, <1>16, <1>17, <1>18, <1>19, <1>20
     DEF FeedNext, FeedTask, Start, Fetch

\* The inductive invariant holds in every reachable state.
THEOREM FeedInvariant == FeedSpec => []FeedInv
<1>1. FeedInit => FeedInv
  BY MaxEventsAssumption
     DEF FeedInit, FeedInv, NoGap, Promise!Covered, Promise!Known, NoCursor, Running
<1> QED
  BY <1>1, TypeCorrect, FeedInvStep, PTL DEF FeedSpec

\* No event is skipped: whatever fails and whenever the process restarts, the
\* events up to the cursor the feed goes on from are known to the host.
THEOREM NothingSkipped == FeedSpec => []NoEventSkipped
<1>1. FeedInv => NoEventSkipped
  BY DEF FeedInv, NoEventSkipped, ResumePoint
<1> QED
  BY <1>1, FeedInvariant, PTL

\* The listener never has an event without all earlier ones.
THEOREM DeliveredInOrder == FeedSpec => []NoGap
<1>1. FeedInv => NoGap
  BY DEF FeedInv
<1> QED
  BY <1>1, FeedInvariant, PTL

\* The polling loop of events.rs implements at-least-once, in-order delivery:
\* every step of it is a step of EventDelivery or changes nothing there.
THEOREM ImplementsDelivery == FeedSpec => DeliversAtLeastOnce
<1>1. FeedInit => Promise!Init
  BY DEF FeedInit, Promise!Init, ResumePoint, NoCursor, Running
<1>2. FeedTypeOK /\ FeedTypeOK' /\ FeedInv /\ FeedInv' /\ [FeedNext]_feed_vars
        => [Promise!Next]_(Promise!vars)
  <2> SUFFICES ASSUME FeedTypeOK, FeedTypeOK', FeedInv, FeedInv', [FeedNext]_feed_vars
               PROVE  [Promise!Next]_(Promise!vars)
    OBVIOUS
  <2> USE MaxEventsAssumption
      DEF FeedTypeOK, EventIds, Cursor, NoCursor, Running, ResumePoint, log_vars,
          page_vars, history, Promise!vars, Promise!Next
  <2>1. CASE Publish
    BY <2>1 DEF Publish, Promise!Publish
  <2>2. ASSUME UNCHANGED <<head, visible, delivered, base>>
        PROVE  [Promise!Next]_(Promise!vars)
    <3>1. ResumePoint' \in -1..head /\ Promise!Covered(ResumePoint)'
      BY <2>2 DEF FeedInv
    <3>2. Promise!Covered(ResumePoint') <=> Promise!Covered(ResumePoint)'
      BY <2>2 DEF Promise!Covered, Promise!Known
    <3> QED
      BY <2>2, <3>1, <3>2 DEF Promise!Move
  <2>3. CASE VolumeRemoved \/ Subscribe \/ Cancel \/ FeedProcessEnds \/ StopOnCancel
             \/ PollTick \/ PageDone \/ Persist \/ StartFromStored
             \/ StartFails \/ UNCHANGED feed_vars
    BY <2>2, <2>3 DEF VolumeRemoved, Subscribe, Cancel, FeedProcessEnds,
          StopOnCancel, PollTick, PageDone, Persist, StartFromStored,
          StartFails, feed_vars
  <2>4. CASE FetchEmpty \/ FetchPage \/ FetchStuckPage \/ FetchNotFound
             \/ FetchFails
    BY <2>2, <2>4 DEF FetchEmpty, FetchPage, FetchStuckPage, FetchNotFound,
          FetchFails
  <2>5. CASE StartFromLatest
    BY <2>5 DEF StartFromLatest, Promise!Resync
  <2>6. CASE FetchRefresh
    BY <2>6 DEF FetchRefresh, Promise!Resync
  <2>7. CASE Dispatch
    <3>1. PICK e \in page : /\ \A f \in page : e <= f
                            /\ delivered' = delivered \cup {e}
      BY <2>7 DEF Dispatch
    <3>2. e \in visible /\ \A f \in visible : f < e => Promise!Known(f)
      BY <2>7, <3>1 DEF Dispatch, FeedInv
    <3>3. UNCHANGED <<head, visible, base, ResumePoint>>
      BY <2>7 DEF Dispatch
    <3> QED
      BY <3>1, <3>2, <3>3 DEF Promise!Deliver
  <2> QED
    BY <2>1, <2>3, <2>4, <2>5, <2>6, <2>7 DEF FeedNext, FeedTask, Start, Fetch
<1> QED
  BY <1>1, <1>2, TypeCorrect, FeedInvariant, PTL
     DEF FeedSpec, DeliversAtLeastOnce, Promise!Spec

(***************************************************************************)
(* NodesCache: the records and the parts of the invariant                  *)
(***************************************************************************)
EventRec ==
    [type : {"updated", "created", "deleted", "refresh", "remove"}, node : Nodes \cup {Root},
     parent : Folders \cup {None}, trashed : BOOLEAN,
     at : UNION {[S -> Nat] : S \in SUBSET Nodes},
     was : UNION {[S -> Folders \cup {None}] : S \in SUBSET Nodes}]

Got == {<<>>} \cup Link \cup Entry \cup UNION {[S -> Link] : S \in SUBSET Nodes}

CallRec ==
    [kind : Kinds, node : Nodes \cup {Root}, to : Folders, step : Steps, base : Nat,
     got : Got, todo : SUBSET Nodes, dirty : BOOLEAN, flag : BOOLEAN]

CacheTypes ==
    /\ server \in [Nodes -> Link] /\ access \in BOOLEAN
    /\ changes \in 0 .. MaxChanges /\ started \in 0 .. MaxCalls
    /\ feed \in Seq(EventRec) /\ updating \in Entry
    /\ cache \in [Nodes -> Entry] /\ loaded \subseteq Folders
    /\ call \in [Calls -> CallRec]
    /\ handled \in [Nodes -> Nat]
    /\ late \subseteq Nodes /\ lost \subseteq Nodes /\ astray \subseteq Nodes
    /\ swept \subseteq Nodes /\ missed \subseteq Nodes /\ filtered \subseteq Nodes
    /\ lateLists \subseteq Folders

\* Event i of the feed F tells of node n.
Covers(F, i, n) == i \in 1 .. Len(F) /\ n \in DOMAIN F[i].at

\* It makes the cache put n where the server has it, and is newer than version v.
Renews(F, i, n, v) == Covers(F, i, n) /\ F[i].type \in {"updated", "refresh"} /\ v < F[i].at[n]

\* After event k, what is known of n at version v, parent p, is right or will be put right.
Placed(s, F, n, v, p, k) ==
    /\ Exists(s, n) => \/ p = s[n].parent
                       \/ \E i \in k + 1 .. Len(F) : Renews(F, i, n, v)
    /\ \A d \in k + 1 .. Len(F) :
          Covers(F, d, n) /\ F[d].type = "deleted" =>
              \/ p = F[d].was[n]
              \/ \E i \in k + 1 .. d - 1 : Renews(F, i, n, v)

Binned(s, F, n, v, t) ==
    Exists(s, n) => \/ t = s[n].trashed
                    \/ \E i \in 1 .. Len(F) : Renews(F, i, n, v)

EventOK(s, F, a, i) ==
    /\ F[i].type \in {"updated", "created"} => DOMAIN F[i].at = {F[i].node}
    /\ F[i].type = "remove" => DOMAIN F[i].at = {}
    /\ F[i].type = "deleted" => F[i].node \in DOMAIN F[i].at
    /\ ~a <=> F[i].type = "remove"
    /\ \A n \in DOMAIN F[i].at :
          /\ F[i].at[n] <= s[n].ver
          /\ F[i].type # "refresh" => F[i].at[n] >= 1
          /\ F[i].type = "created" => F[i].at[n] = 1
          /\ F[i].type = "deleted" => ~Exists(s, n)
          /\ F[i].type \in {"updated", "created"} /\ F[i].at[n] = s[n].ver =>
                /\ Exists(s, n)
                /\ F[i].parent = s[n].parent /\ F[i].trashed = s[n].trashed
          /\ \E j \in i .. Len(F) : Covers(F, j, n) /\ F[j].at[n] = s[n].ver
          /\ F[i].type = "updated" => Placed(s, F, n, F[i].at[n], F[i].parent, i)

FeedOK(s, F, a) == \A i \in 1 .. Len(F) : EventOK(s, F, a, i)

\* What the cache was told of n is what the server has, or it will be told.
ToldOK(s, F, a, h, n) ==
    /\ h <= s[n].ver
    /\ a /\ h # s[n].ver => \E i \in 1 .. Len(F) : Covers(F, i, n) /\ F[i].at[n] = s[n].ver

\* A link x of n read from the server, however long ago.
ReadOK(s, F, a, h, n, x) ==
    /\ x.ver >= 1 /\ x.ver <= s[n].ver /\ x.parent # None
    /\ x.ver = s[n].ver => x.parent = s[n].parent /\ x.trashed = s[n].trashed
    /\ a /\ x.ver >= h => Placed(s, F, n, x.ver, x.parent, 0) /\ Binned(s, F, n, x.ver, x.trashed)

\* The entry x of node n, where l, o and y are late, lost and astray.
EntryOK(s, F, a, h, n, x, l, o, y) ==
    x.parent # None =>
       /\ x.ver >= 1 /\ s[n].ver >= 1
       /\ n \in o => x.stale
       /\ x.stale \/ x.ver >= h \/ n \in l \cup y
       /\ a /\ n \notin l \cup o => Placed(s, F, n, 0, x.parent, 0) /\ Binned(s, F, n, 0, x.trashed)
       /\ a /\ ~Exists(s, n) => \/ n \in l \cup o \cup y
                                \/ \E i \in 1 .. Len(F) : Covers(F, i, n) /\ F[i].type \in {"deleted", "refresh"}


\* A node n that belongs into folder p is there in the cache C, is among the excused
\* nodes E, or is one of the nodes Z still to be stored.
Listed(s, F, C, E, n, p, Z) ==
    (s[n].parent = p /\ ~s[n].trashed /\ \A i \in 1 .. Len(F) : n \notin DOMAIN F[i].at) =>
        \/ C[n].parent = p /\ ~C[n].trashed
        \/ n \in E \cup Z

\* The entry that a call, r, has read to write it back.
WriteOK(r) ==
    r.step = "write" => /\ r.kind \in {"rename", "move", "trash", "restore"}
                        /\ r.got \in Entry /\ r.got.parent # None /\ r.got.ver >= 1

\* The entry that the handler of the first event has read.
UpdatingOK(u, F) ==
    u # NotCached => F # <<>> /\ F[1].type = "updated" /\ u.ver >= 1

\* A call in progress, r, where f are the filtered nodes.
CallOK(s, F, a, h, C, E, f, r) ==
    /\ r.step \in {"get", "got"} => r.node \in Nodes
    /\ r.kind \in {"list", "folders"} => r.node \in Folders
    /\ r.kind \in {"nodes", "rename", "move", "trash", "restore", "delete"} =>
          r.node \in Nodes /\ s[r.node].ver >= 1
    /\ r.step = "batch" => \A n \in r.todo : s[n].ver >= 1
    /\ r.step = "got" => r.got \in Link /\ ReadOK(s, F, a, h[r.node], r.node, r.got)
    /\ r.step = "store" =>
          /\ DOMAIN r.got \subseteq r.todo /\ r.got \in [DOMAIN r.got -> Link]
          /\ \A n \in DOMAIN r.got : ReadOK(s, F, a, h[n], n, r.got[n])
          /\ \A n \in r.todo \ DOMAIN r.got : (~Exists(s, n) /\ s[n].ver >= 1) \/ n \in f
    /\ WriteOK(r)
    /\ r.step \in {"sent", "write"} =>
          /\ r.node \in Nodes => r.base <= s[r.node].ver
          /\ r.kind = "delete" => ~Exists(s, r.node) /\ s[r.node].ver >= 1
          /\ r.kind = "move" =>
                /\ s[r.node].ver >= 1
                /\ a /\ r.base >= h[r.node] => Placed(s, F, r.node, r.base, r.to, 0)
    /\ r.step \in {"batch", "store"} /\ r.flag =>
          /\ r.kind = "list" /\ r.node \in Folders
          /\ a /\ ~r.dirty =>
                \A n \in Nodes : Listed(s, F, C, E, n, r.node, IF r.step = "batch" THEN r.todo ELSE DOMAIN r.got)

Excused == late \cup swept \cup missed \cup filtered

ServerOK(s, y) ==
    \A n \in Nodes : /\ Exists(s, n) => s[n].ver >= 1
                     /\ n \in y => ~Exists(s, n) /\ s[n].ver >= 1

CacheInv ==
    /\ CacheTypes
    /\ ServerOK(server, astray)
    /\ FeedOK(server, feed, access) /\ UpdatingOK(updating, feed)
    /\ \A n \in Nodes : ToldOK(server, feed, access, handled[n], n)
    /\ \A n \in Nodes : EntryOK(server, feed, access, handled[n], n, cache[n], late, lost, astray)
    /\ \A c \in Calls : CallOK(server, feed, access, handled, cache, Excused, filtered, call[c])
    /\ access => \A p \in loaded \ lateLists, n \in Nodes : Listed(server, feed, cache, Excused, n, p, {})

-----------------------------------------------------------------------------
(* A change by the server *)

\* The tree s becomes t and the feed F becomes G.
Grown(s, t, F, G) ==
    /\ G \in Seq(EventRec) /\ Len(F) <= Len(G)
    /\ \A i \in 1 .. Len(F) : G[i] = F[i]
    /\ \A i \in Len(F) + 1 .. Len(G) :
          /\ G[i].type \in {"updated", "created", "deleted"}
          /\ G[i].type \in {"updated", "created"} =>
                /\ DOMAIN G[i].at = {G[i].node} /\ G[i].node \in Nodes
                /\ Exists(t, G[i].node)
                /\ G[i].parent = t[G[i].node].parent /\ G[i].trashed = t[G[i].node].trashed
          /\ G[i].type = "deleted" => G[i].node \in DOMAIN G[i].at
          /\ \A n \in DOMAIN G[i].at :
                /\ t[n] # s[n] /\ G[i].at[n] = t[n].ver
                /\ G[i].type = "created" => s[n].ver = 0
                /\ G[i].type = "deleted" => ~Exists(t, n) /\ G[i].was[n] = s[n].parent
                /\ G[i].type = "updated" => s[n].ver >= 1
    /\ \A n \in Nodes :
          \/ t[n] = s[n]
          \/ /\ t[n].ver = s[n].ver + 1
             /\ s[n].ver >= 1 => Exists(s, n)
             /\ \E i \in Len(F) + 1 .. Len(G) : Covers(G, i, n)

\* The events of a feed are of nodes, at versions.
LEMMA EventsAre ==
    ASSUME NEW F \in Seq(EventRec)
    PROVE  /\ Len(F) \in Nat
           /\ \A i \in 1 .. Len(F) : /\ F[i] \in EventRec /\ DOMAIN F[i].at \subseteq Nodes
                                     /\ \A n \in DOMAIN F[i].at : F[i].at[n] \in Nat
<1>1. Len(F) \in Nat /\ \A i \in 1 .. Len(F) : F[i] \in EventRec
  OBVIOUS
<1>2. ASSUME NEW i \in 1 .. Len(F)
      PROVE  DOMAIN F[i].at \subseteq Nodes /\ \A n \in DOMAIN F[i].at : F[i].at[n] \in Nat
  <2>1. F[i].at \in UNION {[S -> Nat] : S \in SUBSET Nodes}
    BY <1>1, <1>2 DEF EventRec
  <2>2. PICK S \in SUBSET Nodes : F[i].at \in [S -> Nat]
    BY <2>1
  <2> QED
    BY <2>2
<1> QED
  BY <1>1, <1>2

\* The feed without its first event.
LEMMA TailIs ==
    ASSUME NEW F \in Seq(EventRec), F # <<>>
    PROVE  /\ Tail(F) \in Seq(EventRec) /\ Len(F) \in Nat \ {0} /\ Len(Tail(F)) = Len(F) - 1
           /\ \A i \in 1 .. Len(Tail(F)) : i + 1 \in 1 .. Len(F) /\ Tail(F)[i] = F[i + 1]
           /\ Head(F) = F[1] /\ F[1] \in EventRec
           /\ \A i, n, v : i \in 1 .. Len(Tail(F)) =>
                 /\ Covers(Tail(F), i, n) <=> Covers(F, i + 1, n)
                 /\ Renews(Tail(F), i, n, v) <=> Renews(F, i + 1, n, v)
<1>1. /\ Tail(F) \in Seq(EventRec) /\ Len(F) \in Nat \ {0} /\ Len(Tail(F)) = Len(F) - 1
      /\ \A i \in 1 .. Len(Tail(F)) : i + 1 \in 1 .. Len(F) /\ Tail(F)[i] = F[i + 1]
      /\ Head(F) = F[1] /\ F[1] \in EventRec
  OBVIOUS
<1>2. \A i, n, v : i \in 1 .. Len(Tail(F)) =>
                 /\ Covers(Tail(F), i, n) <=> Covers(F, i + 1, n)
                 /\ Renews(Tail(F), i, n, v) <=> Renews(F, i + 1, n, v)
  BY <1>1 DEF Covers, Renews
<1> QED
  BY <1>1, <1>2

\* What is known of a node stays right, or will be put right, when the server changes it.
LEMMA GrownPlaced ==
    ASSUME NEW s \in [Nodes -> Link], NEW t \in [Nodes -> Link], NEW F \in Seq(EventRec), NEW G,
           Grown(s, t, F, G), ServerOK(s, {}),
           NEW n \in Nodes, NEW v \in Nat, NEW p, NEW k \in 0 .. Len(F),
           v <= s[n].ver, s[n].ver >= 1, Placed(s, F, n, v, p, k)
    PROVE  Placed(t, G, n, v, p, k)
<1>0. G \in Seq(EventRec) /\ Len(F) <= Len(G) /\ Len(F) \in Nat /\ Len(G) \in Nat
  BY EventsAre DEF Grown
<1>1. \A i \in 1 .. Len(F) : G[i] = F[i]
  BY DEF Grown
<1>2. \A i \in k + 1 .. Len(F) : Renews(F, i, n, v) => i \in k + 1 .. Len(G) /\ Renews(G, i, n, v)
  BY <1>0, <1>1 DEF Renews, Covers
<1>3. s[n].ver \in Nat /\ t[n].ver \in Nat
  BY DEF Link
<1>4. CASE t[n] = s[n]
  <2>1. \A i \in Len(F) + 1 .. Len(G) : ~Covers(G, i, n)
    BY <1>4 DEF Grown, Covers
  <2>2. ASSUME NEW d \in k + 1 .. Len(G), Covers(G, d, n), G[d].type = "deleted"
        PROVE  p = G[d].was[n] \/ \E i \in k + 1 .. d - 1 : Renews(G, i, n, v)
    <3>1. d \in k + 1 .. Len(F) /\ d \in 1 .. Len(F)
      BY <2>1, <2>2, <1>0
    <3>2. Covers(F, d, n) /\ F[d].type = "deleted" /\ G[d] = F[d]
      BY <2>2, <3>1, <1>1 DEF Covers
    <3>3. p = F[d].was[n] \/ \E i \in k + 1 .. d - 1 : Renews(F, i, n, v)
      BY <3>1, <3>2 DEF Placed
    <3> QED
      BY <3>1, <3>2, <3>3, <1>0, <1>2
  <2>3. Exists(t, n) => p = t[n].parent \/ \E i \in k + 1 .. Len(G) : Renews(G, i, n, v)
    BY <1>2, <1>4 DEF Placed, Exists
  <2> QED
    BY <2>2, <2>3 DEF Placed
<1>5. CASE t[n] # s[n]
  <2>1. PICK j \in Len(F) + 1 .. Len(G) : Covers(G, j, n)
    BY <1>5 DEF Grown
  <2>2. t[n].ver = s[n].ver + 1 /\ Exists(s, n)
    BY <1>5 DEF Grown
  <2>3. G[j].at[n] = t[n].ver /\ G[j].type \in {"updated", "created", "deleted"} /\ G[j].type # "created"
    BY <2>1, <1>3 DEF Grown, Covers
  <2>4. Exists(t, n) => Renews(G, j, n, v) /\ j \in k + 1 .. Len(G)
    <3>1. Exists(t, n) => G[j].type = "updated"
      BY <2>1, <2>3 DEF Grown, Covers
    <3>2. v < G[j].at[n]
      BY <2>2, <2>3, <1>3
    <3> QED
      BY <3>1, <3>2, <2>1, <1>0 DEF Renews
  <2>5. p = s[n].parent \/ \E i \in k + 1 .. Len(F) : Renews(G, i, n, v)
    BY <2>2, <1>2 DEF Placed
  <2>6. ASSUME NEW d \in k + 1 .. Len(G), Covers(G, d, n), G[d].type = "deleted"
        PROVE  p = G[d].was[n] \/ \E i \in k + 1 .. d - 1 : Renews(G, i, n, v)
    <3>1. CASE d \in 1 .. Len(F)
      <4>1. Covers(F, d, n) /\ F[d].type = "deleted" /\ G[d] = F[d] /\ d \in k + 1 .. Len(F)
        BY <2>6, <3>1, <1>1, <1>0 DEF Covers
      <4>2. p = F[d].was[n] \/ \E i \in k + 1 .. d - 1 : Renews(F, i, n, v)
        BY <4>1 DEF Placed
      <4> QED
        BY <4>1, <4>2, <1>0, <1>2
    <3>2. CASE d \notin 1 .. Len(F)
      <4>1. d \in Len(F) + 1 .. Len(G)
        BY <3>2, <2>6, <1>0
      <4>2. G[d].was[n] = s[n].parent
        BY <4>1, <2>6 DEF Grown, Covers
      <4> QED
        BY <4>1, <4>2, <2>5, <1>0
    <3> QED
      BY <3>1, <3>2
  <2> QED
    BY <2>4, <2>6 DEF Placed
<1> QED
  BY <1>4, <1>5

\* The same for the trashed flag.
LEMMA GrownBinned ==
    ASSUME NEW s \in [Nodes -> Link], NEW t \in [Nodes -> Link], NEW F \in Seq(EventRec), NEW G,
           Grown(s, t, F, G),
           NEW n \in Nodes, NEW v \in Nat, NEW b,
           v <= s[n].ver, s[n].ver >= 1, Binned(s, F, n, v, b)
    PROVE  Binned(t, G, n, v, b)
<1>0. G \in Seq(EventRec) /\ Len(F) <= Len(G) /\ Len(F) \in Nat /\ Len(G) \in Nat
  BY EventsAre DEF Grown
<1>1. \A i \in 1 .. Len(F) : G[i] = F[i]
  BY DEF Grown
<1>2. \A i \in 1 .. Len(F) : Renews(F, i, n, v) => i \in 1 .. Len(G) /\ Renews(G, i, n, v)
  BY <1>0, <1>1 DEF Renews, Covers
<1>3. s[n].ver \in Nat /\ t[n].ver \in Nat
  BY DEF Link
<1>4. CASE t[n] = s[n]
  BY <1>2, <1>4 DEF Binned, Exists
<1>5. CASE t[n] # s[n]
  <2>1. PICK j \in Len(F) + 1 .. Len(G) : Covers(G, j, n)
    BY <1>5 DEF Grown
  <2>2. t[n].ver = s[n].ver + 1
    BY <1>5 DEF Grown
  <2>3. G[j].at[n] = t[n].ver /\ G[j].type \in {"updated", "created", "deleted"} /\ G[j].type # "created"
    BY <2>1, <1>3 DEF Grown, Covers
  <2>4. Exists(t, n) => G[j].type = "updated"
    BY <2>1, <2>3 DEF Grown, Covers
  <2>5. v < G[j].at[n]
    BY <2>2, <2>3, <1>3
  <2> QED
    BY <2>1, <2>4, <2>5, <1>0 DEF Renews, Binned
<1> QED
  BY <1>4, <1>5


\* Nodes that are gone stay as they are.
LEMMA GrownGone ==
    ASSUME NEW s \in [Nodes -> Link], NEW t \in [Nodes -> Link], NEW F, NEW G,
           Grown(s, t, F, G)
    PROVE  \A n \in Nodes : /\ s[n].ver <= t[n].ver
                            /\ s[n].ver >= 1 => t[n].ver >= 1
                            /\ s[n].ver >= 1 /\ ~Exists(s, n) => t[n] = s[n] /\ ~Exists(t, n)
<1> SUFFICES ASSUME NEW n \in Nodes
             PROVE  /\ s[n].ver <= t[n].ver
                    /\ s[n].ver >= 1 => t[n].ver >= 1
                    /\ s[n].ver >= 1 /\ ~Exists(s, n) => t[n] = s[n] /\ ~Exists(t, n)
  OBVIOUS
<1>1. s[n].ver \in Nat /\ t[n].ver \in Nat
  BY DEF Link
<1>2. CASE t[n] = s[n]
  BY <1>1, <1>2 DEF Exists
<1>3. CASE t[n] # s[n]
  BY <1>1, <1>3 DEF Grown
<1> QED
  BY <1>2, <1>3

\* Every event that waits, old or new, tells of the node as the server then has it, or a
\* later one does (Execute appends to the feed).
LEMMA GrownFeed ==
    ASSUME NEW s \in [Nodes -> Link], NEW t \in [Nodes -> Link], NEW F \in Seq(EventRec), NEW G,
           Grown(s, t, F, G), ServerOK(s, {}), FeedOK(s, F, TRUE)
    PROVE  FeedOK(t, G, TRUE)
<1>0. G \in Seq(EventRec) /\ Len(F) <= Len(G) /\ Len(F) \in Nat /\ Len(G) \in Nat
  BY EventsAre DEF Grown
<1>1. \A i \in 1 .. Len(F) : G[i] = F[i] /\ i \in 1 .. Len(G)
  BY <1>0 DEF Grown
<1>2. \A i \in 1 .. Len(G) : /\ DOMAIN G[i].at \subseteq Nodes
                             /\ \A n \in DOMAIN G[i].at : G[i].at[n] \in Nat
  BY <1>0, EventsAre
<1>3. \A n \in Nodes : s[n].ver \in Nat /\ t[n].ver \in Nat
  BY DEF Link
<1>4. ASSUME NEW i \in 1 .. Len(F) PROVE EventOK(t, G, TRUE, i)
  <2>1. EventOK(s, F, TRUE, i) /\ G[i] = F[i]
    BY <1>1 DEF FeedOK
  <2>2. /\ G[i].type \in {"updated", "created"} => DOMAIN G[i].at = {G[i].node}
        /\ G[i].type # "remove"
        /\ G[i].type = "deleted" => G[i].node \in DOMAIN G[i].at
    BY <2>1 DEF EventOK
  <2>3. ASSUME NEW n \in DOMAIN G[i].at
        PROVE  /\ G[i].at[n] <= t[n].ver
               /\ G[i].type # "refresh" => G[i].at[n] >= 1
               /\ G[i].type = "created" => G[i].at[n] = 1
               /\ G[i].type = "deleted" => ~Exists(t, n)
               /\ G[i].type \in {"updated", "created"} /\ G[i].at[n] = t[n].ver =>
                     /\ Exists(t, n)
                     /\ G[i].parent = t[n].parent /\ G[i].trashed = t[n].trashed
               /\ \E j \in i .. Len(G) : Covers(G, j, n) /\ G[j].at[n] = t[n].ver
               /\ G[i].type = "updated" => Placed(t, G, n, G[i].at[n], G[i].parent, i)
    <3>1. n \in Nodes /\ G[i].at[n] \in Nat /\ n \in DOMAIN F[i].at /\ s[n].ver \in Nat /\ t[n].ver \in Nat
      BY <1>1, <1>2, <1>3, <2>1
    <3>2. /\ G[i].at[n] <= s[n].ver
          /\ G[i].type # "refresh" => G[i].at[n] >= 1
          /\ G[i].type = "created" => G[i].at[n] = 1
          /\ G[i].type = "deleted" => ~Exists(s, n)
          /\ G[i].type \in {"updated", "created"} /\ G[i].at[n] = s[n].ver =>
                /\ Exists(s, n)
                /\ G[i].parent = s[n].parent /\ G[i].trashed = s[n].trashed
      BY <2>1, <3>1 DEF EventOK
    <3>3. PICK j \in i .. Len(F) : Covers(F, j, n) /\ F[j].at[n] = s[n].ver
      BY <2>1, <3>1 DEF EventOK
    <3>4. G[i].type = "updated" => Placed(s, F, n, G[i].at[n], G[i].parent, i)
      BY <2>1, <3>1 DEF EventOK
    <3>5. s[n].ver <= t[n].ver /\ (s[n].ver >= 1 /\ ~Exists(s, n) => ~Exists(t, n))
      BY <3>1, GrownGone
    <3>6. G[i].type \in {"updated", "created"} /\ G[i].at[n] = t[n].ver => t[n] = s[n]
      <4> SUFFICES ASSUME G[i].at[n] = t[n].ver, t[n] # s[n] PROVE FALSE
        OBVIOUS
      <4>1. t[n].ver = s[n].ver + 1
        BY <3>1 DEF Grown
      <4> QED
        BY <4>1, <3>1, <3>2
    <3>7. \E l \in i .. Len(G) : Covers(G, l, n) /\ G[l].at[n] = t[n].ver
      <4>1. CASE t[n] = s[n]
        <5>1. j \in i .. Len(G) /\ j \in 1 .. Len(F)
          BY <3>3, <1>0
        <5> QED
          BY <5>1, <3>3, <4>1, <1>1 DEF Covers
      <4>2. CASE t[n] # s[n]
        <5>1. PICK l \in Len(F) + 1 .. Len(G) : Covers(G, l, n)
          BY <4>2, <3>1 DEF Grown
        <5>2. G[l].at[n] = t[n].ver
          BY <5>1 DEF Grown, Covers
        <5> QED
          BY <5>1, <5>2, <1>0
      <4> QED
        BY <4>1, <4>2
    <3>8. G[i].type = "updated" => Placed(t, G, n, G[i].at[n], G[i].parent, i)
      <4> SUFFICES ASSUME G[i].type = "updated" PROVE Placed(t, G, n, G[i].at[n], G[i].parent, i)
        OBVIOUS
      <4>1. s[n].ver >= 1 /\ G[i].at[n] <= s[n].ver /\ i \in 0 .. Len(F)
        BY <3>1, <3>2, <1>0
      <4> QED
        BY <4>1, <3>1, <3>4, GrownPlaced
    <3> QED
      BY <3>1, <3>2, <3>5, <3>6, <3>7, <3>8 DEF Exists
  <2> QED
    BY <2>2, <2>3 DEF EventOK
<1>5. ASSUME NEW i \in Len(F) + 1 .. Len(G) PROVE EventOK(t, G, TRUE, i)
  <2>0. i \in 1 .. Len(G)
    BY <1>0
  <2>1. /\ G[i].type \in {"updated", "created", "deleted"}
        /\ G[i].type \in {"updated", "created"} =>
              /\ DOMAIN G[i].at = {G[i].node} /\ G[i].node \in Nodes
              /\ Exists(t, G[i].node)
              /\ G[i].parent = t[G[i].node].parent /\ G[i].trashed = t[G[i].node].trashed
        /\ G[i].type = "deleted" => G[i].node \in DOMAIN G[i].at
    BY DEF Grown
  <2>2. ASSUME NEW n \in DOMAIN G[i].at
        PROVE  /\ G[i].at[n] <= t[n].ver
               /\ G[i].type # "refresh" => G[i].at[n] >= 1
               /\ G[i].type = "created" => G[i].at[n] = 1
               /\ G[i].type = "deleted" => ~Exists(t, n)
               /\ G[i].type \in {"updated", "created"} /\ G[i].at[n] = t[n].ver =>
                     /\ Exists(t, n)
                     /\ G[i].parent = t[n].parent /\ G[i].trashed = t[n].trashed
               /\ \E j \in i .. Len(G) : Covers(G, j, n) /\ G[j].at[n] = t[n].ver
               /\ G[i].type = "updated" => Placed(t, G, n, G[i].at[n], G[i].parent, i)
    <3>1. n \in Nodes /\ s[n].ver \in Nat /\ t[n].ver \in Nat
      BY <1>2, <1>3, <2>0
    <3>2. /\ t[n] # s[n] /\ G[i].at[n] = t[n].ver
          /\ G[i].type = "created" => s[n].ver = 0
          /\ G[i].type = "deleted" => ~Exists(t, n)
      BY DEF Grown
    <3>3. t[n].ver = s[n].ver + 1
      BY <3>1, <3>2 DEF Grown
    <3>4. G[i].type \in {"updated", "created"} => n = G[i].node
      BY <2>1
    <3>5. G[i].type = "updated" => Placed(t, G, n, G[i].at[n], G[i].parent, i)
      <4> SUFFICES ASSUME G[i].type = "updated" PROVE Placed(t, G, n, G[i].at[n], G[i].parent, i)
        OBVIOUS
      <4>1. G[i].parent = t[n].parent /\ Exists(t, n)
        BY <2>1, <3>4
      <4>2. \A d \in i + 1 .. Len(G) : ~(Covers(G, d, n) /\ G[d].type = "deleted")
        <5> SUFFICES ASSUME NEW d \in i + 1 .. Len(G), Covers(G, d, n), G[d].type = "deleted" PROVE FALSE
          OBVIOUS
        <5>1. d \in Len(F) + 1 .. Len(G) /\ n \in DOMAIN G[d].at
          BY <1>0 DEF Covers
        <5>2. ~Exists(t, n)
          BY <5>1 DEF Grown
        <5> QED
          BY <5>2, <4>1
      <4> QED
        BY <4>1, <4>2 DEF Placed
    <3>6. i \in i .. Len(G) /\ Covers(G, i, n)
      BY <2>0, <1>0 DEF Covers
    <3> QED
      BY <2>1, <3>1, <3>2, <3>3, <3>4, <3>5, <3>6
  <2> QED
    BY <2>1, <2>2 DEF EventOK
<1>6. \A i \in 1 .. Len(G) : i \in 1 .. Len(F) \/ i \in Len(F) + 1 .. Len(G)
  BY <1>0
<1>7. \A i \in 1 .. Len(G) : EventOK(t, G, TRUE, i)
  BY <1>4, <1>5, <1>6
<1> QED
  BY <1>7 DEF FeedOK

\* What the cache was told of, what a call has read, the entries and the listings: a
\* change of the server that its events cover leaves each of them right or to be put right.
LEMMA GrownRest ==
    ASSUME NEW s \in [Nodes -> Link], NEW t \in [Nodes -> Link], NEW F \in Seq(EventRec), NEW G,
           Grown(s, t, F, G), ServerOK(s, {}), NEW n \in Nodes
    PROVE  /\ \A h \in Nat : ToldOK(s, F, TRUE, h, n) => ToldOK(t, G, TRUE, h, n)
           /\ \A h \in Nat, x \in Link : ReadOK(s, F, TRUE, h, n, x) => ReadOK(t, G, TRUE, h, n, x)
           /\ \A h \in Nat, x \in Entry, l, o, y \in SUBSET Nodes :
                 EntryOK(s, F, TRUE, h, n, x, l, o, y) => EntryOK(t, G, TRUE, h, n, x, l, o, y)
           /\ \A C, E, p, Z : Listed(s, F, C, E, n, p, Z) => Listed(t, G, C, E, n, p, Z)
<1>0. G \in Seq(EventRec) /\ Len(F) <= Len(G) /\ Len(F) \in Nat /\ Len(G) \in Nat
  BY EventsAre DEF Grown
<1>1. \A i \in 1 .. Len(F) : G[i] = F[i] /\ i \in 1 .. Len(G)
  BY <1>0 DEF Grown
<1>2. s[n].ver \in Nat /\ t[n].ver \in Nat /\ s[n].ver <= t[n].ver
  BY GrownGone DEF Link
<1>3. t[n] # s[n] => /\ t[n].ver = s[n].ver + 1
                     /\ s[n].ver >= 1 => Exists(s, n)
                     /\ \E i \in Len(F) + 1 .. Len(G) : Covers(G, i, n) /\ G[i].at[n] = t[n].ver
                           /\ (~Exists(t, n) => G[i].type = "deleted")
  <2> SUFFICES ASSUME t[n] # s[n]
               PROVE  /\ t[n].ver = s[n].ver + 1
                      /\ s[n].ver >= 1 => Exists(s, n)
                      /\ \E i \in Len(F) + 1 .. Len(G) : Covers(G, i, n) /\ G[i].at[n] = t[n].ver
                            /\ (~Exists(t, n) => G[i].type = "deleted")
    OBVIOUS
  <2>1. /\ t[n].ver = s[n].ver + 1
        /\ s[n].ver >= 1 => Exists(s, n)
    BY DEF Grown
  <2>2. PICK i \in Len(F) + 1 .. Len(G) : Covers(G, i, n)
    BY DEF Grown
  <2>3. G[i].at[n] = t[n].ver
    BY <2>2 DEF Grown, Covers
  <2>4. ~Exists(t, n) => G[i].type = "deleted"
    BY <2>2 DEF Grown, Covers
  <2> QED
    BY <2>1, <2>2, <2>3, <2>4
<1>4. ASSUME NEW h \in Nat, ToldOK(s, F, TRUE, h, n) PROVE ToldOK(t, G, TRUE, h, n)
  <2>1. h <= t[n].ver
    BY <1>2, <1>4 DEF ToldOK
  <2>2. CASE t[n] = s[n]
    <3>1. \A i \in 1 .. Len(F) : Covers(F, i, n) => Covers(G, i, n) /\ G[i] = F[i] /\ i \in 1 .. Len(G)
      BY <1>1 DEF Covers
    <3> QED
      BY <2>1, <2>2, <3>1, <1>4 DEF ToldOK
  <2>3. CASE t[n] # s[n]
    BY <2>1, <2>3, <1>3, <1>0 DEF ToldOK
  <2> QED
    BY <2>2, <2>3
<1>5. ASSUME NEW h \in Nat, NEW x \in Link, ReadOK(s, F, TRUE, h, n, x) PROVE ReadOK(t, G, TRUE, h, n, x)
  <2>1. /\ x.ver \in Nat /\ x.ver >= 1 /\ x.ver <= s[n].ver /\ x.parent # None
        /\ x.ver = s[n].ver => x.parent = s[n].parent /\ x.trashed = s[n].trashed
        /\ x.ver >= h => Placed(s, F, n, x.ver, x.parent, 0) /\ Binned(s, F, n, x.ver, x.trashed)
    BY <1>5 DEF ReadOK, Link
  <2>2. x.ver <= t[n].ver /\ s[n].ver >= 1 /\ 0 \in 0 .. Len(F)
    BY <2>1, <1>2, <1>0
  <2>3. x.ver = t[n].ver => x.parent = t[n].parent /\ x.trashed = t[n].trashed
    BY <2>1, <1>2, <1>3
  <2>4. x.ver >= h => Placed(t, G, n, x.ver, x.parent, 0)
    BY <2>1, <2>2, GrownPlaced
  <2>5. x.ver >= h => Binned(t, G, n, x.ver, x.trashed)
    BY <2>1, <2>2, GrownBinned
  <2> QED
    BY <2>1, <2>2, <2>3, <2>4, <2>5 DEF ReadOK
<1>6. ASSUME NEW h \in Nat, NEW x \in Entry, NEW l \in SUBSET Nodes, NEW o \in SUBSET Nodes, NEW y \in SUBSET Nodes,
             EntryOK(s, F, TRUE, h, n, x, l, o, y)
      PROVE  EntryOK(t, G, TRUE, h, n, x, l, o, y)
  <2> SUFFICES ASSUME x.parent # None PROVE EntryOK(t, G, TRUE, h, n, x, l, o, y)
    BY DEF EntryOK
  <2>1. /\ x.ver >= 1 /\ s[n].ver >= 1
        /\ n \in o => x.stale
        /\ x.stale \/ x.ver >= h \/ n \in l \cup y
    BY <1>6 DEF EntryOK
  <2>2. n \notin l \cup o => Placed(s, F, n, 0, x.parent, 0) /\ Binned(s, F, n, 0, x.trashed)
    BY <1>6 DEF EntryOK
  <2>3. ~Exists(s, n) => \/ n \in l \cup o \cup y
                         \/ \E i \in 1 .. Len(F) : Covers(F, i, n) /\ F[i].type \in {"deleted", "refresh"}
    BY <1>6 DEF EntryOK
  <2>4. t[n].ver >= 1
    BY <2>1, <1>2
  <2>5. n \notin l \cup o => Placed(t, G, n, 0, x.parent, 0)
    BY <2>1, <2>2, <1>0, <1>2, GrownPlaced
  <2>6. n \notin l \cup o => Binned(t, G, n, 0, x.trashed)
    BY <2>1, <2>2, <1>0, <1>2, GrownBinned
  <2>7. ~Exists(t, n) => \/ n \in l \cup o \cup y
                         \/ \E i \in 1 .. Len(G) : Covers(G, i, n) /\ G[i].type \in {"deleted", "refresh"}
    <3>1. CASE t[n] = s[n]
      <4>1. \A i \in 1 .. Len(F) : Covers(F, i, n) => Covers(G, i, n) /\ G[i] = F[i] /\ i \in 1 .. Len(G)
        BY <1>1 DEF Covers
      <4> QED
        BY <4>1, <3>1, <2>3 DEF Exists
    <3>2. CASE t[n] # s[n]
      BY <3>2, <1>3, <1>0
    <3> QED
      BY <3>1, <3>2
  <2> HIDE DEF EventRec
  <2> QED
    BY <2>1, <2>4, <2>5, <2>6, <2>7 DEF EntryOK
<1>7. ASSUME NEW C, NEW E, NEW p, NEW Z, Listed(s, F, C, E, n, p, Z) PROVE Listed(t, G, C, E, n, p, Z)
  <2>1. CASE t[n] = s[n]
    BY <2>1, <1>7, <1>1 DEF Listed
  <2>2. CASE t[n] # s[n]
    BY <2>2, <1>3, <1>0 DEF Listed, Covers
  <2> QED
    BY <2>1, <2>2
<1> QED
  BY <1>4, <1>5, <1>6, <1>7

\* A call in progress bears a change of the server by somebody else.
LEMMA GrownCall ==
    ASSUME NEW s \in [Nodes -> Link], NEW t \in [Nodes -> Link], NEW F \in Seq(EventRec), NEW G,
           Grown(s, t, F, G), ServerOK(s, {}),
           NEW h \in [Nodes -> Nat], NEW C, NEW E, NEW f, NEW r \in CallRec,
           CallOK(s, F, TRUE, h, C, E, f, r)
    PROVE  CallOK(t, G, TRUE, h, C, E, f, r)
<1>0. Len(F) \in Nat
  BY EventsAre
<1>1. /\ r.node \in Nodes \cup {Root} /\ r.base \in Nat /\ r.todo \subseteq Nodes /\ r.step \in Steps
  BY DEF CallRec
<1>2. \A n \in Nodes : h[n] \in Nat /\ s[n].ver \in Nat /\ t[n].ver \in Nat
  BY DEF Link
<1>3. r.step = "got" => r.got \in Link /\ ReadOK(t, G, TRUE, h[r.node], r.node, r.got)
  <2> SUFFICES ASSUME r.step = "got" PROVE r.got \in Link /\ ReadOK(t, G, TRUE, h[r.node], r.node, r.got)
    OBVIOUS
  <2>1. r.node \in Nodes /\ r.got \in Link /\ ReadOK(s, F, TRUE, h[r.node], r.node, r.got)
    BY DEF CallOK
  <2>2. \A n \in Nodes, x \in Link :
           ReadOK(s, F, TRUE, h[n], n, x) => ReadOK(t, G, TRUE, h[n], n, x)
    BY <1>2, GrownRest
  <2> QED
    BY <2>1, <2>2
<1>4. r.step = "store" =>
          /\ DOMAIN r.got \subseteq r.todo /\ r.got \in [DOMAIN r.got -> Link]
          /\ \A n \in DOMAIN r.got : ReadOK(t, G, TRUE, h[n], n, r.got[n])
          /\ \A n \in r.todo \ DOMAIN r.got : (~Exists(t, n) /\ t[n].ver >= 1) \/ n \in f
  <2> SUFFICES ASSUME r.step = "store"
               PROVE  /\ DOMAIN r.got \subseteq r.todo /\ r.got \in [DOMAIN r.got -> Link]
                      /\ \A n \in DOMAIN r.got : ReadOK(t, G, TRUE, h[n], n, r.got[n])
                      /\ \A n \in r.todo \ DOMAIN r.got : (~Exists(t, n) /\ t[n].ver >= 1) \/ n \in f
    OBVIOUS
  <2>1. /\ DOMAIN r.got \subseteq r.todo /\ r.got \in [DOMAIN r.got -> Link]
        /\ \A n \in DOMAIN r.got : ReadOK(s, F, TRUE, h[n], n, r.got[n])
        /\ \A n \in r.todo \ DOMAIN r.got : (~Exists(s, n) /\ s[n].ver >= 1) \/ n \in f
    BY DEF CallOK
  <2>2. ASSUME NEW n \in DOMAIN r.got PROVE ReadOK(t, G, TRUE, h[n], n, r.got[n])
    <3>1. n \in Nodes /\ r.got[n] \in Link /\ h[n] \in Nat /\ ReadOK(s, F, TRUE, h[n], n, r.got[n])
      BY <2>1, <1>1, <1>2
    <3> QED
      BY <3>1, GrownRest
  <2>3. ASSUME NEW n \in r.todo \ DOMAIN r.got PROVE (~Exists(t, n) /\ t[n].ver >= 1) \/ n \in f
    <3>1. n \in Nodes
      BY <1>1
    <3> QED
      BY <3>1, <2>1, GrownGone
  <2> QED
    BY <2>1, <2>2, <2>3
<1>5. r.step \in {"sent", "write"} =>
          /\ r.node \in Nodes => r.base <= t[r.node].ver
          /\ r.kind = "delete" => ~Exists(t, r.node) /\ t[r.node].ver >= 1
          /\ r.kind = "move" =>
                /\ t[r.node].ver >= 1
                /\ r.base >= h[r.node] => Placed(t, G, r.node, r.base, r.to, 0)
  <2> SUFFICES ASSUME r.step \in {"sent", "write"}
               PROVE  /\ r.node \in Nodes => r.base <= t[r.node].ver
                      /\ r.kind = "delete" => ~Exists(t, r.node) /\ t[r.node].ver >= 1
                      /\ r.kind = "move" =>
                            /\ t[r.node].ver >= 1
                            /\ r.base >= h[r.node] => Placed(t, G, r.node, r.base, r.to, 0)
    OBVIOUS
  <2>1. r.node \in Nodes => r.base <= s[r.node].ver /\ s[r.node].ver <= t[r.node].ver
    BY GrownGone DEF CallOK
  <2>2. r.kind = "delete" => ~Exists(t, r.node) /\ t[r.node].ver >= 1
    BY GrownGone DEF CallOK
  <2>3. ASSUME r.kind = "move"
        PROVE  t[r.node].ver >= 1 /\ (r.base >= h[r.node] => Placed(t, G, r.node, r.base, r.to, 0))
    <3>1. /\ r.node \in Nodes /\ s[r.node].ver >= 1
          /\ r.base >= h[r.node] => Placed(s, F, r.node, r.base, r.to, 0)
      BY <2>3 DEF CallOK
    <3>2. r.base <= s[r.node].ver /\ 0 \in 0 .. Len(F)
      BY <3>1, <2>1, <1>0
    <3> QED
      BY <3>1, <3>2, <1>1, GrownGone, GrownPlaced
  <2> QED
    BY <2>1, <2>2, <2>3, <1>1, <1>2
<1>6. r.step \in {"batch", "store"} /\ r.flag =>
          /\ r.kind = "list" /\ r.node \in Folders
          /\ ~r.dirty =>
                \A n \in Nodes : Listed(t, G, C, E, n, r.node, IF r.step = "batch" THEN r.todo ELSE DOMAIN r.got)
  BY GrownRest DEF CallOK
<1>7. /\ r.step \in {"get", "got"} => r.node \in Nodes
      /\ r.kind \in {"list", "folders"} => r.node \in Folders
      /\ r.kind \in {"nodes", "rename", "move", "trash", "restore", "delete"} =>
            r.node \in Nodes /\ t[r.node].ver >= 1
      /\ r.step = "batch" => \A n \in r.todo : t[n].ver >= 1
      /\ WriteOK(r)
  <2>1. \A n \in Nodes : s[n].ver >= 1 => t[n].ver >= 1
    BY GrownGone
  <2> QED
    BY <1>1, <2>1 DEF CallOK
<1> QED
  BY <1>3, <1>4, <1>5, <1>6, <1>7 DEF CallOK

\* The server changes and appends its events, while this client does nothing.
LEMMA GrownInv ==
    ASSUME CacheInv, access = TRUE, access' = TRUE, NEW t \in [Nodes -> Link], NEW G,
           Grown(server, t, feed, G), server' = t, feed' = G, changes' \in 0 .. MaxChanges,
           UNCHANGED <<cache, loaded, updating, started, nodesHistory>>,
           call' \in [Calls -> CallRec],
           \A c \in Calls : CallOK(t, G, TRUE, handled, cache, Excused, filtered, call'[c])
    PROVE  CacheInv'
<1>1. CacheTypes'
  BY DEF CacheInv, CacheTypes, Grown, nodesHistory
<1>2. server \in [Nodes -> Link] /\ feed \in Seq(EventRec) /\ handled \in [Nodes -> Nat] /\ cache \in [Nodes -> Entry]
  BY DEF CacheInv, CacheTypes
<1>3. ServerOK(server, astray) /\ ServerOK(server, {})
  BY DEF CacheInv, ServerOK
<1>4. ServerOK(t, astray)
  <2> SUFFICES ASSUME NEW n \in Nodes
               PROVE  /\ Exists(t, n) => t[n].ver >= 1
                      /\ n \in astray => ~Exists(t, n) /\ t[n].ver >= 1
    BY DEF ServerOK
  <2>1. Exists(t, n) => t[n].ver >= 1
    <3>1. CASE t[n] = server[n]
      BY <3>1, <1>3 DEF ServerOK, Exists
    <3>2. CASE t[n] # server[n]
      <4>1. t[n].ver = server[n].ver + 1 /\ server[n].ver \in Nat
        BY <3>2, <1>2 DEF Grown, Link
      <4> QED
        BY <4>1
    <3> QED
      BY <3>1, <3>2
  <2>2. n \in astray => ~Exists(t, n) /\ t[n].ver >= 1
    BY <1>2, <1>3, GrownGone DEF ServerOK
  <2> QED
    BY <2>1, <2>2
<1>5. FeedOK(t, G, TRUE)
  BY <1>2, <1>3, GrownFeed DEF CacheInv
<1>6. \A n \in Nodes : ToldOK(t, G, TRUE, handled[n], n)
  BY <1>2, <1>3, GrownRest DEF CacheInv
<1>7. \A n \in Nodes : EntryOK(t, G, TRUE, handled[n], n, cache[n], late, lost, astray)
  <2> SUFFICES ASSUME NEW n \in Nodes PROVE EntryOK(t, G, TRUE, handled[n], n, cache[n], late, lost, astray)
    OBVIOUS
  <2>1. EntryOK(server, feed, TRUE, handled[n], n, cache[n], late, lost, astray)
    BY DEF CacheInv
  <2>2. handled[n] \in Nat /\ cache[n] \in Entry
    BY <1>2
  <2>3. late \in SUBSET Nodes /\ lost \in SUBSET Nodes /\ astray \in SUBSET Nodes
    BY DEF CacheInv, CacheTypes
  <2> QED
    BY <2>1, <2>2, <2>3, <1>2, <1>3, GrownRest
<1>8. \A p \in loaded \ lateLists, n \in Nodes : Listed(t, G, cache, Excused, n, p, {})
  <2> SUFFICES ASSUME NEW p \in loaded \ lateLists, NEW n \in Nodes PROVE Listed(t, G, cache, Excused, n, p, {})
    OBVIOUS
  <2>1. Listed(server, feed, cache, Excused, n, p, {})
    BY DEF CacheInv
  <2> QED
    BY <2>1, <1>2, <1>3, GrownRest
<1>9. Excused' = Excused
  BY DEF Excused, nodesHistory
<1>10. UpdatingOK(updating, G)
  <2> SUFFICES ASSUME updating # NotCached PROVE G # <<>> /\ G[1].type = "updated" /\ updating.ver >= 1
    BY DEF UpdatingOK
  <2>1. feed # <<>> /\ feed[1].type = "updated" /\ updating.ver >= 1
    BY DEF CacheInv, UpdatingOK
  <2>2. 1 \in 1 .. Len(feed) /\ Len(feed) <= Len(G) /\ G[1] = feed[1] /\ G \in Seq(EventRec)
    BY <1>2, <2>1, TailIs DEF Grown
  <2>3. G # <<>>
    BY <2>2, EmptySeq
  <2> QED
    BY <2>1, <2>2, <2>3
<1> QED
  BY <1>1, <1>4, <1>5, <1>6, <1>7, <1>8, <1>9, <1>10 DEF CacheInv, nodesHistory

\* Subtree(par, S) is the least set of nodes that holds S and what lies under it.
LEMMA SubtreeIs ==
    ASSUME NEW par, NEW S
    PROVE  /\ Subtree(par, S) \subseteq Nodes
           /\ \A m \in Nodes : m \in S \/ par[m] \in S \cup Subtree(par, S) => m \in Subtree(par, S)
           /\ \A T \in SUBSET Nodes :
                 (\A m \in Nodes : m \in S \/ par[m] \in S \cup T => m \in T) => Subtree(par, S) \subseteq T
<1>1. Subtree(par, S) \subseteq Nodes
  BY DEF Subtree
<1>2. ASSUME NEW T \in SUBSET Nodes, \A m \in Nodes : m \in S \/ par[m] \in S \cup T => m \in T
      PROVE  Subtree(par, S) \subseteq T
  BY <1>2 DEF Subtree
<1>3. ASSUME NEW m \in Nodes, m \in S \/ par[m] \in S \cup Subtree(par, S)
      PROVE  m \in Subtree(par, S)
  <2> SUFFICES ASSUME NEW T \in SUBSET Nodes,
                      \A l \in Nodes : l \in S \/ par[l] \in S \cup T => l \in T
               PROVE  m \in T
    BY DEF Subtree
  <2>1. Subtree(par, S) \subseteq T
    BY <1>2
  <2> QED
    BY <2>1, <1>3
<1> QED
  BY <1>1, <1>2, <1>3

\* Deleting takes the nodes, and what lies under them, away.
LEMMA DeleteLinksIs ==
    ASSUME NEW s \in [Nodes -> Link], NEW S
    PROVE  /\ DeleteLinks(s, S) \in [Nodes -> Link]
           /\ \A m \in Nodes : LET t == DeleteLinks(s, S) IN
                IF m \in Subtree([l \in Nodes |-> s[l].parent], S) /\ Exists(s, m)
                  THEN t[m].ver = s[m].ver + 1 /\ ~Exists(t, m) /\ t[m] # s[m]
                  ELSE t[m] = s[m]
<1> DEFINE away == Subtree([l \in Nodes |-> s[l].parent], S)
<1> DEFINE t == DeleteLinks(s, S)
<1>1. t = [m \in Nodes |-> IF m \in away /\ Exists(s, m)
                             THEN [parent |-> None, trashed |-> FALSE, ver |-> s[m].ver + 1]
                             ELSE s[m]]
  BY DEF DeleteLinks
<1> HIDE DEF t, away
<1>2. ASSUME NEW m \in Nodes
      PROVE  /\ t[m] \in Link
             /\ IF m \in away /\ Exists(s, m)
                  THEN t[m].ver = s[m].ver + 1 /\ ~Exists(t, m) /\ t[m] # s[m]
                  ELSE t[m] = s[m]
  <2>1. s[m] \in Link /\ s[m].ver \in Nat
    BY DEF Link
  <2>2. CASE m \in away /\ Exists(s, m)
    <3>1. t[m] = [parent |-> None, trashed |-> FALSE, ver |-> s[m].ver + 1]
      BY <1>1, <2>2
    <3>2. t[m] \in Link /\ t[m].ver = s[m].ver + 1 /\ t[m].parent = None
      BY <3>1, <2>1 DEF Link
    <3>3. t[m] # s[m]
      BY <3>2, <2>1
    <3> QED
      BY <2>2, <3>2, <3>3 DEF Exists
  <2>3. CASE ~(m \in away /\ Exists(s, m))
    BY <1>1, <2>1, <2>3
  <2> QED
    BY <2>2, <2>3
<1>3. t \in [Nodes -> Link]
  BY <1>1, <1>2
<1> QED
  BY <1>2, <1>3 DEF t, away

\* The event of a change.
LEMMA EventIs ==
    ASSUME NEW t \in [Nodes -> Link], server \in [Nodes -> Link], NEW n \in Nodes,
           NEW type \in {"updated", "created", "deleted"}, NEW S \in SUBSET Nodes
    PROVE  LET e == Event(type, t, n, S) IN
             /\ e \in EventRec /\ e.type = type /\ e.node = n
             /\ e.parent = t[n].parent /\ e.trashed = t[n].trashed
             /\ DOMAIN e.at = S
             /\ \A m \in S : e.at[m] = t[m].ver /\ e.was[m] = server[m].parent
<1> DEFINE e == Event(type, t, n, S)
<1>1. e = [type |-> type, node |-> n, parent |-> t[n].parent, trashed |-> t[n].trashed,
           at |-> [m \in S |-> t[m].ver], was |-> [m \in S |-> server[m].parent]]
  BY DEF Event
<1>2. [m \in S |-> t[m].ver] \in [S -> Nat]
  BY DEF Link
<1>3. [m \in S |-> server[m].parent] \in [S -> Folders \cup {None}]
  BY DEF Link
<1>4. t[n].parent \in Folders \cup {None} /\ t[n].trashed \in BOOLEAN
  BY DEF Link
<1>5. [m \in S |-> t[m].ver] \in UNION {[Z -> Nat] : Z \in SUBSET Nodes}
  BY <1>2
<1>6. [m \in S |-> server[m].parent] \in UNION {[Z -> Folders \cup {None}] : Z \in SUBSET Nodes}
  BY <1>3
<1>7. e \in EventRec
  BY <1>1, <1>4, <1>5, <1>6 DEF EventRec
<1> QED
  BY <1>1, <1>7

\* A rename, move, trash, restore or creation: one node changes, and an event tells of it.
LEMMA TouchGrown ==
    ASSUME CacheInv, NEW n \in Nodes, NEW p \in Folders, NEW b \in BOOLEAN,
           NEW type \in {"updated", "created"},
           type = "updated" => Exists(server, n), type = "created" => server[n].ver = 0
    PROVE  LET t == Touch(server, n, p, b) IN
             /\ t \in [Nodes -> Link]
             /\ Grown(server, t, feed, feed \o <<Event(type, t, n, Changed(server, t))>>)
             /\ t[n].parent = p /\ Exists(t, n) /\ t[n].ver >= 1
<1> DEFINE t == Touch(server, n, p, b)
<1> DEFINE e == Event(type, t, n, Changed(server, t))
<1> DEFINE G == feed \o <<e>>
<1>1. server \in [Nodes -> Link] /\ feed \in Seq(EventRec)
  BY DEF CacheInv, CacheTypes
<1>2. server[n].ver \in Nat /\ (Exists(server, n) => server[n].ver >= 1)
  BY <1>1 DEF CacheInv, ServerOK, Link
<1>3. t = [server EXCEPT ![n] = [parent |-> p, trashed |-> b, ver |-> server[n].ver + 1]]
  BY DEF Touch
<1>4. [parent |-> p, trashed |-> b, ver |-> server[n].ver + 1] \in Link
  BY <1>2 DEF Link
<1> HIDE DEF t
<1>5. t \in [Nodes -> Link]
  BY <1>1, <1>3, <1>4
<1>6. t[n].parent = p /\ t[n].ver = server[n].ver + 1 /\ t[n].ver >= 1 /\ t[n] # server[n]
  <2>1. t[n] = [parent |-> p, trashed |-> b, ver |-> server[n].ver + 1]
    BY <1>1, <1>3
  <2> QED
    BY <2>1, <1>2
<1>7. \A m \in Nodes \ {n} : t[m] = server[m]
  BY <1>1, <1>3
<1>8. Exists(t, n)
  BY <1>6, NodesAssumption DEF Exists, None, Folders
<1>9. Changed(server, t) = {n}
  BY <1>6, <1>7 DEF Changed
<1>10. /\ e \in EventRec /\ e.type = type /\ e.node = n
       /\ e.parent = t[n].parent /\ e.trashed = t[n].trashed
       /\ DOMAIN e.at = {n} /\ e.at[n] = t[n].ver
  <2>1. {n} \in SUBSET Nodes /\ e = Event(type, t, n, {n})
    BY <1>9
  <2> HIDE DEF e
  <2> QED
    BY <2>1, <1>1, <1>5, EventIs
<1> HIDE DEF e
<1>11. G \in Seq(EventRec) /\ Len(G) = Len(feed) + 1 /\ Len(feed) \in Nat
       /\ (\A i \in 1 .. Len(feed) : G[i] = feed[i]) /\ G[Len(feed) + 1] = e
  BY <1>1, <1>10
<1> HIDE DEF G
<1>12. Grown(server, t, feed, G)
  <2>1. ASSUME NEW i \in Len(feed) + 1 .. Len(G) PROVE G[i] = e
    BY <1>11
  <2>2. \A i \in Len(feed) + 1 .. Len(G) :
          /\ G[i].type \in {"updated", "created", "deleted"}
          /\ G[i].type \in {"updated", "created"} =>
                /\ DOMAIN G[i].at = {G[i].node} /\ G[i].node \in Nodes
                /\ Exists(t, G[i].node)
                /\ G[i].parent = t[G[i].node].parent /\ G[i].trashed = t[G[i].node].trashed
          /\ G[i].type = "deleted" => G[i].node \in DOMAIN G[i].at
    BY <2>1, <1>8, <1>10
  <2>3. \A i \in Len(feed) + 1 .. Len(G) : \A m \in DOMAIN G[i].at :
                /\ t[m] # server[m] /\ G[i].at[m] = t[m].ver
                /\ G[i].type = "created" => server[m].ver = 0
                /\ G[i].type = "deleted" => ~Exists(t, m) /\ G[i].was[m] = server[m].parent
                /\ G[i].type = "updated" => server[m].ver >= 1
    BY <2>1, <1>2, <1>6, <1>10
  <2>4. ASSUME NEW m \in Nodes
        PROVE  \/ t[m] = server[m]
               \/ /\ t[m].ver = server[m].ver + 1
                  /\ server[m].ver >= 1 => Exists(server, m)
                  /\ \E i \in Len(feed) + 1 .. Len(G) : Covers(G, i, m)
    <3>1. CASE m = n
      <4>1. Len(feed) + 1 \in Len(feed) + 1 .. Len(G) /\ Covers(G, Len(feed) + 1, n)
        BY <1>10, <1>11 DEF Covers
      <4> QED
        BY <4>1, <3>1, <1>2, <1>6
    <3>2. CASE m # n
      BY <3>2, <1>7
    <3> QED
      BY <3>1, <3>2
  <2>5. G \in Seq(EventRec) /\ Len(feed) <= Len(G) /\ \A i \in 1 .. Len(feed) : G[i] = feed[i]
    BY <1>11
  <2> QED
    BY <2>2, <2>3, <2>4, <2>5 DEF Grown
<1> QED
  BY <1>5, <1>6, <1>8, <1>12 DEF t, e, G

\* Nodes and what lies under them disappear, and an event tells of each.
LEMMA DeletedGrown ==
    ASSUME CacheInv, NEW S, NEW t, t = DeleteLinks(server, S), NEW E \in Seq(EventRec),
           \A i \in 1 .. Len(E) : E[i].type = "deleted" /\ E[i].node \in DOMAIN E[i].at,
           \A i \in 1 .. Len(E) : \A m \in DOMAIN E[i].at :
              t[m] # server[m] /\ E[i].at[m] = t[m].ver /\ E[i].was[m] = server[m].parent,
           \A m \in Changed(server, t) : \E i \in 1 .. Len(E) : m \in DOMAIN E[i].at
    PROVE  t \in [Nodes -> Link] /\ Grown(server, t, feed, feed \o E)
<1> DEFINE G == feed \o E
<1>1. server \in [Nodes -> Link] /\ feed \in Seq(EventRec)
  BY DEF CacheInv, CacheTypes
<1>2. t \in [Nodes -> Link]
  BY <1>1, DeleteLinksIs
<1>3. \A m \in Nodes : \/ t[m] = server[m]
                       \/ Exists(server, m) /\ ~Exists(t, m) /\ t[m].ver = server[m].ver + 1
  BY <1>1, DeleteLinksIs
<1>4. G \in Seq(EventRec) /\ Len(G) = Len(feed) + Len(E) /\ Len(feed) \in Nat /\ Len(E) \in Nat
  BY <1>1
<1>5. \A i \in 1 .. Len(feed) : G[i] = feed[i]
  BY <1>1
<1>6. \A i \in 1 .. Len(E) : G[Len(feed) + i] = E[i]
  BY <1>1
<1> HIDE DEF G
<1>7. ASSUME NEW i \in Len(feed) + 1 .. Len(G)
      PROVE  /\ G[i].type = "deleted" /\ G[i].node \in DOMAIN G[i].at
             /\ \A m \in DOMAIN G[i].at :
                   /\ t[m] # server[m] /\ G[i].at[m] = t[m].ver
                   /\ ~Exists(t, m) /\ G[i].was[m] = server[m].parent
  <2>1. i - Len(feed) \in 1 .. Len(E) /\ i = Len(feed) + (i - Len(feed))
    BY <1>4
  <2>2. PICK j \in 1 .. Len(E) : i = Len(feed) + j
    BY <2>1
  <2>3. G[i] = E[j]
    BY <1>6, <2>2
  <2>4. DOMAIN G[i].at \subseteq Nodes
    BY <2>3, EventsAre
  <2> QED
    BY <2>3, <2>4, <1>3
<1>8. ASSUME NEW m \in Nodes, t[m] # server[m]
      PROVE  \E i \in Len(feed) + 1 .. Len(G) : Covers(G, i, m)
  <2>1. PICK j \in 1 .. Len(E) : m \in DOMAIN E[j].at
    BY <1>8 DEF Changed
  <2>2. Len(feed) + j \in Len(feed) + 1 .. Len(G) /\ Len(feed) + j \in 1 .. Len(G)
    BY <1>4
  <2> QED
    BY <2>1, <2>2, <1>6 DEF Covers
<1>9. \A m \in Nodes :
        \/ t[m] = server[m]
        \/ /\ t[m].ver = server[m].ver + 1
           /\ server[m].ver >= 1 => Exists(server, m)
           /\ \E i \in Len(feed) + 1 .. Len(G) : Covers(G, i, m)
  BY <1>3, <1>8
<1>10. Len(feed) <= Len(G)
  BY <1>4
<1>11. Grown(server, t, feed, G)
  BY <1>4, <1>5, <1>7, <1>9, <1>10 DEF Grown
<1> QED
  BY <1>2, <1>11 DEF G

\* One trashed node is deleted.
LEMMA DeleteGrown ==
    ASSUME CacheInv, NEW n \in Nodes, Exists(server, n)
    PROVE  LET t == DeleteLinks(server, {n}) IN
             /\ t \in [Nodes -> Link]
             /\ Grown(server, t, feed, feed \o <<Event("deleted", t, n, Changed(server, t))>>)
             /\ ~Exists(t, n) /\ t[n].ver >= 1
<1> DEFINE t == DeleteLinks(server, {n})
           e == Event("deleted", t, n, Changed(server, t))
           par == [l \in Nodes |-> server[l].parent]
<1>1. server \in [Nodes -> Link]
  BY DEF CacheInv, CacheTypes
<1>2. t \in [Nodes -> Link]
  BY <1>1, DeleteLinksIs
<1>3. n \in Subtree(par, {n})
  BY SubtreeIs
<1>4. t[n] # server[n] /\ ~Exists(t, n) /\ t[n].ver = server[n].ver + 1
  BY <1>1, <1>3, DeleteLinksIs
<1>5. t[n].ver >= 1
  BY <1>1, <1>4 DEF Link
<1> HIDE DEF t
<1>6. Changed(server, t) \in SUBSET Nodes /\ n \in Changed(server, t)
  BY <1>4 DEF Changed
<1>7. /\ e \in EventRec /\ e.type = "deleted" /\ e.node = n
      /\ DOMAIN e.at = Changed(server, t)
      /\ \A m \in Changed(server, t) : e.at[m] = t[m].ver /\ e.was[m] = server[m].parent
  BY <1>1, <1>2, <1>6, EventIs
<1> HIDE DEF e
<1>8. <<e>> \in Seq(EventRec) /\ Len(<<e>>) = 1 /\ <<e>>[1] = e
  BY <1>7
<1>9. \A m \in Changed(server, t) : t[m] # server[m]
  BY DEF Changed
<1> DEFINE E == <<e>>
<1> HIDE DEF E
<1>10. E \in Seq(EventRec) /\ \A i \in 1 .. Len(E) : E[i] = e
  BY <1>8 DEF E
<1>11. \A i \in 1 .. Len(E) : E[i].type = "deleted" /\ E[i].node \in DOMAIN E[i].at
  BY <1>6, <1>7, <1>10
<1>12. \A i \in 1 .. Len(E) : \A m \in DOMAIN E[i].at :
              t[m] # server[m] /\ E[i].at[m] = t[m].ver /\ E[i].was[m] = server[m].parent
  BY <1>7, <1>9, <1>10
<1>13. \A m \in Changed(server, t) : \E i \in 1 .. Len(E) : m \in DOMAIN E[i].at
  BY <1>7, <1>8 DEF E
<1>14. Grown(server, t, feed, feed \o E)
  BY <1>10, <1>11, <1>12, <1>13, DeletedGrown DEF t
<1> QED
  BY <1>2, <1>4, <1>5, <1>14 DEF t, e, E

\* SetToSeq lists every element of a finite set.
LEMMA SetToSeqIs ==
    ASSUME NEW S, IsFiniteSet(S)
    PROVE  /\ SetToSeq(S) \in Seq(S)
           /\ \A x \in S : \E i \in 1 .. Len(SetToSeq(S)) : SetToSeq(S)[i] = x
<1> DEFINE N == Cardinality(S)
<1>1. N \in Nat
  BY FS_CardinalityType
<1>2. PICK f : f \in Bijection(1..N, S)
  BY FS_CardinalityType DEF ExistsBijection
<1>3. f \in [1..N -> S] /\ IsInjective(f)
  BY <1>2 DEF Bijection, Injection, IsInjective
<1>4. SetToSeq(S) \in [1..N -> S] /\ IsInjective(SetToSeq(S))
  BY <1>3 DEF SetToSeq
<1>5. SetToSeq(S) \in Injection(1..N, S)
  BY <1>4 DEF Injection, IsInjective
<1>6. Cardinality(1..N) = N
  BY <1>1, FS_Interval
<1>7. SetToSeq(S) \in Surjection(1..N, S)
  BY <1>5, <1>6, FS_Injection
<1>8. SetToSeq(S) \in Seq(S) /\ Len(SetToSeq(S)) = N
  BY <1>1, <1>4
<1> QED
  BY <1>7, <1>8 DEF Surjection

\* The trash is emptied: an event tells of each trashed node, and of what was under it.
LEMMA EmptyGrown ==
    ASSUME CacheInv
    PROVE  LET t == DeleteLinks(server, TrashedLinks(server))
               tops == SetToSeq(TrashedLinks(server))
           IN /\ t \in [Nodes -> Link]
              /\ Grown(server, t, feed, feed \o
                   [i \in 1 .. Len(tops) |->
                      Event("deleted", t, tops[i], Changed(server, DeleteLinks(server, {tops[i]})))])
<1> DEFINE S == TrashedLinks(server)
           t == DeleteLinks(server, S)
           tops == SetToSeq(S)
           par == [l \in Nodes |-> server[l].parent]
           One(x) == Changed(server, DeleteLinks(server, {x}))
           E == [i \in 1 .. Len(tops) |-> Event("deleted", t, tops[i], One(tops[i]))]
<1>1. server \in [Nodes -> Link]
  BY DEF CacheInv, CacheTypes
<1>2. t \in [Nodes -> Link]
  BY <1>1, DeleteLinksIs
<1>3. S \subseteq Nodes /\ \A x \in S : Exists(server, x)
  BY DEF TrashedLinks
<1>4. IsFiniteSet(S)
  BY <1>3, NodesAssumption, FS_Subset
<1>5. tops \in Seq(S) /\ \A x \in S : \E i \in 1 .. Len(tops) : tops[i] = x
  BY <1>4, SetToSeqIs
<1>6. \A m \in Nodes : m \in Changed(server, t) <=> m \in Subtree(par, S) /\ Exists(server, m)
  BY <1>1, DeleteLinksIs DEF Changed
<1>7. \A x : \A m \in Nodes : m \in One(x) <=> m \in Subtree(par, {x}) /\ Exists(server, m)
  BY <1>1, DeleteLinksIs DEF Changed
<1>8. \A x : One(x) \in SUBSET Nodes
  BY DEF Changed
<1> HIDE DEF S, t, tops, One
<1>9. \A x \in S : Subtree(par, {x}) \subseteq Subtree(par, S)
  <2> SUFFICES ASSUME NEW x \in S PROVE Subtree(par, {x}) \subseteq Subtree(par, S)
    OBVIOUS
  <2> HIDE DEF par
  <2>1. Subtree(par, S) \in SUBSET Nodes
        /\ \A m \in Nodes : m \in {x} \/ par[m] \in {x} \cup Subtree(par, S) => m \in Subtree(par, S)
    BY SubtreeIs
  <2> QED
    BY <2>1, SubtreeIs
<1>10. \A m \in Subtree(par, S) : \E x \in S : m \in Subtree(par, {x})
  <2> HIDE DEF par
  <2> DEFINE T == UNION {Subtree(par, {x}) : x \in S}
  <2>1. T \in SUBSET Nodes
    BY SubtreeIs
  <2>2. \A x \in S : \A m \in Nodes : m = x \/ par[m] \in {x} \cup Subtree(par, {x}) => m \in Subtree(par, {x})
    BY SubtreeIs
  <2>0. \A m : m \in T <=> \E x \in S : m \in Subtree(par, {x})
    OBVIOUS
  <2> HIDE DEF T
  <2>3. ASSUME NEW m \in Nodes, m \in S \/ par[m] \in S \cup T PROVE m \in T
    <3>1. PICK x \in S : m = x \/ par[m] = x \/ par[m] \in Subtree(par, {x})
      BY <2>0, <2>3
    <3>2. m \in Subtree(par, {x})
      BY <2>2, <3>1
    <3> QED
      BY <2>0, <3>2
  <2>4. Subtree(par, S) \subseteq T
    BY <2>1, <2>3, SubtreeIs
  <2> QED
    BY <2>4 DEF T
<1>11. ASSUME NEW i \in 1 .. Len(tops)
       PROVE  /\ tops[i] \in S
              /\ E[i] \in EventRec /\ E[i].type = "deleted" /\ E[i].node = tops[i]
              /\ DOMAIN E[i].at = One(tops[i])
              /\ \A m \in One(tops[i]) : E[i].at[m] = t[m].ver /\ E[i].was[m] = server[m].parent
  <2>1. tops[i] \in S /\ tops[i] \in Nodes
    BY <1>3, <1>5
  <2>2. E[i] = Event("deleted", t, tops[i], One(tops[i]))
    OBVIOUS
  <2> HIDE DEF E
  <2>3. One(tops[i]) \in SUBSET Nodes
    BY <1>8
  <2> QED
    BY <2>1, <2>2, <2>3, <1>1, <1>2, EventIs
<1>12. E \in Seq(EventRec) /\ Len(E) = Len(tops)
  <2>1. Len(tops) \in Nat
    BY <1>5
  <2>2. DOMAIN E = 1 .. Len(tops) /\ \A i \in 1 .. Len(tops) : E[i] \in EventRec
    BY <1>11
  <2>3. E = [i \in 1 .. Len(tops) |-> E[i]]
    OBVIOUS
  <2> HIDE DEF E
  <2>4. E \in [1 .. Len(tops) -> EventRec]
    BY <2>2, <2>3
  <2> QED
    BY <2>1, <2>4
<1> HIDE DEF E
<1>13. \A i \in 1 .. Len(E) : E[i].type = "deleted" /\ E[i].node \in DOMAIN E[i].at
  <2> SUFFICES ASSUME NEW i \in 1 .. Len(tops) PROVE E[i].type = "deleted" /\ E[i].node \in DOMAIN E[i].at
    BY <1>12
  <2>1. tops[i] \in Nodes /\ Exists(server, tops[i]) /\ tops[i] \in Subtree(par, {tops[i]})
    BY <1>3, <1>11, SubtreeIs
  <2> QED
    BY <2>1, <1>7, <1>11
<1>14. \A i \in 1 .. Len(E) : \A m \in DOMAIN E[i].at :
              t[m] # server[m] /\ E[i].at[m] = t[m].ver /\ E[i].was[m] = server[m].parent
  <2> SUFFICES ASSUME NEW i \in 1 .. Len(tops), NEW m \in One(tops[i]) PROVE t[m] # server[m]
    BY <1>11, <1>12
  <2>1. m \in Nodes /\ m \in Subtree(par, {tops[i]}) /\ Exists(server, m)
    BY <1>7, <1>8
  <2>2. m \in Subtree(par, S)
    BY <2>1, <1>9, <1>11
  <2>3. m \in Changed(server, t)
    BY <2>1, <2>2, <1>6
  <2> QED
    BY <2>3 DEF Changed
<1>15. \A m \in Changed(server, t) : \E i \in 1 .. Len(E) : m \in DOMAIN E[i].at
  <2> SUFFICES ASSUME NEW m \in Changed(server, t) PROVE \E i \in 1 .. Len(tops) : m \in DOMAIN E[i].at
    BY <1>12
  <2>1. m \in Nodes /\ m \in Subtree(par, S) /\ Exists(server, m)
    BY <1>6 DEF Changed
  <2>2. PICK x \in S : m \in Subtree(par, {x})
    BY <2>1, <1>10
  <2>3. m \in One(x)
    BY <2>1, <2>2, <1>7
  <2>4. PICK i \in 1 .. Len(tops) : tops[i] = x
    BY <1>5
  <2> QED
    BY <2>3, <2>4, <1>11
<1>16. Grown(server, t, feed, feed \o E)
  BY <1>12, <1>13, <1>14, <1>15, DeletedGrown DEF t
<1> QED
  BY <1>2, <1>16 DEF t, S, tops, E, One

\* Another client changes the tree.
LEMMA OthersInv ==
    ASSUME CacheInv, NEW t \in [Nodes -> Link], NEW E, Grown(server, t, feed, feed \o E),
           Execute(t, E), UNCHANGED <<cache, loaded, updating, call, started, nodesHistory>>
    PROVE  CacheInv'
<1>1. access = TRUE /\ access' = TRUE /\ server' = t /\ feed' = feed \o E
  BY DEF Execute, CacheInv, CacheTypes
<1>2. changes' \in 0 .. MaxChanges
  <2>1. changes \in 0 .. MaxChanges /\ changes < MaxChanges /\ changes' = changes + 1 /\ MaxChanges \in Nat
    BY NodesAssumption DEF Execute, CacheInv, CacheTypes
  <2> QED
    BY <2>1
<1>3. call' \in [Calls -> CallRec]
  BY DEF CacheInv, CacheTypes
<1>4. ASSUME NEW c \in Calls
      PROVE  CallOK(t, feed \o E, TRUE, handled, cache, Excused, filtered, call'[c])
  <2>1. call' = call /\ call[c] \in CallRec
    BY <1>3
  <2>2. CallOK(server, feed, TRUE, handled, cache, Excused, filtered, call[c])
    BY <1>1 DEF CacheInv
  <2>3. server \in [Nodes -> Link] /\ feed \in Seq(EventRec) /\ handled \in [Nodes -> Nat] /\ ServerOK(server, {})
    BY DEF CacheInv, CacheTypes, ServerOK
  <2> QED
    BY <2>1, <2>2, <2>3, GrownCall
<1> QED
  BY <1>1, <1>2, <1>3, <1>4, GrownInv

\* OtherClient: rename, move, trash, restore, delete and create by another client.
LEMMA OtherClientInv ==
    ASSUME CacheInv, OtherClient
    PROVE  CacheInv'
<1>0. /\ server \in [Nodes -> Link]
      /\ UNCHANGED <<cache, loaded, updating, call, started, nodesHistory>>
  BY DEF CacheInv, CacheTypes, OtherClient
<1>1. \A n \in Nodes : Exists(server, n) => server[n].parent \in Folders
  BY <1>0 DEF Exists, Link
<1>2. \A n \in Nodes : server[n].trashed \in BOOLEAN
  BY <1>0 DEF Link
<1>3. ASSUME NEW n \in Nodes, NEW p \in Folders, NEW b \in BOOLEAN, NEW type \in {"updated", "created"},
             type = "updated" => Exists(server, n), type = "created" => server[n].ver = 0,
             ExecuteOne(type, n, Touch(server, n, p, b))
      PROVE  CacheInv'
  <2> DEFINE t == Touch(server, n, p, b)
  <2>1. /\ t \in [Nodes -> Link]
        /\ Grown(server, t, feed, feed \o <<Event(type, t, n, Changed(server, t))>>)
    BY <1>3, TouchGrown
  <2> HIDE DEF t
  <2>2. Execute(t, <<Event(type, t, n, Changed(server, t))>>)
    BY <1>3 DEF ExecuteOne, t
  <2> QED
    BY <2>1, <2>2, <1>0, OthersInv
<1>4. PICK n \in Nodes :
          \/ CanRename(n) /\ ExecuteOne("updated", n, RenameLink(server, n))
          \/ CanTrash(n) /\ ExecuteOne("updated", n, TrashLink(server, n))
          \/ CanRestore(n) /\ ExecuteOne("updated", n, RestoreLink(server, n))
          \/ CanRestore(n) /\ ExecuteOne("deleted", n, DeleteLinks(server, {n}))
          \/ \E to \in Folders :
                \/ CanMove(n, to) /\ ExecuteOne("updated", n, MoveLink(server, n, to))
                \/ CanCreate(n, to) /\ ExecuteOne("created", n, CreateLink(server, n, to))
  BY DEF OtherClient
<1>5. CASE CanRename(n) /\ ExecuteOne("updated", n, RenameLink(server, n))
  BY <1>1, <1>2, <1>3, <1>5 DEF CanRename, RenameLink
<1>6. CASE CanTrash(n) /\ ExecuteOne("updated", n, TrashLink(server, n))
  BY <1>1, <1>2, <1>3, <1>6 DEF CanTrash, CanRename, TrashLink
<1>7. CASE CanRestore(n) /\ ExecuteOne("updated", n, RestoreLink(server, n))
  BY <1>1, <1>2, <1>3, <1>7 DEF CanRestore, RestoreLink
<1>8. CASE CanRestore(n) /\ ExecuteOne("deleted", n, DeleteLinks(server, {n}))
  <2> DEFINE t == DeleteLinks(server, {n})
  <2>1. /\ t \in [Nodes -> Link]
        /\ Grown(server, t, feed, feed \o <<Event("deleted", t, n, Changed(server, t))>>)
    BY <1>8, DeleteGrown DEF CanRestore
  <2> HIDE DEF t
  <2>2. Execute(t, <<Event("deleted", t, n, Changed(server, t))>>)
    BY <1>8 DEF ExecuteOne, t
  <2> QED
    BY <2>1, <2>2, <1>0, OthersInv
<1>9. ASSUME NEW to \in Folders, CanMove(n, to), ExecuteOne("updated", n, MoveLink(server, n, to))
      PROVE  CacheInv'
  BY <1>2, <1>3, <1>9 DEF CanMove, CanRename, MoveLink
<1>10. ASSUME NEW to \in Folders, CanCreate(n, to), ExecuteOne("created", n, CreateLink(server, n, to))
       PROVE  CacheInv'
  BY <1>2, <1>3, <1>10 DEF CanCreate, CreateLink
<1> QED
  BY <1>4, <1>5, <1>6, <1>7, <1>8, <1>9, <1>10

\* A call of this client changes the tree, and has not told the cache yet.
LEMMA SentInv ==
    ASSUME CacheInv, NEW c \in Calls, NEW t \in [Nodes -> Link], NEW E, Grown(server, t, feed, feed \o E),
           Execute(t, E), Sent(c), UNCHANGED <<cache, loaded, updating, started, nodesHistory>>,
           call[c].kind = "delete" => ~Exists(t, call[c].node) /\ t[call[c].node].ver >= 1,
           call[c].kind = "move" =>
              t[call[c].node].ver >= 1 /\ t[call[c].node].parent = call[c].to /\ Exists(t, call[c].node)
    PROVE  CacheInv'
<1> DEFINE G == feed \o E
           b == IF call[c].node = Root THEN 0 ELSE t[call[c].node].ver
           q == [call[c] EXCEPT !.step = "sent", !.base = b]
<1>1. access = TRUE /\ access' = TRUE /\ server' = t /\ feed' = G
  BY DEF Execute, CacheInv, CacheTypes
<1>2. changes' \in 0 .. MaxChanges
  <2>1. changes \in 0 .. MaxChanges /\ changes < MaxChanges /\ changes' = changes + 1 /\ MaxChanges \in Nat
    BY NodesAssumption DEF Execute, CacheInv, CacheTypes
  <2> QED
    BY <2>1
<1>3. /\ server \in [Nodes -> Link] /\ feed \in Seq(EventRec) /\ handled \in [Nodes -> Nat]
      /\ ServerOK(server, {}) /\ call \in [Calls -> CallRec] /\ call[c] \in CallRec
      /\ FeedOK(server, feed, TRUE)
  BY <1>1 DEF CacheInv, CacheTypes, ServerOK
<1>4. call[c].node \in Nodes \cup {Root} /\ call[c].to \in Folders
  BY <1>3 DEF CallRec
<1>5. b \in Nat
  BY <1>4 DEF Link
<1>6. call' = [call EXCEPT ![c] = q]
  BY <1>1 DEF Sent, Set
<1> HIDE DEF b, G
<1>7. /\ q \in CallRec /\ q.step = "sent" /\ q.base = b /\ q.kind = call[c].kind /\ q.node = call[c].node
      /\ q.to = call[c].to
  <2>1. "sent" \in Steps
    BY DEF Steps
  <2>2. [call[c] EXCEPT !.step = "sent", !.base = b] = q
    OBVIOUS
  <2> HIDE DEF q
  <2> QED
    BY <1>3, <1>5, <2>1, <2>2 DEF CallRec
<1> HIDE DEF q
<1>8. call' \in [Calls -> CallRec]
  BY <1>3, <1>6, <1>7
<1>9. FeedOK(t, G, TRUE)
  BY <1>3, GrownFeed DEF G
<1>10. /\ q.kind \in {"list", "folders"} => q.node \in Folders
       /\ q.kind \in {"nodes", "rename", "move", "trash", "restore", "delete"} =>
             q.node \in Nodes /\ t[q.node].ver >= 1
  <2>1. \A n \in Nodes : server[n].ver >= 1 => t[n].ver >= 1
    BY <1>3, GrownGone
  <2> QED
    BY <1>1, <1>7, <2>1 DEF CacheInv, CallOK
<1>11. q.node \in Nodes => q.base = t[q.node].ver /\ q.base <= t[q.node].ver
  BY <1>5, <1>7, NodesAssumption DEF b
<1>12. q.kind = "move" => Placed(t, G, q.node, q.base, q.to, 0)
  <2> SUFFICES ASSUME q.kind = "move" PROVE Placed(t, G, q.node, q.base, q.to, 0)
    OBVIOUS
  <2>1. q.node \in Nodes /\ t[q.node].parent = q.to /\ Exists(t, q.node)
    BY <1>7, <1>10
  <2>2. \A d \in 0 + 1 .. Len(G) : ~(Covers(G, d, q.node) /\ G[d].type = "deleted")
    <3> SUFFICES ASSUME NEW d \in 0 + 1 .. Len(G), Covers(G, d, q.node), G[d].type = "deleted" PROVE FALSE
      OBVIOUS
    <3>1. EventOK(t, G, TRUE, d)
      BY <1>9 DEF FeedOK, Covers
    <3> QED
      BY <2>1, <3>1 DEF EventOK, Covers
  <2> QED
    BY <2>1, <2>2 DEF Placed
<1>13. CallOK(t, G, TRUE, handled, cache, Excused, filtered, q)
  BY <1>7, <1>10, <1>11, <1>12 DEF CallOK, WriteOK
<1>14. ASSUME NEW d \in Calls
       PROVE  CallOK(t, G, TRUE, handled, cache, Excused, filtered, call'[d])
  <2>1. CASE d = c
    <3>1. call'[d] = q
      BY <1>3, <1>6, <2>1
    <3> QED
      BY <3>1, <1>13
  <2>2. CASE d # c
    <3>1. call'[d] = call[d] /\ call[d] \in CallRec
      BY <1>3, <1>6, <2>2
    <3>2. CallOK(server, feed, TRUE, handled, cache, Excused, filtered, call[d])
      BY <1>1 DEF CacheInv
    <3> QED
      BY <3>1, <3>2, <1>3, GrownCall DEF G
  <2> QED
    BY <2>1, <2>2
<1> QED
  BY <1>1, <1>2, <1>8, <1>14, GrownInv DEF G

ServerCall(c) ==
    \/ ApiRename(c) \/ ApiMove(c) \/ ApiCopy(c) \/ ApiCreateFolder(c) \/ ApiTrash(c)
    \/ ApiRestore(c) \/ ApiDelete(c) \/ ApiEmptyTrash(c)

\* The requests of renameNode, moveNode, copyNode, createFolder, trashNodes, restoreNodes,
\* deleteTrashedNodes and emptyTrash that the server executes.
LEMMA ServerCallInv ==
    ASSUME CacheInv, NEW c \in Calls, ServerCall(c)
    PROVE  CacheInv'
<1> DEFINE n == call[c].node
<1>0. server \in [Nodes -> Link] /\ call[c] \in CallRec
  BY DEF CacheInv, CacheTypes
<1>1. \A m \in Nodes : (Exists(server, m) => server[m].parent \in Folders) /\ server[m].trashed \in BOOLEAN
  BY <1>0 DEF Exists, Link
<1>2. call[c].to \in Folders
  BY <1>0 DEF CallRec
<1>3. call[c].kind \in {"rename", "move", "trash", "restore", "delete"} => n \in Nodes
  BY DEF CacheInv, CallOK
<1>4. Sent(c) /\ UNCHANGED <<cache, loaded, updating, started, nodesHistory>>
  BY DEF ServerCall, ApiRename, ApiMove, ApiCopy, ApiCreateFolder, ApiTrash, ApiRestore, ApiDelete, ApiEmptyTrash
<1>5. ASSUME NEW m \in Nodes, NEW p \in Folders, NEW b \in BOOLEAN, NEW type \in {"updated", "created"},
             type = "updated" => Exists(server, m), type = "created" => server[m].ver = 0,
             ExecuteOne(type, m, Touch(server, m, p, b)),
             call[c].kind # "delete", call[c].kind = "move" => m = n /\ p = call[c].to
      PROVE  CacheInv'
  <2> DEFINE t == Touch(server, m, p, b)
  <2>1. /\ t \in [Nodes -> Link]
        /\ Grown(server, t, feed, feed \o <<Event(type, t, m, Changed(server, t))>>)
        /\ t[m].parent = p /\ Exists(t, m) /\ t[m].ver >= 1
    BY <1>5, TouchGrown
  <2> HIDE DEF t
  <2>2. Execute(t, <<Event(type, t, m, Changed(server, t))>>)
    BY <1>5 DEF ExecuteOne, t
  <2>3. call[c].kind = "move" => t[n].ver >= 1 /\ t[n].parent = call[c].to /\ Exists(t, n)
    BY <1>5, <2>1
  <2> QED
    BY <2>1, <2>2, <2>3, <1>4, <1>5, SentInv
<1>6. CASE ApiRename(c)
  BY <1>1, <1>3, <1>5, <1>6 DEF ApiRename, CanRename, RenameLink
<1>7. CASE ApiMove(c)
  BY <1>1, <1>2, <1>3, <1>5, <1>7 DEF ApiMove, CanMove, CanRename, MoveLink
<1>8. CASE ApiTrash(c)
  BY <1>1, <1>3, <1>5, <1>8 DEF ApiTrash, CanTrash, CanRename, TrashLink
<1>9. CASE ApiRestore(c)
  BY <1>1, <1>3, <1>5, <1>9 DEF ApiRestore, CanRestore, RestoreLink
<1>10. CASE ApiCopy(c) \/ ApiCreateFolder(c)
  <2>1. PICK m \in Nodes : CanCreate(m, call[c].to) /\ ExecuteOne("created", m, CreateLink(server, m, call[c].to))
    BY <1>10 DEF ApiCopy, ApiCreateFolder, Appears
  <2>2. call[c].kind \in {"copy", "create"} /\ server[m].ver = 0
    BY <1>10, <2>1 DEF ApiCopy, ApiCreateFolder, CanCreate
  <2>3. ExecuteOne("created", m, Touch(server, m, call[c].to, FALSE))
    BY <2>1 DEF CreateLink
  <2> QED
    BY <1>2, <1>5, <2>2, <2>3
<1>11. CASE ApiDelete(c)
  <2> DEFINE t == DeleteLinks(server, {n})
  <2>1. call[c].kind = "delete" /\ CanRestore(n) /\ ExecuteOne("deleted", n, DeleteLinks(server, {n}))
    BY <1>11 DEF ApiDelete
  <2>2. n \in Nodes /\ Exists(server, n)
    BY <1>3, <2>1 DEF CanRestore
  <2> HIDE DEF n
  <2>3. /\ t \in [Nodes -> Link]
        /\ Grown(server, t, feed, feed \o <<Event("deleted", t, n, Changed(server, t))>>)
        /\ ~Exists(t, n) /\ t[n].ver >= 1
    BY <2>2, DeleteGrown
  <2> HIDE DEF t
  <2>4. Execute(t, <<Event("deleted", t, n, Changed(server, t))>>)
    BY <2>1 DEF ExecuteOne, t
  <2>5. call[c].kind # "move"
    BY <2>1
  <2> QED
    BY <2>3, <2>4, <2>5, <1>4, SentInv DEF n
<1>12. CASE ApiEmptyTrash(c)
  <2> DEFINE t == DeleteLinks(server, TrashedLinks(server))
             tops == SetToSeq(TrashedLinks(server))
             E == [i \in 1 .. Len(tops) |->
                     Event("deleted", t, tops[i], Changed(server, DeleteLinks(server, {tops[i]})))]
  <2>1. t \in [Nodes -> Link] /\ Grown(server, t, feed, feed \o E)
    BY EmptyGrown
  <2>2. Execute(t, E) /\ call[c].kind = "empty"
    BY <1>12 DEF ApiEmptyTrash
  <2> HIDE DEF t, E
  <2>3. call[c].kind # "move" /\ call[c].kind # "delete"
    BY <2>2
  <2> QED
    BY <2>1, <2>2, <2>3, <1>4, SentInv
<1> QED
  BY <1>6, <1>7, <1>8, <1>9, <1>10, <1>11, <1>12 DEF ServerCall

-----------------------------------------------------------------------------
(* The feed is replaced *)

\* The event of the whole tree, a refresh or the loss of access.
LEMMA TreeEventIs ==
    ASSUME server \in [Nodes -> Link], NEW type \in {"refresh", "remove"}, NEW S \in SUBSET Nodes
    PROVE  LET F == <<TreeEvent(type, S)>> IN
             /\ F \in Seq(EventRec) /\ Len(F) = 1 /\ F[1].type = type
             /\ DOMAIN F[1].at = S /\ \A m \in S : F[1].at[m] = server[m].ver
<1> DEFINE e == TreeEvent(type, S)
<1>1. e = [type |-> type, node |-> Root, parent |-> None, trashed |-> FALSE,
           at |-> [m \in S |-> server[m].ver], was |-> [m \in S |-> server[m].parent]]
  BY DEF TreeEvent
<1>2. [m \in S |-> server[m].ver] \in [S -> Nat]
  BY DEF Link
<1>3. [m \in S |-> server[m].parent] \in [S -> Folders \cup {None}]
  BY DEF Link
<1>4. [m \in S |-> server[m].ver] \in UNION {[Z -> Nat] : Z \in SUBSET Nodes}
  BY <1>2
<1>5. [m \in S |-> server[m].parent] \in UNION {[Z -> Folders \cup {None}] : Z \in SUBSET Nodes}
  BY <1>3
<1>6. e \in EventRec
  BY <1>1, <1>4, <1>5 DEF EventRec
<1>7. e.type = type /\ DOMAIN e.at = S /\ \A m \in S : e.at[m] = server[m].ver
  BY <1>1
<1> HIDE DEF e
<1>8. <<e>> \in Seq(EventRec) /\ Len(<<e>>) = 1 /\ <<e>>[1] = e
  BY <1>6
<1> QED
  BY <1>7, <1>8 DEF e

\* The refresh that replaces lost events covers every node.
LEMMA EventsLostInv ==
    ASSUME CacheInv, EventsLost
    PROVE  CacheInv'
<1>1. /\ access = TRUE /\ access' = TRUE /\ changes' = changes + 1 /\ changes < MaxChanges
      /\ UNCHANGED <<server, cache, loaded, updating, call, started, nodesHistory>>
  BY DEF EventsLost, CacheInv, CacheTypes
<1>2. /\ server \in [Nodes -> Link] /\ call \in [Calls -> CallRec] /\ handled \in [Nodes -> Nat]
      /\ feed \in Seq(EventRec)
  BY DEF CacheInv, CacheTypes
<1>3. PICK F : F = <<TreeEvent("refresh", Nodes)>>
  OBVIOUS
<1>4. /\ F \in Seq(EventRec) /\ Len(F) = 1 /\ F[1].type = "refresh"
      /\ DOMAIN F[1].at = Nodes /\ \A m \in Nodes : F[1].at[m] = server[m].ver
  BY <1>2, <1>3, TreeEventIs
<1>5. feed' = F
  BY <1>3 DEF EventsLost
<1>6. \A n \in Nodes : server[n].ver \in Nat
  BY <1>2 DEF Link
<1>7. CacheTypes'
  <2>1. changes' \in 0 .. MaxChanges
    BY <1>1, NodesAssumption DEF CacheInv, CacheTypes
  <2> QED
    BY <1>1, <1>4, <1>5, <2>1 DEF CacheInv, CacheTypes, nodesHistory
<1>8. \A n \in Nodes : Covers(F, 1, n) /\ 1 \in 1 .. Len(F)
  BY <1>4 DEF Covers
<1>9. \A n \in Nodes, v \in Nat : v < server[n].ver => Renews(F, 1, n, v)
  BY <1>4, <1>8 DEF Renews
<1>10. \A i \in 1 .. Len(F) : i = 1
  BY <1>4
<1>11. \A n \in Nodes, v \in Nat : \A p : v < server[n].ver \/ p = server[n].parent => Placed(server, F, n, v, p, 0)
  <2> SUFFICES ASSUME NEW n \in Nodes, NEW v \in Nat, NEW p, v < server[n].ver \/ p = server[n].parent
               PROVE  Placed(server, F, n, v, p, 0)
    OBVIOUS
  <2>1. \A d \in 0 + 1 .. Len(F) : F[d].type # "deleted"
    BY <1>4, <1>10
  <2>2. 1 \in 0 + 1 .. Len(F)
    BY <1>4
  <2> QED
    BY <1>9, <2>1, <2>2 DEF Placed
<1>12. \A n \in Nodes, v \in Nat : \A b : v < server[n].ver \/ b = server[n].trashed => Binned(server, F, n, v, b)
  BY <1>8, <1>9 DEF Binned
<1>13. FeedOK(server, F, TRUE)
  <2>1. EventOK(server, F, TRUE, 1)
    <3>1. 1 \in 1 .. Len(F)
      BY <1>4
    <3>2. \A n \in Nodes : /\ F[1].at[n] <= server[n].ver
                           /\ \E j \in 1 .. Len(F) : Covers(F, j, n) /\ F[j].at[n] = server[n].ver
      BY <1>4, <1>6, <1>8
    <3> QED
      BY <1>4, <3>2 DEF EventOK
  <2> QED
    BY <1>10, <2>1 DEF FeedOK
<1>14. ASSUME NEW n \in Nodes PROVE ToldOK(server, F, TRUE, handled[n], n)
  <2>1. handled[n] <= server[n].ver
    BY DEF CacheInv, ToldOK
  <2> QED
    BY <1>4, <1>8, <2>1 DEF ToldOK
<1>15. ASSUME NEW n \in Nodes PROVE EntryOK(server, F, TRUE, handled[n], n, cache[n], late, lost, astray)
  <2> SUFFICES ASSUME cache[n].parent # None
               PROVE  EntryOK(server, F, TRUE, handled[n], n, cache[n], late, lost, astray)
    BY DEF EntryOK
  <2>1. /\ cache[n].ver >= 1 /\ server[n].ver >= 1
        /\ n \in lost => cache[n].stale
        /\ cache[n].stale \/ cache[n].ver >= handled[n] \/ n \in late \cup astray
    BY DEF CacheInv, EntryOK
  <2>2. 0 < server[n].ver
    BY <2>1, <1>6
  <2>3. Placed(server, F, n, 0, cache[n].parent, 0) /\ Binned(server, F, n, 0, cache[n].trashed)
    BY <2>2, <1>11, <1>12
  <2>4. \E i \in 1 .. Len(F) : Covers(F, i, n) /\ F[i].type \in {"deleted", "refresh"}
    BY <1>4, <1>8
  <2> QED
    BY <2>1, <2>3, <2>4 DEF EntryOK
<1>16. ASSUME NEW n \in Nodes, NEW h, NEW x \in Link, ReadOK(server, feed, TRUE, h, n, x)
       PROVE  ReadOK(server, F, TRUE, h, n, x)
  <2>1. /\ x.ver >= 1 /\ x.ver <= server[n].ver /\ x.parent # None /\ x.ver \in Nat
        /\ x.ver = server[n].ver => x.parent = server[n].parent /\ x.trashed = server[n].trashed
    BY <1>16 DEF ReadOK, Link
  <2>2. x.ver < server[n].ver \/ (x.parent = server[n].parent /\ x.trashed = server[n].trashed)
    BY <2>1, <1>6
  <2>3. Placed(server, F, n, x.ver, x.parent, 0) /\ Binned(server, F, n, x.ver, x.trashed)
    BY <2>1, <2>2, <1>11, <1>12
  <2> QED
    BY <2>1, <2>3 DEF ReadOK
<1>17. ASSUME NEW c \in Calls PROVE CallOK(server, F, TRUE, handled, cache, Excused, filtered, call[c])
  <2> DEFINE r == call[c]
  <2>1. CallOK(server, feed, TRUE, handled, cache, Excused, filtered, r) /\ r \in CallRec
    BY <1>1, <1>2 DEF CacheInv
  <2> HIDE DEF r
  <2>2. r.todo \subseteq Nodes /\ r.base \in Nat
    BY <2>1 DEF CallRec
  <2>3. r.step = "got" => r.got \in Link /\ ReadOK(server, F, TRUE, handled[r.node], r.node, r.got)
    BY <2>1, <1>16 DEF CallOK
  <2>4. r.step = "store" =>
          /\ DOMAIN r.got \subseteq r.todo /\ r.got \in [DOMAIN r.got -> Link]
          /\ \A n \in DOMAIN r.got : ReadOK(server, F, TRUE, handled[n], n, r.got[n])
          /\ \A n \in r.todo \ DOMAIN r.got : (~Exists(server, n) /\ server[n].ver >= 1) \/ n \in filtered
    BY <2>1, <2>2, <1>16 DEF CallOK
  <2>5. ASSUME r.step \in {"sent", "write"}, r.kind = "move", r.base >= handled[r.node]
        PROVE  Placed(server, F, r.node, r.base, r.to, 0)
    <3>1. /\ r.node \in Nodes /\ r.base <= server[r.node].ver
          /\ Placed(server, feed, r.node, r.base, r.to, 0)
      BY <2>1, <2>5 DEF CallOK
    <3>2. r.base \in Nat /\ server[r.node].ver \in Nat
      BY <3>1, <2>2, <1>6
    <3>3. CASE r.base < server[r.node].ver
      BY <3>1, <3>2, <3>3, <1>11
    <3>4. CASE r.base = server[r.node].ver
      <4>1. \A i \in 1 .. Len(feed) : ~Renews(feed, i, r.node, r.base)
        <5> SUFFICES ASSUME NEW i \in 1 .. Len(feed), Renews(feed, i, r.node, r.base) PROVE FALSE
          OBVIOUS
        <5>1. EventOK(server, feed, TRUE, i) /\ r.node \in DOMAIN feed[i].at
          BY <1>1 DEF CacheInv, FeedOK, Renews, Covers
        <5>2. feed[i].at[r.node] <= server[r.node].ver
          BY <5>1 DEF EventOK
        <5>3. feed[i].at[r.node] \in Nat
          BY <5>1, <1>2, EventsAre
        <5> QED
          BY <5>2, <5>3, <3>2, <3>4 DEF Renews
      <4>2. Exists(server, r.node) => r.to = server[r.node].parent
        BY <3>1, <4>1 DEF Placed
      <4>3. \A d \in 0 + 1 .. Len(F) : F[d].type # "deleted"
        BY <1>4, <1>10
      <4> QED
        BY <4>2, <4>3 DEF Placed
    <3> QED
      BY <3>1, <3>2, <3>3, <3>4
  <2>6. \A C, E, n, p, Z : n \in Nodes => Listed(server, F, C, E, n, p, Z)
    BY <1>4, <1>8 DEF Listed
  <2>7. r.step \in {"batch", "store"} /\ r.flag =>
          /\ r.kind = "list" /\ r.node \in Folders
          /\ ~r.dirty =>
                \A n \in Nodes : Listed(server, F, cache, Excused, n, r.node,
                                       IF r.step = "batch" THEN r.todo ELSE DOMAIN r.got)
    BY <2>1, <2>6 DEF CallOK
  <2>8. /\ r.step \in {"get", "got"} => r.node \in Nodes
        /\ r.kind \in {"list", "folders"} => r.node \in Folders
        /\ r.kind \in {"nodes", "rename", "move", "trash", "restore", "delete"} =>
              r.node \in Nodes /\ server[r.node].ver >= 1
        /\ r.step = "batch" => \A n \in r.todo : server[n].ver >= 1
        /\ WriteOK(r)
    BY <2>1 DEF CallOK
  <2>9. r.step \in {"sent", "write"} =>
          /\ r.node \in Nodes => r.base <= server[r.node].ver
          /\ r.kind = "delete" => ~Exists(server, r.node) /\ server[r.node].ver >= 1
          /\ r.kind = "move" =>
                /\ server[r.node].ver >= 1
                /\ r.base >= handled[r.node] => Placed(server, F, r.node, r.base, r.to, 0)
    BY <2>1, <2>5 DEF CallOK
  <2>10. CallOK(server, F, TRUE, handled, cache, Excused, filtered, r)
    BY <2>3, <2>4, <2>7, <2>8, <2>9 DEF CallOK
  <2> QED
    BY <2>10 DEF r
<1>18. \A p \in loaded \ lateLists, n \in Nodes : Listed(server, F, cache, Excused, n, p, {})
  BY <1>4, <1>8 DEF Listed
<1>19. Excused' = Excused
  BY <1>1 DEF Excused, nodesHistory
<1>20. ServerOK(server, astray) /\ UpdatingOK(updating, F)
  BY DEF CacheInv, UpdatingOK, EventsLost
<1> QED
  BY <1>1, <1>5, <1>7, <1>13, <1>14, <1>15, <1>17, <1>18, <1>19, <1>20 DEF CacheInv, nodesHistory

\* Without access nothing more is promised of what the events would have told.
LEMMA AccessLostInv ==
    ASSUME CacheInv, AccessLost
    PROVE  CacheInv'
<1>1. /\ access = TRUE /\ access' = FALSE /\ changes' = changes + 1 /\ changes < MaxChanges
      /\ UNCHANGED <<server, cache, loaded, updating, call, started, nodesHistory>>
  BY DEF AccessLost, CacheInv, CacheTypes
<1>2. server \in [Nodes -> Link]
  BY DEF CacheInv, CacheTypes
<1>3. PICK F : F = <<TreeEvent("remove", {})>>
  OBVIOUS
<1>4. F \in Seq(EventRec) /\ Len(F) = 1 /\ F[1].type = "remove" /\ DOMAIN F[1].at = {}
  BY <1>2, <1>3, TreeEventIs
<1>5. feed' = F
  BY <1>3 DEF AccessLost
<1>6. CacheTypes'
  <2>1. changes' \in 0 .. MaxChanges
    BY <1>1, NodesAssumption DEF CacheInv, CacheTypes
  <2> QED
    BY <1>1, <1>4, <1>5, <2>1 DEF CacheInv, CacheTypes, nodesHistory
<1>7. FeedOK(server, F, FALSE)
  <2>1. \A i \in 1 .. Len(F) : i = 1
    BY <1>4
  <2>2. EventOK(server, F, FALSE, 1)
    BY <1>4 DEF EventOK
  <2> QED
    BY <2>1, <2>2 DEF FeedOK
<1>8. \A n \in Nodes : ToldOK(server, F, FALSE, handled[n], n)
  BY DEF CacheInv, ToldOK
<1>9. \A n \in Nodes : EntryOK(server, F, FALSE, handled[n], n, cache[n], late, lost, astray)
  BY DEF CacheInv, EntryOK
<1>10. \A n, h, x : ReadOK(server, feed, TRUE, h, n, x) => ReadOK(server, F, FALSE, h, n, x)
  BY DEF ReadOK
<1>11. ASSUME NEW c \in Calls PROVE CallOK(server, F, FALSE, handled, cache, Excused, filtered, call[c])
  <2> DEFINE r == call[c]
  <2>1. CallOK(server, feed, TRUE, handled, cache, Excused, filtered, r)
    BY <1>1 DEF CacheInv
  <2> HIDE DEF r
  <2>2. r.step = "got" => r.got \in Link /\ ReadOK(server, F, FALSE, handled[r.node], r.node, r.got)
    BY <2>1, <1>10 DEF CallOK
  <2>3. r.step = "store" =>
          /\ DOMAIN r.got \subseteq r.todo /\ r.got \in [DOMAIN r.got -> Link]
          /\ \A n \in DOMAIN r.got : ReadOK(server, F, FALSE, handled[n], n, r.got[n])
          /\ \A n \in r.todo \ DOMAIN r.got : (~Exists(server, n) /\ server[n].ver >= 1) \/ n \in filtered
    BY <2>1, <1>10 DEF CallOK
  <2>4. r.step \in {"sent", "write"} =>
          /\ r.node \in Nodes => r.base <= server[r.node].ver
          /\ r.kind = "delete" => ~Exists(server, r.node) /\ server[r.node].ver >= 1
          /\ r.kind = "move" => server[r.node].ver >= 1
    BY <2>1 DEF CallOK
  <2>5. /\ r.step \in {"batch", "store"} /\ r.flag => r.kind = "list" /\ r.node \in Folders
        /\ r.step \in {"get", "got"} => r.node \in Nodes
        /\ r.kind \in {"list", "folders"} => r.node \in Folders
        /\ r.kind \in {"nodes", "rename", "move", "trash", "restore", "delete"} =>
              r.node \in Nodes /\ server[r.node].ver >= 1
        /\ r.step = "batch" => \A n \in r.todo : server[n].ver >= 1
        /\ WriteOK(r)
    BY <2>1 DEF CallOK
  <2>6. CallOK(server, F, FALSE, handled, cache, Excused, filtered, r)
    BY <2>2, <2>3, <2>4, <2>5 DEF CallOK
  <2> QED
    BY <2>6 DEF r
<1>12. Excused' = Excused
  BY <1>1 DEF Excused, nodesHistory
<1>13. ServerOK(server, astray) /\ UpdatingOK(updating, F)
  BY DEF CacheInv, UpdatingOK, AccessLost
<1> QED
  BY <1>1, <1>5, <1>6, <1>7, <1>8, <1>9, <1>11, <1>12, <1>13 DEF CacheInv, nodesHistory

-----------------------------------------------------------------------------
(* The oldest event is handled *)

\* What the first event does not renew is promised by the rest of the feed, if the first
\* event is not counted.
LEMMA TailPlaced ==
    ASSUME NEW F \in Seq(EventRec), F # <<>>, NEW k \in Nat, NEW s, NEW n, NEW v, NEW p,
           Placed(s, F, n, v, p, k + 1)
    PROVE  Placed(s, Tail(F), n, v, p, k)
<1> DEFINE G == Tail(F)
<1>a. Len(F) \in Nat \ {0} /\ Len(G) = Len(F) - 1
  BY TailIs
<1>b. \A i \in 1 .. Len(G) : i + 1 \in 1 .. Len(F) /\ G[i] = F[i + 1]
  BY TailIs
<1>c. \A i \in 1 .. Len(G) : /\ Covers(G, i, n) <=> Covers(F, i + 1, n)
                             /\ Renews(G, i, n, v) <=> Renews(F, i + 1, n, v)
  BY TailIs, Zenon
<1> HIDE DEF G
<1>d. Len(G) \in Nat
  BY <1>a
<1>0. /\ Len(F) \in Nat \ {0} /\ Len(G) = Len(F) - 1 /\ Len(G) \in Nat
      /\ \A i \in 1 .. Len(G) : i + 1 \in 1 .. Len(F) /\ G[i] = F[i + 1]
      /\ \A i \in 1 .. Len(G) : /\ Covers(G, i, n) <=> Covers(F, i + 1, n)
                                /\ Renews(G, i, n, v) <=> Renews(F, i + 1, n, v)
  BY <1>a, <1>b, <1>c, <1>d
<1>1. ASSUME NEW i \in k + 2 .. Len(F), Renews(F, i, n, v) PROVE i - 1 \in k + 1 .. Len(G) /\ Renews(G, i - 1, n, v)
  <2>1. i - 1 \in k + 1 .. Len(G) /\ i - 1 \in 1 .. Len(G) /\ (i - 1) + 1 = i
    BY <1>0
  <2> QED
    BY <1>0, <1>1, <2>1
<1>2. Exists(s, n) => p = s[n].parent \/ \E i \in k + 1 .. Len(G) : Renews(G, i, n, v)
  <2> SUFFICES ASSUME Exists(s, n), p # s[n].parent PROVE \E i \in k + 1 .. Len(G) : Renews(G, i, n, v)
    OBVIOUS
  <2>1. PICK i \in (k + 1) + 1 .. Len(F) : Renews(F, i, n, v)
    BY DEF Placed
  <2>2. i \in k + 2 .. Len(F)
    BY <1>0
  <2> QED
    BY <1>1, <2>1, <2>2
<1>3. ASSUME NEW d \in k + 1 .. Len(G), Covers(G, d, n), G[d].type = "deleted"
      PROVE  p = G[d].was[n] \/ \E i \in k + 1 .. d - 1 : Renews(G, i, n, v)
  <2>1. d \in 1 .. Len(G) /\ d + 1 \in (k + 1) + 1 .. Len(F)
    BY <1>0
  <2>2. Covers(F, d + 1, n) /\ F[d + 1].type = "deleted" /\ G[d] = F[d + 1]
    BY <1>0, <1>3, <2>1
  <2>3. p = F[d + 1].was[n] \/ \E i \in (k + 1) + 1 .. (d + 1) - 1 : Renews(F, i, n, v)
    BY <2>1, <2>2 DEF Placed
  <2>4. ASSUME NEW i \in (k + 1) + 1 .. (d + 1) - 1, Renews(F, i, n, v)
        PROVE  \E j \in k + 1 .. d - 1 : Renews(G, j, n, v)
    <3>1. i \in k + 2 .. Len(F) /\ i - 1 \in k + 1 .. d - 1
      BY <1>0
    <3> QED
      BY <1>1, <2>4, <3>1
  <2> QED
    BY <2>2, <2>3, <2>4
<1>4. Placed(s, G, n, v, p, k)
  BY <1>2, <1>3 DEF Placed
<1> QED
  BY <1>4 DEF G

\* What the first event does not renew stays right, or will be put right, without it.
LEMMA PopPlaced ==
    ASSUME NEW F \in Seq(EventRec), F # <<>>, NEW s, NEW n, NEW v, ~Renews(F, 1, n, v)
    PROVE  /\ \A p : Placed(s, F, n, v, p, 0) => Placed(s, Tail(F), n, v, p, 0)
           /\ \A b : Binned(s, F, n, v, b) => Binned(s, Tail(F), n, v, b)
<1>0. /\ Len(F) \in Nat \ {0} /\ Len(Tail(F)) = Len(F) - 1
      /\ \A i \in 1 .. Len(Tail(F)) : Renews(Tail(F), i, n, v) <=> Renews(F, i + 1, n, v)
  BY TailIs
<1>1. \A i \in 1 .. Len(F) : Renews(F, i, n, v) => i \in 2 .. Len(F)
  BY <1>0
<1>2. ASSUME NEW p, Placed(s, F, n, v, p, 0) PROVE Placed(s, Tail(F), n, v, p, 0)
  <2>1. Exists(s, n) => p = s[n].parent \/ \E i \in (0 + 1) + 1 .. Len(F) : Renews(F, i, n, v)
    BY <1>1, <1>2 DEF Placed
  <2>2. ASSUME NEW d \in (0 + 1) + 1 .. Len(F), Covers(F, d, n), F[d].type = "deleted"
        PROVE  p = F[d].was[n] \/ \E i \in (0 + 1) + 1 .. d - 1 : Renews(F, i, n, v)
    <3>1. d \in 0 + 1 .. Len(F)
      BY <1>0
    <3>2. p = F[d].was[n] \/ \E i \in 0 + 1 .. d - 1 : Renews(F, i, n, v)
      BY <1>2, <2>2, <3>1 DEF Placed
    <3>3. \A i \in 0 + 1 .. d - 1 : Renews(F, i, n, v) => i \in (0 + 1) + 1 .. d - 1
      BY <1>0, <1>1, <3>1
    <3> QED
      BY <3>2, <3>3
  <2>3. Placed(s, F, n, v, p, 0 + 1)
    BY <2>1, <2>2 DEF Placed
  <2> QED
    BY <2>3, TailPlaced
<1>3. ASSUME NEW b, Binned(s, F, n, v, b) PROVE Binned(s, Tail(F), n, v, b)
  <2>1. \A i \in 1 .. Len(F) : Renews(F, i, n, v) => i - 1 \in 1 .. Len(Tail(F)) /\ Renews(Tail(F), i - 1, n, v)
    <3> SUFFICES ASSUME NEW i \in 1 .. Len(F), Renews(F, i, n, v)
                 PROVE  i - 1 \in 1 .. Len(Tail(F)) /\ Renews(Tail(F), i - 1, n, v)
      OBVIOUS
    <3>1. i - 1 \in 1 .. Len(Tail(F)) /\ (i - 1) + 1 = i
      BY <1>0, <1>1
    <3> QED
      BY <1>0, <3>1
  <2> QED
    BY <1>3, <2>1 DEF Binned
<1> QED
  BY <1>2, <1>3

\* The versions that are known once the first event is handled.
Tell(F, h, g) ==
    /\ h \in [Nodes -> Nat] /\ g \in [Nodes -> Nat]
    /\ \A n \in Nodes : g[n] = IF n \in DOMAIN F[1].at THEN Newest(h[n], F[1].at[n]) ELSE h[n]

\* The events that wait are in order when the first one has been taken.
LEMMA PopFeed ==
    ASSUME NEW F \in Seq(EventRec), F # <<>>, NEW s \in [Nodes -> Link], NEW a, FeedOK(s, F, a)
    PROVE  FeedOK(s, Tail(F), a)
<1> DEFINE G == Tail(F)
<1>0. /\ Len(F) \in Nat \ {0} /\ Len(G) = Len(F) - 1
      /\ \A i \in 1 .. Len(G) : i + 1 \in 1 .. Len(F) /\ G[i] = F[i + 1]
      /\ \A i, n : i \in 1 .. Len(G) => (Covers(G, i, n) <=> Covers(F, i + 1, n))
  BY TailIs
<1> SUFFICES ASSUME NEW i \in 1 .. Len(G) PROVE EventOK(s, G, a, i)
  BY DEF FeedOK
<1>1. EventOK(s, F, a, i + 1) /\ G[i] = F[i + 1]
  BY <1>0 DEF FeedOK
<1>2. ASSUME NEW n \in DOMAIN G[i].at
      PROVE  \E j \in i .. Len(G) : Covers(G, j, n) /\ G[j].at[n] = s[n].ver
  <2>1. PICK j \in i + 1 .. Len(F) : Covers(F, j, n) /\ F[j].at[n] = s[n].ver
    BY <1>1 DEF EventOK
  <2>2. j - 1 \in i .. Len(G) /\ j - 1 \in 1 .. Len(G) /\ (j - 1) + 1 = j
    BY <1>0
  <2> QED
    BY <1>0, <2>1, <2>2
<1>3. ASSUME NEW n \in DOMAIN G[i].at, G[i].type = "updated"
      PROVE  Placed(s, G, n, G[i].at[n], G[i].parent, i)
  <2>1. Placed(s, F, n, G[i].at[n], G[i].parent, i + 1)
    BY <1>1, <1>3 DEF EventOK
  <2> QED
    BY <2>1, <1>0, TailPlaced
<1> HIDE DEF G
<1>4. \A n \in DOMAIN G[i].at :
          /\ G[i].at[n] <= s[n].ver
          /\ G[i].type # "refresh" => G[i].at[n] >= 1
          /\ G[i].type = "created" => G[i].at[n] = 1
          /\ G[i].type = "deleted" => ~Exists(s, n)
          /\ G[i].type \in {"updated", "created"} /\ G[i].at[n] = s[n].ver =>
                /\ Exists(s, n)
                /\ G[i].parent = s[n].parent /\ G[i].trashed = s[n].trashed
  BY <1>1 DEF EventOK
<1>5. /\ G[i].type \in {"updated", "created"} => DOMAIN G[i].at = {G[i].node}
      /\ G[i].type = "remove" => DOMAIN G[i].at = {}
      /\ G[i].type = "deleted" => G[i].node \in DOMAIN G[i].at
      /\ ~a <=> G[i].type = "remove"
  BY <1>1 DEF EventOK
<1> QED
  BY <1>2, <1>3, <1>4, <1>5 DEF EventOK

\* Told: what the cache was told of is not ahead of the server, nor are later events lost.
LEMMA PopTold ==
    ASSUME NEW F \in Seq(EventRec), F # <<>>, NEW s \in [Nodes -> Link], NEW a \in BOOLEAN, FeedOK(s, F, a),
           NEW h, NEW g, Tell(F, h, g), NEW n \in Nodes, ToldOK(s, F, a, h[n], n)
    PROVE  ToldOK(s, Tail(F), a, g[n], n)
<1> DEFINE G == Tail(F)
<1>a. Len(F) \in Nat \ {0} /\ Len(G) = Len(F) - 1 /\ F[1] \in EventRec
  BY TailIs
<1>b. \A i \in 1 .. Len(G) : G[i] = F[i + 1] /\ (Covers(G, i, n) <=> Covers(F, i + 1, n))
  BY TailIs, Zenon
<1> HIDE DEF G
<1>1. EventOK(s, F, a, 1) /\ 1 \in 1 .. Len(F)
  BY <1>a DEF FeedOK
<1>2. \A m \in DOMAIN F[1].at : F[1].at[m] \in Nat
  BY <1>1, EventsAre
<1>3. h[n] \in Nat /\ g[n] \in Nat /\ s[n].ver \in Nat
  BY DEF Tell, Link
<1>4. h[n] <= s[n].ver
  BY DEF ToldOK
<1>5. n \in DOMAIN F[1].at => F[1].at[n] <= s[n].ver
  BY <1>1 DEF EventOK
<1>6. n \in DOMAIN F[1].at => g[n] = Newest(h[n], F[1].at[n])
  BY DEF Tell
<1>7. n \notin DOMAIN F[1].at => g[n] = h[n]
  BY DEF Tell
<1>8. g[n] <= s[n].ver
  BY <1>2, <1>3, <1>4, <1>5, <1>6, <1>7 DEF Newest
<1>9. ASSUME a, g[n] # s[n].ver
      PROVE  \E i \in 1 .. Len(G) : Covers(G, i, n) /\ G[i].at[n] = s[n].ver
  <2>1. PICK j \in 1 .. Len(F) : Covers(F, j, n) /\ F[j].at[n] = s[n].ver /\ j # 1
    <3>1. CASE n \in DOMAIN F[1].at
      <4>1. PICK j \in 1 .. Len(F) : Covers(F, j, n) /\ F[j].at[n] = s[n].ver
        BY <1>1, <3>1 DEF EventOK
      <4>2. F[1].at[n] # s[n].ver
        BY <1>2, <1>3, <1>4, <1>5, <1>6, <1>9, <3>1 DEF Newest
      <4> QED
        BY <4>1, <4>2
    <3>2. CASE n \notin DOMAIN F[1].at
      BY <1>7, <1>9, <3>2 DEF ToldOK, Covers
    <3> QED
      BY <3>1, <3>2
  <2>2. j - 1 \in 1 .. Len(G) /\ (j - 1) + 1 = j
    BY <1>a, <2>1
  <2> QED
    BY <1>b, <2>1, <2>2
<1> QED
  BY <1>8, <1>9 DEF ToldOK, G

\* The first event does not renew a version that is not older than what is then known.
LEMMA PopNewer ==
    ASSUME NEW F \in Seq(EventRec), F # <<>>, NEW h, NEW g, Tell(F, h, g), NEW n \in Nodes,
           NEW v \in Nat, v >= g[n]
    PROVE  ~Renews(F, 1, n, v) /\ v >= h[n]
<1>a. Len(F) \in Nat \ {0}
  BY TailIs
<1>1. \A m \in DOMAIN F[1].at : F[1].at[m] \in Nat
  BY <1>a, EventsAre
<1>2. h[n] \in Nat /\ g[n] \in Nat
  BY DEF Tell
<1>3. CASE n \in DOMAIN F[1].at
  <2>1. g[n] = Newest(h[n], F[1].at[n])
    BY <1>3 DEF Tell
  <2>2. v >= h[n] /\ v >= F[1].at[n]
    BY <1>1, <1>2, <1>3, <2>1 DEF Newest
  <2> QED
    BY <1>1, <1>3, <2>2 DEF Renews
<1>4. CASE n \notin DOMAIN F[1].at
  BY <1>4 DEF Tell, Renews, Covers
<1> QED
  BY <1>3, <1>4

\* A link that was read, over the handling of an event that is not newer than it.
LEMMA PopRead ==
    ASSUME NEW F \in Seq(EventRec), F # <<>>, NEW s \in [Nodes -> Link], NEW a \in BOOLEAN,
           NEW h, NEW g, Tell(F, h, g), NEW n \in Nodes, NEW x \in Link, ReadOK(s, F, a, h[n], n, x)
    PROVE  ReadOK(s, Tail(F), a, g[n], n, x)
<1>1. /\ x.ver >= 1 /\ x.ver <= s[n].ver /\ x.parent # None /\ x.ver \in Nat
      /\ x.ver = s[n].ver => x.parent = s[n].parent /\ x.trashed = s[n].trashed
  BY DEF ReadOK, Link
<1>2. ASSUME a, x.ver >= g[n]
      PROVE  Placed(s, Tail(F), n, x.ver, x.parent, 0) /\ Binned(s, Tail(F), n, x.ver, x.trashed)
  <2>1. ~Renews(F, 1, n, x.ver) /\ x.ver >= h[n]
    BY <1>1, <1>2, PopNewer
  <2>2. Placed(s, F, n, x.ver, x.parent, 0) /\ Binned(s, F, n, x.ver, x.trashed)
    BY <1>2, <2>1 DEF ReadOK
  <2> QED
    BY <2>1, <2>2, PopPlaced
<1> QED
  BY <1>1, <1>2 DEF ReadOK

\* An entry the first event leaves as it is.
LEMMA PopEntry ==
    ASSUME NEW F \in Seq(EventRec), F # <<>>, NEW s \in [Nodes -> Link], NEW a \in BOOLEAN, FeedOK(s, F, a),
           NEW h, NEW g, Tell(F, h, g), NEW n \in Nodes, NEW x \in Entry,
           NEW l, NEW o, NEW y, NEW l2, NEW o2, NEW y2,
           EntryOK(s, F, a, h[n], n, x, l, o, y),
           n \in l <=> n \in l2, n \in o <=> n \in o2, n \in y => n \in y2,
           n \in DOMAIN F[1].at => F[1].type = "created" \/ (F[1].type = "deleted" /\ n \in y2)
    PROVE  EntryOK(s, Tail(F), a, g[n], n, x, l2, o2, y2)
<1> SUFFICES ASSUME x.parent # None PROVE EntryOK(s, Tail(F), a, g[n], n, x, l2, o2, y2)
  BY DEF EntryOK
<1> DEFINE G == Tail(F)
<1>a. Len(F) \in Nat \ {0} /\ Len(G) = Len(F) - 1
  BY TailIs
<1>b. \A i \in 1 .. Len(G) : G[i] = F[i + 1] /\ (Covers(G, i, n) <=> Covers(F, i + 1, n))
  BY TailIs, Zenon
<1>1. EventOK(s, F, a, 1) /\ 1 \in 1 .. Len(F)
  BY <1>a DEF FeedOK
<1>2. \A m \in DOMAIN F[1].at : F[1].at[m] \in Nat
  BY <1>1, EventsAre
<1>3. h[n] \in Nat /\ g[n] \in Nat /\ x.ver \in Nat
  BY DEF Tell, Entry
<1>4. /\ x.ver >= 1 /\ s[n].ver >= 1
      /\ n \in o => x.stale
      /\ x.stale \/ x.ver >= h[n] \/ n \in l \cup y
  BY DEF EntryOK
<1>5. ~Renews(F, 1, n, 0)
  BY DEF Renews, Covers
<1>6. a /\ n \notin l2 \cup o2 => Placed(s, G, n, 0, x.parent, 0) /\ Binned(s, G, n, 0, x.trashed)
  <2> SUFFICES ASSUME a, n \notin l2 \cup o2
               PROVE  Placed(s, G, n, 0, x.parent, 0) /\ Binned(s, G, n, 0, x.trashed)
    OBVIOUS
  <2>1. Placed(s, F, n, 0, x.parent, 0) /\ Binned(s, F, n, 0, x.trashed)
    BY DEF EntryOK
  <2> QED
    BY <1>5, <2>1, PopPlaced
<1>7. x.stale \/ x.ver >= g[n] \/ n \in l2 \cup y2
  <2>1. CASE n \notin DOMAIN F[1].at
    BY <1>4, <2>1 DEF Tell
  <2>2. CASE n \in DOMAIN F[1].at /\ F[1].type = "created"
    <3>1. F[1].at[n] = 1
      BY <1>1, <2>2 DEF EventOK
    <3>2. g[n] = Newest(h[n], 1)
      BY <2>2, <3>1 DEF Tell
    <3> QED
      BY <1>3, <1>4, <3>2 DEF Newest
  <2> QED
    BY <2>1, <2>2
<1>8. a /\ ~Exists(s, n) => \/ n \in l2 \cup o2 \cup y2
                            \/ \E i \in 1 .. Len(G) : Covers(G, i, n) /\ G[i].type \in {"deleted", "refresh"}
  <2> SUFFICES ASSUME a, ~Exists(s, n), n \notin l2 \cup o2 \cup y2
               PROVE  \E i \in 1 .. Len(G) : Covers(G, i, n) /\ G[i].type \in {"deleted", "refresh"}
    OBVIOUS
  <2>1. PICK j \in 1 .. Len(F) : Covers(F, j, n) /\ F[j].type \in {"deleted", "refresh"}
    BY DEF EntryOK
  <2>2. j # 1
    BY <2>1 DEF Covers
  <2>3. j - 1 \in 1 .. Len(G) /\ (j - 1) + 1 = j
    BY <1>a, <2>2
  <2> HIDE DEF G
  <2> QED
    BY <1>b, <2>1, <2>3
<1> HIDE DEF G
<1>9. n \in o2 => x.stale
  BY <1>4
<1>10. EntryOK(s, G, a, g[n], n, x, l2, o2, y2)
  BY <1>4, <1>6, <1>7, <1>8, <1>9 DEF EntryOK
<1> QED
  BY <1>10 DEF G

\* A call that goes on while the first event is handled.
LEMMA PopCall ==
    ASSUME NEW F \in Seq(EventRec), F # <<>>, NEW s \in [Nodes -> Link], NEW a \in BOOLEAN,
           NEW h, NEW g, Tell(F, h, g), NEW C, NEW E, NEW D, NEW E2, NEW f,
           NEW r \in CallRec, CallOK(s, F, a, h, C, E, f, r),
           NEW q, q = r \/ q = [r EXCEPT !.dirty = TRUE],
           a /\ ~q.dirty /\ r.step \in {"batch", "store"} /\ r.flag =>
              \A n \in Nodes : \A Z : Listed(s, F, C, E, n, r.node, Z) => Listed(s, Tail(F), D, E2, n, r.node, Z)
    PROVE  q \in CallRec /\ CallOK(s, Tail(F), a, g, D, E2, f, q)
<1> DEFINE G == Tail(F)
<1>1. /\ q \in CallRec /\ q.step = r.step /\ q.kind = r.kind /\ q.node = r.node /\ q.to = r.to
      /\ q.base = r.base /\ q.got = r.got /\ q.todo = r.todo /\ q.flag = r.flag
      /\ (q.dirty = r.dirty \/ q.dirty = TRUE)
  BY DEF CallRec
<1>2. r.todo \subseteq Nodes /\ r.base \in Nat
  BY DEF CallRec
<1> HIDE DEF G
<1>3. r.step = "got" => r.got \in Link /\ ReadOK(s, G, a, g[r.node], r.node, r.got)
  BY PopRead DEF CallOK, G
<1>4. r.step = "store" =>
          /\ DOMAIN r.got \subseteq r.todo /\ r.got \in [DOMAIN r.got -> Link]
          /\ \A n \in DOMAIN r.got : ReadOK(s, G, a, g[n], n, r.got[n])
          /\ \A n \in r.todo \ DOMAIN r.got : (~Exists(s, n) /\ s[n].ver >= 1) \/ n \in f
  <2> SUFFICES ASSUME r.step = "store"
               PROVE  /\ DOMAIN r.got \subseteq r.todo /\ r.got \in [DOMAIN r.got -> Link]
                      /\ \A n \in DOMAIN r.got : ReadOK(s, G, a, g[n], n, r.got[n])
                      /\ \A n \in r.todo \ DOMAIN r.got : (~Exists(s, n) /\ s[n].ver >= 1) \/ n \in f
    OBVIOUS
  <2>1. /\ DOMAIN r.got \subseteq r.todo /\ r.got \in [DOMAIN r.got -> Link]
        /\ \A n \in DOMAIN r.got : ReadOK(s, F, a, h[n], n, r.got[n])
        /\ \A n \in r.todo \ DOMAIN r.got : (~Exists(s, n) /\ s[n].ver >= 1) \/ n \in f
    BY DEF CallOK
  <2>2. ASSUME NEW n \in DOMAIN r.got PROVE ReadOK(s, G, a, g[n], n, r.got[n])
    <3>1. n \in Nodes /\ r.got[n] \in Link /\ ReadOK(s, F, a, h[n], n, r.got[n])
      BY <1>2, <2>1
    <3> QED
      BY <3>1, PopRead DEF G
  <2> QED
    BY <2>1, <2>2
<1>5. ASSUME a, r.step \in {"sent", "write"}, r.kind = "move", r.base >= g[r.node]
      PROVE  Placed(s, G, r.node, r.base, r.to, 0)
  <2>1. r.node \in Nodes
    BY <1>5 DEF CallOK
  <2>2. ~Renews(F, 1, r.node, r.base) /\ r.base >= h[r.node]
    BY <1>2, <1>5, <2>1, PopNewer
  <2>3. Placed(s, F, r.node, r.base, r.to, 0)
    BY <1>5, <2>2 DEF CallOK
  <2> QED
    BY <2>2, <2>3, PopPlaced DEF G
<1>6. r.step \in {"batch", "store"} /\ r.flag =>
          /\ r.kind = "list" /\ r.node \in Folders
          /\ a /\ ~q.dirty =>
                \A n \in Nodes : Listed(s, G, D, E2, n, r.node, IF r.step = "batch" THEN r.todo ELSE DOMAIN r.got)
  BY <1>1 DEF CallOK, G
<1>7. /\ r.step \in {"get", "got"} => r.node \in Nodes
      /\ r.kind \in {"list", "folders"} => r.node \in Folders
      /\ r.kind \in {"nodes", "rename", "move", "trash", "restore", "delete"} =>
            r.node \in Nodes /\ s[r.node].ver >= 1
      /\ r.step = "batch" => \A n \in r.todo : s[n].ver >= 1
      /\ WriteOK(r)
  BY DEF CallOK
<1>8. r.step \in {"sent", "write"} =>
          /\ r.node \in Nodes => r.base <= s[r.node].ver
          /\ r.kind = "delete" => ~Exists(s, r.node) /\ s[r.node].ver >= 1
          /\ r.kind = "move" =>
                /\ s[r.node].ver >= 1
                /\ a /\ r.base >= g[r.node] => Placed(s, G, r.node, r.base, r.to, 0)
  BY <1>5 DEF CallOK
<1>9. CallOK(s, G, a, g, D, E2, f, q)
  <2>1. WriteOK(q)
    BY <1>1, <1>7 DEF WriteOK
  <2> QED
    BY <1>1, <1>3, <1>4, <1>6, <1>7, <1>8, <2>1 DEF CallOK
<1> QED
  BY <1>1, <1>9 DEF G

\* If the rest of the feed does not tell of a node, the first event tells its last version,
\* or no event tells of it.
LEMMA PopUncovered ==
    ASSUME NEW F \in Seq(EventRec), F # <<>>, NEW s, NEW a, FeedOK(s, F, a), NEW n,
           \A i \in 1 .. Len(Tail(F)) : n \notin DOMAIN Tail(F)[i].at
    PROVE  /\ n \in DOMAIN F[1].at => F[1].at[n] = s[n].ver
           /\ n \notin DOMAIN F[1].at => \A i \in 1 .. Len(F) : n \notin DOMAIN F[i].at
<1> DEFINE G == Tail(F)
<1>a. Len(F) \in Nat \ {0} /\ Len(G) = Len(F) - 1 /\ \A i \in 1 .. Len(G) : G[i] = F[i + 1]
  BY TailIs
<1>1. \A i \in 1 .. Len(G) : n \notin DOMAIN G[i].at
  OBVIOUS
<1> HIDE DEF G
<1>2. ASSUME NEW i \in 1 .. Len(F), i # 1 PROVE n \notin DOMAIN F[i].at
  <2>1. i - 1 \in 1 .. Len(G) /\ (i - 1) + 1 = i
    BY <1>2, <1>a
  <2> QED
    BY <2>1, <1>1, <1>a
<1>3. ASSUME n \in DOMAIN F[1].at PROVE F[1].at[n] = s[n].ver
  <2>1. EventOK(s, F, a, 1)
    BY <1>a DEF FeedOK
  <2>2. PICK j \in 1 .. Len(F) : Covers(F, j, n) /\ F[j].at[n] = s[n].ver
    BY <1>3, <2>1 DEF EventOK
  <2> QED
    BY <1>2, <2>2 DEF Covers
<1> QED
  BY <1>2, <1>3

\* A listing of folder p that was complete is complete once the event is handled.
Keeps(p) == \A n \in Nodes : \A Z :
    Listed(server, feed, cache, Excused, n, p, Z) => Listed(server, feed', cache', Excused', n, p, Z)

\* An event was handled: enough that entries and listings stay in order.
LEMMA PopInv ==
    ASSUME CacheInv, feed # <<>>, feed' = Tail(feed), Tell(feed, handled, handled'),
           updating' = NotCached, UNCHANGED <<server, access, changes, started, lateLists, filtered>>,
           cache' \in [Nodes -> Entry], loaded' \subseteq loaded, DOMAIN call' = Calls, call' = [c \in Calls |-> call'[c]],
           late' \subseteq Nodes, lost' \subseteq Nodes, astray' \subseteq Nodes,
           swept' \subseteq Nodes, missed' \subseteq Nodes,
           ServerOK(server, astray'),
           \A n \in Nodes : EntryOK(server, feed', access, handled'[n], n, cache'[n], late', lost', astray'),
           \A c \in Calls : call'[c] = call[c] \/ call'[c] = [call[c] EXCEPT !.dirty = TRUE],
           \A p \in loaded' : access => Keeps(p),
           \A c \in Calls : access /\ ~call'[c].dirty /\ call[c].step \in {"batch", "store"}
                               /\ call[c].node \in Folders => Keeps(call[c].node)
    PROVE  CacheInv'
<1>1. /\ feed \in Seq(EventRec) /\ server \in [Nodes -> Link] /\ access \in BOOLEAN
      /\ FeedOK(server, feed, access) /\ loaded \subseteq Folders
  BY DEF CacheInv, CacheTypes
<1>2. FeedOK(server, feed', access)
  BY <1>1, PopFeed
<1>3. \A n \in Nodes : ToldOK(server, feed', access, handled'[n], n)
  <2> SUFFICES ASSUME NEW n \in Nodes PROVE ToldOK(server, feed', access, handled'[n], n)
    OBVIOUS
  <2>1. ToldOK(server, feed, access, handled[n], n)
    BY DEF CacheInv
  <2> QED
    BY <1>1, <2>1, PopTold
<1>4. ASSUME NEW c \in Calls
      PROVE  /\ call'[c] \in CallRec
             /\ CallOK(server, feed', access, handled', cache', Excused', filtered, call'[c])
  <2>1. call[c] \in CallRec /\ CallOK(server, feed, access, handled, cache, Excused, filtered, call[c])
    BY DEF CacheInv, CacheTypes
  <2>2. PICK r \in CallRec : r = call[c]
    BY <2>1
  <2>3. PICK q : q = call'[c]
    OBVIOUS
  <2>4. q = r \/ q = [r EXCEPT !.dirty = TRUE]
    BY <2>2, <2>3
  <2>5. access /\ ~q.dirty /\ r.step \in {"batch", "store"} /\ r.flag =>
              \A n \in Nodes : \A Z : Listed(server, feed, cache, Excused, n, r.node, Z)
                                     => Listed(server, Tail(feed), cache', Excused', n, r.node, Z)
    <3>1. r.step \in {"batch", "store"} /\ r.flag => r.node \in Folders
      BY <2>1, <2>2 DEF CallOK
    <3>2. access /\ ~q.dirty /\ r.step \in {"batch", "store"} /\ r.node \in Folders => Keeps(r.node)
      BY <2>2, <2>3
    <3> QED
      BY <3>1, <3>2 DEF Keeps
  <2>6. CallOK(server, feed, access, handled, cache, Excused, filtered, r)
    BY <2>1, <2>2
  <2>7. q \in CallRec /\ CallOK(server, Tail(feed), access, handled', cache', Excused', filtered, q)
    BY <1>1, <2>4, <2>5, <2>6, PopCall
  <2> QED
    BY <2>3, <2>7
<1>5. call' \in [Calls -> CallRec]
  BY <1>4
<1>6. ASSUME access PROVE \A p \in loaded' \ lateLists, n \in Nodes : Listed(server, feed', cache', Excused', n, p, {})
  <2>1. \A p \in loaded' \ lateLists, n \in Nodes : Listed(server, feed, cache, Excused, n, p, {}) /\ Keeps(p)
    BY <1>6 DEF CacheInv
  <2> QED
    BY <2>1 DEF Keeps
<1>7. CacheTypes'
  <2>1. feed' \in Seq(EventRec)
    BY <1>1, TailIs
  <2>2. handled' \in [Nodes -> Nat]
    BY DEF Tell
  <2>3. NotCached \in Entry
    BY DEF NotCached, Entry
  <2> QED
    BY <1>5, <2>1, <2>2, <2>3 DEF CacheInv, CacheTypes
<1>8. UpdatingOK(updating', feed')
  BY DEF UpdatingOK
<1> QED
  BY <1>2, <1>3, <1>4, <1>6, <1>7, <1>8 DEF CacheInv

\* What every handler of updateNodesCacheOnEvent finds and leaves.
LEMMA HandledIs ==
    ASSUME CacheInv, UpdateNodesCacheOnEvent
    PROVE  /\ feed # <<>> /\ feed' = Tail(feed) /\ Tell(feed, handled, handled')
           /\ updating' = NotCached /\ UNCHANGED <<server, access, changes, started, lateLists, filtered>>
           /\ feed \in Seq(EventRec) /\ server \in [Nodes -> Link] /\ access \in BOOLEAN
           /\ feed[1] \in EventRec /\ EventOK(server, feed, access, 1)
           /\ \/ OnTreeRefresh(feed[1]) \/ OnTreeRemove(feed[1]) \/ OnNodeDeleted(feed[1])
              \/ OnNodeCreated(feed[1]) \/ OnNodeUpdated(feed[1])
<1>1. /\ feed # <<>> /\ feed' = Tail(feed)
      /\ updating' = NotCached /\ UNCHANGED <<server, access, changes, started, lateLists, filtered>>
  BY DEF UpdateNodesCacheOnEvent
<1>2. /\ feed \in Seq(EventRec) /\ server \in [Nodes -> Link] /\ access \in BOOLEAN
      /\ handled \in [Nodes -> Nat] /\ FeedOK(server, feed, access)
  BY DEF CacheInv, CacheTypes
<1>3. Head(feed) = feed[1] /\ feed[1] \in EventRec /\ 1 \in 1 .. Len(feed)
  BY <1>1, <1>2, TailIs
<1>4. EventOK(server, feed, access, 1)
  BY <1>2, <1>3 DEF FeedOK
<1>5. \/ OnTreeRefresh(feed[1]) \/ OnTreeRemove(feed[1]) \/ OnNodeDeleted(feed[1])
      \/ OnNodeCreated(feed[1]) \/ OnNodeUpdated(feed[1])
  BY <1>3 DEF UpdateNodesCacheOnEvent
<1>6. handled' = [n \in Nodes |-> IF n \in DOMAIN feed[1].at THEN Newest(handled[n], feed[1].at[n]) ELSE handled[n]]
  BY <1>3 DEF UpdateNodesCacheOnEvent, Told
<1>7. \A n \in DOMAIN feed[1].at : feed[1].at[n] \in Nat
  BY <1>2, <1>3, EventsAre
<1>8. \A n \in Nodes : handled'[n] \in Nat
  BY <1>2, <1>6, <1>7 DEF Newest
<1>9. Tell(feed, handled, handled')
  BY <1>2, <1>6, <1>8 DEF Tell
<1> QED
  BY <1>1, <1>2, <1>3, <1>4, <1>5, <1>9

\* Listings in progress of the folders P will not be trusted.
LEMMA DirtiedIs ==
    ASSUME call \in [Calls -> CallRec], NEW P, Dirtied(P)
    PROVE  /\ DOMAIN call' = Calls /\ call' = [c \in Calls |-> call'[c]]
           /\ \A c \in Calls : call'[c] = call[c] \/ call'[c] = [call[c] EXCEPT !.dirty = TRUE]
           /\ \A c \in Calls : call[c].node \in P /\ call[c].step \in {"batch", "store"} => call'[c].dirty
<1>1. call' = [c \in Calls |-> IF call[c].node \in P /\ call[c].step \in {"batch", "store"}
                               THEN [call[c] EXCEPT !.dirty = TRUE] ELSE call[c]]
  BY DEF Dirtied
<1>2. ASSUME NEW c \in Calls, call[c].node \in P, call[c].step \in {"batch", "store"} PROVE call'[c].dirty
  <2>1. call'[c] = [call[c] EXCEPT !.dirty = TRUE] /\ call[c] \in CallRec
    BY <1>1, <1>2
  <2> QED
    BY <2>1 DEF CallRec
<1> QED
  BY <1>1, <1>2

\* A listing of p stays complete when the event is not of a node that belongs there.
LEMMA KeepsSame ==
    ASSUME CacheInv, UpdateNodesCacheOnEvent, NEW p \in Folders,
           NEW n \in Nodes, NEW Z, Listed(server, feed, cache, Excused, n, p, Z),
           server[n].parent = p, ~server[n].trashed, \A i \in 1 .. Len(feed') : n \notin DOMAIN feed'[i].at,
           n \notin DOMAIN feed[1].at
    PROVE  (cache[n].parent = p /\ ~cache[n].trashed) \/ n \in Excused \cup Z
<1>1. feed # <<>> /\ feed' = Tail(feed) /\ feed \in Seq(EventRec)
  BY HandledIs
<1>2. FeedOK(server, feed, access)
  BY DEF CacheInv
<1>3. \A i \in 1 .. Len(feed) : n \notin DOMAIN feed[i].at
  BY <1>1, <1>2, PopUncovered
<1> QED
  BY <1>3 DEF Listed

\* The version of the event is the node's version, if no other event will tell of it.
LEMMA LastEvent ==
    ASSUME CacheInv, UpdateNodesCacheOnEvent, NEW n \in DOMAIN feed[1].at,
           \A i \in 1 .. Len(feed') : n \notin DOMAIN feed'[i].at
    PROVE  feed[1].at[n] = server[n].ver
<1>1. feed # <<>> /\ feed' = Tail(feed) /\ feed \in Seq(EventRec)
  BY HandledIs
<1>2. FeedOK(server, feed, access)
  BY DEF CacheInv
<1> QED
  BY <1>1, <1>2, PopUncovered

\* A created node resets the listing of its folder; listings in progress are dirty.
LEMMA NodeCreatedInv ==
    ASSUME CacheInv, UpdateNodesCacheOnEvent, OnNodeCreated(feed[1])
    PROVE  CacheInv'
<1>1. /\ feed # <<>> /\ feed' = Tail(feed) /\ Tell(feed, handled, handled')
      /\ updating' = NotCached /\ UNCHANGED <<server, access, changes, started, lateLists, filtered>>
      /\ feed \in Seq(EventRec) /\ server \in [Nodes -> Link] /\ access \in BOOLEAN
      /\ feed[1] \in EventRec /\ EventOK(server, feed, access, 1)
  BY HandledIs
<1>2. /\ feed[1].type = "created" /\ loaded' = loaded \ {feed[1].parent} /\ Dirtied({feed[1].parent})
      /\ UNCHANGED <<cache, late, lost, astray, swept, missed>>
  BY DEF OnNodeCreated
<1>3. /\ cache \in [Nodes -> Entry] /\ call \in [Calls -> CallRec] /\ loaded \subseteq Folders
      /\ late \subseteq Nodes /\ lost \subseteq Nodes /\ astray \subseteq Nodes
      /\ swept \subseteq Nodes /\ missed \subseteq Nodes /\ ServerOK(server, astray)
      /\ FeedOK(server, feed, access)
  BY DEF CacheInv, CacheTypes
<1>4. /\ DOMAIN call' = Calls /\ call' = [c \in Calls |-> call'[c]]
      /\ \A c \in Calls : call'[c] = call[c] \/ call'[c] = [call[c] EXCEPT !.dirty = TRUE]
      /\ \A c \in Calls : call[c].node = feed[1].parent /\ call[c].step \in {"batch", "store"} => call'[c].dirty
  BY <1>2, <1>3, DirtiedIs
<1>5. ASSUME NEW p \in Folders, p # feed[1].parent PROVE Keeps(p)
  <2> SUFFICES ASSUME NEW n \in Nodes, NEW Z, Listed(server, feed, cache, Excused, n, p, Z),
                      server[n].parent = p, ~server[n].trashed, \A i \in 1 .. Len(feed') : n \notin DOMAIN feed'[i].at
               PROVE  (cache'[n].parent = p /\ ~cache'[n].trashed) \/ n \in Excused' \cup Z
    BY DEF Keeps, Listed
  <2>1. Excused' = Excused /\ cache' = cache
    BY <1>1, <1>2 DEF Excused
  <2>2. n \notin DOMAIN feed[1].at
    <3> SUFFICES ASSUME n \in DOMAIN feed[1].at PROVE FALSE
      OBVIOUS
    <3>1. feed[1].at[n] = server[n].ver
      BY LastEvent
    <3>2. feed[1].parent = server[n].parent
      BY <1>1, <1>2, <3>1 DEF EventOK
    <3> QED
      BY <1>5, <3>2
  <2>3. (cache[n].parent = p /\ ~cache[n].trashed) \/ n \in Excused \cup Z
    BY <2>2, KeepsSame
  <2> QED
    BY <2>1, <2>3
<1>6. \A p \in loaded' : Keeps(p)
  BY <1>2, <1>3, <1>5
<1>7. \A c \in Calls : ~call'[c].dirty /\ call[c].step \in {"batch", "store"} /\ call[c].node \in Folders
                          => Keeps(call[c].node)
  BY <1>4, <1>5
<1>8. \A n \in Nodes : EntryOK(server, feed', access, handled'[n], n, cache'[n], late', lost', astray')
  <2> SUFFICES ASSUME NEW n \in Nodes
               PROVE  EntryOK(server, Tail(feed), access, handled'[n], n, cache[n], late, lost, astray)
    BY <1>1, <1>2
  <2>1. EntryOK(server, feed, access, handled[n], n, cache[n], late, lost, astray) /\ cache[n] \in Entry
    BY <1>3 DEF CacheInv
  <2> QED
    BY <2>1, <1>1, <1>2, <1>3, PopEntry
<1>9. loaded' \subseteq loaded
  BY <1>2
<1> QED
  BY <1>1, <1>2, <1>3, <1>4, <1>6, <1>7, <1>8, <1>9, PopInv

\* A refresh makes every entry stale and resets every listing.
LEMMA TreeRefreshInv ==
    ASSUME CacheInv, UpdateNodesCacheOnEvent, OnTreeRefresh(feed[1])
    PROVE  CacheInv'
<1>1. /\ feed # <<>> /\ feed' = Tail(feed) /\ Tell(feed, handled, handled')
      /\ updating' = NotCached /\ UNCHANGED <<server, access, changes, started, lateLists, filtered>>
  BY HandledIs
<1>2. /\ cache' = SetNodesStale(cache) /\ loaded' = {} /\ Dirtied(Folders)
      /\ lost' = {n \in Nodes : Cached(cache, n)}
      /\ UNCHANGED <<late, astray, swept, missed>>
  BY DEF OnTreeRefresh
<1>3. /\ cache \in [Nodes -> Entry] /\ call \in [Calls -> CallRec]
      /\ late \subseteq Nodes /\ astray \subseteq Nodes
      /\ swept \subseteq Nodes /\ missed \subseteq Nodes /\ ServerOK(server, astray)
  BY DEF CacheInv, CacheTypes
<1>4. /\ DOMAIN call' = Calls /\ call' = [c \in Calls |-> call'[c]]
      /\ \A c \in Calls : call'[c] = call[c] \/ call'[c] = [call[c] EXCEPT !.dirty = TRUE]
      /\ \A c \in Calls : call[c].node \in Folders /\ call[c].step \in {"batch", "store"} => call'[c].dirty
  BY <1>2, <1>3, DirtiedIs
<1>5. ASSUME NEW n \in Nodes
      PROVE  /\ cache'[n] \in Entry
             /\ EntryOK(server, feed', access, handled'[n], n, cache'[n], late', lost', astray')
  <2>1. cache[n] \in Entry
    BY <1>3
  <2>2. CASE Cached(cache, n)
    <3>1. cache'[n] = [cache[n] EXCEPT !.stale = TRUE]
      BY <1>2, <2>2 DEF SetNodesStale
    <3>2. cache'[n] \in Entry /\ cache'[n].stale = TRUE /\ cache'[n].ver = cache[n].ver
      BY <2>1, <3>1 DEF Entry
    <3>3. cache[n].ver >= 1 /\ server[n].ver >= 1
      BY <2>2 DEF CacheInv, EntryOK, Cached
    <3>4. n \in lost'
      BY <1>2, <2>2
    <3> QED
      BY <3>2, <3>3, <3>4 DEF EntryOK
  <2>3. CASE ~Cached(cache, n)
    <3>1. cache'[n] = cache[n]
      BY <1>2, <2>3 DEF SetNodesStale
    <3> QED
      BY <2>1, <2>3, <3>1 DEF EntryOK, Cached
  <2> QED
    BY <2>2, <2>3
<1>6. cache' \in [Nodes -> Entry]
  <2>1. cache' = [n \in Nodes |-> cache'[n]]
    BY <1>2 DEF SetNodesStale
  <2> QED
    BY <1>5, <2>1
<1>7. lost' \subseteq Nodes /\ loaded' \subseteq loaded
  BY <1>2
<1>8. \A p \in loaded' : Keeps(p)
  BY <1>2
<1>9. \A c \in Calls : ~(~call'[c].dirty /\ call[c].step \in {"batch", "store"} /\ call[c].node \in Folders)
  BY <1>4
<1> QED
  BY <1>1, <1>2, <1>3, <1>4, <1>5, <1>6, <1>7, <1>8, <1>9, PopInv

\* What removeNodes does to the cache.
LEMMA RemoveNodesIs ==
    ASSUME NEW C \in [Nodes -> Entry], NEW S
    PROVE  /\ RemoveNodes(C, S) \in [Nodes -> Entry]
           /\ \A n \in Nodes : \/ n \in Tagged(C, S) /\ RemoveNodes(C, S)[n] = NotCached
                               \/ n \notin Tagged(C, S) /\ RemoveNodes(C, S)[n] = C[n]
           /\ NotCached.parent = None
<1>1. NotCached \in Entry /\ NotCached.parent = None
  BY DEF NotCached, Entry
<1>2. RemoveNodes(C, S) = [m \in Nodes |-> IF m \in Tagged(C, S) THEN NotCached ELSE C[m]]
  BY DEF RemoveNodes
<1> QED
  BY <1>1, <1>2

\* Removed entries are in order.
LEMMA NotCachedOK ==
    ASSUME NEW s, NEW F, NEW a, NEW h, NEW n, NEW l, NEW o, NEW y
    PROVE  EntryOK(s, F, a, h, n, NotCached, l, o, y)
  BY DEF EntryOK, NotCached

\* A removed volume: removeNodes is asked for keys of the wrong form, access is gone.
LEMMA TreeRemoveInv ==
    ASSUME CacheInv, UpdateNodesCacheOnEvent, OnTreeRemove(feed[1])
    PROVE  CacheInv'
<1>1. /\ feed # <<>> /\ feed' = Tail(feed) /\ Tell(feed, handled, handled')
      /\ updating' = NotCached /\ UNCHANGED <<server, access, changes, started, lateLists, filtered>>
      /\ feed \in Seq(EventRec) /\ server \in [Nodes -> Link] /\ access \in BOOLEAN
      /\ EventOK(server, feed, access, 1)
  BY HandledIs
<1>2. /\ feed[1].type = "remove" /\ cache' = RemoveNodes(cache, {CacheUid(uid) : uid \in {Root}})
      /\ UNCHANGED <<loaded, call, late, lost, astray, swept, missed>>
  BY DEF OnTreeRemove, RemoveVolume
<1>3. /\ cache \in [Nodes -> Entry] /\ call \in [Calls -> CallRec] /\ loaded \subseteq Folders
      /\ late \subseteq Nodes /\ lost \subseteq Nodes /\ astray \subseteq Nodes
      /\ swept \subseteq Nodes /\ missed \subseteq Nodes /\ ServerOK(server, astray)
      /\ FeedOK(server, feed, access)
  BY DEF CacheInv, CacheTypes
<1>4. access = FALSE /\ DOMAIN feed[1].at = {}
  BY <1>1, <1>2 DEF EventOK
<1>5. cache' \in [Nodes -> Entry] /\ \A n \in Nodes : cache'[n] = cache[n] \/ cache'[n] = NotCached
  BY <1>2, <1>3, RemoveNodesIs
<1>6. \A n \in Nodes : EntryOK(server, feed', access, handled'[n], n, cache'[n], late', lost', astray')
  <2> SUFFICES ASSUME NEW n \in Nodes
               PROVE  EntryOK(server, Tail(feed), access, handled'[n], n, cache'[n], late, lost, astray)
    BY <1>1, <1>2
  <2>1. EntryOK(server, feed, access, handled[n], n, cache[n], late, lost, astray) /\ cache[n] \in Entry
    BY <1>3 DEF CacheInv
  <2>2. EntryOK(server, Tail(feed), access, handled'[n], n, cache[n], late, lost, astray)
    BY <2>1, <1>1, <1>3, <1>4, PopEntry
  <2> QED
    BY <1>5, <2>2, NotCachedOK
<1>7. DOMAIN call' = Calls /\ call' = [c \in Calls |-> call'[c]] /\ \A c \in Calls : call'[c] = call[c]
  BY <1>2, <1>3
<1>8. loaded' \subseteq loaded
  BY <1>2
<1> QED
  BY <1>1, <1>2, <1>3, <1>4, <1>5, <1>6, <1>7, <1>8, PopInv

\* A deleted node goes with all that is tagged below it; what was below it on the server
\* and is not tagged so is astray.
LEMMA NodeDeletedInv ==
    ASSUME CacheInv, UpdateNodesCacheOnEvent, OnNodeDeleted(feed[1])
    PROVE  CacheInv'
<1> DEFINE e == feed[1]
<1>1. /\ feed # <<>> /\ feed' = Tail(feed) /\ Tell(feed, handled, handled')
      /\ updating' = NotCached /\ UNCHANGED <<server, access, changes, started, lateLists, filtered>>
      /\ feed \in Seq(EventRec) /\ server \in [Nodes -> Link] /\ access \in BOOLEAN
      /\ e \in EventRec /\ EventOK(server, feed, access, 1)
  BY HandledIs
<1>2. /\ e.type = "deleted" /\ cache' = RemoveNodes(cache, {e.node})
      /\ astray' = astray \cup (DOMAIN e.at \ Connected(e))
      /\ swept' = swept \cup Swept(cache, {e.node})
      /\ UNCHANGED <<loaded, call, late, lost, missed>>
  BY DEF OnNodeDeleted
<1>3. /\ cache \in [Nodes -> Entry] /\ call \in [Calls -> CallRec] /\ loaded \subseteq Folders
      /\ late \subseteq Nodes /\ lost \subseteq Nodes /\ astray \subseteq Nodes
      /\ swept \subseteq Nodes /\ missed \subseteq Nodes /\ ServerOK(server, astray)
      /\ FeedOK(server, feed, access)
  BY DEF CacheInv, CacheTypes
<1>4. /\ access = TRUE /\ e.node \in DOMAIN e.at /\ e.node \in Nodes /\ DOMAIN e.at \subseteq Nodes
      /\ \A n \in DOMAIN e.at : ~Exists(server, n) /\ server[n].ver >= 1
  <2>1. access = TRUE /\ e.node \in DOMAIN e.at
    BY <1>1, <1>2 DEF EventOK
  <2>2. 1 \in 1 .. Len(feed)
    BY <1>1, TailIs
  <2>3. DOMAIN e.at \subseteq Nodes /\ \A n \in DOMAIN e.at : e.at[n] \in Nat
    BY <1>1, <2>2, EventsAre
  <2>4. \A n \in DOMAIN e.at : ~Exists(server, n) /\ e.at[n] >= 1 /\ e.at[n] <= server[n].ver
    BY <1>1, <1>2 DEF EventOK
  <2>5. \A n \in Nodes : server[n].ver \in Nat
    BY <1>1 DEF Link
  <2> QED
    BY <2>1, <2>3, <2>4, <2>5
<1>5. /\ cache' \in [Nodes -> Entry]
      /\ \A n \in Nodes : \/ n \in Tagged(cache, {e.node}) /\ cache'[n] = NotCached
                          \/ n \notin Tagged(cache, {e.node}) /\ cache'[n] = cache[n]
  BY <1>2, <1>3, RemoveNodesIs
<1>6. Connected(e) \subseteq Tagged(cache, {e.node})
  <2> DEFINE T == Tagged(cache, {e.node})
             par == [m \in Nodes |-> IF m \in DOMAIN e.at /\ Cached(cache, m) /\ m \notin late \cup lost
                                       THEN e.was[m] ELSE None]
             tag == [m \in Nodes |-> cache[m].parent]
  <2>1. T \in SUBSET Nodes /\ \A m \in Nodes : m = e.node \/ cache[m].parent \in {e.node} \cup T => m \in T
    <3>1. T = Subtree(tag, {e.node})
      BY DEF Tagged
    <3> HIDE DEF T, tag
    <3>2. T \in SUBSET Nodes /\ \A m \in Nodes : m \in {e.node} \/ tag[m] \in {e.node} \cup T => m \in T
      BY <3>1, SubtreeIs
    <3>3. \A m \in Nodes : tag[m] = cache[m].parent
      BY DEF tag
    <3> QED
      BY <3>2, <3>3
  <2>2. Connected(e) = Subtree(par, {e.node})
    BY DEF Connected
  <2>3. None \notin {e.node} \cup T
    BY <1>4, <2>1, NodesAssumption DEF None
  <2>4. ASSUME NEW m \in Nodes, m \in DOMAIN e.at, Cached(cache, m), m \notin late \cup lost
        PROVE  cache[m].parent = e.was[m]
    <3>1. Placed(server, feed, m, 0, cache[m].parent, 0)
      BY <1>4, <2>4 DEF CacheInv, EntryOK, Cached
    <3>2. 1 \in 0 + 1 .. Len(feed) /\ 1 \in 1 .. Len(feed)
      BY <1>1, TailIs
    <3>3. Covers(feed, 1, m) /\ feed[1].type = "deleted"
      BY <1>2, <2>4, <3>2 DEF Covers
    <3>4. \/ cache[m].parent = feed[1].was[m]
          \/ \E i \in 0 + 1 .. 1 - 1 : Renews(feed, i, m, 0)
      BY <3>1, <3>2, <3>3 DEF Placed
    <3>5. 0 + 1 .. 1 - 1 = {}
      OBVIOUS
    <3> QED
      BY <3>4, <3>5
  <2> HIDE DEF T
  <2>5. \A m \in Nodes : m \in {e.node} \/ par[m] \in {e.node} \cup T => m \in T
    BY <2>1, <2>3, <2>4
  <2> HIDE DEF par
  <2>6. Subtree(par, {e.node}) \subseteq T
    BY <2>1, <2>5, SubtreeIs
  <2> QED
    BY <2>2, <2>6 DEF T
<1>7. \A n \in Nodes : EntryOK(server, feed', access, handled'[n], n, cache'[n], late', lost', astray')
  <2> SUFFICES ASSUME NEW n \in Nodes
               PROVE  EntryOK(server, Tail(feed), access, handled'[n], n, cache'[n], late, lost, astray')
    BY <1>1, <1>2
  <2>1. EntryOK(server, feed, access, handled[n], n, cache[n], late, lost, astray) /\ cache[n] \in Entry
    BY <1>3 DEF CacheInv
  <2>2. CASE n \in Tagged(cache, {e.node})
    BY <1>5, <2>2, NotCachedOK
  <2>3. CASE n \notin Tagged(cache, {e.node})
    <3>1. cache'[n] = cache[n] /\ (n \in DOMAIN e.at => n \in astray') /\ (n \in astray => n \in astray')
      BY <1>2, <1>5, <1>6, <2>3
    <3>3. n \in DOMAIN feed[1].at => feed[1].type = "deleted" /\ n \in astray'
      BY <1>2, <3>1
    <3>4. n \in astray => n \in astray'
      BY <3>1
    <3> HIDE DEF e
    <3>5. /\ feed \in Seq(EventRec) /\ feed # <<>> /\ server \in [Nodes -> Link] /\ access \in BOOLEAN
          /\ FeedOK(server, feed, access) /\ Tell(feed, handled, handled')
      BY <1>1, <1>3
    <3>2. EntryOK(server, Tail(feed), access, handled'[n], n, cache[n], late, lost, astray')
      BY <2>1, <3>3, <3>4, <3>5, PopEntry
    <3> QED
      BY <3>1, <3>2
  <2> QED
    BY <2>2, <2>3
<1>8. ServerOK(server, astray')
  BY <1>2, <1>3, <1>4 DEF ServerOK
<1>9. ASSUME NEW p \in Folders PROVE Keeps(p)
  <2> SUFFICES ASSUME NEW n \in Nodes, NEW Z, Listed(server, feed, cache, Excused, n, p, Z),
                      server[n].parent = p, ~server[n].trashed, \A i \in 1 .. Len(feed') : n \notin DOMAIN feed'[i].at
               PROVE  (cache'[n].parent = p /\ ~cache'[n].trashed) \/ n \in Excused' \cup Z
    BY DEF Keeps, Listed
  <2>1. Excused \subseteq Excused' /\ Swept(cache, {e.node}) \subseteq Excused'
    BY <1>1, <1>2 DEF Excused
  <2>2. Exists(server, n)
    BY NodesAssumption DEF Exists, Folders, None
  <2>3. n \notin DOMAIN e.at
    BY <1>4, <2>2
  <2>4. (cache[n].parent = p /\ ~cache[n].trashed) \/ n \in Excused \cup Z
    BY <2>3, KeepsSame
  <2>5. CASE n \in Tagged(cache, {e.node})
    <3>1. n \in Swept(cache, {e.node})
      <4>1. n # e.node
        BY <1>4, <2>3
      <4> QED
        BY <4>1, <2>2, <2>5 DEF Swept
    <3> QED
      BY <2>1, <3>1
  <2>6. CASE n \notin Tagged(cache, {e.node})
    BY <1>5, <2>1, <2>4, <2>6
  <2> QED
    BY <2>5, <2>6
<1>10. DOMAIN call' = Calls /\ call' = [c \in Calls |-> call'[c]] /\ \A c \in Calls : call'[c] = call[c]
  BY <1>2, <1>3
<1>11. /\ loaded' \subseteq loaded /\ astray' \subseteq Nodes /\ swept' \subseteq Nodes
       /\ late' \subseteq Nodes /\ lost' \subseteq Nodes /\ missed' \subseteq Nodes
  <2>1. Swept(cache, {e.node}) \subseteq Nodes
    BY SubtreeIs DEF Swept, Tagged
  <2> QED
    BY <1>2, <1>3, <1>4, <2>1
<1>12. \A p \in loaded' : Keeps(p)
  BY <1>3, <1>9, <1>11
<1>13. \A c \in Calls : call[c].node \in Folders => Keeps(call[c].node)
  BY <1>9
<1> HIDE DEF e
<1> QED
  BY <1>1, <1>5, <1>7, <1>8, <1>10, <1>11, <1>12, <1>13, PopInv

\* The entry of an updated node is put where the event says, and is stale.
LEMMA PopUpdated ==
    ASSUME NEW F \in Seq(EventRec), F # <<>>, NEW s \in [Nodes -> Link], NEW a \in BOOLEAN, FeedOK(s, F, a),
           NEW h, NEW g, Tell(F, h, g), NEW n \in Nodes, NEW x \in Entry, x.ver >= 1, s[n].ver >= 1,
           F[1].type = "updated", F[1].node = n,
           x.stale = TRUE, x.parent = F[1].parent, x.trashed = F[1].trashed,
           NEW l, NEW o, NEW y, n \notin o
    PROVE  EntryOK(s, Tail(F), a, g[n], n, x, l, o, y)
<1> DEFINE G == Tail(F)
<1>a. Len(F) \in Nat \ {0} /\ Len(G) = Len(F) - 1 /\ 1 \in 1 .. Len(F)
  BY TailIs
<1>b. \A i \in 1 .. Len(G) : /\ G[i] = F[i + 1] /\ (Covers(G, i, n) <=> Covers(F, i + 1, n))
                             /\ (Renews(G, i, n, 0) <=> Renews(F, i + 1, n, 0))
  BY TailIs, Zenon
<1>1. EventOK(s, F, a, 1)
  BY <1>a DEF FeedOK
<1>2. \A i \in 1 .. Len(F) : \A m \in DOMAIN F[i].at : F[i].at[m] \in Nat
  BY EventsAre
<1>3. a /\ n \in DOMAIN F[1].at
  BY <1>1 DEF EventOK
<1>4. s[n].ver \in Nat /\ F[1].at[n] \in Nat
  BY <1>a, <1>2, <1>3 DEF Link
<1>5. /\ F[1].at[n] <= s[n].ver /\ F[1].at[n] >= 1
      /\ F[1].at[n] = s[n].ver =>
            Exists(s, n) /\ F[1].parent = s[n].parent /\ F[1].trashed = s[n].trashed
      /\ Placed(s, F, n, F[1].at[n], F[1].parent, 1)
  BY <1>1, <1>3 DEF EventOK
<1>6. PICK j \in 1 .. Len(F) : Covers(F, j, n) /\ F[j].at[n] = s[n].ver
  BY <1>1, <1>3 DEF EventOK
<1>7. EventOK(s, F, a, j) /\ n \in DOMAIN F[j].at
  BY <1>6 DEF FeedOK, Covers
<1>8. F[j] \in EventRec
  OBVIOUS
<1>9. \/ F[j].type \in {"updated", "created"} /\ Exists(s, n)
      \/ F[j].type = "deleted" /\ ~Exists(s, n)
      \/ F[j].type = "refresh"
  <2>1. F[j].type \in {"updated", "created", "deleted", "refresh", "remove"}
    BY <1>8 DEF EventRec
  <2>2. F[j].type \in {"updated", "created"} => Exists(s, n)
    BY <1>6, <1>7 DEF EventOK
  <2>3. F[j].type = "deleted" => ~Exists(s, n)
    BY <1>7 DEF EventOK
  <2>4. F[j].type # "remove"
    BY <1>7 DEF EventOK
  <2> QED
    BY <2>1, <2>2, <2>3, <2>4
<1>10. F[1].at[n] # s[n].ver => j - 1 \in 1 .. Len(G) /\ (j - 1) + 1 = j
  BY <1>6, <1>a
<1> HIDE DEF G
<1>11. Placed(s, G, n, 0, x.parent, 0)
  <2>1. \A i : Renews(F, i, n, F[1].at[n]) => Renews(F, i, n, 0)
    <3> SUFFICES ASSUME NEW i, Renews(F, i, n, F[1].at[n]) PROVE Renews(F, i, n, 0)
      OBVIOUS
    <3>1. i \in 1 .. Len(F) /\ n \in DOMAIN F[i].at /\ F[1].at[n] < F[i].at[n]
      BY DEF Renews, Covers
    <3>2. F[i].at[n] \in Nat
      BY <3>1, <1>2
    <3>3. 0 < F[i].at[n]
      BY <3>1, <3>2, <1>4
    <3> QED
      BY <3>3 DEF Renews
  <2>2. Placed(s, F, n, 0, x.parent, 0 + 1)
    BY <2>1, <1>5 DEF Placed
  <2> QED
    BY <2>2, TailPlaced DEF G
<1>12. Binned(s, G, n, 0, x.trashed)
  <2> SUFFICES ASSUME Exists(s, n), x.trashed # s[n].trashed PROVE \E i \in 1 .. Len(G) : Renews(G, i, n, 0)
    BY DEF Binned
  <2>1. F[1].at[n] # s[n].ver
    BY <1>5
  <2>2. F[j].type # "created"
    <3>1. F[j].type = "created" => F[j].at[n] = 1
      BY <1>7 DEF EventOK
    <3> QED
      BY <3>1, <2>1, <1>4, <1>5, <1>6
  <2>3. F[j].type \in {"updated", "refresh"}
    BY <1>9, <2>2
  <2>4. Renews(F, j, n, 0)
    BY <2>3, <1>4, <1>6 DEF Renews
  <2> QED
    BY <2>1, <2>4, <1>10, <1>b
<1>13. ~Exists(s, n) => \E i \in 1 .. Len(G) : Covers(G, i, n) /\ G[i].type \in {"deleted", "refresh"}
  <2> SUFFICES ASSUME ~Exists(s, n) PROVE \E i \in 1 .. Len(G) : Covers(G, i, n) /\ G[i].type \in {"deleted", "refresh"}
    OBVIOUS
  <2>1. F[1].at[n] # s[n].ver
    BY <1>5
  <2>2. F[j].type \in {"deleted", "refresh"}
    BY <1>9
  <2> QED
    BY <2>1, <2>2, <1>6, <1>10, <1>b
<1>14. EntryOK(s, G, a, g[n], n, x, l, o, y)
  BY <1>11, <1>12, <1>13 DEF EntryOK
<1> QED
  BY <1>14 DEF G

\* An updated node is put where the event says, or was missed if it is not cached.
LEMMA NodeUpdatedInv ==
    ASSUME CacheInv, UpdateNodesCacheOnEvent, OnNodeUpdated(feed[1])
    PROVE  CacheInv'
<1> DEFINE e == feed[1]
<1>1. /\ feed # <<>> /\ feed' = Tail(feed) /\ Tell(feed, handled, handled')
      /\ updating' = NotCached /\ UNCHANGED <<server, access, changes, started, lateLists, filtered>>
      /\ feed \in Seq(EventRec) /\ server \in [Nodes -> Link] /\ access \in BOOLEAN
      /\ e \in EventRec /\ EventOK(server, feed, access, 1)
  BY HandledIs
<1>2. /\ e.type = "updated"
      /\ UNCHANGED <<loaded, call, astray, swept>>
  BY DEF OnNodeUpdated
<1>3. /\ cache \in [Nodes -> Entry] /\ call \in [Calls -> CallRec] /\ loaded \subseteq Folders
      /\ late \subseteq Nodes /\ lost \subseteq Nodes /\ astray \subseteq Nodes
      /\ swept \subseteq Nodes /\ missed \subseteq Nodes /\ ServerOK(server, astray)
      /\ FeedOK(server, feed, access) /\ updating \in Entry
  BY DEF CacheInv, CacheTypes
<1>4. DOMAIN e.at = {e.node} /\ e.node \in Nodes
  <2>1. DOMAIN e.at = {e.node}
    BY <1>1, <1>2 DEF EventOK
  <2>2. DOMAIN e.at \subseteq Nodes
    BY <1>1, TailIs, EventsAre
  <2> QED
    BY <2>1, <2>2
<1>5. CASE /\ updating # NotCached
           /\ cache' = SetNode(cache, e.node, [updating EXCEPT !.stale = TRUE, !.parent = e.parent,
                                                             !.trashed = e.trashed])
           /\ late' = late \ {e.node} /\ lost' = lost \ {e.node} /\ missed' = missed \ {e.node}
  <2> DEFINE x == [updating EXCEPT !.stale = TRUE, !.parent = e.parent, !.trashed = e.trashed]
  <2>1. /\ cache' = [cache EXCEPT ![e.node] = x]
        /\ late' = late \ {e.node} /\ lost' = lost \ {e.node} /\ missed' = missed \ {e.node}
    BY <1>5 DEF SetNode
  <2>2. x \in Entry /\ x.stale = TRUE /\ x.parent = e.parent /\ x.trashed = e.trashed /\ x.ver = updating.ver
    <3>1. updating \in Entry /\ e.parent \in Folders \cup {None} /\ e.trashed \in BOOLEAN
      BY <1>1, <1>3, <1>4 DEF EventRec
    <3> HIDE DEF e
    <3> QED
      BY <3>1 DEF Entry
  <2>3. updating.ver >= 1 /\ server[e.node].ver >= 1
    <3>1. updating.ver >= 1
      BY <1>5 DEF CacheInv, UpdatingOK
    <3>2. 1 \in 1 .. Len(feed)
      BY <1>1, TailIs
    <3>3. e.at[e.node] \in Nat /\ e.at[e.node] >= 1 /\ e.at[e.node] <= server[e.node].ver
      BY <1>1, <1>2, <1>4, <3>2, EventsAre DEF EventOK
    <3>4. server[e.node].ver \in Nat
      BY <1>1, <1>4 DEF Link
    <3> QED
      BY <3>1, <3>3, <3>4
  <2> HIDE DEF x
  <2>4. cache' \in [Nodes -> Entry] /\ cache'[e.node] = x /\ \A n \in Nodes \ {e.node} : cache'[n] = cache[n]
    BY <2>1, <2>2, <1>3, <1>4
  <2> QED
    <3>1. ASSUME NEW n \in Nodes
          PROVE  EntryOK(server, Tail(feed), access, handled'[n], n, cache'[n], late', lost', astray)
      <4>1. CASE n = e.node
        <5>1. PICK z \in Entry : z = cache'[e.node]
          BY <2>2, <2>4
        <5>2. z.ver >= 1 /\ z.stale = TRUE /\ z.parent = feed[1].parent /\ z.trashed = feed[1].trashed
          BY <2>2, <2>3, <2>4, <5>1
        <5>3. PICK o : o = lost'
          OBVIOUS
        <5>4. n \notin o /\ feed[1].node = n /\ feed[1].type = "updated" /\ server[n].ver >= 1
          BY <1>2, <2>1, <2>3, <4>1, <5>3
        <5>5. EntryOK(server, Tail(feed), access, handled'[n], n, z, late', o, astray)
          BY <1>1, <1>3, <5>2, <5>4, PopUpdated
        <5> QED
          BY <5>1, <5>3, <5>5, <4>1
      <4>2. CASE n # e.node
        <5>1. cache'[n] = cache[n] /\ cache[n] \in Entry /\ n \notin DOMAIN feed[1].at
          BY <1>3, <1>4, <2>4, <4>2
        <5>2. (n \in late <=> n \in late') /\ (n \in lost <=> n \in lost')
          BY <2>1, <4>2
        <5>3. EntryOK(server, feed, access, handled[n], n, cache[n], late, lost, astray)
          BY DEF CacheInv
        <5>4. EntryOK(server, Tail(feed), access, handled'[n], n, cache[n], late', lost', astray)
          BY <1>1, <1>3, <5>1, <5>2, <5>3, PopEntry
        <5> QED
          BY <5>1, <5>4
      <4> QED
        BY <4>1, <4>2
    <3>2. ASSUME NEW p \in Folders PROVE Keeps(p)
      <4> SUFFICES ASSUME NEW n \in Nodes, NEW Z, Listed(server, feed, cache, Excused, n, p, Z),
                          server[n].parent = p, ~server[n].trashed,
                          \A i \in 1 .. Len(feed') : n \notin DOMAIN feed'[i].at
                   PROVE  (cache'[n].parent = p /\ ~cache'[n].trashed) \/ n \in Excused' \cup Z
        BY <1>1 DEF Keeps, Listed
      <4>1. CASE n = e.node
        <5>1. feed[1].at[n] = server[n].ver
          BY <4>1, <1>4, LastEvent
        <5>2. e.parent = server[n].parent /\ e.trashed = server[n].trashed
          BY <1>1, <1>2, <1>4, <4>1, <5>1 DEF EventOK
        <5> QED
          BY <2>2, <2>4, <4>1, <5>2
      <4>2. CASE n # e.node
        <5>1. n \notin DOMAIN feed[1].at
          BY <1>4, <4>2
        <5>2. (cache[n].parent = p /\ ~cache[n].trashed) \/ n \in Excused \cup Z
          BY <5>1, KeepsSame
        <5>3. n \in Excused => n \in Excused'
          BY <1>1, <1>2, <2>1, <4>2 DEF Excused
        <5> QED
          BY <2>4, <4>2, <5>2, <5>3
      <4> QED
        BY <4>1, <4>2
    <3>3. DOMAIN call' = Calls /\ call' = [c \in Calls |-> call'[c]] /\ \A c \in Calls : call'[c] = call[c]
      BY <1>2, <1>3
    <3>4. late' \subseteq Nodes /\ lost' \subseteq Nodes /\ missed' \subseteq Nodes /\ loaded' \subseteq loaded
          /\ swept' \subseteq Nodes /\ astray' = astray
      BY <1>2, <1>3, <2>1
    <3>5. \A p \in loaded' : Keeps(p)
      BY <1>3, <3>2, <3>4
    <3>6. \A c \in Calls : call[c].node \in Folders => Keeps(call[c].node)
      BY <3>2
    <3>7. \A n \in Nodes : EntryOK(server, feed', access, handled'[n], n, cache'[n], late', lost', astray')
      BY <1>1, <3>1, <3>4
    <3> HIDE DEF e
    <3> QED
      BY <1>1, <1>3, <2>4, <3>3, <3>4, <3>5, <3>6, <3>7, PopInv
<1>6. CASE /\ UNCHANGED <<cache, lost>>
           /\ \/ late' = late \cup {e.node} /\ missed' = missed
              \/ late' = late /\ ~Cached(cache, e.node) /\ missed' = missed \cup {e.node}
  <2>1. UNCHANGED <<cache, lost>> /\ (e.node \in late' \/ ~Cached(cache, e.node)) /\ e.node \in Excused'
        /\ Excused \subseteq Excused' /\ late' \subseteq Nodes /\ missed' \subseteq Nodes
        /\ \A n \in Nodes \ {e.node} : n \in late <=> n \in late'
    BY <1>1, <1>2, <1>3, <1>4, <1>6 DEF Excused
  <2>2. ASSUME NEW n \in Nodes
        PROVE  EntryOK(server, Tail(feed), access, handled'[n], n, cache[n], late', lost, astray)
    <3>1. CASE n = e.node
      <4>1. EntryOK(server, feed, access, handled[n], n, cache[n], late, lost, astray)
        BY DEF CacheInv
      <4> QED
        BY <2>1, <3>1, <4>1 DEF EntryOK, Cached
    <3>2. CASE n # e.node
      <4>1. cache[n] \in Entry /\ n \notin DOMAIN feed[1].at
        BY <1>3, <1>4, <3>2
      <4>2. EntryOK(server, feed, access, handled[n], n, cache[n], late, lost, astray)
        BY DEF CacheInv
      <4>3. n \in late <=> n \in late'
        BY <2>1, <3>2
      <4> QED
        BY <1>1, <1>3, <4>1, <4>2, <4>3, PopEntry
    <3> QED
      BY <3>1, <3>2
  <2>3. ASSUME NEW p \in Folders PROVE Keeps(p)
    <3> SUFFICES ASSUME NEW n \in Nodes, NEW Z, Listed(server, feed, cache, Excused, n, p, Z),
                        server[n].parent = p, ~server[n].trashed,
                        \A i \in 1 .. Len(feed') : n \notin DOMAIN feed'[i].at
                 PROVE  (cache'[n].parent = p /\ ~cache'[n].trashed) \/ n \in Excused' \cup Z
      BY <1>1 DEF Keeps, Listed
    <3>1. CASE n = e.node
      BY <2>1, <3>1
    <3>2. CASE n # e.node
      <4>1. n \notin DOMAIN feed[1].at
        BY <1>4, <3>2
      <4>2. (cache[n].parent = p /\ ~cache[n].trashed) \/ n \in Excused \cup Z
        BY <4>1, KeepsSame
      <4>3. n \in Excused => n \in Excused'
        BY <2>1
      <4> QED
        BY <2>1, <4>2, <4>3
    <3> QED
      BY <3>1, <3>2
  <2>4. DOMAIN call' = Calls /\ call' = [c \in Calls |-> call'[c]] /\ \A c \in Calls : call'[c] = call[c]
    BY <1>2, <1>3
  <2>5. late' \subseteq Nodes /\ lost' \subseteq Nodes /\ missed' \subseteq Nodes /\ loaded' \subseteq loaded
        /\ swept' \subseteq Nodes /\ astray' = astray /\ cache' \in [Nodes -> Entry]
    BY <1>2, <1>3, <1>4, <2>1
  <2>6. \A p \in loaded' : Keeps(p)
    BY <1>3, <2>3, <2>5
  <2>7. \A c \in Calls : call[c].node \in Folders => Keeps(call[c].node)
    BY <2>3
  <2>8. \A n \in Nodes : EntryOK(server, feed', access, handled'[n], n, cache'[n], late', lost', astray')
    BY <1>1, <2>1, <2>2, <2>5
  <2> HIDE DEF e
  <2> QED
    BY <1>1, <1>3, <2>4, <2>5, <2>6, <2>7, <2>8, PopInv
<1>7. \/ /\ updating # NotCached
         /\ cache' = SetNode(cache, e.node, [updating EXCEPT !.stale = TRUE, !.parent = e.parent,
                                                            !.trashed = e.trashed])
         /\ late' = late \ {e.node} /\ lost' = lost \ {e.node} /\ missed' = missed \ {e.node}
      \/ /\ UNCHANGED <<cache, lost>>
         /\ \/ late' = late \cup {e.node} /\ missed' = missed
            \/ late' = late /\ ~Cached(cache, e.node) /\ missed' = missed \cup {e.node}
  BY Zenon DEF OnNodeUpdated
<1> QED
  BY <1>5, <1>6, <1>7

\* updateNodesCacheOnEvent keeps the invariant, whatever the event.
LEMMA EventInv ==
    ASSUME CacheInv, UpdateNodesCacheOnEvent
    PROVE  CacheInv'
  BY HandledIs, NodeCreatedInv, NodeUpdatedInv, NodeDeletedInv, TreeRefreshInv, TreeRemoveInv

\* The handler of an updated node reads its entry.
LEMMA GetUpdatedInv ==
    ASSUME CacheInv, GetUpdatedNode
    PROVE  CacheInv'
<1>1. /\ feed # <<>> /\ Head(feed).type = "updated" /\ Cached(cache, Head(feed).node)
      /\ updating' = cache[Head(feed).node]
      /\ UNCHANGED <<server, access, changes, feed, cache, loaded, call, started, handled, late, lost, astray,
                     swept, missed, lateLists, filtered>>
  BY DEF GetUpdatedNode, nodesHistory
<1>2. feed \in Seq(EventRec) /\ cache \in [Nodes -> Entry] /\ FeedOK(server, feed, access)
  BY DEF CacheInv, CacheTypes
<1>3. Head(feed) = feed[1] /\ feed[1] \in EventRec /\ 1 \in 1 .. Len(feed)
  BY <1>1, <1>2, TailIs
<1>4. feed[1].node \in Nodes
  <2>1. DOMAIN feed[1].at = {feed[1].node}
    BY <1>1, <1>2, <1>3 DEF FeedOK, EventOK
  <2>2. DOMAIN feed[1].at \subseteq Nodes
    BY <1>2, <1>3, EventsAre
  <2> QED
    BY <2>1, <2>2
<1>5. EntryOK(server, feed, access, handled[feed[1].node], feed[1].node, cache[feed[1].node], late, lost, astray)
  BY <1>4 DEF CacheInv
<1>6. updating' \in Entry /\ updating'.ver >= 1
  BY <1>1, <1>2, <1>3, <1>4, <1>5 DEF EntryOK, Cached
<1>7. UpdatingOK(updating', feed)
  BY <1>1, <1>3, <1>6 DEF UpdatingOK
<1>8. CacheTypes' /\ Excused' = Excused
  BY <1>1, <1>6 DEF CacheInv, CacheTypes, Excused
<1> QED
  BY <1>1, <1>7, <1>8 DEF CacheInv

-----------------------------------------------------------------------------
(* A call goes on, the cache stays as it is *)

\* A call stays in order when more nodes are excused.
LEMMA MoreExcused ==
    ASSUME NEW s, NEW F, NEW a, NEW h, NEW C, NEW E, NEW E2, E \subseteq E2, NEW f, NEW f2, f \subseteq f2, NEW r,
           CallOK(s, F, a, h, C, E, f, r)
    PROVE  CallOK(s, F, a, h, C, E2, f2, r)
<1>1. \A n, p, Z : Listed(s, F, C, E, n, p, Z) => Listed(s, F, C, E2, n, p, Z)
  BY DEF Listed
<1>2. r.step \in {"batch", "store"} /\ r.flag =>
          /\ r.kind = "list" /\ r.node \in Folders
          /\ a /\ ~r.dirty =>
                \A n \in Nodes : Listed(s, F, C, E2, n, r.node, IF r.step = "batch" THEN r.todo ELSE DOMAIN r.got)
  BY <1>1 DEF CallOK
<1>3. r.step = "store" => \A n \in r.todo \ DOMAIN r.got : (~Exists(s, n) /\ s[n].ver >= 1) \/ n \in f2
  BY DEF CallOK
<1> QED
  BY <1>2, <1>3 DEF CallOK

\* Calls go on, and listings are forgotten, while the cache stays as it is.
LEMMA CallsInv ==
    ASSUME CacheInv, call' \in [Calls -> CallRec],
           UNCHANGED <<server, access, changes, feed, updating, cache, handled, late, lost, astray, swept, missed, lateLists>>,
           started' \in 0 .. MaxCalls, loaded' \subseteq loaded, filtered \subseteq filtered', filtered' \subseteq Nodes,
           \A c \in Calls : CallOK(server, feed, access, handled, cache, Excused', filtered', call'[c])
    PROVE  CacheInv'
<1>1. CacheTypes'
  BY DEF CacheInv, CacheTypes
<1>2. Excused \subseteq Excused'
  BY DEF Excused
<1>3. access => \A p \in loaded' \ lateLists, n \in Nodes : Listed(server, feed, cache, Excused', n, p, {})
  <2>1. \A n, p, Z : Listed(server, feed, cache, Excused, n, p, Z) => Listed(server, feed, cache, Excused', n, p, Z)
    BY <1>2 DEF Listed
  <2> QED
    BY <2>1 DEF CacheInv
<1> QED
  BY <1>1, <1>3 DEF CacheInv

\* Call c goes on as q.
LEMMA CallInv ==
    ASSUME CacheInv, NEW c \in Calls, NEW q \in CallRec, call' = [call EXCEPT ![c] = q],
           UNCHANGED <<server, access, changes, feed, updating, cache, loaded, handled, late, lost, astray, swept, missed, lateLists>>,
           started' \in 0 .. MaxCalls, filtered \subseteq filtered', filtered' \subseteq Nodes,
           CallOK(server, feed, access, handled, cache, Excused', filtered', q)
    PROVE  CacheInv'
<1>1. call \in [Calls -> CallRec]
  BY DEF CacheInv, CacheTypes
<1>2. call' \in [Calls -> CallRec]
  BY <1>1
<1>3. Excused \subseteq Excused'
  BY DEF Excused
<1>4. ASSUME NEW d \in Calls
      PROVE  CallOK(server, feed, access, handled, cache, Excused', filtered', call'[d])
  <2>1. CASE d = c
    <3>1. call'[d] = q
      BY <1>1, <2>1
    <3> QED
      BY <3>1
  <2>2. CASE d # c
    <3>1. call'[d] = call[d]
      BY <1>1, <2>2
    <3>2. CallOK(server, feed, access, handled, cache, Excused, filtered, call[d])
      BY DEF CacheInv
    <3> QED
      BY <3>1, <3>2, <1>3, MoreExcused
  <2> QED
    BY <2>1, <2>2
<1> QED
  BY <1>2, <1>4, CallsInv

\* No call is in progress in a record that is idle, and one that is ready has read nothing.
LEMMA IdleIs ==
    /\ Idle \in CallRec /\ Idle.step = "idle" /\ Idle.kind = "get"
    /\ \A s, F, a, h, C, E, f : CallOK(s, F, a, h, C, E, f, Idle)
<1>1. Idle \in CallRec
  <2>1. <<>> \in Got /\ Root \in Folders /\ 0 \in Nat
    BY DEF Got, Folders
  <2>2. "idle" \in Steps /\ "get" \in Kinds
    BY DEF Steps, Kinds
  <2> QED
    BY <2>1, <2>2 DEF Idle, CallRec
<1>2. Idle.step = "idle" /\ Idle.kind = "get"
  BY DEF Idle
<1>3. \A s, F, a, h, C, E, f : CallOK(s, F, a, h, C, E, f, Idle)
  BY <1>2 DEF CallOK, WriteOK
<1> QED
  BY <1>1, <1>2, <1>3

\* A call ends without touching the cache.
LEMMA EndInv ==
    ASSUME CacheInv, NEW c \in Calls, End(c), Unsent, UNCHANGED <<cache, loaded, nodesHistory>>
    PROVE  CacheInv'
<1>1. call' = [call EXCEPT ![c] = Idle]
  BY DEF End, Set
<1>2. UNCHANGED <<server, access, changes, feed, updating, started, cache, loaded, handled, late, lost, astray, swept, missed, lateLists, filtered>>
  BY DEF Unsent, nodesHistory
<1>3. started' \in 0 .. MaxCalls /\ filtered' \subseteq Nodes
  BY <1>2 DEF CacheInv, CacheTypes
<1> QED
  BY <1>1, <1>2, <1>3, IdleIs, CallInv

\* A call goes on that has nothing to store yet and lists no folder.
LEMMA GoOnInv ==
    ASSUME CacheInv, NEW c \in Calls, NEW q \in CallRec, call' = [call EXCEPT ![c] = q],
           Unsent, UNCHANGED <<cache, loaded, nodesHistory>>,
           q.step \in {"get", "ready", "batch"}, q.step = "batch" => q.flag = FALSE,
           q.step = "batch" => \A n \in q.todo : server[n].ver >= 1,
           q.kind = call[c].kind, q.node = call[c].node, q.step = "get" => q.node \in Nodes
    PROVE  CacheInv'
<1>1. UNCHANGED <<server, access, changes, feed, updating, started, cache, loaded, handled, late, lost, astray, swept, missed, lateLists, filtered>>
  BY DEF Unsent, nodesHistory
<1>2. started' \in 0 .. MaxCalls /\ filtered' \subseteq Nodes
  BY <1>1 DEF CacheInv, CacheTypes
<1>3. /\ q.kind \in {"list", "folders"} => q.node \in Folders
      /\ q.kind \in {"nodes", "rename", "move", "trash", "restore", "delete"} =>
            q.node \in Nodes /\ server[q.node].ver >= 1
  BY DEF CacheInv, CallOK
<1>4. CallOK(server, feed, access, handled, cache, Excused', filtered', q)
  BY <1>3 DEF CallOK, WriteOK
<1> QED
  BY <1>1, <1>2, <1>4, CallInv

\* A call starts, of a node the caller knows.
LEMMA StartCallInv ==
    ASSUME CacheInv, NEW c \in Calls, StartCall(c)
    PROVE  CacheInv'
<1>a. (IF c = 1 THEN Kinds ELSE ReadKinds) \subseteq Kinds
  BY DEF Kinds, ReadKinds
<1>1. PICK k \in IF c = 1 THEN Kinds ELSE ReadKinds, n \in Nodes \cup {Root}, to \in Folders :
          /\ k \in {"list", "folders"} => n \in Folders /\ to = Root
          /\ k \in {"trashlist", "empty"} => n = Root /\ to = Root
          /\ k = "create" => n = Root
          /\ n # Root => server[n].ver > 0
          /\ k \in {"get", "nodes", "rename", "trash", "restore", "delete"} => n # Root /\ to = Root
          /\ k \in {"move", "copy"} => n \in Nodes /\ n # to
          /\ call' = [call EXCEPT ![c] =
                        [Idle EXCEPT !.kind = k, !.node = n, !.to = to,
                           !.step = IF k \in ReadFirst /\ n # Root THEN "get" ELSE "ready"]]
  BY Zenon DEF StartCall
<1> DEFINE st == IF k \in ReadFirst /\ n # Root THEN "get" ELSE "ready"
           q == [Idle EXCEPT !.kind = k, !.node = n, !.to = to, !.step = st]
<1>2. k \in Kinds /\ st \in Steps /\ (st = "ready" \/ (st = "get" /\ n \in Nodes))
  BY <1>a DEF Steps
<1> HIDE DEF st
<1>3. q \in CallRec /\ q.kind = k /\ q.node = n /\ q.step = st
  BY <1>2, IdleIs DEF CallRec
<1>4. call' = [call EXCEPT ![c] = q]
  BY <1>1 DEF st
<1> HIDE DEF q
<1>5. server \in [Nodes -> Link]
  BY DEF CacheInv, CacheTypes
<1>6. \A m \in Nodes : server[m].ver \in Nat
  BY <1>5 DEF Link
<1>7. n # Root => n \in Nodes /\ server[n].ver >= 1
  BY <1>1, <1>6
<1>8. /\ k \in {"list", "folders"} => n \in Folders
      /\ k \in {"nodes", "rename", "move", "trash", "restore", "delete"} => n \in Nodes /\ server[n].ver >= 1
  BY <1>1, <1>7, NodesAssumption
<1>9. CallOK(server, feed, access, handled, cache, Excused', filtered', q)
  BY <1>2, <1>3, <1>8 DEF CallOK, WriteOK
<1>10. /\ UNCHANGED <<server, access, changes, feed, updating, cache, loaded, handled, late, lost, astray, swept, missed, lateLists, filtered>>
       /\ started' = started + 1 /\ started < MaxCalls
  BY DEF StartCall, nodesHistory
<1>11. started' \in 0 .. MaxCalls /\ filtered' \subseteq Nodes
  BY <1>10, NodesAssumption DEF CacheInv, CacheTypes
<1> QED
  BY <1>3, <1>4, <1>9, <1>10, <1>11, CallInv

\* getNode returns a fresh entry, or goes on with its version.
LEMMA GetCachedInv ==
    ASSUME CacheInv, NEW c \in Calls, GetCached(c)
    PROVE  CacheInv'
<1>1. /\ call[c].step = "get" /\ Unsent /\ UNCHANGED <<cache, loaded, nodesHistory>>
      /\ IF call[c].kind = "get" THEN End(c)
         ELSE Set(c, [call[c] EXCEPT !.step = "ready", !.base = cache[call[c].node].ver])
  BY DEF GetCached
<1>2. call[c] \in CallRec /\ cache \in [Nodes -> Entry] /\ call[c].node \in Nodes
  BY <1>1 DEF CacheInv, CacheTypes, CallOK
<1>3. CASE call[c].kind = "get"
  BY <1>1, <1>3, EndInv
<1>4. CASE call[c].kind # "get"
  <2> DEFINE b == cache[call[c].node].ver
             q == [call[c] EXCEPT !.step = "ready", !.base = b]
  <2>1. b \in Nat
    BY <1>2 DEF Entry
  <2>2. call' = [call EXCEPT ![c] = q]
    BY <1>1, <1>4 DEF Set
  <2> HIDE DEF b
  <2>3. "ready" \in Steps
    BY DEF Steps
  <2>4. q \in CallRec /\ q.step = "ready" /\ q.kind = call[c].kind /\ q.node = call[c].node
    BY <1>2, <2>1, <2>3 DEF CallRec
  <2> HIDE DEF q
  <2> QED
    BY <1>1, <2>2, <2>4, GoOnInv
<1> QED
  BY <1>3, <1>4

\* A link as the API answers with it.
LEMMA ReadNow ==
    ASSUME CacheInv, access, NEW n \in Nodes, Exists(server, n)
    PROVE  server[n] \in Link /\ ReadOK(server, feed, access, handled[n], n, server[n])
<1>1. server \in [Nodes -> Link] /\ access = TRUE
  BY DEF CacheInv, CacheTypes
<1>2. server[n].ver >= 1 /\ server[n].ver \in Nat /\ server[n].parent # None
  BY <1>1 DEF CacheInv, ServerOK, Exists, Link
<1>3. \A d \in 0 + 1 .. Len(feed) : ~(Covers(feed, d, n) /\ feed[d].type = "deleted")
  <2> SUFFICES ASSUME NEW d \in 0 + 1 .. Len(feed), Covers(feed, d, n), feed[d].type = "deleted" PROVE FALSE
    OBVIOUS
  <2>1. EventOK(server, feed, access, d)
    BY DEF CacheInv, FeedOK, Covers
  <2> QED
    BY <2>1 DEF EventOK, Covers
<1>4. Placed(server, feed, n, server[n].ver, server[n].parent, 0)
  BY <1>3 DEF Placed
<1>5. Binned(server, feed, n, server[n].ver, server[n].trashed)
  BY DEF Binned
<1>6. server[n].ver <= server[n].ver
  BY <1>2
<1> QED
  BY <1>1, <1>2, <1>4, <1>5, <1>6 DEF ReadOK

\* loadNode asks the API for one node.
LEMMA LoadNodeInv ==
    ASSUME CacheInv, NEW c \in Calls, LoadNode(c)
    PROVE  CacheInv'
<1>1. /\ call[c].step = "get" /\ access /\ Unsent /\ UNCHANGED <<cache, loaded, nodesHistory>>
      /\ IF Exists(server, call[c].node)
           THEN Set(c, [call[c] EXCEPT !.step = "got", !.got = server[call[c].node]])
           ELSE End(c)
  BY DEF LoadNode
<1>2. call[c] \in CallRec /\ call[c].node \in Nodes
  BY <1>1 DEF CacheInv, CacheTypes, CallOK
<1>3. CASE ~Exists(server, call[c].node)
  BY <1>1, <1>3, EndInv
<1>4. CASE Exists(server, call[c].node)
  <2> DEFINE x == server[call[c].node]
             q == [call[c] EXCEPT !.step = "got", !.got = x]
  <2>1. x \in Link /\ ReadOK(server, feed, access, handled[call[c].node], call[c].node, x)
    BY <1>1, <1>2, <1>4, ReadNow
  <2>2. call' = [call EXCEPT ![c] = q]
    BY <1>1, <1>4 DEF Set
  <2> HIDE DEF x
  <2>3. "got" \in Steps /\ x \in Got
    BY <2>1 DEF Steps, Got
  <2>4. q \in CallRec /\ q.step = "got" /\ q.kind = call[c].kind /\ q.node = call[c].node /\ q.got = x
    BY <1>2, <2>3 DEF CallRec
  <2> HIDE DEF q
  <2>5. UNCHANGED <<server, access, changes, feed, updating, started, cache, loaded, handled, late, lost, astray, swept, missed, lateLists, filtered>>
    BY <1>1 DEF Unsent, nodesHistory
  <2>6. started' \in 0 .. MaxCalls /\ filtered' \subseteq Nodes
    BY <2>5 DEF CacheInv, CacheTypes
  <2>7. /\ q.kind \in {"list", "folders"} => q.node \in Folders
        /\ q.kind \in {"nodes", "rename", "move", "trash", "restore", "delete"} =>
              q.node \in Nodes /\ server[q.node].ver >= 1
    BY <2>4 DEF CacheInv, CallOK
  <2>8. CallOK(server, feed, access, handled, cache, Excused', filtered', q)
    BY <1>2, <2>1, <2>4, <2>7 DEF CallOK, WriteOK
  <2> QED
    BY <2>2, <2>4, <2>5, <2>6, <2>8, CallInv
<1> QED
  BY <1>3, <1>4

\* A batch is begun: of nodes the cache has, or of all that the server has in a folder.
LEMMA BatchInv ==
    ASSUME CacheInv, NEW c \in Calls, NEW S \in SUBSET Nodes, NEW flag \in BOOLEAN, Batch(c, S, flag),
           Unsent, UNCHANGED <<cache, loaded, nodesHistory>>, call[c].step = "ready",
           \A n \in S : server[n].ver >= 1,
           flag = TRUE => call[c].kind = "list" /\ access /\ S = ChildrenLinks(server, call[c].node)
    PROVE  CacheInv'
<1> DEFINE todo == {n \in S : ~Fresh(n)}
           q == [call[c] EXCEPT !.step = "batch", !.todo = todo, !.flag = flag]
<1>1. End(c) \/ call' = [call EXCEPT ![c] = q]
  BY DEF Batch, Set
<1>2. CASE End(c)
  BY <1>2, EndInv
<1>3. CASE call' = [call EXCEPT ![c] = q]
  <2>1. call[c] \in CallRec
    BY DEF CacheInv, CacheTypes
  <2>2. todo \in SUBSET Nodes /\ \A n \in todo : server[n].ver >= 1
    OBVIOUS
  <2>3. \A n \in S \ todo : Fresh(n)
    OBVIOUS
  <2> HIDE DEF todo
  <2>4. "batch" \in Steps
    BY DEF Steps
  <2>5. /\ q \in CallRec /\ q.step = "batch" /\ q.todo = todo /\ q.flag = flag
        /\ q.kind = call[c].kind /\ q.node = call[c].node
    BY <2>1, <2>2, <2>4 DEF CallRec
  <2> HIDE DEF q
  <2>6. UNCHANGED <<server, access, changes, feed, updating, started, cache, loaded, handled, late, lost, astray, swept, missed, lateLists, filtered>>
    BY DEF Unsent, nodesHistory
  <2>7. started' \in 0 .. MaxCalls /\ filtered' \subseteq Nodes /\ Excused' = Excused
    BY <2>6 DEF CacheInv, CacheTypes, Excused
  <2>8. /\ q.kind \in {"list", "folders"} => q.node \in Folders
        /\ q.kind \in {"nodes", "rename", "move", "trash", "restore", "delete"} =>
              q.node \in Nodes /\ server[q.node].ver >= 1
    BY <2>5 DEF CacheInv, CallOK
  <2>9. ASSUME flag = TRUE, NEW n \in Nodes PROVE Listed(server, feed, cache, Excused, n, q.node, todo)
    <3> SUFFICES ASSUME server[n].parent = q.node, ~server[n].trashed,
                        \A i \in 1 .. Len(feed) : n \notin DOMAIN feed[i].at,
                        n \notin todo, n \notin Excused
                 PROVE  cache[n].parent = q.node /\ ~cache[n].trashed
      BY DEF Listed
    <3>1. access = TRUE /\ q.node \in Folders
      BY <2>5, <2>8, <2>9 DEF CacheInv, CacheTypes
    <3>2. n \in S
      BY <2>5, <2>9 DEF ChildrenLinks
    <3>3. Fresh(n)
      BY <2>3, <3>2
    <3>4. n \notin late \cup lost
      BY <3>3 DEF Fresh, Cached, CacheInv, EntryOK, Excused
    <3>5. Placed(server, feed, n, 0, cache[n].parent, 0) /\ Binned(server, feed, n, 0, cache[n].trashed)
      BY <3>1, <3>3, <3>4 DEF Fresh, Cached, CacheInv, EntryOK
    <3>6. Exists(server, n)
      BY <3>1, NodesAssumption DEF Exists, Folders, None
    <3>7. \A i : ~(i \in 1 .. Len(feed) /\ Renews(feed, i, n, 0))
      BY DEF Renews, Covers
    <3>8. cache[n].parent = server[n].parent
      BY <3>5, <3>6, <3>7 DEF Placed
    <3>9. cache[n].trashed = server[n].trashed
      BY <3>5, <3>6, <3>7 DEF Binned
    <3> QED
      BY <3>8, <3>9
  <2>10. CallOK(server, feed, access, handled, cache, Excused', filtered', q)
    <3>1. q.flag => /\ q.kind = "list" /\ q.node \in Folders
                    /\ \A n \in Nodes : Listed(server, feed, cache, Excused, n, q.node, q.todo)
      BY <2>5, <2>8, <2>9
    <3> QED
      BY <2>2, <2>5, <2>7, <2>8, <3>1 DEF CallOK, WriteOK
  <2> QED
    BY <1>3, <2>5, <2>6, <2>7, <2>10, CallInv
<1> QED
  BY <1>1, <1>2, <1>3

\* iterateFolderChildren, from the cache or from the API, iterateTrashedNodes, iterateNodes.
LEMMA IterateInv ==
    ASSUME CacheInv, NEW c \in Calls,
           IterateFromCache(c) \/ IterateFromApi(c) \/ IterateTrashedNodes(c) \/ IterateNodes(c)
    PROVE  CacheInv'
<1>0. server \in [Nodes -> Link] /\ cache \in [Nodes -> Entry] /\ call[c] \in CallRec
  BY DEF CacheInv, CacheTypes
<1>1. /\ call[c].step = "ready" /\ Unsent /\ UNCHANGED <<cache, loaded, nodesHistory>>
  BY DEF IterateFromCache, IterateFromApi, IterateTrashedNodes, IterateNodes
<1>2. \A n \in Nodes : Exists(server, n) => server[n].ver >= 1
  BY DEF CacheInv, ServerOK
<1>3. \A n \in Nodes : Cached(cache, n) => server[n].ver >= 1
  BY DEF CacheInv, EntryOK, Cached
<1>4. CASE IterateFromCache(c)
  <2>1. Batch(c, IterateChildren(call[c].node), FALSE)
    BY <1>4 DEF IterateFromCache
  <2>2. IterateChildren(call[c].node) \in SUBSET Nodes
        /\ \A n \in IterateChildren(call[c].node) : server[n].ver >= 1
    BY <1>3 DEF IterateChildren
  <2> QED
    BY <1>1, <2>1, <2>2, BatchInv
<1>5. CASE IterateFromApi(c)
  <2>1. /\ call[c].kind \in {"list", "folders"} /\ access
        /\ Batch(c, IF call[c].kind = "list" THEN ChildrenLinks(server, call[c].node)
                    ELSE ChildrenLinks(server, call[c].node) \cap Dirs, call[c].kind = "list")
    BY <1>5 DEF IterateFromApi
  <2>2. call[c].node \in Folders
    BY <2>1 DEF CacheInv, CallOK
  <2>3. ChildrenLinks(server, call[c].node) \in SUBSET Nodes
        /\ \A n \in ChildrenLinks(server, call[c].node) : server[n].ver >= 1
    <3>1. call[c].node # None
      BY <2>2, NodesAssumption DEF Folders, None
    <3> QED
      BY <1>2, <3>1 DEF ChildrenLinks, Exists
  <2>4. CASE call[c].kind = "list"
    <3>1. Batch(c, ChildrenLinks(server, call[c].node), TRUE)
      <4>1. (call[c].kind = "list") = TRUE
        BY <2>4
      <4> QED
        BY <2>1, <2>4, <4>1
    <3> QED
      BY <1>1, <2>1, <2>3, <2>4, <3>1, BatchInv
  <2>5. CASE call[c].kind # "list"
    <3>1. Batch(c, ChildrenLinks(server, call[c].node) \cap Dirs, FALSE)
      <4>1. (call[c].kind = "list") = FALSE
        BY <2>5
      <4> QED
        BY <2>1, <2>5, <4>1
    <3>2. ChildrenLinks(server, call[c].node) \cap Dirs \in SUBSET Nodes
          /\ \A n \in ChildrenLinks(server, call[c].node) \cap Dirs : server[n].ver >= 1
      BY <2>3
    <3> QED
      BY <1>1, <3>1, <3>2, BatchInv
  <2> QED
    BY <2>4, <2>5
<1>6. CASE IterateTrashedNodes(c)
  <2>1. Batch(c, TrashedLinks(server), FALSE)
    BY <1>6 DEF IterateTrashedNodes
  <2>2. TrashedLinks(server) \in SUBSET Nodes /\ \A n \in TrashedLinks(server) : server[n].ver >= 1
    BY <1>2 DEF TrashedLinks
  <2> QED
    BY <1>1, <2>1, <2>2, BatchInv
<1>7. CASE IterateNodes(c)
  <2>1. Batch(c, {call[c].node}, FALSE) /\ call[c].kind = "nodes"
    BY <1>7 DEF IterateNodes
  <2>2. call[c].node \in Nodes /\ server[call[c].node].ver >= 1
    BY <2>1 DEF CacheInv, CallOK
  <2>3. {call[c].node} \in SUBSET Nodes /\ \A n \in {call[c].node} : server[n].ver >= 1
    BY <2>2
  <2> QED
    BY <1>1, <2>1, <2>3, BatchInv
<1> QED
  BY <1>4, <1>5, <1>6, <1>7

\* A call that ends without a word to the cache: it failed, its answer was lost, or the
\* trash was emptied (emptyTrash tells the cache of nothing).
LEMMA EndsInv ==
    ASSUME CacheInv, NEW c \in Calls, FailCall(c) \/ EmptyTrash(c) \/ AnswerLost(c)
    PROVE  CacheInv'
  BY EndInv DEF FailCall, EmptyTrash, AnswerLost

\* The answer of the API to a batch: what is missing is gone, or was filtered out.
LEMMA FetchInv ==
    ASSUME CacheInv, NEW c \in Calls, FetchNodeMetadata(c)
    PROVE  CacheInv'
<1> DEFINE todo == call[c].todo
           D == {m \in todo : Exists(server, m) /\ PassesFilter(c, m)}
           got == [n \in D |-> server[n]]
           q == [call[c] EXCEPT !.step = "store", !.got = got]
<1>1. /\ call[c].step = "batch" /\ access /\ Unsent /\ call' = [call EXCEPT ![c] = q]
      /\ filtered' = filtered \cup {m \in todo : Exists(server, m) /\ ~PassesFilter(c, m)}
      /\ UNCHANGED <<cache, loaded, handled, late, lost, astray, swept, missed, lateLists>>
  BY DEF FetchNodeMetadata, Set
<1>2. /\ call[c] \in CallRec /\ todo \subseteq Nodes /\ server \in [Nodes -> Link] /\ filtered \subseteq Nodes
      /\ started \in 0 .. MaxCalls
  BY DEF CacheInv, CacheTypes, CallRec
<1>3. D \in SUBSET Nodes /\ D \subseteq todo /\ \A n \in D : Exists(server, n)
  BY <1>2
<1>4. \A n \in todo \ D : Exists(server, n) => n \in filtered'
  BY <1>1
<1>5. call[c].kind = "list" => \A n \in todo : Exists(server, n) => n \in D
  BY DEF PassesFilter
<1>6. filtered \subseteq filtered' /\ filtered' \subseteq Nodes
  BY <1>1, <1>2
<1> HIDE DEF D
<1>7. got \in [D -> Link] /\ DOMAIN got = D /\ \A n \in D : got[n] = server[n]
  BY <1>2, <1>3
<1>8. got \in Got
  BY <1>3, <1>7 DEF Got
<1> HIDE DEF got
<1>9. "store" \in Steps
  BY DEF Steps
<1>10. /\ q \in CallRec /\ q.step = "store" /\ q.got = got /\ q.todo = todo
       /\ q.kind = call[c].kind /\ q.node = call[c].node /\ q.dirty = call[c].dirty /\ q.flag = call[c].flag
  BY <1>2, <1>8, <1>9 DEF CallRec
<1> HIDE DEF q, todo
<1>11. CallOK(server, feed, access, handled, cache, Excused, filtered, call[c])
  BY DEF CacheInv
<1>12. UNCHANGED <<server, access, changes, feed, updating, started, cache, loaded, handled, late, lost, astray, swept, missed, lateLists>>
  BY <1>1 DEF Unsent
<1>13. \A n \in D : ReadOK(server, feed, access, handled[n], n, got[n])
  BY <1>1, <1>3, <1>7, ReadNow
<1>14. \A n \in todo \ D : (~Exists(server, n) /\ server[n].ver >= 1) \/ n \in filtered'
  <2>1. \A n \in todo : server[n].ver >= 1
    BY <1>1, <1>11 DEF CallOK, todo
  <2> QED
    BY <1>4, <2>1
<1>15. /\ q.kind \in {"list", "folders"} => q.node \in Folders
       /\ q.kind \in {"nodes", "rename", "move", "trash", "restore", "delete"} =>
             q.node \in Nodes /\ server[q.node].ver >= 1
  BY <1>10, <1>11 DEF CallOK
<1>16. q.flag => /\ q.kind = "list" /\ q.node \in Folders
                 /\ access /\ ~q.dirty => \A n \in Nodes : Listed(server, feed, cache, Excused', n, q.node, D)
  <2> SUFFICES ASSUME q.flag
               PROVE  /\ q.kind = "list" /\ q.node \in Folders
                      /\ access /\ ~q.dirty => \A n \in Nodes : Listed(server, feed, cache, Excused', n, q.node, D)
    OBVIOUS
  <2>1. call[c].step \in {"batch", "store"} /\ call[c].flag
    BY <1>1, <1>10
  <2>2. /\ call[c].kind = "list" /\ call[c].node \in Folders
        /\ access /\ ~call[c].dirty =>
              \A n \in Nodes : Listed(server, feed, cache, Excused, n, call[c].node,
                                      IF call[c].step = "batch" THEN call[c].todo ELSE DOMAIN call[c].got)
    BY <2>1, <1>11 DEF CallOK
  <2>3. access /\ ~q.dirty => \A n \in Nodes : Listed(server, feed, cache, Excused, n, q.node, todo)
    BY <1>1, <1>10, <2>2 DEF todo
  <2>4. \A n \in todo : server[n].parent = q.node => n \in D
    <3>1. q.node # None
      BY <1>10, <2>2, NodesAssumption DEF Folders, None
    <3> QED
      BY <1>5, <2>2, <3>1 DEF Exists
  <2>5. Excused \subseteq Excused'
    BY <1>6, <1>12 DEF Excused
  <2>6. \A n \in Nodes : Listed(server, feed, cache, Excused, n, q.node, todo)
                            => Listed(server, feed, cache, Excused', n, q.node, D)
    BY <2>4, <2>5 DEF Listed
  <2> QED
    BY <1>10, <2>2, <2>3, <2>6
<1>17. CallOK(server, feed, access, handled, cache, Excused', filtered', q)
  BY <1>3, <1>7, <1>10, <1>13, <1>14, <1>15, <1>16 DEF CallOK, WriteOK
<1>18. started' \in 0 .. MaxCalls
  BY <1>2, <1>12
<1> QED
  BY <1>1, <1>6, <1>10, <1>12, <1>17, <1>18, CallInv

\* notifyChildCreated resets the flag of the target folder; a listing of it in progress
\* will set the flag again although it may have missed the child, and is dirty.
LEMMA ChildCreatedInv ==
    ASSUME CacheInv, NEW c \in Calls, CopyNode(c) \/ CreateFolder(c)
    PROVE  CacheInv'
<1>1. NotifyChildCreated(c) /\ Unsent /\ UNCHANGED <<cache, nodesHistory>>
  BY DEF CopyNode, CreateFolder
<1>2. /\ loaded' \subseteq loaded
      /\ call' = [d \in Calls |-> IF d = c THEN Idle
                   ELSE IF call[d].node = call[c].to /\ call[d].step \in {"batch", "store"}
                          THEN [call[d] EXCEPT !.dirty = TRUE] ELSE call[d]]
  BY <1>1 DEF NotifyChildCreated
<1>3. UNCHANGED <<server, access, changes, feed, updating, started, cache, handled, late, lost, astray, swept, missed, lateLists, filtered>>
  BY <1>1 DEF Unsent, nodesHistory
<1>4. call \in [Calls -> CallRec] /\ started' \in 0 .. MaxCalls /\ filtered' \subseteq Nodes
  BY <1>3 DEF CacheInv, CacheTypes
<1>5. Excused' = Excused
  BY <1>3 DEF Excused
<1>6. ASSUME NEW d \in Calls
      PROVE  call'[d] \in CallRec /\ CallOK(server, feed, access, handled, cache, Excused, filtered, call'[d])
  <2>1. call[d] \in CallRec /\ CallOK(server, feed, access, handled, cache, Excused, filtered, call[d])
    BY <1>4 DEF CacheInv
  <2>2. CASE call'[d] = Idle
    BY <2>2, IdleIs
  <2>3. CASE call'[d] = call[d]
    BY <2>1, <2>3
  <2>4. CASE call'[d] = [call[d] EXCEPT !.dirty = TRUE]
    <3> DEFINE q == [call[d] EXCEPT !.dirty = TRUE]
    <3>1. /\ q \in CallRec /\ q.dirty = TRUE /\ q.kind = call[d].kind /\ q.node = call[d].node /\ q.to = call[d].to
          /\ q.step = call[d].step /\ q.base = call[d].base /\ q.got = call[d].got /\ q.todo = call[d].todo
          /\ q.flag = call[d].flag
      BY <2>1 DEF CallRec
    <3> HIDE DEF q
    <3>2. CallOK(server, feed, access, handled, cache, Excused, filtered, q)
      BY <2>1, <3>1 DEF CallOK, WriteOK
    <3> QED
      BY <2>4, <3>1, <3>2 DEF q
  <2> QED
    BY <1>2, <2>2, <2>3, <2>4
<1>7. call' \in [Calls -> CallRec]
  <2>1. DOMAIN call' = Calls /\ call' = [d \in Calls |-> call'[d]]
    BY <1>2
  <2> QED
    BY <1>6, <2>1
<1> QED
  BY <1>2, <1>3, <1>4, <1>5, <1>6, <1>7, CallsInv

-----------------------------------------------------------------------------
(* Nodes are stored *)

\* What renews a version also renews an older one.
LEMMA PlacedOlder ==
    ASSUME NEW s, NEW F \in Seq(EventRec), NEW n, NEW v \in Nat, NEW w \in Nat, w <= v, NEW k \in Nat, NEW p, NEW t
    PROVE  /\ Placed(s, F, n, v, p, k) => Placed(s, F, n, w, p, k)
           /\ Binned(s, F, n, v, t) => Binned(s, F, n, w, t)
<1>1. ASSUME NEW i, Renews(F, i, n, v) PROVE Renews(F, i, n, w)
  <2>1. i \in 1 .. Len(F) /\ n \in DOMAIN F[i].at /\ v < F[i].at[n]
    BY <1>1 DEF Renews, Covers
  <2>2. F[i].at[n] \in Nat
    BY <2>1, EventsAre
  <2>3. w < F[i].at[n]
    BY <2>1, <2>2
  <2> QED
    BY <1>1, <2>3 DEF Renews
<1> QED
  BY <1>1 DEF Placed, Binned

\* decryptNode and loadNodesWithMissingReport store what was read, however long ago: an
\* answer older than what the cache was told of is late.
LEMMA StoredEntry ==
    ASSUME NEW s \in [Nodes -> Link], NEW F \in Seq(EventRec), NEW a \in BOOLEAN, FeedOK(s, F, a),
           NEW h \in Nat, NEW n \in Nodes, ToldOK(s, F, a, h, n), NEW x \in Link, ReadOK(s, F, a, h, n, x),
           NEW l, NEW o, NEW y, n \notin o, x.ver < h => n \in l
    PROVE  EntryOK(s, F, a, h, n, NewEntry(x), l, o, y) /\ NewEntry(x) \in Entry
<1> DEFINE z == NewEntry(x)
<1>1. /\ z \in Entry /\ z.parent = x.parent /\ z.trashed = x.trashed /\ z.ver = x.ver /\ z.stale = FALSE
  BY DEF NewEntry, Entry, Link
<1> HIDE DEF z
<1>2. x.ver \in Nat /\ s[n].ver \in Nat /\ x.ver >= 1 /\ x.ver <= s[n].ver
  BY DEF ReadOK, Link
<1>3. z.ver >= h \/ n \in l \cup y
  BY <1>1, <1>2
<1>4. a /\ n \notin l \cup o => Placed(s, F, n, 0, z.parent, 0) /\ Binned(s, F, n, 0, z.trashed)
  <2> SUFFICES ASSUME a, n \notin l \cup o
               PROVE  Placed(s, F, n, 0, z.parent, 0) /\ Binned(s, F, n, 0, z.trashed)
    OBVIOUS
  <2>1. Placed(s, F, n, x.ver, x.parent, 0) /\ Binned(s, F, n, x.ver, x.trashed)
    BY <1>2 DEF ReadOK
  <2>2. 0 <= x.ver
    BY <1>2
  <2> QED
    BY <1>1, <1>2, <2>1, <2>2, PlacedOlder
<1>5. ASSUME a, ~Exists(s, n), n \notin l
      PROVE  \E i \in 1 .. Len(F) : Covers(F, i, n) /\ F[i].type \in {"deleted", "refresh"}
  <2>1. x.ver # s[n].ver
    BY <1>5 DEF ReadOK, Exists
  <2>2. h # s[n].ver
    BY <1>2, <1>5, <2>1
  <2>3. PICK i \in 1 .. Len(F) : Covers(F, i, n) /\ F[i].at[n] = s[n].ver
    BY <1>5, <2>2 DEF ToldOK
  <2>4. EventOK(s, F, a, i) /\ n \in DOMAIN F[i].at /\ F[i] \in EventRec
    BY <2>3 DEF FeedOK, Covers
  <2>5. F[i].type \in {"updated", "created", "deleted", "refresh", "remove"}
    BY <2>4 DEF EventRec
  <2>6. F[i].type \notin {"updated", "created"}
    BY <1>5, <2>3, <2>4 DEF EventOK
  <2>7. F[i].type # "remove"
    BY <2>4 DEF EventOK
  <2> QED
    BY <2>3, <2>5, <2>6, <2>7
<1>6. EntryOK(s, F, a, h, n, z, l, o, y)
  BY <1>1, <1>2, <1>3, <1>4, <1>5 DEF EntryOK
<1> QED
  BY <1>1, <1>6 DEF z

\* What storing got, over the nodes R that are removed, does to the cache and the history.
Stores(got, R) ==
    /\ cache' \in [Nodes -> Entry]
    /\ \A n \in Nodes : \/ n \in R /\ cache'[n] = NotCached
                        \/ n \in DOMAIN got \ R /\ cache'[n] = NewEntry(got[n])
                        \/ n \notin DOMAIN got \cup R /\ cache'[n] = cache[n]
    /\ late' = (late \ DOMAIN got) \cup {n \in DOMAIN got : got[n].ver < handled[n]}
    /\ lost' = lost \ DOMAIN got /\ astray' = astray \ DOMAIN got
    /\ missed \ DOMAIN got \subseteq missed' /\ missed' \subseteq Nodes
    /\ swept \ DOMAIN got \subseteq swept' /\ swept' \subseteq Nodes
    /\ \A n \in R : Exists(server, n) => n \in swept' \cup filtered
    /\ UNCHANGED <<server, access, changes, feed, updating, started, handled, filtered>>

\* Got is what the API answered, for nodes only.
Answer(got) ==
    /\ DOMAIN got \subseteq Nodes /\ got \in [DOMAIN got -> Link]
    /\ \A n \in DOMAIN got : ReadOK(server, feed, access, handled[n], n, got[n])

\* A listing stays complete when nodes are stored, and needs no longer be waiting for them.
LEMMA StoresKeep ==
    ASSUME CacheInv, access, NEW got, NEW R, Answer(got), Stores(got, R),
           NEW p \in Folders, NEW n \in Nodes, NEW Z,
           Listed(server, feed, cache, Excused \cup missed', n, p, Z \cup DOMAIN got)
    PROVE  Listed(server, feed, cache', Excused', n, p, Z)
<1> SUFFICES ASSUME server[n].parent = p, ~server[n].trashed, \A i \in 1 .. Len(feed) : n \notin DOMAIN feed[i].at
             PROVE  (cache'[n].parent = p /\ ~cache'[n].trashed) \/ n \in Excused' \cup Z
  BY DEF Listed
<1>1. Exists(server, n)
  BY NodesAssumption DEF Exists, Folders, None
<1>2. CASE n \in R
  BY <1>1, <1>2 DEF Stores, Excused
<1>3. CASE n \in DOMAIN got \ R
  <2>1. cache'[n] = NewEntry(got[n])
    BY <1>3 DEF Stores
  <2>2. got[n] \in Link /\ ReadOK(server, feed, access, handled[n], n, got[n]) /\ handled[n] \in Nat
    BY <1>3 DEF Answer, CacheInv, CacheTypes
  <2>3. CASE got[n].ver < handled[n]
    BY <1>3, <2>3 DEF Stores, Excused
  <2>4. CASE ~(got[n].ver < handled[n])
    <3>1. got[n].ver >= handled[n]
      BY <2>2, <2>4 DEF Link
    <3>2. /\ Placed(server, feed, n, got[n].ver, got[n].parent, 0)
          /\ Binned(server, feed, n, got[n].ver, got[n].trashed)
      BY <2>2, <3>1 DEF ReadOK
    <3>3. \A i : ~(i \in 1 .. Len(feed) /\ Renews(feed, i, n, got[n].ver))
      BY DEF Renews, Covers
    <3>4. got[n].parent = server[n].parent
      BY <1>1, <3>2, <3>3 DEF Placed
    <3>5. got[n].trashed = server[n].trashed
      BY <1>1, <3>2, <3>3 DEF Binned
    <3>6. cache'[n].parent = got[n].parent /\ cache'[n].trashed = got[n].trashed
      BY <2>1 DEF NewEntry
    <3> QED
      BY <3>4, <3>5, <3>6
  <2> QED
    BY <2>3, <2>4
<1>4. CASE n \notin DOMAIN got \cup R
  <2>1. cache'[n] = cache[n]
    BY <1>4 DEF Stores
  <2>2. n \in Excused \cup missed' => n \in Excused'
    BY <1>4 DEF Stores, Excused
  <2> QED
    BY <1>4, <2>1, <2>2 DEF Listed
<1> QED
  BY <1>2, <1>3, <1>4

\* Storing an answer keeps the invariant, whatever becomes of the call that read it.
LEMMA StoresInv ==
    ASSUME CacheInv, NEW got, NEW R, Answer(got), Stores(got, R), call' \in [Calls -> CallRec],
           \A d \in Calls : \/ call'[d] = call[d]
                             \/ /\ call'[d].step \in {"idle", "ready"}
                                /\ CallOK(server, feed, access, handled, cache, Excused, filtered, call'[d]),
           loaded' \subseteq Folders, lateLists' \subseteq Folders,
           access => \A p \in loaded' \ lateLists', n \in Nodes :
                        Listed(server, feed, cache, Excused \cup missed', n, p, DOMAIN got)
    PROVE  CacheInv'
<1>1. UNCHANGED <<server, access, changes, feed, updating, started, handled, filtered>>
  BY DEF Stores
<1>2. CacheTypes'
  BY <1>1 DEF CacheInv, CacheTypes, Stores, Answer
<1>3. ServerOK(server, astray') /\ FeedOK(server, feed, access) /\ UpdatingOK(updating, feed)
  BY DEF CacheInv, ServerOK, Stores
<1>4. \A n \in Nodes : ToldOK(server, feed, access, handled[n], n)
  BY DEF CacheInv
<1>5. ASSUME NEW n \in Nodes
      PROVE  EntryOK(server, feed, access, handled[n], n, cache'[n], late', lost', astray')
  <2>0. /\ server \in [Nodes -> Link] /\ feed \in Seq(EventRec) /\ access \in BOOLEAN /\ handled[n] \in Nat
    BY DEF CacheInv, CacheTypes
  <2>1. CASE n \in R /\ cache'[n] = NotCached
    BY <2>1, NotCachedOK
  <2>2. CASE n \in DOMAIN got \ R /\ cache'[n] = NewEntry(got[n])
    <3>1. got[n] \in Link /\ ReadOK(server, feed, access, handled[n], n, got[n])
      BY <2>2 DEF Answer
    <3>2. PICK l, o : l = late' /\ o = lost'
      OBVIOUS
    <3>3. n \notin o /\ (got[n].ver < handled[n] => n \in l)
      BY <2>2, <3>2 DEF Stores
    <3>4. EntryOK(server, feed, access, handled[n], n, NewEntry(got[n]), l, o, astray')
      BY <1>3, <1>4, <2>0, <3>1, <3>3, StoredEntry
    <3> QED
      BY <2>2, <3>2, <3>4
  <2>3. CASE n \notin DOMAIN got \cup R /\ cache'[n] = cache[n]
    <3>1. (n \in late <=> n \in late') /\ (n \in lost <=> n \in lost') /\ (n \in astray <=> n \in astray')
      BY <2>3 DEF Stores
    <3>2. EntryOK(server, feed, access, handled[n], n, cache[n], late, lost, astray)
      BY DEF CacheInv
    <3>3. EntryOK(server, feed, access, handled[n], n, cache[n], late', lost', astray')
      BY <3>1, <3>2 DEF EntryOK
    <3> QED
      BY <2>3, <3>3
  <2> QED
    BY <2>1, <2>2, <2>3 DEF Stores
<1>6. ASSUME access, NEW p \in Folders, NEW n \in Nodes, NEW Z, Listed(server, feed, cache, Excused, n, p, Z)
      PROVE  Listed(server, feed, cache', Excused', n, p, Z)
  <2>1. Listed(server, feed, cache, Excused \cup missed', n, p, Z \cup DOMAIN got)
    BY <1>6 DEF Listed
  <2> QED
    BY <1>6, <2>1, StoresKeep
<1>7. ASSUME NEW d \in Calls
      PROVE  CallOK(server, feed, access, handled, cache', Excused', filtered, call'[d])
  <2>1. CASE call'[d] = call[d]
    <3> DEFINE r == call[d]
    <3>1. CallOK(server, feed, access, handled, cache, Excused, filtered, r)
      BY DEF CacheInv
    <3> HIDE DEF r
    <3>2. CallOK(server, feed, access, handled, cache', Excused', filtered, r)
      BY <1>6, <3>1 DEF CallOK
    <3> QED
      BY <2>1, <3>2 DEF r
  <2>2. CASE /\ call'[d].step \in {"idle", "ready"}
             /\ CallOK(server, feed, access, handled, cache, Excused, filtered, call'[d])
    <3>1. PICK r : r = call'[d]
      OBVIOUS
    <3>2. CallOK(server, feed, access, handled, cache', Excused', filtered, r)
      BY <2>2, <3>1 DEF CallOK, WriteOK
    <3> QED
      BY <3>1, <3>2
  <2> QED
    BY <2>1, <2>2
<1>8. access => \A p \in loaded' \ lateLists', n \in Nodes : Listed(server, feed, cache', Excused', n, p, {})
  <2> SUFFICES ASSUME access, NEW p \in loaded' \ lateLists', NEW n \in Nodes
               PROVE  Listed(server, feed, cache', Excused', n, p, {})
    OBVIOUS
  <2>1. Listed(server, feed, cache, Excused \cup missed', n, p, DOMAIN got)
    OBVIOUS
  <2>2. Listed(server, feed, cache, Excused \cup missed', n, p, {} \cup DOMAIN got) /\ p \in Folders
    BY <2>1
  <2> QED
    BY <2>2, StoresKeep
<1> QED
  BY <1>1, <1>2, <1>3, <1>4, <1>5, <1>7, <1>8 DEF CacheInv

\* Of an answer got the nodes S are stored, and the nodes R removed afterwards.
LEMMA StoresSome ==
    ASSUME CacheInv, NEW got, Answer(got), NEW S \in SUBSET DOMAIN got, NEW R, NEW rest \in SUBSET Nodes,
           cache' \in [Nodes -> Entry],
           \A n \in Nodes : \/ n \in R /\ cache'[n] = NotCached
                            \/ n \notin R /\ cache'[n] = StoredNodes(S, got)[n],
           Stored(S, got, rest), swept \ S \subseteq swept', swept' \subseteq Nodes,
           \A n \in R : Exists(server, n) => n \in swept' \cup filtered,
           UNCHANGED <<server, access, changes, feed, updating, started, handled, filtered>>
    PROVE  LET kept == [n \in S |-> got[n]] IN Answer(kept) /\ Stores(kept, R) /\ DOMAIN kept = S
<1> DEFINE kept == [n \in S |-> got[n]]
<1>1. DOMAIN kept = S /\ \A n \in S : kept[n] = got[n]
  OBVIOUS
<1>2. kept \in [S -> Link] /\ S \subseteq Nodes
  BY DEF Answer
<1> HIDE DEF kept
<1>3. Answer(kept)
  BY <1>1, <1>2 DEF Answer
<1>4. \A n \in Nodes : \/ n \in R /\ cache'[n] = NotCached
                       \/ n \in S \ R /\ cache'[n] = NewEntry(kept[n])
                       \/ n \notin S \cup R /\ cache'[n] = cache[n]
  <2> SUFFICES ASSUME NEW n \in Nodes, n \notin R
               PROVE  \/ n \in S \ R /\ cache'[n] = NewEntry(kept[n])
                      \/ n \notin S \cup R /\ cache'[n] = cache[n]
    OBVIOUS
  <2>1. cache'[n] = IF n \in S THEN NewEntry(got[n]) ELSE cache[n]
    BY DEF StoredNodes
  <2> QED
    BY <1>1, <2>1
<1>5. late' = (late \ S) \cup {n \in S : kept[n].ver < handled[n]}
  <2>1. late' = (late \ S) \cup {n \in S : got[n].ver < handled[n]}
    BY DEF Stored
  <2> QED
    BY <1>1, <2>1
<1>6. /\ lost' = lost \ S /\ astray' = astray \ S
      /\ missed \ S \subseteq missed' /\ missed' \subseteq Nodes
  BY DEF Stored, CacheInv, CacheTypes
<1>7. Stores(kept, R)
  BY <1>1, <1>4, <1>5, <1>6 DEF Stores
<1> QED
  BY <1>1, <1>3, <1>7 DEF kept

\* Entries stored from an answer are entries.
LEMMA StoredNodesAre ==
    ASSUME CacheInv, NEW got, Answer(got), NEW S \in SUBSET DOMAIN got
    PROVE  StoredNodes(S, got) \in [Nodes -> Entry]
<1>1. cache \in [Nodes -> Entry]
  BY DEF CacheInv, CacheTypes
<1>2. \A n \in S : NewEntry(got[n]) \in Entry
  BY DEF Answer, NewEntry, Entry, Link
<1> QED
  BY <1>1, <1>2 DEF StoredNodes

\* decryptNode stores the node that loadNode has read, or cannot store it.
LEMMA DecryptInv ==
    ASSUME CacheInv, NEW c \in Calls, DecryptNode(c)
    PROVE  CacheInv'
<1> DEFINE m == call[c].node
           x == call[c].got
           got == [n \in {m} |-> x]
           q == [call[c] EXCEPT !.step = "ready", !.base = x.ver, !.got = <<>>]
<1>1. PICK S \in SUBSET DOMAIN got :
          cache' = StoredNodes(S, got) /\ Stored(S, got, {}) /\ swept' = swept \ S
  BY Zenon DEF DecryptNode
<1>2. /\ call[c].step = "got"
      /\ call' = [call EXCEPT ![c] = Idle] \/ call' = [call EXCEPT ![c] = q]
      /\ UNCHANGED <<server, access, changes, feed, updating, started, loaded, handled, lateLists, filtered>>
  BY DEF DecryptNode, End, Set, Unsent
<1>3. /\ call \in [Calls -> CallRec] /\ loaded \subseteq Folders /\ swept \subseteq Nodes /\ lateLists \subseteq Folders
  BY DEF CacheInv, CacheTypes
<1>4. CallOK(server, feed, access, handled, cache, Excused, filtered, call[c])
  BY DEF CacheInv
<1>5. m \in Nodes /\ x \in Link /\ ReadOK(server, feed, access, handled[m], m, x)
  BY <1>2, <1>4 DEF CallOK
<1>6. DOMAIN got = {m} /\ got[m] = x /\ got \in [{m} -> {x}]
  OBVIOUS
<1>7. /\ q.kind = call[c].kind /\ q.node = call[c].node /\ q.step = "ready" /\ q \in CallRec
  <2>1. x.ver \in Nat /\ <<>> \in Got /\ "ready" \in Steps
    BY <1>5 DEF Link, Got, Steps
  <2>2. call[c] \in CallRec
    BY <1>3
  <2> HIDE DEF x
  <2> QED
    BY <2>1, <2>2 DEF CallRec
<1> HIDE DEF got, q
<1>8. Answer(got)
  <2>1. got \in [DOMAIN got -> Link]
    BY <1>5, <1>6
  <2> QED
    BY <1>5, <1>6, <2>1 DEF Answer
<1>9. PICK kept : kept = [n \in S |-> got[n]]
  OBVIOUS
<1>10. Answer(kept) /\ Stores(kept, {}) /\ DOMAIN kept = S
  <2>1. cache' \in [Nodes -> Entry] /\ \A n \in Nodes : cache'[n] = StoredNodes(S, got)[n]
    BY <1>1, <1>8, StoredNodesAre
  <2>2. swept \ S \subseteq swept' /\ swept' \subseteq Nodes
    BY <1>1, <1>3
  <2> QED
    BY <1>1, <1>2, <1>8, <1>9, <2>1, <2>2, StoresSome
<1>11. CallOK(server, feed, access, handled, cache, Excused, filtered, q)
  <2>1. /\ q.kind \in {"list", "folders"} => q.node \in Folders
        /\ q.kind \in {"nodes", "rename", "move", "trash", "restore", "delete"} =>
              q.node \in Nodes /\ server[q.node].ver >= 1
    BY <1>4, <1>7 DEF CallOK
  <2> QED
    BY <1>7, <2>1 DEF CallOK, WriteOK
<1>12. PICK r \in CallRec : /\ call' = [call EXCEPT ![c] = r] /\ r.step \in {"idle", "ready"}
                            /\ CallOK(server, feed, access, handled, cache, Excused, filtered, r)
  BY <1>2, <1>7, <1>11, IdleIs
<1>13. /\ call' \in [Calls -> CallRec]
       /\ \A d \in Calls : \/ call'[d] = call[d]
                            \/ /\ call'[d].step \in {"idle", "ready"}
                               /\ CallOK(server, feed, access, handled, cache, Excused, filtered, call'[d])
  <2>1. call'[c] = r /\ \A d \in Calls \ {c} : call'[d] = call[d]
    BY <1>3, <1>12
  <2> QED
    BY <1>3, <1>12, <2>1
<1>14. access => \A p \in loaded' \ lateLists', n \in Nodes :
                    Listed(server, feed, cache, Excused \cup missed', n, p, DOMAIN kept)
  BY <1>2 DEF CacheInv, Listed
<1>15. loaded' \subseteq Folders /\ lateLists' \subseteq Folders
  BY <1>2, <1>3
<1> QED
  BY <1>10, <1>13, <1>14, <1>15, StoresInv

\* A batch of nodes is stored, but some cannot be decrypted, and the listing fails.
LEMMA LoadSomeInv ==
    ASSUME CacheInv, NEW c \in Calls, LoadSomeNodesFails(c)
    PROVE  CacheInv'
<1> DEFINE got == call[c].got
<1>1. PICK S \in SUBSET DOMAIN got :
          cache' = StoredNodes(S, got) /\ Stored(S, got, {}) /\ swept' = swept \ S
  BY Zenon DEF LoadSomeNodesFails
<1>2. /\ call[c].step = "store" /\ call' = [call EXCEPT ![c] = Idle]
      /\ UNCHANGED <<server, access, changes, feed, updating, started, loaded, handled, lateLists, filtered>>
  BY DEF LoadSomeNodesFails, End, Set, Unsent
<1>3. /\ call \in [Calls -> CallRec] /\ loaded \subseteq Folders /\ swept \subseteq Nodes /\ lateLists \subseteq Folders
  BY DEF CacheInv, CacheTypes
<1>4. Answer(got)
  <2>1. CallOK(server, feed, access, handled, cache, Excused, filtered, call[c]) /\ call[c].todo \subseteq Nodes
    BY <1>3 DEF CacheInv, CallRec
  <2> QED
    BY <1>2, <2>1 DEF CallOK, Answer
<1> HIDE DEF got
<1>5. PICK kept : kept = [n \in S |-> got[n]]
  OBVIOUS
<1>6. Answer(kept) /\ Stores(kept, {}) /\ DOMAIN kept = S
  <2>1. cache' \in [Nodes -> Entry] /\ \A n \in Nodes : cache'[n] = StoredNodes(S, got)[n]
    BY <1>1, <1>4, StoredNodesAre
  <2>2. swept \ S \subseteq swept' /\ swept' \subseteq Nodes
    BY <1>1, <1>3
  <2> QED
    BY <1>1, <1>2, <1>4, <1>5, <2>1, <2>2, StoresSome
<1>7. /\ call' \in [Calls -> CallRec]
      /\ \A d \in Calls : \/ call'[d] = call[d]
                           \/ /\ call'[d].step \in {"idle", "ready"}
                              /\ CallOK(server, feed, access, handled, cache, Excused, filtered, call'[d])
  <2>1. call'[c] = Idle /\ \A d \in Calls \ {c} : call'[d] = call[d]
    BY <1>2, <1>3
  <2>2. call' \in [Calls -> CallRec]
    BY <1>2, <1>3, IdleIs
  <2>3. call'[c].step = "idle" /\ CallOK(server, feed, access, handled, cache, Excused, filtered, call'[c])
    BY <2>1, IdleIs
  <2> QED
    BY <2>1, <2>2, <2>3
<1>8. access => \A p \in loaded' \ lateLists', n \in Nodes :
                   Listed(server, feed, cache, Excused \cup missed', n, p, DOMAIN kept)
  BY <1>2 DEF CacheInv, Listed
<1>9. loaded' \subseteq Folders /\ lateLists' \subseteq Folders
  BY <1>2, <1>3
<1> QED
  BY <1>6, <1>7, <1>8, <1>9, StoresInv

\* The listing of a folder that ends with setFolderChildrenLoaded is complete but for the nodes
\* that could not be stored, or it is dirty.
LEMMA LoadMissingInv ==
    ASSUME CacheInv, NEW c \in Calls, LoadNodesWithMissingReport(c)
    PROVE  CacheInv'
<1> DEFINE got == call[c].got
           missing == call[c].todo \ DOMAIN got
<1>1. PICK S \in SUBSET DOMAIN got :
          /\ cache' = RemoveNodes(StoredNodes(S, got), missing)
          /\ Stored(S, got, DOMAIN got \ S)
          /\ swept' = (swept \ S) \cup Swept(StoredNodes(S, got), missing)
  BY Zenon DEF LoadNodesWithMissingReport
<1>2. /\ call[c].step = "store" /\ call' = [call EXCEPT ![c] = Idle]
      /\ UNCHANGED <<server, access, changes, feed, updating, started, handled, filtered>>
      /\ IF call[c].flag
           THEN /\ loaded' = loaded \cup {call[c].node}
                /\ lateLists' = IF call[c].dirty THEN lateLists \cup {call[c].node} ELSE lateLists \ {call[c].node}
           ELSE UNCHANGED <<loaded, lateLists>>
  BY DEF LoadNodesWithMissingReport, End, Set, Unsent
<1>3. /\ call \in [Calls -> CallRec] /\ loaded \subseteq Folders /\ swept \subseteq Nodes /\ lateLists \subseteq Folders
  BY DEF CacheInv, CacheTypes
<1>4. CallOK(server, feed, access, handled, cache, Excused, filtered, call[c])
  BY DEF CacheInv
<1>5. Answer(got) /\ DOMAIN got \subseteq Nodes
  <2>1. call[c].todo \subseteq Nodes
    BY <1>3 DEF CallRec
  <2> QED
    BY <1>2, <1>4, <2>1 DEF CallOK, Answer
<1>6. \A n \in missing : Exists(server, n) => n \in filtered
  BY <1>2, <1>4 DEF CallOK
<1>7. call[c].flag => /\ call[c].node \in Folders
                      /\ access /\ ~call[c].dirty =>
                            \A n \in Nodes : Listed(server, feed, cache, Excused, n, call[c].node, DOMAIN got)
  <2>1. call[c].step \in {"batch", "store"} /\ call[c].step # "batch"
    BY <1>2
  <2> QED
    BY <1>4, <2>1 DEF CallOK
<1> HIDE DEF got, missing
<1>8. PICK merged : merged = StoredNodes(S, got)
  OBVIOUS
<1>9. PICK R : R = Tagged(merged, missing)
  OBVIOUS
<1>10. /\ cache' \in [Nodes -> Entry]
       /\ \A n \in Nodes : \/ n \in R /\ cache'[n] = NotCached
                           \/ n \notin R /\ cache'[n] = StoredNodes(S, got)[n]
  <2>1. merged \in [Nodes -> Entry]
    BY <1>5, <1>8, StoredNodesAre
  <2> QED
    BY <1>1, <1>8, <1>9, <2>1, RemoveNodesIs
<1>11. /\ \A n \in R : Exists(server, n) => n \in swept' \cup filtered
       /\ swept \ S \subseteq swept' /\ swept' \subseteq Nodes
  <2>1. R \subseteq Nodes
    BY <1>9, SubtreeIs DEF Tagged
  <2>2. Swept(merged, missing) = {n \in R \ missing : Exists(server, n)}
    BY <1>9 DEF Swept
  <2> QED
    BY <1>1, <1>3, <1>6, <1>8, <2>1, <2>2
<1>12. PICK kept : kept = [n \in S |-> got[n]]
  OBVIOUS
<1>13. Answer(kept) /\ Stores(kept, R) /\ DOMAIN kept = S
  BY <1>1, <1>2, <1>5, <1>10, <1>11, <1>12, StoresSome
<1>14. /\ call' \in [Calls -> CallRec]
       /\ \A d \in Calls : \/ call'[d] = call[d]
                            \/ /\ call'[d].step \in {"idle", "ready"}
                               /\ CallOK(server, feed, access, handled, cache, Excused, filtered, call'[d])
  <2>1. call'[c] = Idle /\ \A d \in Calls \ {c} : call'[d] = call[d]
    BY <1>2, <1>3
  <2>2. call' \in [Calls -> CallRec]
    BY <1>2, <1>3, IdleIs
  <2>3. call'[c].step = "idle" /\ CallOK(server, feed, access, handled, cache, Excused, filtered, call'[c])
    BY <2>1, IdleIs
  <2> QED
    BY <2>1, <2>2, <2>3
<1>15. access => \A p \in loaded' \ lateLists', n \in Nodes :
                    Listed(server, feed, cache, Excused \cup missed', n, p, DOMAIN kept)
  <2> SUFFICES ASSUME access, NEW p \in loaded' \ lateLists', NEW n \in Nodes
               PROVE  Listed(server, feed, cache, Excused \cup missed', n, p, DOMAIN kept)
    OBVIOUS
  <2>1. CASE p \in loaded \ lateLists
    <3>1. Listed(server, feed, cache, Excused, n, p, {})
      BY <2>1 DEF CacheInv
    <3> QED
      BY <3>1 DEF Listed
  <2>2. CASE p \notin loaded \ lateLists
    <3>1. call[c].flag /\ p = call[c].node /\ ~call[c].dirty
      BY <1>2, <2>2
    <3>2. Listed(server, feed, cache, Excused, n, p, DOMAIN got)
      BY <1>7, <3>1
    <3>3. DOMAIN got \subseteq DOMAIN kept \cup missed'
      BY <1>1, <1>13 DEF Stored
    <3> QED
      BY <3>2, <3>3 DEF Listed
  <2> QED
    BY <2>1, <2>2
<1>16. loaded' \subseteq Folders /\ lateLists' \subseteq Folders
  BY <1>2, <1>3, <1>7
<1> QED
  BY <1>13, <1>14, <1>15, <1>16, StoresInv

-----------------------------------------------------------------------------
(* The cache is told of a change of this client *)

\* A call that made version b of node m ends, and has told the cache of it.
Acks(c, m, b) ==
    /\ End(c) /\ Unsent
    /\ UNCHANGED <<loaded, lost, astray, missed, lateLists, filtered>>
    /\ handled' = [handled EXCEPT ![m] = Newest(handled[m], b)]
    /\ late \subseteq late' /\ late' \subseteq Nodes
    /\ swept \subseteq swept' /\ swept' \subseteq Nodes
    /\ cache' \in [Nodes -> Entry]

\* The acknowledged version is not ahead of the server, and what the feed has still to tell
\* is still to be told.
LEMMA AckInv ==
    ASSUME CacheInv, NEW c \in Calls, NEW m \in Nodes, NEW b \in Nat, b <= server[m].ver, Acks(c, m, b),
           \A n \in Nodes : EntryOK(server, feed, access, handled'[n], n, cache'[n], late', lost, astray),
           access => \A p \in Folders, n \in Nodes : \A Z :
              Listed(server, feed, cache, Excused, n, p, Z) => Listed(server, feed, cache', Excused', n, p, Z)
    PROVE  CacheInv'
<1>1. /\ UNCHANGED <<server, access, changes, feed, updating, started, loaded, lost, astray, missed, lateLists, filtered>>
      /\ call' = [call EXCEPT ![c] = Idle]
      /\ handled' = [handled EXCEPT ![m] = Newest(handled[m], b)]
  BY DEF Acks, End, Set, Unsent
<1>2. /\ call \in [Calls -> CallRec] /\ handled \in [Nodes -> Nat] /\ server \in [Nodes -> Link]
      /\ loaded \subseteq Folders
  BY DEF CacheInv, CacheTypes
<1>3. ASSUME NEW n \in Nodes
      PROVE  /\ handled'[n] \in Nat /\ handled[n] <= handled'[n]
             /\ ToldOK(server, feed, access, handled'[n], n)
  <2>0. handled[n] \in Nat /\ server[n].ver \in Nat /\ handled[n] <= server[n].ver
    BY <1>2 DEF CacheInv, ToldOK, Link
  <2>1. ToldOK(server, feed, access, handled[n], n)
    BY DEF CacheInv
  <2>2. CASE n # m
    <3>1. handled'[n] = handled[n]
      BY <1>1, <1>2, <2>2
    <3> QED
      BY <2>0, <2>1, <3>1
  <2>3. CASE n = m
    <3>1. handled'[n] = Newest(handled[n], b) /\ b <= server[n].ver
      BY <1>1, <1>2, <2>3
    <3>2. /\ handled'[n] \in Nat /\ handled[n] <= handled'[n] /\ handled'[n] <= server[n].ver
          /\ handled[n] = server[n].ver => handled'[n] = server[n].ver
      BY <2>0, <3>1 DEF Newest
    <3> QED
      BY <2>1, <3>2 DEF ToldOK
  <2> QED
    BY <2>2, <2>3
<1>4. handled' \in [Nodes -> Nat]
  <2>1. DOMAIN handled' = Nodes /\ handled' = [n \in Nodes |-> handled'[n]]
    BY <1>1, <1>2
  <2> QED
    BY <1>3, <2>1
<1>5. call' \in [Calls -> CallRec] /\ call'[c] = Idle /\ \A d \in Calls \ {c} : call'[d] = call[d]
  BY <1>1, <1>2, IdleIs
<1>6. CacheTypes'
  BY <1>1, <1>4, <1>5 DEF CacheInv, CacheTypes, Acks
<1>7. ASSUME NEW d \in Calls
      PROVE  CallOK(server, feed, access, handled', cache', Excused', filtered, call'[d])
  <2>1. CASE d = c
    BY <1>5, <2>1, IdleIs
  <2>2. CASE d # c
    <3> DEFINE r == call[d]
    <3>1. r \in CallRec /\ CallOK(server, feed, access, handled, cache, Excused, filtered, r)
      BY <1>2 DEF CacheInv
    <3> HIDE DEF r
    <3>2. PICK g : g = handled'
      OBVIOUS
    <3>3. \A n \in Nodes : g[n] \in Nat /\ handled[n] \in Nat /\ handled[n] <= g[n]
      BY <1>2, <1>3, <3>2
    <3>4. ASSUME NEW n \in Nodes, NEW x \in Link, ReadOK(server, feed, access, handled[n], n, x)
          PROVE  ReadOK(server, feed, access, g[n], n, x)
      <4>1. x.ver \in Nat
        BY DEF Link
      <4>2. x.ver >= g[n] => x.ver >= handled[n]
        BY <3>3, <4>1
      <4> QED
        BY <3>4, <4>2 DEF ReadOK
    <3>5. r.step = "got" => r.got \in Link /\ ReadOK(server, feed, access, g[r.node], r.node, r.got)
      BY <3>1, <3>4 DEF CallOK
    <3>6. r.step = "store" => \A n \in DOMAIN r.got : ReadOK(server, feed, access, g[n], n, r.got[n])
      <4>1. r.todo \subseteq Nodes
        BY <3>1 DEF CallRec
      <4> QED
        BY <3>1, <3>4, <4>1 DEF CallOK
    <3>7. r.step \in {"sent", "write"} /\ r.kind = "move" =>
             (access /\ r.base >= g[r.node] => Placed(server, feed, r.node, r.base, r.to, 0))
      <4> SUFFICES ASSUME r.step \in {"sent", "write"}, r.kind = "move", access, r.base >= g[r.node]
                   PROVE  Placed(server, feed, r.node, r.base, r.to, 0)
        OBVIOUS
      <4>1. r.node \in Nodes /\ r.base \in Nat
        BY <3>1 DEF CallRec, CallOK
      <4>2. r.base >= handled[r.node]
        BY <3>3, <4>1
      <4> QED
        BY <3>1, <4>2 DEF CallOK
    <3>8. r.step \in {"batch", "store"} /\ r.flag =>
            /\ r.kind = "list" /\ r.node \in Folders
            /\ access /\ ~r.dirty =>
                 \A n \in Nodes : Listed(server, feed, cache', Excused', n, r.node,
                                         IF r.step = "batch" THEN r.todo ELSE DOMAIN r.got)
      BY <3>1 DEF CallOK
    <3>9. CallOK(server, feed, access, g, cache', Excused', filtered, r)
      BY <3>1, <3>5, <3>6, <3>7, <3>8 DEF CallOK
    <3> QED
      BY <1>5, <2>2, <3>2, <3>9 DEF r
  <2> QED
    BY <2>1, <2>2
<1>8. access => \A p \in loaded \ lateLists, n \in Nodes : Listed(server, feed, cache', Excused', n, p, {})
  BY <1>2 DEF CacheInv
<1> QED
  BY <1>1, <1>3, <1>6, <1>7, <1>8 DEF CacheInv

\* A call that has told the server of its change reads the entry of the node.
LEMMA GetChangedInv ==
    ASSUME CacheInv, NEW c \in Calls, GetChangedNode(c)
    PROVE  CacheInv'
<1> DEFINE m == call[c].node
           x == cache[m]
           q == [call[c] EXCEPT !.step = "write", !.got = x]
<1>1. /\ call[c].kind \in {"rename", "move", "trash", "restore"} /\ call[c].step = "sent"
      /\ Cached(cache, m) /\ call' = [call EXCEPT ![c] = q]
      /\ Unsent /\ UNCHANGED <<cache, loaded, nodesHistory>>
  BY DEF GetChangedNode, Set
<1>2. /\ call[c] \in CallRec /\ cache \in [Nodes -> Entry]
      /\ CallOK(server, feed, access, handled, cache, Excused, filtered, call[c])
  BY DEF CacheInv, CacheTypes
<1>3. m \in Nodes
  BY <1>1, <1>2 DEF CallOK
<1>4. x \in Entry /\ x.parent # None /\ x.ver >= 1
  <2>1. EntryOK(server, feed, access, handled[m], m, x, late, lost, astray)
    BY <1>3 DEF CacheInv
  <2> QED
    BY <1>1, <1>2, <1>3, <2>1 DEF EntryOK, Cached
<1> HIDE DEF x
<1>5. x \in Got /\ "write" \in Steps
  BY <1>4 DEF Got, Steps
<1>6. /\ q \in CallRec /\ q.step = "write" /\ q.got = x /\ q.kind = call[c].kind /\ q.node = call[c].node
      /\ q.to = call[c].to /\ q.base = call[c].base
  BY <1>2, <1>5 DEF CallRec
<1> HIDE DEF q
<1>7. UNCHANGED <<server, access, changes, feed, updating, started, cache, loaded, handled, late, lost, astray, swept, missed, lateLists, filtered>>
  BY <1>1 DEF Unsent, nodesHistory
<1>8. started' \in 0 .. MaxCalls /\ filtered' \subseteq Nodes /\ Excused' = Excused
  BY <1>7 DEF CacheInv, CacheTypes, Excused
<1>9. CallOK(server, feed, access, handled, cache, Excused, filtered, q)
  <2>1. WriteOK(q)
    BY <1>1, <1>4, <1>6 DEF WriteOK
  <2> QED
    BY <1>1, <1>2, <1>6, <2>1 DEF CallOK
<1>10. CallOK(server, feed, access, handled, cache, Excused', filtered', q)
  BY <1>7, <1>8, <1>9
<1> QED
  BY <1>1, <1>6, <1>7, <1>8, <1>10, CallInv

\* A refused rename goes on to make the entry stale; it has made no version.
LEMMA OutOfSyncInv ==
    ASSUME CacheInv, NEW c \in Calls, RenameOutOfSync(c)
    PROVE  CacheInv'
<1> DEFINE q == [call[c] EXCEPT !.step = "sent", !.base = 0]
<1>1. /\ call[c].kind = "rename" /\ call' = [call EXCEPT ![c] = q]
      /\ Unsent /\ UNCHANGED <<cache, loaded, nodesHistory>>
  BY DEF RenameOutOfSync, Set
<1>2. /\ call[c] \in CallRec /\ server \in [Nodes -> Link]
      /\ CallOK(server, feed, access, handled, cache, Excused, filtered, call[c])
  BY DEF CacheInv, CacheTypes
<1>3. call[c].node \in Nodes /\ server[call[c].node].ver >= 1
  BY <1>1, <1>2 DEF CallOK
<1>4. /\ q \in CallRec /\ q.step = "sent" /\ q.base = 0 /\ q.kind = "rename" /\ q.node = call[c].node
  <2>1. "sent" \in Steps /\ 0 \in Nat
    BY DEF Steps
  <2> QED
    BY <1>1, <1>2, <2>1 DEF CallRec
<1> HIDE DEF q
<1>5. UNCHANGED <<server, access, changes, feed, updating, started, cache, loaded, handled, late, lost, astray, swept, missed, lateLists, filtered>>
  BY <1>1 DEF Unsent, nodesHistory
<1>6. started' \in 0 .. MaxCalls /\ filtered' \subseteq Nodes
  BY <1>5 DEF CacheInv, CacheTypes
<1>7. q.base <= server[q.node].ver
  BY <1>2, <1>3, <1>4 DEF Link
<1>8. CallOK(server, feed, access, handled, cache, Excused', filtered', q)
  BY <1>3, <1>4, <1>7 DEF CallOK, WriteOK
<1> QED
  BY <1>1, <1>4, <1>5, <1>6, <1>8, CallInv

\* notifyNodeChanged ends a call: the entry is stale and where the call or the copy it has read
\* puts it, which is where it was unless the node is late.
LEMMA NotifyInv ==
    ASSUME CacheInv, NEW c \in Calls, NEW to, call[c].kind \in {"rename", "move", "trash", "restore"},
           to = None \/ (call[c].kind = "move" /\ to = call[c].to),
           NotifyNodeChanged(c, to), Acknowledged(c), End(c), Unsent,
           UNCHANGED <<loaded, lost, astray, swept, missed, lateLists, filtered>>
    PROVE  CacheInv'
<1> DEFINE m == call[c].node
           b == call[c].base
           z == call[c].got
           x == [z EXCEPT !.stale = TRUE, !.parent = IF to = None THEN z.parent ELSE to]
<1>1. /\ call[c] \in CallRec /\ handled \in [Nodes -> Nat] /\ server \in [Nodes -> Link]
      /\ cache \in [Nodes -> Entry] /\ late \subseteq Nodes /\ swept \subseteq Nodes
      /\ feed \in Seq(EventRec)
      /\ CallOK(server, feed, access, handled, cache, Excused, filtered, call[c])
  BY DEF CacheInv, CacheTypes
<1>2. call[c].step \in {"sent", "write"}
  BY DEF NotifyNodeChanged
<1>3. /\ m \in Nodes /\ b <= server[m].ver /\ server[m].ver >= 1 /\ b \in Nat /\ handled[m] \in Nat
      /\ access /\ to # None /\ b >= handled[m] => Placed(server, feed, m, b, to, 0)
  <2>1. m \in Nodes /\ server[m].ver >= 1
    BY <1>1 DEF CallOK
  <2>2. b \in Nat
    BY <1>1 DEF CallRec
  <2>3. b <= server[m].ver /\ (access /\ to # None /\ b >= handled[m] => Placed(server, feed, m, b, to, 0))
    BY <1>1, <1>2, <2>1 DEF CallOK
  <2> QED
    BY <1>1, <2>1, <2>2, <2>3
<1>4. handled' = [handled EXCEPT ![m] = Newest(handled[m], b)]
  BY DEF Acknowledged
<1>5. to # None => to \in Folders
  BY <1>1 DEF CallRec
<1>6. call[c].step = "write" => z \in Entry /\ z.parent # None /\ z.ver >= 1
  BY <1>1 DEF CallOK, WriteOK
<1>7. \/ /\ cache' = cache
         /\ (~Cached(cache, m) /\ late' = late) \/ late' = late \cup {m}
      \/ /\ call[c].step = "write" /\ cache' = [cache EXCEPT ![m] = x]
         /\ \/ late' = late \cup {m}
            \/ /\ late' = late /\ cache[m].parent = z.parent /\ cache[m].trashed = z.trashed
               /\ to = None \/ ~(b < handled[m])
  BY DEF NotifyNodeChanged, Overwrites, SetNode
<1>8. late \subseteq late' /\ late' \subseteq Nodes /\ \A n \in Nodes \ {m} : n \in late' <=> n \in late
  BY <1>1, <1>3, <1>7
<1>9. \A n \in Nodes \ {m} : handled'[n] = handled[n]
  BY <1>1, <1>4
<1>10. EntryOK(server, feed, access, handled[m], m, cache[m], late, lost, astray)
  BY <1>3 DEF CacheInv
<1>11. call[c].step = "write" =>
          /\ x \in Entry /\ x.stale = TRUE /\ x.ver = z.ver /\ x.trashed = z.trashed
          /\ x.parent = (IF to = None THEN z.parent ELSE to) /\ x.parent # None
  <2> SUFFICES ASSUME call[c].step = "write"
               PROVE  /\ x \in Entry /\ x.stale = TRUE /\ x.ver = z.ver /\ x.trashed = z.trashed
                      /\ x.parent = (IF to = None THEN z.parent ELSE to) /\ x.parent # None
    OBVIOUS
  <2>1. z \in Entry /\ z.parent # None
    BY <1>6
  <2>2. PICK par : par = IF to = None THEN z.parent ELSE to
    OBVIOUS
  <2> HIDE DEF z
  <2>3. par \in Folders \cup {None} /\ par # None
    BY <1>5, <2>1, <2>2, NodesAssumption DEF Entry, Folders, None
  <2>4. x = [z EXCEPT !.stale = TRUE, !.parent = par]
    BY <2>2
  <2> HIDE DEF x
  <2> QED
    BY <2>1, <2>2, <2>3, <2>4 DEF Entry
<1> HIDE DEF x
<1>12. \/ cache'[m] = cache[m] /\ (~Cached(cache, m) \/ m \in late')
       \/ call[c].step = "write" /\ cache'[m] = x
  BY <1>1, <1>3, <1>7
<1>13. cache' \in [Nodes -> Entry] /\ \A n \in Nodes \ {m} : cache'[n] = cache[n]
  BY <1>1, <1>3, <1>7, <1>11
<1> HIDE DEF m, b, z
<1>14. ASSUME access, m \notin late', to # None, ~(b < handled[m])
       PROVE  Placed(server, feed, m, b, to, 0) /\ Placed(server, feed, m, 0, to, 0)
  <2>1. b >= handled[m] /\ 0 <= b
    BY <1>3, <1>14
  <2>2. Placed(server, feed, m, b, to, 0)
    BY <1>3, <1>14, <2>1
  <2> QED
    BY <1>1, <1>3, <2>1, <2>2, PlacedOlder
\* The copy is written: the node is late, or the copy is of the place where the entry is.
<1>15. ASSUME call[c].step = "write", cache'[m] = x
       PROVE  \/ m \in late'
              \/ /\ cache[m].parent = z.parent /\ cache[m].trashed = x.trashed
                 /\ to = None \/ ~(b < handled[m])
              \/ cache'[m] = cache[m] /\ ~Cached(cache, m)
  BY <1>7, <1>11
<1>16. EntryOK(server, feed, access, handled'[m], m, cache'[m], late', lost, astray)
  <2>1. CASE cache'[m] = cache[m] /\ (~Cached(cache, m) \/ m \in late')
    BY <1>8, <1>10, <2>1 DEF EntryOK, Cached
  <2>2. CASE call[c].step = "write" /\ cache'[m] = x
    <3>1. x.stale = TRUE /\ x.ver >= 1 /\ server[m].ver >= 1
      BY <1>3, <1>6, <1>11, <2>2
    <3>2. CASE m \in late'
      BY <2>2, <3>1, <3>2 DEF EntryOK
    <3>3. CASE cache'[m] = cache[m] /\ ~Cached(cache, m)
      BY <3>3 DEF EntryOK, Cached
    <3>4. CASE /\ m \notin late' /\ cache[m].parent = z.parent /\ cache[m].trashed = x.trashed
               /\ to = None \/ ~(b < handled[m])
      <4>1. cache[m].parent # None /\ x.parent = (IF to = None THEN cache[m].parent ELSE to)
        BY <1>6, <1>11, <2>2, <3>4
      <4>2. /\ access /\ m \notin late \cup lost =>
                 Placed(server, feed, m, 0, cache[m].parent, 0) /\ Binned(server, feed, m, 0, cache[m].trashed)
            /\ access /\ ~Exists(server, m) =>
                 \/ m \in late \cup lost \cup astray
                 \/ \E i \in 1 .. Len(feed) : Covers(feed, i, m) /\ feed[i].type \in {"deleted", "refresh"}
        BY <1>10, <4>1 DEF EntryOK
      <4>3. access /\ m \notin late' \cup lost =>
               Placed(server, feed, m, 0, x.parent, 0) /\ Binned(server, feed, m, 0, x.trashed)
        <5>1. CASE to = None
          BY <1>8, <3>4, <4>1, <4>2, <5>1
        <5>2. CASE to # None
          BY <1>8, <1>14, <3>4, <4>1, <4>2, <5>2
        <5> QED
          BY <5>1, <5>2
      <4>4. EntryOK(server, feed, access, handled'[m], m, x, late', lost, astray)
        BY <1>8, <3>1, <4>2, <4>3 DEF EntryOK
      <4> QED
        BY <2>2, <4>4
    <3> QED
      BY <1>15, <2>2, <3>2, <3>3, <3>4
  <2> QED
    BY <1>12, <2>1, <2>2
<1>17. ASSUME NEW n \in Nodes
       PROVE  EntryOK(server, feed, access, handled'[n], n, cache'[n], late', lost, astray)
  <2>1. CASE n = m
    BY <1>16, <2>1
  <2>2. CASE n # m
    <3>1. n \in late' <=> n \in late
      BY <1>8, <2>2
    <3>2. EntryOK(server, feed, access, handled[n], n, cache[n], late, lost, astray)
      BY DEF CacheInv
    <3>3. EntryOK(server, feed, access, handled[n], n, cache[n], late', lost, astray)
      BY <3>1, <3>2 DEF EntryOK
    <3> QED
      BY <1>9, <1>13, <2>2, <3>3
  <2> QED
    BY <2>1, <2>2
<1>18. Excused \subseteq Excused' /\ (m \in late' => m \in Excused')
  BY <1>8 DEF Excused
<1>19. ASSUME access, NEW p \in Folders, NEW n \in Nodes, NEW Z,
              Listed(server, feed, cache, Excused, n, p, Z)
       PROVE  Listed(server, feed, cache', Excused', n, p, Z)
  <2>1. CASE n # m
    BY <1>13, <1>18, <1>19, <2>1 DEF Listed
  <2>2. CASE n = m /\ m \in late'
    BY <1>18, <2>2 DEF Listed
  <2>3. CASE n = m /\ m \notin late'
    <3>1. CASE cache'[m] = cache[m]
      BY <1>18, <1>19, <2>3, <3>1 DEF Listed
    <3>2. CASE /\ call[c].step = "write" /\ cache'[m] = x
               /\ cache[m].parent = z.parent /\ cache[m].trashed = x.trashed
               /\ to = None \/ ~(b < handled[m])
      <4> SUFFICES ASSUME server[n].parent = p, ~server[n].trashed,
                          \A i \in 1 .. Len(feed) : n \notin DOMAIN feed[i].at
                   PROVE  (cache'[n].parent = p /\ ~cache'[n].trashed) \/ n \in Excused' \cup Z
        BY DEF Listed
      <4>1. (cache[n].parent = p /\ ~cache[n].trashed) \/ n \in Excused \cup Z
        BY <1>19 DEF Listed
      <4>2. CASE to = None
        BY <1>11, <1>18, <2>3, <3>2, <4>1, <4>2
      <4>3. CASE to # None
        <5>1. Placed(server, feed, m, b, to, 0)
          BY <1>14, <1>19, <2>3, <3>2, <4>3
        <5>2. Exists(server, n)
          BY NodesAssumption DEF Exists, Folders, None
        <5>3. \A i : ~Renews(feed, i, n, b)
          BY DEF Renews, Covers
        <5>4. to = p
          BY <2>3, <5>1, <5>2, <5>3 DEF Placed
        <5> QED
          BY <1>11, <1>18, <2>3, <3>2, <4>1, <4>3, <5>4
      <4> QED
        BY <4>2, <4>3
    <3> QED
      BY <1>12, <1>15, <2>3, <3>1, <3>2
  <2> QED
    BY <2>1, <2>2, <2>3
<1>20. swept' = swept /\ Acks(c, m, b)
  BY <1>1, <1>4, <1>8, <1>13 DEF Acks
<1> QED
  BY <1>3, <1>17, <1>19, <1>20, AckInv

\* A rename, its refusal, a move, also to or from the trash: the entry is made stale.
LEMMA ChangedInv ==
    ASSUME CacheInv, NEW c \in Calls,
           RenameNode(c) \/ MoveNode(c) \/ TrashNodes(c) \/ RestoreNodes(c)
    PROVE  CacheInv'
<1>1. CASE RenameNode(c) \/ TrashNodes(c) \/ RestoreNodes(c)
  <2>1. /\ NotifyNodeChanged(c, None) /\ Acknowledged(c) /\ End(c) /\ Unsent
        /\ call[c].kind \in {"rename", "move", "trash", "restore"}
        /\ UNCHANGED <<loaded, lost, astray, swept, missed, lateLists, filtered>>
    BY <1>1 DEF RenameNode, TrashNodes, RestoreNodes
  <2> QED
    BY <2>1, NotifyInv
<1>2. CASE MoveNode(c)
  <2>1. /\ NotifyNodeChanged(c, call[c].to) /\ Acknowledged(c) /\ End(c) /\ Unsent
        /\ call[c].kind = "move"
        /\ UNCHANGED <<loaded, lost, astray, swept, missed, lateLists, filtered>>
    BY <1>2 DEF MoveNode
  <2> QED
    BY <2>1, NotifyInv
<1> QED
  BY <1>1, <1>2

\* deleteTrashedNodes removes the node and what is tagged below it; a node that had left the
\* folder is swept away with it.
LEMMA DeleteTrashedInv ==
    ASSUME CacheInv, NEW c \in Calls, DeleteTrashedNodes(c)
    PROVE  CacheInv'
<1> DEFINE m == call[c].node
           b == call[c].base
           R == Tagged(cache, {m})
<1>1. /\ call[c].kind = "delete" /\ call[c].step = "sent"
      /\ cache' = RemoveNodes(cache, {m}) /\ End(c) /\ Unsent
      /\ swept' = swept \cup Swept(cache, {m})
      /\ handled' = [handled EXCEPT ![m] = Newest(handled[m], b)]
      /\ UNCHANGED <<loaded, late, lost, astray, missed, lateLists, filtered>>
  BY DEF DeleteTrashedNodes, Acknowledged, NotifyNodeDeleted
<1>2. /\ call[c] \in CallRec /\ handled \in [Nodes -> Nat]
      /\ cache \in [Nodes -> Entry] /\ late \subseteq Nodes /\ swept \subseteq Nodes
      /\ CallOK(server, feed, access, handled, cache, Excused, filtered, call[c])
  BY DEF CacheInv, CacheTypes
<1>3. m \in Nodes /\ b <= server[m].ver /\ ~Exists(server, m) /\ b \in Nat
  <2>1. m \in Nodes /\ b <= server[m].ver /\ ~Exists(server, m)
    BY <1>1, <1>2 DEF CallOK
  <2> QED
    BY <1>2, <2>1 DEF CallRec
<1> HIDE DEF m, b
<1>4. R \subseteq Nodes /\ m \in R
  <2> DEFINE tag == [n \in Nodes |-> cache[n].parent]
  <2>1. R = Subtree(tag, {m})
    BY DEF Tagged
  <2> HIDE DEF R, tag
  <2> QED
    BY <1>3, <2>1, SubtreeIs
<1>5. /\ cache' \in [Nodes -> Entry]
      /\ \A n \in Nodes : \/ n \in R /\ cache'[n] = NotCached
                          \/ n \notin R /\ cache'[n] = cache[n]
  BY <1>1, <1>2, RemoveNodesIs
<1>6. Swept(cache, {m}) = {n \in R \ {m} : Exists(server, n)}
  BY DEF Swept
<1> HIDE DEF R
<1>7. ASSUME NEW n \in Nodes
      PROVE  EntryOK(server, feed, access, handled'[n], n, cache'[n], late', lost, astray)
  <2>1. CASE n \in R
    BY <1>5, <2>1, NotCachedOK
  <2>2. CASE n \notin R
    <3>1. handled'[n] = handled[n] /\ cache'[n] = cache[n]
      BY <1>1, <1>2, <1>4, <1>5, <2>2
    <3> QED
      BY <1>1, <3>1 DEF CacheInv
  <2> QED
    BY <2>1, <2>2
<1>8. ASSUME NEW p \in Folders, NEW n \in Nodes, NEW Z, Listed(server, feed, cache, Excused, n, p, Z)
      PROVE  Listed(server, feed, cache', Excused', n, p, Z)
  <2> SUFFICES ASSUME server[n].parent = p, ~server[n].trashed,
                      \A i \in 1 .. Len(feed) : n \notin DOMAIN feed[i].at
               PROVE  (cache'[n].parent = p /\ ~cache'[n].trashed) \/ n \in Excused' \cup Z
    BY DEF Listed
  <2>1. Exists(server, n)
    BY NodesAssumption DEF Exists, Folders, None
  <2>2. Excused \subseteq Excused' /\ swept' \subseteq Excused'
    BY <1>1 DEF Excused
  <2>3. CASE n \in R
    BY <1>1, <1>3, <1>6, <2>1, <2>2, <2>3
  <2>4. CASE n \notin R
    BY <1>5, <1>8, <2>2, <2>4 DEF Listed
  <2> QED
    BY <2>3, <2>4
<1>9. Acks(c, m, b)
  BY <1>1, <1>2, <1>4, <1>5, <1>6 DEF Acks
<1> QED
  BY <1>3, <1>7, <1>8, <1>9, AckInv

-----------------------------------------------------------------------------
(* The theorems *)

\* What was read before the first events is as the server has it.
LEMMA CacheInvInit ==
    ASSUME NodesInit
    PROVE  CacheInv
<1>1. PICK there \in {Nodes, Dirs}, bin \in Bins, tree \in Trees :
          server = [n \in Nodes |->
                      IF n \in there THEN [parent |-> tree[n], trashed |-> n \in bin, ver |-> 1]
                      ELSE [parent |-> None, trashed |-> FALSE, ver |-> 0]]
  BY DEF NodesInit
<1>2. /\ access = TRUE /\ changes = 0 /\ feed = <<>> /\ updating = NotCached /\ call = [c \in Calls |-> Idle] /\ started = 0
      /\ handled = [n \in Nodes |-> server[n].ver]
      /\ late = {} /\ lost = {} /\ astray = {} /\ swept = {} /\ missed = {} /\ lateLists = {} /\ filtered = {}
      /\ \/ cache = [n \in Nodes |-> NewEntry(server[n])] /\ loaded = {Root}
         \/ cache = [n \in Nodes |-> NotCached] /\ loaded = {}
  BY DEF NodesInit
<1>3. \A n \in Nodes : tree[n] \in Folders
  BY NodesAssumption
<1>4. ASSUME NEW n \in Nodes
      PROVE  server[n] \in Link /\ (Exists(server, n) => server[n].ver = 1)
  <2>1. CASE n \in there
    <3>1. server[n] = [parent |-> tree[n], trashed |-> n \in bin, ver |-> 1]
      BY <1>1, <2>1
    <3>2. tree[n] \in Folders \cup {None} /\ (n \in bin) \in BOOLEAN /\ 1 \in Nat
      BY <1>3
    <3> QED
      BY <3>1, <3>2 DEF Link
  <2>2. CASE n \notin there
    <3>1. server[n] = [parent |-> None, trashed |-> FALSE, ver |-> 0]
      BY <1>1, <2>2
    <3> QED
      BY <3>1 DEF Link, Exists
  <2> QED
    BY <2>1, <2>2
<1>5. server \in [Nodes -> Link]
  <2>1. DOMAIN server = Nodes /\ server = [n \in Nodes |-> server[n]]
    BY <1>1
  <2> QED
    BY <1>4, <2>1
<1>6. NotCached \in Entry /\ \A n \in Nodes : NewEntry(server[n]) \in Entry
  BY <1>4 DEF NewEntry, Entry, Link, NotCached
<1>7. cache \in [Nodes -> Entry] /\ loaded \subseteq Folders
  BY <1>2, <1>6 DEF Folders
<1>8. handled \in [Nodes -> Nat] /\ \A n \in Nodes : handled[n] = server[n].ver
  BY <1>2, <1>4 DEF Link
<1>9. call \in [Calls -> CallRec]
  BY <1>2, IdleIs
<1>10. CacheTypes
  BY <1>2, <1>5, <1>6, <1>7, <1>8, <1>9, NodesAssumption DEF CacheTypes
<1>11. ServerOK(server, astray)
  BY <1>2, <1>4 DEF ServerOK
<1>12. Len(feed) = 0 /\ FeedOK(server, feed, access) /\ UpdatingOK(updating, feed) /\ \A i, n : ~Covers(feed, i, n)
  BY <1>2 DEF FeedOK, Covers, UpdatingOK
<1>13. \A n \in Nodes : ToldOK(server, feed, access, handled[n], n)
  BY <1>4, <1>8 DEF ToldOK, Link
<1>14. ASSUME NEW n \in Nodes
       PROVE  EntryOK(server, feed, access, handled[n], n, cache[n], late, lost, astray)
  <2>1. CASE cache[n] = NotCached
    BY <2>1, NotCachedOK
  <2>2. CASE cache[n] = NewEntry(server[n])
    <3>1. CASE ~Exists(server, n)
      BY <2>2, <3>1 DEF EntryOK, NewEntry, Exists
    <3>2. CASE Exists(server, n)
      <4> DEFINE z == NewEntry(server[n])
      <4>1. z.parent = server[n].parent /\ z.trashed = server[n].trashed /\ z.ver = server[n].ver
        BY DEF NewEntry
      <4>2. server[n].ver = 1 /\ handled[n] = 1 /\ n \notin lost
        BY <1>2, <1>4, <1>8, <3>2
      <4> HIDE DEF z
      <4>3. Placed(server, feed, n, 0, z.parent, 0) /\ Binned(server, feed, n, 0, z.trashed)
        BY <1>12, <4>1 DEF Placed, Binned
      <4>4. z.ver >= 1 /\ server[n].ver >= 1 /\ z.ver >= handled[n]
        BY <4>1, <4>2
      <4>5. EntryOK(server, feed, access, handled[n], n, z, late, lost, astray)
        BY <3>2, <4>2, <4>3, <4>4 DEF EntryOK
      <4> QED
        BY <2>2, <4>5 DEF z
    <3> QED
      BY <3>1, <3>2
  <2> QED
    BY <1>2, <2>1, <2>2
<1>15. \A c \in Calls : CallOK(server, feed, access, handled, cache, Excused, filtered, call[c])
  BY <1>2, IdleIs
<1>16. \A p \in loaded \ lateLists, n \in Nodes : Listed(server, feed, cache, Excused, n, p, {})
  <2> SUFFICES ASSUME NEW p \in loaded, NEW n \in Nodes, server[n].parent = p, ~server[n].trashed
               PROVE  cache[n].parent = p /\ ~cache[n].trashed
    BY DEF Listed
  <2>1. cache[n] = NewEntry(server[n])
    BY <1>2
  <2> QED
    BY <2>1 DEF NewEntry
<1> QED
  BY <1>10, <1>11, <1>12, <1>13, <1>14, <1>15, <1>16 DEF CacheInv

\* Every step of the server, of the events and of the calls keeps the invariant.
LEMMA CacheInvNext ==
    ASSUME CacheInv, NodesNext
    PROVE  CacheInv'
<1>1. CASE OtherClient
  BY <1>1, OtherClientInv
<1>2. CASE EventsLost
  BY <1>2, EventsLostInv
<1>3. CASE AccessLost
  BY <1>3, AccessLostInv
<1>4. CASE GetUpdatedNode \/ UpdateNodesCacheOnEvent
  BY <1>4, GetUpdatedInv, EventInv
<1>5. ASSUME NEW c \in Calls,
             \/ StartCall(c) \/ GetCached(c) \/ LoadNode(c) \/ DecryptNode(c) \/ FailCall(c)
             \/ IterateFromCache(c) \/ IterateFromApi(c) \/ IterateTrashedNodes(c) \/ IterateNodes(c)
             \/ FetchNodeMetadata(c) \/ LoadNodesWithMissingReport(c) \/ LoadSomeNodesFails(c)
             \/ ApiRename(c) \/ ApiMove(c) \/ ApiCopy(c) \/ ApiCreateFolder(c) \/ ApiTrash(c)
             \/ ApiRestore(c) \/ ApiDelete(c) \/ ApiEmptyTrash(c)
             \/ GetChangedNode(c) \/ RenameOutOfSync(c) \/ RenameNode(c) \/ MoveNode(c)
             \/ CopyNode(c) \/ CreateFolder(c)
             \/ TrashNodes(c) \/ RestoreNodes(c) \/ DeleteTrashedNodes(c) \/ EmptyTrash(c) \/ AnswerLost(c)
      PROVE  CacheInv'
  <2>1. CASE StartCall(c) \/ GetCached(c) \/ LoadNode(c) \/ DecryptNode(c)
    BY <2>1, StartCallInv, GetCachedInv, LoadNodeInv, DecryptInv
  <2>2. CASE FailCall(c) \/ EmptyTrash(c) \/ AnswerLost(c)
    BY <2>2, EndsInv
  <2>3. CASE IterateFromCache(c) \/ IterateFromApi(c) \/ IterateTrashedNodes(c) \/ IterateNodes(c)
    BY <2>3, IterateInv
  <2>4. CASE FetchNodeMetadata(c) \/ LoadNodesWithMissingReport(c) \/ LoadSomeNodesFails(c)
    BY <2>4, FetchInv, LoadMissingInv, LoadSomeInv
  <2>5. CASE \/ ApiRename(c) \/ ApiMove(c) \/ ApiCopy(c) \/ ApiCreateFolder(c) \/ ApiTrash(c)
             \/ ApiRestore(c) \/ ApiDelete(c) \/ ApiEmptyTrash(c)
    <3>1. ServerCall(c)
      BY <2>5 DEF ServerCall
    <3> QED
      BY <3>1, ServerCallInv
  <2>6. CASE \/ GetChangedNode(c) \/ RenameOutOfSync(c)
             \/ RenameNode(c) \/ MoveNode(c) \/ TrashNodes(c) \/ RestoreNodes(c)
    BY <2>6, GetChangedInv, OutOfSyncInv, ChangedInv
  <2>7. CASE CopyNode(c) \/ CreateFolder(c) \/ DeleteTrashedNodes(c)
    BY <2>7, ChildCreatedInv, DeleteTrashedInv
  <2> QED
    BY <1>5, <2>1, <2>2, <2>3, <2>4, <2>5, <2>6, <2>7
<1> QED
  BY <1>1, <1>2, <1>3, <1>4, <1>5 DEF NodesNext

\* A step that changes nothing keeps it.
LEMMA CacheInvStutter ==
    ASSUME CacheInv, UNCHANGED nodesVars
    PROVE  CacheInv'
<1>1. UNCHANGED <<server, access, changes, feed, updating, cache, loaded, call, started, handled, late, lost, astray,
                  swept, missed, lateLists, filtered>>
  BY DEF nodesVars, nodesHistory
<1>2. Excused' = Excused
  BY <1>1 DEF Excused
<1> QED
  BY <1>1, <1>2 DEF CacheInv, CacheTypes

\* The inductive invariant: what is in the cache is right or the feed will put it right, what
\* a call has read is as it was on the server, and what a listing has still to store makes it
\* complete (NodesCache, NodesAccess, NodesManagement, updateNodesCacheOnEvent).
THEOREM CacheInvariant == NodesSpec => []CacheInv
<1>1. CacheInv /\ [NodesNext]_nodesVars => CacheInv'
  BY CacheInvNext, CacheInvStutter
<1> QED
  BY <1>1, CacheInvInit, PTL DEF NodesSpec

\* The invariant says what the run checks of the cache.
LEMMA CacheInvIsCurrent ==
    ASSUME CacheInv
    PROVE  CacheIsCurrent
<1>0. /\ server \in [Nodes -> Link] /\ cache \in [Nodes -> Entry] /\ handled \in [Nodes -> Nat]
      /\ call \in [Calls -> CallRec]
  BY DEF CacheInv, CacheTypes
<1>1. NodesTypeOK
  <2>1. \A c \in Calls : /\ call[c].kind \in Kinds /\ call[c].step \in Steps
                         /\ call[c].node \in Nodes \cup {Root} /\ call[c].to \in Folders
                         /\ call[c].todo \subseteq Nodes
                         /\ call[c].dirty \in BOOLEAN /\ call[c].flag \in BOOLEAN
    BY <1>0 DEF CallRec
  <2> QED
    BY <2>1 DEF CacheInv, CacheTypes, NodesTypeOK
<1>2. FreshKnowsHandled
  <2> SUFFICES ASSUME NEW n \in Nodes, Fresh(n)
               PROVE  cache[n].ver >= handled[n] \/ n \in late \cup astray
    BY DEF FreshKnowsHandled
  <2>1. EntryOK(server, feed, access, handled[n], n, cache[n], late, lost, astray)
    BY DEF CacheInv
  <2> QED
    BY <2>1 DEF EntryOK, Fresh, Cached
<1>3. GoneIsForgotten
  <2> SUFFICES ASSUME NEW n \in Nodes, ~Exists(server, n), ~Pending(n), Cached(cache, n)
               PROVE  n \in late \cup lost \cup astray
    BY DEF GoneIsForgotten
  <2>1. access /\ \A i \in 1 .. Len(feed) : n \notin DOMAIN feed[i].at
    BY DEF Pending
  <2>2. EntryOK(server, feed, access, handled[n], n, cache[n], late, lost, astray)
    BY DEF CacheInv
  <2> QED
    BY <2>1, <2>2 DEF EntryOK, Cached, Covers
<1> QED
  BY <1>1, <1>2, <1>3 DEF CacheIsCurrent

\* The invariant says what the run checks of the listings.
LEMMA CacheInvLists ==
    ASSUME CacheInv
    PROVE  ListingComplete
<1> SUFFICES ASSUME NEW p \in loaded, NEW n \in Nodes, server[n].parent = p, ~server[n].trashed, ~Pending(n),
                    p \notin lateLists
             PROVE  \/ Cached(cache, n) /\ cache[n].parent = p /\ ~cache[n].trashed
                    \/ n \in late \cup swept \cup missed \cup filtered
  BY DEF ListingComplete
<1>1. access /\ \A i \in 1 .. Len(feed) : n \notin DOMAIN feed[i].at
  BY DEF Pending
<1>2. p \in Folders /\ p # None
  <2>1. loaded \subseteq Folders
    BY DEF CacheInv, CacheTypes
  <2> QED
    BY <2>1, NodesAssumption DEF Folders, None
<1>3. Listed(server, feed, cache, Excused, n, p, {})
  BY <1>1 DEF CacheInv
<1> QED
  BY <1>1, <1>2, <1>3 DEF Listed, Cached, Excused

\* The cache is not behind what the client was told, by events it has handled and by the
\* answers to its own operations: a fresh entry is as new as what was told, a deleted node is
\* forgotten (NodesCache, updateNodesCacheOnEvent, notifyNodeChanged, notifyNodeDeleted).
THEOREM TheCacheIsCurrent == NodesSpec => []CacheIsCurrent
<1>1. CacheInv => CacheIsCurrent
  BY CacheInvIsCurrent
<1> QED
  BY <1>1, CacheInvariant, PTL

\* A folder flagged by setFolderChildrenLoaded lists every node the server has in it, but for
\* the cases named (iterateFolderChildren, loadNodesWithMissingReport).
THEOREM TheListingIsComplete == NodesSpec => []ListingComplete
<1>1. CacheInv => ListingComplete
  BY CacheInvLists
<1> QED
  BY <1>1, CacheInvariant, PTL

\* What is in the cache and no exception touches is where the server has it, once the feed has
\* nothing more to tell of it.
EntriesAreInPlace ==
    \A n \in Nodes :
        (Cached(cache, n) /\ Exists(server, n) /\ ~Pending(n) /\ n \notin late \cup lost) =>
            cache[n].parent = server[n].parent /\ cache[n].trashed = server[n].trashed

\* A move, a move to or from the trash, by whatever client, reaches the entry of the node: by
\* its event, by notifyNodeChanged or by a read (NodesCache, updateNodesCacheOnEvent).
THEOREM PlacesAreRight == NodesSpec => []EntriesAreInPlace
<1>1. ASSUME CacheInv PROVE EntriesAreInPlace
  <2> SUFFICES ASSUME NEW n \in Nodes, Cached(cache, n), Exists(server, n), ~Pending(n), n \notin late \cup lost
               PROVE  cache[n].parent = server[n].parent /\ cache[n].trashed = server[n].trashed
    BY DEF EntriesAreInPlace
  <2>1. access /\ \A i \in 1 .. Len(feed) : n \notin DOMAIN feed[i].at
    BY DEF Pending
  <2>2. EntryOK(server, feed, access, handled[n], n, cache[n], late, lost, astray)
    BY <1>1 DEF CacheInv
  <2>3. Placed(server, feed, n, 0, cache[n].parent, 0) /\ Binned(server, feed, n, 0, cache[n].trashed)
    BY <2>1, <2>2 DEF EntryOK, Cached
  <2>4. \A i : ~(i \in 1 .. Len(feed) /\ Renews(feed, i, n, 0))
    BY <2>1 DEF Renews, Covers
  <2>5. cache[n].parent = server[n].parent
    BY <2>3, <2>4 DEF Placed
  <2>6. cache[n].trashed = server[n].trashed
    BY <2>3, <2>4 DEF Binned
  <2> QED
    BY <2>5, <2>6
<1> QED
  BY <1>1, CacheInvariant, PTL
===============================================================================
