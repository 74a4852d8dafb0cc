----------------------------- MODULE SharingLists ----------------------------
(***************************************************************************)
(* The lists "shared by me" and "shared with me" of the JS SDK             *)
(* (js/sdk/src/internal/sharing): SharingAccess lists the nodes and makes  *)
(* changes, SharingCache keeps the uids, in memory and in the cache of the *)
(* application, and SharingEventHandler keeps them up to date.             *)
(*                                                                         *)
(* One list is followed.  The cache of the application outlives a restart. *)
(***************************************************************************)
EXTENDS Naturals, Sequences, FiniteSets

CONSTANTS
    NListed,       \* number of nodes
    MaxShared,     \* bound: changes on the server
    MaxTroubles    \* bound: restarts, expired events, failing reads and writes

ASSUME SharingListsConstants == NListed \in Nat \ {0} /\ MaxShared \in Nat /\ MaxTroubles \in Nat

VARIABLES
    list,        \* "byMe" or "withMe"
    emptyIsNone, \* the application's cache takes an empty string for a missing entry
    shared,      \* the nodes that are in the list on the server
    shareEvents, \* events not handled yet
    memory,      \* SharingCache.cache: a set of uids, or NotLoaded
    stored,      \* the entry in the cache of the application
    listing,     \* a call of iterateSharedNodes or iterateSharedNodesWithMe
    own,         \* a change made by this client
    handler,     \* the event being handled
    changes,     \* changes on the server so far
    troubles,    \* restarts, expirations and failures so far
    races        \* history: why the list may differ from the server's: "raced", or "listing": that will be cached

listVars == <<list, emptyIsNone, shared, shareEvents, memory, stored, listing, own, handler, changes, troubles,
              races>>

Listed == 1 .. NListed
NotLoaded == {0, NListed + 1}    \* there is no list
Blank == 0                       \* the uid ''
IsLoaded(l) == l # NotLoaded

NoListing == [phase |-> "idle", next |-> 1, loaded |-> {}]
NoWrite == [phase |-> "idle", type |-> "node", node |-> 1, add |-> FALSE, base |-> NotLoaded]

ListsInit ==
    /\ list \in {"byMe", "withMe"} /\ emptyIsNone \in BOOLEAN
    /\ shared \in SUBSET Listed
    /\ shareEvents = <<>>
    /\ memory = NotLoaded /\ stored \in {NotLoaded, shared}
    /\ listing = NoListing /\ own = NoWrite /\ handler = NoWrite
    /\ changes = 0 /\ troubles = 0 /\ races = {}

(***************************************************************************)
(* The server.  Every change of the list is an event.                      *)
(***************************************************************************)
ShareChanges(n) ==
    /\ changes < MaxShared /\ changes' = changes + 1
    /\ shared' = IF n \in shared THEN shared \ {n} ELSE shared \cup {n}
    /\ shareEvents' = Append(shareEvents, [type |-> IF list = "byMe" THEN "node" ELSE "sharedWithMe",
                                           node |-> n, shared |-> n \in shared'])

OtherChanges(n) ==
    /\ ShareChanges(n)
    /\ UNCHANGED <<list, emptyIsNone, memory, stored, listing, own, handler, troubles, races>>

\* The events waiting cannot be read any more: TreeRefresh stands for them, or
\* SharedWithMeUpdated for the core events.
EventsReplaced ==
    /\ shareEvents # <<>> /\ troubles < MaxTroubles /\ troubles' = troubles + 1
    /\ shareEvents' = <<[type |-> "refresh", node |-> 1, shared |-> FALSE]>>
    /\ UNCHANGED <<list, emptyIsNone, shared, memory, stored, listing, own, handler, changes, races>>

(***************************************************************************)
(* SharingCache.  An empty list is stored as the empty string, which       *)
(* splits into one blank uid, or which the cache takes for a missing entry.*)
(***************************************************************************)
Split(entry) == IF entry # {} THEN entry ELSE IF emptyIsNone THEN NotLoaded ELSE {Blank}
Joined(uids) == IF uids = {Blank} THEN {} ELSE uids

\* What getNodeUids returns or, when it throws, NotLoaded.
GetNodeUids == IF IsLoaded(memory) THEN memory ELSE Split(stored)

\* addNodeUid, removeNodeUid: the list with one change.
Applied(w) == IF w.add THEN w.base \cup {w.node} ELSE w.base \ {w.node}

\* setNodeUids changes the list in memory and then waits for the cache of the application
\* to store the entry.  The entries on their way, of each writer.
OwnEntry == IF own.phase = "store" THEN {Joined(Applied(own))} ELSE {}
HandlerEntry ==
    IF handler.phase # "store" THEN {}
    ELSE IF handler.type = "node" THEN {Joined(Applied(handler))} ELSE {NotLoaded}
ListingEntry == IF listing.phase = "store" THEN {listing.loaded} ELSE {}
Storing == OwnEntry \cup HandlerEntry \cup ListingEntry

\* setEntity, or removeEntities, ends or fails.  What is stored should be what is in
\* memory, unless that is on its way.
StoreEntry(entries, underway) ==
    /\ \/ stored' \in entries /\ UNCHANGED troubles
       \/ troubles < MaxTroubles /\ troubles' = troubles + 1
          /\ UNCHANGED stored
    /\ races' = races \cup (IF Joined(memory) \in {stored'} \cup underway THEN {} ELSE {"raced"})

\* Reading the list keeps it in memory.  The entry may be one that is about to be
\* replaced or removed, or the empty one.
HasBlank(uids) == IsLoaded(uids) /\ Blank \in uids
Remember(uids) == memory' = IF IsLoaded(uids) THEN uids ELSE memory
Misread ==
    (IF IsLoaded(GetNodeUids) /\ ~IsLoaded(memory) /\ Storing # {} THEN {"raced"} ELSE {})
        \cup (IF HasBlank(GetNodeUids) THEN {"raced"} ELSE {})

(***************************************************************************)
(* SharingAccess: listing.                                                 *)
(***************************************************************************)
\* A listing on its way has read the page of the node, and differently.
Misses(n, isShared) == listing.phase = "api" /\ listing.next > n /\ (n \in listing.loaded) # isShared
MissedByList(n, isShared) == IF Misses(n, isShared) THEN {"listing"} ELSE {}

\* From the cache; loading nodes may fail (a blank uid always does), then from the API.
BeginListing ==
    /\ listing.phase = "idle"
    /\ LET uids == GetNodeUids IN
         /\ Remember(uids)
         /\ \/ /\ IsLoaded(uids) /\ ~HasBlank(uids)
               /\ UNCHANGED <<listing, troubles>>
            \/ /\ ~IsLoaded(uids) \/ HasBlank(uids)
               /\ listing' = [NoListing EXCEPT !.phase = "api"]
               /\ UNCHANGED troubles
            \/ /\ IsLoaded(uids) /\ ~HasBlank(uids)
               /\ troubles < MaxTroubles /\ troubles' = troubles + 1
               /\ listing' = [NoListing EXCEPT !.phase = "api"]
    /\ races' = races \cup Misread
    /\ UNCHANGED <<list, emptyIsNone, shared, shareEvents, stored, own, handler, changes>>

\* Mutant: what was loaded is cached page by page.
ReadPageCaches ==
    /\ listing.phase = "api" /\ listing.next <= NListed
    /\ listing' = [listing EXCEPT !.next = @ + 1,
                     !.loaded = IF listing.next \in shared THEN @ \cup {listing.next} ELSE @]
    /\ memory' = listing'.loaded /\ stored' = listing'.loaded
    /\ UNCHANGED <<list, emptyIsNone, shared, shareEvents, own, handler, changes, troubles, races>>

\* iterateSharedNodeUids, iterateSharedWithMeNodeUids: page after page.
ReadPage ==
    /\ listing.phase = "api" /\ listing.next <= NListed
    /\ listing' = [listing EXCEPT !.next = @ + 1,
                     !.loaded = IF listing.next \in shared THEN @ \cup {listing.next} ELSE @]
    /\ UNCHANGED <<list, emptyIsNone, shared, shareEvents, memory, stored, own, handler, changes, troubles, races>>

\* Reading a page fails and the listing throws: nothing is cached.
ListingFails ==
    /\ listing.phase = "api"
    /\ troubles < MaxTroubles /\ troubles' = troubles + 1
    /\ listing' = NoListing
    /\ races' = races \ {"listing"}
    /\ UNCHANGED <<list, emptyIsNone, shared, shareEvents, memory, stored, own, handler, changes>>

\* The cache is set at the end only.
ListingDone ==
    /\ listing.phase = "api" /\ listing.next > NListed
    /\ memory' = listing.loaded
    /\ listing' = [listing EXCEPT !.phase = "store"]
    /\ races' = IF "listing" \in races THEN {"raced"} ELSE {}
    /\ UNCHANGED <<list, emptyIsNone, shared, shareEvents, stored, own, handler, changes, troubles>>

\* The list is stored, or the listing throws after its last node.
ListingStores ==
    /\ listing.phase = "store"
    /\ StoreEntry(ListingEntry, OwnEntry \cup HandlerEntry)
    /\ listing' = NoListing
    /\ UNCHANGED <<list, emptyIsNone, shared, shareEvents, memory, own, handler, changes>>

(***************************************************************************)
(* Changes of this client: createShare and deleteShareWithForce, or        *)
(* acceptInvitation and removeSharedNodeWithMe.  The list is changed after *)
(* the answer, if it is loaded: it is read, and later written.             *)
(***************************************************************************)
OwnChange(n) ==
    /\ own.phase = "idle"
    /\ ShareChanges(n)
    /\ own' = [NoWrite EXCEPT !.phase = "answer", !.node = n, !.add = n \in shared']
    /\ UNCHANGED <<list, emptyIsNone, memory, stored, listing, handler, troubles, races>>

\* A newer change of the node was handled before the answer came.
Late == /\ (own.node \in shared) # own.add
        /\ \A i \in DOMAIN shareEvents : shareEvents[i].node # own.node

OwnAnswered ==
    /\ own.phase = "answer"
    /\ LET uids == GetNodeUids IN
         /\ Remember(uids)
         /\ own' = IF IsLoaded(uids) THEN [own EXCEPT !.phase = "write", !.base = uids] ELSE NoWrite
    /\ races' = races \cup MissedByList(own.node, own.add) \cup (IF Late THEN {"raced"} ELSE {}) \cup Misread
    /\ UNCHANGED <<list, emptyIsNone, shared, shareEvents, stored, listing, handler, changes, troubles>>

\* addNodeUid, removeNodeUid: nothing is written when nothing changes.
AfterWrite(w) == IF Applied(w) = w.base THEN NoWrite ELSE [w EXCEPT !.phase = "store"]
Write(w, late) ==
    /\ memory' = IF Applied(w) = w.base THEN memory ELSE Applied(w)
    /\ races' = races \cup MissedByList(w.node, w.add) \cup late
                      \cup (IF memory # w.base THEN {"raced"} ELSE {})

OwnWrites ==
    /\ own.phase = "write"
    /\ Write(own, IF Late THEN {"raced"} ELSE {})
    /\ own' = AfterWrite(own)
    /\ UNCHANGED <<list, emptyIsNone, shared, shareEvents, stored, listing, handler, changes, troubles>>

\* The list is stored, or the call throws although the server made the change.
OwnStores ==
    /\ own.phase = "store"
    /\ StoreEntry(OwnEntry, HandlerEntry \cup ListingEntry)
    /\ own' = NoWrite
    /\ UNCHANGED <<list, emptyIsNone, shared, shareEvents, memory, listing, handler, changes>>

(***************************************************************************)
(* SharingEventHandler.  An error is logged, and the event counts as       *)
(* handled.                                                                *)
(***************************************************************************)
TheShareEvent == Head(shareEvents)

\* handleSharedWithMeNodeUidsLoaded: the list is forgotten, and its entry removed.
HandleSharedWithMe ==
    /\ handler.phase = "idle" /\ shareEvents # <<>>
    /\ TheShareEvent.type # "node" /\ list = "withMe"
    /\ shareEvents' = Tail(shareEvents)
    /\ memory' = NotLoaded
    /\ handler' = [NoWrite EXCEPT !.phase = "store", !.type = TheShareEvent.type]
    /\ races' = races \cup UNION {MissedByList(n, n \in shared) : n \in Listed}
    /\ UNCHANGED <<list, emptyIsNone, shared, stored, listing, own, changes, troubles>>

\* TreeRefresh does nothing to the other list.
HandleRefreshByMe ==
    /\ handler.phase = "idle" /\ shareEvents # <<>>
    /\ TheShareEvent.type # "node" /\ list = "byMe"
    /\ shareEvents' = Tail(shareEvents)
    /\ races' = races \cup {"raced"} \cup UNION {MissedByList(n, n \in shared) : n \in Listed}
    /\ UNCHANGED <<list, emptyIsNone, shared, memory, stored, listing, own, handler, changes, troubles>>

\* handleSharedByMeNodeUidsLoaded: if the list is loaded, the node is added or removed.
HandleSharedByMe ==
    /\ handler.phase = "idle" /\ shareEvents # <<>> /\ TheShareEvent.type = "node"
    /\ shareEvents' = Tail(shareEvents)
    /\ LET uids == GetNodeUids IN
         /\ Remember(uids)
         /\ handler' = IF IsLoaded(uids)
                         THEN [NoWrite EXCEPT !.phase = "write", !.node = TheShareEvent.node,
                                 !.add = TheShareEvent.shared, !.base = uids]
                         ELSE NoWrite
    /\ races' = races \cup MissedByList(TheShareEvent.node, TheShareEvent.shared) \cup Misread
    /\ UNCHANGED <<list, emptyIsNone, shared, stored, listing, own, changes, troubles>>

HandlerWrites ==
    /\ handler.phase = "write"
    /\ Write(handler, {})
    /\ handler' = AfterWrite(handler)
    /\ UNCHANGED <<list, emptyIsNone, shared, shareEvents, stored, listing, own, changes, troubles>>

HandlerStores ==
    /\ handler.phase = "store"
    /\ StoreEntry(HandlerEntry, OwnEntry \cup ListingEntry)
    /\ handler' = NoWrite
    /\ UNCHANGED <<list, emptyIsNone, shared, shareEvents, memory, listing, own, changes>>

\* The application ends while something other than what it has in memory is stored; but
\* what an event changed is changed again, on what was stored before.
Unsaved ==
    \/ OwnEntry \cup ListingEntry # {} /\ stored # Joined(memory)
    \/ HandlerEntry # {} /\ handler.type = "node" /\ stored \notin {Joined(memory), Joined(handler.base)}

\* The application ends and starts again: the events go on from the last one handled.
Restart ==
    /\ troubles < MaxTroubles /\ troubles' = troubles + 1
    /\ memory' = NotLoaded
    /\ listing' = NoListing /\ own' = NoWrite /\ handler' = NoWrite
    /\ shareEvents' = IF handler.phase = "idle" THEN shareEvents
                      ELSE <<[type |-> handler.type, node |-> handler.node, shared |-> handler.add]>> \o shareEvents
    /\ races' = (races \ {"listing"}) \cup (IF Unsaved THEN {"raced"} ELSE {})
    /\ UNCHANGED <<list, emptyIsNone, shared, stored, changes>>

ListStep ==
    \/ ReadPage \/ ListingDone \/ ListingStores \/ OwnAnswered \/ OwnWrites \/ OwnStores
    \/ HandleSharedWithMe \/ HandleRefreshByMe \/ HandleSharedByMe \/ HandlerWrites \/ HandlerStores

ListsNext ==
    \/ \E n \in Listed : OtherChanges(n) \/ OwnChange(n)
    \/ EventsReplaced \/ BeginListing \/ ListingFails \/ Restart \/ ListStep

ListsSpec == ListsInit /\ [][ListsNext]_listVars

-----------------------------------------------------------------------------
(* Properties.                                                             *)

ListsTypeOK ==
    /\ shared \subseteq Listed
    /\ memory \subseteq 0 .. NListed + 1 /\ stored \subseteq 0 .. NListed + 1
    /\ listing.loaded \subseteq Listed
    /\ races \subseteq {"listing", "raced"}

ListsQuiet == shareEvents = <<>> /\ own.phase = "idle" /\ handler.phase = "idle" /\ listing.phase = "idle"

\* "Only full lists are cached": when everything the server told was handled, a list
\* that is cached is the server's, in memory and in the application's cache, from which
\* it is read after a restart.  The races that are the code's own are excluded, each
\* where it happens: something is handled or changed while a listing is on its way; the
\* answer to an own change comes after a newer change; two writers overlap; TreeRefresh
\* for the list of one's own shares; storing the entry fails, is overtaken, overlaps with
\* reading it or with the end of the application; and the entry of an empty list is read
\* as a list of one blank uid.
CachedListIsServers ==
    (ListsQuiet /\ races = {}) =>
        /\ IsLoaded(memory) => memory = shared
        /\ IsLoaded(Split(stored)) => stored = shared

ListEnded == listing.phase = "idle"
=============================================================================
