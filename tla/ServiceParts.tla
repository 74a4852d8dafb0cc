----------------------------- MODULE ServiceParts -----------------------------
(***************************************************************************)
(* The services of the JS SDK that keep the client's picture of the drive  *)
(* up to date: the event managers (internal/events), the loading of nodes  *)
(* (internal/nodes), sharing (internal/sharing) with its cached lists, and *)
(* the volume of the user (internal/shares).  Each works on state of its   *)
(* own and meets the others only through the server and through events,    *)
(* which each module models for itself, so that they are explored one at a *)
(* time: `part' says which.                                                *)
(***************************************************************************)
EXTENDS DriveEvents, NodesLoading, NodeSharing, SharingLists, SharesManager

VARIABLE part

allVars == <<part, eventsVars, loadingVars, sharingVars, listVars, sharesVars>>

\* The parts that are not explored have one initial state.
OneEvents == watched = 1 /\ scope = "volume" /\ persisted = 0
OneLoading ==
    /\ asked = (CHOOSE b \in Batches : TRUE) /\ existing = Family /\ keyed /\ target = ParentNode
    /\ answer = (CHOOSE s \in InAnyOrder(asked) : TRUE)
OneSharing == share = NoShare /\ ownVolume /\ admin /\ node.fresh
OneList == list = "byMe" /\ emptyIsNone /\ shared = {} /\ stored = NotLoaded
OneShares == volume = 0 /\ volumeCache = {}

ServicesInit ==
    /\ part \in {"events", "loading", "sharing", "lists", "shares"}
    /\ EventsInit /\ (part = "events" \/ OneEvents)
    /\ LoadingInit /\ (part = "loading" \/ OneLoading)
    /\ SharingInit /\ (part = "sharing" \/ OneSharing)
    /\ ListsInit /\ (part = "lists" \/ OneList)
    /\ SharesInit /\ (part = "shares" \/ OneShares)

NotEvents == <<loadingVars, sharingVars, listVars, sharesVars>>
NotLoading == <<eventsVars, sharingVars, listVars, sharesVars>>
NotSharing == <<eventsVars, loadingVars, listVars, sharesVars>>
NotLists == <<eventsVars, loadingVars, sharingVars, sharesVars>>
NotShares == <<eventsVars, loadingVars, sharingVars, listVars>>

ServicesNext ==
    \/ part = "events" /\ EventsNext /\ UNCHANGED part /\ UNCHANGED NotEvents
    \/ part = "loading" /\ LoadingStep /\ UNCHANGED part /\ UNCHANGED NotLoading
    \/ part = "sharing" /\ SharingNext /\ UNCHANGED part /\ UNCHANGED NotSharing
    \/ part = "lists" /\ ListsNext /\ UNCHANGED part /\ UNCHANGED NotLists
    \/ part = "shares" /\ SharesNext /\ UNCHANGED part /\ UNCHANGED NotShares

ServicesSpec == ServicesInit /\ [][ServicesNext]_allVars

\* The steps the SDK takes by itself: timers fire, requests end, promises settle.
Progress ==
    \/ part = "events" /\ ManagerStep(watched) /\ UNCHANGED part /\ UNCHANGED NotEvents
    \/ part = "loading" /\ LoadingStep /\ UNCHANGED part /\ UNCHANGED NotLoading
    \/ part = "sharing" /\ CallStep /\ UNCHANGED part /\ UNCHANGED NotSharing
    \/ part = "lists" /\ ListStep /\ UNCHANGED part /\ UNCHANGED NotLists
    \/ /\ part = "shares" /\ \E c \in RootCallers : CallerStep(c)
       /\ UNCHANGED part /\ UNCHANGED NotShares

\* One condition is enough: the steps of a part are those of one sequential chain, or
\* cannot be repeated for ever while another waits.
ServicesFairSpec == ServicesSpec /\ WF_allVars(Progress)

\* Type invariant: that of every part.
ServicesTypeOK == EventsTypeOK /\ LoadingTypeOK /\ SharingTypeOK /\ ListsTypeOK /\ SharesTypeOK

\* Where a part has nothing left to do: the polled manager has read the whole log, or
\* is stopped, or the volume is gone; nodes are loaded; no call, no listing and no
\* search for the volume is on its way.
Settled ==
    CASE part = "events" -> \/ manager[watched].phase \in {"unused", "off"} \/ revoked
                            \/ manager[watched].latest >= Len(log)
      [] part = "loading" -> LoadsEnded
      [] part = "sharing" -> call.phase = "none" \/ CallEnded
      [] part = "lists" -> ListEnded
      [] part = "shares" -> \A c \in RootCallers : caller[c].phase \in {"idle", "done"}

\* What was begun goes on.  Every entry of the server's log is read in the end by the
\* manager that is polled, however often a poll, a listener or the start fails before;
\* loading nodes ends, also when two calls wait for the same node (the debouncer
\* gives up after a while); a call of the sharing API, a listing and the search for
\* the user's volume end.
ServicesProgress == []<>Settled

\* The event service loses nothing, hands out only ids whose events every subscriber
\* was told, and tells the SDK's caches before the application.
EventsAreTold == NothingLost /\ LatestIsSeen /\ CacheBeforeApplication

\* A call of the sharing API does what it was asked for and nothing else, while others
\* change the same share between its requests; only the forced deletion of a share takes
\* those along who came since the call began.
SharingDoesAsAsked == AskedIsDone /\ NobodyElse /\ OnlyLatecomersSwept /\ LinkIsKept

\* What the client keeps agrees with the server: the share of a node, the cached lists
\* of shared nodes, and which nodes are gone.
ClientAgreesWithServer ==
    /\ ServicesTypeOK
    /\ NodeKnowsShare /\ CachedListIsServers /\ OnlyMissingIsRemoved
=============================================================================
