------------------------------ MODULE NodesCache ------------------------------
(***************************************************************************)
(* The metadata cache of the nodes module of the JS SDK                    *)
(* (internal/nodes): NodesCache, the reads of NodesAccess that fill it,    *)
(* the operations of NodesManagement that invalidate it and the handler    *)
(* NodesEventsHandler.updateNodesCacheOnEvent.                             *)
(*                                                                         *)
(* The server keeps one record per node.  Its version counts the changes   *)
(* of the node, so that "older" and "newer" can be said of a copy: it      *)
(* stands for all the metadata the SDK does not look at here.  Every       *)
(* change, of this client or of another, also appends an event to the feed *)
(* (module DriveEvents delivers it).  A call of the SDK is a sequence of   *)
(* steps with an await between them: look in the cache, read from the API, *)
(* store, send the change, read the entry to be changed, write it back.    *)
(* The handler of an event that updates a node reads and writes the entry  *)
(* in two steps too.  Storing an entry (setNode) may fail.                 *)
(***************************************************************************)
EXTENDS Naturals, FiniteSets, Sequences, SequencesExt

CONSTANTS
    Nodes,        \* node uids other than the root folder
    Root,         \* the root folder of the volume
    Dirs,         \* the nodes that are folders
    Trees,        \* the parents that nodes may have at first
    Bins,         \* the sets of nodes that may be in the trash at first
    NCalls,       \* number of calls of the SDK that can be in progress together
    MaxChanges,   \* bound: changes of the server's tree
    MaxCalls,     \* bound: calls started
    MaxWork       \* bound: changes and calls together

Folders == Dirs \cup {Root}

ASSUME NodesAssumption ==
    /\ Root \notin Nodes /\ "none" \notin Nodes \cup {Root} /\ Dirs \subseteq Nodes
    /\ IsFiniteSet(Nodes) /\ Trees \subseteq [Nodes -> Folders]
    /\ MaxChanges \in Nat /\ MaxCalls \in Nat /\ MaxWork \in Nat /\ NCalls \in Nat

Calls == 1 .. NCalls
None == "none"

\* What the cache says of a node it has no entry of.
NotCached == [parent |-> None, trashed |-> FALSE, ver |-> 0, stale |-> FALSE]

VARIABLES
    server,     \* [Nodes -> link]: what the API would answer now
    access,     \* the volume can still be read
    changes,    \* number of changes so far
    feed,       \* events not handled yet, oldest first
    cache,      \* [Nodes -> entry or NotCached]: driveCache, keys node-<uid>
    loaded,     \* folders with an entry node-children-<uid>
    updating,   \* the entry read by the handler of the oldest event, or NotCached
    call,       \* [Calls -> call in progress]
    started,    \* number of calls started
    handled,    \* history: newest version of each node the cache was told of
    late,       \* history: nodes stored from an answer older than handled, or
                \* overwritten by a copy of another place, or not written at all
    lost,       \* history: nodes cached when a refresh replaced their events
    astray,     \* history: nodes that the removal of a folder above could not find
    swept,      \* history: existing nodes removed with a folder they had left
    missed,     \* history: nodes whose update was handled while not cached, or
                \* that a listing has read and could not store
    lateLists,  \* history: folders flagged although a reset came meanwhile
    filtered    \* history: existing nodes reported missing by a filter

nodesHistory == <<handled, late, lost, astray, swept, missed, lateLists, filtered>>
nodesVars == <<server, access, changes, feed, cache, loaded, updating, call, started, nodesHistory>>

(***************************************************************************)
(* The server.                                                             *)
(***************************************************************************)
Link == [parent : Folders \cup {None}, trashed : BOOLEAN, ver : Nat]

Exists(s, n) == s[n].parent # None

Touch(s, n, p, t) == [s EXCEPT ![n] = [parent |-> p, trashed |-> t, ver |-> @.ver + 1]]

\* The nodes of S and all below them, where par[m] is the parent of m.
Subtree(par, S) ==
    {n \in Nodes : \A T \in SUBSET Nodes :
        (\A m \in Nodes : m \in S \/ par[m] \in S \cup T => m \in T) => n \in T}

RenameLink(s, n) == Touch(s, n, s[n].parent, s[n].trashed)
MoveLink(s, n, to) == Touch(s, n, to, s[n].trashed)
TrashLink(s, n) == Touch(s, n, s[n].parent, TRUE)
RestoreLink(s, n) == Touch(s, n, s[n].parent, FALSE)
CreateLink(s, n, to) == Touch(s, n, to, FALSE)

DeleteLinks(s, S) ==
    LET gone == Subtree([m \in Nodes |-> s[m].parent], S)
    IN [m \in Nodes |-> IF m \in gone /\ Exists(s, m)
                          THEN [parent |-> None, trashed |-> FALSE, ver |-> s[m].ver + 1]
                          ELSE s[m]]

TrashedLinks(s) == {n \in Nodes : Exists(s, n) /\ s[n].trashed}
ChildrenLinks(s, p) == {n \in Nodes : s[n].parent = p /\ ~s[n].trashed}

\* The event of a change of node n: what it says of n, the versions it covers and,
\* for the history only, where those nodes were before.
Event(type, s, n, S) ==
    [type |-> type, node |-> n, parent |-> s[n].parent, trashed |-> s[n].trashed,
     at |-> [m \in S |-> s[m].ver], was |-> [m \in S |-> server[m].parent]]

Changed(s, t) == {m \in Nodes : s[m] # t[m]}

TreeEvent(type, S) ==
    [type |-> type, node |-> Root, parent |-> None, trashed |-> FALSE,
     at |-> [m \in S |-> server[m].ver], was |-> [m \in S |-> server[m].parent]]

\* The server executes a change: its tree becomes t, events tell of it.
Execute(t, events) ==
    /\ access
    /\ changes < MaxChanges /\ changes + started < MaxWork
    /\ changes' = changes + 1
    /\ server' = t
    /\ feed' = feed \o events
    /\ UNCHANGED access

\* One node is changed, and an event of that type tells of it.
ExecuteOne(type, n, t) == Execute(t, <<Event(type, t, n, Changed(server, t))>>)

Inside(s, p, n) ==   \* p is n or below n
    p \in Subtree([m \in Nodes |-> s[m].parent], {n})

CanRename(n) == Exists(server, n) /\ ~server[n].trashed
CanMove(n, to) ==
    /\ CanRename(n)
    /\ to # server[n].parent
    /\ to # Root => CanRename(to) /\ ~Inside(server, to, n)
CanTrash(n) == CanRename(n)
CanRestore(n) == Exists(server, n) /\ server[n].trashed
CanCreate(n, to) == server[n].ver = 0 /\ (to # Root => CanRename(to))

\* Another client of the same volume changes a node.
OtherClient ==
    /\ \E n \in Nodes :
          \/ CanRename(n) /\ ExecuteOne("updated", n, RenameLink(server, n))
          \/ CanTrash(n) /\ ExecuteOne("updated", n, TrashLink(server, n))
          \/ CanRestore(n) /\ ExecuteOne("updated", n, RestoreLink(server, n))
          \/ CanRestore(n) /\ ExecuteOne("deleted", n, DeleteLinks(server, {n}))
          \/ \E to \in Folders :
                \/ CanMove(n, to) /\ ExecuteOne("updated", n, MoveLink(server, n, to))
                \/ CanCreate(n, to) /\ ExecuteOne("created", n, CreateLink(server, n, to))
    /\ UNCHANGED <<cache, loaded, updating, call, started, nodesHistory>>

\* The server no longer has the events since the client's anchor: a refresh replaces them.
\* The client finds it in the answer to a poll, never while an event is being handled.
EventsLost ==
    /\ access /\ updating = NotCached
    /\ changes < MaxChanges /\ changes + started < MaxWork
    /\ changes' = changes + 1
    /\ feed' = <<TreeEvent("refresh", Nodes)>>
    /\ UNCHANGED <<server, access, cache, loaded, updating, call, started, nodesHistory>>

\* The user loses access to the volume; the client finds it in the answer to a poll too.
AccessLost ==
    /\ access /\ updating = NotCached
    /\ changes < MaxChanges /\ changes + started < MaxWork
    /\ changes' = changes + 1
    /\ access' = FALSE
    /\ feed' = <<TreeEvent("remove", {})>>
    /\ UNCHANGED <<server, cache, loaded, updating, call, started, nodesHistory>>

(***************************************************************************)
(* NodesCache                                                              *)
(***************************************************************************)
Entry == [parent : Folders \cup {None}, trashed : BOOLEAN, ver : Nat, stale : BOOLEAN]

Cached(c, n) == c[n].parent # None
Fresh(n) == Cached(cache, n) /\ ~cache[n].stale
NewEntry(link) ==
    [parent |-> link.parent, trashed |-> link.trashed, ver |-> link.ver, stale |-> FALSE]

SetNode(c, n, entry) == [c EXCEPT ![n] = entry]

\* Children are found by the tag nodeParentUid, whether their parent is cached or not.
Tagged(c, S) == Subtree([m \in Nodes |-> c[m].parent], S)
RemoveNodes(c, S) == [m \in Nodes |-> IF m \in Tagged(c, S) THEN NotCached ELSE c[m]]
Swept(c, S) == {n \in Tagged(c, S) \ S : Exists(server, n)}

SetNodesStale(c) ==
    [m \in Nodes |-> IF Cached(c, m) THEN [c[m] EXCEPT !.stale = TRUE] ELSE c[m]]

\* iterateRootNodeUids yields cache keys, and removeNodes makes a cache key of each again.
CacheUid(uid) == <<"node", uid>>
RemoveVolume(c) == RemoveNodes(c, {CacheUid(uid) : uid \in {Root}})

IterateChildren(p) ==
    {n \in Nodes : Cached(cache, n) /\ cache[n].parent = p /\ ~cache[n].trashed}

(***************************************************************************)
(* NodesEventsHandler.updateNodesCacheOnEvent                              *)
(***************************************************************************)
Newest(v, w) == IF v < w THEN w ELSE v

Told(e) ==
    handled' = [n \in Nodes |-> IF n \in DOMAIN e.at THEN Newest(handled[n], e.at[n]) ELSE handled[n]]

\* Listings of folder p in progress will flag it although it was reset.
Dirtied(P) ==
    call' = [c \in Calls |-> IF call[c].node \in P /\ call[c].step \in {"batch", "store"}
                               THEN [call[c] EXCEPT !.dirty = TRUE] ELSE call[c]]

OnTreeRefresh(e) ==
    /\ e.type = "refresh"
    /\ cache' = SetNodesStale(cache)
    /\ loaded' = {}
    /\ Dirtied(Folders)
    /\ lost' = {n \in Nodes : Cached(cache, n)}
    /\ UNCHANGED <<late, astray, swept, missed>>

OnTreeRemove(e) ==
    /\ e.type = "remove"
    /\ cache' = RemoveVolume(cache)
    /\ UNCHANGED <<loaded, call, late, lost, astray, swept, missed>>

\* The deleted nodes below e.node over cached nodes whose place is known.
Connected(e) ==
    Subtree([m \in Nodes |-> IF m \in DOMAIN e.at /\ Cached(cache, m) /\ m \notin late \cup lost
                               THEN e.was[m] ELSE None], {e.node})

OnNodeDeleted(e) ==
    /\ e.type = "deleted"
    /\ cache' = RemoveNodes(cache, {e.node})
    /\ astray' = astray \cup (DOMAIN e.at \ Connected(e))
    /\ swept' = swept \cup Swept(cache, {e.node})
    /\ UNCHANGED <<loaded, call, late, lost, missed>>

\* Mutant: the listing of the parent is not reset.
OnNodeCreatedKeeps(e) ==
    /\ e.type = "created"
    /\ UNCHANGED <<cache, loaded, call, late, lost, astray, swept, missed>>

OnNodeCreated(e) ==
    /\ e.type = "created"
    /\ loaded' = loaded \ {e.parent}
    /\ Dirtied({e.parent})
    /\ UNCHANGED <<cache, late, lost, astray, swept, missed>>

\* The entry of an updated node is read, and written back in a later step.
GetUpdatedNode ==
    /\ feed # <<>> /\ updating = NotCached
    /\ Head(feed).type = "updated" /\ Cached(cache, Head(feed).node)
    /\ updating' = cache[Head(feed).node]
    /\ UNCHANGED <<server, access, changes, feed, cache, loaded, call, started, nodesHistory>>

\* It is written as it was read, with the place the event tells, or the write fails;
\* nothing is written when there was no entry to read.
OnNodeUpdated(e) ==
    /\ e.type = "updated"
    /\ \/ /\ updating # NotCached
          /\ cache' = SetNode(cache, e.node, [updating EXCEPT !.stale = TRUE, !.parent = e.parent,
                                                             !.trashed = e.trashed])
          /\ late' = late \ {e.node}
          /\ lost' = lost \ {e.node}
          /\ missed' = missed \ {e.node}
       \/ /\ updating # NotCached
          /\ late' = late \cup {e.node}
          /\ UNCHANGED <<cache, lost, missed>>
       \/ /\ updating = NotCached /\ ~Cached(cache, e.node)
          /\ missed' = missed \cup {e.node}
          /\ UNCHANGED <<cache, late, lost>>
    /\ UNCHANGED <<loaded, call, astray, swept>>

UpdateNodesCacheOnEvent ==
    /\ feed # <<>>
    /\ LET e == Head(feed) IN
         /\ OnTreeRefresh(e) \/ OnTreeRemove(e) \/ OnNodeDeleted(e)
              \/ OnNodeCreated(e) \/ OnNodeUpdated(e)
         /\ Told(e)
    /\ feed' = Tail(feed) /\ updating' = NotCached
    /\ UNCHANGED <<server, access, changes, started, lateLists, filtered>>

(***************************************************************************)
(* Calls.  A call has a kind and the node and target folder it is about;   *)
(* got is what it has read, todo the nodes its batch has still to load.    *)
(***************************************************************************)
Kinds == {"get", "nodes", "list", "folders", "trashlist", "rename", "move", "copy",
          "create", "trash", "restore", "delete", "empty"}

\* A second call in progress reads; its changes would be like another client's.
ReadKinds == {"get", "nodes", "list", "folders", "trashlist"}

Idle == [kind |-> "get", node |-> Root, to |-> Root, step |-> "idle", base |-> 0,
         got |-> <<>>, todo |-> {}, dirty |-> FALSE, flag |-> FALSE]

\* The calls that read the node first (getNode), and the others.
ReadFirst == {"get", "list", "folders", "rename", "move", "copy"}

StartCall(c) ==
    /\ call[c].step = "idle"
    /\ \A d \in 1 .. c - 1 : call[d].step # "idle"   \* calls are interchangeable
    /\ started < MaxCalls /\ changes + started < MaxWork
    /\ started' = started + 1
    /\ \E k \in IF c = 1 THEN Kinds ELSE ReadKinds, n \in Nodes \cup {Root}, to \in Folders :
          /\ k \in {"list", "folders"} => n \in Folders /\ to = Root
          /\ k \in {"trashlist", "empty"} => n = Root /\ to = Root
          /\ k = "create" => n = Root
          /\ n # Root => server[n].ver > 0   \* a uid is known once the node was created
          /\ k \in {"get", "nodes", "rename", "trash", "restore", "delete"} => n # Root /\ to = Root
          /\ k \in {"move", "copy"} => n \in Nodes /\ n # to
          /\ call' = [call EXCEPT ![c] =
                        [Idle EXCEPT !.kind = k, !.node = n, !.to = to,
                           !.step = IF k \in ReadFirst /\ n # Root THEN "get" ELSE "ready"]]
    /\ UNCHANGED <<server, access, changes, feed, cache, loaded, updating, nodesHistory>>

Unsent == UNCHANGED <<server, access, changes, feed, updating, started>>
Set(c, record) == call' = [call EXCEPT ![c] = record]
End(c) == Set(c, Idle)

\* getNode: a fresh entry is returned as it is.
GetCached(c) ==
    /\ call[c].step = "get"
    /\ Fresh(call[c].node)
    /\ IF call[c].kind = "get" THEN End(c)
       ELSE Set(c, [call[c] EXCEPT !.step = "ready", !.base = cache[call[c].node].ver])
    /\ Unsent /\ UNCHANGED <<cache, loaded, nodesHistory>>

\* loadNode: the API answers with the node, or "Node not found" is thrown.
LoadNode(c) ==
    /\ call[c].step = "get"
    /\ ~Fresh(call[c].node)
    /\ access
    /\ IF Exists(server, call[c].node)
         THEN Set(c, [call[c] EXCEPT !.step = "got", !.got = server[call[c].node]])
         ELSE End(c)
    /\ Unsent /\ UNCHANGED <<cache, loaded, nodesHistory>>

\* The cache with copies of the nodes of S stored, where got[n] was read of n.
StoredNodes(S, got) ==
    [n \in Nodes |-> IF n \in S THEN NewEntry(got[n]) ELSE cache[n]]

\* History of storing them, where the nodes rest are listed and not stored.
Stored(S, got, rest) ==
    /\ late' = (late \ S) \cup {n \in S : got[n].ver < handled[n]}
    /\ lost' = lost \ S
    /\ astray' = astray \ S
    /\ missed' = (missed \ S) \cup rest

\* decryptNode: the decrypted node is stored, whatever was stored meanwhile; it is not when
\* the keys of its parent cannot be decrypted (a degraded node is returned) or setNode fails.
DecryptNode(c) ==
    LET got == [n \in {call[c].node} |-> call[c].got]
    IN /\ call[c].step = "got"
       /\ \E S \in SUBSET DOMAIN got :
             /\ cache' = StoredNodes(S, got)
             /\ Stored(S, got, {})
             /\ swept' = swept \ S
       /\ IF call[c].kind = "get" THEN End(c)
          ELSE Set(c, [call[c] EXCEPT !.step = "ready", !.base = call[c].got.ver, !.got = <<>>])
       /\ Unsent /\ UNCHANGED <<loaded, handled, lateLists, filtered>>

\* A call fails before the server has executed anything: the error is thrown.
FailCall(c) ==
    /\ call[c].step \in {"get", "got", "ready", "batch"}
    /\ End(c)
    /\ Unsent /\ UNCHANGED <<cache, loaded, nodesHistory>>

\* Nodes to be loaded by the batch: the ones that are not cached or stale.
Batch(c, S, flag) ==
    LET todo == {n \in S : ~Fresh(n)} IN
    IF todo = {} /\ ~flag THEN End(c)
    ELSE Set(c, [call[c] EXCEPT !.step = "batch", !.todo = todo, !.flag = flag])

IterateFromCache(c) ==
    /\ call[c].kind \in {"list", "folders"} /\ call[c].step = "ready"
    /\ call[c].node \in loaded
    /\ Batch(c, IterateChildren(call[c].node), FALSE)
    /\ Unsent /\ UNCHANGED <<cache, loaded, nodesHistory>>

IterateFromApi(c) ==
    /\ call[c].kind \in {"list", "folders"} /\ call[c].step = "ready"
    /\ call[c].node \notin loaded
    /\ access
    /\ Batch(c, IF call[c].kind = "list" THEN ChildrenLinks(server, call[c].node)
                ELSE ChildrenLinks(server, call[c].node) \cap Dirs,
             call[c].kind = "list")
    /\ Unsent /\ UNCHANGED <<cache, loaded, nodesHistory>>

IterateTrashedNodes(c) ==
    /\ call[c].kind = "trashlist" /\ call[c].step = "ready"
    /\ access
    /\ Batch(c, TrashedLinks(server), FALSE)
    /\ Unsent /\ UNCHANGED <<cache, loaded, nodesHistory>>

IterateNodes(c) ==
    /\ call[c].kind = "nodes" /\ call[c].step = "ready"
    /\ Batch(c, {call[c].node}, FALSE)
    /\ Unsent /\ UNCHANGED <<cache, loaded, nodesHistory>>

\* The API answers with the links that exist and pass the filter of the call.
PassesFilter(c, n) == call[c].kind = "folders" => n \in Dirs

FetchNodeMetadata(c) ==
    /\ call[c].step = "batch"
    /\ access
    /\ Set(c, [call[c] EXCEPT !.step = "store",
                 !.got = [n \in {m \in call[c].todo : Exists(server, m) /\ PassesFilter(c, m)}
                            |-> server[n]]])
    /\ Unsent
    /\ filtered' = filtered \cup {m \in call[c].todo : Exists(server, m) /\ ~PassesFilter(c, m)}
    /\ UNCHANGED <<cache, loaded, handled, late, lost, astray, swept, missed, lateLists>>

\* loadNodesWithMissingReport stores what came, or some of it (decryptNode), and removes
\* what did not come; an unfiltered listing from the API ends with setFolderChildrenLoaded.
LoadNodesWithMissingReport(c) ==
    LET got == call[c].got
        missing == call[c].todo \ DOMAIN got
    IN /\ call[c].step = "store"
       /\ \E S \in SUBSET DOMAIN got :
             /\ cache' = RemoveNodes(StoredNodes(S, got), missing)
             /\ Stored(S, got, DOMAIN got \ S)
             /\ swept' = (swept \ S) \cup Swept(StoredNodes(S, got), missing)
       /\ IF call[c].flag
            THEN /\ loaded' = loaded \cup {call[c].node}
                 /\ lateLists' = IF call[c].dirty THEN lateLists \cup {call[c].node}
                                 ELSE lateLists \ {call[c].node}
            ELSE UNCHANGED <<loaded, lateLists>>
       /\ End(c)
       /\ Unsent /\ UNCHANGED <<handled, filtered>>

\* A node cannot be decrypted: when the rest is stored, "Failed to load some nodes" is thrown.
LoadSomeNodesFails(c) ==
    /\ call[c].step = "store"
    /\ \E S \in SUBSET DOMAIN call[c].got :
          /\ S # DOMAIN call[c].got
          /\ cache' = StoredNodes(S, call[c].got)
          /\ Stored(S, call[c].got, {})
          /\ swept' = swept \ S
    /\ End(c)
    /\ Unsent /\ UNCHANGED <<loaded, handled, lateLists, filtered>>

(***************************************************************************)
(* NodesManagement: the API call, then what the cache is told.             *)
(***************************************************************************)
\* base is now the version this call has made of its node.
Sent(c) ==
    Set(c, [call[c] EXCEPT !.step = "sent",
              !.base = IF call[c].node = Root THEN 0 ELSE server'[call[c].node].ver])

ApiRename(c) ==
    /\ call[c].kind = "rename" /\ call[c].step = "ready"
    /\ CanRename(call[c].node)
    /\ ExecuteOne("updated", call[c].node, RenameLink(server, call[c].node))
    /\ Sent(c)
    /\ UNCHANGED <<cache, loaded, updating, started, nodesHistory>>

ApiMove(c) ==
    /\ call[c].kind = "move" /\ call[c].step = "ready"
    /\ CanMove(call[c].node, call[c].to)
    /\ ExecuteOne("updated", call[c].node, MoveLink(server, call[c].node, call[c].to))
    /\ Sent(c)
    /\ UNCHANGED <<cache, loaded, updating, started, nodesHistory>>

\* A node not seen before, file or folder, appears in the target folder.
Appears(c) ==
    \E n \in Nodes :
        /\ CanCreate(n, call[c].to)
        /\ ExecuteOne("created", n, CreateLink(server, n, call[c].to))

ApiCopy(c) ==
    /\ call[c].kind = "copy" /\ call[c].step = "ready"
    /\ CanRename(call[c].node)
    /\ Appears(c)
    /\ Sent(c)
    /\ UNCHANGED <<cache, loaded, updating, started, nodesHistory>>

ApiCreateFolder(c) ==
    /\ call[c].kind = "create" /\ call[c].step = "ready"
    /\ Appears(c)
    /\ Sent(c)
    /\ UNCHANGED <<cache, loaded, updating, started, nodesHistory>>

ApiTrash(c) ==
    /\ call[c].kind = "trash" /\ call[c].step = "ready"
    /\ CanTrash(call[c].node)
    /\ ExecuteOne("updated", call[c].node, TrashLink(server, call[c].node))
    /\ Sent(c)
    /\ UNCHANGED <<cache, loaded, updating, started, nodesHistory>>

ApiRestore(c) ==
    /\ call[c].kind = "restore" /\ call[c].step = "ready"
    /\ CanRestore(call[c].node)
    /\ ExecuteOne("updated", call[c].node, RestoreLink(server, call[c].node))
    /\ Sent(c)
    /\ UNCHANGED <<cache, loaded, updating, started, nodesHistory>>

ApiDelete(c) ==
    /\ call[c].kind = "delete" /\ call[c].step = "ready"
    /\ CanRestore(call[c].node)
    /\ ExecuteOne("deleted", call[c].node, DeleteLinks(server, {call[c].node}))
    /\ Sent(c)
    /\ UNCHANGED <<cache, loaded, updating, started, nodesHistory>>

ApiEmptyTrash(c) ==
    /\ call[c].kind = "empty" /\ call[c].step = "ready"
    /\ TrashedLinks(server) # {}
    /\ LET t == DeleteLinks(server, TrashedLinks(server))
           tops == SetToSeq(TrashedLinks(server))
       IN Execute(t, [i \in 1 .. Len(tops) |->
                        Event("deleted", t, tops[i], Changed(server, DeleteLinks(server, {tops[i]})))])
    /\ Sent(c)
    /\ UNCHANGED <<cache, loaded, updating, started, nodesHistory>>

\* notifyNodeChanged reads the entry of the node ...
GetChangedNode(c) ==
    /\ call[c].kind \in {"rename", "move", "trash", "restore"} /\ call[c].step = "sent"
    /\ Cached(cache, call[c].node)
    /\ Set(c, [call[c] EXCEPT !.step = "write", !.got = cache[call[c].node]])
    /\ Unsent /\ UNCHANGED <<cache, loaded, nodesHistory>>

\* ... and writes the copy back, stale, whatever was stored meanwhile.  There is nothing to
\* write when the node was not cached; a failed write is only logged.
Overwrites(c) ==
    LET now == cache[call[c].node]
    IN now.parent # call[c].got.parent \/ now.trashed # call[c].got.trashed

NotifyNodeChanged(c, newParent) ==
    LET n == call[c].node
        older == newParent # None /\ call[c].base < handled[n]
    IN \/ /\ call[c].step = "sent" /\ ~Cached(cache, n)
          /\ UNCHANGED <<cache, late>>
       \/ /\ call[c].step = "write"
          /\ cache' = SetNode(cache, n, [call[c].got EXCEPT !.stale = TRUE,
                                        !.parent = IF newParent = None THEN @ ELSE newParent])
          /\ late' = IF Overwrites(c) \/ older THEN late \cup {n} ELSE late
       \/ /\ call[c].step = "write"
          /\ late' = late \cup {n}
          /\ UNCHANGED cache

\* notifyChildCreated and notifyNodeDeleted.
\* The call ends; a listing of the folder in progress will flag it although it was reset.
NotifyChildCreated(c) ==
    /\ loaded' = loaded \ {call[c].to}
    /\ call' = [d \in Calls |-> IF d = c THEN Idle
                 ELSE IF call[d].node = call[c].to /\ call[d].step \in {"batch", "store"}
                        THEN [call[d] EXCEPT !.dirty = TRUE] ELSE call[d]]
NotifyNodeDeleted(n) == RemoveNodes(cache, {n})

\* The caller of c knows of its change; an event may have told of a newer one before.
Acknowledged(c) ==
    handled' = [handled EXCEPT ![call[c].node] = Newest(@, call[c].base)]

\* The name is encrypted for a node that changed meanwhile: the API refuses,
\* renameNode marks the node stale, as after a rename, and throws.
RenameOutOfSync(c) ==
    /\ call[c].kind = "rename" /\ call[c].step = "ready"
    /\ access
    /\ call[c].base # server[call[c].node].ver
    /\ Set(c, [call[c] EXCEPT !.step = "sent", !.base = 0])
    /\ Unsent /\ UNCHANGED <<cache, loaded, nodesHistory>>

RenameNode(c) ==
    /\ call[c].kind = "rename"
    /\ NotifyNodeChanged(c, None)
    /\ Acknowledged(c)
    /\ End(c)
    /\ Unsent /\ UNCHANGED <<loaded, lost, astray, swept, missed, lateLists, filtered>>

\* Mutant: the cache is not told of a move.
MoveNodeForgets(c) ==
    /\ call[c].kind = "move" /\ call[c].step \in {"sent", "write"}
    /\ Acknowledged(c)
    /\ End(c)
    /\ Unsent /\ UNCHANGED <<cache, loaded, late, lost, astray, swept, missed, lateLists, filtered>>

MoveNode(c) ==
    /\ call[c].kind = "move"
    /\ NotifyNodeChanged(c, call[c].to)
    /\ Acknowledged(c)
    /\ End(c)
    /\ Unsent /\ UNCHANGED <<loaded, lost, astray, swept, missed, lateLists, filtered>>

CopyNode(c) ==
    /\ call[c].kind = "copy" /\ call[c].step = "sent"
    /\ NotifyChildCreated(c)
    /\ Unsent /\ UNCHANGED <<cache, nodesHistory>>

CreateFolder(c) ==
    /\ call[c].kind = "create" /\ call[c].step = "sent"
    /\ NotifyChildCreated(c)
    /\ Unsent /\ UNCHANGED <<cache, nodesHistory>>

TrashNodes(c) ==
    /\ call[c].kind = "trash"
    /\ NotifyNodeChanged(c, None)
    /\ Acknowledged(c)
    /\ End(c)
    /\ Unsent /\ UNCHANGED <<loaded, lost, astray, swept, missed, lateLists, filtered>>

RestoreNodes(c) ==
    /\ call[c].kind = "restore"
    /\ NotifyNodeChanged(c, None)
    /\ Acknowledged(c)
    /\ End(c)
    /\ Unsent /\ UNCHANGED <<loaded, lost, astray, swept, missed, lateLists, filtered>>

DeleteTrashedNodes(c) ==
    /\ call[c].kind = "delete" /\ call[c].step = "sent"
    /\ cache' = NotifyNodeDeleted(call[c].node)
    /\ swept' = swept \cup Swept(cache, {call[c].node})
    /\ Acknowledged(c)
    /\ End(c)
    /\ Unsent /\ UNCHANGED <<loaded, late, lost, astray, missed, lateLists, filtered>>

EmptyTrash(c) ==
    /\ call[c].kind = "empty" /\ call[c].step = "sent"
    /\ End(c)
    /\ Unsent /\ UNCHANGED <<cache, loaded, nodesHistory>>

\* The answer to an executed change is lost: the error is thrown, the cache not told.
AnswerLost(c) ==
    /\ call[c].step = "sent"
    /\ call[c].kind = "rename" => call[c].base # 0   \* a refusal is an answer
    /\ End(c)
    /\ Unsent /\ UNCHANGED <<cache, loaded, nodesHistory>>

(***************************************************************************)
(* The specification.                                                      *)
(***************************************************************************)
NodesInit ==
    /\ \E there \in {Nodes, Dirs}, bin \in Bins, tree \in Trees :
          server = [n \in Nodes |->
                      IF n \in there THEN [parent |-> tree[n], trashed |-> n \in bin, ver |-> 1]
                      ELSE [parent |-> None, trashed |-> FALSE, ver |-> 0]]
    /\ access = TRUE /\ changes = 0 /\ feed = <<>>
    /\ \/ /\ cache = [n \in Nodes |-> NewEntry(server[n])]   \* read before
          /\ loaded = {Root}
       \/ /\ cache = [n \in Nodes |-> NotCached] /\ loaded = {}
    /\ updating = NotCached
    /\ call = [c \in Calls |-> Idle] /\ started = 0
    /\ handled = [n \in Nodes |-> server[n].ver]
    /\ late = {} /\ lost = {} /\ astray = {} /\ swept = {} /\ missed = {} /\ lateLists = {} /\ filtered = {}

NodesNext ==
    \/ OtherClient \/ EventsLost \/ AccessLost \/ GetUpdatedNode \/ UpdateNodesCacheOnEvent
    \/ \E c \in Calls :
          \/ StartCall(c) \/ GetCached(c) \/ LoadNode(c) \/ DecryptNode(c) \/ FailCall(c)
          \/ IterateFromCache(c) \/ IterateFromApi(c) \/ IterateTrashedNodes(c) \/ IterateNodes(c)
          \/ FetchNodeMetadata(c) \/ LoadNodesWithMissingReport(c) \/ LoadSomeNodesFails(c)
          \/ ApiRename(c) \/ ApiMove(c) \/ ApiCopy(c) \/ ApiCreateFolder(c) \/ ApiTrash(c)
          \/ ApiRestore(c) \/ ApiDelete(c) \/ ApiEmptyTrash(c)
          \/ GetChangedNode(c) \/ RenameOutOfSync(c) \/ RenameNode(c) \/ MoveNode(c)
          \/ CopyNode(c) \/ CreateFolder(c)
          \/ TrashNodes(c) \/ RestoreNodes(c) \/ DeleteTrashedNodes(c) \/ EmptyTrash(c) \/ AnswerLost(c)

NodesSpec == NodesInit /\ [][NodesNext]_nodesVars

(***************************************************************************)
(* Properties.                                                             *)
(***************************************************************************)
Steps == {"idle", "get", "got", "ready", "batch", "store", "sent", "write"}

NodesTypeOK ==
    /\ server \in [Nodes -> Link]
    /\ access \in BOOLEAN /\ changes \in 0 .. MaxChanges /\ started \in 0 .. MaxCalls
    /\ cache \in [Nodes -> Entry] /\ updating \in Entry
    /\ loaded \subseteq Folders /\ lateLists \subseteq Folders
    /\ handled \in [Nodes -> Nat]
    /\ late \subseteq Nodes /\ lost \subseteq Nodes /\ astray \subseteq Nodes /\ swept \subseteq Nodes /\ missed \subseteq Nodes /\ filtered \subseteq Nodes
    /\ \A c \in Calls :
          /\ call[c].kind \in Kinds /\ call[c].step \in Steps
          /\ call[c].node \in Nodes \cup {Root} /\ call[c].to \in Folders
          /\ call[c].todo \subseteq Nodes
          /\ call[c].dirty \in BOOLEAN /\ call[c].flag \in BOOLEAN

\* A node in the cache that a read would return as it is (not stale) is at
\* least as new as the last event and the last acknowledged operation the
\* cache was told of.  It is not where a slower read was stored on top
\* (decryptNode stores whatever it has read), where the entry could not be written,
\* and where the removal of a folder above it could not find it by the tags of the cache.
FreshKnowsHandled ==
    \A n \in Nodes : Fresh(n) => cache[n].ver >= handled[n] \/ n \in late \cup astray

\* The server has told, or is about to tell, of a change of n.
Pending(n) ==
    \/ \E i \in 1 .. Len(feed) : n \in DOMAIN feed[i].at
    \/ ~access

\* A folder marked as loaded lists every node the server has in it, as far as
\* events have been handled.  The exceptions are exactly the cases the code
\* does not see: a slower read stored late or a slower copy written over a newer place,
\* a node swept away with a folder it had left, an update handled while the node was not
\* cached, an entry that could not be stored, a node dropped by a filtered listing, and a
\* reset of the flag while the listing was under way.
ListingComplete ==
    \A p \in loaded, n \in Nodes :
        (server[n].parent = p /\ ~server[n].trashed /\ ~Pending(n)) =>
            \/ Cached(cache, n) /\ cache[n].parent = p /\ ~cache[n].trashed
            \/ n \in late \cup swept \cup missed \cup filtered
            \/ p \in lateLists

\* A node deleted on the server is not in the cache any more once its deletion
\* has been handled; the folder of a deleted subtree takes its cached children
\* with it.  It is where a slower read or write brought it back, where a refresh came
\* instead of the deletion (the entry is stale, but stays), and where the tags
\* of the cache did not lead from the folder to it.
GoneIsForgotten ==
    \A n \in Nodes :
        (server[n].ver > 0 /\ ~Exists(server, n) /\ ~Pending(n) /\ Cached(cache, n)) =>
            n \in late \cup lost \cup astray

\* nodesAccess.ts says of the nodes a batch did not return that they are "not
\* existing on the API anymore", and removes them from the cache.
MissingIsGone == filtered = {}

\* The cache is not behind what the client was told: by handled events and by the
\* answers to its own operations, deletions included.
CacheIsCurrent == NodesTypeOK /\ FreshKnowsHandled /\ GoneIsForgotten
================================================================================
