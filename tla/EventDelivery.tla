---------------------------- MODULE EventDelivery ----------------------------
(***************************************************************************)
(* What the drive event feed promises its host: at-least-once, in-order    *)
(* delivery of a volume's events, relative to the last full resync.        *)
(* Events are numbered by their place in the volume's log.                 *)
(***************************************************************************)
EXTENDS Integers

VARIABLES
    head,        \* newest event of the log
    visible,     \* the events of the log that concern a node
    delivered,   \* the events the listener has been given
    base,        \* the event up to which the host has resynced
    resume       \* where the feed goes on from (-1: from the newest event)

vars == <<head, visible, delivered, base, resume>>

Known(e) == e <= base \/ e \in delivered

\* The host knows everything up to event n.
Covered(n) == \A e \in visible : e <= n => Known(e)

Init ==
    /\ head = 0
    /\ visible = {}
    /\ delivered = {}
    /\ base = 0
    /\ resume = -1

\* The server appends an event, one about a node or one that is not.
Publish ==
    /\ head' = head + 1
    /\ visible' \in {visible, visible \cup {head + 1}}
    /\ UNCHANGED <<delivered, base, resume>>

\* The listener gets an event, possibly once more, when it knows all earlier ones.
Deliver ==
    /\ \E e \in visible :
        /\ \A f \in visible : f < e => Known(f)
        /\ delivered' = delivered \cup {e}
    /\ UNCHANGED <<head, visible, base, resume>>

\* The host is told to reload the tree, or starts from a fresh listing.
Resync ==
    /\ base' = head
    /\ resume' \in {resume, head}
    /\ UNCHANGED <<head, visible, delivered>>

\* The point to go on from moves, forwards or (after a crash) backwards, but
\* never past an event the host does not know.
Move ==
    /\ resume' \in -1..head
    /\ Covered(resume')
    /\ UNCHANGED <<head, visible, delivered, base>>

Next == Publish \/ Deliver \/ Resync \/ Move

Spec == Init /\ [][Next]_vars
=============================================================================
