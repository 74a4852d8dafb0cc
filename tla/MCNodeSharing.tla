---------------------------- MODULE MCNodeSharing ----------------------------
EXTENDS NodeSharing

U(a, b) == [u \in People |-> IF u = "a" THEN a ELSE b]
Request(op, users, link, editors) == [op |-> op, users |-> users, link |-> link, editors |-> editors]

\* Access is taken from one of two people, or the public link is removed.
MCRequested ==
    {Request("unshare", U("viewer", "no"), "no", "no"),
     Request("unshare", U("no", "no"), "remove", "no")}
=============================================================================
