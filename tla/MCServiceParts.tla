--------------------------- MODULE MCServiceParts ---------------------------
EXTENDS ServiceParts

\* The parent is asked for with its children, or is not in the batch.
MCBatches == {{"c", "d", "p"}, {"c", "d"}}

\* The role asked for a, who has an account, and b, who has none at the beginning.
U(a, b) == [u \in People |-> IF u = "a" THEN a ELSE b]
Request(op, users, link, editors) == [op |-> op, users |-> users, link |-> link, editors |-> editors]

MCRequested ==
    {Request("share", U("editor", "no"), "no", "yes"),
     Request("share", U("viewer", "editor"), "viewer", "no"),
     Request("share", U("no", "no"), "admin", "no"),
     Request("unshare", U("viewer", "no"), "no", "no"),
     Request("unshare", U("no", "viewer"), "remove", "no"),
     Request("unshareAll", U("no", "no"), "no", "no"),
     Request("convert", U("no", "viewer"), "no", "no"),
     Request("resend", U("no", "viewer"), "no", "no")}
=============================================================================
