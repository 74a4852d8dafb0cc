------------------------------ MODULE MCSession ------------------------------
(* A small instance of Session for TLC: one manager, one request and one   *)
(* session (SessionProofs has no such bounds).                             *)
EXTENDS Session

CONSTANTS m1, r1, u1

\* Every request goes through the client of m1.
AllOfM1 == [r \in Requests |-> m1]
=============================================================================
