----------------------------- MODULE MCRustParts -----------------------------
(* Two events; two uploads of one file of three units, in blocks of two.   *)
EXTENDS RustParts

CONSTANTS n1, u1, u2

OneName == [u \in Uploads |-> n1]
LengthOf == [v \in Versions |-> 3]
=============================================================================
