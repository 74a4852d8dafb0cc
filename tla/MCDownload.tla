----------------------------- MODULE MCDownload -----------------------------
(* Small instances of Download for TLC: two downloads into one file of a    *)
(* node with a signed revision of two blocks and one without signature.    *)
EXTENDS Download

CONSTANTS d1, d2, p1

OneDest == [d \in Downloads |-> p1]
BlockCount == [r \in Revisions |-> 3 - r]
HasSignature == [r \in Revisions |-> r = 1]
=============================================================================
