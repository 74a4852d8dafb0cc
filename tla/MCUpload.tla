------------------------------ MODULE MCUpload ------------------------------
(* Small instances of Upload for TLC: blocks of two units, files of at most *)
(* four.                                                                    *)
EXTENDS Upload, TLC

CONSTANTS n1, u1, u2

\* Every upload is of the one file.
OneName == [u \in Uploads |-> n1]

\* Versions are numbers.  1 to 6: empty, shorter than a block, one block, one
\* and a half, two blocks, too long; 7 has the length of 4.
LengthOf == [v \in Versions |-> IF v = 7 THEN 3 ELSE v - 1]

SameUploads == Permutations({u1, u2})
=============================================================================
