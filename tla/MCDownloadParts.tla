-------------------------- MODULE MCDownloadParts --------------------------
EXTENDS DownloadParts

CONSTANTS n1, n2, n3, n4

\* Three blocks on two pages, signed well or not; an empty revision and revisions
\* with a gap; the other ways to download.
MCCases ==
    {[mode |-> "safe", blocks |-> 1..3, thumbnail |-> TRUE, signature |-> s] :
         s \in {"good", "bad", "missing"}}
    \cup {[mode |-> "safe", blocks |-> bs, thumbnail |-> FALSE, signature |-> "good"] :
         bs \in {{}, {2, 3}, {1, 3}}}
    \cup {[mode |-> m, blocks |-> 1..2, thumbnail |-> FALSE, signature |-> "good"] :
         m \in {"unsafe", "ignoreManifest"}}

MCFiles == {[claimed |-> s, real |-> s] : s \in {<<2, 1, 2>>, <<>>}}

MCRequests ==
    {[n \in Nodes |-> IF n = n1 THEN "none" ELSE "thumbnail"],
     [n \in Nodes |-> IF n = n1 THEN "missing" ELSE IF n = n2 THEN "none" ELSE "thumbnail"]}

MCKinds ==
    {[d \in Downloads |-> IF d = 1 THEN "revision" ELSE "file"],
     [d \in Downloads |-> IF d = 1 THEN "seekable" ELSE "file"]}
=============================================================================
