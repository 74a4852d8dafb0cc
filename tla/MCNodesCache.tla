---- MODULE MCNodesCache ----
EXTENDS NodesCache

\* A folder in a folder, with a file in it.
Chain == {[n \in Nodes |-> IF n = "f" THEN Root ELSE IF n = "g" THEN "f" ELSE "g"]}
====
