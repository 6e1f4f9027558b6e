---- MODULE MCReloader ----
EXTENDS Reloader
CONSTANTS p1, p2
\* p1 may be listed by two subsets of the endpoints, p2 by one.
MCPods == {p1, p2}
MCMaxSubsets == [p \in MCPods |-> IF p = p1 THEN 2 ELSE 1]
====
