--------------------------- MODULE MCRuntimeLock ---------------------------
(* Three startups and two clear-stale invocations on a machine of three pids,  *)
(* so that pids are reused while their old owner's lock file still exists.    *)
EXTENDS RuntimeLock, TLC

CONSTANTS d1, d2, d3, o1, o2, p1, p2, p3

MCDaemon == {d1, d2, d3}
MCOperator == {o1, o2}
MCPid == {p1, p2, p3}

\* Processes of a role, and pids, are interchangeable.
Symmetry == Permutations(MCDaemon) \cup Permutations(MCOperator) \cup Permutations(MCPid)
=============================================================================
