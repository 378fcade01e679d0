---------------------------- MODULE MCPublication ----------------------------
(* A small instance of Publication for TLC. *)
EXTENDS Publication, TLC

CONSTANTS p1, p2, home, home2, s1, s2

MCProcs == {p1, p2}
MCRuntimes == {home, home2}
MCPids == {s1, s2}
\* .1c-dev/runtime/home is a prefix of .1c-dev/runtime/home2.
MCLonger == {<<home, home2>>}
MCDefaultPort == [b \in Backends |-> IF b = "ibsrv" THEN 8314 ELSE 8315]
ProcSymmetry == Permutations(MCProcs) \cup Permutations(MCPids)
=============================================================================
