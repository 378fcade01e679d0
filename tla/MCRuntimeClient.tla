--------------------------- MODULE MCRuntimeClient ---------------------------
(* Small instances of RuntimeClient: terminals and pids are model values that *)
(* nothing tells apart.                                                       *)
EXTENDS RuntimeClient, TLC

MCSymmetry == Permutations(Clis) \cup Permutations(Procs)
=============================================================================
