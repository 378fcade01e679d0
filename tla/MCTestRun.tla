------------------------------ MODULE MCTestRun ------------------------------
(* Small instances of TestRun: terminals and run ids are model values that    *)
(* nothing tells apart.                                                       *)
EXTENDS TestRun, TLC

MCSymmetry == Permutations(Clis) \cup Permutations(Runs)
=============================================================================
