---------------------------- MODULE MCWorkspace ----------------------------
(* A small instance of Workspace for TLC. *)
EXTENDS Workspace, TLC

CONSTANTS p1, p2, a, b, main, e1

MCProcs == {p1, p2}
MCIds == {main, a, b}
MCExts == {e1}
ProcSymmetry == Permutations(MCProcs)
=============================================================================
