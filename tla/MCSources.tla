---------------------------- MODULE MCSources ----------------------------
(* A small instance of Sources for TLC. *)
EXTENDS Sources, TLC

CONSTANTS p1, p2, plain, late

MCProcs == {p1, p2}
MCObjects == {plain, late}
MCLate == {late}
MCCf == [o \in MCObjects |-> IF o = plain THEN 3 ELSE 0]
MCCfe == [t \in Trees |-> [o \in MCObjects |-> IF o = late THEN t ELSE 0]]
ProcSymmetry == Permutations(MCProcs)
=============================================================================
