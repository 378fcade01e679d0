---------------------------- MODULE MCModuleIndex ----------------------------
(* A small instance of ModuleIndex for TLC: one extension, an object module *)
(* with a form.                                                             *)
EXTENDS ModuleIndex, TLC

CONSTANTS e1, object, form, p1, p2

MCExtensions == {e1}
MCSlots == {object, form}
MCKind == (object :> "owned") @@ (form :> "form")
MCOwner == (object :> object) @@ (form :> object)
MCDebuggers == {p1, p2}
ProcSymmetry == Permutations(MCDebuggers)
=============================================================================
