--------------------------- MODULE MCIdeConfig ---------------------------
(* A small instance of IdeConfig, with Toolchain in it, for TLC. *)
EXTENDS IdeConfig

CONSTANTS p1, p2, built, download, home, cursor

MCProcs == {p1, p2}
MCComponents == <<built, download, home>>
MCVerified == {download}
MCHomes == {home}
MCMust == {built}
MCIdes == {cursor}
ProcSymmetry == Permutations(MCProcs)
=============================================================================
