----------------------------- MODULE MCDebugServer -----------------------------
(* Two terminals and three dbgs processes for DebugServer.                   *)
EXTENDS DebugServer
=============================================================================
