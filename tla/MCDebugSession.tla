---------------------------- MODULE MCDebugSession ----------------------------
(***************************************************************************)
(* Small instances of DebugSession for TLC: the terminals, daemons and      *)
(* targets are model values, the session ids s1 and s2 come in this order.  *)
(***************************************************************************)
EXTENDS DebugSession

CONSTANTS s1, s2

MCSids == <<s1, s2>>
MCOneSid == <<s1>>
=============================================================================
