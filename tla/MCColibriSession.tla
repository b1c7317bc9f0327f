--------------------------- MODULE MCColibriSession ---------------------------
(* Small instances of ColibriSession for TLC. *)
EXTENDS ColibriSession
=============================================================================
