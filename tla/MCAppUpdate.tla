----------------------------- MODULE MCAppUpdate -----------------------------
(* Small instances of AppUpdate for TLC. *)
EXTENDS AppUpdate
=============================================================================
