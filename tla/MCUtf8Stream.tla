----------------------------- MODULE MCUtf8Stream -----------------------------
(* Small instances of Utf8Stream for TLC. *)
EXTENDS Utf8Stream
=============================================================================
