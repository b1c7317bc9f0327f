----------------------------- MODULE MCChatSession -----------------------------
(* The instance of ChatSession for TLC: its .cfg gives the bounds. *)
EXTENDS ChatSession
=============================================================================
