----------------------------- MODULE MCSkillSync -----------------------------
(* Small instances of SkillSync for TLC. *)
EXTENDS SkillSync
=============================================================================
