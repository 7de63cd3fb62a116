------------------------------- MODULE MCBots -------------------------------
(* Instances of TaskBots for TLC. *)
EXTENDS TaskBots
=============================================================================
