---------------------------- MODULE MCKillSwitch ----------------------------
(* Model values for TLC: three guard processes, two configurations. *)
EXTENDS KillSwitch
=============================================================================
