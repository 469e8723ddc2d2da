------------------------------- MODULE MCTask -------------------------------
(* Instances of Task for TLC. *)
EXTENDS Task
=============================================================================
