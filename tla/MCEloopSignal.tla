--------------------------- MODULE MCEloopSignal ---------------------------
(* Instances of EloopSignal for TLC. *)
EXTENDS EloopSignal
=============================================================================
