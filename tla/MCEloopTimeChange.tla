------------------------- MODULE MCEloopTimeChange -------------------------
(* An instance of EloopTimeChange for TLC: a 64-bit system. *)
EXTENDS EloopTimeChange

\* With four microseconds to the second: a quarter, one, and three seconds.
Delays == {<<0, 1>>, <<1, 0>>, <<3, 0>>}

NoChange == {}
=============================================================================
