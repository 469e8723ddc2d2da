--------------------------- MODULE MCEloopTimeout ---------------------------
(* Instances of EloopTimeout for TLC. *)
EXTENDS EloopTimeout

CONSTANTS c1, c2

\* With two microseconds to the second: no delay, and one that always carries.
DelaySmall == {<<0, 0>>, <<0, 2>>}

\* Timeouts that have one argument or both in common.
DataSmall == {<<c1, c2>>, <<c2, c2>>}

=============================================================================
