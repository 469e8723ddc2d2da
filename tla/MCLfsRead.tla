----------------------------- MODULE MCLfsRead -----------------------------
(* An instance of LfsRead for TLC with a line that is longer than half of    *)
(* DATA_SIZE: ShortLines does not hold.                                      *)
EXTENDS LfsRead

LongWrites == {[len |-> len, match |-> TRUE, gap |-> 2] : len \in {1, 5}}

=============================================================================
