---------------------------- MODULE MCEloopSock ----------------------------
(* Instances of EloopSock for TLC: the larger socket is written, too. *)
EXTENDS EloopSock

UsedSmall == {<<1, "read">>, <<2, "read">>, <<2, "write">>}
=============================================================================
