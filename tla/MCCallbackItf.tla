--------------------------- MODULE MCCallbackItf ---------------------------
(* Instances of CallbackItf for TLC. *)
EXTENDS CallbackItf, TLC

=============================================================================
