------------------------------- MODULE MCLio -------------------------------
(* Stamps up to a small bound, for TLC. *)
EXTENDS ImuProps
=============================================================================
