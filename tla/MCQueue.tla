------------------------------ MODULE MCQueue ------------------------------
(* Three packets, a ring of four slots, indices of three bits. *)
EXTENDS QueueProps

CONSTANTS x, y, z
=============================================================================
