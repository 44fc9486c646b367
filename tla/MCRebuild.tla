----------------------------- MODULE MCRebuild -----------------------------
(* A small instance of IkdRebuild for TLC. *)
EXTENDS RebuildProps

CONSTANTS a, b

SomeBoxes == {{a}}
=============================================================================
