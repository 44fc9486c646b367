--------------------------- MODULE MCDistribution ---------------------------
(* Two lidars with queues of two frames, for TLC. *)
EXTENDS DistributionProps
=============================================================================
