------------------------------ MODULE MCFront ------------------------------
(* A lidar of the user's file and one that is not in it, for TLC. *)
EXTENDS FrontProps

CONSTANTS l1, l2

TwoLidars == {l1, l2}
OneConfigured == [l \in {l1} |-> {1, 2}]
=============================================================================
