------------------------------ MODULE MCPatrol ------------------------------
(* Small instances of PatrolManager for TLC. *)
EXTENDS PatrolProps

CONSTANTS p1, p2

OnePoint  == {<<p1>>, <<p2>>}
TwoPoints == {<<p1, p2>>}
AnyMission == OnePoint \cup TwoPoints
=============================================================================
