--------------------------- MODULE MappingProps ---------------------------
(* What FAST-LIO's mapping has to get right. *)
EXTENDS LaserMapping

(* The variables hold values of their kinds; an update makes at most one   *)
(* search per iteration.                                                   *)
TypeOK ==
    /\ flg_first_scan \in BOOLEAN /\ flg_EKF_inited \in BOOLEAN
    /\ Localmap = None \/ Localmap \in [Axes -> [min : Int, max : Int]]
    /\ tree \in BOOLEAN /\ map \subseteq Landmarks
    /\ pos_lid \in Region
    /\ stage \in {"idle", "update", "increment"}
    /\ feats \in 0..FewPoints+1
    /\ i \in -1..maximum_iter /\ t \in 0..maximum_iter+1
    /\ converge \in BOOLEAN /\ valid \in BOOLEAN /\ corrected \in BOOLEAN
    /\ covariance \in {"propagated", "updated"}
    /\ searches \in 0..maximum_iter+1

(***************************************************************************)
(* Moving the cube never takes away a point the lidar could still see from *)
(* where the robot is: whatever lasermap_fov_segment removes is farther    *)
(* than DET_RANGE from the position it was called with.                    *)
(***************************************************************************)
InRangeKept ==
    [][stage = "idle" => {q \in map : InRange(pos_lid', q)} \subseteq map']_vars

(***************************************************************************)
(* Every point of the map lies in the cube, so that the strips that are    *)
(* cut off as the cube moves leave nothing behind and the map stays        *)
(* bounded, however the robot wanders.                                     *)
(***************************************************************************)
MapInCube == \A q \in map : Localmap # None /\ In(q, Localmap)

(***************************************************************************)
(* When the cube is large enough for the range of the lidar: a move is no  *)
(* shorter than the range, and leaves a margin at both sides.  InRangeKept *)
(* and MapInCube rest on it; config/avia.yaml does not meet it.            *)
(***************************************************************************)
CubeFits == DET_RANGE <= mov_dist /\ mov_dist + 2 * Margin < cube_len

(***************************************************************************)
(* When the update takes over a covariance, the neighbours it rests on     *)
(* have been looked for once more after the prediction: the search was     *)
(* repeated from a corrected state, after the first small step or, without *)
(* one, in the last iteration.                                             *)
(***************************************************************************)
RematchedBeforeUse == covariance = "updated" => searches >= 2

=============================================================================
