--------------------------- MODULE LaserMapping ---------------------------
(***************************************************************************)
(* What FAST-LIO does with one scan and its IMU samples once they are      *)
(* paired (laserMapping.cpp, timer_callback): move the cube the map is     *)
(* kept in, correct the predicted state against the map in an iterated     *)
(* update (esekfom.hpp, update_iterated_dyn_share_modified), and add the   *)
(* points of the scan to the map.                                          *)
(*                                                                         *)
(* Positions are integer vectors.  Where the robot is and which landmarks  *)
(* a scan sees is the world's choice; whether an update step is small, and *)
(* which points find a plane in the map, is a choice, too, since it hangs  *)
(* on numbers the properties do not tell apart.                            *)
(***************************************************************************)
EXTENDS Integers, FiniteSets

CONSTANTS Axes,               \* 3 in the code
          Landmarks,          \* the points of the world
          Home, Region,       \* where the robot starts, and where it can be
          DET_RANGE,          \* mapping.det_range
          cube_len,           \* cube_side_length
          Voxel(_), FromCentre(_),   \* downsampling: a point's cell, its distance to the centre
          FewPoints,          \* 5: with fewer points a scan is skipped
          maximum_iter,       \* max_iteration
          None

ASSUME MappingAssumption ==
    /\ DET_RANGE \in Nat /\ cube_len \in Nat /\ cube_len > 0
    /\ FewPoints \in Nat \ {0}
    /\ maximum_iter \in Nat \ {0}
    /\ Landmarks \subseteq [Axes -> Int]
    /\ Region \subseteq [Axes -> Int] /\ Home \in Region
    /\ IsFiniteSet(Landmarks)
    /\ None \notin [Axes -> [min : Int, max : Int]]
    /\ \A p, q \in Landmarks :
          Voxel(p) = Voxel(q) /\ FromCentre(p) = FromCentre(q) => p = q

VARIABLES flg_first_scan, flg_EKF_inited,
          Localmap,           \* LocalMap_Points: the cube, or None
          tree,               \* Root_Node is not null
          map,                \* the points in the tree
          pos_lid,
          stage,              \* "idle", "update" or "increment"
          feats,              \* feats_down_size
          i, t, converge, valid, selected,      \* of the iterated update
          corrected,          \* x_ is no longer the predicted state
          covariance,         \* P_: "propagated" or "updated"
          searches            \* history: searches of the neighbours in this scan

scan_vars == <<flg_first_scan, flg_EKF_inited, Localmap, tree, map>>
update_vars == <<i, t, converge, valid, selected, corrected, covariance, searches>>
vars == <<scan_vars, pos_lid, stage, feats, update_vars>>

-----------------------------------------------------------------------------
(* lasermap_fov_segment. *)
(* Mutant: the margin is the range itself. *)
MarginOneRange == DET_RANGE

Margin == (3 * DET_RANGE) \div 2
Larger(a, b) == IF a >= b THEN a ELSE b
mov_dist == Larger(((cube_len - 2 * Margin) * 9) \div 20, DET_RANGE \div 2)

CubeAround(p) == [a \in Axes |-> [min |-> p[a] - cube_len \div 2,
                                  max |-> p[a] - cube_len \div 2 + cube_len]]

(* Which way the cube moves along an axis: to the side whose edge is near. *)
Shift(cube, p, a) == IF p[a] - cube[a].min \in -Margin..Margin THEN -mov_dist
                     ELSE IF p[a] - cube[a].max \in -Margin..Margin THEN mov_dist
                     ELSE 0

Moved(cube, p) == [a \in Axes |-> [min |-> cube[a].min + Shift(cube, p, a),
                                   max |-> cube[a].max + Shift(cube, p, a)]]

(* Mutant: the strip at the far edge is kept and the near one cut off. *)
StripNear(cube, p, a) ==
    [cube EXCEPT ![a] = IF Shift(cube, p, a) > 0
                        THEN [min |-> @.max - mov_dist, max |-> @.max]
                        ELSE [min |-> @.min, max |-> @.min + mov_dist]]

(* The part of the old cube that is given up along an axis: cub_needrm.    *)
Strip(cube, p, a) ==
    [cube EXCEPT ![a] = IF Shift(cube, p, a) < 0
                        THEN [min |-> @.max - mov_dist, max |-> @.max]
                        ELSE [min |-> @.min, max |-> @.min + mov_dist]]

In(q, box) == \A a \in Axes : box[a].min <= q[a] /\ q[a] < box[a].max

Removed(cube, p) == {q \in Landmarks : \E a \in Axes : /\ Shift(cube, p, a) # 0
                                                       /\ In(q, Strip(cube, p, a))}

lasermap_fov_segment(p) ==
    Localmap' = IF Localmap = None THEN CubeAround(p) ELSE Moved(Localmap, p)

(* What is left of the map: the first call only places the cube.           *)
Kept(p) == IF Localmap = None THEN map ELSE map \ Removed(Localmap, p)

-----------------------------------------------------------------------------
(* How far the robot gets, and its estimate is off, from one scan to the   *)
(* next: half the range of the lidar.                                      *)
CloseTo(p, q) == \A a \in Axes : p[a] - q[a] \in -(DET_RANGE \div 2)..(DET_RANGE \div 2)
InRange(p, q) == \A a \in Axes : q[a] - p[a] \in -DET_RANGE..DET_RANGE
Scan(p, n) == {S \in SUBSET {q \in Landmarks : InRange(p, q)} : Cardinality(S) <= n}

FirstScan ==
    /\ flg_first_scan
    /\ flg_first_scan' = FALSE
    /\ UNCHANGED <<flg_EKF_inited, Localmap, tree, map, pos_lid, stage, feats, update_vars>>

(* A scan with points, and the position the IMU predicts for it (Process). *)
Predict(p) ==
    /\ stage = "idle" /\ ~flg_first_scan
    /\ CloseTo(p, pos_lid)
    /\ pos_lid' = p
    /\ \E inited \in BOOLEAN : flg_EKF_inited' = (flg_EKF_inited \/ inited)
    /\ lasermap_fov_segment(p)
    /\ UNCHANGED flg_first_scan

(* Without a tree, a scan that has enough points becomes the map. *)
BuildTree(p, n) ==
    /\ Predict(p)
    /\ ~tree
    /\ IF n > FewPoints THEN tree' = TRUE /\ map' \in Scan(p, n)
                        ELSE UNCHANGED <<tree, map>>
    /\ UNCHANGED <<stage, feats, update_vars>>

SkipScan(p, n) ==
    /\ Predict(p)
    /\ tree /\ n < FewPoints
    /\ map' = Kept(p)
    /\ UNCHANGED <<tree, stage, feats, update_vars>>

StartUpdate(p, n) ==
    /\ Predict(p)
    /\ tree /\ n >= FewPoints
    /\ map' = Kept(p)
    /\ stage' = "update" /\ feats' = n
    /\ UNCHANGED <<tree, update_vars>>

-----------------------------------------------------------------------------
(***************************************************************************)
(* One iteration of the update.  The measurement (h_share_model) looks for *)
(* neighbours only while converge is set, and otherwise drops points of    *)
(* the last selection; from the state that gave no point it gives none     *)
(* again.  Without points the iteration changes nothing but its number.    *)
(***************************************************************************)
Measurements ==
    {S \in SUBSET (IF converge THEN 1..feats ELSE selected) : ~valid => S = {}}

(* Mutant: no last chance. *)
NoLastChance(steps) == FALSE

(* Not one small step so far: look for the neighbours again, in time for   *)
(* the last iteration.                                                     *)
LastChance(steps) == steps = 0 /\ i = maximum_iter - 2

Finished(steps) == steps > 1 \/ i = maximum_iter - 1

Measure ==
    /\ searches' = IF converge THEN searches + 1 ELSE searches
    /\ selected' \in Measurements
    /\ valid' = (selected' # {})

(* The gain and the step along it; whether it is a little one in every     *)
(* direction hangs on numbers.                                             *)
Move ==
    \E small \in BOOLEAN : /\ t' = IF small THEN t + 1 ELSE t
                           /\ converge' = (small \/ LastChance(t'))

(* From the state of the iteration, always with the propagated covariance. *)
Correct == Move /\ corrected' = TRUE

Conclude ==
    IF Finished(t') THEN covariance' = "updated" /\ stage' = "increment"
                    ELSE UNCHANGED <<covariance, stage>>

NoPoints ==
    /\ stage' = IF i = maximum_iter - 1 THEN "increment" ELSE stage
    /\ UNCHANGED <<t, converge, corrected, covariance>>

Iterate ==
    /\ stage = "update"
    /\ Measure
    /\ IF valid' THEN Correct /\ Conclude ELSE NoPoints
    /\ i' = i + 1
    /\ UNCHANGED <<scan_vars, pos_lid, feats>>

(* All of this lives for one update, except for the selection, which the   *)
(* first search writes before anything reads it.                           *)
EndUpdate ==
    /\ i' = -1 /\ t' = 0 /\ converge' = TRUE /\ valid' = TRUE /\ selected' = {}
    /\ corrected' = FALSE /\ covariance' = "propagated" /\ searches' = 0

-----------------------------------------------------------------------------
(***************************************************************************)
(* map_incremental.  Each point of the scan is dropped, added as it is, or *)
(* added to its voxel, where only the point nearest to the centre stays;   *)
(* in the first moments, and while it has no neighbours, always the last.  *)
(***************************************************************************)
Downsampled(S) ==
    {q \in S : \A r \in S : Voxel(r) = Voxel(q) => FromCentre(q) <= FromCentre(r)}

AddPoints(S) ==
    LET there(q) == \E s \in S : Voxel(s) = Voxel(q)
    IN {q \in map : ~there(q)} \cup Downsampled({q \in map : there(q)} \cup S)

map_incremental(p) ==
    /\ stage = "increment"
    /\ CloseTo(p, pos_lid) /\ (corrected \/ p = pos_lid)
    /\ pos_lid' = p
    /\ \E S \in Scan(p, feats) : \E raw, add \in SUBSET S :
          /\ raw \cap add = {}
          /\ ~flg_EKF_inited \/ map = {} => add = S
          /\ map' = AddPoints(add) \cup raw
    /\ stage' = "idle" /\ feats' = 0
    /\ EndUpdate
    /\ UNCHANGED <<flg_first_scan, flg_EKF_inited, Localmap, tree>>

Init ==
    /\ flg_first_scan = TRUE /\ flg_EKF_inited = FALSE
    /\ Localmap = None /\ tree = FALSE /\ map = {}
    /\ pos_lid = Home /\ stage = "idle" /\ feats = 0
    /\ i = -1 /\ t = 0 /\ converge = TRUE /\ valid = TRUE /\ selected = {}
    /\ corrected = FALSE /\ covariance = "propagated" /\ searches = 0

Next ==
    \/ FirstScan
    \/ \E p \in Region, n \in 1..FewPoints+1 :
          BuildTree(p, n) \/ SkipScan(p, n) \/ StartUpdate(p, n)
    \/ Iterate
    \/ \E p \in Region : map_incremental(p)

Spec == Init /\ [][Next]_vars
=============================================================================
