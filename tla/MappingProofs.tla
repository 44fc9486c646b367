--------------------------- MODULE MappingProofs ---------------------------
(* Proofs about FAST-LIO's mapping, for every world and range of a lidar,  *)
(* and about the rebuild of a subtree of its map beside the odometry, for  *)
(* every set of points and searches and any number of updates.  The two    *)
(* are proved apart: they share no variable.                               *)
EXTENDS MappingProps, RebuildProps, FiniteSetTheorems, SequenceTheorems, TLAPS

(* How often the neighbours have been searched, iteration by iteration.    *)
UpdateInv ==
    /\ stage = "idle" => /\ i = -1 /\ t = 0 /\ converge
                         /\ searches = 0 /\ valid /\ covariance = "propagated"
    /\ stage = "update" =>
         /\ i \in -1..maximum_iter-1 /\ covariance = "propagated"
         /\ t \in Nat /\ t <= i + 1 /\ searches \in Nat /\ searches <= i + 1
         /\ i = -1 => converge
         /\ i >= 0 => searches >= 1
         /\ t >= 1 /\ searches < 2 => converge
         /\ t = 0 /\ i = maximum_iter - 1 /\ valid /\ searches < 2 => converge
    /\ stage = "increment" =>
         /\ t \in Nat /\ t <= maximum_iter + 1
         /\ searches \in Nat /\ searches <= maximum_iter + 1
         /\ i \in -1..maximum_iter
    /\ RematchedBeforeUse

(* The cube has its side, and is there with the first tree. *)
CubeInv ==
    /\ Localmap # None => \A a \in Axes : Localmap[a].max - Localmap[a].min = cube_len
    /\ ~tree => map = {}
    /\ stage # "idle" => tree
    /\ tree => Localmap # None

-----------------------------------------------------------------------------
(* The variables keep their kinds, and the update its count of searches.   *)
THEOREM TypeCorrect == Spec => [](TypeOK /\ UpdateInv)
<1>. USE MappingAssumption DEF MappingAssumption
<1>1. Init => TypeOK /\ UpdateInv
  <2>1. Init => TypeOK
    <3>. SUFFICES ASSUME Init PROVE TypeOK
      OBVIOUS
    <3>1. /\ flg_first_scan \in BOOLEAN /\ flg_EKF_inited \in BOOLEAN /\ tree \in BOOLEAN
          /\ converge \in BOOLEAN /\ valid \in BOOLEAN /\ corrected \in BOOLEAN
      BY Zenon DEF Init
    <3>2. /\ feats \in 0..FewPoints+1 /\ i \in -1..maximum_iter
          /\ t \in 0..maximum_iter+1 /\ searches \in 0..maximum_iter+1
      BY DEF Init
    <3>. QED  BY <3>1, <3>2 DEF Init, TypeOK
  <2>2. Init => UpdateInv
    BY DEF Init, UpdateInv, RematchedBeforeUse
  <2>. QED  BY <2>1, <2>2
<1>2. TypeOK /\ UpdateInv /\ [Next]_vars => TypeOK' /\ UpdateInv'
  <2>. SUFFICES ASSUME TypeOK, UpdateInv, [Next]_vars PROVE TypeOK' /\ UpdateInv'
    OBVIOUS
  <2>1. CASE FirstScan
    BY <2>1 DEF FirstScan, update_vars, TypeOK, UpdateInv, RematchedBeforeUse
  <2>2. CASE \E p \in Region, n \in 1..FewPoints+1 :
                BuildTree(p, n) \/ SkipScan(p, n) \/ StartUpdate(p, n)
    <3>. PICK p \in Region, n \in 1..FewPoints+1 :
             BuildTree(p, n) \/ SkipScan(p, n) \/ StartUpdate(p, n)
      BY <2>2
    <3>1. Predict(p) /\ UNCHANGED update_vars
      BY DEF BuildTree, SkipScan, StartUpdate
    <3>2. map' \subseteq Landmarks /\ tree' \in BOOLEAN
      BY DEF BuildTree, SkipScan, StartUpdate, TypeOK, Kept, Scan
    <3>3. /\ stage' \in {"idle", "update"}
          /\ feats' \in 0..FewPoints+1
      BY DEF BuildTree, SkipScan, StartUpdate, Predict, TypeOK
    <3>4. Localmap' = None \/ Localmap' \in [Axes -> [min : Int, max : Int]]
      <4>1. p \in [Axes -> Int] /\ cube_len \div 2 \in Int
        OBVIOUS
      <4>2. CubeAround(p) \in [Axes -> [min : Int, max : Int]]
        BY <4>1 DEF CubeAround
      <4>3. ASSUME Localmap # None PROVE Moved(Localmap, p) \in [Axes -> [min : Int, max : Int]]
        <5>1. mov_dist \in Int
          BY DEF mov_dist, Larger, Margin
        <5>2. \A a \in Axes : Shift(Localmap, p, a) \in Int
          BY <5>1 DEF Shift
        <5>. QED  BY <4>3, <5>2 DEF Moved, TypeOK
      <4>. QED  BY <3>1, <4>2, <4>3 DEF Predict, lasermap_fov_segment
    <3>5. stage = "idle" /\ flg_first_scan' = flg_first_scan /\ flg_EKF_inited' \in BOOLEAN /\ pos_lid' = p
      BY <3>1 DEF Predict, TypeOK
    <3>6. TypeOK'
      BY <3>1, <3>2, <3>3, <3>4, <3>5 DEF TypeOK, update_vars
    <3>7. UpdateInv'
      BY <3>1, <3>3, <3>5 DEF UpdateInv, update_vars, RematchedBeforeUse, TypeOK
    <3>. QED  BY <3>6, <3>7
  <2>3. CASE Iterate
    <3>. USE <2>3
    <3>1. stage = "update" /\ i' = i + 1 /\ UNCHANGED <<scan_vars, pos_lid, feats>>
      BY DEF Iterate
    <3>2. /\ searches' = IF converge THEN searches + 1 ELSE searches
          /\ valid' \in BOOLEAN
          /\ ~valid => ~valid'
      BY DEF Iterate, Measure, Measurements
    <3>3. CASE valid'
      <4>. PICK small \in BOOLEAN : /\ t' = IF small THEN t + 1 ELSE t
                                    /\ converge' = (small \/ LastChance(t'))
        BY <3>3 DEF Iterate, Correct, Move
      <4>1. /\ corrected' = TRUE
            /\ IF Finished(t') THEN covariance' = "updated" /\ stage' = "increment"
                               ELSE UNCHANGED <<covariance, stage>>
        BY <3>3 DEF Iterate, Correct, Move, Conclude
      <4>2. converge' \in BOOLEAN
        BY DEF LastChance
      <4>3. TypeOK'
        BY <3>1, <3>2, <4>1, <4>2 DEF TypeOK, scan_vars, UpdateInv, Finished
      <4>4. UpdateInv'
        <5>1. t' >= 1 /\ searches' < 2 => converge'
          BY <3>1, <3>2 DEF UpdateInv, TypeOK
        <5>2. t' = 0 /\ i' = maximum_iter - 1 /\ valid' /\ searches' < 2 => converge'
          BY <3>1, <3>2 DEF UpdateInv, TypeOK, LastChance
        <5>3. Finished(t') => searches' >= 2
          BY <3>1, <3>2, <3>3 DEF UpdateInv, TypeOK, Finished
        <5>. QED  BY <3>1, <3>2, <4>1, <5>1, <5>2, <5>3
                  DEF UpdateInv, TypeOK, Finished, RematchedBeforeUse
      <4>. QED  BY <4>3, <4>4
    <3>4. CASE ~valid'
      <4>1. NoPoints
        BY <3>4 DEF Iterate
      <4>2. TypeOK'
        BY <3>1, <3>2, <4>1 DEF TypeOK, scan_vars, UpdateInv, NoPoints
      <4>3. UpdateInv'
        BY <3>1, <3>2, <3>4, <4>1 DEF UpdateInv, TypeOK, NoPoints, RematchedBeforeUse
      <4>. QED  BY <4>2, <4>3
    <3>. QED  BY <3>2, <3>3, <3>4
  <2>4. CASE \E p \in Region : map_incremental(p)
    <3>. PICK p \in Region : map_incremental(p)
      BY <2>4
    <3>1. map' \subseteq Landmarks
      BY DEF map_incremental, AddPoints, Downsampled, Scan, TypeOK
    <3>2. TypeOK'
      <4>1. /\ flg_first_scan' \in BOOLEAN /\ flg_EKF_inited' \in BOOLEAN /\ tree' \in BOOLEAN
            /\ converge' \in BOOLEAN /\ valid' \in BOOLEAN /\ corrected' \in BOOLEAN
        BY Zenon DEF map_incremental, EndUpdate, TypeOK
      <4>2. /\ feats' \in 0..FewPoints+1 /\ i' \in -1..maximum_iter
            /\ t' \in 0..maximum_iter+1 /\ searches' \in 0..maximum_iter+1
        BY DEF map_incremental, EndUpdate
      <4>. QED  BY <3>1, <4>1, <4>2 DEF map_incremental, EndUpdate, TypeOK
    <3>3. UpdateInv'
      BY DEF map_incremental, EndUpdate, UpdateInv, RematchedBeforeUse
    <3>. QED  BY <3>2, <3>3
  <2>5. CASE UNCHANGED vars
    BY <2>5 DEF vars, scan_vars, update_vars, TypeOK, UpdateInv, RematchedBeforeUse
  <2>. QED  BY <2>1, <2>2, <2>3, <2>4, <2>5 DEF Next
<1>. QED  BY <1>1, <1>2, PTL DEF Spec

(* A covariance is taken over only after a second search of neighbours:    *)
(* update_iterated_dyn_share_modified never corrects against the matches   *)
(* of the prediction alone, however the iterations turn out.               *)
THEOREM RematchedAlways == Spec => []RematchedBeforeUse
<1>1. UpdateInv => RematchedBeforeUse
  BY DEF UpdateInv
<1>. QED  BY TypeCorrect, <1>1, PTL

-----------------------------------------------------------------------------
(* Halves, as integer division rounds them. *)
LEMMA Halves ==
    ASSUME NEW d \in Nat
    PROVE  /\ d \div 2 \in Nat /\ 2 * (d \div 2) <= d /\ d <= 2 * (d \div 2) + 1
           /\ (3 * d) \div 2 \in Nat /\ (3 * d) \div 2 = d + d \div 2
OBVIOUS

(* The numbers of the cube, under the assumption that it fits. *)
LEMMA Sizes ==
    /\ Margin \in Nat /\ Margin = DET_RANGE + DET_RANGE \div 2
    /\ mov_dist \in Int
    /\ cube_len \div 2 \in Nat /\ 2 * (cube_len \div 2) <= cube_len
    /\ cube_len <= 2 * (cube_len \div 2) + 1
    /\ DET_RANGE \div 2 \in Nat
    /\ 2 * (DET_RANGE \div 2) <= DET_RANGE /\ DET_RANGE <= 2 * (DET_RANGE \div 2) + 1
<1>1. DET_RANGE \in Nat /\ cube_len \in Nat
  BY MappingAssumption
<1>2. mov_dist \in Int
  BY <1>1 DEF mov_dist, Larger, Margin
<1>. QED  BY <1>1, <1>2, Halves DEF Margin

(* Along an axis the cube moves to the near side by mov_dist, or stays.    *)
LEMMA Shifts ==
    ASSUME NEW cube \in [Axes -> [min : Int, max : Int]], NEW p \in [Axes -> Int], NEW a \in Axes
    PROVE  /\ Shift(cube, p, a) \in Int
           /\ \/ Shift(cube, p, a) = -mov_dist /\ p[a] - cube[a].min \in -Margin..Margin
              \/ Shift(cube, p, a) = mov_dist /\ cube[a].max - p[a] \in -Margin..Margin
              \/ /\ Shift(cube, p, a) = 0
                 /\ p[a] - cube[a].min \notin -Margin..Margin
                 /\ cube[a].max - p[a] \notin -Margin..Margin
<1>1. Margin \in Nat /\ mov_dist \in Int
  BY Sizes
<1>2. p[a] \in Int /\ cube[a].min \in Int /\ cube[a].max \in Int
  OBVIOUS
<1>. QED  BY <1>1, <1>2 DEF Shift

(* What is cut off lies at the far end of the cube. *)
LEMMA Strips ==
    ASSUME NEW cube \in [Axes -> [min : Int, max : Int]], NEW p \in [Axes -> Int], NEW a \in Axes,
           NEW q \in [Axes -> Int], mov_dist > 0
    PROVE  /\ Shift(cube, p, a) < 0 =>
                (In(q, Strip(cube, p, a)) <=>
                    /\ \A b \in Axes : b # a => cube[b].min <= q[b] /\ q[b] < cube[b].max
                    /\ cube[a].max - mov_dist <= q[a] /\ q[a] < cube[a].max)
           /\ Shift(cube, p, a) > 0 =>
                (In(q, Strip(cube, p, a)) <=>
                    /\ \A b \in Axes : b # a => cube[b].min <= q[b] /\ q[b] < cube[b].max
                    /\ cube[a].min <= q[a] /\ q[a] < cube[a].min + mov_dist)
<1>1. mov_dist \in Int /\ Shift(cube, p, a) \in Int
  BY Sizes, Shifts
<1>2. CASE Shift(cube, p, a) < 0
  <2>1. Strip(cube, p, a) =
          [cube EXCEPT ![a] = [min |-> cube[a].max - mov_dist, max |-> cube[a].max]]
    BY <1>2 DEF Strip
  <2>2. /\ Strip(cube, p, a)[a].min = cube[a].max - mov_dist
        /\ Strip(cube, p, a)[a].max = cube[a].max
        /\ \A b \in Axes : b # a => Strip(cube, p, a)[b] = cube[b]
    BY <2>1
  <2>. QED  BY <1>1, <1>2, <2>2 DEF In
<1>3. CASE Shift(cube, p, a) > 0
  <2>0. ~(Shift(cube, p, a) < 0)
    BY <1>1, <1>3
  <2>1. Strip(cube, p, a) =
          [cube EXCEPT ![a] = [min |-> cube[a].min, max |-> cube[a].min + mov_dist]]
    BY <2>0 DEF Strip
  <2>2. /\ Strip(cube, p, a)[a].min = cube[a].min
        /\ Strip(cube, p, a)[a].max = cube[a].min + mov_dist
        /\ \A b \in Axes : b # a => Strip(cube, p, a)[b] = cube[b]
    BY <2>1
  <2>. QED  BY <1>1, <1>3, <2>0, <2>2 DEF In
<1>. QED  BY <1>1, <1>2, <1>3

-----------------------------------------------------------------------------
(* How far the robot is from every side of the cube: r, or more. *)
Room(cube, p, r) == \A a \in Axes : cube[a].min + r <= p[a] /\ p[a] + r < cube[a].max
Sided(cube) == \A a \in Axes : cube[a].max - cube[a].min = cube_len

(* After a scan's move the robot is a margin away from the sides; once the *)
(* update has corrected its position, still a lidar's range.               *)
PlaceInv ==
    Localmap # None => Room(Localmap, pos_lid, IF stage = "idle" THEN DET_RANGE ELSE Margin)

(* The first cube leaves a margin around the robot. *)
LEMMA PlacedCube ==
    ASSUME CubeFits, NEW p \in [Axes -> Int]
    PROVE  /\ CubeAround(p) \in [Axes -> [min : Int, max : Int]]
           /\ Sided(CubeAround(p)) /\ Room(CubeAround(p), p, Margin)
<1>1. cube_len \in Nat /\ DET_RANGE \in Nat
  BY MappingAssumption
<1>2. \A a \in Axes : p[a] \in Int
  OBVIOUS
<1>3. Margin <= cube_len \div 2 /\ Margin < cube_len - cube_len \div 2
  BY <1>1, Sizes DEF CubeFits
<1>. QED  BY <1>1, <1>2, <1>3, Sizes DEF CubeAround, Sided, Room

(* A move gives the robot its margin back, and keeps the cube's side. *)
LEMMA MovedCube ==
    ASSUME CubeFits, NEW cube \in [Axes -> [min : Int, max : Int]], Sided(cube),
           NEW o \in [Axes -> Int], Room(cube, o, DET_RANGE),
           NEW p \in [Axes -> Int], CloseTo(p, o)
    PROVE  /\ Moved(cube, p) \in [Axes -> [min : Int, max : Int]]
           /\ Sided(Moved(cube, p)) /\ Room(Moved(cube, p), p, Margin)
<1>1. \A a \in Axes : Shift(cube, p, a) \in Int
  BY Shifts
<1>2. Moved(cube, p) \in [Axes -> [min : Int, max : Int]]
  BY <1>1 DEF Moved
<1>3. ASSUME NEW a \in Axes
      PROVE  /\ Moved(cube, p)[a].max - Moved(cube, p)[a].min = cube_len
             /\ Moved(cube, p)[a].min + Margin <= p[a]
             /\ p[a] + Margin < Moved(cube, p)[a].max
  <2>1. /\ Moved(cube, p)[a].min = cube[a].min + Shift(cube, p, a)
        /\ Moved(cube, p)[a].max = cube[a].max + Shift(cube, p, a)
    BY DEF Moved
  <2>2. /\ cube[a].min \in Int /\ cube[a].max \in Int /\ p[a] \in Int /\ o[a] \in Int
        /\ cube_len \in Nat /\ DET_RANGE \in Nat
    BY MappingAssumption
  <2>3. /\ cube[a].max - cube[a].min = cube_len
        /\ cube[a].min + DET_RANGE <= o[a] /\ o[a] + DET_RANGE < cube[a].max
        /\ p[a] - o[a] \in -(DET_RANGE \div 2)..(DET_RANGE \div 2)
    BY DEF Sided, Room, CloseTo
  <2>4. DET_RANGE <= mov_dist /\ mov_dist + 2 * Margin < cube_len
    BY DEF CubeFits
  <2>5. CASE Shift(cube, p, a) = -mov_dist /\ p[a] - cube[a].min \in -Margin..Margin
    BY <2>1, <2>2, <2>3, <2>4, <2>5, Sizes
  <2>6. CASE Shift(cube, p, a) = mov_dist /\ cube[a].max - p[a] \in -Margin..Margin
    BY <2>1, <2>2, <2>3, <2>4, <2>6, Sizes
  <2>7. CASE /\ Shift(cube, p, a) = 0
             /\ p[a] - cube[a].min \notin -Margin..Margin
             /\ cube[a].max - p[a] \notin -Margin..Margin
    BY <2>1, <2>2, <2>3, <2>7, Sizes
  <2>. QED  BY <2>5, <2>6, <2>7, Shifts
<1>. QED  BY <1>2, <1>3 DEF Sided, Room

(* What a move leaves of the old cube lies in the new one. *)
LEMMA LeftInMoved ==
    ASSUME CubeFits, NEW cube \in [Axes -> [min : Int, max : Int]], Sided(cube),
           NEW p \in [Axes -> Int], NEW q \in Landmarks, In(q, cube), q \notin Removed(cube, p)
    PROVE  In(q, Moved(cube, p))
<1>0. mov_dist \in Int /\ mov_dist >= 0 /\ q \in [Axes -> Int] /\ cube_len \in Nat
  BY Sizes, MappingAssumption DEF CubeFits
<1>. SUFFICES ASSUME NEW a \in Axes
              PROVE  Moved(cube, p)[a].min <= q[a] /\ q[a] < Moved(cube, p)[a].max
  BY DEF In
<1>a. Shift(cube, p, a) \in {-mov_dist, mov_dist, 0}
  BY Shifts
<1>1. /\ Moved(cube, p)[a].min = cube[a].min + Shift(cube, p, a)
      /\ Moved(cube, p)[a].max = cube[a].max + Shift(cube, p, a)
      /\ cube[a].min \in Int /\ cube[a].max \in Int /\ q[a] \in Int
  BY <1>0 DEF Moved
<1>2. \A b \in Axes : cube[b].min <= q[b] /\ q[b] < cube[b].max
  BY DEF In
<1>3. Shift(cube, p, a) # 0 => ~In(q, Strip(cube, p, a))
  BY DEF Removed
<1>4. CASE Shift(cube, p, a) = 0
  BY <1>1, <1>2, <1>4
<1>5. CASE Shift(cube, p, a) < 0
  <2>1. Shift(cube, p, a) = -mov_dist /\ mov_dist > 0
    BY <1>0, <1>5, <1>a
  <2>2. ~(cube[a].max - mov_dist <= q[a] /\ q[a] < cube[a].max)
    <3>0. Shift(cube, p, a) # 0
      BY <1>0, <2>1
    <3>1. ~In(q, Strip(cube, p, a))
      BY <1>3, <3>0
    <3>2. In(q, Strip(cube, p, a)) <=>
            /\ \A b \in Axes : b # a => cube[b].min <= q[b] /\ q[b] < cube[b].max
            /\ cube[a].max - mov_dist <= q[a] /\ q[a] < cube[a].max
      BY <1>0, <1>5, <2>1, Strips
    <3>. QED  BY <1>2, <3>1, <3>2
  <2>. QED  BY <1>0, <1>1, <1>2, <2>1, <2>2
<1>6. CASE Shift(cube, p, a) > 0
  <2>1. Shift(cube, p, a) = mov_dist /\ mov_dist > 0
    BY <1>0, <1>6, <1>a
  <2>2. ~(cube[a].min <= q[a] /\ q[a] < cube[a].min + mov_dist)
    <3>0. Shift(cube, p, a) # 0
      BY <1>0, <2>1
    <3>1. ~In(q, Strip(cube, p, a))
      BY <1>3, <3>0
    <3>2. In(q, Strip(cube, p, a)) <=>
            /\ \A b \in Axes : b # a => cube[b].min <= q[b] /\ q[b] < cube[b].max
            /\ cube[a].min <= q[a] /\ q[a] < cube[a].min + mov_dist
      BY <1>0, <1>6, <2>1, Strips
    <3>. QED  BY <1>2, <3>1, <3>2
  <2>. QED  BY <1>0, <1>1, <1>2, <2>1, <2>2
<1>. QED  BY <1>4, <1>5, <1>6, Shifts

(* A move cuts nothing off that the lidar can reach. *)
LEMMA NothingInRangeRemoved ==
    ASSUME CubeFits, NEW cube \in [Axes -> [min : Int, max : Int]], Sided(cube),
           NEW p \in [Axes -> Int], NEW q \in Landmarks, InRange(p, q)
    PROVE  q \notin Removed(cube, p)
<1>0. /\ mov_dist \in Int /\ mov_dist >= 0 /\ q \in [Axes -> Int]
      /\ cube_len \in Nat /\ DET_RANGE \in Nat
  BY Sizes, MappingAssumption DEF CubeFits
<1>. SUFFICES ASSUME NEW a \in Axes, Shift(cube, p, a) # 0, In(q, Strip(cube, p, a)) PROVE FALSE
  BY DEF Removed
<1>1. /\ cube[a].min \in Int /\ cube[a].max \in Int /\ q[a] \in Int /\ p[a] \in Int
      /\ cube[a].max - cube[a].min = cube_len
      /\ q[a] - p[a] \in -DET_RANGE..DET_RANGE
  BY <1>0 DEF Sided, InRange
<1>2. mov_dist + 2 * Margin < cube_len
  BY DEF CubeFits
<1>3. CASE Shift(cube, p, a) = -mov_dist /\ p[a] - cube[a].min \in -Margin..Margin
  <2>1. mov_dist > 0 /\ Shift(cube, p, a) < 0
    BY <1>0, <1>3
  <2>2. cube[a].max - mov_dist <= q[a]
    BY <1>0, <2>1, Strips
  <2>. QED  BY <1>0, <1>1, <1>2, <1>3, <2>2, Sizes
<1>4. CASE Shift(cube, p, a) = mov_dist /\ cube[a].max - p[a] \in -Margin..Margin
  <2>1. mov_dist > 0 /\ Shift(cube, p, a) > 0
    BY <1>0, <1>4
  <2>2. q[a] < cube[a].min + mov_dist
    BY <1>0, <2>1, Strips
  <2>. QED  BY <1>0, <1>1, <1>2, <1>4, <2>2, Sizes
<1>. QED  BY <1>3, <1>4, Shifts

(* What a scan sees from a place with room lies in the cube. *)
LEMMA SeenInCube ==
    ASSUME NEW cube \in [Axes -> [min : Int, max : Int]], NEW p \in [Axes -> Int],
           Room(cube, p, DET_RANGE), NEW q \in Landmarks, InRange(p, q)
    PROVE  In(q, cube)
<1>1. q \in [Axes -> Int] /\ DET_RANGE \in Nat
  BY MappingAssumption
<1>2. \A a \in Axes : /\ cube[a].min \in Int /\ cube[a].max \in Int
                      /\ q[a] \in Int /\ p[a] \in Int
  BY <1>1
<1>. QED  BY <1>1, <1>2 DEF Room, InRange, In

-----------------------------------------------------------------------------
(* Where the cube and the map are, step by step. *)
CubeAndMap == CubeInv /\ PlaceInv /\ MapInCube

LEMMA ScanStep ==
    ASSUME CubeFits, TypeOK, CubeAndMap, NEW p \in Region, NEW n \in 1..FewPoints+1,
           BuildTree(p, n) \/ SkipScan(p, n) \/ StartUpdate(p, n)
    PROVE  CubeAndMap' /\ {q \in map : InRange(pos_lid', q)} \subseteq map'
<1>. USE DEF CubeAndMap
<1>1. p \in [Axes -> Int] /\ pos_lid \in [Axes -> Int]
  BY MappingAssumption DEF TypeOK
<1>2. /\ stage = "idle" /\ CloseTo(p, pos_lid) /\ pos_lid' = p
      /\ Localmap' = IF Localmap = None THEN CubeAround(p) ELSE Moved(Localmap, p)
  BY DEF BuildTree, SkipScan, StartUpdate, Predict, lasermap_fov_segment
<1>3. ASSUME Localmap # None
      PROVE  /\ Localmap \in [Axes -> [min : Int, max : Int]] /\ Sided(Localmap)
             /\ Room(Localmap, pos_lid, DET_RANGE)
  BY <1>2, <1>3 DEF TypeOK, CubeInv, PlaceInv, Sided
<1>4. /\ Localmap' \in [Axes -> [min : Int, max : Int]]
      /\ Sided(Localmap') /\ Room(Localmap', p, Margin)
  <2>1. CASE Localmap = None
    BY <1>1, <1>2, <2>1, PlacedCube
  <2>2. CASE Localmap # None
    BY <1>1, <1>2, <1>3, <2>2, MovedCube
  <2>. QED  BY <2>1, <2>2
<1>5. DET_RANGE \in Nat /\ Margin \in Nat /\ DET_RANGE <= Margin
  BY Sizes, MappingAssumption
<1>6. Room(Localmap', p, DET_RANGE)
  <2>1. \A a \in Axes : /\ Localmap'[a].min \in Int /\ Localmap'[a].max \in Int
                        /\ p[a] \in Int
    BY <1>1, <1>4
  <2>. QED  BY <1>4, <1>5, <2>1 DEF Room
<1>7. Localmap' # None
  BY <1>4, MappingAssumption
<1>8. CubeInv'
  BY <1>4, <1>7 DEF CubeInv, Sided, BuildTree, SkipScan, StartUpdate, TypeOK
<1>9. PlaceInv'
  BY <1>2, <1>4, <1>6 DEF PlaceInv
<1>10. CASE BuildTree(p, n) /\ tree'
  <2>1. map = {} /\ map' \in Scan(p, n)
    BY <1>10 DEF BuildTree, CubeInv, TypeOK
  <2>2. MapInCube'
    BY <1>1, <1>4, <1>6, <1>7, <2>1, SeenInCube DEF Scan, MapInCube
  <2>. QED  BY <1>8, <1>9, <2>1, <2>2
<1>11. CASE BuildTree(p, n) /\ ~tree'
  <2>1. map = {} /\ map' = map
    BY <1>11 DEF BuildTree, CubeInv
  <2>. QED  BY <1>8, <1>9, <2>1 DEF MapInCube
<1>12. CASE ~BuildTree(p, n)
  <2>1. tree /\ Localmap # None /\ map' = map \ Removed(Localmap, p)
    BY <1>12 DEF SkipScan, StartUpdate, CubeInv, Kept
  <2>2. ASSUME NEW q \in map, q \notin Removed(Localmap, p) PROVE In(q, Localmap')
    BY <1>1, <1>2, <1>3, <2>1, <2>2, LeftInMoved DEF MapInCube, TypeOK
  <2>3. \A q \in map : InRange(pos_lid', q) => q \notin Removed(Localmap, p)
    BY <1>1, <1>2, <1>3, <2>1, NothingInRangeRemoved DEF TypeOK
  <2>. QED  BY <1>7, <1>8, <1>9, <2>1, <2>2, <2>3 DEF MapInCube
<1>. QED  BY <1>10, <1>11, <1>12

LEMMA IncrementStep ==
    ASSUME CubeFits, TypeOK, CubeAndMap, NEW p \in Region, map_incremental(p)
    PROVE  CubeAndMap'
<1>. USE DEF CubeAndMap
<1>1. p \in [Axes -> Int] /\ pos_lid \in [Axes -> Int]
  BY MappingAssumption DEF TypeOK
<1>2. /\ stage = "increment" /\ stage' = "idle" /\ CloseTo(p, pos_lid) /\ pos_lid' = p
      /\ UNCHANGED <<Localmap, tree>>
  BY DEF map_incremental
<1>3. /\ tree /\ Localmap # None /\ Localmap \in [Axes -> [min : Int, max : Int]]
      /\ Room(Localmap, pos_lid, Margin)
  BY <1>2 DEF CubeInv, PlaceInv, TypeOK
<1>4. Room(Localmap, p, DET_RANGE)
  <2>1. DET_RANGE \in Nat
    BY MappingAssumption
  <2>2. \A a \in Axes : /\ Localmap[a].min \in Int /\ Localmap[a].max \in Int
                        /\ p[a] \in Int /\ pos_lid[a] \in Int
    BY <1>1, <1>3
  <2>. QED  BY <1>2, <1>3, <2>1, <2>2, Sizes DEF Room, CloseTo
<1>5. \A q \in map' : q \in map \/ (q \in Landmarks /\ InRange(p, q))
  <2>1. PICK S \in Scan(p, feats) : \E raw, add \in SUBSET S : map' = AddPoints(add) \cup raw
    BY DEF map_incremental
  <2>2. PICK raw \in SUBSET S, add \in SUBSET S : map' = AddPoints(add) \cup raw
    BY <2>1
  <2>3. AddPoints(add) \subseteq map \cup add
    BY DEF AddPoints, Downsampled
  <2>4. \A q \in S : q \in Landmarks /\ InRange(p, q)
    BY DEF Scan
  <2>5. raw \subseteq S /\ add \subseteq S
    OBVIOUS
  <2>6. map' \subseteq map \cup S
    BY <2>2, <2>3, <2>5
  <2>. QED  BY <2>4, <2>6
<1>6. MapInCube'
  BY <1>1, <1>2, <1>3, <1>4, <1>5, SeenInCube DEF MapInCube
<1>. QED  BY <1>2, <1>3, <1>4, <1>6 DEF CubeInv, PlaceInv

LEMMA CubeStep ==
    ASSUME CubeFits, TypeOK, CubeAndMap, [Next]_vars
    PROVE  CubeAndMap' /\ (stage = "idle" => {q \in map : InRange(pos_lid', q)} \subseteq map')
<1>1. CASE FirstScan \/ UNCHANGED vars
  <2>1. UNCHANGED <<Localmap, tree, map, pos_lid, stage>>
    BY <1>1 DEF FirstScan, vars, scan_vars
  <2>. QED  BY <2>1 DEF CubeAndMap, CubeInv, PlaceInv, MapInCube
<1>2. CASE \E p \in Region, n \in 1..FewPoints+1 :
              BuildTree(p, n) \/ SkipScan(p, n) \/ StartUpdate(p, n)
  BY <1>2, ScanStep
<1>3. CASE Iterate
  <2>1. stage = "update" /\ stage' # "idle" /\ UNCHANGED <<Localmap, tree, map, pos_lid>>
    BY <1>3 DEF Iterate, Conclude, NoPoints, scan_vars
  <2>. QED  BY <2>1 DEF CubeAndMap, CubeInv, PlaceInv, MapInCube
<1>4. CASE \E p \in Region : map_incremental(p)
  <2>1. stage # "idle"
    BY <1>4 DEF map_incremental
  <2>. QED  BY <1>4, <2>1, IncrementStep
<1>. QED  BY <1>1, <1>2, <1>3, <1>4 DEF Next

LEMMA CubeInit == Init => CubeAndMap
BY DEF Init, CubeAndMap, CubeInv, PlaceInv, MapInCube

(* Under a cube that fits, every point of the map lies in the cube that    *)
(* lasermap_fov_segment keeps, so the strips it cuts off leave none behind.*)
THEOREM MapStaysInCube == CubeFits => (Spec => []MapInCube)
<1>. SUFFICES ASSUME CubeFits PROVE Spec => []MapInCube
  OBVIOUS
<1>1. TypeOK /\ CubeAndMap /\ [Next]_vars => CubeAndMap'
  BY CubeStep
<1>2. CubeAndMap => MapInCube
  BY DEF CubeAndMap
<1>. QED  BY CubeInit, TypeCorrect, <1>1, <1>2, PTL DEF Spec

(* Under a cube that fits, lasermap_fov_segment never takes a point out of *)
(* the map that the lidar could still see.                                 *)
THEOREM NothingSeenIsCut == CubeFits => (Spec => InRangeKept)
<1>. SUFFICES ASSUME CubeFits PROVE Spec => InRangeKept
  OBVIOUS
<1>1. TypeOK /\ CubeAndMap /\ [Next]_vars => CubeAndMap'
  BY CubeStep
<1>2. TypeOK /\ CubeAndMap /\ [Next]_vars =>
        [stage = "idle" => {q \in map : InRange(pos_lid', q)} \subseteq map']_vars
  BY CubeStep
<1>. QED  BY CubeInit, TypeCorrect, <1>1, <1>2, PTL DEF Spec, InRangeKept

-----------------------------------------------------------------------------
(***************************************************************************)
(* The rebuild of a subtree.                                               *)
(***************************************************************************)
Ops == [del : SUBSET Points, add : SUBSET Points]

(* The kinds of the variables, the counter of searches left to CountInv.    *)
Kinds ==
  /\ sub \in SUBSET Points /\ ideal \in SUBSET Points /\ new_root_node \in SUBSET Points
  /\ father \in Flags /\ above \in Flags
  /\ mishaps \in SUBSET {"leftover", "revived", "strayed", "untested"}
  /\ working \in BOOLEAN /\ at_root \in BOOLEAN /\ Rebuild_Ptr \in BOOLEAN
  /\ rebuild_flag \in BOOLEAN /\ range_lock \in BOOLEAN
  /\ Rebuild_Logger \in Seq(Ops) /\ op \in Ops
  /\ search_mutex_counter \in Int
  /\ thread \in ThreadPlaces
  /\ main \in MainPlaces
  /\ search \in [Searchers -> SearchPlaces]
  /\ updates \in 0 .. MaxUpdates

Counted == {s \in Searchers : search[s] = "counted"}
Closed == thread \in {"flatten", "reopen", "swap"} \cup Swapped

(* The counter counts the searches under way, unless they are kept out.     *)
CountInv == IF Closed THEN search_mutex_counter = -1 /\ Counted = {}
                      ELSE search_mutex_counter = Cardinality(Counted)

(* Who may be in the subtree while it waits for its rebuild or is in one.   *)
LockInv ==
  /\ thread \in {"quiesce", "flatten", "reopen", "build", "drain", "close", "swap"} \cup Swapped
       => Rebuild_Ptr /\ rebuild_flag
  /\ main # "searching" => \A s \in Searchers : search[s] = "out"
  /\ \A s \in Searchers :
       /\ search[s] # "old"
       /\ search[s] \in {"in", "looking_old"} => ~Rebuild_Ptr \/ thread \in Swapped
  /\ main = "range" => at_root \/ range_lock \/ ~Rebuild_Ptr
  /\ main = "range_old" => at_root \/ (range_lock /\ thread \in Swapped)

(* What a set of points is after the updates of a log: a point is in it     *)
(* when the last update that deletes or adds it adds it.                    *)
Replayed(log, S) ==
  {p \in Points :
     \/ p \in S /\ \A k \in 1..Len(log) : p \notin log[k].del
     \/ \E j \in 1..Len(log) : /\ p \in log[j].add
                               /\ \A k \in j+1..Len(log) : p \notin log[k].del}

(* While the subtree is rebuilt, the log holds what the copy has missed.    *)
BelowFather == {"to_range", "lock_range", "to_range_old", "range", "range_old", "range_stray",
                "to_sub", "lock_sub", "to_add", "leave", "applied", "update", "update_old"}
AtFather == {"to_push", "lock_push", "to_push_old"}

FlagInv ==
  /\ main \in BelowFather => father = "none" /\ above = "none"
  /\ main \in AtFather => father # "none" /\ above = "none"
LogInv ==
  mishaps = {} => /\ father # "kept" /\ above # "kept"
                  /\ father = "deleted" \/ above = "deleted" => ideal = {}
                  /\ father = "none" /\ above = "none" => sub = ideal
                  /\ thread \in {"quiesce", "flatten"} => Rebuild_Logger = <<>>
                  /\ thread \in {"reopen", "build", "drain"} => sub = Replayed(Rebuild_Logger, new_root_node)
                  /\ thread \in {"close", "swap"} => Rebuild_Logger = <<>> /\ sub = new_root_node

-----------------------------------------------------------------------------
(* Replaying nothing, one update more at the end, one less at the front.    *)
LEMMA ReplayedNothing ==
  ASSUME NEW S \in SUBSET Points
  PROVE  Replayed(<<>>, S) = S
BY DEF Replayed

LEMMA ReplayedAppend ==
  ASSUME NEW log \in Seq(Ops), NEW o \in Ops, NEW S \in SUBSET Points
  PROVE  Replayed(Append(log, o), S) = Apply(o, Replayed(log, S))
<1>. DEFINE more == Append(log, o)
            n == Len(log)
<1>1. /\ n \in Nat /\ Len(more) = n + 1 /\ more[n + 1] = o
      /\ \A k \in 1..n : more[k] = log[k]
  OBVIOUS
<1>2. o.add \subseteq Points
  BY DEF Ops
<1>. SUFFICES ASSUME NEW p \in Points
              PROVE  p \in Replayed(more, S) <=> p \in Apply(o, Replayed(log, S))
  BY <1>2 DEF Replayed, Apply
<1>. HIDE DEF more, n
<1>3. CASE p \in o.add
  <2>1. \A k \in n+2..n+1 : p \notin more[k].del
    BY <1>1
  <2>2. p \in Replayed(more, S)
    BY <1>1, <1>3, <2>1 DEF Replayed
  <2>. QED  BY <1>3, <2>2 DEF Apply
<1>4. CASE p \notin o.add /\ p \in o.del
  <2>1. p \notin Replayed(more, S)
    BY <1>1, <1>4 DEF Replayed
  <2>. QED  BY <1>4, <2>1 DEF Apply
<1>5. CASE p \notin o.add /\ p \notin o.del
  <2>1. (\A k \in 1..n+1 : p \notin more[k].del) <=> (\A k \in 1..n : p \notin log[k].del)
    BY <1>1, <1>5
  <2>2. \A j \in 1..n : (\A k \in j+1..n+1 : p \notin more[k].del)
                      <=> (\A k \in j+1..n : p \notin log[k].del)
    BY <1>1, <1>5
  <2>3. (\E j \in 1..n+1 : p \in more[j].add /\ \A k \in j+1..n+1 : p \notin more[k].del)
          <=> (\E j \in 1..n : p \in log[j].add /\ \A k \in j+1..n : p \notin log[k].del)
    BY <1>1, <1>5, <2>2
  <2>4. p \in Replayed(more, S) <=> p \in Replayed(log, S)
    BY <1>1, <2>1, <2>3 DEF Replayed, n
  <2>. QED  BY <1>5, <2>4 DEF Apply
<1>. QED  BY <1>3, <1>4, <1>5

LEMMA ReplayedTail ==
  ASSUME NEW log \in Seq(Ops), log # <<>>, NEW S \in SUBSET Points
  PROVE  Replayed(log, S) = Replayed(Tail(log), Apply(Head(log), S))
<1>. DEFINE less == Tail(log)
            n == Len(less)
            o == Head(log)
<1>1. /\ n \in Nat /\ Len(log) = n + 1 /\ log[1] = o /\ o \in Ops
      /\ \A k \in 1..n : less[k] = log[k + 1]
  OBVIOUS
<1>. HIDE DEF less, o, n
<1>2. o.add \subseteq Points
  BY <1>1 DEF Ops
<1>. SUFFICES ASSUME NEW p \in Points
              PROVE  p \in Replayed(log, S) <=> p \in Replayed(less, Apply(o, S))
  BY DEF Replayed, less, o
<1>3. ASSUME NEW j \in 1..n
      PROVE  (\A k \in j+1..n : p \notin less[k].del) <=> (\A k \in j+2..n+1 : p \notin log[k].del)
  <2>1. \A k \in j+1..n : less[k] = log[k + 1] /\ k + 1 \in j+2..n+1
    BY <1>1
  <2>2. \A k \in j+2..n+1 : less[k - 1] = log[k] /\ k - 1 \in j+1..n
    BY <1>1
  <2>. QED  BY <2>1, <2>2
<1>4. (\A k \in 1..n : p \notin less[k].del) <=> (\A k \in 2..n+1 : p \notin log[k].del)
  <2>1. \A k \in 1..n : less[k] = log[k + 1] /\ k + 1 \in 2..n+1
    BY <1>1
  <2>2. \A k \in 2..n+1 : less[k - 1] = log[k] /\ k - 1 \in 1..n
    BY <1>1
  <2>. QED  BY <2>1, <2>2
<1>5. (\E j \in 1..n : p \in less[j].add /\ \A k \in j+1..n : p \notin less[k].del)
        <=> (\E j \in 2..n+1 : p \in log[j].add /\ \A k \in j+1..n+1 : p \notin log[k].del)
  <2>1. \A j \in 1..n : less[j] = log[j + 1] /\ j + 1 \in 2..n+1
    BY <1>1
  <2>2. \A j \in 2..n+1 : less[j - 1] = log[j] /\ j - 1 \in 1..n /\ (j - 1) + 2 = j + 1
    BY <1>1
  <2>3. \A j \in 1..n : (j + 1) + 1 = j + 2
    OBVIOUS
  <2>. QED  BY <1>3, <2>1, <2>2, <2>3
<1>6. p \in Replayed(log, S) <=>
        \/ p \in S /\ p \notin o.del /\ \A k \in 2..n+1 : p \notin log[k].del
        \/ p \in o.add /\ \A k \in 2..n+1 : p \notin log[k].del
        \/ \E j \in 2..n+1 : p \in log[j].add /\ \A k \in j+1..n+1 : p \notin log[k].del
  <2>1. (\A k \in 1..n+1 : p \notin log[k].del) <=>
          p \notin o.del /\ \A k \in 2..n+1 : p \notin log[k].del
    BY <1>1
  <2>2. (\E j \in 1..n+1 : p \in log[j].add /\ \A k \in j+1..n+1 : p \notin log[k].del) <=>
          \/ p \in o.add /\ \A k \in 2..n+1 : p \notin log[k].del
          \/ \E j \in 2..n+1 : p \in log[j].add /\ \A k \in j+1..n+1 : p \notin log[k].del
    BY <1>1
  <2>. QED  BY <1>1, <2>1, <2>2 DEF Replayed
<1>7. p \in Replayed(less, Apply(o, S)) <=>
        \/ ((p \in S /\ p \notin o.del) \/ p \in o.add) /\ \A k \in 1..n : p \notin less[k].del
        \/ \E j \in 1..n : p \in less[j].add /\ \A k \in j+1..n : p \notin less[k].del
  BY DEF Replayed, Apply, n
<1>. QED  BY <1>4, <1>5, <1>6, <1>7

LEMMA ReplayedKind ==
  ASSUME NEW log, NEW S PROVE Replayed(log, S) \in SUBSET Points
BY DEF Replayed

-----------------------------------------------------------------------------
LEMMA OpsAreOps ==
  /\ Adds \subseteq Ops /\ Deletes \subseteq Ops /\ Downsamples \subseteq Ops
  /\ PassBy \in Ops /\ PushDown \in Ops
  /\ \A back \in SUBSET Points : Revive(back) \in Ops
  /\ \A o \in Ops : Part(o) \in Ops /\ Rest(o) \in Ops
<1>1. Adds \subseteq Ops /\ Deletes \subseteq Ops /\ Downsamples \subseteq Ops
  BY RebuildAssumption DEF Ops, Adds, Deletes, Downsamples, Update
<1>2. PassBy \in Ops /\ PushDown \in Ops /\ \A back \in SUBSET Points : Revive(back) \in Ops
  BY DEF Ops, PassBy, PushDown, Revive, Update
<1>3. \A o \in Ops : Part(o) \in Ops /\ Rest(o) \in Ops
  BY DEF Ops, Part, Rest, PassBy, Update
<1>. QED  BY <1>1, <1>2, <1>3

LEMMA ApplyKind ==
  ASSUME NEW o \in Ops, NEW S \in SUBSET Points PROVE Apply(o, S) \in SUBSET Points
BY DEF Apply, Ops

LEMMA LogKind ==
  ASSUME NEW o \in Ops, Rebuild_Logger \in Seq(Ops), Log(o) PROVE Rebuild_Logger' \in Seq(Ops)
BY DEF Log

(* What a flag becomes, and what it does to the subtree and to the log.     *)
LEMMA FlagKind ==
  ASSUME Kinds
  PROVE  /\ Recomputed(father, sub = {}) \subseteq Flags
         /\ Recomputed(above, sub = {} \/ father = "deleted") \subseteq Flags
         /\ \A log \in BOOLEAN : FlagToSub(log) =>
              /\ sub' \in SUBSET Points /\ father' = "none"
              /\ Rebuild_Logger' \in Seq(Ops)
              /\ UNCHANGED <<above, ideal, Rebuild_Ptr, rebuild_flag, new_root_node>>
<1>1. /\ Recomputed(father, sub = {}) \subseteq Flags
      /\ Recomputed(above, sub = {} \/ father = "deleted") \subseteq Flags
  BY DEF Recomputed, Flags
<1>2. ASSUME NEW log \in BOOLEAN, FlagToSub(log)
      PROVE  /\ sub' \in SUBSET Points /\ father' = "none"
             /\ Rebuild_Logger' \in Seq(Ops)
             /\ UNCHANGED <<above, ideal, Rebuild_Ptr, rebuild_flag, new_root_node>>
  <2>1. /\ sub' \in SUBSET Points /\ father' = "none"
        /\ UNCHANGED <<above, ideal, Rebuild_Ptr, rebuild_flag, new_root_node>>
    BY <1>2 DEF FlagToSub, Kinds
  <2>2. \/ UNCHANGED Rebuild_Logger
        \/ Log(PushDown)
        \/ \E back \in SUBSET Points : Log(Revive(back))
    BY <1>2 DEF FlagToSub
  <2>3. Rebuild_Logger' \in Seq(Ops)
    BY <2>2, OpsAreOps, LogKind DEF Kinds
  <2>. QED  BY <2>1, <2>3
<1>. QED  BY <1>1, <1>2

LEMMA PlacesKnown ==
  /\ "top" \in ThreadPlaces /\ "sleep" \in ThreadPlaces /\ "woken" \in ThreadPlaces
  /\ "check" \in ThreadPlaces /\ "quiesce" \in ThreadPlaces /\ "flatten" \in ThreadPlaces
  /\ "reopen" \in ThreadPlaces /\ "build" \in ThreadPlaces /\ "drain" \in ThreadPlaces
  /\ "close" \in ThreadPlaces /\ "swap" \in ThreadPlaces /\ "unflag" \in ThreadPlaces
  /\ "free" \in ThreadPlaces /\ "crashed" \in ThreadPlaces /\ "ended" \in ThreadPlaces
  /\ "fathers" \in ThreadPlaces /\ "update_father" \in ThreadPlaces
  /\ "grandfather" \in ThreadPlaces /\ "update_above" \in ThreadPlaces
  /\ "reopen2" \in ThreadPlaces
  /\ "idle" \in MainPlaces /\ "to_push" \in MainPlaces /\ "lock_push" \in MainPlaces
  /\ "to_push_old" \in MainPlaces /\ "to_range" \in MainPlaces /\ "lock_range" \in MainPlaces
  /\ "to_range_old" \in MainPlaces /\ "range" \in MainPlaces /\ "range_old" \in MainPlaces
  /\ "range_stray" \in MainPlaces /\ "to_sub" \in MainPlaces /\ "lock_sub" \in MainPlaces
  /\ "to_add" \in MainPlaces /\ "leave" \in MainPlaces /\ "applied" \in MainPlaces
  /\ "update" \in MainPlaces /\ "update_old" \in MainPlaces /\ "searching" \in MainPlaces
  /\ "join" \in MainPlaces /\ "destroyed" \in MainPlaces
  /\ "out" \in SearchPlaces /\ "to_father" \in SearchPlaces /\ "looking" \in SearchPlaces
  /\ "looking_old" \in SearchPlaces /\ "waiting" \in SearchPlaces /\ "in" \in SearchPlaces
  /\ "counted" \in SearchPlaces /\ "old" \in SearchPlaces /\ "stray" \in SearchPlaces
  /\ "done" \in SearchPlaces
BY DEF ThreadPlaces, Swapped, MainPlaces, SearchPlaces

LEMMA KindsInit == RebuildInit => Kinds
<1>. SUFFICES ASSUME RebuildInit PROVE Kinds
  OBVIOUS
<1>1. /\ working \in BOOLEAN /\ at_root \in BOOLEAN /\ Rebuild_Ptr \in BOOLEAN
      /\ rebuild_flag \in BOOLEAN /\ range_lock \in BOOLEAN
  BY Zenon DEF RebuildInit
<1>2. father \in Flags /\ above \in Flags /\ mishaps = {}
  BY DEF RebuildInit, Flags
<1>. QED  BY <1>1, <1>2, OpsAreOps, PlacesKnown, RebuildAssumption DEF RebuildInit, Kinds

LEMMA KindsStep ==
  ASSUME Kinds, [RebuildNext]_allVars PROVE Kinds'
<1>. USE DEF mapVars, rebuildVars, mainVars, ThreadTo, SearchMutexFree
<1>. USE PlacesKnown
<1>1. CASE ReadTermination \/ Wake \/ LockWorkingFlag \/ NothingToDo \/ Drained \/ Free
           \/ CheckFather \/ CheckGrandfather
  BY <1>1 DEF Kinds, ReadTermination, Wake, LockWorkingFlag, NothingToDo, Drained, Free, Passes,
       CheckFather, CheckGrandfather
<1>2. CASE Start
  <2>1. mishaps' \in SUBSET {"leftover", "revived", "strayed", "untested"}
    BY <1>2 DEF Kinds, Start
  <2>. QED  BY <1>2, <2>1 DEF Kinds, Start
<1>3. CASE CloseSearch("quiesce", "flatten") \/ CloseSearch("close", "swap") \/ ReopenSearch
  <2>1. search_mutex_counter' \in Int /\ thread' \in ThreadPlaces
    BY <1>3 DEF CloseSearch, ReopenSearch
  <2>2. UNCHANGED <<mapVars, rebuildVars, at_root, mainVars, search>>
    BY <1>3 DEF CloseSearch, ReopenSearch
  <2>. QED  BY <2>1, <2>2 DEF Kinds
<1>4. CASE Flatten \/ BuildNew
  BY <1>4 DEF Kinds, Flatten, BuildNew
<1>5. CASE Replay
  <2>1. Head(Rebuild_Logger) \in Ops /\ Tail(Rebuild_Logger) \in Seq(Ops)
    BY <1>5 DEF Replay, Kinds
  <2>2. new_root_node' \in SUBSET Points
    BY <1>5, <2>1, ApplyKind DEF Replay, Kinds
  <2>. QED  BY <1>5, <2>1, <2>2 DEF Replay, Kinds
<1>6. CASE Swap
  <2>1. thread' \in ThreadPlaces /\ sub' \in SUBSET Points
    BY <1>6 DEF Kinds, Swap
  <2>2. main' \in {main, "to_push_old", "to_range_old", "range_old", "update_old"}
    BY <1>6 DEF Swap, MainOnOld
  <2>3. search' \in [Searchers -> SearchPlaces]
    BY <1>6 DEF Kinds, Swap, SearchOnOld
  <2>. QED  BY <1>6, <2>1, <2>2, <2>3 DEF Kinds, Swap
<1>7. CASE UpdateFather \/ UpdateAbove
  <2>1. mishaps' \in SUBSET {"leftover", "revived", "strayed", "untested"}
    BY <1>7 DEF Kinds, UpdateFather, UpdateAbove, Revives
  <2>2. father' \in Flags /\ above' \in Flags /\ thread' \in ThreadPlaces
    BY <1>7, FlagKind DEF Kinds, UpdateFather, UpdateAbove
  <2>. QED  BY <1>7, <2>1, <2>2 DEF Kinds, UpdateFather, UpdateAbove
<1>8. CASE HandedOver \/ EndLogging
  <2>1. Rebuild_Ptr' \in BOOLEAN /\ rebuild_flag' \in BOOLEAN
    BY Zenon, <1>8 DEF Kinds, HandedOver, EndLogging
  <2>2. new_root_node' \in SUBSET Points /\ search_mutex_counter' \in Int
    BY <1>8 DEF Kinds, HandedOver, EndLogging
  <2>. QED  BY <1>8, <2>1, <2>2 DEF Kinds, HandedOver, EndLogging
<1>9. CASE \/ AskForLock("to_push", "lock_push") \/ AskForLock("to_sub", "lock_sub")
           \/ AskForLock("to_range", "lock_range") \/ LoadSon
  BY <1>9 DEF Kinds, AskForLock, LoadSon, MainUnchanged
<1>10. CASE Push \/ PushToOld
  <2>1. /\ sub' \in SUBSET Points /\ father' = "none"
        /\ Rebuild_Logger' \in Seq(Ops)
        /\ UNCHANGED <<above, ideal, Rebuild_Ptr, rebuild_flag, new_root_node>>
    BY <1>10, FlagKind DEF Push, PushToOld, Kinds
  <2>2. mishaps' \in SUBSET {"leftover", "revived", "strayed", "untested"}
    BY <1>10 DEF Push, PushToOld, Kinds
  <2>3. main' \in {"idle", "applied", "to_range", "to_sub"}
    BY <1>10 DEF Push, PushToOld, AfterPush
  <2>4. father' \in Flags
    BY <2>1 DEF Flags
  <2>. QED  BY <1>10, <2>1, <2>2, <2>3, <2>4 DEF Push, PushToOld, Kinds, MainUnchanged
<1>11. CASE RangeSearch \/ RangeDone
  <2>1. range_lock' \in BOOLEAN /\ working' \in BOOLEAN
    BY Zenon, <1>11 DEF RangeSearch, RangeDone, Kinds
  <2>. QED  BY <1>11, <2>1 DEF RangeSearch, RangeDone, Kinds, MainUnchanged
<1>12. CASE ApplyUpdate
  <2>1. Part(op) \in Ops /\ Rest(op) \in Ops
    BY OpsAreOps DEF Kinds
  <2>2. Rebuild_Logger' \in Seq(Ops)
    BY <1>12, <2>1, LogKind DEF ApplyUpdate, Kinds
  <2>3. sub' \in SUBSET Points /\ ideal' \in SUBSET Points
    BY <1>12, <2>1, ApplyKind DEF ApplyUpdate, Kinds
  <2>. QED  BY <1>12, <2>1, <2>2, <2>3 DEF ApplyUpdate, Kinds, MainUnchanged
<1>13. CASE AddUntested
  <2>1. sub' \in SUBSET Points /\ ideal' \in SUBSET Points
    BY <1>13, ApplyKind DEF AddUntested, Kinds
  <2>2. mishaps' \in SUBSET {"leftover", "revived", "strayed", "untested"}
    BY <1>13 DEF AddUntested, Kinds
  <2>. QED  BY <1>13, <2>1, <2>2, OpsAreOps DEF AddUntested, Kinds, MainUnchanged
<1>14. CASE Leave
  <2>1. Rebuild_Ptr' \in BOOLEAN
    BY Zenon, <1>14 DEF Leave, Kinds
  <2>2. /\ UNCHANGED <<mapVars, rebuild_flag, Rebuild_Logger, new_root_node,
                       op, working, range_lock, updates>>
        /\ UNCHANGED <<at_root, search_mutex_counter, thread, search>>
        /\ main' \in {"applied", "idle", "to_add"}
    BY <1>14 DEF Leave, MainUnchanged
  <2>. QED  BY <2>1, <2>2 DEF Kinds, mapVars
<1>15. CASE UpdateDone \/ AddNext
  <2>1. working' \in BOOLEAN
    BY Zenon, <1>15 DEF UpdateDone, AddNext
  <2>. QED  BY <1>15, <2>1 DEF UpdateDone, AddNext, Kinds, MainUnchanged
<1>16. CASE SearchesDone \/ StartSearches
  BY <1>16 DEF SearchesDone, StartSearches, Kinds
<1>17. CASE CoverFather \/ CoverAbove
  <2>1. working' \in BOOLEAN
    BY Zenon, <1>17 DEF CoverFather, CoverAbove, Kinds
  <2>2. father' \in Flags /\ above' \in Flags /\ ideal' \in SUBSET Points
    BY <1>17 DEF CoverFather, CoverAbove, Kinds, Flags
  <2>3. updates' \in 0 .. MaxUpdates
    BY <1>17, RebuildAssumption DEF CoverFather, CoverAbove, Kinds
  <2>4. UNCHANGED <<sub, mishaps, rebuildVars, main, op, range_lock,
                    at_root, search_mutex_counter, thread, search>>
    BY <1>17 DEF CoverFather, CoverAbove, MainUnchanged
  <2>. QED  BY <2>1, <2>2, <2>3, <2>4 DEF Kinds
<1>18. ASSUME NEW o \in Adds \cup Deletes \cup Downsamples \cup {PassBy}, Begin(o) PROVE Kinds'
  <2>1. op' \in Ops
    BY <1>18, OpsAreOps DEF Begin
  <2>2. main' \in {"idle", "applied", "to_range", "to_sub", "to_push"}
    BY <1>18 DEF Begin, AfterPush
  <2>3. working' \in BOOLEAN
    BY Zenon, <1>18 DEF Begin, Kinds
  <2>. QED  BY <1>18, <2>1, <2>2, <2>3, RebuildAssumption DEF Begin, Kinds, MainUnchanged
<1>19. CASE PushAbove
  BY <1>19 DEF PushAbove, FlagToFather, Kinds, Flags
<1>20. ASSUME NEW s \in Searchers, Descend(s), search' = search PROVE Kinds'
  <2>1. CASE FlagToFather
    BY <1>20, <2>1 DEF FlagToFather, Kinds, Flags
  <2>2. CASE \E log \in BOOLEAN : FlagToSub(log) /\
               UNCHANGED <<mishaps, at_root, search_mutex_counter, thread, mainVars>>
    <3>1. /\ sub' \in SUBSET Points /\ father' = "none"
          /\ Rebuild_Logger' \in Seq(Ops)
          /\ UNCHANGED <<above, ideal, Rebuild_Ptr, rebuild_flag, new_root_node>>
      BY <2>2, FlagKind
    <3>2. father' \in Flags
      BY <3>1 DEF Flags
    <3>. QED  BY <1>20, <2>2, <3>1, <3>2 DEF Kinds
  <2>3. CASE \E to \in {"done", "looking"} : SearchTo(s, "to_father", to)
    BY <1>20, <2>3 DEF SearchTo, Kinds
  <2>. QED  BY <1>20, <2>1, <2>2, <2>3 DEF Descend
<1>21. ASSUME NEW s \in Searchers,
              \/ Look(s) \/ Enter(s) \/ SearchDone(s)
              \/ /\ \E to \in {"done", "looking"} : SearchTo(s, "to_father", to)
                 /\ UNCHANGED search_mutex_counter
       PROVE  Kinds'
  <2>1. \E to \in SearchPlaces : search' = [search EXCEPT ![s] = to]
    BY <1>21 DEF Look, Enter, SearchDone, SearchTo
  <2>2. UNCHANGED <<mapVars, rebuildVars, at_root, thread, mainVars>>
    BY <1>21 DEF Look, Enter, SearchDone, SearchTo
  <2>3. search_mutex_counter' \in Int
    BY <1>21 DEF Look, Enter, SearchDone, Kinds
  <2>4. search' \in [Searchers -> SearchPlaces]
    BY <2>1 DEF Kinds
  <2>. QED  BY <2>2, <2>3, <2>4 DEF Kinds
<1>22. ASSUME NEW s \in Searchers, Descend(s) PROVE Kinds'
  BY <1>20, <1>21, <1>22 DEF Descend
<1>23. CASE StopThread
  BY <1>23 DEF StopThread, Kinds, MainUnchanged
<1>24. CASE Destroy
  <2>1. sub' = {} /\ ideal' = {} /\ Rebuild_Logger' = <<>> /\ main' = "destroyed"
    BY <1>24 DEF Destroy
  <2>2. Rebuild_Logger' \in Seq(Ops)
    BY <2>1
  <2>. QED  BY <1>24, <2>1, <2>2 DEF Destroy, Kinds, MainUnchanged
<1>25. CASE UNCHANGED allVars
  BY <1>25 DEF allVars, Kinds
<1>. QED  BY <1>1, <1>2, <1>3, <1>4, <1>5, <1>6, <1>7, <1>8, <1>9, <1>10, <1>11, <1>12,
             <1>13, <1>14, <1>15, <1>16, <1>17, <1>18, <1>19, <1>21, <1>22, <1>23, <1>24,
             <1>25 DEF RebuildNext, RebuildStep, MainStep, SearchStep

-----------------------------------------------------------------------------
(* One search more, one search less under way.                              *)
LEMMA CountMoves ==
  ASSUME Kinds, NEW s \in Searchers
  PROVE  /\ IsFiniteSet(Counted)
         /\ search[s] # "counted" /\ search' = [search EXCEPT ![s] = "counted"] =>
              Cardinality(Counted') = Cardinality(Counted) + 1
         /\ search[s] = "counted" /\ search' = [search EXCEPT ![s] = "done"] =>
              Cardinality(Counted') = Cardinality(Counted) - 1
<1>1. IsFiniteSet(Counted)
  BY RebuildAssumption, FS_Subset DEF Counted
<1>2. ASSUME search[s] # "counted", search' = [search EXCEPT ![s] = "counted"]
      PROVE  Cardinality(Counted') = Cardinality(Counted) + 1
  <2>1. Counted' = Counted \cup {s} /\ s \notin Counted
    BY <1>2 DEF Counted, Kinds
  <2>. QED  BY <1>1, <2>1, FS_AddElement
<1>3. ASSUME search[s] = "counted", search' = [search EXCEPT ![s] = "done"]
      PROVE  Cardinality(Counted') = Cardinality(Counted) - 1
  <2>1. Counted' = Counted \ {s} /\ s \in Counted
    BY <1>3 DEF Counted, Kinds
  <2>. QED  BY <1>1, <2>1, FS_RemoveElement
<1>. QED  BY <1>1, <1>2, <1>3

LEMMA CountInit == RebuildInit => CountInv /\ LockInv
<1>. SUFFICES ASSUME RebuildInit PROVE CountInv /\ LockInv
  OBVIOUS
<1>1. Counted = {}
  BY DEF RebuildInit, Counted
<1>2. Cardinality(Counted) = 0
  BY <1>1, FS_EmptySet
<1>. QED  BY <1>1, <1>2 DEF RebuildInit, CountInv, Closed, LockInv, Swapped

(* The steps of the odometry between two scans, which leave the rebuild     *)
(* thread, the searches and the counter alone.                              *)
Walks ==
  \/ AskForLock("to_push", "lock_push") \/ AskForLock("to_sub", "lock_sub")
  \/ AskForLock("to_range", "lock_range") \/ Push \/ PushToOld \/ RangeSearch \/ RangeDone
  \/ ApplyUpdate \/ AddUntested \/ LoadSon \/ UpdateDone \/ AddNext
  \/ CoverFather \/ CoverAbove \/ StopThread \/ Destroy
  \/ \E o \in Adds \cup Deletes \cup Downsamples \cup {PassBy} : Begin(o)

LEMMA WalkFrame ==
  ASSUME Walks
  PROVE  /\ UNCHANGED <<at_root, search_mutex_counter, thread, search, Rebuild_Ptr, rebuild_flag>>
         /\ main # "searching" /\ main' # "searching"
         /\ main' = "range_old" => main = "range_old"
<1>. USE DEF mapVars, rebuildVars, mainVars, MainUnchanged
<1>1. CASE Push \/ PushToOld
  BY <1>1 DEF Push, PushToOld, FlagToSub, NoLock, Locked, AfterPush
<1>2. CASE \/ AskForLock("to_push", "lock_push") \/ AskForLock("to_sub", "lock_sub")
           \/ AskForLock("to_range", "lock_range") \/ RangeSearch \/ RangeDone
  BY <1>2 DEF AskForLock, RangeSearch, RangeDone, NoLock
<1>3. CASE ApplyUpdate \/ AddUntested \/ LoadSon \/ UpdateDone \/ AddNext
  BY <1>3 DEF ApplyUpdate, AddUntested, LoadSon, UpdateDone, AddNext, NoLock, Locked
<1>4. CASE CoverFather \/ CoverAbove \/ StopThread \/ Destroy
  BY <1>4 DEF CoverFather, CoverAbove, StopThread, Destroy
<1>5. ASSUME NEW o \in Adds \cup Deletes \cup Downsamples \cup {PassBy}, Begin(o)
      PROVE  /\ UNCHANGED <<at_root, search_mutex_counter, thread, search, Rebuild_Ptr, rebuild_flag>>
             /\ main # "searching" /\ main' # "searching"
             /\ main' = "range_old" => main = "range_old"
  BY <1>5 DEF Begin, AfterPush
<1>. QED  BY <1>1, <1>2, <1>3, <1>4, <1>5 DEF Walks

(* A search on its way down, with the two flags it may find.                *)
LEMMA DescendFrame ==
  ASSUME NEW s \in Searchers, Descend(s)
  PROVE  /\ UNCHANGED <<search_mutex_counter, thread, Rebuild_Ptr, rebuild_flag, at_root,
                        main, range_lock, ideal, mishaps, new_root_node>>
         /\ search[s] = "to_father"
         /\ \/ search' = search
            \/ search' = [search EXCEPT ![s] = "done"]
            \/ search' = [search EXCEPT ![s] = "looking"]
         /\ \/ UNCHANGED <<sub, father, above, Rebuild_Logger>>
            \/ father = "kept" \/ above = "kept"
BY DEF Descend, SearchTo, FlagToFather, FlagToSub, mapVars, rebuildVars, mainVars

LEMMA CountStep ==
  ASSUME Kinds, CountInv, LockInv, [RebuildNext]_allVars PROVE CountInv'
<1>. USE DEF mapVars, rebuildVars, mainVars, ThreadTo, SearchMutexFree, Swapped
<1>0. IsFiniteSet(Counted) /\ Cardinality(Counted) \in Nat /\ (Cardinality(Counted) = 0 <=> Counted = {})
  BY RebuildAssumption, FS_Subset, FS_CardinalityType, FS_EmptySet DEF Counted
<1>1. ASSUME UNCHANGED <<search, search_mutex_counter>>, Closed' = Closed PROVE CountInv'
  BY <1>1 DEF CountInv, Counted
<1>2. CASE \/ ReadTermination \/ Wake \/ LockWorkingFlag \/ NothingToDo \/ Drained \/ Free
           \/ Start \/ BuildNew \/ Replay \/ Flatten \/ EndLogging
           \/ CheckFather \/ CheckGrandfather \/ UpdateFather \/ UpdateAbove
  BY <1>1, <1>2 DEF ReadTermination, Wake, LockWorkingFlag, NothingToDo, Drained, Free, Passes,
       Start, BuildNew, Replay, Flatten, EndLogging, CheckFather, CheckGrandfather,
       UpdateFather, UpdateAbove, Closed
<1>3. CASE CloseSearch("quiesce", "flatten") \/ CloseSearch("close", "swap")
  <2>1. /\ ~Closed /\ Closed' /\ search' = search
        /\ search_mutex_counter = 0 /\ search_mutex_counter' = -1
    BY <1>3 DEF CloseSearch, Closed
  <2>2. Counted = {} /\ Counted' = Counted
    BY <1>0, <2>1 DEF CountInv, Counted
  <2>. QED  BY <2>1, <2>2 DEF CountInv
<1>4. CASE ReopenSearch \/ HandedOver
  <2>1. Closed /\ ~Closed' /\ search' = search /\ search_mutex_counter' = 0
    BY <1>4 DEF ReopenSearch, HandedOver, Closed
  <2>2. Counted = {} /\ Counted' = Counted
    BY <2>1 DEF CountInv, Counted
  <2>. QED  BY <1>0, <2>1, <2>2 DEF CountInv
<1>5. CASE Swap
  <2>1. Closed /\ Closed' /\ search_mutex_counter' = search_mutex_counter
    BY <1>5 DEF Swap, Closed
  <2>2. Counted = {} /\ Counted' = {}
    BY <1>5, <2>1 DEF CountInv, Counted, Swap, SearchOnOld
  <2>. QED  BY <2>1, <2>2 DEF CountInv
<1>6. CASE Walks
  BY <1>1, <1>6, WalkFrame DEF Closed
<1>7. CASE Leave \/ PushAbove
  BY <1>1, <1>7 DEF Leave, PushAbove, FlagToFather, MainUnchanged, Closed
<1>8. CASE StartSearches \/ SearchesDone
  <2>1. Counted' = Counted /\ UNCHANGED <<search_mutex_counter, thread>>
    BY <1>8 DEF StartSearches, SearchesDone, Counted, LockInv
  <2>. QED  BY <2>1 DEF CountInv, Closed
<1>9. ASSUME NEW s \in Searchers, SearchStep(s) \/ SearchDone(s) PROVE CountInv'
  <2>1. CASE \E to \in {"in", "waiting", "looking", "stray", "done"} :
               /\ search[s] # "counted" /\ search' = [search EXCEPT ![s] = to]
               /\ UNCHANGED <<search_mutex_counter, thread>>
    <3>1. Counted' = Counted
      BY <2>1 DEF Counted, Kinds
    <3>. QED  BY <2>1, <3>1 DEF CountInv, Closed
  <2>2. CASE /\ search[s] # "counted" /\ search' = [search EXCEPT ![s] = "counted"]
             /\ search_mutex_counter # -1 /\ search_mutex_counter' = search_mutex_counter + 1
             /\ thread' = thread
    BY <2>2, CountMoves DEF CountInv, Closed
  <2>3. CASE /\ search[s] = "counted" /\ search' = [search EXCEPT ![s] = "done"]
             /\ search_mutex_counter' = search_mutex_counter - 1 /\ thread' = thread
    <3>1. s \in Counted
      BY <2>3 DEF Counted
    <3>2. ~Closed
      BY <3>1 DEF CountInv
    <3>. QED  BY <2>3, <3>2, CountMoves DEF CountInv, Closed
  <2>4. CASE Descend(s)
    BY <1>1, <2>1, <2>4, DescendFrame DEF Closed
  <2>5. CASE Look(s)
    BY <2>1, <2>5 DEF Look, SearchTo
  <2>6. CASE Enter(s) \/ SearchDone(s)
    BY <2>1, <2>2, <2>3, <2>6 DEF Enter, SearchDone, SearchTo
  <2>. QED  BY <1>9, <2>4, <2>5, <2>6 DEF SearchStep
<1>10. CASE UNCHANGED allVars
  BY <1>1, <1>10 DEF allVars, Closed
<1>. QED  BY <1>2, <1>3, <1>4, <1>5, <1>6, <1>7, <1>8, <1>9, <1>10
           DEF RebuildNext, RebuildStep, MainStep, Walks

LEMMA LockStep ==
  ASSUME Kinds, CountInv, LockInv, [RebuildNext]_allVars PROVE LockInv'
<1>. USE DEF mapVars, rebuildVars, mainVars, ThreadTo, SearchMutexFree, Swapped
<1>1. CASE \/ ReadTermination \/ Wake \/ LockWorkingFlag \/ NothingToDo \/ Drained \/ Free
           \/ Start \/ BuildNew \/ Replay \/ Flatten \/ EndLogging
           \/ CheckFather \/ CheckGrandfather \/ UpdateFather \/ UpdateAbove
  BY <1>1 DEF ReadTermination, Wake, LockWorkingFlag, NothingToDo, Drained, Free, Passes,
       Start, BuildNew, Replay, Flatten, EndLogging, CheckFather, CheckGrandfather,
       UpdateFather, UpdateAbove, LockInv, Kinds
<1>2. CASE CloseSearch("quiesce", "flatten") \/ CloseSearch("close", "swap") \/ ReopenSearch \/ HandedOver
  BY <1>2 DEF CloseSearch, ReopenSearch, HandedOver, LockInv, Kinds
<1>3. CASE Swap
  <2>1. \A s \in Searchers : search[s] \notin {"in", "counted", "old"}
    BY <1>3 DEF Swap, LockInv, CountInv, Closed, Counted
  <2>2. \A s \in Searchers : search'[s] \in {search[s], "looking_old"}
    BY <1>3, <2>1 DEF Swap, SearchOnOld, Kinds
  <2>3. main' = "range_old" => main \in {"range", "range_old"}
    BY <1>3 DEF Swap, MainOnOld
  <2>4. main' = "range" => FALSE
    BY <1>3 DEF Swap, MainOnOld
  <2>5. main' = "searching" <=> main = "searching"
    BY <1>3 DEF Swap, MainOnOld
  <2>6. /\ thread = "swap" /\ thread' = "fathers"
        /\ UNCHANGED <<Rebuild_Ptr, rebuild_flag, at_root, range_lock>>
    BY <1>3 DEF Swap
  <2>7. main' = "range_old" => at_root' \/ (range_lock' /\ thread' \in Swapped)
    BY <2>3, <2>6 DEF LockInv
  <2>8. \A s \in Searchers : /\ search'[s] # "old"
                             /\ search'[s] \in {"in", "looking_old"} => thread' \in Swapped
                             /\ main' # "searching" => search'[s] = "out"
    BY <1>3, <2>1, <2>2, <2>5, <2>6 DEF LockInv, Swap, SearchOnOld, Kinds
  <2>. QED  BY <2>4, <2>6, <2>7, <2>8 DEF LockInv
<1>4. CASE Walks
  <2>1. main' = "range" => at_root \/ range_lock' \/ ~Rebuild_Ptr
    BY <1>4 DEF Walks, AskForLock, Push, PushToOld, FlagToSub, RangeSearch, RangeDone, ApplyUpdate,
         AddUntested, LoadSon, UpdateDone, AddNext, CoverFather, CoverAbove, Begin,
         StopThread, Destroy, MainUnchanged, AfterPush, NoLock, Locked, LockInv
  <2>2. main' = "range_old" => range_lock' = range_lock
    BY <1>4 DEF Walks, AskForLock, Push, PushToOld, FlagToSub, RangeSearch, RangeDone, ApplyUpdate,
         AddUntested, LoadSon, UpdateDone, AddNext, CoverFather, CoverAbove, Begin,
         StopThread, Destroy, MainUnchanged, AfterPush
  <2>. QED  BY <1>4, <2>1, <2>2, WalkFrame DEF LockInv, Kinds
<1>5. CASE Leave
  BY <1>5 DEF Leave, MainUnchanged, LockInv, Kinds
<1>6. CASE PushAbove
  BY <1>6 DEF PushAbove, FlagToFather, LockInv, Kinds
<1>7. CASE StartSearches \/ SearchesDone
  BY <1>7 DEF StartSearches, SearchesDone, LockInv, Kinds
<1>8. ASSUME NEW s \in Searchers, SearchStep(s) \/ SearchDone(s) PROVE LockInv'
  <2>1. CASE Descend(s)
    <3>1. main = "searching"
      BY <2>1, DescendFrame DEF LockInv
    <3>. QED  BY <2>1, <3>1, DescendFrame DEF LockInv, Kinds
  <2>2. CASE Look(s) \/ Enter(s) \/ SearchDone(s)
    <3>1. main = "searching"
      BY <2>2 DEF Look, Enter, SearchDone, SearchTo, LockInv
    <3>. QED  BY <2>2, <3>1 DEF Look, Enter, SearchDone, SearchTo, LockInv, Kinds
  <2>. QED  BY <1>8, <2>1, <2>2 DEF SearchStep
<1>9. CASE UNCHANGED allVars
  BY <1>9 DEF allVars, LockInv
<1>. QED  BY <1>1, <1>2, <1>3, <1>4, <1>5, <1>6, <1>7, <1>8, <1>9
           DEF RebuildNext, RebuildStep, MainStep, Walks

-----------------------------------------------------------------------------
(* A flag that waits in a father waits there while an update is on its way  *)
(* to push it down, and none does while one is below.                       *)
LEMMA FlagStep ==
  ASSUME Kinds, LockInv, FlagInv, [RebuildNext]_allVars PROVE FlagInv'
<1>. USE DEF mapVars, rebuildVars, mainVars, ThreadTo, BelowFather, AtFather
<1>1. CASE \/ ReadTermination \/ Wake \/ LockWorkingFlag \/ NothingToDo \/ Drained \/ Free
           \/ BuildNew \/ Start \/ EndLogging \/ Flatten \/ Replay
           \/ CloseSearch("quiesce", "flatten") \/ CloseSearch("close", "swap") \/ ReopenSearch
           \/ HandedOver \/ CheckFather \/ CheckGrandfather
  <2>1. UNCHANGED <<main, father, above>>
    BY <1>1 DEF ReadTermination, Wake, LockWorkingFlag, NothingToDo, Drained, Free, Passes, BuildNew,
         Start, EndLogging, Flatten, Replay, CloseSearch, ReopenSearch, HandedOver,
         CheckFather, CheckGrandfather
  <2>. QED  BY <2>1 DEF FlagInv
<1>2. CASE UpdateFather \/ UpdateAbove
  <2>1. /\ father' = "none" <=> father = "none"
        /\ above' = "none" <=> above = "none"
        /\ main' = main
    BY <1>2 DEF UpdateFather, UpdateAbove, Recomputed
  <2>. QED  BY <2>1 DEF FlagInv
<1>3. CASE Swap
  <2>1. /\ main' \in BelowFather <=> main \in BelowFather
        /\ main' \in AtFather <=> main \in AtFather
    BY <1>3 DEF Swap, MainOnOld
  <2>. QED  BY <1>3, <2>1 DEF FlagInv, Swap
<1>4. CASE Push \/ PushToOld
  BY <1>4 DEF Push, PushToOld, FlagToSub, NoLock, Locked, AfterPush, FlagInv
<1>5. CASE \/ AskForLock("to_push", "lock_push") \/ AskForLock("to_sub", "lock_sub")
           \/ AskForLock("to_range", "lock_range") \/ RangeSearch \/ RangeDone
           \/ ApplyUpdate \/ AddUntested \/ Leave \/ LoadSon \/ UpdateDone \/ AddNext
  <2>1. /\ UNCHANGED <<father, above>>
        /\ main' \in BelowFather => main \in BelowFather
        /\ main' \in AtFather => main \in AtFather
    BY <1>5 DEF AskForLock, RangeSearch, RangeDone, ApplyUpdate, AddUntested, Leave, LoadSon,
         UpdateDone, AddNext, NoLock, Locked
  <2>. QED  BY <2>1 DEF FlagInv
<1>6. CASE CoverFather \/ CoverAbove \/ PushAbove \/ StopThread \/ Destroy \/ StartSearches \/ SearchesDone
  BY <1>6 DEF CoverFather, CoverAbove, PushAbove, FlagToFather, StopThread, Destroy,
       StartSearches, SearchesDone, FlagInv
<1>7. ASSUME NEW o \in Adds \cup Deletes \cup Downsamples \cup {PassBy}, Begin(o) PROVE FlagInv'
  BY <1>7 DEF Begin, AfterPush, FlagInv
<1>8. ASSUME NEW s \in Searchers, SearchStep(s) \/ SearchDone(s) PROVE FlagInv'
  <2>1. CASE Descend(s)
    <3>1. main = "searching" /\ main' = main
      BY <2>1, DescendFrame DEF LockInv
    <3>. QED  BY <3>1 DEF FlagInv
  <2>2. CASE Look(s) \/ Enter(s) \/ SearchDone(s)
    BY <2>2 DEF Look, Enter, SearchDone, SearchTo, FlagInv
  <2>. QED  BY <1>8, <2>1, <2>2 DEF SearchStep
<1>9. CASE UNCHANGED allVars
  BY <1>9 DEF allVars, FlagInv
<1>. QED  BY <1>1, <1>2, <1>3, <1>4, <1>5, <1>6, <1>7, <1>8, <1>9
           DEF RebuildNext, RebuildStep, MainStep

(* What has not been logged, replayed, or pushed down.                      *)
LEMMA LogStep ==
  ASSUME Kinds, LockInv, FlagInv, LogInv, [RebuildNext]_allVars PROVE LogInv'
<1>. USE DEF mapVars, rebuildVars, mainVars, ThreadTo
<1>1. CASE \/ ReadTermination \/ Wake \/ LockWorkingFlag \/ NothingToDo \/ Free
           \/ BuildNew \/ Start \/ EndLogging
           \/ CloseSearch("quiesce", "flatten") \/ CloseSearch("close", "swap") \/ ReopenSearch
           \/ HandedOver \/ CheckFather \/ CheckGrandfather
  BY <1>1 DEF ReadTermination, Wake, LockWorkingFlag, NothingToDo, Free, Passes, BuildNew,
       Start, EndLogging, CloseSearch, ReopenSearch, HandedOver, CheckFather, CheckGrandfather,
       LogInv, Kinds
<1>2. CASE Flatten
  <2>1. Replayed(<<>>, sub) = sub
    BY ReplayedNothing DEF Kinds
  <2>. QED  BY <1>2, <2>1 DEF Flatten, LogInv, Kinds
<1>3. CASE Replay
  <2>1. Replayed(Rebuild_Logger, new_root_node) = Replayed(Rebuild_Logger', new_root_node')
    BY <1>3, ReplayedTail DEF Replay, Kinds
  <2>. QED  BY <1>3, <2>1 DEF Replay, LogInv, Kinds
<1>4. CASE Drained
  <2>1. Replayed(<<>>, new_root_node) = new_root_node
    BY ReplayedNothing DEF Kinds
  <2>. QED  BY <1>4, <2>1 DEF Drained, Passes, LogInv, Kinds
<1>5. CASE Swap
  BY <1>5 DEF Swap, LogInv, Kinds
<1>6. CASE UpdateFather \/ UpdateAbove
  <2>1. mishaps' = {} =>
          /\ mishaps = {} /\ UNCHANGED <<sub, ideal, father, above>>
    BY <1>6 DEF UpdateFather, UpdateAbove, Revives, Recomputed, LogInv, Kinds, Flags
  <2>2. thread' \in {"grandfather", "reopen2"}
    BY <1>6 DEF UpdateFather, UpdateAbove
  <2>. QED  BY <2>1, <2>2 DEF LogInv
<1>7. CASE \/ AskForLock("to_push", "lock_push") \/ AskForLock("to_sub", "lock_sub")
           \/ AskForLock("to_range", "lock_range") \/ RangeSearch \/ RangeDone \/ Leave
           \/ LoadSon \/ UpdateDone \/ AddNext
           \/ StartSearches \/ SearchesDone \/ StopThread
           \/ \E o \in Adds \cup Deletes \cup Downsamples \cup {PassBy} : Begin(o)
           \/ \E s \in Searchers : Look(s) \/ Enter(s) \/ SearchDone(s)
  <2>1. UNCHANGED <<mapVars, Rebuild_Logger, new_root_node, thread>>
    BY <1>7 DEF AskForLock, RangeSearch, RangeDone, Leave, LoadSon, UpdateDone, AddNext,
         StartSearches, SearchesDone, Look, Enter, SearchDone, SearchTo, StopThread, Begin,
         MainUnchanged
  <2>. QED  BY <2>1 DEF LogInv
<1>8. CASE CoverFather \/ CoverAbove
  BY <1>8 DEF CoverFather, CoverAbove, MainUnchanged, LogInv, Kinds
<1>9. CASE PushAbove
  BY <1>9 DEF PushAbove, FlagToFather, LogInv, Kinds, Flags
<1>10. ASSUME NEW s \in Searchers, Descend(s) PROVE LogInv'
  BY <1>10, DescendFrame DEF LogInv
<1>11. ASSUME NEW o \in Ops, sub' = Apply(o, sub),
              \/ (~Rebuild_Ptr \/ thread \in Swapped) /\ UNCHANGED Rebuild_Logger
              \/ ~WorkingFlagHeld /\ Log(o),
              UNCHANGED <<thread, new_root_node>>, mishaps = {}
       PROVE  /\ thread \in {"reopen", "build", "drain"} =>
                   sub' = Replayed(Rebuild_Logger', new_root_node)
              /\ thread \notin {"quiesce", "flatten", "close", "swap"}
  <2>1. CASE ~Rebuild_Ptr
    BY <1>11, <2>1 DEF LockInv
  <2>2. CASE Rebuild_Ptr /\ thread \in {"build", "drain"}
    <3>1. Rebuild_Logger' = Append(Rebuild_Logger, o)
      BY <1>11, <2>2 DEF Log, LockInv, Swapped
    <3>2. sub = Replayed(Rebuild_Logger, new_root_node)
      BY <1>11, <2>2 DEF LogInv
    <3>. QED  BY <1>11, <2>2, <3>1, <3>2, ReplayedAppend DEF Kinds
  <2>3. CASE Rebuild_Ptr /\ thread \notin {"build", "drain"}
    BY <1>11, <2>3 DEF WorkingFlagHeld, Kinds, Swapped
  <2>. QED  BY <2>1, <2>2, <2>3 DEF Kinds
<1>12. CASE Push
  <2>. SUFFICES ASSUME mishaps' = {} PROVE LogInv'
    BY DEF LogInv
  <2>1. /\ mishaps = {} /\ father = "deleted" /\ above = "none"
        /\ UNCHANGED <<mishaps, above, ideal>>
    BY <1>12 DEF Push, FlagToSub, NoLock, Locked, FlagInv, AtFather, LogInv, Kinds, Flags
  <2>2. sub' = {} /\ ideal = {} /\ father' = "none"
    BY <1>12, <2>1 DEF Push, FlagToSub, LogInv
  <2>3. sub' = Apply(PushDown, sub) /\ PushDown \in Ops
    BY <2>2, OpsAreOps DEF Apply, PushDown, Update, Kinds
  <2>4. /\ \/ ~Rebuild_Ptr /\ UNCHANGED Rebuild_Logger
           \/ ~WorkingFlagHeld /\ Log(PushDown)
        /\ UNCHANGED <<thread, new_root_node>>
    BY <1>12, <2>1 DEF Push, FlagToSub, NoLock, Locked, MainUnchanged
  <2>. QED  BY <1>11, <2>1, <2>2, <2>3, <2>4 DEF LogInv
<1>13. CASE PushToOld
  <2>1. mishaps' # {}
    BY <1>13 DEF PushToOld
  <2>. QED  BY <2>1 DEF LogInv
<1>14. CASE ApplyUpdate
  <2>. SUFFICES ASSUME mishaps' = {} PROVE LogInv'
    BY DEF LogInv
  <2>1. /\ mishaps = {} /\ father = "none" /\ above = "none" /\ Part(op) \in Ops
        /\ UNCHANGED <<mishaps, father, above>>
    BY <1>14, OpsAreOps DEF ApplyUpdate, NoLock, Locked, FlagInv, BelowFather, Kinds
  <2>2. /\ \/ (~Rebuild_Ptr \/ thread \in Swapped) /\ UNCHANGED Rebuild_Logger
           \/ ~WorkingFlagHeld /\ Log(Part(op))
        /\ UNCHANGED <<thread, new_root_node>>
        /\ sub' = Apply(Part(op), sub) /\ ideal' = Apply(Part(op), ideal)
    BY <1>14 DEF ApplyUpdate, NoLock, Locked, MainUnchanged
  <2>3. sub' = ideal'
    BY <2>1, <2>2 DEF LogInv
  <2>. QED  BY <1>11, <2>1, <2>2, <2>3 DEF LogInv
<1>15. CASE AddUntested
  <2>. SUFFICES ASSUME mishaps' = {} PROVE LogInv'
    BY DEF LogInv
  <2>1. /\ mishaps = {} /\ father = "none" /\ above = "none"
        /\ UNCHANGED <<mishaps, father, above, thread, Rebuild_Logger>>
        /\ thread \notin {"flatten", "reopen", "build", "drain", "close", "swap"}
        /\ sub' = Apply(op, sub) /\ ideal' = Apply(op, ideal)
    BY <1>15 DEF AddUntested, FlagInv, BelowFather, MainUnchanged
  <2>2. sub' = ideal'
    BY <2>1 DEF LogInv
  <2>. QED  BY <2>1, <2>2 DEF LogInv
<1>16. CASE Destroy
  BY <1>16 DEF Destroy, MainUnchanged, LogInv, Kinds
<1>17. CASE UNCHANGED allVars
  BY <1>17 DEF allVars, LogInv
<1>. QED  BY <1>1, <1>2, <1>3, <1>4, <1>5, <1>6, <1>7, <1>8, <1>9, <1>10, <1>12,
             <1>13, <1>14, <1>15, <1>16, <1>17 DEF RebuildNext, RebuildStep, MainStep, SearchStep

-----------------------------------------------------------------------------
RInv == Kinds /\ CountInv /\ LockInv /\ FlagInv /\ LogInv

LEMMA RInvHolds == RebuildSpec => []RInv
<1>1. RebuildInit => RInv
  <2>1. RebuildInit => FlagInv /\ LogInv
    BY DEF RebuildInit, FlagInv, BelowFather, AtFather, LogInv
  <2>. QED  BY <2>1, KindsInit, CountInit DEF RInv
<1>2. RInv /\ [RebuildNext]_allVars => RInv'
  BY KindsStep, CountStep, LockStep, FlagStep, LogStep DEF RInv
<1>. QED  BY <1>1, <1>2, PTL DEF RebuildSpec

(* The variables keep their kinds, and the counter counts the searches that *)
(* have counted themselves in, one by one; it is -1 just while they are     *)
(* kept out, and then there are none.                                       *)
THEOREM RebuildTypeCorrect == RebuildSpec => [](RebuildTypeOK /\ CounterCounts)
<1>1. RInv => RebuildTypeOK
  <2>. SUFFICES ASSUME RInv PROVE RebuildTypeOK
    OBVIOUS
  <2>1. Cardinality(Counted) \in Nat /\ Cardinality(Counted) <= Cardinality(Searchers)
    BY RebuildAssumption, FS_Subset, FS_CardinalityType DEF Counted
  <2>2. Cardinality(Searchers) \in Nat
    BY RebuildAssumption, FS_CardinalityType
  <2>3. search_mutex_counter \in -1 .. Cardinality(Searchers)
    BY <2>1, <2>2 DEF RInv, CountInv
  <2>4. {working, at_root, Rebuild_Ptr, rebuild_flag, range_lock} \subseteq BOOLEAN
    BY Zenon DEF RInv, Kinds
  <2>. QED  BY <2>3, <2>4 DEF RInv, Kinds, RebuildTypeOK
<1>2. RInv => CounterCounts
  BY DEF RInv, CountInv, Closed, Counted, CounterCounts
<1>. QED  BY RInvHolds, <1>1, <1>2, PTL

(* The map is what it would be without rebuilds: no update made while the   *)
(* subtree was copied, built and swapped is missing or applied twice,       *)
(* unless one of the four mishaps has happened, which are all the ways      *)
(* there are of losing one.                                                 *)
THEOREM NoUpdateIsLost == RebuildSpec => []NoUpdateLost
<1>1. RInv => NoUpdateLost
  BY DEF RInv, LogInv, NoUpdateLost, Kinds, Flags
<1>. QED  BY RInvHolds, <1>1, PTL

(* No search is in the subtree while the rebuild thread pushes its flags    *)
(* down, and none that went in is in the old one when it is freed.          *)
THEOREM HandOverIsAlone == RebuildSpec => []NoSearchInHandOver
<1>1. RInv => NoSearchInHandOver
  BY DEF RInv, LockInv, CountInv, Closed, Counted, NoSearchInHandOver, Swapped
<1>. QED  BY RInvHolds, <1>1, PTL
=============================================================================
