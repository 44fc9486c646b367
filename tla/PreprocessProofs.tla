-------------------------- MODULE PreprocessProofs --------------------------
(***************************************************************************)
(* Proofs about the preprocessing, for messages of any length, any number  *)
(* of rings, any size of a group and any point_filter_num.                 *)
(***************************************************************************)
EXTENDS PreprocessProps, FiniteSetTheorems, SequenceTheorems, WellFoundedInduction, TLAPS

(***************************************************************************)
(* The types.  A message that came from the lidar has typed points, and so *)
(* has all that is made of it.                                             *)
(***************************************************************************)
TimedPoints == [id : Nat, pos : Positions, curvature : Int]
Outputs == [of : SUBSET Nat, times : SUBSET Int]
Loop == {"head", "surf", "edge", "small", "pick"}

ConfigTypes ==
  /\ lidar_type \in LidarTypes /\ feature_enabled \in BOOLEAN
  /\ point_filter_num \in Nat \ {0}

LineTypes ==
  /\ pl \in Seq(TimedPoints)
  /\ ftype \in [1..Size -> Feature]
  /\ intersect \in [1..Size -> {"initial", "computed", "garbage"}]
  /\ pass \in Loop \cup {"idle", "picked", "done", "crashed"}
  /\ i \in Nat \ {0}
  /\ last_state \in BOOLEAN
  /\ last_surface \in {None} \cup (Nat \ {0})

ScanTypes ==
  /\ pl_surf \in Seq(Outputs)
  /\ pl_buff \in [Rings -> Seq(TimedPoints)]
  /\ line \in 0..N_SCANS

Types == ConfigTypes /\ LineTypes /\ ScanTypes

(* Before the message nothing has been written.                            *)
FreshInv == msg = None => pass = "idle" /\ pl = <<>> /\ pl_surf = <<>> /\ pl_buff = NoLines /\ line = 0

(* The angle of a point is garbage only where a neighbour is blind.        *)
GarbageInv ==
  \A k \in 1..Size : intersect[k] = "garbage" => Blind(k - 1) \/ Blind(k + 1)

FeatureInv == Types /\ FreshInv /\ BlindNeverUsed /\ GarbageInv

-----------------------------------------------------------------------------
(* Numbers and sequences.                                                  *)

(* A set of numbers up to n that is not empty has a least one.             *)
LEMMA Least ==
  ASSUME NEW n \in Nat, NEW T, T \subseteq 0..n, T # {}
  PROVE  \E m \in T : \A x \in T : m <= x
<1> DEFINE S == 0..n
           R == StrictSubsetOrdering(S)
           W == {0..x : x \in T}
<1>1. IsFiniteSet(S) /\ W # {}
  <2>1. IsFiniteSet(S)
    BY FS_Interval
  <2>2. PICK x \in T : TRUE
    OBVIOUS
  <2>3. 0..x \in W
    OBVIOUS
  <2> QED
    BY <2>1, <2>3
<1>2. W \subseteq FiniteSubsetsOf(S)
  <2>1. \A x \in T : 0..x \subseteq S
    OBVIOUS
  <2>2. \A w \in W : w \subseteq S
    BY <2>1
  <2> QED
    BY <1>1, <2>2, FS_Subset DEF FiniteSubsetsOf
<1>3. IsWellFoundedOn(R, FiniteSubsetsOf(S))
  BY <1>1, FS_StrictSubsetOrderingWellFounded
<1> HIDE DEF S, R, W
<1>4. PICK w \in W : \A y \in W : ~(<<y, w>> \in R)
  BY <1>1, <1>2, <1>3, WFMin
<1>5. PICK m \in T : w = 0..m
  BY DEF W
<1>6. ASSUME NEW x \in T, ~(m <= x)
      PROVE  FALSE
  <2>1. 0..x \in W
    BY DEF W
  <2>2. x \in Nat /\ m \in Nat
    OBVIOUS
  <2>3. 0..x \subseteq 0..m /\ m \in 0..m /\ m \notin 0..x
    BY <1>6, <2>2
  <2>4. 0..x \subseteq S /\ 0..m \subseteq S
    BY <2>2 DEF S
  <2>5. <<0..x, 0..m>> \in R
    BY <2>3, <2>4 DEF R, StrictSubsetOrdering
  <2> QED
    BY <1>4, <1>5, <2>1, <2>5
<1> QED
  BY <1>6

-----------------------------------------------------------------------------
(* The features of a line: the four loops.                                 *)

(* FindHead finds a point, or runs one past the end over blind points.     *)
LEMMA FirstFarIs ==
  ASSUME Size \in Nat
  PROVE  /\ FirstFar \in 1..Size+1
         /\ FirstFar <= Size => ~Blind(FirstFar)
         /\ \A k \in 1..FirstFar-1 : Blind(k)
<1> DEFINE T == {h \in 1..Size+1 : h <= Size => ~Blind(h)}
<1>1. T # {} /\ T \subseteq 0..Size+1 /\ Size + 1 \in Nat
  <2> HIDE DEF Size
  <2>1. Size + 1 \in 1..Size+1 /\ ~(Size + 1 <= Size) /\ Size + 1 \in Nat
    OBVIOUS
  <2>2. Size + 1 \in T
    BY <2>1
  <2>3. T \subseteq 0..Size+1
    OBVIOUS
  <2> QED
    BY <2>1, <2>2, <2>3
<1> HIDE DEF T
<1>2. PICK m \in T : \A x \in T : m <= x
  BY <1>1, Least
<1>3. m \in 1..Size+1 /\ (m <= Size => ~Blind(m))
  BY DEF T
<1>4. ASSUME NEW k \in 1..m-1
      PROVE  Blind(k)
  <2>1. k \in 1..Size+1 /\ ~(m <= k) /\ k <= Size
    BY <1>3
  <2> QED
    BY <1>2, <2>1 DEF T
<1>5. \E h \in 1..Size+1 : (h <= Size => ~Blind(h)) /\ \A k \in 1..h-1 : Blind(k)
  BY <1>3, <1>4
<1> HIDE DEF Blind, Size
<1> QED
  BY <1>5 DEF FirstFar

(* What stays of the line in every loop.                                   *)
LoopKeeps == UNCHANGED <<pl, msg, pl_buff, line, lidar_type, feature_enabled, point_filter_num>>

LEMMA SameLine ==
  ASSUME Types, LoopKeeps
  PROVE  /\ Size \in Nat /\ Size' = Size
         /\ \A k : Blind(k)' <=> Blind(k)
  BY DEF Types, LineTypes, LoopKeeps, Size, Blind

LEMMA ExtractKeeps ==
  ASSUME Extract
  PROVE  LoopKeeps
  BY DEF Extract, Loops, FindHead, SkipBlind, JudgePlane, JudgeJump, JudgeSmallPlane,
     PickSurface, PickOther, NextLoop, LoopKeeps

(* A plane has no blind point, nor has the point just behind it.           *)
LEMMA PlaneIsFar ==
  ASSUME Size \in Nat, NEW c \in Nat \ {0}, c <= Size - GroupSize, ~Blind(c), NEW r \in PlaneJudge(c)
  PROVE  /\ r.next \in c..Size+1
         /\ r.type = 1 => r.next > c /\ \A k \in c..r.next : k <= Size => ~Blind(k)
<1>1. GroupSize \in Nat \ {0}
  BY GroupAssumption
<1> HIDE DEF Size, Blind
<1>2. CASE r \in {[type |-> 2, next |-> e] : e \in {k \in c..Size : Blind(k) /\ \A j \in c..k-1 : ~Blind(j)}}
  BY <1>2
<1>3. CASE r \in {[type |-> t, next |-> e] :
                    t \in {0, 1}, e \in {k \in GroupEnds(c) : k <= Size => ~Blind(k)}}
  <2>1. PICK t \in {0, 1}, e \in {k \in GroupEnds(c) : k <= Size => ~Blind(k)} :
          r = [type |-> t, next |-> e]
    BY <1>3
  <2>2. /\ e \in c+GroupSize..Size+1 /\ (e <= Size => ~Blind(e))
        /\ \A k \in c..e-1 : ~Blind(k)
    BY <2>1 DEF GroupEnds
  <2>3. e \in c..Size+1 /\ e > c
    BY <1>1, <2>2
  <2>4. \A k \in c..e : k \in c..e-1 \/ k = e
    BY <2>3
  <2> QED
    BY <2>1, <2>2, <2>3, <2>4
<1> QED
  BY <1>2, <1>3 DEF PlaneJudge

(* The plane loop marks only points that are not blind.                    *)
LEMMA MarkPlaneIs ==
  ASSUME LineTypes, NEW c \in 1..Size, NEW e \in c..Size+1, NEW turned \in BOOLEAN,
         BlindNeverUsed, \A k \in c..e : k <= Size => ~Blind(k)
  PROVE  /\ MarkPlane(c, e, turned) \in [1..Size -> Feature]
         /\ \A k \in 1..Size : Blind(k) => MarkPlane(c, e, turned)[k] = "Nor"
<1> HIDE DEF Blind
<1>1. ftype \in [1..Size -> Feature] /\ Size \in Nat
  BY DEF LineTypes, Size
<1> HIDE DEF Size
<1>2. ASSUME NEW k \in 1..Size
      PROVE  /\ MarkPlane(c, e, turned)[k] \in Feature
             /\ Blind(k) => MarkPlane(c, e, turned)[k] = "Nor"
  <2>1. MarkPlane(c, e, turned)[k] =
          IF k = c /\ last_state THEN (IF turned THEN "Edge_Plane" ELSE "Real_Plane")
          ELSE IF k \in c+1..e-1 THEN "Real_Plane"
          ELSE IF k \in {c, e} THEN "Poss_Plane"
          ELSE ftype[k]
    BY DEF MarkPlane
  <2>2. MarkPlane(c, e, turned)[k] \in Feature
    BY <1>1, <2>1 DEF Feature, Surface, Edges
  <2>3. ASSUME Blind(k)
        PROVE  MarkPlane(c, e, turned)[k] = "Nor"
    <3>1. k \notin c..e
      BY <2>3
    <3>2. k # c /\ k # e /\ k \notin c+1..e-1
      BY <1>1, <3>1
    <3>3. ftype[k] = "Nor"
      BY <1>1, <2>3 DEF BlindNeverUsed
    <3> QED
      BY <2>1, <3>2, <3>3
  <2> QED
    BY <2>2, <2>3
<1>3. DOMAIN MarkPlane(c, e, turned) = 1..Size
  BY DEF MarkPlane
<1>4. MarkPlane(c, e, turned) \in [1..Size -> Feature]
  <2>1. MarkPlane(c, e, turned) = [k \in 1..Size |-> MarkPlane(c, e, turned)[k]]
    BY DEF MarkPlane
  <2> QED
    BY <1>2, <2>1
<1> QED
  BY <1>2, <1>4

(* Points of the line, and what stands for some of them, have their types. *)
LEMMA StandsIs ==
  ASSUME Types, NEW from \in Nat \ {0}, NEW to \in Int, to <= Size, NEW times, times \in SUBSET Int
  PROVE  /\ Stands(from, to, times) \in Outputs
         /\ \A k \in 1..Size : pl[k].curvature \in Int
         /\ {pl[k].curvature : k \in from..to} \in SUBSET Int
<1>1. \A k \in 1..Size : pl[k] \in TimedPoints
  BY DEF Types, LineTypes, Size
<1>2. \A k \in 1..Size : pl[k].id \in Nat /\ pl[k].curvature \in Int
  BY <1>1 DEF TimedPoints
<1>3. \A k \in from..to : k \in 1..Size
  <2>1. Size \in Nat
    BY DEF Types, LineTypes, Size
  <2> HIDE DEF Size
  <2> QED
    BY <2>1
<1>4. {pl[k].id : k \in from..to} \in SUBSET Nat
  BY <1>2, <1>3
<1> QED
  BY <1>2, <1>3, <1>4 DEF Stands, Outputs

LEMMA LoopsKeepTypes ==
  ASSUME FeatureInv, Extract
  PROVE  Types'
<1>1. LoopKeeps
  BY ExtractKeeps
<1>2. Size \in Nat /\ Size' = Size
  BY <1>1, SameLine DEF FeatureInv
<1>3. ConfigTypes' /\ pl' \in Seq(TimedPoints) /\ pl_buff' \in [Rings -> Seq(TimedPoints)]
      /\ line' \in 0..N_SCANS
  BY <1>1 DEF FeatureInv, Types, ConfigTypes, LineTypes, ScanTypes, LoopKeeps, Rings
<1>4. /\ ftype \in [1..Size -> Feature]
      /\ intersect \in [1..Size -> {"initial", "computed", "garbage"}]
      /\ i \in Nat \ {0} /\ last_state \in BOOLEAN /\ last_surface \in {None} \cup (Nat \ {0})
      /\ pl_surf \in Seq(Outputs)
  BY DEF FeatureInv, Types, LineTypes, ScanTypes
<1>5. /\ GroupSize \in Nat \ {0}
      /\ FirstFar \in 1..Size+1
  BY <1>2, GroupAssumption, FirstFarIs
<1> SUFFICES /\ ftype' \in [1..Size -> Feature]
             /\ intersect' \in [1..Size -> {"initial", "computed", "garbage"}]
             /\ pass' \in Loop \cup {"idle", "picked", "done", "crashed"}
             /\ i' \in Nat \ {0} /\ last_state' \in BOOLEAN
             /\ last_surface' \in {None} \cup (Nat \ {0})
             /\ pl_surf' \in Seq(Outputs)
  BY <1>2, <1>3 DEF Types, LineTypes, ScanTypes
<1> HIDE DEF Size, FirstFar
<1>6. CASE FindHead
  BY <1>2, <1>4, <1>5, <1>6 DEF FindHead, Loop
<1>7. CASE SkipBlind
  BY <1>4, <1>7 DEF SkipBlind, Loop
<1>8. CASE JudgePlane
  <2>1. PICK r \in PlaneJudge(i) :
          IF r.type = 1
          THEN /\ \E turned \in BOOLEAN : ftype' = MarkPlane(i, r.next, turned)
               /\ i' = r.next /\ last_state' = TRUE
          ELSE i' = r.next + 1 /\ last_state' = FALSE /\ UNCHANGED ftype
    BY <1>8 DEF JudgePlane, AfterPlane
  <2>2. /\ pass = "surf" /\ i <= Size - GroupSize /\ ~Blind(i)
        /\ UNCHANGED <<intersect, pass, last_surface, pl_surf>>
    BY <1>8 DEF JudgePlane
  <2>3. /\ r.next \in i..Size+1
        /\ r.type = 1 => \A k \in i..r.next : k <= Size => ~Blind(k)
    BY <1>2, <1>4, <2>2, PlaneIsFar
  <2>4. i' \in Nat \ {0} /\ last_state' \in BOOLEAN
    <3>1. r.next \in Nat \ {0} /\ r.next + 1 \in Nat \ {0}
      BY <1>2, <1>4, <2>3
    <3>2. i' \in {r.next, r.next + 1} /\ last_state' \in {TRUE, FALSE}
      BY <2>1
    <3> QED
      BY <3>1, <3>2
  <2>5. ftype' \in [1..Size -> Feature]
    <3>1. i \in 1..Size
      BY <1>2, <1>4, <1>5, <2>2
    <3> QED
      BY <1>4, <2>1, <2>3, <3>1, MarkPlaneIs DEF FeatureInv, Types
  <2> QED
    BY <1>4, <2>2, <2>4, <2>5 DEF Loop
<1>9. CASE JudgeJump
  <2>1. /\ pass = "edge" /\ i' = i + 1 /\ UNCHANGED <<pass, last_state, last_surface, pl_surf>>
        /\ \/ UNCHANGED <<ftype, intersect>>
           \/ \E far, test \in BOOLEAN :
              \E prev \in JumpOf(i - 1, far), next \in JumpOf(i + 1, far) :
                 /\ intersect' = [intersect EXCEPT ![i] =
                       IF Blind(i - 1) \/ Blind(i + 1) THEN "garbage" ELSE "computed"]
                 /\ ftype' = [ftype EXCEPT ![i] = JumpMark(i, prev, next, test)]
    BY <1>9 DEF JudgeJump
  <2>2. ASSUME NEW prev, NEW next, NEW test
        PROVE  i \in 1..Size => JumpMark(i, prev, next, test) \in Feature
    BY <1>4 DEF JumpMark, Feature, Edges
  <2>3. ftype' \in [1..Size -> Feature]
    BY <1>4, <2>1, <2>2
  <2>4. intersect' \in [1..Size -> {"initial", "computed", "garbage"}]
    BY <1>4, <2>1
  <2> QED
    BY <1>4, <2>1, <2>3, <2>4 DEF Loop
<1>10. CASE JudgeSmallPlane
  <2>1. ftype' \in [1..Size -> Feature]
    BY <1>4, <1>10 DEF JudgeSmallPlane, Feature, Surface
  <2> QED
    BY <1>4, <1>10, <2>1 DEF JudgeSmallPlane, Loop
<1>11. CASE PickSurface
  <2> DEFINE start == IF last_surface = None THEN i ELSE last_surface
  <2>1. /\ pass = "pick" /\ i \in 1..Size /\ i' = i + 1
        /\ UNCHANGED <<ftype, intersect, pass, last_state>>
        /\ \/ /\ pl_surf' = Append(pl_surf, Stands(start, i, {pl[i].curvature}))
              /\ last_surface' = None
           \/ last_surface' = start /\ UNCHANGED pl_surf
    BY <1>2, <1>4, <1>11 DEF PickSurface
  <2> HIDE DEF start
  <2>3. CASE /\ pl_surf' = Append(pl_surf, Stands(start, i, {pl[i].curvature}))
             /\ last_surface' = None
    <3>1. start \in Nat \ {0}
      BY <1>4 DEF start
    <3>2. {pl[i].curvature} \in SUBSET Int
      <4>1. pl[i] \in TimedPoints
        BY <1>1, <2>1 DEF FeatureInv, Types, LineTypes, Size
      <4> QED
        BY <4>1 DEF TimedPoints
    <3>3. Stands(start, i, {pl[i].curvature}) \in Outputs
      BY <1>2, <2>1, <3>1, <3>2, StandsIs DEF FeatureInv
    <3> QED
      BY <1>4, <2>1, <2>3, <3>3 DEF Loop
  <2>4. CASE last_surface' = start /\ UNCHANGED pl_surf
    BY <1>4, <2>1, <2>4 DEF Loop, start
  <2> QED
    BY <2>1, <2>3, <2>4
<1>12. CASE PickOther
  <2>1. /\ pass = "pick" /\ i \in 1..Size /\ i' = i + 1 /\ last_surface' = None
        /\ UNCHANGED <<ftype, intersect, pass, last_state>>
        /\ pl_surf' = IF last_surface = None THEN pl_surf
                      ELSE Append(pl_surf, Stands(last_surface, i - 1,
                                                  {pl[k].curvature : k \in last_surface..i-1}))
    BY <1>2, <1>4, <1>12 DEF PickOther
  <2>2. CASE last_surface = None
    BY <1>4, <2>1, <2>2 DEF Loop
  <2>3. CASE last_surface # None
    <3>1. last_surface \in Nat \ {0} /\ i - 1 \in Int /\ i - 1 <= Size
      BY <1>2, <1>4, <2>1, <2>3
    <3>2. {pl[k].curvature : k \in last_surface..i-1} \in SUBSET Int
      BY <3>1, StandsIs DEF FeatureInv
    <3>3. Stands(last_surface, i - 1, {pl[k].curvature : k \in last_surface..i-1}) \in Outputs
      BY <3>1, <3>2, StandsIs DEF FeatureInv
    <3> QED
      BY <1>4, <2>1, <2>3, <3>3 DEF Loop
  <2> QED
    BY <2>2, <2>3
<1>13. CASE NextLoop
  BY <1>2, <1>4, <1>5, <1>13 DEF NextLoop, Loop
<1> QED
  BY <1>6, <1>7, <1>8, <1>9, <1>10, <1>11, <1>12, <1>13 DEF Extract, Loops

(* The marks: each loop marks only points that are not blind, though it    *)
(* looks at other ones.                                                    *)
LEMMA LoopsKeepBlind ==
  ASSUME FeatureInv, Extract
  PROVE  BlindNeverUsed'
<1>1. LoopKeeps
  BY ExtractKeeps
<1>2. Size \in Nat /\ Size' = Size /\ \A k : Blind(k)' <=> Blind(k)
  BY <1>1, SameLine DEF FeatureInv
<1>3. /\ ftype \in [1..Size -> Feature] /\ i \in Nat \ {0} /\ GroupSize \in Nat \ {0}
      /\ \A k \in 1..Size : Blind(k) => ftype[k] = "Nor"
  BY GroupAssumption DEF FeatureInv, Types, LineTypes, BlindNeverUsed
<1>4. ftype' \in [1..Size -> Feature]
  BY <1>2, LoopsKeepTypes DEF Types, LineTypes
<1> SUFFICES ASSUME NEW k \in 1..Size, Blind(k)
             PROVE  ftype'[k] = "Nor"
  BY <1>2, <1>4 DEF BlindNeverUsed
<1>5. ftype[k] = "Nor"
  BY <1>3
<1> HIDE DEF Blind, Size
<1>6. CASE UNCHANGED ftype
  BY <1>5, <1>6
<1>7. CASE JudgePlane
  <2>1. /\ i <= Size - GroupSize /\ ~Blind(i)
        /\ \E r \in PlaneJudge(i) :
              \/ UNCHANGED ftype
              \/ r.type = 1 /\ \E turned \in BOOLEAN : ftype' = MarkPlane(i, r.next, turned)
    BY <1>7 DEF JudgePlane
  <2>2. PICK r \in PlaneJudge(i) :
              \/ UNCHANGED ftype
              \/ r.type = 1 /\ \E turned \in BOOLEAN : ftype' = MarkPlane(i, r.next, turned)
    BY <2>1
  <2>3. CASE r.type = 1 /\ \E turned \in BOOLEAN : ftype' = MarkPlane(i, r.next, turned)
    <3>1. /\ r.next \in i..Size+1
          /\ \A j \in i..r.next : j <= Size => ~Blind(j)
      BY <1>2, <1>3, <2>1, <2>3, PlaneIsFar
    <3>2. i \in 1..Size
      BY <1>2, <1>3, <2>1
    <3> QED
      BY <2>3, <3>1, <3>2, MarkPlaneIs DEF FeatureInv, Types
  <2> QED
    BY <1>6, <2>2, <2>3
<1>8. CASE JudgeJump
  <2>1. UNCHANGED ftype \/ (~Blind(i) /\ \E x : ftype' = [ftype EXCEPT ![i] = x])
    BY <1>8 DEF JudgeJump
  <2>2. CASE ~Blind(i) /\ \E x : ftype' = [ftype EXCEPT ![i] = x]
    <3>1. k # i
      BY <2>2
    <3> QED
      BY <1>3, <1>5, <2>2, <3>1
  <2> QED
    BY <1>6, <2>1, <2>2
<1>9. CASE JudgeSmallPlane
  <2>1. \/ UNCHANGED ftype
        \/ /\ ~Blind(i) /\ ~Blind(i - 1) /\ ~Blind(i + 1)
           /\ ftype' = [j \in 1..Size |->
                IF j \in {i - 1, i, i + 1} /\ ftype[j] = "Nor" THEN "Real_Plane" ELSE ftype[j]]
    BY <1>9 DEF JudgeSmallPlane, SmallPlaneCandidate
  <2>2. CASE /\ ~Blind(i) /\ ~Blind(i - 1) /\ ~Blind(i + 1)
             /\ ftype' = [j \in 1..Size |->
                  IF j \in {i - 1, i, i + 1} /\ ftype[j] = "Nor" THEN "Real_Plane" ELSE ftype[j]]
    <3>1. k \notin {i - 1, i, i + 1}
      BY <2>2
    <3> QED
      BY <1>5, <2>2, <3>1
  <2> QED
    BY <1>6, <2>1, <2>2
<1> QED
  BY <1>6, <1>7, <1>8, <1>9 DEF Extract, Loops, FindHead, SkipBlind, PickSurface, PickOther, NextLoop

LEMMA LoopsKeepGarbage ==
  ASSUME FeatureInv, Extract
  PROVE  GarbageInv'
<1>1. LoopKeeps
  BY ExtractKeeps
<1>2. Size \in Nat /\ Size' = Size /\ \A k : Blind(k)' <=> Blind(k)
  BY <1>1, SameLine DEF FeatureInv
<1>3. /\ intersect \in [1..Size -> {"initial", "computed", "garbage"}] /\ i \in Nat \ {0}
      /\ \A k \in 1..Size : intersect[k] = "garbage" => Blind(k - 1) \/ Blind(k + 1)
  BY DEF FeatureInv, Types, LineTypes, GarbageInv
<1> SUFFICES ASSUME NEW k \in 1..Size, intersect'[k] = "garbage"
             PROVE  Blind(k - 1) \/ Blind(k + 1)
  BY <1>2 DEF GarbageInv
<1> HIDE DEF Blind, Size
<1>4. \/ UNCHANGED intersect
      \/ intersect' = [intersect EXCEPT ![i] =
                          IF Blind(i - 1) \/ Blind(i + 1) THEN "garbage" ELSE "computed"]
  BY DEF Extract, Loops, FindHead, SkipBlind, JudgePlane, JudgeJump, JudgeSmallPlane,
     PickSurface, PickOther, NextLoop
<1>5. CASE UNCHANGED intersect
  BY <1>3, <1>5
<1>6. CASE intersect' = [intersect EXCEPT ![i] =
                           IF Blind(i - 1) \/ Blind(i + 1) THEN "garbage" ELSE "computed"]
  <2>1. CASE k = i
    BY <1>3, <1>6, <2>1
  <2>2. CASE k # i
    <3>1. intersect'[k] = intersect[k]
      BY <1>3, <1>6, <2>2
    <3> QED
      BY <1>3, <3>1
  <2> QED
    BY <2>1, <2>2
<1> QED
  BY <1>4, <1>5, <1>6

LEMMA LoopsKeepFeatureInv ==
  ASSUME FeatureInv, Extract
  PROVE  FeatureInv'
<1>1. pass # "idle"
  BY DEF Extract, Loops, FindHead, SkipBlind, JudgePlane, JudgeJump, JudgeSmallPlane,
     PickSurface, PickOther, NextLoop
<1>2. FreshInv'
  BY <1>1, ExtractKeeps DEF FeatureInv, FreshInv, LoopKeeps
<1> QED
  BY <1>2, LoopsKeepTypes, LoopsKeepBlind, LoopsKeepGarbage DEF FeatureInv

-----------------------------------------------------------------------------
(* The handlers: one pass over the points of a message.                    *)
Pass(f, m, n) == f = [k \in 0..n |-> IF k = 0 THEN Nothing(m) ELSE HandledPoint(f[k - 1], m[k])]

LEMMA PassExists ==
  ASSUME NEW m \in Seq(Points), NEW n \in Nat
  PROVE  \E f : Pass(f, m, n)
<1> DEFINE T == {k \in 0..n : ~ \E f : Pass(f, m, k)}
<1>0. n \in 0..n
  OBVIOUS
<1> SUFFICES ASSUME T # {}
             PROVE  FALSE
  BY <1>0
<1> HIDE DEF T
<1>1. PICK k \in T : \A x \in T : k <= x
  <2>1. T \subseteq 0..n
    BY DEF T
  <2> QED
    BY <2>1, Least
<1>2. k \in 0..n /\ ~ \E f : Pass(f, m, k)
  BY DEF T
<1>3. CASE k = 0
  <2> DEFINE f == [x \in 0..0 |-> Nothing(m)]
  <2>1. \A x \in 0..0 : x = 0
    OBVIOUS
  <2>2. Pass(f, m, 0)
    BY <2>1 DEF Pass
  <2> QED
    BY <1>2, <1>3, <2>2
<1>4. CASE k # 0
  <2>1. k - 1 \in 0..n /\ ~(k <= k - 1) /\ k \in Nat /\ n \in Nat
    BY <1>2, <1>4
  <2>2. PICK f : Pass(f, m, k - 1)
    BY <1>1, <2>1 DEF T
  <2> DEFINE g == [x \in 0..k |-> IF x <= k - 1 THEN f[x] ELSE HandledPoint(f[k - 1], m[k])]
  <2>3. \A x \in 0..k : g[x] = IF x = 0 THEN Nothing(m) ELSE HandledPoint(g[x - 1], m[x])
    <3> SUFFICES ASSUME NEW x \in 0..k
                 PROVE  g[x] = IF x = 0 THEN Nothing(m) ELSE HandledPoint(g[x - 1], m[x])
      OBVIOUS
    <3>1. CASE x = 0
      <4>1. 0 \in 0..k-1 /\ 0 <= k - 1
        BY <1>4, <2>1
      <4>2. f[0] = Nothing(m)
        BY <2>2, <4>1 DEF Pass
      <4>3. g[0] = f[0]
        BY <2>1, <4>1
      <4> QED
        BY <3>1, <4>2, <4>3
    <3>2. CASE x # 0 /\ x <= k - 1
      <4>1. x \in 0..k-1 /\ x - 1 \in 0..k /\ x - 1 <= k - 1
        BY <2>1, <3>2
      <4>2. f[x] = HandledPoint(f[x - 1], m[x])
        BY <2>2, <3>2, <4>1 DEF Pass
      <4>3. g[x] = f[x] /\ g[x - 1] = f[x - 1]
        BY <3>2, <4>1
      <4> QED
        BY <3>2, <4>2, <4>3
    <3>3. CASE x # 0 /\ ~(x <= k - 1)
      <4>1. x = k /\ k - 1 \in 0..k /\ k - 1 <= k - 1
        BY <1>4, <2>1, <3>3
      <4>2. g[k] = HandledPoint(f[k - 1], m[k]) /\ g[k - 1] = f[k - 1]
        BY <3>3, <4>1
      <4> QED
        BY <3>3, <4>1, <4>2
    <3> QED
      BY <3>1, <3>2, <3>3
  <2>4. Pass(g, m, k)
    <3> DEFINE h == [x \in 0..k |-> IF x = 0 THEN Nothing(m) ELSE HandledPoint(g[x - 1], m[x])]
    <3>1. DOMAIN g = 0..k /\ g = [x \in 0..k |-> g[x]]
      OBVIOUS
    <3> HIDE DEF g
    <3>2. g = h
      BY <2>3, <3>1
    <3> QED
      BY <3>2 DEF Pass
  <2> QED
    BY <1>2, <2>4
<1> QED
  BY <1>3, <1>4

LEMMA HandledIs ==
  ASSUME NEW m \in Seq(Points)
  PROVE  \E f : Pass(f, m, Len(m)) /\ Handled(m) = f[Len(m)]
<1> DEFINE f == CHOOSE g : Pass(g, m, Len(m))
<1>1. Pass(f, m, Len(m))
  BY PassExists
<1>2. Handled(m) = f[Len(m)]
  BY DEF Handled, Pass
<1> QED
  BY <1>1, <1>2

(* The time the code gives a point is the one it was measured at.          *)
Untimed(m) == lidar_type = "MID360" \/ (lidar_type = "VELO16" /\ ~(m # <<>> /\ Given(m)))
Measured(m, p) == IF lidar_type = "other" THEN 0 ELSE IF Untimed(m) THEN p.turned ELSE p.time

(* The lines have no point in common and none twice.                       *)
LinesApart(buff) ==
  \A r, s \in Rings : \A x \in DOMAIN buff[r], y \in DOMAIN buff[s] :
     buff[r][x].id = buff[s][y].id => r = s /\ x = y

(* After k points: what is kept of them, on lines or alone.                *)
BuffInv(buff, m, k) ==
  /\ buff \in [Rings -> Seq(TimedPoints)]
  /\ \A r \in Rings : \A x \in DOMAIN buff[r] :
       \E j \in 1..k : buff[r][x] = Timed(m[j], Measured(m, m[j]))
  /\ LinesApart(buff)

SurfInv(surf, m, k) ==
  /\ surf \in Seq(Outputs)
  /\ \A x \in DOMAIN surf :
       \E j \in 1..k : surf[x] = [of |-> {m[j].id}, times |-> {Measured(m, m[j])}]

(* A message the lidar sends.                                              *)
IsMessage(m) ==
  /\ m \in Seq(Points) /\ m # None
  /\ \A k \in DOMAIN m : m[k].id = k - 1
  /\ Untimed(m) => Rotates(m)

LEMMA MessageIs ==
  ASSUME ConfigTypes, NEW m \in Messages(lidar_type, feature_enabled)
  PROVE  IsMessage(m)
<1>1. /\ m \in Seq(Points) /\ m # None
      /\ \A k \in DOMAIN m : m[k].id = k - 1
      /\ lidar_type = "MID360" \/ (lidar_type = "VELO16" /\ m # <<>> /\ ~Given(m)) => Rotates(m)
  BY PreprocessAssumption DEF ConfigTypes
<1>2. m = <<>> => Rotates(m)
  BY DEF Rotates
<1> QED
  BY <1>1, <1>2 DEF IsMessage, Untimed

LEMMA PointIs ==
  ASSUME NEW m, IsMessage(m), NEW k \in 1..Len(m)
  PROVE  /\ m[k] \in Points /\ m[k].id = k - 1
         /\ Measured(m, m[k]) \in Int
         /\ Timed(m[k], Measured(m, m[k])) \in TimedPoints
<1>1. m[k] \in Points /\ m[k].id = k - 1
  BY DEF IsMessage
<1>2. Measured(m, m[k]) \in Int
  BY <1>1 DEF Measured, Points
<1>3. Timed(m[k], Measured(m, m[k])) \in TimedPoints
  BY <1>1, <1>2 DEF Timed, TimedPoints, Points
<1> QED
  BY <1>1, <1>2, <1>3

LEMMA MorePoints ==
  ASSUME NEW m, NEW k \in Nat \ {0}
  PROVE  /\ \A buff : BuffInv(buff, m, k - 1) => BuffInv(buff, m, k)
         /\ \A surf : SurfInv(surf, m, k - 1) => SurfInv(surf, m, k)
<1>1. \A j \in 1..k-1 : j \in 1..k
  OBVIOUS
<1> QED
  BY <1>1 DEF BuffInv, SurfInv

(* A point goes to the end of its line.                                    *)
LEMMA OnLineKeeps ==
  ASSUME NEW m, IsMessage(m), NEW k \in 1..Len(m), NEW buff, BuffInv(buff, m, k - 1),
         m[k].ring \in Rings
  PROVE  BuffInv(OnLine(buff, m[k], Measured(m, m[k])), m, k)
<1> DEFINE p == m[k]
           q == Timed(p, Measured(m, p))
           new == OnLine(buff, p, Measured(m, p))
<1>1. /\ q \in TimedPoints /\ q.id = k - 1 /\ k \in Nat \ {0}
  <2>1. Len(m) \in Nat
    BY DEF IsMessage
  <2>2. q.id = p.id
    BY DEF Timed
  <2> QED
    BY <2>1, <2>2, PointIs
<1>2. /\ buff \in [Rings -> Seq(TimedPoints)] /\ p.ring \in Rings
      /\ new = [buff EXCEPT ![p.ring] = Append(@, q)]
  BY DEF BuffInv, OnLine
<1>3. \A r \in Rings : r # p.ring => new[r] = buff[r]
  BY <1>2
<1>4. /\ buff[p.ring] \in Seq(TimedPoints) /\ new[p.ring] = Append(buff[p.ring], q)
  BY <1>2
<1> DEFINE n == Len(buff[p.ring])
<1>5. /\ n \in Nat /\ new[p.ring] \in Seq(TimedPoints) /\ Len(new[p.ring]) = n + 1
      /\ DOMAIN new[p.ring] = 1..n+1 /\ DOMAIN buff[p.ring] = 1..n
      /\ new[p.ring][n + 1] = q
      /\ \A x \in 1..n : new[p.ring][x] = buff[p.ring][x]
  BY <1>1, <1>4
<1>6. new \in [Rings -> Seq(TimedPoints)]
  BY <1>2, <1>4, <1>5
<1> HIDE DEF new, q, n
<1>7. \A r \in Rings : \A x \in DOMAIN new[r] :
        \/ r = p.ring /\ x = n + 1 /\ new[r][x] = q
        \/ x \in DOMAIN buff[r] /\ new[r][x] = buff[r][x]
  <2> SUFFICES ASSUME NEW r \in Rings, NEW x \in DOMAIN new[r]
               PROVE  \/ r = p.ring /\ x = n + 1 /\ new[r][x] = q
                      \/ x \in DOMAIN buff[r] /\ new[r][x] = buff[r][x]
    OBVIOUS
  <2>1. CASE r # p.ring
    BY <1>3, <2>1
  <2>2. CASE r = p.ring
    <3>1. x \in 1..n \/ x = n + 1
      BY <1>5, <2>2
    <3> QED
      BY <1>5, <2>2, <3>1
  <2> QED
    BY <2>1, <2>2
<1>8. \A r \in Rings : \A x \in DOMAIN buff[r] :
        /\ \E j \in 1..k : buff[r][x] = Timed(m[j], Measured(m, m[j]))
        /\ buff[r][x].id # q.id
  <2> SUFFICES ASSUME NEW r \in Rings, NEW x \in DOMAIN buff[r]
               PROVE  /\ \E j \in 1..k : buff[r][x] = Timed(m[j], Measured(m, m[j]))
                      /\ buff[r][x].id # q.id
    OBVIOUS
  <2>1. PICK j \in 1..k-1 : buff[r][x] = Timed(m[j], Measured(m, m[j]))
    BY DEF BuffInv
  <2>2. j \in 1..k /\ j \in 1..Len(m) /\ j \in Int /\ j < k
    BY <1>1
  <2>3. buff[r][x].id = j - 1
    BY <2>1, <2>2, PointIs DEF Timed
  <2> QED
    BY <1>1, <2>1, <2>2, <2>3
<1>9. \A r \in Rings : \A x \in DOMAIN new[r] :
        \E j \in 1..k : new[r][x] = Timed(m[j], Measured(m, m[j]))
  <2>1. k \in 1..k /\ q = Timed(m[k], Measured(m, m[k]))
    BY <1>1 DEF q
  <2> QED
    BY <1>7, <1>8, <2>1
<1>10. LinesApart(new)
  <2> SUFFICES ASSUME NEW r \in Rings, NEW s \in Rings, NEW x \in DOMAIN new[r],
                      NEW y \in DOMAIN new[s], new[r][x].id = new[s][y].id
               PROVE  r = s /\ x = y
    BY DEF LinesApart
  <2>1. CASE x \in DOMAIN buff[r] /\ new[r][x] = buff[r][x]
             /\ y \in DOMAIN buff[s] /\ new[s][y] = buff[s][y]
    BY <2>1 DEF BuffInv, LinesApart
  <2> QED
    BY <1>7, <1>8, <2>1
<1> QED
  BY <1>6, <1>9, <1>10 DEF BuffInv, new

(* A point goes on alone.                                                  *)
LEMMA OutKeeps ==
  ASSUME NEW m, IsMessage(m), NEW k \in 1..Len(m), NEW surf, SurfInv(surf, m, k - 1)
  PROVE  SurfInv(Out(surf, m[k], Measured(m, m[k])), m, k)
<1> DEFINE q == [of |-> {m[k].id}, times |-> {Measured(m, m[k])}]
           new == Out(surf, m[k], Measured(m, m[k]))
<1>1. k \in Nat \ {0}
  BY DEF IsMessage
<1>2. q \in Outputs
  <2>1. m[k].id \in Nat /\ Measured(m, m[k]) \in Int
    BY PointIs DEF Points
  <2> QED
    BY <2>1 DEF Outputs
<1>3. surf \in Seq(Outputs) /\ new = Append(surf, q)
  BY DEF SurfInv, Out
<1> HIDE DEF q, new
<1>4. /\ new \in Seq(Outputs) /\ DOMAIN surf = 1..Len(surf) /\ Len(surf) \in Nat
      /\ DOMAIN new = 1..Len(surf)+1 /\ new[Len(surf) + 1] = q
      /\ \A x \in 1..Len(surf) : new[x] = surf[x]
  BY <1>2, <1>3
<1>5. ASSUME NEW x \in DOMAIN new
      PROVE  \E j \in 1..k : new[x] = [of |-> {m[j].id}, times |-> {Measured(m, m[j])}]
  <2>1. CASE x = Len(surf) + 1
    <3>1. k \in 1..k
      BY <1>1
    <3> QED
      BY <1>4, <2>1, <3>1 DEF q
  <2>2. CASE x # Len(surf) + 1
    <3>1. x \in DOMAIN surf /\ new[x] = surf[x]
      BY <1>4, <2>2
    <3>2. PICK j \in 1..k-1 : surf[x] = [of |-> {m[j].id}, times |-> {Measured(m, m[j])}]
      BY <3>1 DEF SurfInv
    <3>3. j \in 1..k
      BY <1>1
    <3> QED
      BY <3>1, <3>2, <3>3
  <2> QED
    BY <2>1, <2>2
<1> QED
  BY <1>4, <1>5 DEF SurfInv, new

(* The times of a lidar that turns: what is kept of each ring.             *)
Seen == [is_first : BOOLEAN, yaw_fp : Int, time_last : Int]
OfRing(m, r, k) == {j \in 1..k : m[j].ring = r}

SeenInv(seen, m, k) ==
  \A r \in Rings :
     IF OfRing(m, r, k) = {} THEN seen[r].is_first
     ELSE /\ ~seen[r].is_first
          /\ \E f \in OfRing(m, r, k) : m[f].turned = 0 /\ seen[r].yaw_fp = m[f].pos.yaw
          /\ \E l \in OfRing(m, r, k) : /\ seen[r].time_last = m[l].turned
                                        /\ \A j \in OfRing(m, r, k) : m[j].turned <= m[l].turned

LEMMA FullTurns ==
  \A t \in Nat \ {0}, x \in Int : x % t = 0 /\ x < t /\ x > -(3 * t) => x \in {0, -t, -(2 * t)}
  BY ONLY SMTT(30)

(* Less than a circle after the last point and less than two after the     *)
(* first, the heading tells how far the ring has turned.                   *)
LEMMA OffsetTimeIs ==
  ASSUME NEW s \in Seen, NEW yaw \in Int, NEW t \in 0..2*Turn-1,
         s.yaw_fp - yaw \in 1-Turn..Turn-1, (s.yaw_fp - yaw - t) % Turn = 0,
         s.time_last <= t, t < s.time_last + Turn
  PROVE  OffsetTime(s, yaw) = t
<1> DEFINE d == s.yaw_fp - yaw
<1>1. Turn \in Nat \ {0} /\ d \in Int /\ s.time_last \in Int /\ s.yaw_fp \in Int
  BY PreprocessAssumption DEF Seen
<1>2. d - t \in {0, -Turn, -(2 * Turn)}
  <2>1. d - t \in Int /\ d - t < Turn /\ d - t > -(3 * Turn) /\ (d - t) % Turn = 0
    BY <1>1
  <2> HIDE DEF d
  <2> QED
    BY <1>1, <2>1, FullTurns
<1>3. SameTurn(s.yaw_fp, yaw) = IF d >= 0 THEN d ELSE d + Turn
  BY <1>1 DEF SameTurn
<1>4. OffsetTime(s, yaw) =
        IF SameTurn(s.yaw_fp, yaw) < s.time_last THEN SameTurn(s.yaw_fp, yaw) + Turn
        ELSE SameTurn(s.yaw_fp, yaw)
  BY DEF OffsetTime
<1> HIDE DEF d, SameTurn
<1> QED
  BY <1>1, <1>2, <1>3, <1>4

(* The next point of a ring: the first one, or a time that is known.       *)
LEMMA SeenKeeps ==
  ASSUME NEW m, IsMessage(m), Untimed(m), NEW k \in 1..Len(m), NEW seen \in [Rings -> Seen],
         SeenInv(seen, m, k - 1)
  PROVE  /\ m[k].ring \in Rings
         /\ seen[m[k].ring].is_first =>
              SeenInv(FirstOfRing(seen, m[k]), m, k)
         /\ ~seen[m[k].ring].is_first =>
              /\ OffsetTime(seen[m[k].ring], m[k].pos.yaw) = m[k].turned
              /\ SeenInv([seen EXCEPT ![m[k].ring].time_last = m[k].turned], m, k)
<1> DEFINE p == m[k]
           r == p.ring
           S == SameRing(m, k)
<1>1. Rotates(m) /\ k \in DOMAIN m /\ k \in Nat \ {0}
  BY DEF IsMessage
<1>2. /\ r \in Rings /\ p.turned \in 0..2*Turn-1
      /\ S = {} => p.turned = 0
      /\ S # {} => \E j \in S : p.turned < m[j].turned + Turn
      /\ \A j \in S : /\ m[j].turned <= p.turned
                      /\ m[j].pos.yaw - p.pos.yaw \in 1-Turn..Turn-1
                      /\ (m[j].pos.yaw - p.pos.yaw - (p.turned - m[j].turned)) % Turn = 0
  BY <1>1 DEF Rotates
<1>3. /\ OfRing(m, r, k - 1) = S
      /\ OfRing(m, r, k) = S \cup {k}
      /\ \A q \in Rings : q # r => OfRing(m, q, k) = OfRing(m, q, k - 1)
  <2>1. /\ \A j \in 1..k-1 : j \in 1..k /\ j # k
        /\ \A j \in 1..k : j \in 1..k-1 \/ j = k
        /\ k \in 1..k
    BY <1>1
  <2> QED
    BY <2>1 DEF OfRing, SameRing
<1>4. \A j \in 1..k : m[j] \in Points /\ m[j].turned \in Int
  <2>1. \A j \in 1..k : j \in 1..Len(m)
    BY <1>1 DEF IsMessage
  <2> QED
    BY <2>1, PointIs DEF Points
<1>5. p.pos.yaw \in Int /\ p.turned \in Int
  <2>1. p \in Points
    BY PointIs
  <2> QED
    BY <2>1 DEF Points, Positions
<1>6. \A j \in OfRing(m, r, k) : m[j].turned <= p.turned
  <2>1. p.turned <= p.turned
    BY <1>5
  <2> QED
    BY <1>2, <1>3, <2>1
<1>7. ASSUME seen[r].is_first
      PROVE  SeenInv(FirstOfRing(seen, p), m, k)
  <2> DEFINE new == FirstOfRing(seen, p)
  <2>1. /\ new[r] = [is_first |-> FALSE, yaw_fp |-> p.pos.yaw, time_last |-> 0]
        /\ \A q \in Rings : q # r => new[q] = seen[q]
    BY <1>2 DEF FirstOfRing
  <2>2. S = {}
    BY <1>2, <1>3, <1>7 DEF SeenInv
  <2>3. p.turned = 0 /\ OfRing(m, r, k) = {k}
    BY <1>2, <1>3, <2>2
  <2> HIDE DEF new
  <2>4. ASSUME NEW q \in Rings
        PROVE  IF OfRing(m, q, k) = {} THEN new[q].is_first
               ELSE /\ ~new[q].is_first
                    /\ \E f \in OfRing(m, q, k) : m[f].turned = 0 /\ new[q].yaw_fp = m[f].pos.yaw
                    /\ \E l \in OfRing(m, q, k) :
                          /\ new[q].time_last = m[l].turned
                          /\ \A j \in OfRing(m, q, k) : m[j].turned <= m[l].turned
    <3>1. CASE q # r
      BY <1>3, <2>1, <3>1 DEF SeenInv
    <3>2. CASE q = r
      <4>1. ~new[r].is_first /\ new[r].yaw_fp = p.pos.yaw /\ new[r].time_last = 0
        BY <2>1
      <4> QED
        BY <1>6, <2>3, <3>2, <4>1
    <3> QED
      BY <3>1, <3>2
  <2> QED
    BY <2>4 DEF SeenInv, new
<1>8. ASSUME ~seen[r].is_first
      PROVE  /\ OffsetTime(seen[r], p.pos.yaw) = p.turned
             /\ SeenInv([seen EXCEPT ![r].time_last = p.turned], m, k)
  <2>1. S # {}
    BY <1>2, <1>3, <1>8 DEF SeenInv
  <2>2. /\ \E f \in S : m[f].turned = 0 /\ seen[r].yaw_fp = m[f].pos.yaw
        /\ \E l \in S : seen[r].time_last = m[l].turned /\ \A j \in S : m[j].turned <= m[l].turned
    BY <1>2, <1>3, <2>1 DEF SeenInv
  <2>3. PICK f \in S : m[f].turned = 0 /\ seen[r].yaw_fp = m[f].pos.yaw
    BY <2>2
  <2>4. PICK l \in S : seen[r].time_last = m[l].turned /\ \A j \in S : m[j].turned <= m[l].turned
    BY <2>2
  <2>5. seen[r] \in Seen
    BY <1>2
  <2>6. /\ seen[r].yaw_fp - p.pos.yaw \in 1-Turn..Turn-1
        /\ (seen[r].yaw_fp - p.pos.yaw - p.turned) % Turn = 0
    <3>1. p.turned - m[f].turned = p.turned
      BY <1>5, <2>3
    <3> QED
      BY <1>2, <2>3, <3>1
  <2>7. seen[r].time_last <= p.turned /\ p.turned < seen[r].time_last + Turn
    <3>1. PICK j \in S : p.turned < m[j].turned + Turn
      BY <1>2, <2>1
    <3>2. m[j].turned <= m[l].turned /\ m[l].turned <= p.turned
      BY <1>2, <2>4
    <3>3. j \in 1..k /\ l \in 1..k
      BY <1>1 DEF SameRing
    <3>4. m[j].turned \in Int /\ m[l].turned \in Int /\ Turn \in Int
      BY <1>4, <3>3, PreprocessAssumption
    <3>5. \A a, b, c, n \in Int : a < b + n /\ b <= c => a < c + n
      BY ONLY SMT
    <3> QED
      BY <1>5, <2>4, <3>1, <3>2, <3>4, <3>5
  <2>8. OffsetTime(seen[r], p.pos.yaw) = p.turned
    BY <1>2, <1>5, <2>5, <2>6, <2>7, OffsetTimeIs
  <2> DEFINE new == [seen EXCEPT ![r].time_last = p.turned]
  <2>9. /\ new[r].is_first = seen[r].is_first /\ new[r].yaw_fp = seen[r].yaw_fp
        /\ new[r].time_last = p.turned
        /\ \A q \in Rings : q # r => new[q] = seen[q]
    BY <1>2, <2>5 DEF Seen
  <2> HIDE DEF new
  <2>10. ASSUME NEW q \in Rings
        PROVE  IF OfRing(m, q, k) = {} THEN new[q].is_first
               ELSE /\ ~new[q].is_first
                    /\ \E g \in OfRing(m, q, k) : m[g].turned = 0 /\ new[q].yaw_fp = m[g].pos.yaw
                    /\ \E h \in OfRing(m, q, k) :
                          /\ new[q].time_last = m[h].turned
                          /\ \A j \in OfRing(m, q, k) : m[j].turned <= m[h].turned
    <3>1. CASE q # r
      BY <1>3, <2>9, <3>1 DEF SeenInv
    <3>2. CASE q = r
      <4>1. k \in OfRing(m, r, k) /\ f \in OfRing(m, r, k)
        BY <1>3
      <4>2. ~new[r].is_first /\ new[r].yaw_fp = m[f].pos.yaw /\ new[r].time_last = m[k].turned
        BY <1>8, <2>3, <2>9
      <4> QED
        BY <1>6, <2>3, <3>2, <4>1, <4>2
    <3> QED
      BY <3>1, <3>2
  <2> QED
    BY <2>8, <2>10 DEF SeenInv, new
<1> QED
  BY <1>2, <1>7, <1>8

(* What a handler has made of the first k points of a message.             *)
Extracts == feature_enabled /\ lidar_type \in {"AVIA", "VELO16", "OUST64"}

Work == [valid_num : Nat, prev : Positions, given : BOOLEAN, seen : [Rings -> Seen],
         surf : Seq(Outputs), buff : [Rings -> Seq(TimedPoints)]]

WorkInv(acc, m, k) ==
  /\ acc \in Work
  /\ acc.given = (m # <<>> /\ Given(m))
  /\ Extracts => acc.surf = <<>>
  /\ SurfInv(acc.surf, m, k)
  /\ BuffInv(acc.buff, m, k)
  /\ Untimed(m) => SeenInv(acc.seen, m, k)

(* One more point, by the fields it may change.                            *)
LEMMA AddsKeeps ==
  ASSUME NEW m, IsMessage(m), NEW k \in 1..Len(m), NEW acc, WorkInv(acc, m, k - 1),
         NEW valid_num \in Nat, NEW prev \in Positions, NEW seen \in [Rings -> Seen],
         NEW surf, NEW buff,
         surf = acc.surf \/ (~Extracts /\ surf = Out(acc.surf, m[k], Measured(m, m[k]))),
         \/ buff = acc.buff
         \/ m[k].ring \in Rings /\ buff = OnLine(acc.buff, m[k], Measured(m, m[k])),
         Untimed(m) => SeenInv(seen, m, k)
  PROVE  WorkInv([valid_num |-> valid_num, prev |-> prev, given |-> acc.given,
                  seen |-> seen, surf |-> surf, buff |-> buff], m, k)
<1>1. k \in Nat \ {0}
  BY DEF IsMessage
<1>2. SurfInv(surf, m, k)
  BY <1>1, MorePoints, OutKeeps DEF WorkInv
<1>3. BuffInv(buff, m, k)
  BY <1>1, MorePoints, OnLineKeeps DEF WorkInv
<1>4. surf \in Seq(Outputs) /\ buff \in [Rings -> Seq(TimedPoints)]
  BY <1>2, <1>3 DEF SurfInv, BuffInv
<1>5. acc.given \in BOOLEAN /\ acc.given = (m # <<>> /\ Given(m))
  BY DEF WorkInv, Work
<1>6. Extracts => surf = <<>>
  BY DEF WorkInv
<1> DEFINE new == [valid_num |-> valid_num, prev |-> prev, given |-> acc.given,
                   seen |-> seen, surf |-> surf, buff |-> buff]
<1>7. new \in Work
  BY <1>4, <1>5 DEF Work
<1>8. new.surf = surf /\ new.buff = buff /\ new.seen = seen /\ new.given = acc.given
  OBVIOUS
<1> HIDE DEF new
<1>9. WorkInv(new, m, k)
  BY <1>2, <1>3, <1>5, <1>6, <1>7, <1>8 DEF WorkInv
<1> QED
  BY <1>9 DEF new

(* A record of work is its fields.                                         *)
LEMMA WorkIs ==
  ASSUME NEW acc \in Work
  PROVE  /\ acc = [valid_num |-> acc.valid_num, prev |-> acc.prev, given |-> acc.given,
                   seen |-> acc.seen, surf |-> acc.surf, buff |-> acc.buff]
         /\ acc.valid_num \in Nat /\ acc.prev \in Positions /\ acc.seen \in [Rings -> Seen]
  BY DEF Work

LEMMA AviaKeeps ==
  ASSUME ConfigTypes, lidar_type = "AVIA", NEW m, IsMessage(m), NEW k \in 1..Len(m),
         NEW acc, WorkInv(acc, m, k - 1)
  PROVE  WorkInv(AviaPoint(acc, m[k]), m, k)
<1> DEFINE p == m[k]
           valid == p.id > 0 /\ ValidTag(p)
           count == CountOf(acc, valid)
           copied == valid /\ (feature_enabled \/ count % point_filter_num = 0)
           isNew == copied /\ p.pos # acc.prev
           surf == IF isNew /\ ~feature_enabled /\ Far(p) THEN Out(acc.surf, p, p.time) ELSE acc.surf
           buff == IF isNew /\ feature_enabled THEN OnLine(acc.buff, p, p.time) ELSE acc.buff
           prev == IF copied THEN p.pos ELSE Zero
<1>1. acc \in Work
  BY DEF WorkInv
<1>2. AviaPoint(acc, p) = [valid_num |-> count, prev |-> prev, given |-> acc.given,
                           seen |-> acc.seen, surf |-> surf, buff |-> buff]
  <2>1. AviaPoint(acc, p) = [acc EXCEPT !.valid_num = count, !.prev = prev, !.surf = surf, !.buff = buff]
    BY DEF AviaPoint
  <2> HIDE DEF count, prev, surf, buff
  <2> QED
    BY <1>1, <2>1 DEF Work
<1>3. ~Untimed(m) /\ Measured(m, p) = p.time
  BY DEF Untimed, Measured
<1>4. count \in Nat
  BY <1>1, WorkIs DEF CountOf
<1>5. prev \in Positions
  <2>1. Zero \in Positions
    BY DEF Zero, Positions
  <2>2. p.pos \in Positions
    BY PointIs DEF Points
  <2> QED
    BY <2>1, <2>2
<1>6. surf = acc.surf \/ (~Extracts /\ surf = Out(acc.surf, p, p.time))
  BY DEF Extracts
<1>7. buff = acc.buff \/ (p.ring \in Rings /\ buff = OnLine(acc.buff, p, p.time))
  BY DEF ValidTag
<1>8. acc.seen \in [Rings -> Seen]
  BY <1>1, WorkIs
<1> HIDE DEF count, prev, surf, buff
<1> QED
  BY <1>2, <1>3, <1>4, <1>5, <1>6, <1>7, <1>8, AddsKeeps

LEMMA OusterKeeps ==
  ASSUME ConfigTypes, lidar_type = "OUST64", NEW m, IsMessage(m), NEW k \in 1..Len(m),
         NEW acc, WorkInv(acc, m, k - 1)
  PROVE  WorkInv(OusterPoint(acc, m[k]), m, k)
<1> DEFINE p == m[k]
           surf == IF ~feature_enabled /\ p.id % point_filter_num = 0 /\ Far(p)
                   THEN Out(acc.surf, p, p.time) ELSE acc.surf
           buff == IF feature_enabled /\ Far(p) /\ p.ring \in Rings
                   THEN OnLine(acc.buff, p, p.time) ELSE acc.buff
<1>1. acc \in Work
  BY DEF WorkInv
<1>2. OusterPoint(acc, p) = [valid_num |-> acc.valid_num, prev |-> acc.prev, given |-> acc.given,
                             seen |-> acc.seen, surf |-> surf, buff |-> buff]
  <2>1. OusterPoint(acc, p) = [acc EXCEPT !.surf = surf, !.buff = buff]
    BY DEF OusterPoint
  <2> HIDE DEF surf, buff
  <2> QED
    BY <1>1, <2>1 DEF Work
<1>3. ~Untimed(m) /\ Measured(m, p) = p.time
  BY DEF Untimed, Measured
<1>4. surf = acc.surf \/ (~Extracts /\ surf = Out(acc.surf, p, p.time))
  BY DEF Extracts
<1>5. buff = acc.buff \/ (p.ring \in Rings /\ buff = OnLine(acc.buff, p, p.time))
  OBVIOUS
<1>6. acc.valid_num \in Nat /\ acc.prev \in Positions /\ acc.seen \in [Rings -> Seen]
  BY <1>1, WorkIs
<1> HIDE DEF surf, buff
<1> QED
  BY <1>2, <1>3, <1>4, <1>5, <1>6, AddsKeeps

LEMMA DefaultKeeps ==
  ASSUME ConfigTypes, lidar_type = "other", NEW m, IsMessage(m), NEW k \in 1..Len(m),
         NEW acc, WorkInv(acc, m, k - 1)
  PROVE  WorkInv(DefaultPoint(acc, m[k]), m, k)
<1> DEFINE p == m[k]
           surf == IF Far(p) THEN Out(acc.surf, p, 0) ELSE acc.surf
<1>1. acc \in Work
  BY DEF WorkInv
<1>2. DefaultPoint(acc, p) = [valid_num |-> acc.valid_num, prev |-> acc.prev, given |-> acc.given,
                              seen |-> acc.seen, surf |-> surf, buff |-> acc.buff]
  <2>1. DefaultPoint(acc, p) = [acc EXCEPT !.surf = surf]
    BY DEF DefaultPoint
  <2> HIDE DEF surf
  <2> QED
    BY <1>1, <2>1 DEF Work
<1>3. ~Untimed(m) /\ Measured(m, p) = 0
  BY DEF Untimed, Measured
<1>4. surf = acc.surf \/ (~Extracts /\ surf = Out(acc.surf, p, 0))
  BY DEF Extracts
<1>5. acc.valid_num \in Nat /\ acc.prev \in Positions /\ acc.seen \in [Rings -> Seen]
  BY <1>1, WorkIs
<1> HIDE DEF surf
<1> QED
  BY <1>2, <1>3, <1>4, <1>5, AddsKeeps

LEMMA SeenTypes ==
  ASSUME NEW m, IsMessage(m), NEW k \in 1..Len(m), NEW seen \in [Rings -> Seen]
  PROVE  /\ FirstOfRing(seen, m[k]) \in [Rings -> Seen]
         /\ [seen EXCEPT ![m[k].ring].time_last = m[k].turned] \in [Rings -> Seen]
<1>1. m[k].pos.yaw \in Int /\ m[k].turned \in Int
  BY PointIs DEF Points, Positions
<1> DEFINE p == m[k]
<1>2. FirstOfRing(seen, p) \in [Rings -> Seen]
  <2>1. [is_first |-> FALSE, yaw_fp |-> p.pos.yaw, time_last |-> 0] \in Seen
    BY <1>1 DEF Seen
  <2> QED
    BY <2>1 DEF FirstOfRing
<1>3. [seen EXCEPT ![p.ring].time_last = p.turned] \in [Rings -> Seen]
  <2>1. ASSUME NEW s \in Seen
        PROVE  [s EXCEPT !.time_last = p.turned] \in Seen
    BY <1>1 DEF Seen
  <2> QED
    BY <2>1
<1> QED
  BY <1>2, <1>3

LEMMA Mid360Keeps ==
  ASSUME ConfigTypes, lidar_type = "MID360", NEW m, IsMessage(m), NEW k \in 1..Len(m),
         NEW acc, WorkInv(acc, m, k - 1)
  PROVE  WorkInv(Mid360Point(acc, m[k]), m, k)
<1> DEFINE p == m[k]
           t == OffsetTime(acc.seen[p.ring], p.pos.yaw)
           surf == IF Far(p) THEN Out(acc.surf, p, t) ELSE acc.surf
           next == [acc.seen EXCEPT ![p.ring].time_last = t]
<1>1. acc \in Work /\ Untimed(m) /\ SeenInv(acc.seen, m, k - 1)
  BY DEF WorkInv, Untimed
<1>2. acc.valid_num \in Nat /\ acc.prev \in Positions /\ acc.seen \in [Rings -> Seen]
  BY <1>1, WorkIs
<1>3. CASE acc.seen[p.ring].is_first
  <2>1. Mid360Point(acc, p) = [valid_num |-> acc.valid_num, prev |-> acc.prev, given |-> acc.given,
                               seen |-> FirstOfRing(acc.seen, p), surf |-> acc.surf, buff |-> acc.buff]
    BY <1>1, <1>3, WorkIs DEF Mid360Point
  <2>2. FirstOfRing(acc.seen, p) \in [Rings -> Seen] /\ SeenInv(FirstOfRing(acc.seen, p), m, k)
    BY <1>1, <1>2, <1>3, SeenKeeps, SeenTypes
  <2> QED
    BY <1>2, <2>1, <2>2, AddsKeeps
<1>4. CASE ~acc.seen[p.ring].is_first
  <2>1. Mid360Point(acc, p) = [valid_num |-> acc.valid_num, prev |-> acc.prev, given |-> acc.given,
                               seen |-> next, surf |-> surf, buff |-> acc.buff]
    <3>1. Mid360Point(acc, p) = [acc EXCEPT !.seen = next, !.surf = surf]
      BY <1>4 DEF Mid360Point
    <3> HIDE DEF surf, next
    <3> QED
      BY <1>1, <3>1 DEF Work
  <2>2. t = p.turned /\ Measured(m, p) = p.turned
    BY <1>1, <1>2, <1>4, SeenKeeps DEF Measured
  <2>3. next \in [Rings -> Seen] /\ SeenInv(next, m, k)
    BY <1>1, <1>2, <1>4, <2>2, SeenKeeps, SeenTypes
  <2>4. surf = acc.surf \/ (~Extracts /\ surf = Out(acc.surf, p, Measured(m, p)))
    BY <2>2 DEF Extracts
  <2> HIDE DEF surf, next
  <2> QED
    BY <1>2, <2>1, <2>3, <2>4, AddsKeeps
<1> QED
  BY <1>3, <1>4

LEMMA VelodyneKeeps ==
  ASSUME ConfigTypes, lidar_type = "VELO16", NEW m, IsMessage(m), NEW k \in 1..Len(m),
         NEW acc, WorkInv(acc, m, k - 1)
  PROVE  WorkInv(VelodynePoint(acc, m[k]), m, k)
<1> DEFINE p == m[k]
           t == IF acc.given THEN p.time ELSE OffsetTime(acc.seen[p.ring], p.pos.yaw)
           surf == IF ~feature_enabled /\ p.id % point_filter_num = 0 /\ Far(p)
                   THEN Out(acc.surf, p, t) ELSE acc.surf
           buff == IF feature_enabled THEN OnLine(acc.buff, p, t) ELSE acc.buff
           next == IF acc.given THEN acc.seen ELSE [acc.seen EXCEPT ![p.ring].time_last = t]
<1>1. acc \in Work /\ (Untimed(m) => SeenInv(acc.seen, m, k - 1))
      /\ acc.given \in BOOLEAN /\ (acc.given <=> ~Untimed(m))
  BY DEF WorkInv, Untimed, Work
<1>2. acc.valid_num \in Nat /\ acc.prev \in Positions /\ acc.seen \in [Rings -> Seen]
  BY <1>1, WorkIs
<1>3. CASE feature_enabled /\ p.ring \notin Rings
  <2>1. ~Untimed(m)
    BY <1>1, <1>2, <1>3, SeenKeeps
  <2>2. VelodynePoint(acc, p) = acc
    BY <1>3 DEF VelodynePoint
  <2>3. acc = [valid_num |-> acc.valid_num, prev |-> acc.prev, given |-> acc.given,
               seen |-> acc.seen, surf |-> acc.surf, buff |-> acc.buff]
    BY <1>1, WorkIs
  <2>4. WorkInv([valid_num |-> acc.valid_num, prev |-> acc.prev, given |-> acc.given,
                 seen |-> acc.seen, surf |-> acc.surf, buff |-> acc.buff], m, k)
    BY <1>2, <2>1, AddsKeeps
  <2> QED
    BY <2>2, <2>3, <2>4
<1>4. CASE ~(feature_enabled /\ p.ring \notin Rings) /\ ~acc.given /\ acc.seen[p.ring].is_first
  <2>1. VelodynePoint(acc, p) = [valid_num |-> acc.valid_num, prev |-> acc.prev, given |-> acc.given,
                                 seen |-> FirstOfRing(acc.seen, p), surf |-> acc.surf, buff |-> acc.buff]
    BY <1>1, <1>4, WorkIs DEF VelodynePoint
  <2>2. FirstOfRing(acc.seen, p) \in [Rings -> Seen] /\ SeenInv(FirstOfRing(acc.seen, p), m, k)
    BY <1>1, <1>2, <1>4, SeenKeeps, SeenTypes
  <2> QED
    BY <1>2, <2>1, <2>2, AddsKeeps
<1>5. CASE ~(feature_enabled /\ p.ring \notin Rings) /\ ~(~acc.given /\ acc.seen[p.ring].is_first)
  <2>1. VelodynePoint(acc, p) = [valid_num |-> acc.valid_num, prev |-> acc.prev, given |-> acc.given,
                                 seen |-> next, surf |-> surf, buff |-> buff]
    <3>1. VelodynePoint(acc, p) = [acc EXCEPT !.seen = next, !.surf = surf, !.buff = buff]
      BY <1>5 DEF VelodynePoint
    <3> HIDE DEF surf, next, buff
    <3> QED
      BY <1>1, <3>1 DEF Work
  <2>2. t = Measured(m, p)
    <3>1. CASE acc.given
      BY <1>1, <3>1 DEF Measured
    <3>2. CASE ~acc.given
      BY <1>1, <1>2, <1>5, <3>2, SeenKeeps DEF Measured
    <3> QED
      BY <3>1, <3>2
  <2>3. next \in [Rings -> Seen] /\ (Untimed(m) => SeenInv(next, m, k))
    <3>1. CASE acc.given
      BY <1>1, <1>2, <3>1
    <3>2. CASE ~acc.given
      <4>1. Untimed(m) /\ t = p.turned /\ ~acc.seen[p.ring].is_first
        BY <1>1, <1>2, <1>5, <3>2, SeenKeeps
      <4> HIDE DEF t
      <4> QED
        BY <1>1, <1>2, <3>2, <4>1, SeenKeeps, SeenTypes
    <3> QED
      BY <3>1, <3>2
  <2>4. surf = acc.surf \/ (~Extracts /\ surf = Out(acc.surf, p, Measured(m, p)))
    BY <2>2 DEF Extracts
  <2>5. buff = acc.buff \/ (p.ring \in Rings /\ buff = OnLine(acc.buff, p, Measured(m, p)))
    BY <1>5, <2>2
  <2> HIDE DEF surf, next, buff
  <2> QED
    BY <1>2, <2>1, <2>3, <2>4, <2>5, AddsKeeps
<1> QED
  BY <1>3, <1>4, <1>5

LEMMA HandledPointKeeps ==
  ASSUME ConfigTypes, NEW m, IsMessage(m), NEW k \in 1..Len(m), NEW acc, WorkInv(acc, m, k - 1)
  PROVE  WorkInv(HandledPoint(acc, m[k]), m, k)
<1>1. CASE lidar_type = "AVIA"
  BY <1>1, AviaKeeps DEF HandledPoint
<1>2. CASE lidar_type = "VELO16"
  BY <1>2, VelodyneKeeps DEF HandledPoint
<1>3. CASE lidar_type = "OUST64"
  BY <1>3, OusterKeeps DEF HandledPoint
<1>4. CASE lidar_type = "MID360"
  BY <1>4, Mid360Keeps DEF HandledPoint
<1>5. CASE lidar_type = "other"
  BY <1>5, DefaultKeeps DEF HandledPoint
<1> QED
  BY <1>1, <1>2, <1>3, <1>4, <1>5 DEF ConfigTypes, LidarTypes

LEMMA NothingIs ==
  ASSUME NEW m, IsMessage(m)
  PROVE  WorkInv(Nothing(m), m, 0)
<1>1. <<>> \in Seq(Outputs) /\ NoLines \in [Rings -> Seq(TimedPoints)]
      /\ \A r \in Rings : NoLines[r] = <<>>
  BY DEF NoLines
<1>2. Zero \in Positions
  BY DEF Zero, Positions
<1>3. NoTimes \in [Rings -> Seen] /\ \A r \in Rings : NoTimes[r].is_first
  BY DEF NoTimes, Seen
<1>4. SurfInv(<<>>, m, 0)
  BY <1>1 DEF SurfInv
<1>5. BuffInv(NoLines, m, 0)
  BY <1>1 DEF BuffInv, LinesApart
<1>6. SeenInv(NoTimes, m, 0)
  BY <1>3 DEF SeenInv, OfRing
<1>7. (m # <<>> /\ Given(m)) \in BOOLEAN
  OBVIOUS
<1>8. Nothing(m) \in Work
  BY <1>1, <1>2, <1>3, <1>7 DEF Nothing, Work
<1> HIDE DEF NoLines, NoTimes, Zero
<1>9. /\ Nothing(m).given = (m # <<>> /\ Given(m)) /\ Nothing(m).surf = <<>>
      /\ Nothing(m).buff = NoLines /\ Nothing(m).seen = NoTimes
  BY DEF Nothing
<1> QED
  BY <1>4, <1>5, <1>6, <1>8, <1>9 DEF WorkInv

(* What the handler makes of a message.                                    *)
LEMMA HandledKeeps ==
  ASSUME ConfigTypes, NEW m, IsMessage(m)
  PROVE  WorkInv(Handled(m), m, Len(m))
<1>1. m \in Seq(Points) /\ Len(m) \in Nat
  BY DEF IsMessage
<1>2. PICK f : Pass(f, m, Len(m)) /\ Handled(m) = f[Len(m)]
  BY <1>1, HandledIs
<1>3. \A k \in 0..Len(m) : f[k] = IF k = 0 THEN Nothing(m) ELSE HandledPoint(f[k - 1], m[k])
  BY <1>2 DEF Pass
<1> DEFINE T == {k \in 0..Len(m) : ~WorkInv(f[k], m, k)}
<1>4. T = {}
  <2> SUFFICES ASSUME T # {}
               PROVE  FALSE
    OBVIOUS
  <2> HIDE DEF T
  <2>1. PICK k \in T : \A x \in T : k <= x
    <3>1. T \subseteq 0..Len(m)
      BY DEF T
    <3> QED
      BY <1>1, <3>1, Least
  <2>2. k \in 0..Len(m) /\ ~WorkInv(f[k], m, k)
    BY DEF T
  <2>3. CASE k = 0
    BY <1>3, <2>2, <2>3, NothingIs
  <2>4. CASE k # 0
    <3>1. k - 1 \in 0..Len(m) /\ ~(k <= k - 1) /\ k \in 1..Len(m)
      BY <1>1, <2>2, <2>4
    <3>2. WorkInv(f[k - 1], m, k - 1)
      BY <2>1, <3>1 DEF T
    <3>3. f[k] = HandledPoint(f[k - 1], m[k])
      BY <1>3, <2>2, <2>4
    <3> QED
      BY <2>2, <3>1, <3>2, <3>3, HandledPointKeeps
  <2> QED
    BY <2>3, <2>4
<1>5. Len(m) \in 0..Len(m)
  BY <1>1
<1> QED
  BY <1>2, <1>4, <1>5

-----------------------------------------------------------------------------
(* The message and the lines of it.                                        *)
LEMMA ReceiveIs ==
  ASSUME FeatureInv, NEW m \in Messages(lidar_type, feature_enabled), msg = None, Process(m)
  PROVE  /\ IsMessage(m) /\ msg' = m
         /\ WorkInv(Handled(m), m, Len(m))
         /\ pl_surf' = Handled(m).surf /\ pl_buff' \in {Handled(m).buff, NoLines}
         /\ pass' \in {"picked", "done"} /\ (pass' = "picked" => Extracts)
         /\ pl = <<>> /\ line = 0 /\ UNCHANGED <<line_vars, config_vars, line>>
<1>1. IsMessage(m)
  BY MessageIs DEF FeatureInv, Types
<1>2. WorkInv(Handled(m), m, Len(m))
  BY <1>1, HandledKeeps DEF FeatureInv, Types
<1>3. pl = <<>> /\ line = 0 /\ pl_buff = NoLines
  BY DEF FeatureInv, FreshInv
<1>4. \/ Extracts /\ pl_buff' = Handled(m).buff /\ pass' = "picked"
      \/ pass' = "done" /\ pl_buff' = pl_buff
  BY DEF Process, Extracts
<1> QED
  BY <1>1, <1>2, <1>3, <1>4 DEF Process

LEMMA ReceiveKeepsFeatureInv ==
  ASSUME FeatureInv, Receive
  PROVE  FeatureInv'
<1>1. PICK m \in Messages(lidar_type, feature_enabled) : msg = None /\ Process(m)
  BY DEF Receive
<1>2. /\ IsMessage(m) /\ msg' = m
      /\ WorkInv(Handled(m), m, Len(m))
      /\ pl_surf' = Handled(m).surf /\ pl_buff' \in {Handled(m).buff, NoLines}
      /\ pass' \in {"picked", "done"} /\ (pass' = "picked" => Extracts)
      /\ pl = <<>> /\ line = 0 /\ UNCHANGED <<line_vars, config_vars, line>>
  BY <1>1, ReceiveIs
<1>3. ConfigTypes'
  BY <1>2 DEF FeatureInv, Types, ConfigTypes, config_vars
<1>4. UNCHANGED <<pl, ftype, intersect, i, last_state, last_surface>> /\ Size' = Size
  BY <1>2 DEF line_vars, Size
<1>5. LineTypes'
  BY <1>2, <1>4 DEF FeatureInv, Types, LineTypes, Loop
<1>6. pl_surf' \in Seq(Outputs) /\ pl_buff' \in [Rings -> Seq(TimedPoints)]
  <2>1. NoLines \in [Rings -> Seq(TimedPoints)]
    BY DEF NoLines
  <2>2. Handled(m).surf \in Seq(Outputs) /\ Handled(m).buff \in [Rings -> Seq(TimedPoints)]
    BY <1>2 DEF WorkInv, SurfInv, BuffInv
  <2> QED
    BY <1>2, <2>1, <2>2
<1>7. ScanTypes'
  BY <1>2, <1>6 DEF FeatureInv, Types, ScanTypes, Rings
<1>8. FreshInv'
  BY <1>2 DEF FreshInv, IsMessage
<1>9. BlindNeverUsed' /\ GarbageInv'
  BY <1>4 DEF FeatureInv, BlindNeverUsed, GarbageInv, Blind, Size
<1> QED
  BY <1>3, <1>5, <1>7, <1>8, <1>9 DEF FeatureInv, Types

(* What does not touch the line keeps what is known of it.                 *)
LEMMA LeavesLineKeeps ==
  ASSUME FeatureInv, UNCHANGED <<line_vars, pl_surf, config_vars, msg, pl_buff>>,
         pass' \in {"picked", "done", "crashed", pass}, line' \in 0..N_SCANS,
         msg # None \/ UNCHANGED <<pass, line>>
  PROVE  FeatureInv'
<1>1. /\ UNCHANGED <<pl, ftype, intersect, i, last_state, last_surface>>
      /\ UNCHANGED <<pl_surf, lidar_type, feature_enabled, point_filter_num, msg, pl_buff>>
      /\ Size' = Size
  BY DEF line_vars, config_vars, Size
<1>2. ConfigTypes'
  BY <1>1 DEF FeatureInv, Types, ConfigTypes
<1>3. LineTypes'
  BY <1>1 DEF FeatureInv, Types, LineTypes
<1>4. ScanTypes'
  BY <1>1 DEF FeatureInv, Types, ScanTypes, Rings
<1>5. FreshInv'
  BY <1>1 DEF FeatureInv, FreshInv, NoLines, Rings
<1>6. BlindNeverUsed' /\ GarbageInv'
  BY <1>1 DEF FeatureInv, BlindNeverUsed, GarbageInv, Blind, Size
<1> QED
  BY <1>2, <1>3, <1>4, <1>5, <1>6 DEF FeatureInv, Types

LEMMA ThisLineIs ==
  ASSUME FeatureInv, ThisLine
  PROVE  /\ msg # None /\ line \in Rings /\ line' = line + 1 /\ line' \in 0..N_SCANS
         /\ pl_buff[line] \in Seq(TimedPoints)
         /\ UNCHANGED <<pl_surf, config_vars, msg, pl_buff>>
<1>1. msg # None
  BY DEF FeatureInv, FreshInv, ThisLine
<1>2. N_SCANS \in Nat /\ line \in 0..N_SCANS /\ line < N_SCANS /\ line' = line + 1
  BY PreprocessAssumption DEF ThisLine, FeatureInv, Types, ScanTypes
<1>3. line \in Rings
  BY <1>2 DEF Rings
<1> QED
  BY <1>1, <1>2, <1>3 DEF ThisLine, FeatureInv, Types, ScanTypes

LEMMA NextLineKeepsFeatureInv ==
  ASSUME FeatureInv, NextLine
  PROVE  FeatureInv'
<1>1. /\ msg # None /\ line \in Rings /\ line' \in 0..N_SCANS
      /\ pl_buff[line] \in Seq(TimedPoints)
      /\ UNCHANGED <<pl_surf, config_vars, msg, pl_buff>>
  BY ThisLineIs DEF NextLine
<1>2. /\ pl' = pl_buff[line] /\ Size' = Len(pl_buff[line])
      /\ ftype' = [k \in 1..Size' |-> "Nor"]
      /\ intersect' = [k \in 1..Size' |-> "initial"]
      /\ pass' = "head" /\ i' = 1 /\ last_state' = FALSE /\ last_surface' = None
  BY DEF NextLine, StartLine, Size
<1>3. ConfigTypes'
  BY <1>1 DEF FeatureInv, Types, ConfigTypes, config_vars
<1>4. LineTypes'
  <2>1. pl' \in Seq(TimedPoints)
    BY <1>1, <1>2
  <2>2. ftype' \in [1..Size' -> Feature]
    <3> HIDE DEF Size
    <3> QED
      BY <1>2 DEF Feature
  <2>3. intersect' \in [1..Size' -> {"initial", "computed", "garbage"}]
    <3> HIDE DEF Size
    <3> QED
      BY <1>2
  <2>4. pass' \in Loop /\ i' \in Nat \ {0} /\ last_surface' = None
    BY <1>2 DEF Loop
  <2>5. last_state' \in BOOLEAN
    BY <1>2, Zenon
  <2> QED
    BY <2>1, <2>2, <2>3, <2>4, <2>5 DEF LineTypes
<1>5. ScanTypes'
  BY <1>1 DEF FeatureInv, Types, ScanTypes, Rings
<1>6. FreshInv'
  BY <1>1 DEF FreshInv
<1>7. BlindNeverUsed'
  BY <1>2 DEF BlindNeverUsed
<1>8. GarbageInv'
  BY <1>2 DEF GarbageInv
<1> QED
  BY <1>3, <1>4, <1>5, <1>6, <1>7, <1>8 DEF FeatureInv, Types

LEMMA InitFeatureInv == Init => FeatureInv
<1> SUFFICES ASSUME Init
             PROVE  FeatureInv
  OBVIOUS
<1>1. pl = <<>> /\ Size = 0 /\ 1..Size = {}
  BY DEF Init, Size
<1>2. ConfigTypes
  BY PreprocessAssumption DEF Init, ConfigTypes
<1>3. LineTypes
  <2>1. ftype = <<>> /\ intersect = <<>>
    BY DEF Init
  <2>2. ftype \in [1..Size -> Feature] /\ intersect \in [1..Size -> {"initial", "computed", "garbage"}]
    BY <1>1, <2>1
  <2>3. pl \in Seq(TimedPoints)
    BY <1>1
  <2>4. pass = "idle" /\ i \in Nat \ {0} /\ last_surface = None
    BY DEF Init
  <2>5. last_state \in BOOLEAN
    BY Zenon DEF Init
  <2> QED
    BY <1>1, <2>2, <2>3, <2>4, <2>5 DEF LineTypes
<1>4. ScanTypes
  <2>1. NoLines \in [Rings -> Seq(TimedPoints)] /\ 0 \in 0..N_SCANS
    BY PreprocessAssumption DEF NoLines
  <2> QED
    BY <2>1 DEF Init, ScanTypes
<1>5. FreshInv
  BY DEF Init, FreshInv
<1>6. BlindNeverUsed /\ GarbageInv
  BY <1>1 DEF Init, BlindNeverUsed, GarbageInv
<1> QED
  BY <1>2, <1>3, <1>4, <1>5, <1>6 DEF FeatureInv, Types

LEMMA StepKeepsFeatureInv == FeatureInv /\ [Next]_vars => FeatureInv'
<1> SUFFICES ASSUME FeatureInv, [Next]_vars
             PROVE  FeatureInv'
  OBVIOUS
<1>1. CASE Receive
  BY <1>1, ReceiveKeepsFeatureInv
<1>2. CASE SkipLine
  <2>1. ThisLine /\ UNCHANGED <<line_vars, pass>>
    BY <1>2 DEF SkipLine
  <2> QED
    BY <2>1, ThisLineIs, LeavesLineKeeps
<1>3. CASE EmptyLine
  <2>1. ThisLine /\ UNCHANGED line_vars /\ pass' = "crashed"
    BY <1>3 DEF EmptyLine
  <2> QED
    BY <2>1, ThisLineIs, LeavesLineKeeps
<1>4. CASE NextLine
  BY <1>4, NextLineKeepsFeatureInv
<1>5. CASE LastLine
  <2>1. msg # None /\ line' \in 0..N_SCANS
    BY <1>5 DEF LastLine, FeatureInv, FreshInv, Types, ScanTypes
  <2> QED
    BY <1>5, <2>1, LeavesLineKeeps DEF LastLine
<1>6. CASE Extract
  BY <1>6, LoopsKeepFeatureInv
<1>7. CASE UNCHANGED vars
  <2>1. line' \in 0..N_SCANS
    BY <1>7 DEF FeatureInv, Types, ScanTypes, vars
  <2> QED
    BY <1>7, <2>1, LeavesLineKeeps DEF vars, feature_vars, line_vars
<1> QED
  BY <1>1, <1>2, <1>3, <1>4, <1>5, <1>6, <1>7 DEF Next, OneMore

(***************************************************************************)
(* Every variable keeps its type: whatever handler fills the lines and the *)
(* cloud and however the loops mark a line, each point of it has one mark. *)
(***************************************************************************)
THEOREM TypeCorrect == Spec => []Types
<1>1. FeatureInv => Types
  BY DEF FeatureInv
<1> QED
  BY InitFeatureInv, StepKeepsFeatureInv, <1>1, PTL DEF Spec

(***************************************************************************)
(* A point within blind of the lidar's axis is never a feature, although   *)
(* the plane and small plane loops of give_feature mark the neighbours of  *)
(* the point they look at.                                                 *)
(***************************************************************************)
THEOREM BlindIsNormal == Spec => []BlindNeverUsed
<1>1. FeatureInv => BlindNeverUsed
  BY DEF FeatureInv
<1> QED
  BY InitFeatureInv, StepKeepsFeatureInv, <1>1, PTL DEF Spec

(***************************************************************************)
(* The small plane loop of give_feature never reads the angle the jump     *)
(* loop has computed from an unset vector.                                 *)
(***************************************************************************)
THEOREM GarbageUnread == Spec => []GarbageNeverRead
<1>1. FeatureInv => GarbageNeverRead
  <2> SUFFICES ASSUME FeatureInv, pass = "small", i <= Size - 1, SmallPlaneCandidate(i),
                      intersect[i] = "garbage"
               PROVE  FALSE
    BY DEF GarbageNeverRead
  <2>1. i \in 1..Size
    BY DEF FeatureInv, Types, LineTypes, Size
  <2> HIDE DEF Size, Blind
  <2> QED
    BY <2>1 DEF FeatureInv, GarbageInv, SmallPlaneCandidate
<1> QED
  BY InitFeatureInv, StepKeepsFeatureInv, <1>1, PTL DEF Spec

-----------------------------------------------------------------------------
(***************************************************************************)
(* The points that go on.  Every point of the lines, and every time in the *)
(* cloud, is of a point of the message.                                    *)
(***************************************************************************)
OfMessage(q) == \E j \in DOMAIN msg : q = Timed(msg[j], Measured(msg, msg[j]))
TimedWell(s) ==
  \A t \in s.times : \E j \in DOMAIN msg : msg[j].id \in s.of /\ t = Measured(msg, msg[j])

TimesInv ==
  /\ msg # None => IsMessage(msg)
  /\ \A r \in Rings : \A x \in DOMAIN pl_buff[r] : OfMessage(pl_buff[r][x])
  /\ \A k \in DOMAIN pl : OfMessage(pl[k])
  /\ \A k \in DOMAIN pl_surf : TimedWell(pl_surf[k])

(* The line, and what has gone on, are of lines the loop over the rings    *)
(* has come by.                                                            *)
IdsOf(points) == {points[k].id : k \in DOMAIN points}
OfEarlier(s, n) == s.of # {} /\ \E r \in 0..n-1 : s.of \subseteq IdsOf(pl_buff[r])

LinesInv ==
  /\ LinesApart(pl_buff)
  /\ pass \in Loop \cup {"picked"} =>
       /\ pl # <<>> => \E r \in 0..line-1 : pl = pl_buff[r]
       /\ \A k \in DOMAIN pl_surf : OfEarlier(pl_surf[k], line)
  /\ pass \in Loop => pl # <<>>

(* The run that has not gone on yet, and the points before it that have.   *)
Run == IF last_surface = None THEN {} ELSE last_surface..i-1
Gone == {k \in 1..i-1 : IsSurface(k)} \ Run

PickedSoFar ==
  /\ UNION {pl_surf[k].of : k \in OfLine} = Ids(Gone)
  /\ \A k \in OfLine : /\ Cardinality(pl_surf[k].of) <= point_filter_num
                       /\ \A j \in OfLine \ {k} : pl_surf[j].of \cap pl_surf[k].of = {}

RunInv ==
  last_surface # None =>
    /\ last_surface \in 1..i-1 /\ i - last_surface < point_filter_num
    /\ \A k \in last_surface..i-1 : IsSurface(k)

PickInv ==
  /\ pass \in Loop \ {"pick"} => OfLine = {} /\ last_surface = None
  /\ pass \in {"pick", "picked"} /\ pl # <<>> => i <= Size + 1 /\ PickedSoFar /\ RunInv
  /\ pass = "picked" /\ pl # <<>> => i = Size + 1

IInv == FeatureInv /\ TimesInv /\ LinesInv /\ PickInv

(* The line is one of the lines, so its points are all different.          *)
LEMMA LineIs ==
  ASSUME FeatureInv, LinesInv, pass \in Loop \cup {"picked"}, pl # <<>>
  PROVE  /\ \E r \in Rings : r < line /\ pl = pl_buff[r]
         /\ \A x, y \in 1..Size : pl[x].id = pl[y].id => x = y
<1>1. PICK r \in 0..line-1 : pl = pl_buff[r]
  BY DEF LinesInv
<1>2. r \in Rings /\ r < line
  <2>1. line \in 0..N_SCANS /\ N_SCANS \in Nat
    BY PreprocessAssumption DEF FeatureInv, Types, ScanTypes
  <2> QED
    BY <2>1 DEF Rings
<1>3. DOMAIN pl = 1..Size
  BY DEF FeatureInv, Types, LineTypes, Size
<1>4. \A x, y \in DOMAIN pl_buff[r] : pl_buff[r][x].id = pl_buff[r][y].id => x = y
  BY <1>2 DEF LinesInv, LinesApart
<1> HIDE DEF Size
<1>5. \A x, y \in 1..Size : pl[x].id = pl[y].id => x = y
  BY <1>1, <1>3, <1>4
<1> QED
  BY <1>1, <1>2, <1>5

(* A run of points from from to to goes on as one.                         *)
GoesOn(from, to, times) ==
  /\ from \in 1..Size /\ to \in from..Size /\ to - from < point_filter_num
  /\ \A t \in times : \E k \in from..to : t = pl[k].curvature
  /\ pl_surf' = Append(pl_surf, Stands(from, to, times))
  /\ last_surface' = None
  /\ Gone \cap (from..to) = {} /\ Gone' = Gone \cup (from..to)

LEMMA PickIs ==
  ASSUME IInv, PickSurface \/ PickOther
  PROVE  /\ pass = "pick" /\ pass' = "pick" /\ pl # <<>> /\ i \in 1..Size /\ i' = i + 1
         /\ \/ \E from, to, times : GoesOn(from, to, times)
            \/ UNCHANGED pl_surf /\ Gone' = Gone /\ RunInv'
<1>1. /\ pass = "pick" /\ i <= Size /\ i' = i + 1
      /\ UNCHANGED <<pl, ftype, pass, point_filter_num>>
  BY DEF PickSurface, PickOther
<1>2. pl # <<>> /\ RunInv
  BY <1>1 DEF IInv, LinesInv, PickInv, Loop
<1>3. /\ Size \in Nat /\ i \in Nat \ {0} /\ point_filter_num \in Nat \ {0}
      /\ None \notin Nat /\ last_surface \in {None} \cup (Nat \ {0})
  BY GroupAssumption DEF IInv, FeatureInv, Types, ConfigTypes, LineTypes, Size
<1>4. i \in 1..Size
  BY <1>1, <1>3
<1> DEFINE Marked == {k \in 1..i-1 : IsSurface(k)}
           MarkedTo == {k \in 1..i : IsSurface(k)}
           start == IF last_surface = None THEN i ELSE last_surface
<1>5. Gone' = MarkedTo \ Run'
  <2>1. i' - 1 = i
    BY <1>1, <1>3
  <2>2. \A k : IsSurface(k)' <=> IsSurface(k)
    BY <1>1 DEF IsSurface
  <2> QED
    BY <2>1, <2>2 DEF Gone
<1>6. /\ start \in 1..i /\ Run = start..i-1 /\ Gone = Marked \ (start..i-1)
      /\ i - start < point_filter_num
      /\ \A k \in start..i-1 : IsSurface(k)
  <2>1. CASE last_surface = None
    <3>1. i..i-1 = {} /\ i - i < point_filter_num
      BY <1>3
    <3> QED
      BY <1>3, <2>1, <3>1 DEF Run, Gone
  <2>2. CASE last_surface # None
    <3>1. last_surface \in 1..i-1 /\ i - last_surface < point_filter_num
      BY <1>2, <2>2 DEF RunInv
    <3>2. last_surface \in 1..i
      BY <1>3, <3>1
    <3> QED
      BY <1>2, <2>2, <3>1, <3>2 DEF Run, Gone, RunInv
  <2> QED
    BY <2>1, <2>2
<1> HIDE DEF Size, IsSurface, start, Run
<1>7. CASE PickSurface /\ FullRun(start, i)
  <2>1. /\ IsSurface(i) /\ pl_surf' = Append(pl_surf, Stands(start, i, {pl[i].curvature}))
        /\ last_surface' = None /\ i = start + point_filter_num - 1
    BY <1>7 DEF PickSurface, FullRun, start
  <2>2. Run' = {}
    BY <2>1 DEF Run
  <2>3. /\ \A k \in 1..i : k \in 1..i-1 \/ k = i
        /\ \A k \in 1..i-1 : k \in 1..i /\ k # i
        /\ \A k \in start..i : k \in 1..i /\ (k \in start..i-1 \/ k = i)
        /\ \A k \in start..i-1 : k \in start..i
        /\ i \in 1..i /\ i \in start..i
    BY <1>3, <1>6
  <2>4. Gone \cap (start..i) = {} /\ Gone' = Gone \cup (start..i)
    BY <1>5, <1>6, <2>1, <2>2, <2>3
  <2>5. start \in 1..Size /\ i \in start..Size /\ i - start < point_filter_num
    BY <1>1, <1>3, <1>6
  <2>6. GoesOn(start, i, {pl[i].curvature})
    BY <2>1, <2>3, <2>4, <2>5 DEF GoesOn
  <2> QED
    BY <1>1, <1>2, <1>4, <2>6
<1>8. CASE PickSurface /\ ~FullRun(start, i)
  <2>1. /\ IsSurface(i) /\ pl_surf' = pl_surf
        /\ last_surface' = start /\ i # start + point_filter_num - 1
    BY <1>8 DEF PickSurface, FullRun, start
  <2>2. start # None /\ i' - 1 = i
    BY <1>1, <1>3, <1>6
  <2>3. Run' = start..i
    BY <2>1, <2>2 DEF Run
  <2>4. /\ \A k \in 1..i : k \in 1..i-1 \/ k = i
        /\ \A k \in 1..i-1 : k \in 1..i /\ k # i
        /\ \A k \in start..i : k \in start..i-1 \/ k = i
        /\ \A k \in start..i-1 : k \in start..i
        /\ i \in start..i
    BY <1>3, <1>6
  <2>5. Gone' = Gone
    BY <1>5, <1>6, <2>3, <2>4
  <2>6. RunInv'
    <3>1. last_surface' \in 1..i'-1 /\ i' - last_surface' < point_filter_num'
      BY <1>1, <1>3, <1>6, <2>1
    <3>2. \A k \in last_surface'..i'-1 : IsSurface(k)'
      BY <1>1, <1>6, <2>1, <2>2, <2>4 DEF IsSurface
    <3> QED
      BY <3>1, <3>2 DEF RunInv
  <2> QED
    BY <1>1, <1>2, <1>4, <2>1, <2>5, <2>6
<1>9. CASE PickOther
  <2>1. /\ ~IsSurface(i) /\ last_surface' = None
        /\ pl_surf' = IF last_surface = None THEN pl_surf
                      ELSE Append(pl_surf, Stands(last_surface, i - 1,
                                                  {pl[k].curvature : k \in last_surface..i-1}))
    BY <1>9 DEF PickOther
  <2>2. Run' = {} /\ RunInv'
    BY <2>1 DEF Run, RunInv
  <2>3. Gone' = Marked
    <3>1. /\ \A k \in 1..i : k \in 1..i-1 \/ k = i
          /\ \A k \in 1..i-1 : k \in 1..i
      BY <1>3
    <3> QED
      BY <1>5, <2>1, <2>2, <3>1
  <2>4. CASE last_surface = None
    <3>1. start..i-1 = {}
      BY <1>3, <2>4 DEF start
    <3> QED
      BY <1>1, <1>2, <1>4, <1>6, <2>1, <2>2, <2>3, <2>4, <3>1
  <2>5. CASE last_surface # None
    <3>1. start = last_surface /\ start \in 1..i-1
      BY <1>2, <2>5 DEF start, RunInv
    <3>2. start \in 1..Size /\ i - 1 \in start..Size /\ (i - 1) - start < point_filter_num
      BY <1>1, <1>3, <1>6, <3>1
    <3>3. \A k \in start..i-1 : k \in 1..i-1
      BY <1>3, <3>1
    <3>4. Gone \cap (start..i-1) = {} /\ Gone' = Gone \cup (start..i-1)
      BY <1>6, <2>3, <3>3
    <3>5. GoesOn(start, i - 1, {pl[k].curvature : k \in start..i-1})
      BY <2>1, <2>5, <3>1, <3>2, <3>4 DEF GoesOn
    <3> QED
      BY <1>1, <1>2, <1>4, <3>5
  <2> QED
    BY <2>4, <2>5
<1> QED
  BY <1>7, <1>8, <1>9

(* Few ids, of few points.                                                 *)
LEMMA IdsFew ==
  ASSUME NEW from \in Int, NEW to \in Int, from <= to
  PROVE  IsFiniteSet(Ids(from..to)) /\ Cardinality(Ids(from..to)) <= to - from + 1
<1> DEFINE f == [k \in from..to |-> pl[k].id]
<1>1. IsFiniteSet(from..to) /\ Cardinality(from..to) = to - from + 1
  BY FS_Interval
<1>2. f \in Surjection(from..to, Ids(from..to))
  BY DEF Surjection, Ids
<1> QED
  BY <1>1, <1>2, FS_Surjection

(* The cloud and the line after a run has gone on.                         *)
LEMMA GoesOnIs ==
  ASSUME IInv, LoopKeeps, NEW from, NEW to, NEW times, GoesOn(from, to, times)
  PROVE  /\ Len(pl_surf) \in Nat /\ DOMAIN pl_surf = 1..Len(pl_surf)
         /\ DOMAIN pl_surf' = (DOMAIN pl_surf) \cup {Len(pl_surf) + 1}
         /\ Len(pl_surf) + 1 \notin DOMAIN pl_surf
         /\ \A k \in DOMAIN pl_surf : pl_surf'[k] = pl_surf[k]
         /\ pl_surf'[Len(pl_surf) + 1] = [of |-> Ids(from..to), times |-> times]
         /\ \A k \in from..to : k \in 1..Size
         /\ from \in from..to
<1>1. pl_surf \in Seq(Outputs) /\ Size \in Nat
  BY DEF IInv, FeatureInv, Types, LineTypes, ScanTypes, Size
<1>2. pl_surf' = Append(pl_surf, [of |-> Ids(from..to), times |-> times])
  BY DEF GoesOn, Stands, Ids
<1>3. from \in 1..Size /\ to \in from..Size
  BY DEF GoesOn
<1>4. /\ Len(pl_surf) \in Nat /\ DOMAIN pl_surf = 1..Len(pl_surf)
      /\ DOMAIN pl_surf' = 1..Len(pl_surf)+1
      /\ \A k \in 1..Len(pl_surf) : pl_surf'[k] = pl_surf[k]
      /\ pl_surf'[Len(pl_surf) + 1] = [of |-> Ids(from..to), times |-> times]
  BY <1>1, <1>2
<1>5. \A n \in Nat : 1..n+1 = (1..n) \cup {n + 1} /\ n + 1 \notin 1..n
  BY ONLY SMT
<1> HIDE DEF Size
<1>6. (\A k \in from..to : k \in 1..Size) /\ from \in from..to
  BY <1>1, <1>3
<1> QED
  BY <1>4, <1>5, <1>6

(* What has gone on by now is not of this line, or is a run of it.         *)
LEMMA GoneGrows ==
  ASSUME IInv, LoopKeeps, pass = "pick", pl # <<>>,
         NEW from, NEW to, NEW times, GoesOn(from, to, times)
  PROVE  PickedSoFar'
<1> DEFINE last == Len(pl_surf) + 1
<1>1. /\ DOMAIN pl_surf' = (DOMAIN pl_surf) \cup {last} /\ last \notin DOMAIN pl_surf
      /\ \A k \in DOMAIN pl_surf : pl_surf'[k] = pl_surf[k]
      /\ pl_surf'[last].of = Ids(from..to)
      /\ \A k \in from..to : k \in 1..Size
  <2>1. /\ DOMAIN pl_surf' = (DOMAIN pl_surf) \cup {last} /\ last \notin DOMAIN pl_surf
        /\ \A k \in DOMAIN pl_surf : pl_surf'[k] = pl_surf[k]
        /\ \A k \in from..to : k \in 1..Size
    BY GoesOnIs
  <2>2. pl_surf'[last] = [of |-> Ids(from..to), times |-> times]
    BY GoesOnIs
  <2> HIDE DEF last
  <2> QED
    BY <2>1, <2>2
<1>2. UNCHANGED <<pl, point_filter_num>> /\ Size' = Size
  BY DEF LoopKeeps, Size
<1>3. /\ UNION {pl_surf[k].of : k \in OfLine} = Ids(Gone)
      /\ \A k \in OfLine : /\ Cardinality(pl_surf[k].of) <= point_filter_num
                           /\ \A j \in OfLine \ {k} : pl_surf[j].of \cap pl_surf[k].of = {}
  BY DEF IInv, PickInv, PickedSoFar
<1>4. /\ Gone \cap (from..to) = {} /\ Gone' = Gone \cup (from..to)
  BY DEF GoesOn
<1> HIDE DEF last, Size
<1>5. Ids(from..to) \subseteq Ids(1..Size)
  BY <1>1 DEF Ids
<1>6. OfLine' = OfLine \cup {last} /\ OfLine \subseteq DOMAIN pl_surf /\ last \notin OfLine
  <2>1. OfLine' = {k \in DOMAIN pl_surf' : pl_surf'[k].of \subseteq Ids(1..Size)}
    BY <1>2 DEF OfLine, Ids
  <2> HIDE DEF Ids
  <2> QED
    BY <1>1, <1>5, <2>1 DEF OfLine
<1>7. Ids(Gone') = Ids(Gone) \cup Ids(from..to) /\ Ids(Gone)' = Ids(Gone')
  BY <1>2, <1>4 DEF Ids
<1>8. Ids(Gone) \cap Ids(from..to) = {}
  <2>1. \A k \in Gone : k \in 1..Size
    <3>1. i \in Nat \ {0} /\ i <= Size + 1 /\ Size \in Nat
      BY DEF IInv, FeatureInv, Types, LineTypes, PickInv, Size
    <3>2. \A k \in 1..i-1 : k \in 1..Size
      BY <3>1
    <3> QED
      BY <3>2 DEF Gone
  <2>2. \A x, y \in 1..Size : pl[x].id = pl[y].id => x = y
    BY LineIs DEF IInv, Loop
  <2> QED
    BY <1>1, <1>4, <2>1, <2>2 DEF Ids
<1>9. Cardinality(Ids(from..to)) <= point_filter_num
  <2>1. /\ from \in Int /\ to \in Int /\ from <= to /\ to - from < point_filter_num
        /\ point_filter_num \in Int
    <3>1. Size \in Nat
      BY DEF IInv, FeatureInv, Types, LineTypes, Size
    <3> QED
      BY <3>1 DEF GoesOn, IInv, FeatureInv, Types, ConfigTypes
  <2>2. Cardinality(Ids(from..to)) <= to - from + 1 /\ Cardinality(Ids(from..to)) \in Nat
    BY <2>1, IdsFew, FS_CardinalityType
  <2> QED
    BY <2>1, <2>2
<1> HIDE DEF Ids, Gone, OfLine
<1>10. \A k \in OfLine : pl_surf'[k] = pl_surf[k] /\ pl_surf[k].of \subseteq Ids(Gone)
  <2>1. \A k \in OfLine : pl_surf[k].of \subseteq UNION {pl_surf[j].of : j \in OfLine}
    OBVIOUS
  <2> QED
    BY <1>1, <1>3, <1>6, <2>1
<1>11. UNION {pl_surf'[k].of : k \in OfLine'} = Ids(Gone)'
  <2>1. {pl_surf'[k].of : k \in OfLine'} = {pl_surf[k].of : k \in OfLine} \cup {Ids(from..to)}
    BY <1>1, <1>6, <1>10
  <2>2. UNION {pl_surf'[k].of : k \in OfLine'} =
          (UNION {pl_surf[k].of : k \in OfLine}) \cup Ids(from..to)
    BY <2>1
  <2> QED
    BY <1>3, <1>7, <2>2
<1>12. ASSUME NEW k \in OfLine'
       PROVE  /\ Cardinality(pl_surf'[k].of) <= point_filter_num'
              /\ \A j \in OfLine' \ {k} : pl_surf'[j].of \cap pl_surf'[k].of = {}
  <2>1. CASE k = last
    <3>1. \A j \in OfLine' \ {k} : j \in OfLine
      BY <1>6, <2>1
    <3> QED
      BY <1>1, <1>2, <1>8, <1>9, <1>10, <2>1, <3>1
  <2>2. CASE k \in OfLine
    <3>1. Cardinality(pl_surf'[k].of) <= point_filter_num'
      BY <1>2, <1>3, <1>10, <2>2
    <3>2. ASSUME NEW j \in OfLine' \ {k}
          PROVE  pl_surf'[j].of \cap pl_surf'[k].of = {}
      <4>1. CASE j = last
        BY <1>1, <1>8, <1>10, <2>2, <4>1
      <4>2. CASE j \in OfLine
        BY <1>3, <1>10, <2>2, <3>2, <4>2
      <4> QED
        BY <1>6, <4>1, <4>2
    <3> QED
      BY <3>1, <3>2
  <2> QED
    BY <1>6, <2>1, <2>2
<1> QED
  BY <1>11, <1>12 DEF PickedSoFar

LEMMA PickKeepsPickInv ==
  ASSUME IInv, LoopKeeps, PickSurface \/ PickOther
  PROVE  PickInv'
<1>1. /\ pass = "pick" /\ pass' = "pick" /\ pl # <<>> /\ i \in 1..Size /\ i' = i + 1
      /\ \/ \E from, to, times : GoesOn(from, to, times)
         \/ UNCHANGED pl_surf /\ Gone' = Gone /\ RunInv'
  BY PickIs
<1>2. UNCHANGED <<pl, point_filter_num>> /\ Size' = Size
  BY DEF LoopKeeps, Size
<1>3. i' <= Size' + 1
  <2>1. Size \in Nat
    BY DEF IInv, FeatureInv, Types, LineTypes, Size
  <2> HIDE DEF Size
  <2> QED
    BY <1>1, <1>2, <2>1
<1>4. PickedSoFar' /\ RunInv'
  <2>1. CASE \E from, to, times : GoesOn(from, to, times)
    <3>1. PICK from, to, times : GoesOn(from, to, times)
      BY <2>1
    <3>2. RunInv'
      BY <3>1 DEF GoesOn, RunInv
    <3> QED
      BY <1>1, <3>1, <3>2, GoneGrows
  <2>2. CASE UNCHANGED pl_surf /\ Gone' = Gone /\ RunInv'
    <3>1. PickedSoFar
      BY <1>1 DEF IInv, PickInv
    <3>2. OfLine' = OfLine /\ Ids(Gone)' = Ids(Gone)
      BY <1>2, <2>2 DEF OfLine, Ids
    <3> HIDE DEF OfLine, Ids, Gone
    <3> QED
      BY <1>2, <2>2, <3>1, <3>2 DEF PickedSoFar
  <2> QED
    BY <1>1, <2>1, <2>2
<1> QED
  BY <1>1, <1>3, <1>4 DEF PickInv, Loop

LEMMA PickKeepsLines ==
  ASSUME IInv, LoopKeeps, PickSurface \/ PickOther
  PROVE  LinesInv' /\ TimesInv'
<1>1. /\ pass = "pick" /\ pass' = "pick" /\ pl # <<>>
      /\ \/ \E from, to, times : GoesOn(from, to, times)
         \/ UNCHANGED pl_surf
  BY PickIs
<1>2. UNCHANGED <<pl, pl_buff, line, msg, lidar_type>>
  BY DEF LoopKeeps
<1>3. /\ LinesApart(pl_buff) /\ \E r \in 0..line-1 : pl = pl_buff[r]
      /\ \A k \in DOMAIN pl_surf : OfEarlier(pl_surf[k], line)
      /\ \A k \in DOMAIN pl_surf : TimedWell(pl_surf[k])
      /\ \A k \in DOMAIN pl : OfMessage(pl[k])
  BY <1>1 DEF IInv, LinesInv, TimesInv, Loop
<1>4. ASSUME NEW k \in DOMAIN pl_surf'
      PROVE  OfEarlier(pl_surf'[k], line) /\ TimedWell(pl_surf'[k])
  <2>1. CASE UNCHANGED pl_surf
    BY <1>3, <2>1
  <2>2. CASE \E from, to, times : GoesOn(from, to, times)
    <3>1. PICK from, to, times : GoesOn(from, to, times)
      BY <2>2
    <3> DEFINE last == Len(pl_surf) + 1
    <3>2. /\ DOMAIN pl_surf' = (DOMAIN pl_surf) \cup {last}
          /\ \A j \in DOMAIN pl_surf : pl_surf'[j] = pl_surf[j]
          /\ pl_surf'[last] = [of |-> Ids(from..to), times |-> times]
      <4>1. DOMAIN pl_surf' = (DOMAIN pl_surf) \cup {last}
        BY <3>1, GoesOnIs
      <4>2. \A j \in DOMAIN pl_surf : pl_surf'[j] = pl_surf[j]
        BY <3>1, GoesOnIs
      <4>3. pl_surf'[last] = [of |-> Ids(from..to), times |-> times]
        BY <3>1, GoesOnIs
      <4> QED
        BY <4>1, <4>2, <4>3
    <3>3. (\A j \in from..to : j \in 1..Size) /\ from \in from..to
      BY <3>1, GoesOnIs
    <3>4. \A t \in times : \E j \in from..to : t = pl[j].curvature
      BY <3>1 DEF GoesOn
    <3>5. DOMAIN pl = 1..Size
      BY DEF IInv, FeatureInv, Types, LineTypes, Size
    <3> HIDE DEF last, Size
    <3>6. CASE k # last
      BY <1>3, <3>2, <3>6
    <3>7. CASE k = last
      <4>1. pl_surf'[k].of = Ids(from..to) /\ pl_surf'[k].times = times
        BY <3>2, <3>7
      <4>2. OfEarlier(pl_surf'[k], line)
        <5>1. Ids(from..to) # {} /\ Ids(from..to) \subseteq IdsOf(pl)
          BY <3>3, <3>5 DEF Ids, IdsOf
        <5> QED
          BY <1>3, <4>1, <5>1 DEF OfEarlier
      <4>3. ASSUME NEW t \in times
            PROVE  \E j \in DOMAIN msg : /\ msg[j].id \in pl_surf'[k].of
                                         /\ t = Measured(msg, msg[j])
        <5>1. PICK x \in from..to : t = pl[x].curvature
          BY <3>4
        <5>2. PICK j \in DOMAIN msg : pl[x] = Timed(msg[j], Measured(msg, msg[j]))
          BY <1>3, <3>3, <3>5 DEF OfMessage
        <5>3. pl[x].id = msg[j].id /\ pl[x].curvature = Measured(msg, msg[j])
          BY <5>2 DEF Timed
        <5>4. msg[j].id \in Ids(from..to)
          BY <5>3 DEF Ids
        <5> QED
          BY <4>1, <5>1, <5>3, <5>4
      <4> QED
        BY <4>1, <4>2, <4>3 DEF TimedWell
    <3> QED
      BY <3>6, <3>7
  <2> QED
    BY <1>1, <2>1, <2>2
<1>5. LinesInv'
  <2>1. \A k \in DOMAIN pl_surf' : OfEarlier(pl_surf'[k], line)
    BY <1>4
  <2>2. (\A k \in DOMAIN pl_surf : OfEarlier(pl_surf[k], line))'
    BY <1>2, <2>1 DEF OfEarlier
  <2>3. LinesApart(pl_buff)' /\ (\E r \in 0..line-1 : pl = pl_buff[r])'
    BY <1>2, <1>3 DEF LinesApart, Rings
  <2>4. pl' # <<>>
    BY <1>1, <1>2
  <2> QED
    BY <2>2, <2>3, <2>4 DEF LinesInv
<1>6. TimesInv'
  <2>1. \A k \in DOMAIN pl_surf' : TimedWell(pl_surf'[k])
    BY <1>4
  <2>2. (\A k \in DOMAIN pl_surf : TimedWell(pl_surf[k]))'
    BY <1>2, <2>1 DEF TimedWell, Measured, Untimed, Given
  <2>3. (msg # None => IsMessage(msg))'
    BY <1>2 DEF IInv, TimesInv, IsMessage, Untimed, Given
  <2>4. (\A k \in DOMAIN pl : OfMessage(pl[k]))'
    BY <1>2 DEF IInv, TimesInv, OfMessage, Measured, Untimed, Given
  <2>5. (\A r \in Rings : \A x \in DOMAIN pl_buff[r] : OfMessage(pl_buff[r][x]))'
    BY <1>2 DEF IInv, TimesInv, OfMessage, Measured, Untimed, Given
  <2> QED
    BY <2>2, <2>3, <2>4, <2>5 DEF TimesInv
<1> QED
  BY <1>5, <1>6

(* What moves on without a point going on keeps the lines and the times.   *)
LEMMA LinesStay ==
  ASSUME IInv, UNCHANGED <<pl, pl_surf, pl_buff, msg, lidar_type>>,
         line \in Nat, line' \in {line, line + 1},
         pass' \in Loop => pass \in Loop,
         pass' \in Loop \cup {"picked"} => pass \in Loop \cup {"picked"}
  PROVE  LinesInv' /\ TimesInv'
<1>1. (msg # None => IsMessage(msg))'
  BY DEF IInv, TimesInv, IsMessage, Untimed, Given
<1>2. (\A k \in DOMAIN pl : OfMessage(pl[k]))'
  BY DEF IInv, TimesInv, OfMessage, Measured, Untimed, Given
<1>3. (\A r \in Rings : \A x \in DOMAIN pl_buff[r] : OfMessage(pl_buff[r][x]))'
  BY DEF IInv, TimesInv, OfMessage, Measured, Untimed, Given
<1>4. (\A k \in DOMAIN pl_surf : TimedWell(pl_surf[k]))'
  BY DEF IInv, TimesInv, TimedWell, Measured, Untimed, Given
<1>5. LinesApart(pl_buff)'
  BY DEF IInv, LinesInv, LinesApart, Rings
<1>6. (pass \in Loop => pl # <<>>)'
  BY DEF IInv, LinesInv, Loop
<1>7. 0..line-1 \subseteq 0..line'-1
  <2>1. \A n \in Nat : 0..n-1 \subseteq 0..(n+1)-1
    BY ONLY SMT
  <2>2. CASE line' = line
    BY <2>2
  <2>3. CASE line' = line + 1
    BY <2>1, <2>3
  <2> QED
    BY <2>2, <2>3
<1>8. ASSUME pass' \in Loop \cup {"picked"}
      PROVE  /\ pl' # <<>> => \E r \in 0..line'-1 : pl' = pl_buff'[r]
             /\ (\A k \in DOMAIN pl_surf : OfEarlier(pl_surf[k], line))'
  <2>1. /\ pl # <<>> => \E r \in 0..line-1 : pl = pl_buff[r]
        /\ \A k \in DOMAIN pl_surf : OfEarlier(pl_surf[k], line)
    BY <1>8 DEF IInv, LinesInv
  <2>2. \A k \in DOMAIN pl_surf : OfEarlier(pl_surf[k], line')
    BY <1>7, <2>1 DEF OfEarlier
  <2>3. (\A k \in DOMAIN pl_surf : OfEarlier(pl_surf[k], line))'
    BY <2>2 DEF OfEarlier
  <2> QED
    BY <1>7, <2>1, <2>3
<1>9. LinesInv'
  BY <1>5, <1>6, <1>8 DEF LinesInv, Loop
<1> QED
  BY <1>1, <1>2, <1>3, <1>4, <1>9 DEF TimesInv

(* The loops that only mark, and the step to the next loop.                *)
LEMMA MarksKeepPickInv ==
  ASSUME IInv, LoopKeeps, UNCHANGED <<pl_surf, last_surface>>,
         pass \in Loop \ {"pick"}, pass' \in Loop \ {"pick"}
  PROVE  PickInv'
<1>1. OfLine = {} /\ last_surface = None
  BY DEF IInv, PickInv
<1>2. OfLine' = {} /\ last_surface' = None
  BY <1>1 DEF LoopKeeps, OfLine, Ids, Size
<1> QED
  BY <1>2 DEF PickInv, Loop

LEMMA PickStarts ==
  ASSUME IInv, FeatureInv', NextLoop, LoopKeeps, pass = "small"
  PROVE  PickInv'
<1>1. /\ pass' = "pick" /\ i' = FirstFar
      /\ UNCHANGED <<pl, ftype, last_surface, pl_surf>> /\ Size' = Size
  BY DEF NextLoop, Size
<1>2. OfLine = {} /\ last_surface = None /\ Size \in Nat
  BY DEF IInv, PickInv, FeatureInv, Types, LineTypes, Loop, Size
<1>3. OfLine' = {} /\ last_surface' = None
  BY <1>1, <1>2 DEF OfLine, Ids, Size
<1>4. FirstFar \in 1..Size+1 /\ \A k \in 1..FirstFar-1 : Blind(k)
  BY <1>2, FirstFarIs
<1>5. Gone' = {}
  <2>1. ASSUME NEW k \in 1..FirstFar-1
        PROVE  ~IsSurface(k)
    <3>1. Blind(k) /\ k \in 1..Size
      BY <1>2, <1>4
    <3>2. ftype[k] = "Nor"
      BY <3>1 DEF IInv, FeatureInv, Types, LineTypes, BlindNeverUsed
    <3> QED
      BY <3>2 DEF IsSurface, Surface
  <2> HIDE DEF FirstFar
  <2>2. \A k \in 1..i'-1 : ~IsSurface(k)'
    BY <1>1, <2>1 DEF IsSurface
  <2> QED
    BY <2>2 DEF Gone
<1>6. PickedSoFar'
  <2>1. Ids(Gone)' = {}
    BY <1>5 DEF Ids
  <2> HIDE DEF Ids, OfLine, Gone
  <2> QED
    BY <1>3, <2>1 DEF PickedSoFar
<1>7. RunInv'
  BY <1>3 DEF RunInv
<1>8. i' <= Size' + 1
  <2> HIDE DEF FirstFar, Size
  <2> QED
    BY <1>1, <1>2, <1>4
<1> QED
  BY <1>1, <1>6, <1>7, <1>8 DEF PickInv, Loop

LEMMA PickEnds ==
  ASSUME IInv, NextLoop, LoopKeeps, pass = "pick"
  PROVE  PickInv'
<1>1. /\ pass' = "picked" /\ i > Size
      /\ UNCHANGED <<i, pl, ftype, last_surface, pl_surf, point_filter_num>> /\ Size' = Size
  BY DEF NextLoop, Size
<1>2. pl # <<>> /\ i <= Size + 1 /\ PickedSoFar /\ RunInv
  BY DEF IInv, LinesInv, PickInv, Loop
<1>3. i = Size + 1
  <2>1. i \in Nat /\ Size \in Nat
    BY DEF IInv, FeatureInv, Types, LineTypes, Size
  <2> HIDE DEF Size
  <2> QED
    BY <1>1, <1>2, <2>1
<1>4. RunInv'
  BY <1>1, <1>2 DEF RunInv, IsSurface
<1>5. PickedSoFar'
  <2>1. OfLine' = OfLine
    BY <1>1 DEF OfLine, Ids, Size
  <2>2. Ids(Gone)' = Ids(Gone)
    BY <1>1 DEF Ids, Gone, Run, IsSurface
  <2> HIDE DEF OfLine, Ids, Gone
  <2> QED
    BY <1>1, <1>2, <2>1, <2>2 DEF PickedSoFar
<1> QED
  BY <1>1, <1>2, <1>3, <1>4, <1>5 DEF PickInv, Loop

LEMMA LoopsKeepIInv ==
  ASSUME IInv, Extract
  PROVE  IInv'
<1>1. LoopKeeps /\ FeatureInv'
  BY ExtractKeeps, LoopsKeepFeatureInv DEF IInv
<1>2. line \in Nat /\ UNCHANGED <<pl, pl_buff, line, msg, lidar_type>>
  BY <1>1, PreprocessAssumption DEF LoopKeeps, IInv, FeatureInv, Types, ScanTypes
<1>3. CASE FindHead \/ SkipBlind \/ JudgePlane \/ JudgeJump \/ JudgeSmallPlane
  <2>1. UNCHANGED <<pl_surf, last_surface>>
    BY <1>3 DEF FindHead, SkipBlind, JudgePlane, JudgeJump, JudgeSmallPlane
  <2>2. pass \in Loop \ {"pick"} /\ pass' \in Loop \ {"pick"}
    BY <1>3 DEF FindHead, SkipBlind, JudgePlane, JudgeJump, JudgeSmallPlane, Loop
  <2>3. LinesInv' /\ TimesInv'
    BY <1>2, <2>1, <2>2, LinesStay
  <2> QED
    BY <1>1, <2>1, <2>2, <2>3, MarksKeepPickInv DEF IInv
<1>4. CASE PickSurface \/ PickOther
  BY <1>1, <1>4, PickKeepsPickInv, PickKeepsLines DEF IInv
<1>5. CASE NextLoop
  <2>1. UNCHANGED <<pl_surf, last_surface>>
    BY <1>5 DEF NextLoop
  <2>2. pass \in Loop /\ pass' \in Loop \cup {"picked"}
    BY <1>5 DEF NextLoop, Loop
  <2>3. LinesInv' /\ TimesInv'
    BY <1>2, <2>1, <2>2, LinesStay
  <2>4. PickInv'
    <3>1. CASE pass \in {"surf", "edge"}
      <4>1. pass \in Loop \ {"pick"} /\ pass' \in Loop \ {"pick"}
        BY <1>5, <3>1 DEF NextLoop, Loop
      <4> QED
        BY <1>1, <2>1, <4>1, MarksKeepPickInv
    <3>2. CASE pass = "small"
      BY <1>1, <1>5, <3>2, PickStarts
    <3>3. CASE pass = "pick"
      BY <1>1, <1>5, <3>3, PickEnds
    <3> QED
      BY <1>5, <3>1, <3>2, <3>3 DEF NextLoop
  <2> QED
    BY <1>1, <2>3, <2>4 DEF IInv
<1> QED
  BY <1>3, <1>4, <1>5 DEF Extract, Loops

(* A new line: none of its points has gone on.                             *)
LEMMA NextLineKeepsIInv ==
  ASSUME IInv, NextLine
  PROVE  IInv'
<1>1. FeatureInv'
  BY NextLineKeepsFeatureInv DEF IInv
<1>2. /\ line \in Rings /\ line' = line + 1 /\ line' \in 0..N_SCANS
      /\ UNCHANGED <<pl_surf, lidar_type, msg, pl_buff>>
  BY ThisLineIs DEF NextLine, IInv, config_vars
<1>3. /\ pl' = pl_buff[line] /\ pl_buff[line] # <<>> /\ pass = "picked" /\ pass' = "head"
      /\ last_surface' = None
  BY DEF NextLine, StartLine, ThisLine
<1>4. pl_buff[line] \in Seq(TimedPoints)
  BY <1>2 DEF IInv, FeatureInv, Types, ScanTypes
<1>5. line \in 0..line'-1 /\ 0..line-1 \subseteq 0..line'-1 /\ \A r \in 0..line-1 : r \in Rings /\ r # line
  <2>1. line \in Nat /\ line' - 1 = line
    BY <1>2 DEF Rings
  <2>2. \A n \in Nat : n \in 0..n /\ 0..n-1 \subseteq 0..n /\ \A r \in 0..n-1 : r # n
    BY ONLY SMT
  <2>3. \A r \in 0..line-1 : r \in Rings
    BY <1>2, PreprocessAssumption DEF Rings
  <2> QED
    BY <2>1, <2>2, <2>3
<1>6. \A k \in DOMAIN pl_surf : OfEarlier(pl_surf[k], line)
  BY <1>3 DEF IInv, LinesInv
<1>7. LinesInv'
  <2>1. LinesApart(pl_buff)'
    BY <1>2 DEF IInv, LinesInv, LinesApart, Rings
  <2>2. \A k \in DOMAIN pl_surf : OfEarlier(pl_surf[k], line')
    BY <1>5, <1>6 DEF OfEarlier
  <2>3. (\A k \in DOMAIN pl_surf : OfEarlier(pl_surf[k], line))'
    BY <1>2, <2>2 DEF OfEarlier
  <2>4. (\E r \in 0..line-1 : pl = pl_buff[r])' /\ pl' # <<>>
    BY <1>2, <1>3, <1>5
  <2> QED
    BY <2>1, <2>3, <2>4 DEF LinesInv
<1>8. TimesInv'
  <2>1. (msg # None => IsMessage(msg))'
    BY <1>2 DEF IInv, TimesInv, IsMessage, Untimed, Given
  <2>2. (\A r \in Rings : \A x \in DOMAIN pl_buff[r] : OfMessage(pl_buff[r][x]))'
    BY <1>2 DEF IInv, TimesInv, OfMessage, Measured, Untimed, Given
  <2>3. (\A k \in DOMAIN pl : OfMessage(pl[k]))'
    <3>1. \A k \in DOMAIN pl_buff[line] : OfMessage(pl_buff[line][k])
      BY <1>2 DEF IInv, TimesInv
    <3> QED
      BY <1>2, <1>3, <3>1 DEF OfMessage, Measured, Untimed, Given
  <2>4. (\A k \in DOMAIN pl_surf : TimedWell(pl_surf[k]))'
    BY <1>2 DEF IInv, TimesInv, TimedWell, Measured, Untimed, Given
  <2> QED
    BY <2>1, <2>2, <2>3, <2>4 DEF TimesInv
<1>9. PickInv'
  <2>1. Ids(1..Size)' = IdsOf(pl_buff[line])
    BY <1>3, <1>4 DEF Ids, IdsOf, Size
  <2>2. ASSUME NEW k \in DOMAIN pl_surf, pl_surf[k].of \subseteq IdsOf(pl_buff[line])
        PROVE  FALSE
    <3>1. PICK r \in 0..line-1 : pl_surf[k].of \subseteq IdsOf(pl_buff[r])
      BY <1>6 DEF OfEarlier
    <3>2. PICK id : id \in pl_surf[k].of
      BY <1>6 DEF OfEarlier
    <3>3. PICK x \in DOMAIN pl_buff[r] : id = pl_buff[r][x].id
      BY <3>1, <3>2 DEF IdsOf
    <3>4. PICK y \in DOMAIN pl_buff[line] : id = pl_buff[line][y].id
      BY <2>2, <3>2 DEF IdsOf
    <3>5. r \in Rings /\ r # line
      BY <1>5
    <3> QED
      BY <1>2, <3>3, <3>4, <3>5 DEF IInv, LinesInv, LinesApart
  <2>3. OfLine' = {k \in DOMAIN pl_surf : pl_surf[k].of \subseteq IdsOf(pl_buff[line])}
    BY <1>2, <2>1 DEF OfLine
  <2>4. OfLine' = {}
    BY <2>2, <2>3
  <2> QED
    BY <1>3, <2>4 DEF PickInv, Loop
<1> QED
  BY <1>1, <1>7, <1>8, <1>9 DEF IInv

(* The message comes: the lines are those of the handler.                  *)
LEMMA ReceiveKeepsIInv ==
  ASSUME IInv, Receive
  PROVE  IInv'
<1>1. FeatureInv'
  BY ReceiveKeepsFeatureInv DEF IInv
<1>2. PICK m \in Messages(lidar_type, feature_enabled) : msg = None /\ Process(m)
  BY DEF Receive
<1>3. /\ IsMessage(m) /\ msg' = m
      /\ WorkInv(Handled(m), m, Len(m))
      /\ pl_surf' = Handled(m).surf /\ pl_buff' \in {Handled(m).buff, NoLines}
      /\ pass' \in {"picked", "done"} /\ (pass' = "picked" => Extracts)
      /\ pl = <<>> /\ line = 0 /\ UNCHANGED <<line_vars, config_vars, line>>
  BY <1>2, ReceiveIs DEF IInv
<1>4. pl' = <<>> /\ lidar_type' = lidar_type
  BY <1>3 DEF line_vars, config_vars
<1>5. DOMAIN m = 1..Len(m)
  BY <1>3 DEF IsMessage
<1>6. \A r \in Rings : \A x \in DOMAIN pl_buff'[r] :
        \E j \in DOMAIN m : pl_buff'[r][x] = Timed(m[j], Measured(m, m[j]))
  <2>1. CASE pl_buff' = NoLines
    BY <2>1 DEF NoLines
  <2>2. CASE pl_buff' = Handled(m).buff
    <3>1. \A r \in Rings : \A x \in DOMAIN Handled(m).buff[r] :
            \E j \in 1..Len(m) : Handled(m).buff[r][x] = Timed(m[j], Measured(m, m[j]))
      BY <1>3 DEF WorkInv, BuffInv
    <3> QED
      BY <1>5, <2>2, <3>1
  <2> QED
    BY <1>3, <2>1, <2>2
<1>7. LinesApart(pl_buff)'
  <2>1. LinesApart(NoLines)
    BY DEF NoLines, LinesApart
  <2>2. LinesApart(Handled(m).buff)
    BY <1>3 DEF WorkInv, BuffInv
  <2>3. LinesApart(pl_buff')
    BY <1>3, <2>1, <2>2
  <2> QED
    BY <2>3 DEF LinesApart, Rings
<1>8. LinesInv'
  <2>1. pass' = "picked" => pl_surf' = <<>>
    BY <1>3 DEF WorkInv
  <2> QED
    BY <1>3, <1>4, <1>7, <2>1 DEF LinesInv, Loop
<1>9. TimesInv'
  <2>1. (msg # None => IsMessage(msg))'
    BY <1>3, <1>4 DEF IsMessage, Untimed, Given
  <2>2. (\A r \in Rings : \A x \in DOMAIN pl_buff[r] : OfMessage(pl_buff[r][x]))'
    <3> SUFFICES ASSUME NEW r \in Rings, NEW x \in DOMAIN pl_buff'[r]
                 PROVE  OfMessage(pl_buff[r][x])'
      BY DEF Rings
    <3>1. \E j \in DOMAIN m : pl_buff'[r][x] = Timed(m[j], Measured(m, m[j]))
      BY <1>6
    <3> QED
      BY <1>3, <1>4, <3>1 DEF OfMessage, Measured, Untimed, Given
  <2>3. (\A k \in DOMAIN pl : OfMessage(pl[k]))'
    BY <1>4
  <2>4. (\A k \in DOMAIN pl_surf : TimedWell(pl_surf[k]))'
    <3> SUFFICES ASSUME NEW k \in DOMAIN pl_surf'
                 PROVE  TimedWell(pl_surf[k])'
      OBVIOUS
    <3>1. PICK j \in 1..Len(m) : pl_surf'[k] = [of |-> {m[j].id}, times |-> {Measured(m, m[j])}]
      BY <1>3 DEF WorkInv, SurfInv
    <3>2. \A t \in pl_surf'[k].times : \E h \in DOMAIN m : /\ m[h].id \in pl_surf'[k].of
                                                           /\ t = Measured(m, m[h])
      BY <1>5, <3>1
    <3> QED
      BY <1>3, <1>4, <3>2 DEF TimedWell, Measured, Untimed, Given
  <2> QED
    BY <2>1, <2>2, <2>3, <2>4 DEF TimesInv
<1>10. PickInv'
  BY <1>3, <1>4 DEF PickInv, Loop
<1> QED
  BY <1>1, <1>8, <1>9, <1>10 DEF IInv

LEMMA InitIInv == Init => IInv
<1> SUFFICES ASSUME Init
             PROVE  IInv
  OBVIOUS
<1>1. FeatureInv
  BY InitFeatureInv
<1>2. pl = <<>> /\ pl_surf = <<>> /\ msg = None /\ pass = "idle" /\ pl_buff = NoLines
  BY DEF Init
<1>3. \A r \in Rings : pl_buff[r] = <<>>
  BY <1>2 DEF NoLines
<1>4. TimesInv
  BY <1>2, <1>3 DEF TimesInv
<1>5. LinesInv
  BY <1>2, <1>3 DEF LinesInv, LinesApart, Loop
<1>6. PickInv
  BY <1>2 DEF PickInv, Loop
<1> QED
  BY <1>1, <1>4, <1>5, <1>6 DEF IInv

LEMMA PickStays ==
  ASSUME IInv, UNCHANGED <<pl, pl_surf, ftype, i, last_surface, pass, point_filter_num>>
  PROVE  PickInv'
<1>1. OfLine' = OfLine /\ Size' = Size
  BY DEF OfLine, Ids, Size
<1>2. Ids(Gone)' = Ids(Gone)
  BY DEF Ids, Gone, Run, IsSurface
<1>3. RunInv' <=> RunInv
  BY DEF RunInv, IsSurface
<1>4. PickedSoFar' <=> PickedSoFar
  <2> HIDE DEF OfLine, Ids, Gone
  <2> QED
    BY <1>1, <1>2 DEF PickedSoFar
<1> HIDE DEF OfLine, Size, PickedSoFar, RunInv
<1> QED
  BY <1>1, <1>3, <1>4 DEF IInv, PickInv

LEMMA StepKeepsIInv == IInv /\ [Next]_vars => IInv'
<1> SUFFICES ASSUME IInv, [Next]_vars
             PROVE  IInv'
  OBVIOUS
<1>1. FeatureInv'
  BY StepKeepsFeatureInv DEF IInv
<1>2. line \in Nat
  BY PreprocessAssumption DEF IInv, FeatureInv, Types, ScanTypes
<1>3. CASE Receive
  BY <1>3, ReceiveKeepsIInv
<1>4. CASE NextLine
  BY <1>4, NextLineKeepsIInv
<1>5. CASE Extract
  BY <1>5, LoopsKeepIInv
<1>6. CASE SkipLine
  <2>1. UNCHANGED <<pl, pl_surf, pl_buff, msg, lidar_type>> /\ line' = line + 1
        /\ UNCHANGED <<ftype, i, last_surface, pass, point_filter_num>>
    BY <1>6 DEF SkipLine, ThisLine, line_vars, config_vars
  <2>2. LinesInv' /\ TimesInv'
    BY <1>2, <2>1, LinesStay
  <2>3. PickInv'
    BY <2>1, PickStays
  <2> QED
    BY <1>1, <2>2, <2>3 DEF IInv
<1>7. CASE EmptyLine
  <2>1. UNCHANGED <<pl, pl_surf, pl_buff, msg, lidar_type>> /\ line' = line + 1 /\ pass' = "crashed"
    BY <1>7 DEF EmptyLine, ThisLine, line_vars, config_vars
  <2>2. pass' \notin Loop \cup {"picked"}
    BY <2>1 DEF Loop
  <2>3. LinesInv' /\ TimesInv'
    BY <1>2, <2>1, <2>2, LinesStay
  <2>4. PickInv'
    BY <2>2 DEF PickInv, Loop
  <2> QED
    BY <1>1, <2>3, <2>4 DEF IInv
<1>8. CASE LastLine
  <2>1. UNCHANGED <<pl, pl_surf, pl_buff, msg, lidar_type, line>> /\ pass' = "done"
    BY <1>8 DEF LastLine, line_vars, config_vars
  <2>2. pass' \notin Loop \cup {"picked"}
    BY <2>1 DEF Loop
  <2>3. LinesInv' /\ TimesInv'
    BY <1>2, <2>1, <2>2, LinesStay
  <2>4. PickInv'
    BY <2>2 DEF PickInv, Loop
  <2> QED
    BY <1>1, <2>3, <2>4 DEF IInv
<1>9. CASE UNCHANGED vars
  <2>1. UNCHANGED <<pl, pl_surf, pl_buff, msg, lidar_type, line>>
        /\ UNCHANGED <<ftype, i, last_surface, pass, point_filter_num>>
    BY <1>9 DEF vars, feature_vars, config_vars
  <2>2. LinesInv' /\ TimesInv'
    BY <1>2, <2>1, LinesStay
  <2>3. PickInv'
    BY <2>1, PickStays
  <2> QED
    BY <1>1, <2>2, <2>3 DEF IInv
<1> QED
  BY <1>3, <1>4, <1>5, <1>6, <1>7, <1>8, <1>9 DEF Next, OneMore

(***************************************************************************)
(* The time of every point that goes on is the one it was measured at,     *)
(* though velodyne_handler and mid360_handler guess it from the headings   *)
(* and give_feature takes the mean of several points.                      *)
(***************************************************************************)
THEOREM TimesKept == Spec => []TimesAreTrue
<1>1. IInv => TimesAreTrue
  <2> SUFFICES ASSUME IInv, NEW k \in DOMAIN pl_surf, NEW t \in pl_surf[k].times
               PROVE  \E id \in pl_surf[k].of : t = MeasuredAt(msg[id + 1])
    BY DEF TimesAreTrue
  <2>1. msg # None
    <3>1. msg = None => pl_surf = <<>>
      BY DEF IInv, FeatureInv, FreshInv
    <3> QED
      BY <3>1
  <2>2. IsMessage(msg)
    BY <2>1 DEF IInv, TimesInv
  <2>3. PICK j \in DOMAIN msg : msg[j].id \in pl_surf[k].of /\ t = Measured(msg, msg[j])
    BY DEF IInv, TimesInv, TimedWell
  <2>4. msg[j].id + 1 = j /\ msg # <<>>
    <3>1. msg[j].id = j - 1 /\ j \in Nat
      BY <2>2 DEF IsMessage
    <3> QED
      BY <2>3, <3>1
  <2>5. MeasuredAt(msg[j]) = Measured(msg, msg[j])
    BY <2>4 DEF MeasuredAt, Measured, Untimed
  <2> QED
    BY <2>3, <2>4, <2>5
<1> QED
  BY InitIInv, StepKeepsIInv, <1>1, PTL DEF Spec

(***************************************************************************)
(* Of each line, every surface point is stood for by exactly one point     *)
(* that goes on, and none stands for more than point_filter_num: the last  *)
(* loop of give_feature loses and doubles none but what the end cuts off.  *)
(***************************************************************************)
THEOREM SurfacePickedOnce == Spec => []SurfaceOnce
<1>1. IInv => SurfaceOnce
  <2> SUFFICES ASSUME IInv, pass = "picked", Size > 0
               PROVE  /\ UNION {pl_surf[k].of : k \in OfLine} = Ids({k \in 1..Size : IsSurface(k)} \ CutOff)
                      /\ \A k \in OfLine : /\ Cardinality(pl_surf[k].of) <= point_filter_num
                                           /\ \A j \in OfLine \ {k} : pl_surf[j].of \cap pl_surf[k].of = {}
                      /\ Cardinality(CutOff) < point_filter_num
    BY DEF SurfaceOnce
  <2>1. pl # <<>>
    BY DEF Size
  <2>2. PickedSoFar /\ RunInv /\ i = Size + 1
    BY <2>1 DEF IInv, PickInv
  <2>3. Size \in Nat /\ point_filter_num \in Nat \ {0} /\ i - 1 = Size
    BY <2>2 DEF IInv, FeatureInv, Types, ConfigTypes, LineTypes, Size
  <2>4. CutOff = Run /\ Gone = {k \in 1..Size : IsSurface(k)} \ CutOff
    BY <2>3 DEF CutOff, Run, Gone
  <2>5. Cardinality(CutOff) < point_filter_num
    <3>1. CASE last_surface = None
      BY <2>3, <3>1, FS_EmptySet DEF CutOff
    <3>2. CASE last_surface # None
      <4>1. last_surface \in 1..i-1 /\ i - last_surface < point_filter_num
        BY <2>2, <3>2 DEF RunInv
      <4> HIDE DEF Size
      <4>2. last_surface \in Int /\ Size \in Int /\ last_surface <= Size
        BY <2>3, <4>1
      <4>3. Cardinality(last_surface..Size) = Size - last_surface + 1
        BY <4>2, FS_Interval
      <4>4. CutOff = last_surface..Size
        BY <3>2 DEF CutOff
      <4> QED
        BY <2>2, <2>3, <4>1, <4>2, <4>3, <4>4
    <3> QED
      BY <3>1, <3>2
  <2> QED
    BY <2>2, <2>4, <2>5 DEF PickedSoFar
<1> QED
  BY InitIInv, StepKeepsIInv, <1>1, PTL DEF Spec
=============================================================================
