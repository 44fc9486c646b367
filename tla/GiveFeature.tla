---------------------------- MODULE GiveFeature ----------------------------
(***************************************************************************)
(* The classification of the points of one scan line (preprocess.cpp,      *)
(* give_feature): four loops over the line mark the planes, the jumps, the *)
(* small planes, and at last pick the points that go on.                   *)
(*                                                                         *)
(* Every geometric test is a choice, so the line may have any shape; what  *)
(* the code tests of the distance to the lidar is kept, since the points   *)
(* nearer than blind are the ones the loops have to step around.  Indices  *)
(* start at 1, one more than in the code.                                  *)
(***************************************************************************)
EXTENDS Integers, Sequences, FiniteSets

CONSTANTS GroupSize,          \* group_size: points a plane has at least
          None

ASSUME GroupAssumption == GroupSize \in Nat \ {0} /\ None \notin Nat

VARIABLES pl,                 \* the line: a sequence of points
          ftype,              \* the mark of each point
          intersect,          \* "initial", "computed" or "garbage"
          pass,               \* the loop that runs
          i,                  \* the index of that loop
          last_state,         \* the last group was a plane
          last_surface,       \* where the run of surface points starts
          pl_surf, pl_corn,   \* the two clouds that come out
          point_filter_num

line_vars == <<pl, ftype, intersect, i, last_state, last_surface>>
feature_vars == <<pl, ftype, intersect, pass, i, last_state, last_surface, pl_surf, pl_corn>>

Surface == {"Poss_Plane", "Real_Plane"}
Edges == {"Edge_Jump", "Edge_Plane"}
Feature == {"Nor", "Wire"} \cup Surface \cup Edges

Size == Len(pl)
(* Within blind of the axis of the lidar, whatever the height.             *)
Blind(k) == pl[k].pos.near \/ pl[k].pos.above
IsSurface(k) == ftype[k] \in Surface

(* The first point that is not blind.  The code's search has no end: on a  *)
(* line of blind points it leaves the line, and no loop then runs.         *)
FirstFar == CHOOSE h \in 1..Size+1 :
               (h <= Size => ~Blind(h)) /\ \A k \in 1..h-1 : Blind(k)

StartLine(line) ==
    /\ pl' = line
    /\ ftype' = [k \in 1..Len(line) |-> "Nor"]
    /\ intersect' = [k \in 1..Len(line) |-> "initial"]
    /\ pass' = "head"
    /\ i' = 1
    /\ last_state' = FALSE
    /\ last_surface' = None

FindHead ==
    /\ pass = "head"
    /\ pass' = "surf"
    /\ i' = FirstFar
    /\ UNCHANGED <<pl, ftype, intersect, last_state, last_surface, pl_surf, pl_corn, point_filter_num>>

(***************************************************************************)
(* plane_judge: the group starts at c, has GroupSize points, and grows up  *)
(* to the first point that is too far from c or to the end of the line.  A *)
(* blind point anywhere in it, or just behind it, gives it up.             *)
(***************************************************************************)
(* Mutant: the group grows over blind points.                              *)
GroupEndsAnywhere(c) == c+GroupSize..Size+1

GroupEnds(c) == {e \in c+GroupSize..Size+1 : \A k \in c..e-1 : ~Blind(k)}

PlaneJudge(c) ==
    {[type |-> 2, next |-> e] : e \in {k \in c..Size : Blind(k) /\ \A j \in c..k-1 : ~Blind(j)}}
    \cup {[type |-> t, next |-> e] :
             t \in {0, 1}, e \in {k \in GroupEnds(c) : k <= Size => ~Blind(k)}}

(* The marks of a plane from c to e.  When the group reaches the end of    *)
(* the line, e is one behind it and the code writes there too.             *)
MarkPlane(c, e, turned) ==
    [k \in 1..Size |->
        IF k = c /\ last_state THEN (IF turned THEN "Edge_Plane" ELSE "Real_Plane")
        ELSE IF k \in c+1..e-1 THEN "Real_Plane"
        ELSE IF k \in {c, e} THEN "Poss_Plane"
        ELSE ftype[k]]

(* Mutant: the index is set back to the start of a smallest group.         *)
AfterPlaneTooFar(e) == e - GroupSize

AfterPlane(e) == e            \* i = i_nex - 1, and the loop adds one

SkipBlind ==
    /\ pass = "surf" /\ i <= Size - GroupSize
    /\ Blind(i)
    /\ i' = i + 1
    /\ UNCHANGED <<pl, ftype, intersect, pass, last_state, last_surface, pl_surf, pl_corn, point_filter_num>>

JudgePlane ==
    /\ pass = "surf" /\ i <= Size - GroupSize
    /\ ~Blind(i)
    /\ \E r \in PlaneJudge(i) :
          IF r.type = 1
          THEN /\ \E turned \in BOOLEAN : ftype' = MarkPlane(i, r.next, turned)
               /\ i' = AfterPlane(r.next)
               /\ last_state' = TRUE
          ELSE /\ i' = r.next + 1
               /\ last_state' = FALSE
               /\ UNCHANGED ftype
    /\ UNCHANGED <<pl, intersect, pass, last_surface, pl_surf, pl_corn, point_filter_num>>

(***************************************************************************)
(* The jumps between a point and its neighbours.  The angle between the    *)
(* two neighbours is written for every point that gets here; with a blind  *)
(* neighbour it is computed from a vector nobody has set.                  *)
(***************************************************************************)
JumpOf(neighbour, far) ==
    IF Blind(neighbour) THEN (IF far THEN {"inf"} ELSE {"blind"})
                        ELSE {"nor", "zero", "180"}

(* edge_jump_judge: the two points on the side it looks at are not blind;  *)
(* the rest of the test is a choice.                                       *)
EdgeJump(k, side, test) == test /\ ~Blind(k + side) /\ ~Blind(k + 2 * side)

JumpMark(k, prev, next, test) ==
    IF \/ prev = "nor" /\ next \in {"zero", "inf"} /\ EdgeJump(k, -1, test)
       \/ prev \in {"zero", "inf"} /\ next = "nor" /\ EdgeJump(k, 1, test)
    THEN "Edge_Jump"
    ELSE IF prev # "nor" /\ next # "nor" /\ ftype[k] = "Nor" THEN "Wire"
    ELSE ftype[k]

JudgeJump ==
    /\ pass = "edge" /\ i <= Size - 3
    /\ i' = i + 1
    /\ IF Blind(i) \/ ftype[i] \notin {"Nor", "Poss_Plane"}
       THEN UNCHANGED <<ftype, intersect>>
       ELSE \/ UNCHANGED <<ftype, intersect>>               \* a neighbour at the same place
            \/ \E far, test \in BOOLEAN :
               \E prev \in JumpOf(i - 1, far), next \in JumpOf(i + 1, far) :
                  /\ intersect' = [intersect EXCEPT ![i] =
                        IF Blind(i - 1) \/ Blind(i + 1) THEN "garbage" ELSE "computed"]
                  /\ ftype' = [ftype EXCEPT ![i] = JumpMark(i, prev, next, test)]
    /\ UNCHANGED <<pl, pass, last_state, last_surface, pl_surf, pl_corn, point_filter_num>>

(* The small planes: a point in line with its two neighbours.              *)
(* Mutant: only the point itself must not be blind.                        *)
SmallPlaneAlone(k) == ~Blind(k) /\ ftype[k] = "Nor"

SmallPlaneCandidate(k) ==
    ~Blind(k) /\ ~Blind(k - 1) /\ ~Blind(k + 1) /\ ftype[k] = "Nor"

JudgeSmallPlane ==
    /\ pass = "small" /\ i <= Size - 1
    /\ i' = i + 1
    /\ \/ UNCHANGED ftype
       \/ /\ SmallPlaneCandidate(i)
          /\ intersect[i] # "initial"
          /\ ftype' = [k \in 1..Size |->
                IF k \in {i - 1, i, i + 1} /\ ftype[k] = "Nor" THEN "Real_Plane" ELSE ftype[k]]
    /\ UNCHANGED <<pl, intersect, pass, last_state, last_surface, pl_surf, pl_corn, point_filter_num>>

(***************************************************************************)
(* The points that go on.  Of a run of surface points every                *)
(* point_filter_num-th one does, standing for the ones before it; what is  *)
(* left of a run when it ends goes on as the mean of its points.           *)
(***************************************************************************)
Stands(from, to, times) == [of |-> {pl[k].id : k \in from..to}, times |-> times]

(* Mutant: one point more than point_filter_num.                           *)
FullRunLate(start, k) == k = start + point_filter_num

FullRun(start, k) == k = start + point_filter_num - 1

PickSurface ==
    /\ pass = "pick" /\ i <= Size /\ IsSurface(i)
    /\ LET start == IF last_surface = None THEN i ELSE last_surface IN
       IF FullRun(start, i)
       THEN /\ pl_surf' = Append(pl_surf, Stands(start, i, {pl[i].curvature}))
            /\ last_surface' = None
       ELSE /\ last_surface' = start
            /\ UNCHANGED pl_surf
    /\ i' = i + 1
    /\ UNCHANGED <<pl, ftype, intersect, pass, last_state, pl_corn, point_filter_num>>

PickOther ==
    /\ pass = "pick" /\ i <= Size /\ ~IsSurface(i)
    /\ pl_corn' = IF ftype[i] \in Edges THEN Append(pl_corn, pl[i].id) ELSE pl_corn
    /\ pl_surf' = IF last_surface = None THEN pl_surf
                  ELSE Append(pl_surf, Stands(last_surface, i - 1,
                                              {pl[k].curvature : k \in last_surface..i-1}))
    /\ last_surface' = None
    /\ i' = i + 1
    /\ UNCHANGED <<pl, ftype, intersect, pass, last_state, point_filter_num>>

(* A loop is over and the next one starts. *)
NextLoop ==
    /\ \/ pass = "surf" /\ i > Size - GroupSize /\ pass' = "edge" /\ i' = FirstFar + 3
       \/ pass = "edge" /\ i > Size - 3 /\ pass' = "small" /\ i' = FirstFar + 1
       \/ pass = "small" /\ i > Size - 1 /\ pass' = "pick" /\ i' = FirstFar
       \/ pass = "pick" /\ i > Size /\ pass' = "picked" /\ UNCHANGED i
    /\ UNCHANGED <<pl, ftype, intersect, last_state, last_surface, pl_surf, pl_corn, point_filter_num>>

Loops == FindHead \/ SkipBlind \/ JudgePlane \/ JudgeJump \/ JudgeSmallPlane
         \/ PickSurface \/ PickOther \/ NextLoop
=============================================================================
