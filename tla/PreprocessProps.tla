-------------------------- MODULE PreprocessProps --------------------------
(* What FAST-LIO's preprocessing has to get right. *)
EXTENDS Preprocess

(***************************************************************************)
(* The offset time of a point that is kept is the time it was measured: of *)
(* a lidar without times, the angle it has turned since the first point of *)
(* that ring, also in a second turn, and for a mean of points, the times   *)
(* of those points.  Undistortion moves a point by its time.               *)
(***************************************************************************)
MeasuredAt(p) == IF lidar_type = "other" THEN 0
                 ELSE IF lidar_type = "MID360" \/ (lidar_type = "VELO16" /\ ~Given(msg))
                 THEN p.turned ELSE p.time

TimesAreTrue ==
    \A k \in DOMAIN pl_surf :
        pl_surf[k].times \subseteq {MeasuredAt(msg[id + 1]) : id \in pl_surf[k].of}

(***************************************************************************)
(* A point within blind of the lidar's axis is never taken for a feature,  *)
(* although each loop marks neighbours and whole ranges besides the point  *)
(* it looks at.                                                            *)
(***************************************************************************)
BlindNeverUsed == \A k \in DOMAIN ftype : Blind(k) => ftype[k] = "Nor"

(***************************************************************************)
(* The angle that was computed from an unset vector is never used: the     *)
(* loop that reads it leaves out every point with a blind neighbour.       *)
(***************************************************************************)
GarbageNeverRead ==
    pass = "small" /\ i <= Size - 1 /\ SmallPlaneCandidate(i) => intersect[i] # "garbage"

(***************************************************************************)
(* When the features of a line are picked, each of its surface points is   *)
(* stood for by exactly one point of the result, and none stands for more  *)
(* than point_filter_num, except for what is left of a run that the end of *)
(* the line cuts off.                                                      *)
(***************************************************************************)
Ids(S) == {pl[k].id : k \in S}
OfLine == {k \in DOMAIN pl_surf : pl_surf[k].of \subseteq Ids(1..Size)}
CutOff == IF last_surface = None THEN {} ELSE last_surface..Size

SurfaceOnce ==
    pass = "picked" /\ Size > 0 =>
        /\ UNION {pl_surf[k].of : k \in OfLine} = Ids({k \in 1..Size : IsSurface(k)} \ CutOff)
        /\ \A k \in OfLine : /\ Cardinality(pl_surf[k].of) <= point_filter_num
                             /\ \A j \in OfLine \ {k} : pl_surf[j].of \cap pl_surf[k].of = {}
        /\ Cardinality(CutOff) < point_filter_num

(* Whatever the line looks like, the extraction comes to an end: the index *)
(* of the first loop is set back to the end of each plane.  Only an empty  *)
(* line that comes later cuts the work short.                              *)
ExtractionEnds == pass = "head" ~> pass \in {"done", "crashed"}
=============================================================================
