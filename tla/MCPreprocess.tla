---------------------------- MODULE MCPreprocess ----------------------------
(* Small messages of each lidar. *)
EXTENDS PreprocessProps

Places == {"far", "near", "above"}
At(yaw, place) == [yaw |-> yaw, near |-> place = "near", above |-> place = "above"]

(* The headings a clockwise lidar has after turning by t from start, as    *)
(* atan2 gives them.                                                       *)
Heading(start, t) == ((start - t + Turn \div 2 - 1) % Turn) - (Turn \div 2 - 1)

(***************************************************************************)
(* Scans of a rotating lidar: the rings of the points, how far each turns  *)
(* from the point before of its ring (less than a circle, and less than    *)
(* two in all), and the point that is near, if any.                        *)
(***************************************************************************)
HasEarlier(rings, k) == \E j \in 1..k-1 : rings[j] = rings[k]

TurnedAt(rings, steps) ==
    [k \in DOMAIN rings |->
        MapThenSumSet(LAMBDA j : steps[j],
                      {j \in 2..k : rings[j] = rings[k] /\ HasEarlier(rings, j)})]

RingOrders == {<<0, 0, 0, 0, 0>>, <<0, 1, 0, 1, 0>>, <<1, 0, 0, 1, 1>>}

Rotation(rings, turned, start, near, timed) ==
    [k \in DOMAIN rings |->
        [id |-> k - 1, ring |-> rings[k], tag |-> TRUE,
         pos |-> At(Heading(start, turned[k]), IF k = near THEN "near" ELSE "far"),
         time |-> IF timed THEN k - 1 ELSE 0,
         turned |-> turned[k]]]

Turnings(rings) == {t \in {TurnedAt(rings, steps) : steps \in [2..5 -> {0, 1, 3}]} :
                        \A k \in DOMAIN t : t[k] < 2 * Turn}

Rotations(times) ==
    UNION {{Rotation(rings, turned, start, near, timed) :
              turned \in Turnings(rings), start \in {-1, 0, 1, 2}, near \in {0, 3}, timed \in times} :
           rings \in RingOrders}

(* Scans of lidars with times: each point is far, in one of two places, or *)
(* near, or on a ring there is not, or has a tag that is not valid.        *)
Kinds == {[ring |-> 0, tag |-> TRUE, pos |-> At(1, "far")],
          [ring |-> 0, tag |-> TRUE, pos |-> At(2, "far")],
          [ring |-> 1, tag |-> TRUE, pos |-> At(1, "near")],
          [ring |-> N_SCANS, tag |-> TRUE, pos |-> At(1, "far")],
          [ring |-> 1, tag |-> FALSE, pos |-> At(1, "far")]}

Scan(kinds) == [k \in DOMAIN kinds |->
                  [id |-> k - 1, ring |-> kinds[k].ring, tag |-> kinds[k].tag,
                   pos |-> kinds[k].pos, time |-> k, turned |-> 0]]

Scans(n) == {Scan(kinds) : kinds \in [1..n -> Kinds]}

(***************************************************************************)
(* Scans for the features: one ring of n points, the first of them skipped *)
(* or not, in different places and any of them right above the lidar; and  *)
(* two short rings, and one ring alone of the two.                         *)
(***************************************************************************)
Line(n, above) == Scan([k \in 1..n |-> [ring |-> 0, tag |-> TRUE,
                                        pos |-> At(k, IF k \in above THEN "above" ELSE "far")]])

Lines(n) == {Line(n, above) : above \in SUBSET (2..n)}

Interleaved(n) == Scan([k \in 1..n |-> [ring |-> k % 3, tag |-> TRUE, pos |-> At(k, "far")]])

OneTurn == Rotation(<<0, 0, 0, 0, 0, 0, 1>>, <<0, 1, 2, 3, 4, 5, 0>>, 0, 3, FALSE)

MCMessages(lidar, features) ==
    CASE ~features /\ lidar \in {"VELO16", "MID360"} -> Rotations(BOOLEAN)
      [] ~features -> Scans(5)
      [] lidar = "AVIA" -> Lines(9) \cup {Interleaved(8)}
      [] lidar = "VELO16" -> {Interleaved(8), OneTurn}
      [] lidar = "OUST64" -> {Interleaved(5), Line(5, {2})}
      [] OTHER -> {OneTurn}
=============================================================================
