---------------------------- MODULE PointStore ----------------------------
(* What the map of points promises its users: a bag of points, whatever    *)
(* tree holds them.                                                        *)
EXTENDS Integers, Bags

CONSTANTS
  Points,   \* the points a scan may hold
  Boxes,    \* the boxes that may be deleted, records of corners lo and hi
  Voxels    \* the voxels of the downsampling, boxes that part the space

VARIABLES points, last   \* the bag, the last update with its argument

In(p, b) == \A a \in 1 .. 3 : b.lo[a] <= p[a] /\ p[a] < b.hi[a]
VoxelOf(p) == CHOOSE v \in Voxels : In(p, v)

(* Twice the distance to the middle of a voxel, squared.                   *)
OffCentre(p, v) ==
  LET d(a) == 2 * p[a] - v.lo[a] - v.hi[a] IN d(1) * d(1) + d(2) * d(2) + d(3) * d(3)

Outside(bag, b) == [p \in {q \in BagToSet(bag) : ~In(q, b)} |-> bag[p]]
HoldsOne(bag, b) == \E q \in BagToSet(bag) : bag[q] = 1 /\ {r \in BagToSet(bag) : In(r, b)} = {q}

Init == points = EmptyBag /\ last = <<"none">>

(* The updates, as relations between the bag before and the bag after.     *)
Build(before, after, S) == before = EmptyBag /\ after = SetToBag(S)

Insert(before, after, p) == after = before (+) SetToBag({p})

(* A voxel that gets a point keeps the one closest to its middle, of equals *)
(* the new one; only a voxel that held one better point is left as it is.   *)
Downsample(before, after, p) ==
  LET v == VoxelOf(p)
      here == {p} \cup {q \in BagToSet(before) : In(q, v)}
      closest == {q \in here : \A r \in here : OffCentre(q, v) <= OffCentre(r, v)}
  IN \E best \in IF p \in closest THEN {p} ELSE closest :
       after = IF HoldsOne(before, v) /\ best # p THEN before
               ELSE Outside(before, v) (+) SetToBag({best})

Delete(before, after, b) == after = Outside(before, b)

(* A point is deleted once, if it is found: it need not be.                *)
DeletePoint(before, after, p) == after = before \/ after = before (-) SetToBag({p})

Next ==
  \E before \in {points}, after \in {points'} :
    \/ \E S \in SUBSET Points : last' = <<"build", S>> /\ Build(before, after, S)
    \/ \E p \in Points : \/ last' = <<"insert", p>> /\ Insert(before, after, p)
                         \/ last' = <<"downsample", p>> /\ Downsample(before, after, p)
                         \/ last' = <<"delete point", p>> /\ DeletePoint(before, after, p)
    \/ \E b \in Boxes : last' = <<"delete", b>> /\ Delete(before, after, b)

Spec == Init /\ [][Next]_<<points, last>>
===========================================================================
