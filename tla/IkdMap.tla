------------------------------ MODULE IkdMap ------------------------------
(* The k-d tree as FAST-LIO uses it: the public operations of KD_TREE, for *)
(* trees below Multi_Thread_Rebuild_Point_Num, where nothing else runs.    *)
EXTENDS IkdTree, Bags

CONSTANTS
  Boxes,               \* boxes the map is freed from
  Voxels,              \* cubes of side downsample_size, at its multiples
  BuildSets, Ranks,    \* first scans; ways nth_element may break ties
  K,                   \* k_nearest
  Radii,               \* of searches around a point
  MaxUpdates           \* bound on the number of updates

ASSUME MapAssumption ==
  /\ \A S \in BuildSets : S \subseteq Points /\ IsFiniteSet(S)
  /\ Ranks \subseteq [Points -> Int]
  /\ Boxes \cup Voxels \subseteq [lo : [Axes -> Int], hi : [Axes -> Int]]
  /\ \A p \in Points : \E v \in Voxels : InBox(p, v)
  /\ K \in Nat \ {0} /\ Radii \subseteq Int

VARIABLES
  Root_Node,
  Points_deleted,      \* bag of the points rebuilds dropped, not yet collected
  erased,               \* bag of the points deleted on request (history)
  last,                \* the last update (history)
  updates,
  content              \* history: bag of the points that are not deleted
vars == <<Root_Node, Points_deleted, erased, last, updates, content>>

Init ==
  /\ Root_Node = None
  /\ Points_deleted = EmptyBag
  /\ erased = EmptyBag
  /\ last = <<"none">>
  /\ updates = 0
  /\ content = EmptyBag

BagOf(seq) == [p \in ToSet(seq) |-> Cardinality({i \in DOMAIN seq : seq[i] = p})]

Called(call) == updates < MaxUpdates /\ updates' = updates + 1 /\ last' = call
Drop(seq) == Points_deleted' = Points_deleted (+) BagOf(seq)

Build(S, rank) ==
  /\ Called(<<"build", S>>)
  /\ Root_Node = None
  /\ Root_Node' = BuildTree(SetToSeq(S), rank)
  /\ UNCHANGED <<Points_deleted, erased>>

(* Add_Points without downsampling. *)
AddPoint(p, rank) ==
  LET d == Add_by_point(Root_Node, p, rank, Root_Node.axis)
  IN /\ Called(<<"insert", p>>)
     /\ Root_Node # None
     /\ Root_Node' = d.tree
     /\ Drop(d.removed)
     /\ UNCHANGED erased

Voxel(p) == CHOOSE v \in Voxels : InBox(p, v)
OffMiddle(p, v) == SquareDist([a \in Axes |-> 2 * p[a]], [a \in Axes |-> v.lo[a] + v.hi[a]])

Closest(p, stored, v) ==
  LET Off(i) == OffMiddle(stored[i], v)
      closer == {i \in DOMAIN stored : /\ Off(i) < OffMiddle(p, v)
                                       /\ \A j \in DOMAIN stored : Off(i) <= Off(j)}
  IN IF closer = {} THEN p ELSE stored[Min(closer)]

(* Add_Points with downsampling: one iteration of its loop.  A deletion that *)
(* leaves no tree (after Delete_Points it may) is the end of the process,    *)
(* which reads the axis of Root_Node next: there is no step for it.          *)
AddDownsampled(p, rank) ==
  LET v == Voxel(p)
      s == Search_by_range(Root_Node, v)
      best == Closest(p, s.found, v)
      cleared == IF s.found = <<>> THEN [tree |-> s.tree, removed |-> <<>>]
                 ELSE Delete_by_range(s.tree, v, rank, TRUE)
      d == Add_by_point(cleared.tree, best, rank, cleared.tree.axis)
  IN /\ Called(<<"downsample", p>>)
     /\ Root_Node # None
     /\ UNCHANGED erased
     /\ IF Len(s.found) > 1 \/ best = p
        THEN cleared.tree # None /\ Root_Node' = d.tree /\ Drop(cleared.removed \o d.removed)
        ELSE Root_Node' = s.tree /\ UNCHANGED Points_deleted

Only(bag, S) == [p \in BagToSet(bag) \cap S |-> bag[p]]

(* Delete_Point_Boxes, one box. *)
DeleteBox(b, rank) ==
  LET d == Delete_by_range(Root_Node, b, rank, FALSE)
  IN /\ Called(<<"delete", b>>)
     /\ Root_Node' = d.tree
     /\ Drop(d.removed)
     /\ erased' = erased (+) Only(content, {p \in Points : InBox(p, b)})

(* Delete_Points, one point. *)
DeletePointOf(p, rank) ==
  LET d == Delete_by_point(Root_Node, p, rank)
  IN /\ Called(<<"delete point", p>>)
     /\ Root_Node' = d.tree
     /\ Drop(d.removed)
     /\ erased' = erased (+) (content (-) BagOf(flatten[d.tree]))

Radius_Search(p, r) ==
  /\ Root_Node' = Search_by_radius(Root_Node, p, r).tree
  /\ UNCHANGED <<Points_deleted, erased, last, updates>>

Nearest_Search(p) ==
  /\ Root_Node' = Search(Root_Node, K, p, <<>>).tree
  /\ UNCHANGED <<Points_deleted, erased, last, updates>>

acquire_removed_points ==
  /\ Points_deleted' = EmptyBag
  /\ UNCHANGED <<Root_Node, erased, last, updates>>

Call ==
  \/ acquire_removed_points
  \/ \E p \in Points : Nearest_Search(p)
  \/ \E p \in Points, r \in Radii : Radius_Search(p, r)
  \/ \E rank \in Ranks :
       \/ \E S \in BuildSets : Build(S, rank)
       \/ \E p \in Points : AddPoint(p, rank) \/ AddDownsampled(p, rank)
                          \/ DeletePointOf(p, rank)
       \/ \E b \in Boxes : DeleteBox(b, rank)

Next == Call /\ content' = BagOf(flatten[Root_Node'])

Spec == Init /\ [][Next]_vars
===========================================================================
