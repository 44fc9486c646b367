----------------------------- MODULE IkdProps -----------------------------
(* What the k-d tree promises FAST-LIO.                                    *)
EXTENDS IkdMap

Store == INSTANCE PointStore WITH points <- content

(* The tree is a bag of points: whatever was deleted lazily, pushed down,  *)
(* pruned by a range or rebuilt on the way, a call changes the points as   *)
(* the same call on a plain bag would.                                     *)
IsPointStore == Store!Spec

Nodes[t \in Trees] == IF t = None THEN {} ELSE {t} \cup Nodes[t.son["left"]] \cup Nodes[t.son["right"]]

(* The counts that decide on rebuilds and that the odometry asks for       *)
(* (validnum) are those of the points: no flag that is still to be pushed  *)
(* down, and no call that returned early, leaves one behind.               *)
CountsExact ==
  \A n \in Nodes[PushAll[Root_Node]] :
    /\ n.size = Len(flatten[n]) + n.invalid
    /\ n.tree_deleted <=> flatten[n] = <<>>

(* A search that skips what lies beyond the ranges finds the points that    *)
(* one that looks at every point finds: K of them, the closest first, and  *)
(* none of the others is closer, or all of them when there are no more.    *)
NearestFound ==
  \A at \in Points :
    LET q == Search(Root_Node, K, at, <<>>).q
        others == content (-) BagOf(q)
    IN /\ BagOf(q) \sqsubseteq content /\ Len(q) <= K
       /\ \A i, j \in DOMAIN q : i <= j => SquareDist(q[i], at) <= SquareDist(q[j], at)
       /\ \A p \in BagToSet(others) : Len(q) = K /\ Top(q, at) <= SquareDist(p, at)

(* A search around a point that takes whole subtrees, or none of one, by   *)
(* their ball finds the points within its radius and no others.            *)
RadiusFound ==
  \A at \in Points, r \in Radii :
    BagOf(Search_by_radius(Root_Node, at, r).found)
      = Only(content, {p \in Points : SquareDist(p, at) <= r * r})

(* A point that is reported as removed was deleted on request, and is      *)
(* reported once: downsampling and rebuilding report nothing.              *)
ReportedOnce == Points_deleted (+) BagOf(Removed[Root_Node]) \sqsubseteq erased
===========================================================================
