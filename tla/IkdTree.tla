------------------------------ MODULE IkdTree ------------------------------
(* The data structure of include/ikd-Tree: a k-d tree whose nodes delete    *)
(* their points lazily and whose subtrees are built anew when they become   *)
(* too lopsided or too full of deleted points.  A tree is None or a record; *)
(* a function that changes a tree returns the changed tree.  Coordinates    *)
(* are integers, axes are 1..3 (0..2 in the code), and what only one thread *)
(* reads (radius_sq, alpha_bal) or writes (working_flag) is left out.         *)
EXTENDS Integers, FiniteSets, SequencesExt

CONSTANTS
  None,                          \* nullptr
  Minimal_Unbalanced_Tree_Size,  \* trees up to this size are never rebuilt
  DeletePercent,                 \* delete_criterion_param * 100
  BalancePercent,                \* balance_criterion_param * 100
  Points,                        \* points of the scans
  Heights                        \* bounds of a tree's height: Nat, or one for TLC

Axes == 1 .. 3
Side == {"left", "right"}
Both(x) == [s \in Side |-> x]

NodesOver(S) ==
  [point : Points, axis : Axes, size : Nat, invalid : Nat, down_del : Nat,
   point_deleted : BOOLEAN, tree_deleted : BOOLEAN,
   point_downsample_deleted : BOOLEAN, tree_downsample_deleted : BOOLEAN,
   need_push : [Side -> BOOLEAN], lo : [Axes -> Int], hi : [Axes -> Int],
   son : [Side -> S]]

TreesUpTo[h \in Nat] == {None} \cup (IF h = 0 THEN {} ELSE NodesOver(TreesUpTo[h - 1]))
Trees == UNION {TreesUpTo[h] : h \in Heights}

ASSUME TreeAssumption ==
  /\ Points \subseteq [Axes -> Int]
  /\ Heights \subseteq Nat
  /\ None \notin NodesOver(Trees)

Sons(n) == {s \in Side : n.son[s] # None}

(* A box is closed below and open above. *)
InBox(p, b) == \A a \in Axes : b.lo[a] <= p[a] /\ p[a] < b.hi[a]
Apart(b, n) == \E a \in Axes : b.hi[a] <= n.lo[a] \/ b.lo[a] > n.hi[a]
Covers(b, n) == \A a \in Axes : b.lo[a] <= n.lo[a] /\ b.hi[a] > n.hi[a]

Square(x) == x * x
SquareDist(p, q) == Square(p[1] - q[1]) + Square(p[2] - q[2]) + Square(p[3] - q[3])

One(b) == IF b THEN 1 ELSE 0

Total(n, f) ==
  LET Of(m) == IF m = None THEN 0 ELSE m[f] IN Of(n.son["left"]) + Of(n.son["right"])
InvalidPoints(n) == One(n.point_deleted) + Total(n, "invalid")

(* The hull of the sons and the point that are not deleted, or of all of    *)
(* them when all are.                                                       *)
Hull(n, all) ==
  LET kept == {s \in Sons(n) : all \/ ~n.son[s].tree_deleted}
      corners == {n.son[s].lo : s \in kept} \cup {n.son[s].hi : s \in kept}
                 \cup (IF all \/ ~n.point_deleted THEN {n.point} ELSE {})
      Bound(Best(_)) == [a \in Axes |-> Best({c[a] : c \in corners})]
  IN [lo |-> Bound(Min), hi |-> Bound(Max)]

(* The counts, flags and range of a node from those of its sons.            *)
Update(n) ==
  LET td == n.point_deleted /\ \A s \in Sons(n) : n.son[s].tree_deleted
      hull == Hull(n, td)
  IN [n EXCEPT !.size = 1 + Total(n, "size"), !.invalid = InvalidPoints(n),
               !.down_del = One(n.point_downsample_deleted) + Total(n, "down_del"),
               !.tree_downsample_deleted = n.point_downsample_deleted
                  /\ \A s \in Sons(n) : n.son[s].tree_downsample_deleted,
               !.tree_deleted = td, !.lo = hull.lo, !.hi = hull.hi]

Node(p, axis) ==
  [point |-> p, axis |-> axis, size |-> 0, invalid |-> 0, down_del |-> 0,
   point_deleted |-> FALSE, tree_deleted |-> FALSE,
   point_downsample_deleted |-> FALSE, tree_downsample_deleted |-> FALSE,
   need_push |-> Both(FALSE), lo |-> p, hi |-> p, son |-> Both(None)]

-----------------------------------------------------------------------------
(* Mutant: the count of deleted points is not pushed with the flag.         *)
PushedKeepsCount(op, m) ==
  [m EXCEPT !.tree_deleted = op.tree_deleted \/ @,
            !.point_deleted = op.tree_deleted \/ @, !.need_push = Both(TRUE)]

(* What the flags op of its father make of a node.                          *)
Pushed(op, m) ==
  LET tdd == m.tree_downsample_deleted \/ op.tree_downsample_deleted
      pdd == m.point_downsample_deleted \/ op.tree_downsample_deleted
      td == op.tree_deleted \/ tdd
      down == IF op.tree_downsample_deleted THEN m.size ELSE m.down_del
  IN [m EXCEPT !.tree_downsample_deleted = tdd, !.point_downsample_deleted = pdd,
               !.tree_deleted = td, !.point_deleted = td \/ pdd, !.down_del = down,
               !.invalid = IF op.tree_deleted THEN m.size ELSE down,
               !.need_push = Both(TRUE)]

(* Mutant: the flags are taken back and never passed on.                    *)
NoPushDown(n) == [n EXCEPT !.need_push = Both(FALSE)]

Push_Down(n) ==
  LET S == {s \in Sons(n) : n.need_push[s]}
  IN [n EXCEPT !.son = [s \in Side |-> IF s \in S THEN Pushed(n, @[s]) ELSE @[s]],
               !.need_push = [s \in Side |-> @[s] /\ s \notin S]]

(* Mutant: points the downsampling dropped are reported too.                *)
ReportedAll(n) == n.point_deleted

Reported(n) == n.point_deleted /\ ~n.point_downsample_deleted

(* The points that are not deleted, the points a rebuild reports as removed *)
(* by a box, and the tree after every flag on the way has been pushed down. *)
flatten[t \in Trees] ==
  IF t = None THEN <<>>
  ELSE LET n == Push_Down(t)
       IN (IF n.point_deleted THEN <<>> ELSE <<n.point>>)
          \o flatten[n.son["left"]] \o flatten[n.son["right"]]

Removed[t \in Trees] ==
  IF t = None THEN <<>>
  ELSE LET n == Push_Down(t)
       IN Removed[n.son["left"]] \o Removed[n.son["right"]]
          \o (IF Reported(n) THEN <<n.point>> ELSE <<>>)

PushAll[t \in Trees] ==
  IF t = None THEN None
  ELSE LET n == Push_Down(t) IN [n EXCEPT !.son = [s \in Side |-> PushAll[n.son[s]]]]

-----------------------------------------------------------------------------
(* nth_element leaves open on which side a point goes that has the          *)
(* coordinate of the middle one: rank decides between them.                 *)
Arranged(points, axis, rank) ==
  LET Before(i, j) ==
        LET p == points[i]  q == points[j]
        IN \/ p[axis] < q[axis]
           \/ p[axis] = q[axis] /\ (rank[p] < rank[q] \/ (rank[p] = rank[q] /\ i < j))
      At(k) == CHOOSE i \in DOMAIN points :
                 Cardinality({j \in DOMAIN points : Before(j, i)}) = k - 1
  IN [k \in DOMAIN points |-> points[At(k)]]

Widest(points) ==
  LET Coords(a) == {p[a] : p \in ToSet(points)}
      Spread(a) == Max(Coords(a)) - Min(Coords(a))
  IN CHOOSE a \in Axes :
       \A b \in Axes : Spread(b) <= Spread(a) /\ (b < a => Spread(b) < Spread(a))

BuildTree(all, rank) ==
  LET Build[points \in Seq(Points)] ==
        IF points = <<>> THEN None
        ELSE LET axis == Widest(points)
                 sorted == Arranged(points, axis, rank)
                 mid == (Len(points) + 1) \div 2
             IN Update([Node(sorted[mid], axis) EXCEPT
                  !.son = [left |-> Build[SubSeq(sorted, 1, mid - 1)],
                           right |-> Build[SubSeq(sorted, mid + 1, Len(points))]]])
  IN Build[all]

Criterion_Check(n) ==
  /\ n.size > Minimal_Unbalanced_Tree_Size
  /\ LET son == IF n.son["left"] # None THEN n.son["left"] ELSE n.son["right"]
     IN \/ 100 * n.invalid > DeletePercent * n.size
        \/ 100 * son.size > BalancePercent * (n.size - 1)
        \/ 100 * son.size < (100 - BalancePercent) * (n.size - 1)

(* The branch of Rebuild for trees below Multi_Thread_Rebuild_Point_Num.    *)
Rebuild(n, rank) == [tree |-> BuildTree(flatten[n], rank), removed |-> Removed[n]]

(* How every insertion and deletion leaves a node: rank is None where the   *)
(* caller does not allow a rebuild.                                         *)
Finish(n, rank) ==
  LET u == Update(n)
  IN IF rank # None /\ Criterion_Check(u) THEN Rebuild(u, rank)
     ELSE [tree |-> u, removed |-> <<>>]

-----------------------------------------------------------------------------
(* A box that covers a node deletes all of it by flags alone.               *)
DeleteAll(n, ds) ==
  [n EXCEPT !.tree_deleted = TRUE, !.point_deleted = TRUE, !.need_push = Both(TRUE),
            !.invalid = n.size, !.tree_downsample_deleted = @ \/ ds,
            !.point_downsample_deleted = @ \/ ds, !.down_del = IF ds THEN n.size ELSE @]

Delete_by_range(tree, box, rank, ds) ==
  LET Delete[t \in Trees] ==
        IF t = None \/ t.tree_deleted THEN [tree |-> t, removed |-> <<>>, count |-> 0]
        ELSE LET n == Push_Down(t)
             IN IF Apart(box, n) THEN [tree |-> n, removed |-> <<>>, count |-> 0]
                ELSE IF Covers(box, n)
                THEN [tree |-> DeleteAll(n, ds), removed |-> <<>>, count |-> n.size - n.invalid]
                ELSE LET hit == ~n.point_deleted /\ InBox(n.point, box)
                         l == Delete[n.son["left"]]
                         r == Delete[n.son["right"]]
                         e == Finish([n EXCEPT !.point_deleted = @ \/ hit,
                                        !.point_downsample_deleted = @ \/ (hit /\ ds),
                                        !.son = [left |-> l.tree, right |-> r.tree]], rank)
                     IN [tree |-> e.tree, removed |-> l.removed \o r.removed \o e.removed,
                         count |-> One(hit) + l.count + r.count]
  IN Delete[tree]

SideOf(n, p) == IF p[n.axis] < n.point[n.axis] THEN "left" ELSE "right"

DeletePoint(n) ==
  [n EXCEPT !.point_deleted = TRUE, !.invalid = @ + 1,
            !.tree_deleted = @ \/ n.invalid + 1 = n.size]

(* The first equal point on the way down is deleted and the way ends there; *)
(* a point on the other side of a node that ties with it is not found.      *)
Delete_by_point(tree, p, rank) ==
  LET Delete[t \in Trees] ==
        IF t = None \/ t.tree_deleted THEN [tree |-> t, removed |-> <<>>]
        ELSE LET n == Push_Down(t)
                 s == SideOf(n, p)
                 d == Delete[n.son[s]]
                 e == Finish([n EXCEPT !.son[s] = d.tree], rank)
             IN IF n.point = p /\ ~n.point_deleted
                THEN [tree |-> DeletePoint(n), removed |-> <<>>]
                ELSE [tree |-> e.tree, removed |-> d.removed \o e.removed]
  IN Delete[tree]

Add_by_point(tree, p, rank, father) ==
  LET Add[t \in Trees] ==
        [father_axis \in Axes |->
           IF t = None
           THEN [tree |-> Update(Node(p, (father_axis % 3) + 1)), removed |-> <<>>]
           ELSE LET n == Push_Down(t)
                    s == SideOf(n, p)
                    d == Add[n.son[s]][n.axis]
                    e == Finish([n EXCEPT !.son[s] = d.tree], rank)
                IN [tree |-> e.tree, removed |-> d.removed \o e.removed]]
  IN Add[tree][father]

-----------------------------------------------------------------------------
(* A search pushes flags down on its way, so it changes the tree too.       *)
Search_by_range(tree, box) ==
  LET Find[t \in Trees] ==
        IF t = None THEN [tree |-> None, found |-> <<>>]
        ELSE LET n == Push_Down(t)
                 l == Find[n.son["left"]]
                 r == Find[n.son["right"]]
                 hit == InBox(n.point, box) /\ ~n.point_deleted
             IN IF Apart(box, n) THEN [tree |-> n, found |-> <<>>]
                ELSE IF Covers(box, n) THEN [tree |-> PushAll[n], found |-> flatten[n]]
                ELSE [tree |-> [n EXCEPT !.son = [left |-> l.tree, right |-> r.tree]],
                      found |-> (IF hit THEN <<n.point>> ELSE <<>>) \o l.found \o r.found]
  IN Find[tree]

(* The ball around a node's range (radius_sq) lies outside, or inside, the  *)
(* ball of radius r around a point.  Every length is doubled and every      *)
(* comparison squared to stay with integers.                                *)
Diagonal(n) == SquareDist(n.lo, n.hi)
ToCenter(n, p) == SquareDist([a \in Axes |-> n.lo[a] + n.hi[a]], [a \in Axes |-> 2 * p[a]])
BallOutside(n, p, r) ==
  LET beyond == ToCenter(n, p) - 4 * r * r - Diagonal(n)
  IN beyond > 0 /\ Square(beyond) > 16 * r * r * Diagonal(n)

(* Mutant: the extent of the subtree is not taken off the radius.           *)
CenterInside(n, p, r) == ToCenter(n, p) <= 4 * r * r

BallInside(n, p, r) ==
  LET left == 4 * r * r - ToCenter(n, p) - Diagonal(n)
  IN left >= 0 /\ 4 * ToCenter(n, p) * Diagonal(n) <= Square(left)

Search_by_radius(tree, p, r) ==
  LET Find[t \in Trees] ==
        IF t = None THEN [tree |-> None, found |-> <<>>]
        ELSE LET n == Push_Down(t)
                 l == Find[n.son["left"]]
                 h == Find[n.son["right"]]
                 hit == ~n.point_deleted /\ SquareDist(n.point, p) <= r * r
             IN IF BallOutside(n, p, r) THEN [tree |-> n, found |-> <<>>]
                ELSE IF BallInside(n, p, r) THEN [tree |-> PushAll[n], found |-> flatten[n]]
                ELSE [tree |-> [n EXCEPT !.son = [left |-> l.tree, right |-> h.tree]],
                      found |-> (IF hit THEN <<n.point>> ELSE <<>>) \o l.found \o h.found]
  IN Find[tree]

Infinity == 2147483647
calc_box_dist(n, p) ==
  IF n = None THEN Infinity
  ELSE SquareDist(p, [a \in Axes |-> Max({n.lo[a], Min({p[a], n.hi[a]})})])

(* The heap q of a search is the sequence of the points found, the closest  *)
(* first: its top is the last of at most k.                                 *)
Top(q, at) == SquareDist(Last(q), at)
KeepClosest(q, p, k, at) ==
  LET d == SquareDist(p, at)
      rest == IF Len(q) >= k THEN Front(q) ELSE q
      closer == Cardinality({i \in DOMAIN rest : SquareDist(rest[i], at) <= d})
  IN IF Len(q) < k \/ d < Top(q, at)
     THEN SubSeq(rest, 1, closer) \o <<p>> \o SubSeq(rest, closer + 1, Len(rest))
     ELSE q

(* Mutant: the farther side is skipped as soon as k points are found.       *)
WorthVisitingWhenShort(q, k, d, at) == Len(q) < k

WorthVisiting(q, k, d, at) == Len(q) < k \/ d < Top(q, at)

(* Both sides, the nearer first.  The second is judged after the first was  *)
(* searched; the code does so in each of its cases.                         *)
Search(tree, k, at, heap) ==
  LET Visit[t \in Trees] ==
        [q \in Seq(Points) |->
           IF t = None \/ t.tree_deleted THEN [tree |-> t, q |-> q]
           ELSE LET n == Push_Down(t)
                    q0 == IF n.point_deleted THEN q ELSE KeepClosest(q, n.point, k, at)
                    dist == [s \in Side |-> calc_box_dist(n.son[s], at)]
                    both == Len(q0) < k \/ \A s \in Side : dist[s] < Top(q0, at)
                    first == IF both /\ dist["left"] > dist["right"] THEN "right" ELSE "left"
                    second == IF first = "left" THEN "right" ELSE "left"
                    Enter(s, h) == IF WorthVisiting(h, k, dist[s], at)
                                   THEN Visit[n.son[s]][h] ELSE [tree |-> n.son[s], q |-> h]
                    v == Enter(first, q0)
                    w == Enter(second, v.q)
                IN [tree |-> [n EXCEPT !.son[first] = v.tree, !.son[second] = w.tree], q |-> w.q]]
  IN Visit[tree][heap]
=============================================================================
