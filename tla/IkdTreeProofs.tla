---------------------------- MODULE IkdTreeProofs ----------------------------
(***************************************************************************)
(* Proofs about the k-d tree, for any points, boxes, voxels, criteria and  *)
(* ways to break ties, and for trees of any height: what each operation on *)
(* a subtree does to its points and its counts, and that the counts stay   *)
(* exact. IkdProofs goes on from here.                                     *)
(***************************************************************************)
EXTENDS IkdProps, FiniteSetTheorems, FunctionTheorems, SequenceTheorems, WellFoundedInduction, TLAPS

(***************************************************************************)
(* Induction over numbers, and recursion over a set with a measure.        *)
(***************************************************************************)
LEMMA LeastUpTo ==
  ASSUME NEW n \in Nat, NEW T, T \subseteq 0..n, T # {}
  PROVE  \E m \in T : \A x \in T : m <= x
<1> DEFINE S == 0..n
           R == StrictSubsetOrdering(S)
           W == {0..x : x \in T}
<1>1. IsFiniteSet(S) /\ W # {}
  <2>1. IsFiniteSet(S)
    BY FS_Interval
  <2>2. PICK x \in T : TRUE
    OBVIOUS
  <2>3. 0..x \in W
    OBVIOUS
  <2> QED
    BY <2>1, <2>3
<1>2. W \subseteq FiniteSubsetsOf(S)
  <2>1. \A x \in T : 0..x \subseteq S
    OBVIOUS
  <2>2. \A w \in W : w \subseteq S
    BY <2>1
  <2> QED
    BY <1>1, <2>2, FS_Subset DEF FiniteSubsetsOf
<1>3. IsWellFoundedOn(R, FiniteSubsetsOf(S))
  BY <1>1, FS_StrictSubsetOrderingWellFounded
<1> HIDE DEF S, R, W
<1>4. PICK w \in W : \A y \in W : ~(<<y, w>> \in R)
  BY <1>1, <1>2, <1>3, WFMin
<1>5. PICK m \in T : w = 0..m
  BY DEF W
<1>6. ASSUME NEW x \in T, ~(m <= x)
      PROVE  FALSE
  <2>1. 0..x \in W
    BY DEF W
  <2>2. x \in Nat /\ m \in Nat
    OBVIOUS
  <2>3. 0..x \subseteq 0..m /\ m \in 0..m /\ m \notin 0..x
    BY <1>6, <2>2
  <2>4. 0..x \subseteq S /\ 0..m \subseteq S
    BY <2>2 DEF S
  <2>5. <<0..x, 0..m>> \in R
    BY <2>3, <2>4 DEF R, StrictSubsetOrdering
  <2> QED
    BY <1>4, <1>5, <2>1, <2>5
<1> QED
  BY <1>6

LEMMA Least ==
  ASSUME NEW T \in SUBSET Nat, T # {}
  PROVE  \E m \in T : \A x \in T : m <= x
<1> PICK n \in T : TRUE
  OBVIOUS
<1> DEFINE U == T \cap (0..n)
<1>1. n \in Nat /\ U \subseteq 0..n /\ n \in U
  OBVIOUS
<1>2. PICK m \in U : \A x \in U : m <= x
  <2> HIDE DEF U
  <2> QED
    BY <1>1, LeastUpTo
<1>3. \A x \in T : m <= x
  <2> TAKE x \in T
  <2>1. CASE x <= n
    BY <1>2, <2>1
  <2>2. CASE ~(x <= n)
    <3>1. m \in Nat /\ m <= n /\ x \in Nat
      OBVIOUS
    <3> QED
      BY <2>2, <3>1
  <2> QED
    BY <2>1, <2>2
<1> QED
  BY <1>3

LEMMA NatSet ==
  ASSUME NEW S, \A n \in Nat : (\A k \in Nat : k < n => k \in S) => n \in S
  PROVE  \A n \in Nat : n \in S
<1> SUFFICES ASSUME NEW n \in Nat, n \notin S
             PROVE  FALSE
  OBVIOUS
<1> DEFINE T == {k \in Nat : k \notin S}
<1>1. T \in SUBSET Nat /\ T # {}
  OBVIOUS
<1>2. PICK m \in T : \A x \in T : m <= x
  <2> HIDE DEF T
  <2> QED
    BY <1>1, Least
<1>3. \A k \in Nat : k < m => k \in S
  BY <1>2
<1> QED
  BY <1>3

(* A set whose members get a measure, and a property that a member has when *)
(* all smaller ones have it.                                                *)
LEMMA MeasureInduction ==
  ASSUME NEW X, NEW h \in [X -> Nat], NEW S,
         \A x \in X : (\A y \in X : h[y] < h[x] => y \in S) => x \in S
  PROVE  X \subseteq S
<1> DEFINE T == {n \in Nat : \A x \in X : h[x] = n => x \in S}
<1>1. ASSUME NEW n \in Nat, \A k \in Nat : k < n => k \in T
      PROVE  n \in T
  <2> SUFFICES ASSUME NEW x \in X, h[x] = n
               PROVE  x \in S
    OBVIOUS
  <2>1. \A y \in X : h[y] < h[x] => y \in S
    BY <1>1
  <2> QED
    BY <2>1
<1>2. \A n \in Nat : n \in T
  <2> HIDE DEF T
  <2> QED
    BY <1>1, NatSet
<1> QED
  BY <1>2

LEMMA NatOrder ==
  \A a, b, c \in Nat : /\ a < b /\ b < c => a < c
                       /\ a < a + 1 /\ a + 1 \in Nat /\ (a < b => a < b + 1)
                       /\ c # 0 => c - 1 \in Nat /\ c - 1 < c
                       /\ c # 0 /\ a < b /\ b < c => a < c - 1
  BY ONLY SMT

(* There is a function of what step makes of an element and of what the    *)
(* function is on smaller elements.                                        *)
Recursive(X, V, h, step) ==
  /\ h \in [X -> Nat]
  /\ step \in [X -> [[X -> V] -> V]]
  /\ \A x \in X : \A f, g \in [X -> V] :
       (\A y \in X : h[y] < h[x] => f[y] = g[y]) => step[x][f] = step[x][g]

Solves(f, X, V, step) == f \in [X -> V] /\ \A x \in X : f[x] = step[x][f]

LEMMA RecursionExists ==
  ASSUME NEW X, NEW V, NEW v, NEW h, NEW step, v \in V, Recursive(X, V, h, step)
  PROVE  \E f : Solves(f, X, V, step)
<1>b. /\ h \in [X -> Nat]
      /\ step \in [X -> [[X -> V] -> V]]
      /\ \A x \in X : \A f, g \in [X -> V] :
           (\A y \in X : h[y] < h[x] => f[y] = g[y]) => step[x][f] = step[x][g]
  BY DEF Recursive
<1> USE <1>b
<1> DEFINE Below(n) == {x \in X : h[x] < n}
           Good(f, n) == f \in [X -> V] /\ \A x \in Below(n) : f[x] = step[x][f]
           T == {n \in Nat : \E f : Good(f, n)}
<1>0. \A x \in X : h[x] \in Nat
  OBVIOUS
<1>1. \A n, m \in Nat : \A f, g :
        Good(f, n) /\ Good(g, m) => \A x \in X : h[x] < n /\ h[x] < m => f[x] = g[x]
  <2> TAKE n, m \in Nat
  <2> TAKE f, g
  <2> HAVE Good(f, n) /\ Good(g, m)
  <2> DEFINE S == {x \in X : h[x] < n /\ h[x] < m => f[x] = g[x]}
  <2>1. ASSUME NEW x \in X, \A y \in X : h[y] < h[x] => y \in S
        PROVE  x \in S
    <3> SUFFICES ASSUME h[x] < n, h[x] < m
                 PROVE  f[x] = g[x]
      OBVIOUS
    <3>1. \A y \in X : h[y] < h[x] => f[y] = g[y]
      <4> TAKE y \in X
      <4> HAVE h[y] < h[x]
      <4>1. h[y] \in Nat /\ h[x] \in Nat /\ h[y] < n /\ h[y] < m
        BY ONLY <1>0, NatOrder, y \in X, x \in X, n \in Nat, m \in Nat, h[y] < h[x], h[x] < n, h[x] < m
      <4> QED
        BY <2>1, <4>1
    <3>2. step[x][f] = step[x][g]
      BY <3>1
    <3> QED
      BY <3>2
  <2>2. X \subseteq S
    <3> HIDE DEF S
    <3> QED
      BY <2>1, MeasureInduction
  <2> QED
    BY <2>2
<1>2. ASSUME NEW n \in Nat, \A k \in Nat : k < n => k \in T
      PROVE  n \in T
  <2>1. CASE n = 0
    <3>1. \A x \in X : ~(h[x] < 0)
      BY ONLY <1>0, SMT
    <3>2. [x \in X |-> v] \in [X -> V]
      OBVIOUS
    <3>3. Good([x \in X |-> v], 0)
      BY ONLY <3>1, <3>2
    <3> QED
      <4> HIDE DEF Good
      <4> QED
        BY <2>1, <3>3
  <2>2. CASE n # 0
    <3>1. n - 1 \in Nat /\ n - 1 < n
      BY ONLY NatOrder, <2>2, n \in Nat
    <3>2. PICK f : Good(f, n - 1)
      BY <1>2, <3>1
    <3> DEFINE g == [x \in X |-> IF h[x] < n - 1 THEN f[x] ELSE step[x][f]]
    <3>3. g \in [X -> V]
      <4>1. \A x \in X : f[x] \in V /\ step[x][f] \in V
        BY <3>2
      <4> QED
        BY <4>1
    <3>4. ASSUME NEW x \in X, h[x] < n
          PROVE  g[x] = step[x][g]
      <4>1. \A y \in X : h[y] < h[x] => f[y] = g[y]
        <5> TAKE y \in X
        <5> HAVE h[y] < h[x]
        <5>1. h[y] \in Nat /\ h[x] \in Nat /\ h[y] < n - 1
          BY ONLY <1>0, NatOrder, <2>2, y \in X, x \in X, n \in Nat, h[y] < h[x], h[x] < n
        <5> QED
          BY <5>1
      <4>2. step[x][f] = step[x][g]
        <5> HIDE DEF g
        <5> QED
          BY <3>2, <3>3, <4>1
      <4>3. g[x] = step[x][f]
        BY <3>2
      <4> QED
        BY <4>2, <4>3
    <3>5. Good(g, n)
      <4> HIDE DEF g
      <4> QED
        BY <3>3, <3>4
    <3> QED
      <4> HIDE DEF g, Good
      <4> QED
        BY <3>5
  <2> QED
    BY <2>1, <2>2
<1>3. \A n \in Nat : n \in T
  <2> HIDE DEF T
  <2> QED
    BY <1>2, NatSet
<1> DEFINE upto == [n \in Nat |-> CHOOSE f : Good(f, n)]
<1>4. \A n \in Nat : Good(upto[n], n)
  <2> TAKE n \in Nat
  <2>1. \E f : Good(f, n)
    BY <1>3
  <2> QED
    <3> HIDE DEF Good
    <3> QED
      BY <2>1
<1> DEFINE f == [x \in X |-> upto[h[x] + 1][x]]
<1>5. \A x \in X : h[x] \in Nat /\ h[x] + 1 \in Nat /\ h[x] < h[x] + 1
  BY ONLY <1>0, NatOrder
<1>6. f \in [X -> V]
  <2>1. \A x \in X : upto[h[x] + 1][x] \in V
    <3> HIDE DEF upto
    <3> QED
      BY <1>4, <1>5
  <2> QED
    BY <2>1
<1>7. ASSUME NEW x \in X
      PROVE  f[x] = step[x][f]
  <2> DEFINE u == upto[h[x] + 1]
  <2>1. Good(u, h[x] + 1)
    BY <1>4, <1>5
  <2>2. f[x] = u[x] /\ u[x] = step[x][u]
    <3> HIDE DEF upto
    <3> QED
      BY <1>5, <2>1
  <2>3. \A y \in X : h[y] < h[x] => f[y] = u[y]
    <3> TAKE y \in X
    <3> HAVE h[y] < h[x]
    <3>1. /\ h[y] \in Nat /\ h[x] \in Nat /\ h[y] < h[x] + 1
          /\ h[y] + 1 \in Nat /\ h[x] + 1 \in Nat /\ h[y] < h[y] + 1
      BY ONLY <1>0, NatOrder, y \in X, x \in X, h[y] < h[x]
    <3>2. Good(upto[h[y] + 1], h[y] + 1) /\ f[y] = upto[h[y] + 1][y]
      BY <1>4, <1>5
    <3> HIDE DEF upto, Good, f, u
    <3>3. \A z \in X : h[z] < h[y] + 1 /\ h[z] < h[x] + 1 => upto[h[y] + 1][z] = u[z]
      BY ONLY <1>1, <2>1, <3>1, <3>2
    <3> QED
      BY ONLY y \in X, <3>1, <3>2, <3>3
  <2>4. step[x][f] = step[x][u]
    <3> HIDE DEF f, u
    <3> QED
      BY <1>6, <2>1, <2>3
  <2> QED
    BY <2>2, <2>4
<1> HIDE DEF f
<1> QED
  BY <1>6, <1>7 DEF Solves

-----------------------------------------------------------------------------
(***************************************************************************)
(* Trees.  Heights is Nat: the code puts no bound on how high a tree grows. *)
(***************************************************************************)
AnyHeight == Heights = Nat
TreeNodes == NodesOver(Trees)

LEMMA TreesUpToIs ==
  \A h \in Nat :
    TreesUpTo[h] = {None} \cup (IF h = 0 THEN {} ELSE NodesOver(TreesUpTo[h - 1]))
<1> DEFINE L(g, k) == {None} \cup (IF k = 0 THEN {} ELSE NodesOver(g[k - 1]))
           Up(g, n) == \A k \in Nat : k <= n => g[k] = L(g, k)
           T == {n \in Nat : \E g : Up(g, n)}
<1>0. \A a, b \in Nat : /\ a <= a /\ ~(a < a) /\ (a < b => a <= b)
                        /\ a # 0 => a - 1 \in Nat /\ a - 1 < a /\ a - 1 <= a /\ ~(a <= a - 1)
                        /\ b # 0 /\ a <= b /\ a # b => a <= b - 1
                        /\ a < b => b # 0
  BY ONLY SMT
<1>1. ASSUME NEW n \in Nat, NEW m \in Nat, NEW f, NEW g, Up(f, n), Up(g, m)
      PROVE  \A k \in Nat : k <= n /\ k <= m => f[k] = g[k]
  <2> DEFINE S == {k \in Nat : k <= n /\ k <= m => f[k] = g[k]}
  <2>1. ASSUME NEW k \in Nat, \A j \in Nat : j < k => j \in S
        PROVE  k \in S
    <3> SUFFICES ASSUME k <= n, k <= m
                 PROVE  f[k] = g[k]
      OBVIOUS
    <3>1. CASE k = 0
      <4>1. L(f, k) = L(g, k)
        BY <3>1
      <4> HIDE DEF L
      <4> QED
        BY <1>1, <4>1
    <3>2. CASE k # 0
      <4>1. k - 1 \in S /\ k - 1 <= n /\ k - 1 <= m
        <5>1. k - 1 \in Nat /\ k - 1 < k /\ k - 1 <= n /\ k - 1 <= m
          BY ONLY k \in Nat, n \in Nat, m \in Nat, k <= n, k <= m, k # 0, <3>2
        <5> HIDE DEF S
        <5> QED
          BY <2>1, <5>1
      <4>2. f[k - 1] = g[k - 1]
        BY <4>1
      <4>3. L(f, k) = L(g, k)
        BY <4>2
      <4> HIDE DEF L
      <4> QED
        BY <1>1, <4>3
    <3> QED
      BY <3>1, <3>2
  <2>2. \A k \in Nat : k \in S
    <3> HIDE DEF S
    <3> QED
      BY <2>1, NatSet
  <2> QED
    BY <2>2
<1>2. ASSUME NEW n \in Nat, \A k \in Nat : k < n => k \in T
      PROVE  n \in T
  <2>1. CASE n = 0
    <3> DEFINE g == [k \in Nat |-> {None}]
    <3>1. \A k \in Nat : k <= n => k = 0
      BY ONLY <2>1
    <3>2. Up(g, n)
      BY <3>1
    <3> QED
      <4> HIDE DEF g, Up
      <4> QED
        BY <3>2
  <2>2. CASE n # 0
    <3>1. n - 1 \in T
      <4> HIDE DEF T
      <4> QED
        BY <1>0, <1>2, <2>2
    <3>2. PICK f : Up(f, n - 1)
      BY <3>1
    <3> DEFINE g == [k \in Nat |-> IF k = n THEN L(f, n) ELSE f[k]]
    <3>3. ASSUME NEW k \in Nat, k <= n
          PROVE  g[k] = L(g, k)
      <4>1. k # 0 => g[k - 1] = f[k - 1]
        <5> HIDE DEF L
        <5>1. k # 0 => k - 1 \in Nat /\ k - 1 # n
          BY ONLY k \in Nat, n \in Nat, <3>3
        <5> QED
          BY <5>1
      <4>2. L(g, k) = L(f, k)
        <5> HIDE DEF g
        <5> QED
          BY <4>1
      <4>3. g[k] = L(f, k)
        <5> HIDE DEF L
        <5>1. k # n => k <= n - 1
          BY ONLY k \in Nat, n \in Nat, <3>3
        <5> QED
          BY <3>2, <5>1
      <4> HIDE DEF L, g
      <4> QED
        BY <4>2, <4>3
    <3>4. Up(g, n)
      <4> HIDE DEF g, L
      <4> QED
        BY <3>3
    <3> HIDE DEF g, Up
    <3> QED
      BY <3>4
  <2> QED
    BY <2>1, <2>2
<1>3. \A n \in Nat : n \in T
  <2> HIDE DEF T
  <2> QED
    BY <1>2, NatSet
<1> DEFINE upto == [n \in Nat |-> CHOOSE g : Up(g, n)]
<1>4. \A n \in Nat : Up(upto[n], n)
  <2> HIDE DEF Up
  <2> QED
    BY <1>3
<1> DEFINE f == [n \in Nat |-> upto[n][n]]
<1>5. ASSUME NEW n \in Nat
      PROVE  f[n] = L(f, n)
  <2> DEFINE u == upto[n]
  <2>1. Up(u, n)
    BY <1>4
  <2>2. f[n] = L(u, n)
    <3>1. f[n] = u[n]
      OBVIOUS
    <3> HIDE DEF u, f, L
    <3> QED
      BY <1>0, <2>1, <3>1
  <2>3. n # 0 => f[n - 1] = u[n - 1]
    <3> SUFFICES ASSUME n # 0
                 PROVE  f[n - 1] = u[n - 1]
      OBVIOUS
    <3>1. n - 1 \in Nat /\ n - 1 <= n /\ n - 1 <= n - 1
      BY ONLY n \in Nat, n # 0
    <3>2. Up(upto[n - 1], n - 1) /\ f[n - 1] = upto[n - 1][n - 1]
      BY <1>4, <3>1
    <3> HIDE DEF upto, Up, f
    <3> QED
      BY <1>1, <2>1, <3>1, <3>2
  <2>4. L(f, n) = L(u, n)
    <3> HIDE DEF f, u
    <3> QED
      BY <2>3
  <2> HIDE DEF f, u, L
  <2> QED
    BY <2>2, <2>4
<1>6. f = [h \in Nat |-> L(f, h)]
  <2>1. f = [h \in Nat |-> f[h]]
    OBVIOUS
  <2> HIDE DEF f, L
  <2> QED
    BY <1>5, <2>1
<1>7. TreesUpTo = CHOOSE g : g = [h \in Nat |-> L(g, h)]
  BY DEF TreesUpTo
<1>8. TreesUpTo = [h \in Nat |-> L(TreesUpTo, h)]
  <2> HIDE DEF L, f
  <2> QED
    BY <1>6, <1>7
<1>9. \A h \in Nat : TreesUpTo[h] = L(TreesUpTo, h)
  <2> HIDE DEF L
  <2> QED
    BY <1>8
<1> QED
  BY <1>9

LEMMA NodesGrow ==
  ASSUME NEW A, NEW B, A \subseteq B
  PROVE  NodesOver(A) \subseteq NodesOver(B)
  BY DEF NodesOver

LEMMA LayersGrow ==
  ASSUME NEW a \in Nat, NEW b \in Nat, a <= b
  PROVE  TreesUpTo[a] \subseteq TreesUpTo[b]
<1> DEFINE S == {n \in Nat : n # 0 => TreesUpTo[n - 1] \subseteq TreesUpTo[n]}
           U == {n \in Nat : a <= n => TreesUpTo[a] \subseteq TreesUpTo[n]}
<1>1. ASSUME NEW n \in Nat, \A k \in Nat : k < n => k \in S
      PROVE  n \in S
  <2> SUFFICES ASSUME n # 0
               PROVE  TreesUpTo[n - 1] \subseteq TreesUpTo[n]
    OBVIOUS
  <2>1. n - 1 \in Nat /\ n - 1 < n
    BY ONLY n \in Nat, n # 0
  <2>2. TreesUpTo[n] = {None} \cup NodesOver(TreesUpTo[n - 1])
    BY TreesUpToIs
  <2>3. CASE n - 1 = 0
    <3>1. TreesUpTo[n - 1] = {None}
      BY <2>1, <2>3, TreesUpToIs
    <3> QED
      BY <2>2, <3>1
  <2>4. CASE n - 1 # 0
    <3>1. TreesUpTo[n - 1] = {None} \cup NodesOver(TreesUpTo[n - 1 - 1])
      BY <2>1, <2>4, TreesUpToIs
    <3>2. TreesUpTo[n - 1 - 1] \subseteq TreesUpTo[n - 1]
      BY <1>1, <2>1, <2>4
    <3>3. NodesOver(TreesUpTo[n - 1 - 1]) \subseteq NodesOver(TreesUpTo[n - 1])
      BY <3>2, NodesGrow
    <3> QED
      BY <2>2, <3>1, <3>3
  <2> QED
    BY <2>3, <2>4
<1>2. \A n \in Nat : n \in S
  <2> HIDE DEF S
  <2> QED
    BY <1>1, NatSet
<1>3. ASSUME NEW n \in Nat, \A k \in Nat : k < n => k \in U
      PROVE  n \in U
  <2> SUFFICES ASSUME a <= n, a # n
               PROVE  TreesUpTo[a] \subseteq TreesUpTo[n]
    OBVIOUS
  <2>1. n # 0 /\ n - 1 \in Nat /\ n - 1 < n /\ a <= n - 1
    BY ONLY n \in Nat, a \in Nat, a <= n, a # n
  <2>2. TreesUpTo[a] \subseteq TreesUpTo[n - 1]
    BY <1>3, <2>1
  <2>3. TreesUpTo[n - 1] \subseteq TreesUpTo[n]
    BY <1>2, <2>1
  <2> QED
    BY <2>2, <2>3
<1>4. \A n \in Nat : n \in U
  <2> HIDE DEF U
  <2> QED
    BY <1>3, NatSet
<1> QED
  BY <1>4

(* The height of a tree: of the bounds it keeps to, the least.              *)
Height(t) ==
  CHOOSE h \in Nat : t \in TreesUpTo[h] /\ \A k \in Nat : t \in TreesUpTo[k] => h <= k

LEMMA HeightIs ==
  ASSUME AnyHeight, NEW t \in Trees
  PROVE  /\ Height(t) \in Nat
         /\ t \in TreesUpTo[Height(t)]
         /\ \A k \in Nat : t \in TreesUpTo[k] => Height(t) <= k
<1> DEFINE T == {h \in Nat : t \in TreesUpTo[h]}
<1>1. T \in SUBSET Nat /\ T # {}
  BY DEF Trees, AnyHeight
<1>2. PICK h \in T : \A k \in T : h <= k
  <2> HIDE DEF T
  <2> QED
    BY <1>1, Least
<1>3. \E g \in Nat : t \in TreesUpTo[g] /\ \A k \in Nat : t \in TreesUpTo[k] => g <= k
  BY <1>2
<1> QED
  BY <1>3 DEF Height

(* A node has typed sons, which are lower; two trees with a typed node are  *)
(* a tree.                                                                  *)
LEMMA TreesAre ==
  ASSUME AnyHeight
  PROVE  Trees = {None} \cup TreeNodes
<1>1. ASSUME NEW t \in Trees, t # None
      PROVE  t \in TreeNodes
  <2>1. PICK h \in Nat : t \in TreesUpTo[h]
    BY DEF Trees, AnyHeight
  <2>2. h # 0 /\ t \in NodesOver(TreesUpTo[h - 1])
    BY <1>1, <2>1, TreesUpToIs
  <2>3. TreesUpTo[h - 1] \subseteq Trees
    <3>1. h - 1 \in Nat
      BY <2>2
    <3> QED
      BY <3>1 DEF Trees, AnyHeight
  <2> QED
    BY <2>2, <2>3, NodesGrow DEF TreeNodes
<1>2. None \in Trees
  <2>1. None \in TreesUpTo[0]
    BY TreesUpToIs
  <2> QED
    BY <2>1 DEF Trees, AnyHeight
<1>3. ASSUME NEW t \in TreeNodes
      PROVE  t \in Trees
  <2>1. t.son \in [Side -> Trees]
    BY DEF TreeNodes, NodesOver
  <2>2. t.son["left"] \in Trees /\ t.son["right"] \in Trees
    BY <2>1 DEF Side
  <2>3. PICK a \in Nat : t.son["left"] \in TreesUpTo[a]
    BY <2>2 DEF Trees, AnyHeight
  <2>4. PICK b \in Nat : t.son["right"] \in TreesUpTo[b]
    BY <2>2 DEF Trees, AnyHeight
  <2>5. PICK h \in Nat : a <= h /\ b <= h
    <3>1. a <= b \/ b <= a
      OBVIOUS
    <3> QED
      BY <3>1
  <2>6. \A s \in Side : t.son[s] \in TreesUpTo[h]
    BY <2>3, <2>4, <2>5, LayersGrow DEF Side
  <2>7. t \in NodesOver(TreesUpTo[h])
    <3>1. t.son \in [Side -> TreesUpTo[h]]
      BY <2>1, <2>6
    <3> QED
      BY <3>1 DEF TreeNodes, NodesOver
  <2>8. h + 1 \in Nat /\ h + 1 # 0 /\ (h + 1) - 1 = h
    OBVIOUS
  <2>9. t \in TreesUpTo[h + 1]
    BY <2>7, <2>8, TreesUpToIs
  <2> QED
    BY <2>8, <2>9 DEF Trees, AnyHeight
<1> QED
  BY <1>1, <1>2, <1>3

LEMMA NoneIsNoNode == None \notin TreeNodes
  BY TreeAssumption DEF TreeNodes

LEMMA SonsAreLower ==
  ASSUME AnyHeight, NEW n \in TreeNodes, NEW m \in Trees,
         NEW s \in Side, m \in {None, n.son[s]} \/ Height(m) <= Height(n.son[s])
  PROVE  Height(m) < Height(n)
<1>1. n \in Trees /\ n # None
  BY TreesAre, NoneIsNoNode
<1> DEFINE h == Height(n)
<1>2. h \in Nat /\ n \in TreesUpTo[h]
  BY <1>1, HeightIs
<1> HIDE DEF h
<1>3. h # 0 /\ n \in NodesOver(TreesUpTo[h - 1])
  BY <1>1, <1>2, TreesUpToIs
<1>4. h - 1 \in Nat
  BY <1>2, <1>3
<1>5. n.son[s] \in TreesUpTo[h - 1]
  BY <1>3 DEF NodesOver
<1>6. None \in TreesUpTo[h - 1]
  BY <1>4, TreesUpToIs
<1>7. n.son[s] \in Trees
  BY <1>4, <1>5 DEF Trees, AnyHeight
<1>8. Height(n.son[s]) <= h - 1 /\ Height(n.son[s]) \in Nat
  BY <1>4, <1>5, <1>7, HeightIs
<1>9. Height(m) <= h - 1 /\ Height(m) \in Nat
  <2>1. CASE m \in {None, n.son[s]}
    BY <1>4, <1>5, <1>6, <2>1, HeightIs
  <2>2. CASE Height(m) <= Height(n.son[s])
    <3>1. Height(m) \in Nat
      BY HeightIs
    <3> QED
      BY <1>2, <1>8, <2>2, <3>1
  <2> QED
    BY <2>1, <2>2
<1> QED
  BY <1>2, <1>9 DEF h

LEMMA SameSonsSameHeight ==
  ASSUME AnyHeight, NEW m \in TreeNodes, NEW q \in TreeNodes, q.son = m.son
  PROVE  Height(q) <= Height(m)
<1>1. m \in Trees /\ m # None /\ q \in Trees
  BY TreesAre, NoneIsNoNode
<1> DEFINE h == Height(m)
<1>2. h \in Nat /\ m \in TreesUpTo[h]
  BY <1>1, HeightIs
<1> HIDE DEF h
<1>3. h # 0 /\ m \in NodesOver(TreesUpTo[h - 1])
  BY <1>1, <1>2, TreesUpToIs
<1>4. q \in NodesOver(TreesUpTo[h - 1])
  BY <1>3 DEF NodesOver, TreeNodes
<1>5. q \in TreesUpTo[h]
  BY <1>2, <1>3, <1>4, TreesUpToIs
<1> QED
  BY <1>1, <1>2, <1>5, HeightIs DEF h

(* What a flag passed on makes of a node, field by field.                  *)
LEMMA PushedIs ==
  ASSUME NEW op \in TreeNodes, NEW m \in TreeNodes
  PROVE  /\ Pushed(op, m) \in TreeNodes
         /\ Pushed(op, m).son = m.son
         /\ Pushed(op, m).size = m.size
         /\ Pushed(op, m).point = m.point
         /\ Pushed(op, m).lo = m.lo
         /\ Pushed(op, m).hi = m.hi
         /\ Pushed(op, m).need_push = Both(TRUE)
         /\ Pushed(op, m).tree_downsample_deleted
              = (m.tree_downsample_deleted \/ op.tree_downsample_deleted)
         /\ Pushed(op, m).point_downsample_deleted
              = (m.point_downsample_deleted \/ op.tree_downsample_deleted)
         /\ Pushed(op, m).tree_deleted
              = (op.tree_deleted \/ m.tree_downsample_deleted \/ op.tree_downsample_deleted)
         /\ Pushed(op, m).point_deleted
              = (op.tree_deleted \/ m.tree_downsample_deleted \/ op.tree_downsample_deleted
                  \/ m.point_downsample_deleted)
         /\ Pushed(op, m).down_del = (IF op.tree_downsample_deleted THEN m.size ELSE m.down_del)
         /\ Pushed(op, m).invalid
              = (IF op.tree_deleted \/ op.tree_downsample_deleted THEN m.size ELSE m.down_del)
<1> DEFINE tdd == m.tree_downsample_deleted \/ op.tree_downsample_deleted
           pdd == m.point_downsample_deleted \/ op.tree_downsample_deleted
           td == op.tree_deleted \/ tdd
           pd == td \/ pdd
           down == IF op.tree_downsample_deleted THEN m.size ELSE m.down_del
           gone == IF op.tree_deleted THEN m.size ELSE down
           push == Both(TRUE)
<1>1. Pushed(op, m) =
        [m EXCEPT !.tree_downsample_deleted = tdd, !.point_downsample_deleted = pdd,
                  !.tree_deleted = td, !.point_deleted = pd, !.down_del = down,
                  !.invalid = gone, !.need_push = push]
  BY DEF Pushed
<1>2. tdd \in BOOLEAN /\ pdd \in BOOLEAN /\ td \in BOOLEAN /\ pd \in BOOLEAN
  BY Zenon
<1>3. down \in Nat /\ gone \in Nat
  BY DEF TreeNodes, NodesOver
<1>4. push \in [Side -> BOOLEAN]
  BY DEF Both
<1>5. gone = (IF op.tree_deleted \/ op.tree_downsample_deleted THEN m.size ELSE m.down_del)
  OBVIOUS
<1>6. /\ td = (op.tree_deleted \/ m.tree_downsample_deleted \/ op.tree_downsample_deleted)
      /\ pd = (op.tree_deleted \/ m.tree_downsample_deleted \/ op.tree_downsample_deleted
                \/ m.point_downsample_deleted)
  BY Zenon
<1> HIDE DEF tdd, pdd, td, pd, down, gone, push
<1>a. Pushed(op, m) \in TreeNodes
  BY <1>1, <1>2, <1>3, <1>4 DEF TreeNodes, NodesOver
<1>7. /\ Pushed(op, m).son = m.son
      /\ Pushed(op, m).size = m.size
      /\ Pushed(op, m).point = m.point
      /\ Pushed(op, m).lo = m.lo
      /\ Pushed(op, m).hi = m.hi
      /\ Pushed(op, m).need_push = push
      /\ Pushed(op, m).tree_downsample_deleted = tdd
      /\ Pushed(op, m).point_downsample_deleted = pdd
      /\ Pushed(op, m).tree_deleted = td
      /\ Pushed(op, m).point_deleted = pd
      /\ Pushed(op, m).down_del = down
      /\ Pushed(op, m).invalid = gone
  BY <1>1 DEF TreeNodes, NodesOver
<1> QED
  BY <1>5, <1>6, <1>7, <1>a DEF tdd, pdd, down, push

LEMMA PushDownIs ==
  ASSUME NEW n \in TreeNodes
  PROVE  /\ Push_Down(n).point = n.point
         /\ Push_Down(n).axis = n.axis
         /\ Push_Down(n).size = n.size
         /\ Push_Down(n).invalid = n.invalid
         /\ Push_Down(n).down_del = n.down_del
         /\ Push_Down(n).point_deleted = n.point_deleted
         /\ Push_Down(n).tree_deleted = n.tree_deleted
         /\ Push_Down(n).point_downsample_deleted = n.point_downsample_deleted
         /\ Push_Down(n).tree_downsample_deleted = n.tree_downsample_deleted
         /\ Push_Down(n).lo = n.lo
         /\ Push_Down(n).hi = n.hi
         /\ \A s \in Side :
              /\ Push_Down(n).son[s] = IF n.son[s] # None /\ n.need_push[s]
                                       THEN Pushed(n, n.son[s]) ELSE n.son[s]
              /\ Push_Down(n).need_push[s] = (n.need_push[s] /\ n.son[s] = None)
  BY DEF Push_Down, Sons, TreeNodes, NodesOver

LEMMA PushDownType ==
  ASSUME AnyHeight, NEW n \in TreeNodes
  PROVE  /\ Push_Down(n) \in TreeNodes
         /\ \A s \in Side : /\ Push_Down(n).son[s] \in Trees
                            /\ Height(Push_Down(n).son[s]) < Height(n)
<1>1. ASSUME NEW s \in Side
      PROVE  /\ Push_Down(n).son[s] \in Trees
             /\ Height(Push_Down(n).son[s]) < Height(n)
  <2>1. n.son[s] \in Trees
    BY DEF TreeNodes, NodesOver
  <2>2. CASE n.son[s] # None /\ n.need_push[s]
    <3>1. n.son[s] \in TreeNodes
      BY <2>1, <2>2, TreesAre
    <3>2. Push_Down(n).son[s] = Pushed(n, n.son[s])
      BY <2>2, PushDownIs
    <3>3. Pushed(n, n.son[s]) \in TreeNodes /\ Pushed(n, n.son[s]).son = n.son[s].son
      BY <3>1, PushedIs
    <3>4. Height(Pushed(n, n.son[s])) <= Height(n.son[s])
      BY <3>1, <3>3, SameSonsSameHeight
    <3>5. Pushed(n, n.son[s]) \in Trees
      BY <3>3, TreesAre
    <3> QED
      BY <3>2, <3>4, <3>5, SonsAreLower
  <2>3. CASE ~(n.son[s] # None /\ n.need_push[s])
    <3>1. Push_Down(n).son[s] = n.son[s]
      BY <2>3, PushDownIs
    <3> QED
      BY <2>1, <3>1, SonsAreLower
  <2> QED
    BY <2>2, <2>3
<1>2. Push_Down(n) \in TreeNodes
  <2> DEFINE son == [s \in Side |-> Push_Down(n).son[s]]
             push == [s \in Side |-> Push_Down(n).need_push[s]]
  <2>1. son \in [Side -> Trees]
    BY <1>1
  <2>2. push \in [Side -> BOOLEAN]
    <3>1. \A s \in Side : Push_Down(n).need_push[s] \in BOOLEAN
      BY PushDownIs
    <3> QED
      BY <3>1
  <2>3. Push_Down(n) = [n EXCEPT !.son = son, !.need_push = push]
    BY DEF Push_Down, Sons, TreeNodes, NodesOver
  <2> HIDE DEF son, push
  <2> QED
    BY <2>1, <2>2, <2>3 DEF TreeNodes, NodesOver
<1> QED
  BY <1>1, <1>2

(***************************************************************************)
(* What Update computes.                                                   *)
(***************************************************************************)
LEMMA MinMax ==
  ASSUME NEW S \in SUBSET Int, IsFiniteSet(S), S # {}
  PROVE  /\ Min(S) \in S /\ \A x \in S : Min(S) <= x
         /\ Max(S) \in S /\ \A x \in S : x <= Max(S)
<1> DEFINE X == SUBSET S
           h == [A \in X |-> Cardinality(A)]
           G == {A \in X : A # {} => \E l, u \in A : \A x \in A : l <= x /\ x <= u}
<1>1. \A A \in X : IsFiniteSet(A) /\ Cardinality(A) \in Nat
  BY FS_Subset, FS_CardinalityType
<1>2. h \in [X -> Nat]
  BY <1>1
<1>3. ASSUME NEW A \in X, \A B \in X : h[B] < h[A] => B \in G
      PROVE  A \in G
  <2> SUFFICES ASSUME A # {}
               PROVE  \E l, u \in A : \A x \in A : l <= x /\ x <= u
    OBVIOUS
  <2>1. PICK e \in A : TRUE
    OBVIOUS
  <2>2. A \ {e} \in X /\ h[A \ {e}] < h[A]
    <3>1. IsFiniteSet(A)
      BY <1>1
    <3>2. Cardinality(A \ {e}) = Cardinality(A) - 1
      BY <2>1, <3>1, FS_RemoveElement
    <3>3. Cardinality(A) \in Nat
      BY <1>1
    <3> QED
      BY <3>2, <3>3
  <2>3. A \ {e} \in G
    <3> HIDE DEF G, h
    <3> QED
      BY <1>3, <2>2
  <2>4. CASE A \ {e} = {}
    <3>1. \A x \in A : x = e /\ e \in Int
      BY <2>4
    <3> QED
      BY <3>1
  <2>5. CASE A \ {e} # {}
    <3>1. PICK l, u \in A \ {e} : \A x \in A \ {e} : l <= x /\ x <= u
      BY <2>3, <2>5
    <3>2. e \in Int /\ l \in Int /\ u \in Int
      OBVIOUS
    <3>3. PICK a, b \in {e, l, u} : a <= e /\ a <= l /\ e <= b /\ u <= b
      <4>1. (e <= l \/ l <= e) /\ (e <= u \/ u <= e) /\ e <= e /\ l <= l /\ u <= u
        BY <3>2
      <4> QED
        BY <4>1
    <3>4. \A x \in A : a <= x /\ x <= b
      <4> TAKE x \in A
      <4>1. x \in Int /\ a \in Int /\ b \in Int
        BY <3>2
      <4>2. CASE x = e
        BY <3>3, <4>2
      <4>3. CASE x # e
        <5>1. l <= x /\ x <= u
          BY <3>1, <4>3
        <5> QED
          BY <3>2, <3>3, <4>1, <5>1
      <4> QED
        BY <4>2, <4>3
    <3> QED
      BY <3>4
  <2> QED
    BY <2>4, <2>5
<1>4. X \subseteq G
  <2> HIDE DEF X, h, G
  <2> QED
    BY <1>2, <1>3, MeasureInduction
<1>5. PICK l, u \in S : \A x \in S : l <= x /\ x <= u
  BY <1>4
<1>6. \E x \in S : \A y \in S : x =< y
  BY <1>5
<1>7. \E x \in S : \A y \in S : x >= y
  <2>1. \A y \in S : u >= y
    BY <1>5
  <2> QED
    BY <2>1
<1>8. Max(S) \in S /\ \A y \in S : Max(S) >= y
  BY <1>7 DEF Max
<1>9. Min(S) \in S /\ \A y \in S : Min(S) =< y
  BY <1>6 DEF Min
<1> QED
  BY <1>8, <1>9

(* The corners that make up a hull are finitely many points, and some.     *)
Corners(n, all) ==
  LET kept == {s \in Sons(n) : all \/ ~n.son[s].tree_deleted}
  IN {n.son[s].lo : s \in kept} \cup {n.son[s].hi : s \in kept}
     \cup (IF all \/ ~n.point_deleted THEN {n.point} ELSE {})

AllDeleted(n) == n.point_deleted /\ \A s \in Sons(n) : n.son[s].tree_deleted

LEMMA CornersAre ==
  ASSUME NEW n \in NodesOver(Trees), AnyHeight
  PROVE  /\ Corners(n, AllDeleted(n)) # {}
         /\ Corners(n, AllDeleted(n)) \subseteq [Axes -> Int]
         /\ \A a \in Axes : IsFiniteSet({c[a] : c \in Corners(n, AllDeleted(n))})
<1> DEFINE all == AllDeleted(n)
           kept == {s \in Sons(n) : all \/ ~n.son[s].tree_deleted}
           los == {n.son[s].lo : s \in kept}
           his == {n.son[s].hi : s \in kept}
           own == IF all \/ ~n.point_deleted THEN {n.point} ELSE {}
<1>1. Corners(n, all) = los \cup his \cup own
  BY DEF Corners
<1>2. kept \subseteq Side /\ IsFiniteSet(Side)
  <2>1. IsFiniteSet({"left", "right"})
    <3>1. IsFiniteSet({"left"}) /\ IsFiniteSet({"right"})
      BY FS_Singleton
    <3>2. IsFiniteSet({"left"} \cup {"right"})
      BY <3>1, FS_Union
    <3> QED
      BY <3>2
  <2> QED
    BY <2>1 DEF Sons, Side
<1>3. \A s \in kept : n.son[s] \in TreeNodes
  <2>1. \A s \in Side : n.son[s] \in Trees
    BY DEF NodesOver
  <2> QED
    BY <1>2, <2>1, TreesAre DEF Sons
<1>4. los \subseteq [Axes -> Int] /\ his \subseteq [Axes -> Int]
  <2> HIDE DEF kept
  <2> QED
    BY <1>3 DEF TreeNodes, NodesOver
<1>5. own \subseteq [Axes -> Int]
  BY TreeAssumption DEF NodesOver
<1>6. IsFiniteSet(kept)
  BY <1>2, FS_Subset
<1>7. los \cup his \cup own # {}
  <2>1. CASE all \/ ~n.point_deleted
    BY <2>1
  <2>2. CASE ~(all \/ ~n.point_deleted)
    <3>1. \E s \in Sons(n) : ~n.son[s].tree_deleted
      BY <2>2 DEF AllDeleted
    <3> QED
      BY <3>1
  <2> QED
    BY <2>1, <2>2
<1>8. ASSUME NEW a \in Axes
      PROVE  IsFiniteSet({c[a] : c \in los \cup his \cup own})
  <2> HIDE DEF kept
  <2> DEFINE A == {n.son[s].lo[a] : s \in kept}
             B == {n.son[s].hi[a] : s \in kept}
             C == IF all \/ ~n.point_deleted THEN {n.point[a]} ELSE {}
  <2>1. {c[a] : c \in los \cup his \cup own} = A \cup B \cup C
    OBVIOUS
  <2>2. IsFiniteSet(A)
    <3> DEFINE f == [s \in kept |-> n.son[s].lo[a]]
    <3>1. f \in Surjection(kept, A)
      BY DEF Surjection
    <3> HIDE DEF f, A
    <3> QED
      BY <1>6, <3>1, FS_Surjection
  <2>3. IsFiniteSet(B)
    <3> DEFINE f == [s \in kept |-> n.son[s].hi[a]]
    <3>1. f \in Surjection(kept, B)
      BY DEF Surjection
    <3> HIDE DEF f, B
    <3> QED
      BY <1>6, <3>1, FS_Surjection
  <2>4. IsFiniteSet(C)
    <3>1. IsFiniteSet({n.point[a]}) /\ IsFiniteSet({})
      BY FS_EmptySet, FS_Singleton
    <3> QED
      BY <3>1
  <2> HIDE DEF A, B, C
  <2>5. IsFiniteSet(A \cup B \cup C)
    BY <2>2, <2>3, <2>4, FS_Union
  <2> QED
    BY <2>1, <2>5
<1> HIDE DEF kept, los, his, own
<1>9. los \cup his \cup own \subseteq [Axes -> Int]
  BY <1>4, <1>5
<1> QED
  BY <1>1, <1>7, <1>8, <1>9

LEMMA HullIs ==
  ASSUME AnyHeight, NEW n \in TreeNodes
  PROVE  /\ Hull(n, AllDeleted(n)).lo \in [Axes -> Int]
         /\ Hull(n, AllDeleted(n)).hi \in [Axes -> Int]
         /\ \A c \in Corners(n, AllDeleted(n)), a \in Axes :
              /\ Hull(n, AllDeleted(n)).lo[a] <= c[a]
              /\ c[a] <= Hull(n, AllDeleted(n)).hi[a]
<1> DEFINE S(a) == {c[a] : c \in Corners(n, AllDeleted(n))}
<1>1. /\ Hull(n, AllDeleted(n)).lo = [a \in Axes |-> Min(S(a))]
      /\ Hull(n, AllDeleted(n)).hi = [a \in Axes |-> Max(S(a))]
  BY DEF Hull, Corners
<1>2. ASSUME NEW a \in Axes
      PROVE  /\ Min(S(a)) \in S(a) /\ \A x \in S(a) : Min(S(a)) <= x
             /\ Max(S(a)) \in S(a) /\ \A x \in S(a) : x <= Max(S(a))
             /\ S(a) \subseteq Int
  <2>1. S(a) \in SUBSET Int /\ IsFiniteSet(S(a)) /\ S(a) # {}
    BY CornersAre DEF TreeNodes
  <2> HIDE DEF S
  <2> QED
    BY <2>1, MinMax
<1>3. \A c \in Corners(n, AllDeleted(n)), a \in Axes : c[a] \in S(a)
  OBVIOUS
<1>4. \A a \in Axes : Min(S(a)) \in Int /\ Max(S(a)) \in Int
  <2> HIDE DEF S
  <2> QED
    BY <1>2
<1> HIDE DEF S
<1> QED
  BY <1>1, <1>2, <1>3, <1>4

LEMMA TotalIs ==
  ASSUME NEW n
  PROVE  /\ Total(n, "size") = (IF n.son["left"] = None THEN 0 ELSE n.son["left"].size)
                               + (IF n.son["right"] = None THEN 0 ELSE n.son["right"].size)
         /\ Total(n, "invalid") = (IF n.son["left"] = None THEN 0 ELSE n.son["left"].invalid)
                               + (IF n.son["right"] = None THEN 0 ELSE n.son["right"].invalid)
         /\ Total(n, "down_del") = (IF n.son["left"] = None THEN 0 ELSE n.son["left"].down_del)
                               + (IF n.son["right"] = None THEN 0 ELSE n.son["right"].down_del)
  BY DEF Total

LEMMA UpdateIs ==
  ASSUME AnyHeight, NEW n \in TreeNodes
  PROVE  /\ Update(n) \in TreeNodes
         /\ Update(n).point = n.point
         /\ Update(n).axis = n.axis
         /\ Update(n).son = n.son
         /\ Update(n).need_push = n.need_push
         /\ Update(n).point_deleted = n.point_deleted
         /\ Update(n).point_downsample_deleted = n.point_downsample_deleted
         /\ Update(n).tree_deleted = AllDeleted(n)
         /\ Update(n).tree_downsample_deleted
              = (n.point_downsample_deleted /\ \A s \in Sons(n) : n.son[s].tree_downsample_deleted)
         /\ Update(n).size = 1 + Total(n, "size")
         /\ Update(n).invalid = One(n.point_deleted) + Total(n, "invalid")
         /\ Update(n).down_del = One(n.point_downsample_deleted) + Total(n, "down_del")
         /\ \A c \in Corners(n, AllDeleted(n)), a \in Axes :
              Update(n).lo[a] <= c[a] /\ c[a] <= Update(n).hi[a]
<1> DEFINE size == 1 + Total(n, "size")
           gone == One(n.point_deleted) + Total(n, "invalid")
           down == One(n.point_downsample_deleted) + Total(n, "down_del")
           tdd == n.point_downsample_deleted /\ \A s \in Sons(n) : n.son[s].tree_downsample_deleted
           td == AllDeleted(n)
           lo == Hull(n, td).lo
           hi == Hull(n, td).hi
<1>1. Update(n) =
        [n EXCEPT !.size = size, !.invalid = gone, !.down_del = down,
                  !.tree_downsample_deleted = tdd, !.tree_deleted = td, !.lo = lo, !.hi = hi]
  BY DEF Update, InvalidPoints, AllDeleted
<1>2. \A s \in Side : n.son[s] = None \/ n.son[s] \in TreeNodes
  BY TreesAre DEF TreeNodes, NodesOver
<1>3. size \in Nat /\ gone \in Nat /\ down \in Nat
  <2>1. \A s \in Side : n.son[s] # None =>
          n.son[s].size \in Nat /\ n.son[s].invalid \in Nat /\ n.son[s].down_del \in Nat
    BY <1>2 DEF TreeNodes, NodesOver
  <2> QED
    BY <2>1, TotalIs DEF One, Side
<1>4. tdd \in BOOLEAN /\ td \in BOOLEAN
  BY Zenon DEF AllDeleted
<1>5. /\ lo \in [Axes -> Int] /\ hi \in [Axes -> Int]
      /\ \A c \in Corners(n, AllDeleted(n)), a \in Axes : lo[a] <= c[a] /\ c[a] <= hi[a]
  BY HullIs
<1> HIDE DEF size, gone, down, tdd, td, lo, hi
<1>6. Update(n) \in TreeNodes
  <2>1. lo \in [Axes -> Int] /\ hi \in [Axes -> Int]
    BY <1>5
  <2>2. n \in NodesOver(Trees)
    BY DEF TreeNodes
  <2> DEFINE r == [n EXCEPT !.size = size, !.invalid = gone, !.down_del = down]
  <2>5. Update(n) = [r EXCEPT !.tree_downsample_deleted = tdd, !.tree_deleted = td,
                              !.lo = lo, !.hi = hi]
    BY <1>1, <2>2 DEF NodesOver
  <2>6. r \in NodesOver(Trees)
    BY <1>3, <2>2 DEF NodesOver
  <2> HIDE DEF r
  <2>7. Update(n) \in NodesOver(Trees)
    BY <1>4, <2>1, <2>5, <2>6 DEF NodesOver
  <2> QED
    BY <2>7 DEF TreeNodes
<1>7. /\ Update(n).point = n.point
      /\ Update(n).axis = n.axis
      /\ Update(n).son = n.son
      /\ Update(n).need_push = n.need_push
      /\ Update(n).point_deleted = n.point_deleted
      /\ Update(n).point_downsample_deleted = n.point_downsample_deleted
  BY <1>1 DEF TreeNodes, NodesOver
<1>8. /\ Update(n).tree_deleted = td
      /\ Update(n).tree_downsample_deleted = tdd
      /\ Update(n).size = size
      /\ Update(n).invalid = gone
      /\ Update(n).down_del = down
      /\ Update(n).lo = lo
      /\ Update(n).hi = hi
  BY <1>1 DEF TreeNodes, NodesOver
<1> QED
  BY <1>5, <1>6, <1>7, <1>8 DEF size, gone, down, tdd, td

(***************************************************************************)
(* Induction and recursion over trees whose flags are pushed down on the   *)
(* way to the sons.                                                        *)
(***************************************************************************)
Son(n, s) == Push_Down(n).son[s]

LEMMA SonType ==
  ASSUME AnyHeight, NEW n \in TreeNodes, NEW s \in Side
  PROVE  Son(n, s) \in Trees /\ Height(Son(n, s)) < Height(n)
  BY PushDownType DEF Son

LEMMA TreeInduction ==
  ASSUME AnyHeight, NEW S, None \in S,
         \A n \in TreeNodes : (\A s \in Side : Son(n, s) \in S) => n \in S
  PROVE  \A t \in Trees : t \in S
<1> DEFINE h == [t \in Trees |-> Height(t)]
<1>1. h \in [Trees -> Nat]
  BY HeightIs
<1>2. ASSUME NEW t \in Trees, \A m \in Trees : h[m] < h[t] => m \in S
      PROVE  t \in S
  <2>1. CASE t = None
    BY <2>1
  <2>2. CASE t # None
    <3>1. t \in TreeNodes
      BY <2>2, TreesAre
    <3>2. \A s \in Side : Son(t, s) \in S
      BY <1>2, <3>1, SonType
    <3> QED
      BY <3>1, <3>2
  <2> QED
    BY <2>1, <2>2
<1> HIDE DEF h
<1>3. Trees \subseteq S
  BY <1>1, <1>2, MeasureInduction
<1> QED
  BY <1>3

TreeStep(V, step) == step \in [TreeNodes -> [V -> [V -> V]]]

FoldsTree(f, V, base, step) ==
  /\ f \in [Trees -> V]
  /\ f[None] = base
  /\ \A n \in TreeNodes : f[n] = step[n][f[Son(n, "left")]][f[Son(n, "right")]]

LEMMA TreeRecursion ==
  ASSUME AnyHeight, NEW V, NEW base, NEW step, base \in V, TreeStep(V, step)
  PROVE  \E f : FoldsTree(f, V, base, step)
<1>0. step \in [TreeNodes -> [V -> [V -> V]]]
  BY DEF TreeStep
<1> USE <1>0
<1> DEFINE h == [t \in Trees |-> Height(t)]
           go == [t \in Trees |-> [f \in [Trees -> V] |->
                    IF t = None THEN base
                    ELSE step[t][f[Son(t, "left")]][f[Son(t, "right")]]]]
<1>1. h \in [Trees -> Nat]
  BY HeightIs
<1>2. \A n \in TreeNodes : /\ Son(n, "left") \in Trees /\ h[Son(n, "left")] < h[n]
                           /\ Son(n, "right") \in Trees /\ h[Son(n, "right")] < h[n]
  <2> TAKE n \in TreeNodes
  <2>1. "left" \in Side /\ "right" \in Side
    BY DEF Side
  <2>2. n \in Trees
    BY TreesAre
  <2> QED
    BY <2>1, <2>2, SonType
<1>3. \A t \in Trees : t = None \/ t \in TreeNodes
  BY TreesAre
<1> HIDE DEF h
<1>4. go \in [Trees -> [[Trees -> V] -> V]]
  <2>1. ASSUME NEW t \in Trees, NEW f \in [Trees -> V], t # None
        PROVE  step[t][f[Son(t, "left")]][f[Son(t, "right")]] \in V
    <3>1. t \in TreeNodes /\ f[Son(t, "left")] \in V /\ f[Son(t, "right")] \in V
      BY <1>2, <1>3, <2>1
    <3> QED
      BY <3>1
  <2> QED
    BY <2>1
<1>5. ASSUME NEW t \in Trees, NEW f \in [Trees -> V], NEW g \in [Trees -> V],
             \A m \in Trees : h[m] < h[t] => f[m] = g[m]
      PROVE  go[t][f] = go[t][g]
  <2>1. CASE t = None
    BY <2>1
  <2>2. CASE t # None
    <3>1. t \in TreeNodes
      BY <1>3, <2>2
    <3>2. f[Son(t, "left")] = g[Son(t, "left")] /\ f[Son(t, "right")] = g[Son(t, "right")]
      BY <1>2, <1>5, <3>1
    <3> QED
      BY <2>2, <3>2
  <2> QED
    BY <2>1, <2>2
<1>6. Recursive(Trees, V, h, go)
  <2> HIDE DEF go
  <2>1. \A t \in Trees : \A f, g \in [Trees -> V] :
          (\A m \in Trees : h[m] < h[t] => f[m] = g[m]) => go[t][f] = go[t][g]
    BY <1>5
  <2> QED
    BY <1>1, <1>4, <2>1 DEF Recursive
<1>7. PICK f \in [Trees -> V] : \A t \in Trees : f[t] = go[t][f]
  <2> HIDE DEF go
  <2>1. PICK f : Solves(f, Trees, V, go)
    BY <1>6, RecursionExists
  <2> QED
    BY <2>1 DEF Solves
<1>8. f[None] = base
  <2>1. None \in Trees
    BY TreesAre
  <2> QED
    BY <1>7, <2>1
<1>9. \A n \in TreeNodes : f[n] = step[n][f[Son(n, "left")]][f[Son(n, "right")]]
  <2> TAKE n \in TreeNodes
  <2>1. n \in Trees /\ n # None
    BY TreesAre, NoneIsNoNode
  <2> QED
    BY <1>7, <2>1
<1> QED
  BY <1>7, <1>8, <1>9 DEF FoldsTree

(* The points of a tree.                                                   *)
LEMMA FlattenIs ==
  ASSUME AnyHeight
  PROVE  /\ flatten \in [Trees -> Seq(Points)]
         /\ flatten[None] = <<>>
         /\ \A n \in TreeNodes :
              flatten[n] = (IF n.point_deleted THEN <<>> ELSE <<n.point>>)
                           \o flatten[Son(n, "left")] \o flatten[Son(n, "right")]
<1> DEFINE V == Seq(Points)
           own(n) == IF n.point_deleted THEN <<>> ELSE <<n.point>>
           step == [n \in TreeNodes |-> [a \in V |-> [b \in V |-> own(n) \o a \o b]]]
           Eq(f) == f = [t \in Trees |-> IF t = None THEN <<>>
                          ELSE LET n == Push_Down(t)
                               IN (IF n.point_deleted THEN <<>> ELSE <<n.point>>)
                                  \o f[n.son["left"]] \o f[n.son["right"]]]
<1>1. \A n \in TreeNodes : own(n) \in V
  BY DEF TreeNodes, NodesOver
<1>2. \A n \in TreeNodes : \A a, b \in V : own(n) \o a \o b \in V
  <2> HIDE DEF own
  <2> QED
    BY <1>1
<1>3. step \in [TreeNodes -> [V -> [V -> V]]] /\ <<>> \in V
  <2> HIDE DEF own
  <2>1. <<>> \in V
    OBVIOUS
  <2> HIDE DEF V
  <2> QED
    BY <1>2, <2>1
<1>4. \A t \in Trees : t = None \/ (t \in TreeNodes /\ t # None)
  BY TreesAre, NoneIsNoNode
<1>5. \A n \in TreeNodes : Push_Down(n).point_deleted = n.point_deleted /\ Push_Down(n).point = n.point
  BY PushDownIs
<1>6. \E f : Eq(f)
  <2>1. PICK f \in [Trees -> V] :
           /\ f[None] = <<>>
           /\ \A n \in TreeNodes : f[n] = step[n][f[Son(n, "left")]][f[Son(n, "right")]]
    <3> HIDE DEF step, V
    <3>1. TreeStep(V, step)
      BY <1>3 DEF TreeStep
    <3>2. PICK f : FoldsTree(f, V, <<>>, step)
      BY <1>3, <3>1, TreeRecursion
    <3> QED
      BY <3>2 DEF FoldsTree
  <2>2. \A n \in TreeNodes : f[n] = own(n) \o f[Son(n, "left")] \o f[Son(n, "right")]
    <3> TAKE n \in TreeNodes
    <3>1. Son(n, "left") \in Trees /\ Son(n, "right") \in Trees
      BY SonType DEF Side
    <3>2. f[Son(n, "left")] \in V /\ f[Son(n, "right")] \in V
      BY <3>1
    <3> HIDE DEF own, V
    <3> QED
      BY <2>1, <3>2
  <2>3. f = [t \in Trees |-> f[t]]
    OBVIOUS
  <2>4. Eq(f)
    BY <1>4, <1>5, <2>1, <2>2, <2>3 DEF Son
  <2> QED
    <3> HIDE DEF Eq
    <3> QED
      BY <2>4
<1>7. Eq(flatten)
  <2>1. flatten = CHOOSE f : Eq(f)
    BY DEF flatten
  <2> HIDE DEF Eq
  <2> QED
    BY <1>6, <2>1
<1>8. flatten[None] = <<>>
  BY <1>7, TreesAre
<1>9. \A n \in TreeNodes : flatten[n] = own(n) \o flatten[Son(n, "left")] \o flatten[Son(n, "right")]
  <2> TAKE n \in TreeNodes
  <2>1. n \in Trees /\ n # None
    BY TreesAre, NoneIsNoNode
  <2> DEFINE F(f, t) == IF t = None THEN <<>>
                        ELSE LET m == Push_Down(t)
                             IN (IF m.point_deleted THEN <<>> ELSE <<m.point>>)
                                \o f[m.son["left"]] \o f[m.son["right"]]
  <2>2. flatten = [t \in Trees |-> F(flatten, t)]
    BY <1>7
  <2>3. flatten[n] = F(flatten, n)
    <3> HIDE DEF F
    <3> QED
      BY <2>1, <2>2
  <2> QED
    BY <1>5, <2>1, <2>3 DEF Son
<1> DEFINE S == {t \in Trees : flatten[t] \in V}
<1>10. \A t \in Trees : t \in S
  <2>1. None \in S
    BY <1>3, <1>8, TreesAre
  <2>2. \A n \in TreeNodes : (\A s \in Side : Son(n, s) \in S) => n \in S
    <3> TAKE n \in TreeNodes
    <3> HAVE \A s \in Side : Son(n, s) \in S
    <3>1. flatten[Son(n, "left")] \in V /\ flatten[Son(n, "right")] \in V
      BY DEF Side
    <3>2. flatten[n] \in V
      <4> HIDE DEF own, V
      <4> QED
        BY <1>2, <1>9, <3>1
    <3> QED
      BY <3>2, TreesAre
  <2> HIDE DEF S
  <2> QED
    BY <2>1, <2>2, TreeInduction
<1>11. flatten \in [Trees -> V]
  <2>1. flatten = [t \in Trees |-> flatten[t]]
    <3> DEFINE F(f, t) == IF t = None THEN <<>>
                          ELSE LET n == Push_Down(t)
                               IN (IF n.point_deleted THEN <<>> ELSE <<n.point>>)
                                  \o f[n.son["left"]] \o f[n.son["right"]]
    <3>1. flatten = [t \in Trees |-> F(flatten, t)]
      BY <1>7
    <3> HIDE DEF F
    <3> QED
      BY <3>1
  <2> QED
    BY <1>10, <2>1
<1> QED
  BY <1>8, <1>9, <1>11

(* A node with other sons.                                                 *)
WithSons(n, f) == [n EXCEPT !.son = f]

LEMMA WithSonsIs ==
  ASSUME NEW n \in TreeNodes, NEW f \in [Side -> Trees]
  PROVE  /\ WithSons(n, f) \in TreeNodes
         /\ WithSons(n, f).son = f
         /\ WithSons(n, f).point = n.point
         /\ WithSons(n, f).axis = n.axis
         /\ WithSons(n, f).size = n.size
         /\ WithSons(n, f).invalid = n.invalid
         /\ WithSons(n, f).down_del = n.down_del
         /\ WithSons(n, f).point_deleted = n.point_deleted
         /\ WithSons(n, f).tree_deleted = n.tree_deleted
         /\ WithSons(n, f).point_downsample_deleted = n.point_downsample_deleted
         /\ WithSons(n, f).tree_downsample_deleted = n.tree_downsample_deleted
         /\ WithSons(n, f).need_push = n.need_push
         /\ WithSons(n, f).lo = n.lo
         /\ WithSons(n, f).hi = n.hi
<1>1. WithSons(n, f) \in TreeNodes
  BY DEF WithSons, TreeNodes, NodesOver
<1> QED
  BY <1>1 DEF WithSons, TreeNodes, NodesOver

LEMMA PushAllIs ==
  ASSUME AnyHeight
  PROVE  /\ PushAll \in [Trees -> Trees]
         /\ PushAll[None] = None
         /\ \A n \in TreeNodes :
              PushAll[n] = WithSons(Push_Down(n), [s \in Side |-> PushAll[Son(n, s)]])
<1> DEFINE two(a, b) == [s \in Side |-> IF s = "left" THEN a ELSE b]
           step == [n \in TreeNodes |-> [a \in Trees |-> [b \in Trees |->
                      WithSons(Push_Down(n), two(a, b))]]]
           F(f, t) == IF t = None THEN None
                      ELSE LET n == Push_Down(t)
                           IN [n EXCEPT !.son = [s \in Side |-> f[n.son[s]]]]
           Eq(f) == f = [t \in Trees |-> F(f, t)]
<1>1. \A n \in TreeNodes : \A a, b \in Trees : WithSons(Push_Down(n), two(a, b)) \in Trees
  <2> TAKE n \in TreeNodes
  <2> TAKE a, b \in Trees
  <2>1. two(a, b) \in [Side -> Trees] /\ Push_Down(n) \in TreeNodes
    BY PushDownType
  <2> HIDE DEF two
  <2>2. WithSons(Push_Down(n), two(a, b)) \in TreeNodes
    BY <2>1, WithSonsIs
  <2> QED
    BY <2>2, TreesAre
<1>2. step \in [TreeNodes -> [Trees -> [Trees -> Trees]]] /\ None \in Trees
  <2> HIDE DEF two
  <2> QED
    BY <1>1, TreesAre
<1>3. \A t \in Trees : t = None \/ (t \in TreeNodes /\ t # None)
  BY TreesAre, NoneIsNoNode
<1>4. \A f : \A n \in TreeNodes :
        two(f[Son(n, "left")], f[Son(n, "right")]) = [s \in Side |-> f[Son(n, s)]]
  <2> TAKE f
  <2> TAKE n \in TreeNodes
  <2>1. \A s \in Side : s = "left" \/ s = "right"
    BY DEF Side
  <2> QED
    BY <2>1
<1>5. \A f : \A n \in TreeNodes : n # None =>
        F(f, n) = WithSons(Push_Down(n), [s \in Side |-> f[Son(n, s)]])
  BY DEF WithSons, Son
<1>6. \E f : Eq(f)
  <2>1. PICK f \in [Trees -> Trees] :
           /\ f[None] = None
           /\ \A n \in TreeNodes : f[n] = step[n][f[Son(n, "left")]][f[Son(n, "right")]]
    <3> HIDE DEF step
    <3>1. TreeStep(Trees, step)
      BY <1>2 DEF TreeStep
    <3>2. PICK f : FoldsTree(f, Trees, None, step)
      BY <1>2, <3>1, TreeRecursion
    <3> QED
      BY <3>2 DEF FoldsTree
  <2>2. \A n \in TreeNodes : f[n] = WithSons(Push_Down(n), [s \in Side |-> f[Son(n, s)]])
    <3> TAKE n \in TreeNodes
    <3>1. Son(n, "left") \in Trees /\ Son(n, "right") \in Trees
      BY SonType DEF Side
    <3>2. f[Son(n, "left")] \in Trees /\ f[Son(n, "right")] \in Trees
      BY <3>1
    <3> HIDE DEF two
    <3>3. f[n] = WithSons(Push_Down(n), two(f[Son(n, "left")], f[Son(n, "right")]))
      BY <2>1, <3>2
    <3> QED
      BY <1>4, <3>3
  <2>3. f = [t \in Trees |-> f[t]]
    OBVIOUS
  <2>4. \A t \in Trees : f[t] = F(f, t)
    <3> TAKE t \in Trees
    <3>1. CASE t = None
      BY <2>1, <3>1
    <3>2. CASE t # None
      <4> HIDE DEF F
      <4> QED
        BY <1>3, <1>5, <2>2, <3>2
    <3> QED
      BY <3>1, <3>2
  <2>5. Eq(f)
    <3> HIDE DEF F
    <3> QED
      BY <2>3, <2>4
  <2> QED
    <3> HIDE DEF Eq
    <3> QED
      BY <2>5
<1>7. PushAll = [t \in Trees |-> F(PushAll, t)]
  <2>1. PushAll = CHOOSE f : Eq(f)
    BY DEF PushAll
  <2>2. Eq(PushAll)
    <3> HIDE DEF Eq
    <3> QED
      BY <1>6, <2>1
  <2> HIDE DEF F
  <2> QED
    BY <2>2
<1>8. PushAll[None] = None
  BY <1>7, TreesAre
<1>9. \A n \in TreeNodes :
        PushAll[n] = WithSons(Push_Down(n), [s \in Side |-> PushAll[Son(n, s)]])
  <2> TAKE n \in TreeNodes
  <2>1. n \in Trees /\ n # None
    BY TreesAre, NoneIsNoNode
  <2>2. PushAll[n] = F(PushAll, n)
    <3> HIDE DEF F
    <3> QED
      BY <1>7, <2>1
  <2> HIDE DEF F
  <2> QED
    BY <1>5, <2>1, <2>2
<1> DEFINE S == {t \in Trees : PushAll[t] \in Trees}
<1>10. \A t \in Trees : t \in S
  <2>1. None \in S
    BY <1>2, <1>8
  <2>2. \A n \in TreeNodes : (\A s \in Side : Son(n, s) \in S) => n \in S
    <3> TAKE n \in TreeNodes
    <3> HAVE \A s \in Side : Son(n, s) \in S
    <3>1. [s \in Side |-> PushAll[Son(n, s)]] \in [Side -> Trees]
      OBVIOUS
    <3>2. PushAll[n] \in TreeNodes
      <4>1. Push_Down(n) \in TreeNodes
        BY PushDownType
      <4> QED
        BY <1>9, <3>1, <4>1, WithSonsIs
    <3> QED
      BY <3>2, TreesAre
  <2> HIDE DEF S
  <2> QED
    BY <2>1, <2>2, TreeInduction
<1>11. PushAll \in [Trees -> Trees]
  <2> HIDE DEF F
  <2> QED
    BY <1>7, <1>10
<1> QED
  BY <1>8, <1>9, <1>11

-----------------------------------------------------------------------------
(***************************************************************************)
(* Building a tree.  The points are put in order along an axis: the order  *)
(* is total, so every position is taken by one point.                      *)
(***************************************************************************)
Precedes(points, axis, rank, i, j) ==
  LET p == points[i]  q == points[j]
  IN \/ p[axis] < q[axis]
     \/ p[axis] = q[axis] /\ (rank[p] < rank[q] \/ (rank[p] = rank[q] /\ i < j))

Position(points, axis, rank) ==
  [i \in DOMAIN points |->
     Cardinality({j \in DOMAIN points : Precedes(points, axis, rank, j, i)}) + 1]

(* Numbers in lexicographic order. *)
Lex(xi, ri, i, xj, rj, j) == xi < xj \/ (xi = xj /\ (ri < rj \/ (ri = rj /\ i < j)))

LEMMA LexIrreflexive ==
  \A x, r, i \in Int : ~Lex(x, r, i, x, r, i)
  BY DEF Lex

LEMMA LexTotal ==
  \A x, r, i, y, q, j \in Int :
    i # j => Lex(x, r, i, y, q, j) \/ Lex(y, q, j, x, r, i)
  BY DEF Lex

LEMMA LexTransitive ==
  \A x, r, i, y, q, j, z, p, k \in Int :
    Lex(x, r, i, y, q, j) /\ Lex(y, q, j, z, p, k) => Lex(x, r, i, z, p, k)
  BY DEF Lex

LEMMA PrecedesIs ==
  ASSUME NEW points \in Seq(Points), NEW axis \in Axes, NEW rank \in [Points -> Int],
         NEW i \in DOMAIN points, NEW j \in DOMAIN points, NEW k \in DOMAIN points
  PROVE  /\ ~Precedes(points, axis, rank, i, i)
         /\ i # j => Precedes(points, axis, rank, i, j) \/ Precedes(points, axis, rank, j, i)
         /\ Precedes(points, axis, rank, i, j) /\ Precedes(points, axis, rank, j, k)
              => Precedes(points, axis, rank, i, k)
<1>1. /\ points[i] \in Points /\ points[j] \in Points /\ points[k] \in Points
      /\ i \in Nat /\ j \in Nat /\ k \in Nat
  <2>1. DOMAIN points = 1..Len(points) /\ Len(points) \in Nat
    BY LenProperties
  <2>2. \A m \in DOMAIN points : points[m] \in Points
    BY LenProperties
  <2>3. \A m \in DOMAIN points : m \in Nat
    BY <2>1
  <2> QED
    BY <2>2, <2>3
<1>2. \A p \in Points : p[axis] \in Int /\ rank[p] \in Int
  BY TreeAssumption
<1> DEFINE x(m) == points[m][axis]
           r(m) == rank[points[m]]
           B(a, b) == Lex(x(a), r(a), a, x(b), r(b), b)
<1>3. \A a, b : Precedes(points, axis, rank, a, b) <=> B(a, b)
  BY Zenon DEF Precedes, Lex
<1>4. /\ x(i) \in Int /\ x(j) \in Int /\ x(k) \in Int
      /\ r(i) \in Int /\ r(j) \in Int /\ r(k) \in Int
  BY <1>1, <1>2
<1> HIDE DEF x, r
<1>5. ~B(i, i) /\ (i # j => B(i, j) \/ B(j, i)) /\ (B(i, j) /\ B(j, k) => B(i, k))
  <2> DEFINE xi == x(i)  xj == x(j)  xk == x(k)  ri == r(i)  rj == r(j)  rk == r(k)
  <2>1. xi \in Int /\ xj \in Int /\ xk \in Int /\ ri \in Int /\ rj \in Int /\ rk \in Int
    BY <1>4
  <2> HIDE DEF xi, xj, xk, ri, rj, rk
  <2>a. i \in Int /\ j \in Int /\ k \in Int
    BY <1>1
  <2>2. ~Lex(xi, ri, i, xi, ri, i)
    BY ONLY <2>a, <2>1, LexIrreflexive
  <2>3. i # j => Lex(xi, ri, i, xj, rj, j) \/ Lex(xj, rj, j, xi, ri, i)
    BY ONLY <2>a, <2>1, LexTotal
  <2>4. Lex(xi, ri, i, xj, rj, j) /\ Lex(xj, rj, j, xk, rk, k) => Lex(xi, ri, i, xk, rk, k)
    BY ONLY <2>a, <2>1, LexTransitive
  <2> QED
    BY ONLY <2>2, <2>3, <2>4 DEF xi, xj, xk, ri, rj, rk
<1> HIDE DEF B
<1> QED
  BY <1>3, <1>5

LEMMA PositionIs ==
  ASSUME NEW points \in Seq(Points), NEW axis \in Axes, NEW rank \in [Points -> Int]
  PROVE  Position(points, axis, rank) \in Bijection(DOMAIN points, DOMAIN points)
<1> DEFINE D == DOMAIN points
           n == Len(points)
           P(i, j) == Precedes(points, axis, rank, i, j)
           before(i) == {j \in D : P(j, i)}
           g == Position(points, axis, rank)
<1>1. D = 1..n /\ n \in Nat /\ IsFiniteSet(D) /\ Cardinality(D) = n
  <2>1. D = 1..n /\ n \in Nat
    OBVIOUS
  <2>2. IsFiniteSet(1..n) /\ Cardinality(1..n) = (IF 1 > n THEN 0 ELSE n - 1 + 1)
    BY <2>1, FS_Interval
  <2> HIDE DEF n
  <2>3. Cardinality(1..n) = n
    BY <2>1, <2>2
  <2> QED
    BY <2>1, <2>2, <2>3
<1>2. \A i, j, k \in D : ~P(i, i) /\ (i # j => P(i, j) \/ P(j, i)) /\ (P(i, j) /\ P(j, k) => P(i, k))
  BY PrecedesIs
<1> HIDE DEF P
<1>3. \A i \in D : IsFiniteSet(before(i)) /\ Cardinality(before(i)) \in Nat
  <2> TAKE i \in D
  <2>1. before(i) \in SUBSET D
    OBVIOUS
  <2> HIDE DEF before, D
  <2>2. IsFiniteSet(before(i))
    BY <1>1, <2>1, FS_Subset
  <2> QED
    BY <2>2, FS_CardinalityType
<1>4. ASSUME NEW i \in D, NEW j \in D, P(i, j)
      PROVE  Cardinality(before(i)) < Cardinality(before(j))
  <2>1. before(i) \in SUBSET before(j) /\ i \in before(j) /\ i \notin before(i)
    BY <1>2, <1>4
  <2>2. before(i) # before(j)
    BY <2>1
  <2> HIDE DEF before
  <2>3. /\ Cardinality(before(i)) <= Cardinality(before(j))
        /\ Cardinality(before(j)) = Cardinality(before(i)) => before(j) = before(i)
    BY <1>3, <2>1, FS_Subset
  <2> QED
    BY <1>3, <2>2, <2>3
<1>5. \A i \in D : Cardinality(before(i)) < n
  <2> TAKE i \in D
  <2>1. before(i) \in SUBSET D /\ before(i) # D
    BY <1>2
  <2> HIDE DEF before, D
  <2>2. Cardinality(before(i)) <= Cardinality(D) /\ (Cardinality(D) = Cardinality(before(i)) => D = before(i))
    BY <1>1, <2>1, FS_Subset
  <2> QED
    BY <1>1, <1>3, <2>1, <2>2
<1>6. \A i \in D : g[i] = Cardinality(before(i)) + 1
  BY DEF Position, P
<1>7. g \in [D -> D]
  <2>1. g = [i \in D |-> g[i]]
    BY DEF Position
  <2>2. \A i \in D : g[i] \in D
    <3> HIDE DEF before, g, n, D
    <3> QED
      BY <1>1, <1>3, <1>5, <1>6
  <2> HIDE DEF g, D
  <2> QED
    BY <2>1, <2>2
<1> HIDE DEF g, before
<1>8. \A i, j \in D : i # j => g[i] # g[j]
  <2> TAKE i, j \in D
  <2> HAVE i # j
  <2>1. P(i, j) \/ P(j, i)
    BY <1>2
  <2>2. /\ g[i] = Cardinality(before(i)) + 1 /\ g[j] = Cardinality(before(j)) + 1
        /\ Cardinality(before(i)) \in Nat /\ Cardinality(before(j)) \in Nat
    BY <1>3, <1>6
  <2>3. Cardinality(before(i)) # Cardinality(before(j))
    BY <1>3, <1>4, <2>1
  <2> QED
    BY <2>2, <2>3
<1> HIDE DEF D, n
<1>9. g \in Injection(D, D)
  BY <1>7, <1>8 DEF Injection, IsInjective
<1>10. g \in Surjection(D, D)
  BY <1>1, <1>9, FS_Injection
<1> QED
  BY <1>9, <1>10 DEF Bijection, D, g

LEMMA ArrangedIs ==
  ASSUME NEW points \in Seq(Points), NEW axis \in Axes, NEW rank \in [Points -> Int]
  PROVE  /\ Arranged(points, axis, rank) \in Seq(Points)
         /\ Len(Arranged(points, axis, rank)) = Len(points)
         /\ \E at \in Bijection(DOMAIN points, DOMAIN points) :
              \A k \in DOMAIN points : Arranged(points, axis, rank)[k] = points[at[k]]
<1> DEFINE D == DOMAIN points
           g == Position(points, axis, rank)
           rest(i) == {j \in DOMAIN points : Precedes(points, axis, rank, j, i)}
           at == [k \in D |-> CHOOSE i \in D : Cardinality(rest(i)) = k - 1]
<1>1. g \in Bijection(D, D)
  BY PositionIs
<1>2. Arranged(points, axis, rank) = [k \in D |-> points[at[k]]]
  BY DEF Arranged, Precedes
<1>3. \A i \in D : g[i] = Cardinality(rest(i)) + 1 /\ Cardinality(rest(i)) \in Nat
  <2> TAKE i \in D
  <2>1. g[i] = Cardinality(rest(i)) + 1
    BY DEF Position
  <2>2. IsFiniteSet(rest(i))
    <3>1. rest(i) \in SUBSET (1..Len(points)) /\ Len(points) \in Nat
      OBVIOUS
    <3>2. IsFiniteSet(1..Len(points))
      BY <3>1, FS_Interval
    <3> HIDE DEF rest
    <3> QED
      BY <3>1, <3>2, FS_Subset
  <2> QED
    BY <2>1, <2>2, FS_CardinalityType
<1>4. D \subseteq Int
  OBVIOUS
<1> HIDE DEF g, rest
<1>5. /\ \A k \in D : \E i \in D : g[i] = k
      /\ \A i, j \in D : g[i] = g[j] => i = j
      /\ \A i \in D : g[i] \in D
  <2> HIDE DEF D
  <2> QED
    BY <1>1 DEF Bijection, Injection, Surjection, IsInjective
<1>6. ASSUME NEW k \in D
      PROVE  at[k] \in D /\ g[at[k]] = k
  <2>1. PICK i \in D : g[i] = k
    BY <1>5
  <2>2. Cardinality(rest(i)) = k - 1
    <3> HIDE DEF D
    <3> QED
      BY <1>3, <1>4, <2>1
  <2>3. at[k] \in D /\ Cardinality(rest(at[k])) = k - 1
    <3> DEFINE c == CHOOSE x \in D : Cardinality(rest(x)) = k - 1
    <3>1. c \in D /\ Cardinality(rest(c)) = k - 1
      <4> HIDE DEF D
      <4> QED
        BY <2>2
    <3>2. at[k] = c
      OBVIOUS
    <3> HIDE DEF c, at
    <3> QED
      BY <3>1, <3>2
  <2> HIDE DEF at, D
  <2>4. k \in Int
    BY <1>4
  <2>5. g[at[k]] = Cardinality(rest(at[k])) + 1
    BY <1>3, <2>3
  <2> QED
    BY <2>3, <2>4, <2>5
<1>7. at \in Bijection(D, D)
  <2>1. at \in [D -> D]
    <3>1. at = [k \in D |-> at[k]]
      OBVIOUS
    <3> HIDE DEF at, D
    <3> QED
      BY <1>6, <3>1
  <2> HIDE DEF at, D
  <2>2. \A k, l \in D : at[k] = at[l] => k = l
    BY <1>6
  <2>3. \A i \in D : at[g[i]] = i
    BY <1>5, <1>6
  <2>4. \A i \in D : \E k \in D : at[k] = i
    BY <1>5, <2>3
  <2> QED
    BY <2>1, <2>2, <2>4 DEF Bijection, Injection, Surjection, IsInjective
<1>8. Arranged(points, axis, rank) \in [1..Len(points) -> Points] /\ D = 1..Len(points)
  <2>1. D = 1..Len(points) /\ \A i \in D : points[i] \in Points
    OBVIOUS
  <2> HIDE DEF at, D
  <2> QED
    BY <1>2, <1>6, <2>1
<1>9. Arranged(points, axis, rank) \in Seq(Points) /\ Len(Arranged(points, axis, rank)) = Len(points)
  <2>1. Len(points) \in Nat
    OBVIOUS
  <2> DEFINE s == Arranged(points, axis, rank)  n == Len(points)
  <2>2. s \in [1..n -> Points] /\ n \in Nat
    BY <1>8, <2>1
  <2> HIDE DEF s, n
  <2>3. s \in Seq(Points) /\ Len(s) = n
    BY <2>2, IsASeq
  <2> QED
    BY <2>3 DEF s, n
<1>10. \A k \in D : Arranged(points, axis, rank)[k] = points[at[k]]
  <2> HIDE DEF at, D
  <2> QED
    BY <1>2
<1> HIDE DEF at
<1> QED
  BY <1>7, <1>9, <1>10

-----------------------------------------------------------------------------
(***************************************************************************)
(* A function on trees that keeps to a set on the sons keeps to it.        *)
(***************************************************************************)
LEMMA TreeTyped ==
  ASSUME AnyHeight, NEW V, NEW g, g = [t \in Trees |-> g[t]], g[None] \in V,
         \A n \in TreeNodes : g[Son(n, "left")] \in V /\ g[Son(n, "right")] \in V => g[n] \in V
  PROVE  g \in [Trees -> V]
<1> DEFINE S == {t \in Trees : g[t] \in V}
<1>1. None \in S
  BY TreesAre
<1>2. \A n \in TreeNodes : (\A s \in Side : Son(n, s) \in S) => n \in S
  <2> TAKE n \in TreeNodes
  <2> HAVE \A s \in Side : Son(n, s) \in S
  <2>1. g[Son(n, "left")] \in V /\ g[Son(n, "right")] \in V
    BY DEF Side
  <2> QED
    BY <2>1, TreesAre
<1>3. \A t \in Trees : t \in S
  <2> HIDE DEF S
  <2> QED
    BY <1>1, <1>2, TreeInduction
<1> QED
  BY <1>3

(* The points a rebuild reports as removed.                                *)
LEMMA RemovedIs ==
  ASSUME AnyHeight
  PROVE  /\ Removed \in [Trees -> Seq(Points)]
         /\ Removed[None] = <<>>
         /\ \A n \in TreeNodes :
              Removed[n] = Removed[Son(n, "left")] \o Removed[Son(n, "right")]
                           \o (IF Reported(n) THEN <<n.point>> ELSE <<>>)
<1> DEFINE V == Seq(Points)
           own(n) == IF Reported(n) THEN <<n.point>> ELSE <<>>
           G(n, a, b) == a \o b \o own(n)
           step == [n \in TreeNodes |-> [a \in V |-> [b \in V |-> G(n, a, b)]]]
           F(f, t) == IF t = None THEN <<>>
                      ELSE LET n == Push_Down(t)
                           IN f[n.son["left"]] \o f[n.son["right"]]
                              \o (IF Reported(n) THEN <<n.point>> ELSE <<>>)
           Eq(f) == f = [t \in Trees |-> F(f, t)]
<1>1. /\ <<>> \in V
      /\ \A n \in TreeNodes : \A a, b \in V : G(n, a, b) \in V
  <2>1. \A n \in TreeNodes : own(n) \in V
    BY DEF TreeNodes, NodesOver
  <2> HIDE DEF own
  <2> QED
    BY <2>1
<1>2. \A n \in TreeNodes : Reported(Push_Down(n)) = Reported(n) /\ Push_Down(n).point = n.point
  BY PushDownIs DEF Reported
<1>3. \A f : F(f, None) = <<>> /\ \A n \in TreeNodes :
        F(f, n) = G(n, f[Son(n, "left")], f[Son(n, "right")])
  BY <1>2, NoneIsNoNode DEF Son
<1> HIDE DEF V, G, F
<1>4. PICK f : FoldsTree(f, V, <<>>, step)
  <2>1. TreeStep(V, step)
    BY <1>1 DEF TreeStep
  <2> HIDE DEF step
  <2> QED
    BY <1>1, <2>1, TreeRecursion
<1>5. Eq(f)
  <2>1. \A n \in TreeNodes : f[n] = G(n, f[Son(n, "left")], f[Son(n, "right")])
    <3> TAKE n \in TreeNodes
    <3>1. Son(n, "left") \in Trees /\ Son(n, "right") \in Trees
      BY SonType DEF Side
    <3>2. f[Son(n, "left")] \in V /\ f[Son(n, "right")] \in V
      BY <1>4, <3>1 DEF FoldsTree
    <3> QED
      BY <1>4, <3>2 DEF FoldsTree
  <2>2. \A t \in Trees : f[t] = F(f, t)
    BY <1>3, <1>4, <2>1, TreesAre DEF FoldsTree
  <2>3. f = [t \in Trees |-> f[t]]
    BY <1>4 DEF FoldsTree
  <2> QED
    BY <2>2, <2>3
<1>6. Eq(Removed)
  <2>1. Removed = CHOOSE g : Eq(g)
    BY DEF Removed, F
  <2> HIDE DEF Eq
  <2> QED
    BY <1>5, <2>1
<1>7. /\ Removed[None] = <<>>
      /\ \A n \in TreeNodes :
           Removed[n] = G(n, Removed[Son(n, "left")], Removed[Son(n, "right")])
      /\ Removed = [t \in Trees |-> Removed[t]]
  BY <1>3, <1>6, TreesAre
<1>8. Removed \in [Trees -> V]
  <2>1. \A n \in TreeNodes :
          Removed[Son(n, "left")] \in V /\ Removed[Son(n, "right")] \in V => Removed[n] \in V
    BY <1>1, <1>7
  <2> QED
    BY <1>1, <1>7, <2>1, TreeTyped
<1> QED
  BY <1>7, <1>8 DEF V, G

-----------------------------------------------------------------------------
(***************************************************************************)
(* What building a tree returns.                                           *)
(***************************************************************************)
LEMMA OneIsWidest ==
  \A x, y, z \in Int :
    \/ y <= x /\ z <= x
    \/ x <= y /\ z <= y /\ x < y
    \/ x <= z /\ y <= z /\ x < z /\ y < z
  BY ONLY SMT

LEMMA WidestIs ==
  ASSUME NEW points \in Seq(Points), points # <<>>
  PROVE  Widest(points) \in Axes
<1> DEFINE Coords(a) == {p[a] : p \in ToSet(points)}
           Spread(a) == Max(Coords(a)) - Min(Coords(a))
           Wide(a) == \A b \in Axes : Spread(b) <= Spread(a) /\ (b < a => Spread(b) < Spread(a))
<1>1. ASSUME NEW a \in Axes
      PROVE  Spread(a) \in Int
  <2>1. DOMAIN points = 1..Len(points) /\ Len(points) \in Nat
    OBVIOUS
  <2>2. IsFiniteSet(DOMAIN points)
    BY <2>1, FS_Interval
  <2> DEFINE f == [i \in DOMAIN points |-> points[i][a]]
  <2>3. f \in Surjection(DOMAIN points, Coords(a))
    BY DEF Surjection, ToSet
  <2>4. Coords(a) \subseteq Int
    <3>1. ToSet(points) \subseteq Points
      BY DEF ToSet
    <3> QED
      BY <3>1, TreeAssumption
  <2>5. Coords(a) # {}
    <3>1. 1 \in DOMAIN points
      BY <2>1
    <3> QED
      BY <3>1 DEF ToSet
  <2> HIDE DEF Coords, f
  <2>6. IsFiniteSet(Coords(a))
    BY <2>2, <2>3, FS_Surjection
  <2>7. Max(Coords(a)) \in Int /\ Min(Coords(a)) \in Int
    BY <2>4, <2>5, <2>6, MinMax
  <2> QED
    BY <2>7
<1> HIDE DEF Spread
<1>2. \E a \in Axes : Wide(a)
  <2>1. Spread(1) \in Int /\ Spread(2) \in Int /\ Spread(3) \in Int
    BY <1>1 DEF Axes
  <2>2. \/ Spread(2) <= Spread(1) /\ Spread(3) <= Spread(1)
        \/ Spread(1) <= Spread(2) /\ Spread(3) <= Spread(2) /\ Spread(1) < Spread(2)
        \/ Spread(1) <= Spread(3) /\ Spread(2) <= Spread(3)
             /\ Spread(1) < Spread(3) /\ Spread(2) < Spread(3)
    BY ONLY <2>1, OneIsWidest
  <2>3. \A a \in Axes : (a = 1 \/ a = 2 \/ a = 3)
    BY DEF Axes
  <2>4. 1 \in Axes /\ 2 \in Axes /\ 3 \in Axes
    BY DEF Axes
  <2>5. \A x \in Int : x <= x
    OBVIOUS
  <2>6. CASE Spread(2) <= Spread(1) /\ Spread(3) <= Spread(1)
    <3>1. Wide(1)
      BY <2>1, <2>3, <2>5, <2>6
    <3> QED
      BY <2>4, <3>1
  <2>7. CASE Spread(1) <= Spread(2) /\ Spread(3) <= Spread(2) /\ Spread(1) < Spread(2)
    <3>1. Wide(2)
      BY <2>1, <2>3, <2>5, <2>7
    <3> QED
      BY <2>4, <3>1
  <2>8. CASE /\ Spread(1) <= Spread(3) /\ Spread(2) <= Spread(3)
             /\ Spread(1) < Spread(3) /\ Spread(2) < Spread(3)
    <3>1. Wide(3)
      BY <2>1, <2>3, <2>5, <2>8
    <3> QED
      BY <2>4, <3>1
  <2> QED
    BY <2>2, <2>6, <2>7, <2>8
<1>3. Widest(points) = CHOOSE a \in Axes : Wide(a)
  BY DEF Widest, Spread
<1> HIDE DEF Wide
<1> QED
  BY <1>2, <1>3

Two(a, b) == [left |-> a, right |-> b]

LEMMA TwoIs ==
  ASSUME NEW S, NEW a \in S, NEW b \in S
  PROVE  Two(a, b) \in [Side -> S] /\ Two(a, b)["left"] = a /\ Two(a, b)["right"] = b
BY DEF Two, Side

LEMMA NodeIs ==
  ASSUME AnyHeight, NEW p \in Points, NEW axis \in Axes
  PROVE  /\ Node(p, axis) \in TreeNodes
         /\ Node(p, axis).point = p
         /\ Node(p, axis).point_deleted = FALSE
         /\ Node(p, axis).point_downsample_deleted = FALSE
         /\ Node(p, axis).need_push = Both(FALSE)
         /\ Node(p, axis).son = Both(None)
<1>1. Both(FALSE) \in [Side -> BOOLEAN] /\ Both(None) \in [Side -> Trees] /\ p \in [Axes -> Int]
  BY TreesAre, TreeAssumption DEF Both
<1> QED
  BY <1>1 DEF Node, TreeNodes, NodesOver

(* What is left and right of the middle of n points in order.              *)
Middle(n) == (n + 1) \div 2

LEMMA MiddleIs ==
  \A n \in Nat : n > 0 => /\ Middle(n) \in 1..n
                          /\ Middle(n) - 1 \in Nat /\ Middle(n) - 1 < n
                          /\ n - Middle(n) \in Nat /\ n - Middle(n) < n
                          /\ n - (Middle(n) + 1) + 1 = n - Middle(n)
                          /\ 1 + (Middle(n) - 1) + (n - Middle(n)) = n
  BY SMT DEF Middle

(* The node in the middle of some points, and the points on its sides.     *)
Sorted(q, rank) == Arranged(q, Widest(q), rank)
MiddleNode(q, rank) == Node(Sorted(q, rank)[Middle(Len(q))], Widest(q))
Lower(q, rank) == SubSeq(Sorted(q, rank), 1, Middle(Len(q)) - 1)
Upper(q, rank) == SubSeq(Sorted(q, rank), Middle(Len(q)) + 1, Len(q))

LEMMA HalvesAre ==
  ASSUME AnyHeight, NEW rank \in [Points -> Int], NEW q \in Seq(Points), q # <<>>
  PROVE  /\ Lower(q, rank) \in Seq(Points) /\ Len(Lower(q, rank)) = Middle(Len(q)) - 1
         /\ Upper(q, rank) \in Seq(Points) /\ Len(Upper(q, rank)) = Len(q) - Middle(Len(q))
         /\ Len(Lower(q, rank)) < Len(q) /\ Len(Upper(q, rank)) < Len(q)
         /\ 1 + Len(Lower(q, rank)) + Len(Upper(q, rank)) = Len(q)
         /\ Widest(q) \in Axes
         /\ Sorted(q, rank)[Middle(Len(q))] \in Points
<1> DEFINE s == Sorted(q, rank)
           n == Len(q)
<1>1. Widest(q) \in Axes
  BY WidestIs
<1>2. s \in Seq(Points) /\ Len(s) = n
  BY <1>1, ArrangedIs DEF Sorted
<1>3. n \in Nat /\ n > 0
  OBVIOUS
<1>4. Lower(q, rank) = SubSeq(s, 1, Middle(n) - 1) /\ Upper(q, rank) = SubSeq(s, Middle(n) + 1, n)
  BY DEF Lower, Upper
<1> HIDE DEF s, n
<1>5. /\ Middle(n) \in 1..n /\ Middle(n) - 1 \in Nat /\ Middle(n) - 1 < n
      /\ n - Middle(n) \in Nat /\ n - Middle(n) < n
      /\ n - (Middle(n) + 1) + 1 = n - Middle(n)
      /\ 1 + (Middle(n) - 1) + (n - Middle(n)) = n
  BY <1>3, MiddleIs
<1> DEFINE m == Middle(n)
<1> HIDE DEF m
<1>6. m \in 1..n /\ m - 1 \in Nat /\ m - 1 < n /\ n - m \in Nat /\ n - m < n
      /\ 1 + (m - 1) + (n - m) = n
  BY <1>5 DEF m
<1>7. SubSeq(s, 1, m - 1) \in Seq(Points) /\ Len(SubSeq(s, 1, m - 1)) = m - 1
  BY <1>2, <1>3, <1>6
<1>8. SubSeq(s, m + 1, n) \in Seq(Points) /\ Len(SubSeq(s, m + 1, n)) = n - m
  BY <1>2, <1>3, <1>6
<1>9. s[m] \in Points
  BY <1>2, <1>3, <1>6
<1> QED
  BY <1>1, <1>4, <1>6, <1>7, <1>8, <1>9 DEF m, n, s

LEMMA BuildTreeIs ==
  ASSUME AnyHeight, NEW rank \in [Points -> Int]
  PROVE  /\ \A q \in Seq(Points) : BuildTree(q, rank) \in Trees
         /\ BuildTree(<<>>, rank) = None
         /\ \A q \in Seq(Points) : q # <<>> =>
              BuildTree(q, rank)
                = Update(WithSons(MiddleNode(q, rank),
                    Two(BuildTree(Lower(q, rank), rank), BuildTree(Upper(q, rank), rank))))
<1> DEFINE X == Seq(Points)
           h == [q \in X |-> Len(q)]
           G(q, a, b) == Update(WithSons(MiddleNode(q, rank), Two(a, b)))
           step == [q \in X |-> [f \in [X -> Trees] |->
                      IF q = <<>> THEN None ELSE G(q, f[Lower(q, rank)], f[Upper(q, rank)])]]
           F(f, points) ==
             IF points = <<>> THEN None
             ELSE LET axis == Widest(points)
                      sorted == Arranged(points, axis, rank)
                      mid == (Len(points) + 1) \div 2
                  IN Update([Node(sorted[mid], axis) EXCEPT
                       !.son = [left |-> f[SubSeq(sorted, 1, mid - 1)],
                                right |-> f[SubSeq(sorted, mid + 1, Len(points))]]])
           Eq(f) == f = [points \in X |-> F(f, points)]
           B == CHOOSE f : Eq(f)
<1>1. \A q : BuildTree(q, rank) = B[q]
  BY DEF BuildTree
<1>2. \A f : F(f, <<>>) = None /\ \A q \in X : q # <<>> =>
        F(f, q) = G(q, f[Lower(q, rank)], f[Upper(q, rank)])
  BY DEF Sorted, MiddleNode, Lower, Upper, Middle, WithSons, Two
<1>3. ASSUME NEW q \in X, q # <<>>, NEW a \in Trees, NEW b \in Trees
      PROVE  G(q, a, b) \in Trees
  <2>1. MiddleNode(q, rank) \in TreeNodes
    BY <1>3, HalvesAre, NodeIs DEF MiddleNode
  <2>2. Two(a, b) \in [Side -> Trees]
    BY TwoIs
  <2>3. WithSons(MiddleNode(q, rank), Two(a, b)) \in TreeNodes
    BY <2>1, <2>2, WithSonsIs
  <2> QED
    BY <2>3, UpdateIs, TreesAre
<1>4. /\ <<>> \in X
      /\ \A q \in X : Len(q) \in Nat
      /\ \A q \in X : q # <<>> => /\ Lower(q, rank) \in X /\ Len(Lower(q, rank)) < Len(q)
                                  /\ Upper(q, rank) \in X /\ Len(Upper(q, rank)) < Len(q)
  BY HalvesAre
<1> HIDE DEF G, F, X
<1>5. Recursive(X, Trees, h, step)
  <2>1. h \in [X -> Nat]
    BY <1>4
  <2>2. step \in [X -> [[X -> Trees] -> Trees]]
    <3>1. ASSUME NEW q \in X, NEW f \in [X -> Trees], q # <<>>
          PROVE  G(q, f[Lower(q, rank)], f[Upper(q, rank)]) \in Trees
      BY <1>3, <1>4, <3>1
    <3> QED
      BY <3>1, TreesAre
  <2>3. ASSUME NEW q \in X, NEW f \in [X -> Trees], NEW g \in [X -> Trees],
               \A y \in X : h[y] < h[q] => f[y] = g[y]
        PROVE  step[q][f] = step[q][g]
    <3>1. CASE q = <<>>
      BY <3>1
    <3>2. CASE q # <<>>
      <4>1. f[Lower(q, rank)] = g[Lower(q, rank)] /\ f[Upper(q, rank)] = g[Upper(q, rank)]
        BY <1>4, <2>3, <3>2
      <4> QED
        BY <4>1
    <3> QED
      BY <3>1, <3>2
  <2> HIDE DEF h, step
  <2> QED
    BY <2>1, <2>2, <2>3 DEF Recursive
<1>6. PICK f : Solves(f, X, Trees, step)
  <2>1. None \in Trees
    BY TreesAre
  <2> HIDE DEF h, step
  <2> QED
    BY <1>5, <2>1, RecursionExists
<1>7. Eq(f)
  <2>1. \A q \in X : f[q] = F(f, q)
    <3> TAKE q \in X
    <3>1. f \in [X -> Trees] /\ f[q] = step[q][f]
      <4> HIDE DEF step
      <4> QED
        BY <1>6 DEF Solves
    <3> QED
      BY <1>2, <3>1
  <2>2. f = [q \in X |-> f[q]]
    <3> HIDE DEF step
    <3> QED
      BY <1>6 DEF Solves
  <2> QED
    BY <2>1, <2>2
<1>8. Eq(B)
  <2> HIDE DEF Eq
  <2> QED
    BY <1>7
<1> HIDE DEF B
<1>9. /\ B[<<>>] = None
      /\ \A q \in X : q # <<>> => B[q] = G(q, B[Lower(q, rank)], B[Upper(q, rank)])
  BY <1>2, <1>4, <1>8
<1> DEFINE S == {q \in X : B[q] \in Trees}
<1>10. X \subseteq S
  <2>1. ASSUME NEW q \in X, \A y \in X : h[y] < h[q] => y \in S
        PROVE  q \in S
    <3>1. CASE q = <<>>
      BY <1>9, <3>1, TreesAre
    <3>2. CASE q # <<>>
      <4>1. B[Lower(q, rank)] \in Trees /\ B[Upper(q, rank)] \in Trees
        BY <1>4, <2>1, <3>2
      <4> QED
        BY <1>3, <1>9, <3>2, <4>1
    <3> QED
      BY <3>1, <3>2
  <2>2. h \in [X -> Nat]
    BY <1>4
  <2> HIDE DEF S, h
  <2> QED
    BY <2>1, <2>2, MeasureInduction
<1> QED
  BY <1>1, <1>9, <1>10 DEF G, X

-----------------------------------------------------------------------------
(***************************************************************************)
(* What the steps of an insertion and a deletion make of a node.           *)
(***************************************************************************)
DeletedAll(x, n, ds) ==
  /\ x \in TreeNodes
  /\ x.son = n.son
  /\ x.point = n.point
  /\ x.lo = n.lo
  /\ x.hi = n.hi
  /\ x.size = n.size
  /\ x.invalid = n.size
  /\ x.down_del = (IF ds THEN n.size ELSE n.down_del)
  /\ x.need_push = Both(TRUE)
  /\ x.tree_deleted = TRUE
  /\ x.point_deleted = TRUE
  /\ x.tree_downsample_deleted = (n.tree_downsample_deleted \/ ds)
  /\ x.point_downsample_deleted = (n.point_downsample_deleted \/ ds)

LEMMA DeleteAllIs ==
  ASSUME AnyHeight, NEW n \in TreeNodes, NEW ds \in BOOLEAN
  PROVE  /\ DeleteAll(n, ds) \in TreeNodes
         /\ DeletedAll(DeleteAll(n, ds), n, ds)
<1> DEFINE down == IF ds THEN n.size ELSE n.down_del
           tdd == n.tree_downsample_deleted \/ ds
           pdd == n.point_downsample_deleted \/ ds
           push == Both(TRUE)
           r == [n EXCEPT !.tree_deleted = TRUE, !.point_deleted = TRUE, !.need_push = push]
<1>1. /\ n \in NodesOver(Trees) /\ n.size \in Nat /\ push \in [Side -> BOOLEAN]
      /\ down \in Nat /\ tdd \in BOOLEAN /\ pdd \in BOOLEAN
  <2>1. n \in NodesOver(Trees)
    BY DEF TreeNodes
  <2>2. push \in [Side -> BOOLEAN]
    BY DEF Both
  <2>3. n.size \in Nat /\ down \in Nat
    BY <2>1 DEF NodesOver
  <2>4. tdd \in BOOLEAN /\ pdd \in BOOLEAN
    BY Zenon
  <2> QED
    BY <2>1, <2>2, <2>3, <2>4
<1>2. DeleteAll(n, ds) = [r EXCEPT !.invalid = n.size, !.tree_downsample_deleted = tdd,
                                   !.point_downsample_deleted = pdd, !.down_del = down]
  BY <1>1 DEF DeleteAll, NodesOver
<1>3. r \in NodesOver(Trees)
  <2> HIDE DEF push
  <2> QED
    BY <1>1 DEF NodesOver
<1>4. /\ r.son = n.son /\ r.point = n.point /\ r.lo = n.lo /\ r.hi = n.hi /\ r.size = n.size
      /\ r.need_push = push /\ r.tree_deleted = TRUE /\ r.point_deleted = TRUE
  <2> HIDE DEF push
  <2> QED
    BY <1>1 DEF NodesOver
<1> HIDE DEF r, down, tdd, pdd, push
<1>5. DeleteAll(n, ds) \in NodesOver(Trees)
  BY <1>1, <1>2, <1>3 DEF NodesOver
<1>6. /\ DeleteAll(n, ds).son = r.son
      /\ DeleteAll(n, ds).point = r.point
      /\ DeleteAll(n, ds).lo = r.lo
      /\ DeleteAll(n, ds).hi = r.hi
      /\ DeleteAll(n, ds).size = r.size
      /\ DeleteAll(n, ds).need_push = r.need_push
      /\ DeleteAll(n, ds).tree_deleted = r.tree_deleted
      /\ DeleteAll(n, ds).point_deleted = r.point_deleted
      /\ DeleteAll(n, ds).invalid = n.size
      /\ DeleteAll(n, ds).down_del = down
      /\ DeleteAll(n, ds).tree_downsample_deleted = tdd
      /\ DeleteAll(n, ds).point_downsample_deleted = pdd
  BY <1>2, <1>3 DEF NodesOver
<1> QED
  BY <1>4, <1>5, <1>6 DEF DeletedAll, down, tdd, pdd, push, TreeNodes

LEMMA DeletePointIs ==
  ASSUME NEW n \in TreeNodes
  PROVE  /\ DeletePoint(n) \in TreeNodes
         /\ DeletePoint(n).son = n.son
         /\ DeletePoint(n).point = n.point
         /\ DeletePoint(n).lo = n.lo
         /\ DeletePoint(n).hi = n.hi
         /\ DeletePoint(n).size = n.size
         /\ DeletePoint(n).invalid = n.invalid + 1
         /\ DeletePoint(n).down_del = n.down_del
         /\ DeletePoint(n).need_push = n.need_push
         /\ DeletePoint(n).tree_deleted = (n.tree_deleted \/ n.invalid + 1 = n.size)
         /\ DeletePoint(n).point_deleted = TRUE
         /\ DeletePoint(n).tree_downsample_deleted = n.tree_downsample_deleted
         /\ DeletePoint(n).point_downsample_deleted = n.point_downsample_deleted
<1> DEFINE td == n.tree_deleted \/ n.invalid + 1 = n.size
           gone == n.invalid + 1
<1>1. n \in NodesOver(Trees) /\ gone \in Nat
  BY DEF TreeNodes, NodesOver
<1>2. td \in BOOLEAN
  BY Zenon
<1>3. DeletePoint(n) = [n EXCEPT !.point_deleted = TRUE, !.invalid = gone, !.tree_deleted = td]
  BY <1>1 DEF DeletePoint, NodesOver
<1> HIDE DEF td, gone
<1>4. DeletePoint(n) \in NodesOver(Trees)
  BY <1>1, <1>2, <1>3 DEF NodesOver
<1>5. /\ DeletePoint(n).son = n.son
      /\ DeletePoint(n).point = n.point
      /\ DeletePoint(n).lo = n.lo
      /\ DeletePoint(n).hi = n.hi
      /\ DeletePoint(n).size = n.size
      /\ DeletePoint(n).invalid = gone
      /\ DeletePoint(n).down_del = n.down_del
      /\ DeletePoint(n).need_push = n.need_push
      /\ DeletePoint(n).tree_deleted = td
      /\ DeletePoint(n).point_deleted = TRUE
      /\ DeletePoint(n).tree_downsample_deleted = n.tree_downsample_deleted
      /\ DeletePoint(n).point_downsample_deleted = n.point_downsample_deleted
  BY <1>1, <1>3 DEF NodesOver
<1> QED
  BY <1>4, <1>5 DEF td, gone, TreeNodes

(* A node whose point may be deleted, with other sons.                     *)
Marked(n, pd, pdd, f) ==
  [n EXCEPT !.point_deleted = pd, !.point_downsample_deleted = pdd, !.son = f]

LEMMA MarkedIs ==
  ASSUME NEW n \in TreeNodes, NEW pd \in BOOLEAN, NEW pdd \in BOOLEAN, NEW f \in [Side -> Trees]
  PROVE  /\ Marked(n, pd, pdd, f) \in TreeNodes
         /\ Marked(n, pd, pdd, f).son = f
         /\ Marked(n, pd, pdd, f).point = n.point
         /\ Marked(n, pd, pdd, f).need_push = n.need_push
         /\ Marked(n, pd, pdd, f).point_deleted = pd
         /\ Marked(n, pd, pdd, f).point_downsample_deleted = pdd
<1>1. Marked(n, pd, pdd, f) \in TreeNodes
  BY DEF Marked, TreeNodes, NodesOver
<1> QED
  BY <1>1 DEF Marked, TreeNodes, NodesOver

Results == [tree : Trees, removed : Seq(Points)]

LEMMA FinishIs ==
  ASSUME AnyHeight, NEW n \in TreeNodes, NEW rank \in [Points -> Int]
  PROVE  /\ Finish(n, rank) \in Results
         /\ \/ /\ Finish(n, rank).tree = Update(n)
               /\ Finish(n, rank).removed = <<>>
            \/ /\ Finish(n, rank).tree = BuildTree(flatten[Update(n)], rank)
               /\ Finish(n, rank).removed = Removed[Update(n)]
<1>1. Update(n) \in TreeNodes
  BY UpdateIs
<1>2. Update(n) \in Trees
  BY <1>1, TreesAre
<1>3. flatten[Update(n)] \in Seq(Points) /\ Removed[Update(n)] \in Seq(Points)
  BY <1>2, FlattenIs, RemovedIs
<1>4. BuildTree(flatten[Update(n)], rank) \in Trees
  BY <1>3, BuildTreeIs
<1>5. <<>> \in Seq(Points)
  OBVIOUS
<1>6. CASE rank # None /\ Criterion_Check(Update(n))
  <2>1. Finish(n, rank) = [tree |-> BuildTree(flatten[Update(n)], rank),
                           removed |-> Removed[Update(n)]]
    BY <1>6 DEF Finish, Rebuild
  <2> QED
    BY <1>3, <1>4, <2>1 DEF Results
<1>7. CASE ~(rank # None /\ Criterion_Check(Update(n)))
  <2>1. Finish(n, rank) = [tree |-> Update(n), removed |-> <<>>]
    BY <1>7 DEF Finish
  <2> QED
    BY <1>2, <1>5, <2>1 DEF Results
<1> QED
  BY <1>6, <1>7

(* A deletion by range, from what it makes of the sons.                    *)
Deletions == [tree : Trees, removed : Seq(Points), count : Int]

DeletedHere(n, box) == ~n.point_deleted /\ InBox(n.point, box)

DeleteBelow(n, l, r, box, rank, ds) ==
  Finish(Marked(n, n.point_deleted \/ DeletedHere(n, box),
                n.point_downsample_deleted \/ (DeletedHere(n, box) /\ ds),
                Two(l.tree, r.tree)), rank)

DeleteIn(n, l, r, box, rank, ds) ==
  LET e == DeleteBelow(n, l, r, box, rank, ds)
  IN IF Apart(box, n) THEN [tree |-> n, removed |-> <<>>, count |-> 0]
     ELSE IF Covers(box, n)
     THEN [tree |-> DeleteAll(n, ds), removed |-> <<>>, count |-> n.size - n.invalid]
     ELSE [tree |-> e.tree, removed |-> l.removed \o r.removed \o e.removed,
           count |-> One(DeletedHere(n, box)) + l.count + r.count]

DeleteStep(t, l, r, box, rank, ds) ==
  IF t.tree_deleted THEN [tree |-> t, removed |-> <<>>, count |-> 0]
  ELSE DeleteIn(Push_Down(t), l, r, box, rank, ds)

LEMMA IntegersAdd == \A a, b, c \in Int : a + b + c \in Int /\ a - b \in Int
  BY ONLY SMT

LEMMA DeleteStepType ==
  ASSUME AnyHeight, NEW box, NEW rank \in [Points -> Int], NEW ds \in BOOLEAN,
         NEW t \in TreeNodes, NEW l \in Deletions, NEW r \in Deletions
  PROVE  DeleteStep(t, l, r, box, rank, ds) \in Deletions
<1> DEFINE n == Push_Down(t)
           e == DeleteBelow(n, l, r, box, rank, ds)
           pd == n.point_deleted \/ DeletedHere(n, box)
           pdd == n.point_downsample_deleted \/ (DeletedHere(n, box) /\ ds)
<1>1. n \in TreeNodes /\ t \in Trees
  BY PushDownType, TreesAre
<1>2. l.tree \in Trees /\ r.tree \in Trees
  BY DEF Deletions
<1>3. Two(l.tree, r.tree) \in [Side -> Trees]
  BY <1>2, TwoIs
<1>4. pd \in BOOLEAN /\ pdd \in BOOLEAN
  BY Zenon DEF DeletedHere
<1>5. Marked(n, pd, pdd, Two(l.tree, r.tree)) \in TreeNodes
  <2> HIDE DEF n, pd, pdd
  <2> QED
    BY <1>1, <1>3, <1>4, MarkedIs
<1>6. e \in Results
  <2>1. e = Finish(Marked(n, pd, pdd, Two(l.tree, r.tree)), rank)
    BY DEF DeleteBelow
  <2> HIDE DEF e, n, pd, pdd
  <2> QED
    BY <1>5, <2>1, FinishIs
<1> HIDE DEF e, n, pd, pdd
<1>7. n.size \in Int /\ n.invalid \in Int /\ One(DeletedHere(n, box)) \in Int
  BY <1>1 DEF TreeNodes, NodesOver, One
<1>8. n \in Trees /\ DeleteAll(n, ds) \in Trees
  BY <1>1, DeleteAllIs, TreesAre
<1>9. /\ l.removed \in Seq(Points) /\ r.removed \in Seq(Points) /\ <<>> \in Seq(Points)
      /\ l.count \in Int /\ r.count \in Int
  BY DEF Deletions
<1>10. e.tree \in Trees /\ e.removed \in Seq(Points)
  BY <1>6 DEF Results
<1>11. l.removed \o r.removed \o e.removed \in Seq(Points)
  BY <1>9, <1>10
<1>12. /\ One(DeletedHere(n, box)) + l.count + r.count \in Int
       /\ n.size - n.invalid \in Int /\ 0 \in Int
  BY ONLY <1>7, <1>9, IntegersAdd
<1>13. DeleteIn(n, l, r, box, rank, ds) \in Deletions
  BY <1>8, <1>9, <1>10, <1>11, <1>12 DEF DeleteIn, Deletions, e
<1>14. [tree |-> t, removed |-> <<>>, count |-> 0] \in Deletions
  BY <1>1, <1>9, <1>12 DEF Deletions
<1> QED
  BY <1>13, <1>14 DEF DeleteStep, n

LEMMA DeleteByRangeIs ==
  ASSUME AnyHeight, NEW box, NEW rank \in [Points -> Int], NEW ds \in BOOLEAN
  PROVE  /\ \A t \in Trees : Delete_by_range(t, box, rank, ds) \in Deletions
         /\ Delete_by_range(None, box, rank, ds) = [tree |-> None, removed |-> <<>>, count |-> 0]
         /\ \A t \in TreeNodes :
              Delete_by_range(t, box, rank, ds)
                = DeleteStep(t, Delete_by_range(Son(t, "left"), box, rank, ds),
                             Delete_by_range(Son(t, "right"), box, rank, ds), box, rank, ds)
<1> DEFINE V == Deletions
           base == [tree |-> None, removed |-> <<>>, count |-> 0]
           G(n, a, b) == DeleteStep(n, a, b, box, rank, ds)
           step == [n \in TreeNodes |-> [a \in V |-> [b \in V |-> G(n, a, b)]]]
           Q(n, l, r) ==
             IF Apart(box, n) THEN [tree |-> n, removed |-> <<>>, count |-> 0]
             ELSE IF Covers(box, n)
             THEN [tree |-> DeleteAll(n, ds), removed |-> <<>>, count |-> n.size - n.invalid]
             ELSE LET hit == ~n.point_deleted /\ InBox(n.point, box)
                      e == Finish([n EXCEPT !.point_deleted = @ \/ hit,
                                     !.point_downsample_deleted = @ \/ (hit /\ ds),
                                     !.son = [left |-> l.tree, right |-> r.tree]], rank)
                  IN [tree |-> e.tree, removed |-> l.removed \o r.removed \o e.removed,
                      count |-> One(hit) + l.count + r.count]
           F(f, t) ==
             IF t = None \/ t.tree_deleted THEN [tree |-> t, removed |-> <<>>, count |-> 0]
             ELSE Q(Push_Down(t), f[Push_Down(t).son["left"]], f[Push_Down(t).son["right"]])
           Eq(f) == f = [t \in Trees |-> F(f, t)]
           D == CHOOSE f : Eq(f)
<1>0. \A t : Delete_by_range(t, box, rank, ds) = D[t]
  BY DEF Delete_by_range
<1>1. /\ base \in V
      /\ \A n \in TreeNodes : \A a, b \in V : G(n, a, b) \in V
  <2>1. base \in V
    BY TreesAre DEF Deletions
  <2> QED
    BY <2>1, DeleteStepType
<1>2. ASSUME NEW n \in TreeNodes, NEW l, NEW r
      PROVE  Q(n, l, r) = DeleteIn(n, l, r, box, rank, ds)
  <2> DEFINE hit == DeletedHere(n, box)
  <2>1. [n EXCEPT !.point_deleted = @ \/ hit, !.point_downsample_deleted = @ \/ (hit /\ ds),
                  !.son = [left |-> l.tree, right |-> r.tree]]
          = Marked(n, n.point_deleted \/ hit, n.point_downsample_deleted \/ (hit /\ ds),
                   Two(l.tree, r.tree))
    <3> HIDE DEF hit
    <3> QED
      BY DEF Marked, Two, TreeNodes, NodesOver
  <2> QED
    BY <2>1 DEF DeleteIn, DeleteBelow, DeletedHere
<1> HIDE DEF Q
<1>3. \A f : F(f, None) = base /\ \A n \in TreeNodes :
        F(f, n) = G(n, f[Son(n, "left")], f[Son(n, "right")])
  <2>1. \A n \in TreeNodes : Push_Down(n) \in TreeNodes /\ n # None
    BY PushDownType, NoneIsNoNode
  <2> HIDE DEF V, step, D
  <2> QED
    BY <1>2, <2>1 DEF DeleteStep, Son
<1> HIDE DEF V, base, G, F
<1>4. PICK f : FoldsTree(f, V, base, step)
  <2>1. TreeStep(V, step)
    BY <1>1 DEF TreeStep
  <2> HIDE DEF step
  <2> QED
    BY <1>1, <2>1, TreeRecursion
<1>5. Eq(f)
  <2>1. \A n \in TreeNodes : f[n] = G(n, f[Son(n, "left")], f[Son(n, "right")])
    <3> TAKE n \in TreeNodes
    <3>1. Son(n, "left") \in Trees /\ Son(n, "right") \in Trees
      BY SonType DEF Side
    <3>2. f[Son(n, "left")] \in V /\ f[Son(n, "right")] \in V
      BY <1>4, <3>1 DEF FoldsTree
    <3> QED
      BY <1>4, <3>2 DEF FoldsTree
  <2>2. \A t \in Trees : f[t] = F(f, t)
    BY <1>3, <1>4, <2>1, TreesAre DEF FoldsTree
  <2>3. f = [t \in Trees |-> f[t]]
    BY <1>4 DEF FoldsTree
  <2> QED
    BY <2>2, <2>3
<1>6. Eq(D)
  <2> HIDE DEF Eq
  <2> QED
    BY <1>5
<1> HIDE DEF D
<1>7. /\ D[None] = base
      /\ \A n \in TreeNodes : D[n] = G(n, D[Son(n, "left")], D[Son(n, "right")])
      /\ D = [t \in Trees |-> D[t]]
  BY <1>3, <1>6, TreesAre
<1>8. D \in [Trees -> V]
  <2>1. \A n \in TreeNodes : D[Son(n, "left")] \in V /\ D[Son(n, "right")] \in V => D[n] \in V
    BY <1>1, <1>7
  <2> QED
    BY <1>1, <1>7, <2>1, TreeTyped
<1> QED
  BY <1>0, <1>7, <1>8 DEF V, G, base

(* A node with another son on one side.                                    *)
WithSon(n, s, t) == [n EXCEPT !.son[s] = t]

LEMMA WithSonIs ==
  ASSUME NEW n \in TreeNodes, NEW s \in Side, NEW t \in Trees
  PROVE  WithSon(n, s, t) = WithSons(n, [n.son EXCEPT ![s] = t])
         /\ [n.son EXCEPT ![s] = t] \in [Side -> Trees]
BY DEF WithSon, WithSons, TreeNodes, NodesOver

LEMMA SideOfIs ==
  ASSUME NEW n, NEW p
  PROVE  SideOf(n, p) \in Side
BY DEF SideOf, Side

Wayward(n, p) == Son(n, SideOf(Push_Down(n), p))

(* A deletion of a point, from what it makes of the son on its way.        *)
DeletePointIn(n, d, p, rank) ==
  LET e == Finish(WithSon(n, SideOf(n, p), d.tree), rank)
  IN IF n.point = p /\ ~n.point_deleted
     THEN [tree |-> DeletePoint(n), removed |-> <<>>]
     ELSE [tree |-> e.tree, removed |-> d.removed \o e.removed]

DeletePointStep(t, d, p, rank) ==
  IF t.tree_deleted THEN [tree |-> t, removed |-> <<>>]
  ELSE DeletePointIn(Push_Down(t), d, p, rank)

LEMMA OnTheWay ==
  ASSUME AnyHeight, NEW n \in TreeNodes, NEW p, NEW rank \in [Points -> Int], NEW d \in Results
  PROVE  LET e == Finish(WithSon(n, SideOf(n, p), d.tree), rank)
         IN /\ e \in Results
            /\ [tree |-> e.tree, removed |-> d.removed \o e.removed] \in Results
<1> DEFINE e == Finish(WithSon(n, SideOf(n, p), d.tree), rank)
<1>1. SideOf(n, p) \in Side /\ d.tree \in Trees /\ d.removed \in Seq(Points)
  BY SideOfIs DEF Results
<1> DEFINE f == [n.son EXCEPT ![SideOf(n, p)] = d.tree]
<1>2. WithSon(n, SideOf(n, p), d.tree) \in TreeNodes
  <2>1. WithSon(n, SideOf(n, p), d.tree) = WithSons(n, f) /\ f \in [Side -> Trees]
    BY <1>1, WithSonIs
  <2> HIDE DEF f
  <2> QED
    BY <2>1, WithSonsIs
<1>3. e \in Results
  BY <1>2, FinishIs
<1> HIDE DEF e
<1>4. e.tree \in Trees /\ e.removed \in Seq(Points)
  BY <1>3 DEF Results
<1>5. d.removed \o e.removed \in Seq(Points)
  BY <1>1, <1>4
<1>6. [tree |-> e.tree, removed |-> d.removed \o e.removed] \in Results
  BY <1>4, <1>5 DEF Results
<1> QED
  BY <1>3, <1>6 DEF e

LEMMA DeletePointStepType ==
  ASSUME AnyHeight, NEW p, NEW rank \in [Points -> Int], NEW t \in TreeNodes, NEW d \in Results
  PROVE  DeletePointStep(t, d, p, rank) \in Results
<1> DEFINE n == Push_Down(t)
<1>1. n \in TreeNodes /\ t \in Trees
  BY PushDownType, TreesAre
<1> HIDE DEF n
<1>2. DeletePoint(n) \in Trees /\ <<>> \in Seq(Points)
  <2>1. DeletePoint(n) \in TreeNodes
    BY <1>1, DeletePointIs
  <2>2. <<>> \in Seq(Points)
    OBVIOUS
  <2> QED
    BY <2>1, <2>2, TreesAre
<1>3. DeletePointIn(n, d, p, rank) \in Results
  <2>1. CASE n.point = p /\ ~n.point_deleted
    <3>1. DeletePointIn(n, d, p, rank) = [tree |-> DeletePoint(n), removed |-> <<>>]
      BY <2>1 DEF DeletePointIn
    <3> QED
      BY <1>2, <3>1 DEF Results
  <2>2. CASE ~(n.point = p /\ ~n.point_deleted)
    <3> DEFINE e == Finish(WithSon(n, SideOf(n, p), d.tree), rank)
    <3>1. DeletePointIn(n, d, p, rank) = [tree |-> e.tree, removed |-> d.removed \o e.removed]
      BY <2>2 DEF DeletePointIn
    <3> QED
      BY <1>1, <3>1, OnTheWay
  <2> QED
    BY <2>1, <2>2
<1>4. [tree |-> t, removed |-> <<>>] \in Results
  BY <1>1, <1>2 DEF Results
<1> QED
  BY <1>3, <1>4 DEF DeletePointStep, n

LEMMA DeleteByPointIs ==
  ASSUME AnyHeight, NEW p, NEW rank \in [Points -> Int]
  PROVE  /\ \A t \in Trees : Delete_by_point(t, p, rank) \in Results
         /\ Delete_by_point(None, p, rank) = [tree |-> None, removed |-> <<>>]
         /\ \A t \in TreeNodes :
              Delete_by_point(t, p, rank)
                = DeletePointStep(t, Delete_by_point(Wayward(t, p), p, rank), p, rank)
<1> DEFINE V == Results
           base == [tree |-> None, removed |-> <<>>]
           G(n, a, b) ==
             DeletePointStep(n, IF SideOf(Push_Down(n), p) = "left" THEN a ELSE b, p, rank)
           step == [n \in TreeNodes |-> [a \in V |-> [b \in V |-> G(n, a, b)]]]
           Q(n, d) ==
             LET s == SideOf(n, p)
                 e == Finish([n EXCEPT !.son[s] = d.tree], rank)
             IN IF n.point = p /\ ~n.point_deleted
                THEN [tree |-> DeletePoint(n), removed |-> <<>>]
                ELSE [tree |-> e.tree, removed |-> d.removed \o e.removed]
           F(f, t) ==
             IF t = None \/ t.tree_deleted THEN [tree |-> t, removed |-> <<>>]
             ELSE Q(Push_Down(t), f[Push_Down(t).son[SideOf(Push_Down(t), p)]])
           Eq(f) == f = [t \in Trees |-> F(f, t)]
           D == CHOOSE f : Eq(f)
<1>0. \A t : Delete_by_point(t, p, rank) = D[t]
  BY DEF Delete_by_point
<1>1. /\ base \in V
      /\ \A n \in TreeNodes : \A a, b \in V : G(n, a, b) \in V
  <2>1. base \in V
    BY TreesAre DEF Results
  <2> QED
    BY <2>1, DeletePointStepType
<1>2. ASSUME NEW n, NEW d
      PROVE  Q(n, d) = DeletePointIn(n, d, p, rank)
  BY DEF DeletePointIn, WithSon
<1> HIDE DEF Q
<1>a. \A f : \A n :
        f[Wayward(n, p)] = IF SideOf(Push_Down(n), p) = "left"
                           THEN f[Son(n, "left")] ELSE f[Son(n, "right")]
  BY DEF Wayward, SideOf
<1>3. /\ \A f : F(f, None) = base /\ \A n \in TreeNodes :
                  F(f, n) = G(n, f[Son(n, "left")], f[Son(n, "right")])
      /\ \A f : \A n \in TreeNodes : F(f, n) = DeletePointStep(n, f[Wayward(n, p)], p, rank)
  <2>1. \A n \in TreeNodes : n # None
    BY NoneIsNoNode
  <2> HIDE DEF V, step, D
  <2>2. \A f : \A n \in TreeNodes : F(f, n) = DeletePointStep(n, f[Wayward(n, p)], p, rank)
    BY <1>2, <2>1 DEF DeletePointStep, Wayward, Son
  <2> QED
    BY <1>a, <2>2
<1> HIDE DEF V, base, G, F
<1>4. PICK f : FoldsTree(f, V, base, step)
  <2>1. TreeStep(V, step)
    BY <1>1 DEF TreeStep
  <2> HIDE DEF step
  <2> QED
    BY <1>1, <2>1, TreeRecursion
<1>5. Eq(f)
  <2>1. \A n \in TreeNodes : f[n] = G(n, f[Son(n, "left")], f[Son(n, "right")])
    <3> TAKE n \in TreeNodes
    <3>1. Son(n, "left") \in Trees /\ Son(n, "right") \in Trees
      BY SonType DEF Side
    <3>2. f[Son(n, "left")] \in V /\ f[Son(n, "right")] \in V
      BY <1>4, <3>1 DEF FoldsTree
    <3> QED
      BY <1>4, <3>2 DEF FoldsTree
  <2>2. \A t \in Trees : f[t] = F(f, t)
    BY <1>3, <1>4, <2>1, TreesAre DEF FoldsTree
  <2>3. f = [t \in Trees |-> f[t]]
    BY <1>4 DEF FoldsTree
  <2> QED
    BY <2>2, <2>3
<1>6. Eq(D)
  <2> HIDE DEF Eq
  <2> QED
    BY <1>5
<1> HIDE DEF D
<1>7. /\ D[None] = base
      /\ \A n \in TreeNodes : D[n] = G(n, D[Son(n, "left")], D[Son(n, "right")])
      /\ \A n \in TreeNodes : D[n] = DeletePointStep(n, D[Wayward(n, p)], p, rank)
      /\ D = [t \in Trees |-> D[t]]
  BY <1>3, <1>6, TreesAre
<1>8. D \in [Trees -> V]
  <2>1. \A n \in TreeNodes : D[Son(n, "left")] \in V /\ D[Son(n, "right")] \in V => D[n] \in V
    BY <1>1, <1>7
  <2> QED
    BY <1>1, <1>7, <2>1, TreeTyped
<1> QED
  BY <1>0, <1>7, <1>8 DEF V, base

(* An insertion, from what it makes of the son on its way.                 *)
Leaf(p, father) == Update(Node(p, (father % 3) + 1))

LEMMA LeafType ==
  ASSUME AnyHeight, NEW p \in Points, NEW father \in Axes
  PROVE  Leaf(p, father) \in TreeNodes
<1>1. (father % 3) + 1 \in Axes
  BY DEF Axes
<1>2. Node(p, (father % 3) + 1) \in TreeNodes
  BY <1>1, NodeIs
<1> QED
  BY <1>2, UpdateIs DEF Leaf

AddIn(n, d, p, rank) ==
  LET e == Finish(WithSon(n, SideOf(n, p), d.tree), rank)
  IN [tree |-> e.tree, removed |-> d.removed \o e.removed]

LEMMA AddByPointIs ==
  ASSUME AnyHeight, NEW p \in Points, NEW rank \in [Points -> Int]
  PROVE  /\ \A t \in Trees : \A a \in Axes : Add_by_point(t, p, rank, a) \in Results
         /\ \A a \in Axes : Add_by_point(None, p, rank, a) = [tree |-> Leaf(p, a), removed |-> <<>>]
         /\ \A t \in TreeNodes : \A a \in Axes :
              Add_by_point(t, p, rank, a)
                = AddIn(Push_Down(t), Add_by_point(Wayward(t, p), p, rank, t.axis), p, rank)
<1> DEFINE V == [Axes -> Results]
           base == [a \in Axes |-> [tree |-> Leaf(p, a), removed |-> <<>>]]
           H(t, d) == [a \in Axes |-> AddIn(Push_Down(t), d[Push_Down(t).axis], p, rank)]
           G(n, a, b) == H(n, IF SideOf(Push_Down(n), p) = "left" THEN a ELSE b)
           step == [n \in TreeNodes |-> [a \in V |-> [b \in V |-> G(n, a, b)]]]
           Q(n, d) ==
             LET s == SideOf(n, p)
                 e == Finish([n EXCEPT !.son[s] = d.tree], rank)
             IN [tree |-> e.tree, removed |-> d.removed \o e.removed]
           F(f, t) ==
             [father_axis \in Axes |->
               IF t = None
               THEN [tree |-> Update(Node(p, (father_axis % 3) + 1)), removed |-> <<>>]
               ELSE Q(Push_Down(t),
                      f[Push_Down(t).son[SideOf(Push_Down(t), p)]][Push_Down(t).axis])]
           Eq(f) == f = [t \in Trees |-> F(f, t)]
           D == CHOOSE f : Eq(f)
<1>0. \A t, a : Add_by_point(t, p, rank, a) = D[t][a]
  BY DEF Add_by_point
<1>b. \A n \in TreeNodes : Push_Down(n) \in TreeNodes /\ n # None /\ Push_Down(n).axis \in Axes
                           /\ Push_Down(n).axis = n.axis
  <2>1. \A n \in TreeNodes : Push_Down(n) \in TreeNodes
    BY PushDownType
  <2>2. \A n \in TreeNodes : n.axis \in Axes
    BY DEF TreeNodes, NodesOver
  <2> QED
    BY <2>1, <2>2, PushDownIs, NoneIsNoNode
<1>1. /\ base \in V
      /\ \A n \in TreeNodes : \A d \in V : H(n, d) \in V
      /\ \A n \in TreeNodes : \A a, b \in V : G(n, a, b) \in V
  <2>1. base \in V
    <3>1. \A a \in Axes : Leaf(p, a) \in Trees
      BY LeafType, TreesAre
    <3>2. <<>> \in Seq(Points)
      OBVIOUS
    <3> QED
      BY <3>1, <3>2 DEF Results
  <2>2. ASSUME NEW n \in TreeNodes, NEW d \in V
        PROVE  H(n, d) \in V
    <3>1. d[Push_Down(n).axis] \in Results
      BY <1>b
    <3>2. AddIn(Push_Down(n), d[Push_Down(n).axis], p, rank) \in Results
      BY <1>b, <3>1, OnTheWay DEF AddIn
    <3> QED
      BY <3>2
  <2> HIDE DEF V, H
  <2> QED
    BY <2>1, <2>2
<1>2. ASSUME NEW n, NEW d
      PROVE  Q(n, d) = AddIn(n, d, p, rank)
  BY DEF AddIn, WithSon
<1> HIDE DEF Q
<1>a. \A f : \A n :
        f[Wayward(n, p)] = IF SideOf(Push_Down(n), p) = "left"
                           THEN f[Son(n, "left")] ELSE f[Son(n, "right")]
  BY DEF Wayward, SideOf
<1>3. /\ \A f : F(f, None) = base /\ \A n \in TreeNodes :
                  F(f, n) = G(n, f[Son(n, "left")], f[Son(n, "right")])
      /\ \A f : \A n \in TreeNodes : F(f, n) = H(n, f[Wayward(n, p)])
  <2> HIDE DEF V, step, D
  <2>1. \A f : F(f, None) = base
    BY DEF Leaf
  <2>2. \A f : \A n \in TreeNodes : F(f, n) = H(n, f[Wayward(n, p)])
    BY <1>b, <1>2 DEF Wayward, Son
  <2> HIDE DEF H, F
  <2> QED
    BY <1>a, <2>1, <2>2
<1> HIDE DEF V, base, G, F
<1>4. PICK f : FoldsTree(f, V, base, step)
  <2>1. TreeStep(V, step)
    BY <1>1 DEF TreeStep
  <2> HIDE DEF step
  <2> QED
    BY <1>1, <2>1, TreeRecursion
<1>5. Eq(f)
  <2>1. \A n \in TreeNodes : f[n] = G(n, f[Son(n, "left")], f[Son(n, "right")])
    <3> TAKE n \in TreeNodes
    <3>1. Son(n, "left") \in Trees /\ Son(n, "right") \in Trees
      BY SonType DEF Side
    <3>2. f[Son(n, "left")] \in V /\ f[Son(n, "right")] \in V
      BY <1>4, <3>1 DEF FoldsTree
    <3> QED
      BY <1>4, <3>2 DEF FoldsTree
  <2>2. \A t \in Trees : f[t] = F(f, t)
    BY <1>3, <1>4, <2>1, TreesAre DEF FoldsTree
  <2>3. f = [t \in Trees |-> f[t]]
    BY <1>4 DEF FoldsTree
  <2> QED
    BY <2>2, <2>3
<1>6. Eq(D)
  <2> HIDE DEF Eq
  <2> QED
    BY <1>5
<1> HIDE DEF D
<1>7. /\ D[None] = base
      /\ \A n \in TreeNodes : D[n] = G(n, D[Son(n, "left")], D[Son(n, "right")])
      /\ \A n \in TreeNodes : D[n] = H(n, D[Wayward(n, p)])
      /\ D = [t \in Trees |-> D[t]]
  <2> HIDE DEF H
  <2> QED
    BY <1>3, <1>6, TreesAre
<1>8. D \in [Trees -> V]
  <2>1. \A n \in TreeNodes : D[Son(n, "left")] \in V /\ D[Son(n, "right")] \in V => D[n] \in V
    <3> HIDE DEF H
    <3> QED
      BY <1>1, <1>7
  <2> QED
    BY <1>1, <1>7, <2>1, TreeTyped
<1>9. \A t \in TreeNodes : \A a \in Axes :
        D[t][a] = AddIn(Push_Down(t), D[Wayward(t, p)][t.axis], p, rank)
  <2> TAKE t \in TreeNodes
  <2> TAKE a \in Axes
  <2> DEFINE d == D[Wayward(t, p)]
  <2>1. D[t] = H(t, d)
    <3> HIDE DEF H
    <3> QED
      BY <1>7
  <2>2. Push_Down(t).axis = t.axis
    BY <1>b
  <2> HIDE DEF d
  <2>3. H(t, d)[a] = AddIn(Push_Down(t), d[t.axis], p, rank)
    BY ONLY <2>2, a \in Axes
  <2> HIDE DEF H
  <2> QED
    BY <2>1, <2>3 DEF d
<1>10. \A a \in Axes : D[None][a] = [tree |-> Leaf(p, a), removed |-> <<>>]
  BY <1>7 DEF base
<1>11. \A t \in Trees : \A a \in Axes : D[t][a] \in Results
  BY <1>8 DEF V
<1> HIDE DEF H, step, Eq
<1>12. \A t \in TreeNodes : \A a \in Axes :
         Add_by_point(t, p, rank, a)
           = AddIn(Push_Down(t), Add_by_point(Wayward(t, p), p, rank, t.axis), p, rank)
  BY <1>0, <1>9
<1>13. \A t \in Trees : \A a \in Axes : Add_by_point(t, p, rank, a) \in Results
  BY <1>0, <1>11
<1>14. \A a \in Axes : Add_by_point(None, p, rank, a) = [tree |-> Leaf(p, a), removed |-> <<>>]
  BY ONLY <1>0, <1>10
<1> QED
  BY <1>12, <1>13, <1>14

-----------------------------------------------------------------------------
(***************************************************************************)
(* Searches push flags down and change nothing else in a tree.             *)
(***************************************************************************)
FindResults == [tree : Trees, found : Seq(Points)]

FindIn(n, l, r, outside, inside, hit) ==
  IF outside THEN [tree |-> n, found |-> <<>>]
  ELSE IF inside THEN [tree |-> PushAll[n], found |-> flatten[n]]
  ELSE [tree |-> WithSons(n, Two(l.tree, r.tree)),
        found |-> (IF hit THEN <<n.point>> ELSE <<>>) \o l.found \o r.found]

LEMMA FindInType ==
  ASSUME AnyHeight, NEW n \in TreeNodes, NEW l \in FindResults, NEW r \in FindResults,
         NEW outside, NEW inside, NEW hit
  PROVE  FindIn(n, l, r, outside, inside, hit) \in FindResults
<1>1. l.tree \in Trees /\ r.tree \in Trees /\ l.found \in Seq(Points) /\ r.found \in Seq(Points)
  BY DEF FindResults
<1>2. WithSons(n, Two(l.tree, r.tree)) \in Trees
  <2>1. Two(l.tree, r.tree) \in [Side -> Trees]
    BY <1>1, TwoIs
  <2>2. WithSons(n, Two(l.tree, r.tree)) \in TreeNodes
    BY <2>1, WithSonsIs
  <2> QED
    BY <2>2, TreesAre
<1>3. n \in Trees
  BY TreesAre
<1>4. PushAll[n] \in Trees /\ flatten[n] \in Seq(Points)
  BY <1>3, PushAllIs, FlattenIs
<1>5. n.point \in Points
  BY DEF TreeNodes, NodesOver
<1>6. <<>> \in Seq(Points)
  OBVIOUS
<1> DEFINE own == IF hit THEN <<n.point>> ELSE <<>>
<1>7. own \in Seq(Points)
  BY <1>5, <1>6
<1> HIDE DEF own
<1>8. own \o l.found \o r.found \in Seq(Points)
  BY <1>1, <1>7
<1>9. FindIn(n, l, r, outside, inside, hit) =
        IF outside THEN [tree |-> n, found |-> <<>>]
        ELSE IF inside THEN [tree |-> PushAll[n], found |-> flatten[n]]
        ELSE [tree |-> WithSons(n, Two(l.tree, r.tree)), found |-> own \o l.found \o r.found]
  BY DEF FindIn, own
<1> QED
  BY <1>2, <1>3, <1>4, <1>6, <1>8, <1>9 DEF FindResults

RangeIn(n, l, r, box) ==
  FindIn(n, l, r, Apart(box, n), Covers(box, n), InBox(n.point, box) /\ ~n.point_deleted)
RadiusIn(n, l, r, p, rad) ==
  FindIn(n, l, r, BallOutside(n, p, rad), BallInside(n, p, rad),
         ~n.point_deleted /\ SquareDist(n.point, p) <= rad * rad)

LEMMA SearchByRangeIs ==
  ASSUME AnyHeight, NEW box
  PROVE  /\ \A t \in Trees : Search_by_range(t, box) \in FindResults
         /\ Search_by_range(None, box) = [tree |-> None, found |-> <<>>]
         /\ \A t \in TreeNodes :
              Search_by_range(t, box)
                = RangeIn(Push_Down(t), Search_by_range(Son(t, "left"), box),
                           Search_by_range(Son(t, "right"), box), box)
<1> DEFINE V == FindResults
           base == [tree |-> None, found |-> <<>>]
           G(n, a, b) == RangeIn(Push_Down(n), a, b, box)
           step == [n \in TreeNodes |-> [a \in V |-> [b \in V |-> G(n, a, b)]]]
           Q(n, l, r) ==
             LET hit == InBox(n.point, box) /\ ~n.point_deleted
             IN IF Apart(box, n) THEN [tree |-> n, found |-> <<>>]
                ELSE IF Covers(box, n) THEN [tree |-> PushAll[n], found |-> flatten[n]]
                ELSE [tree |-> [n EXCEPT !.son = [left |-> l.tree, right |-> r.tree]],
                      found |-> (IF hit THEN <<n.point>> ELSE <<>>) \o l.found \o r.found]
           F(f, t) ==
             IF t = None THEN [tree |-> None, found |-> <<>>]
             ELSE Q(Push_Down(t), f[Push_Down(t).son["left"]], f[Push_Down(t).son["right"]])
           Eq(f) == f = [t \in Trees |-> F(f, t)]
           D == CHOOSE f : Eq(f)
<1>0. \A t : Search_by_range(t, box) = D[t]
  BY DEF Search_by_range
<1>1. /\ base \in V
      /\ \A n \in TreeNodes : \A a, b \in V : G(n, a, b) \in V
  <2>1. base \in V
    BY TreesAre DEF FindResults
  <2>2. ASSUME NEW n \in TreeNodes, NEW a \in V, NEW b \in V
        PROVE  G(n, a, b) \in V
    <3>1. Push_Down(n) \in TreeNodes
      BY PushDownType
    <3> QED
      BY <3>1, FindInType DEF RangeIn
  <2> QED
    BY <2>1, <2>2
<1>2. ASSUME NEW n, NEW l, NEW r
      PROVE  Q(n, l, r) = RangeIn(n, l, r, box)
  BY DEF RangeIn, FindIn, WithSons, Two
<1> HIDE DEF Q
<1>3. \A f : F(f, None) = base /\ \A n \in TreeNodes :
        F(f, n) = G(n, f[Son(n, "left")], f[Son(n, "right")])
  <2>1. \A n \in TreeNodes : n # None
    BY NoneIsNoNode
  <2> HIDE DEF V, step, D
  <2> QED
    BY <1>2, <2>1 DEF Son
<1> HIDE DEF V, base, G, F
<1>4. PICK f : FoldsTree(f, V, base, step)
  <2>1. TreeStep(V, step)
    BY <1>1 DEF TreeStep
  <2> HIDE DEF step
  <2> QED
    BY <1>1, <2>1, TreeRecursion
<1>5. Eq(f)
  <2>1. \A n \in TreeNodes : f[n] = G(n, f[Son(n, "left")], f[Son(n, "right")])
    <3> TAKE n \in TreeNodes
    <3>1. Son(n, "left") \in Trees /\ Son(n, "right") \in Trees
      BY SonType DEF Side
    <3>2. f[Son(n, "left")] \in V /\ f[Son(n, "right")] \in V
      BY <1>4, <3>1 DEF FoldsTree
    <3> QED
      BY <1>4, <3>2 DEF FoldsTree
  <2>2. \A t \in Trees : f[t] = F(f, t)
    BY <1>3, <1>4, <2>1, TreesAre DEF FoldsTree
  <2>3. f = [t \in Trees |-> f[t]]
    BY <1>4 DEF FoldsTree
  <2> QED
    BY <2>2, <2>3
<1>6. Eq(D)
  <2> HIDE DEF Eq
  <2> QED
    BY <1>5
<1> HIDE DEF D
<1>7. /\ D[None] = base
      /\ \A n \in TreeNodes : D[n] = G(n, D[Son(n, "left")], D[Son(n, "right")])
      /\ D = [t \in Trees |-> D[t]]
  BY <1>3, <1>6, TreesAre
<1>8. D \in [Trees -> V]
  <2>1. \A n \in TreeNodes : D[Son(n, "left")] \in V /\ D[Son(n, "right")] \in V => D[n] \in V
    BY <1>1, <1>7
  <2> QED
    BY <1>1, <1>7, <2>1, TreeTyped
<1> QED
  BY <1>0, <1>7, <1>8 DEF V, G, base

LEMMA SearchByRadiusIs ==
  ASSUME AnyHeight, NEW p, NEW rad
  PROVE  /\ \A t \in Trees : Search_by_radius(t, p, rad) \in FindResults
         /\ Search_by_radius(None, p, rad) = [tree |-> None, found |-> <<>>]
         /\ \A t \in TreeNodes :
              Search_by_radius(t, p, rad)
                = RadiusIn(Push_Down(t), Search_by_radius(Son(t, "left"), p, rad),
                           Search_by_radius(Son(t, "right"), p, rad), p, rad)
<1> DEFINE V == FindResults
           base == [tree |-> None, found |-> <<>>]
           G(n, a, b) == RadiusIn(Push_Down(n), a, b, p, rad)
           step == [n \in TreeNodes |-> [a \in V |-> [b \in V |-> G(n, a, b)]]]
           Q(n, l, r) ==
             LET hit == ~n.point_deleted /\ SquareDist(n.point, p) <= rad * rad
             IN IF BallOutside(n, p, rad) THEN [tree |-> n, found |-> <<>>]
                ELSE IF BallInside(n, p, rad) THEN [tree |-> PushAll[n], found |-> flatten[n]]
                ELSE [tree |-> [n EXCEPT !.son = [left |-> l.tree, right |-> r.tree]],
                      found |-> (IF hit THEN <<n.point>> ELSE <<>>) \o l.found \o r.found]
           F(f, t) ==
             IF t = None THEN [tree |-> None, found |-> <<>>]
             ELSE Q(Push_Down(t), f[Push_Down(t).son["left"]], f[Push_Down(t).son["right"]])
           Eq(f) == f = [t \in Trees |-> F(f, t)]
           D == CHOOSE f : Eq(f)
<1>0. \A t : Search_by_radius(t, p, rad) = D[t]
  BY DEF Search_by_radius
<1>1. /\ base \in V
      /\ \A n \in TreeNodes : \A a, b \in V : G(n, a, b) \in V
  <2>1. base \in V
    BY TreesAre DEF FindResults
  <2>2. ASSUME NEW n \in TreeNodes, NEW a \in V, NEW b \in V
        PROVE  G(n, a, b) \in V
    <3>1. Push_Down(n) \in TreeNodes
      BY PushDownType
    <3> QED
      BY <3>1, FindInType DEF RadiusIn
  <2> QED
    BY <2>1, <2>2
<1>2. ASSUME NEW n, NEW l, NEW r
      PROVE  Q(n, l, r) = RadiusIn(n, l, r, p, rad)
  BY DEF RadiusIn, FindIn, WithSons, Two
<1> HIDE DEF Q
<1>3. \A f : F(f, None) = base /\ \A n \in TreeNodes :
        F(f, n) = G(n, f[Son(n, "left")], f[Son(n, "right")])
  <2>1. \A n \in TreeNodes : n # None
    BY NoneIsNoNode
  <2> HIDE DEF V, step, D
  <2> QED
    BY <1>2, <2>1 DEF Son
<1> HIDE DEF V, base, G, F
<1>4. PICK f : FoldsTree(f, V, base, step)
  <2>1. TreeStep(V, step)
    BY <1>1 DEF TreeStep
  <2> HIDE DEF step
  <2> QED
    BY <1>1, <2>1, TreeRecursion
<1>5. Eq(f)
  <2>1. \A n \in TreeNodes : f[n] = G(n, f[Son(n, "left")], f[Son(n, "right")])
    <3> TAKE n \in TreeNodes
    <3>1. Son(n, "left") \in Trees /\ Son(n, "right") \in Trees
      BY SonType DEF Side
    <3>2. f[Son(n, "left")] \in V /\ f[Son(n, "right")] \in V
      BY <1>4, <3>1 DEF FoldsTree
    <3> QED
      BY <1>4, <3>2 DEF FoldsTree
  <2>2. \A t \in Trees : f[t] = F(f, t)
    BY <1>3, <1>4, <2>1, TreesAre DEF FoldsTree
  <2>3. f = [t \in Trees |-> f[t]]
    BY <1>4 DEF FoldsTree
  <2> QED
    BY <2>2, <2>3
<1>6. Eq(D)
  <2> HIDE DEF Eq
  <2> QED
    BY <1>5
<1> HIDE DEF D
<1>7. /\ D[None] = base
      /\ \A n \in TreeNodes : D[n] = G(n, D[Son(n, "left")], D[Son(n, "right")])
      /\ D = [t \in Trees |-> D[t]]
  BY <1>3, <1>6, TreesAre
<1>8. D \in [Trees -> V]
  <2>1. \A n \in TreeNodes : D[Son(n, "left")] \in V /\ D[Son(n, "right")] \in V => D[n] \in V
    BY <1>1, <1>7
  <2> QED
    BY <1>1, <1>7, <2>1, TreeTyped
<1> QED
  BY <1>0, <1>7, <1>8 DEF V, G, base

(* The heap of a search stays a sequence of points.                        *)
LEMMA KeepClosestIs ==
  ASSUME NEW q \in Seq(Points), NEW p \in Points, NEW k \in Nat \ {0}, NEW at
  PROVE  KeepClosest(q, p, k, at) \in Seq(Points)
<1> DEFINE d == SquareDist(p, at)
           rest == IF Len(q) >= k THEN Front(q) ELSE q
           near == {i \in DOMAIN rest : SquareDist(rest[i], at) <= d}
           closer == Cardinality(near)
<1>1. rest \in Seq(Points)
  <2>1. Len(q) \in Nat
    OBVIOUS
  <2>2. CASE Len(q) >= k
    <3>1. Len(q) - 1 \in Nat /\ Len(q) - 1 <= Len(q)
      BY <2>1, <2>2
    <3>2. SubSeq(q, 1, Len(q) - 1) \in Seq(Points)
      BY <3>1
    <3> QED
      BY <2>2, <3>2 DEF Front
  <2>3. CASE ~(Len(q) >= k)
    BY <2>3
  <2> QED
    BY <2>2, <2>3
<1> HIDE DEF rest
<1>2. closer \in Nat /\ closer <= Len(rest) /\ Len(rest) \in Nat
  <2>1. DOMAIN rest = 1..Len(rest) /\ Len(rest) \in Nat
    BY <1>1
  <2>2. near \in SUBSET (1..Len(rest))
    BY <2>1
  <2> HIDE DEF near
  <2>3. IsFiniteSet(1..Len(rest)) /\ Cardinality(1..Len(rest)) = Len(rest)
    <3> DEFINE m == Len(rest)
    <3>1. m \in Nat
      BY <2>1
    <3> HIDE DEF m
    <3>2. IsFiniteSet(1..m) /\ Cardinality(1..m) = IF 1 > m THEN 0 ELSE m - 1 + 1
      BY ONLY <3>1, FS_Interval
    <3>3. Cardinality(1..m) = m
      BY ONLY <3>1, <3>2
    <3> QED
      BY <3>2, <3>3 DEF m
  <2>4. IsFiniteSet(near) /\ Cardinality(near) <= Cardinality(1..Len(rest))
    BY <2>2, <2>3, FS_Subset
  <2>5. Cardinality(near) \in Nat
    BY <2>4, FS_CardinalityType
  <2> QED
    BY <2>1, <2>3, <2>4, <2>5
<1>3. KeepClosest(q, p, k, at) =
        IF Len(q) < k \/ d < Top(q, at)
        THEN SubSeq(rest, 1, closer) \o <<p>> \o SubSeq(rest, closer + 1, Len(rest))
        ELSE q
  BY DEF KeepClosest, rest
<1> HIDE DEF closer, d
<1>4. SubSeq(rest, 1, closer) \in Seq(Points) /\ SubSeq(rest, closer + 1, Len(rest)) \in Seq(Points)
  BY <1>1, <1>2
<1>5. SubSeq(rest, 1, closer) \o <<p>> \o SubSeq(rest, closer + 1, Len(rest)) \in Seq(Points)
  BY <1>4
<1> QED
  BY <1>3, <1>5

(* A search for the nearest points, from what it makes of the sons.        *)
Visits == [tree : Trees, q : Seq(Points)]

Nearer(n, q, k, at) ==
  LET dist == [s \in Side |-> calc_box_dist(n.son[s], at)]
      both == Len(q) < k \/ \A s \in Side : dist[s] < Top(q, at)
  IN IF both /\ dist["left"] > dist["right"] THEN "right" ELSE "left"
Other(s) == IF s = "left" THEN "right" ELSE "left"

Enter(n, v, s, h, k, at) ==
  LET dist == [x \in Side |-> calc_box_dist(n.son[x], at)]
  IN IF WorthVisiting(h, k, dist[s], at) THEN v[h] ELSE [tree |-> n.son[s], q |-> h]

WithBoth(n, s, a, b) == [n EXCEPT !.son[s] = a, !.son[Other(s)] = b]

VisitIn(n, v, q, k, at) ==
  LET q0 == IF n.point_deleted THEN q ELSE KeepClosest(q, n.point, k, at)
      s == Nearer(n, q0, k, at)
      a == Enter(n, v[s], s, q0, k, at)
      b == Enter(n, v[Other(s)], Other(s), a.q, k, at)
  IN [tree |-> WithBoth(n, s, a.tree, b.tree), q |-> b.q]

LEMMA SidesAre ==
  ASSUME NEW n, NEW q, NEW k, NEW at, NEW s \in Side
  PROVE  /\ Nearer(n, q, k, at) \in Side
         /\ Other(s) \in Side /\ Other(s) # s
         /\ \A x \in Side : x = s \/ x = Other(s)
BY DEF Nearer, Other, Side

LEMMA WithBothIs ==
  ASSUME NEW n \in TreeNodes, NEW s \in Side, NEW a \in Trees, NEW b \in Trees
  PROVE  LET f == [x \in Side |-> IF x = s THEN a ELSE b]
         IN /\ f \in [Side -> Trees]
            /\ WithBoth(n, s, a, b) = WithSons(n, f)
            /\ WithBoth(n, s, a, b) \in TreeNodes
<1> DEFINE f == [x \in Side |-> IF x = s THEN a ELSE b]
<1>1. n.son \in [Side -> Trees] /\ Other(s) \in Side /\ Other(s) # s
      /\ \A x \in Side : x = s \/ x = Other(s)
  BY SidesAre DEF TreeNodes, NodesOver
<1>2. [[n.son EXCEPT ![s] = a] EXCEPT ![Other(s)] = b] = f
  <2> DEFINE o == Other(s)
  <2> HIDE DEF o
  <2>1. o \in Side /\ o # s /\ \A x \in Side : x = s \/ x = o
    BY <1>1 DEF o
  <2>2. [[n.son EXCEPT ![s] = a] EXCEPT ![o] = b] = f
    BY <1>1, <2>1
  <2> QED
    BY <2>2 DEF o
<1>3. WithBoth(n, s, a, b) = WithSons(n, [[n.son EXCEPT ![s] = a] EXCEPT ![Other(s)] = b])
  BY DEF WithBoth, WithSons, TreeNodes, NodesOver
<1>4. f \in [Side -> Trees]
  OBVIOUS
<1> HIDE DEF f
<1>5. WithBoth(n, s, a, b) = WithSons(n, f)
  BY <1>2, <1>3
<1>6. WithSons(n, f) \in TreeNodes
  BY <1>4, WithSonsIs
<1> QED
  BY <1>4, <1>5, <1>6 DEF f

LEMMA EnterType ==
  ASSUME NEW n \in TreeNodes, NEW s \in Side, NEW h \in Seq(Points), NEW k, NEW at,
         NEW v \in [Seq(Points) -> Visits]
  PROVE  /\ Enter(n, v, s, h, k, at) \in Visits
         /\ Enter(n, v, s, h, k, at) = v[h] \/ Enter(n, v, s, h, k, at).tree = n.son[s]
<1>1. n.son[s] \in Trees
  BY DEF TreeNodes, NodesOver
<1>2. v[h] \in Visits /\ [tree |-> n.son[s], q |-> h] \in Visits
  BY <1>1 DEF Visits
<1>3. Enter(n, v, s, h, k, at) = v[h] \/ Enter(n, v, s, h, k, at) = [tree |-> n.son[s], q |-> h]
  BY DEF Enter
<1> QED
  BY <1>2, <1>3

(* What a visit makes of a node: each son is left, or as its visit left it. *)
LEMMA VisitInIs ==
  ASSUME AnyHeight, NEW n \in TreeNodes, NEW v \in [Side -> [Seq(Points) -> Visits]],
         NEW q \in Seq(Points), NEW k \in Nat \ {0}, NEW at
  PROVE  /\ VisitIn(n, v, q, k, at) \in Visits
         /\ \E f \in [Side -> Trees] :
              /\ VisitIn(n, v, q, k, at).tree = WithSons(n, f)
              /\ \A s \in Side : \/ f[s] = n.son[s]
                                 \/ \E h \in Seq(Points) : f[s] = v[s][h].tree
<1> DEFINE q0 == IF n.point_deleted THEN q ELSE KeepClosest(q, n.point, k, at)
           s == Nearer(n, q0, k, at)
           a == Enter(n, v[s], s, q0, k, at)
           b == Enter(n, v[Other(s)], Other(s), a.q, k, at)
           f == [x \in Side |-> IF x = s THEN a.tree ELSE b.tree]
<1>1. q0 \in Seq(Points)
  BY KeepClosestIs DEF TreeNodes, NodesOver
<1>2. VisitIn(n, v, q, k, at) = [tree |-> WithBoth(n, s, a.tree, b.tree), q |-> b.q]
  BY DEF VisitIn
<1> HIDE DEF q0
<1>3. s \in Side /\ Other(s) \in Side /\ Other(s) # s /\ \A x \in Side : x = s \/ x = Other(s)
  <2>1. s \in Side
    BY DEF Nearer, Side
  <2> HIDE DEF s
  <2> QED
    BY <2>1, SidesAre
<1> HIDE DEF s
<1>4. v[s] \in [Seq(Points) -> Visits] /\ v[Other(s)] \in [Seq(Points) -> Visits]
  BY <1>3
<1>5. a \in Visits /\ (a = v[s][q0] \/ a.tree = n.son[s])
  BY <1>1, <1>3, <1>4, EnterType
<1> HIDE DEF a
<1>6. a.q \in Seq(Points) /\ a.tree \in Trees
  BY <1>5 DEF Visits
<1>7. b \in Visits /\ (b = v[Other(s)][a.q] \/ b.tree = n.son[Other(s)])
  BY <1>3, <1>4, <1>6, EnterType
<1> HIDE DEF b
<1>8. b.q \in Seq(Points) /\ b.tree \in Trees
  BY <1>7 DEF Visits
<1>9. /\ f \in [Side -> Trees]
      /\ WithBoth(n, s, a.tree, b.tree) = WithSons(n, f)
      /\ WithBoth(n, s, a.tree, b.tree) \in TreeNodes
  BY <1>3, <1>6, <1>8, WithBothIs
<1>10. VisitIn(n, v, q, k, at) \in Visits
  <2>1. WithBoth(n, s, a.tree, b.tree) \in Trees
    BY <1>9, TreesAre
  <2> QED
    BY <1>2, <1>8, <2>1 DEF Visits
<1>11. \A x \in Side : f[x] = n.son[x] \/ \E h \in Seq(Points) : f[x] = v[x][h].tree
  <2>1. f[s] = a.tree /\ f[Other(s)] = b.tree
    BY <1>3
  <2> HIDE DEF f
  <2>2. f[s] = n.son[s] \/ \E h \in Seq(Points) : f[s] = v[s][h].tree
    BY <1>1, <1>5, <2>1
  <2>3. f[Other(s)] = n.son[Other(s)] \/ \E h \in Seq(Points) : f[Other(s)] = v[Other(s)][h].tree
    BY <1>6, <1>7, <2>1
  <2> QED
    BY <1>3, <2>2, <2>3
<1>12. VisitIn(n, v, q, k, at).tree = WithSons(n, f)
  BY <1>2, <1>9
<1> HIDE DEF f
<1> QED
  BY <1>9, <1>10, <1>11, <1>12

(* What a search leaves of a node.                                         *)
SearchStep(t, k, at, q) ==
  \/ Search(t, k, at, q) = [tree |-> t, q |-> q]
  \/ \E f \in [Side -> Trees] :
       /\ Search(t, k, at, q).tree = WithSons(Push_Down(t), f)
       /\ \A s \in Side : \/ f[s] = Son(t, s)
                          \/ \E h \in Seq(Points) : f[s] = Search(Son(t, s), k, at, h).tree

(* The searches of the sons, and a search of a node from them.             *)
SonSearches(t, k, at) == [s \in Side |-> [h \in Seq(Points) |-> Search(Son(t, s), k, at, h)]]
Searched(t, k, at, q) ==
  Search(t, k, at, q) = IF t.tree_deleted THEN [tree |-> t, q |-> q]
                        ELSE VisitIn(Push_Down(t), SonSearches(t, k, at), q, k, at)

LEMMA SearchIs ==
  ASSUME AnyHeight, NEW k \in Nat \ {0}, NEW at
  PROVE  /\ \A t \in Trees : \A q \in Seq(Points) : Search(t, k, at, q) \in Visits
         /\ \A q \in Seq(Points) : Search(None, k, at, q) = [tree |-> None, q |-> q]
         /\ \A t \in TreeNodes : \A q \in Seq(Points) : SearchStep(t, k, at, q)
         /\ \A t \in TreeNodes : \A q \in Seq(Points) : Searched(t, k, at, q)
<1> DEFINE Z == Seq(Points)
           V == [Z -> Visits]
           base == [q \in Z |-> [tree |-> None, q |-> q]]
           G(t, a, b) ==
             [q \in Z |-> IF t.tree_deleted THEN [tree |-> t, q |-> q]
                          ELSE VisitIn(Push_Down(t), Two(a, b), q, k, at)]
           step == [n \in TreeNodes |-> [a \in V |-> [b \in V |-> G(n, a, b)]]]
           Q(n, v, q) ==
             LET q0 == IF n.point_deleted THEN q ELSE KeepClosest(q, n.point, k, at)
                 dist == [s \in Side |-> calc_box_dist(n.son[s], at)]
                 both == Len(q0) < k \/ \A s \in Side : dist[s] < Top(q0, at)
                 first == IF both /\ dist["left"] > dist["right"] THEN "right" ELSE "left"
                 second == IF first = "left" THEN "right" ELSE "left"
                 In(s, h) == IF WorthVisiting(h, k, dist[s], at)
                             THEN v[n.son[s]][h] ELSE [tree |-> n.son[s], q |-> h]
                 a == In(first, q0)
                 b == In(second, a.q)
             IN [tree |-> [n EXCEPT !.son[first] = a.tree, !.son[second] = b.tree], q |-> b.q]
           F(f, t) ==
             [q \in Z |-> IF t = None \/ t.tree_deleted THEN [tree |-> t, q |-> q]
                          ELSE Q(Push_Down(t), f, q)]
           Eq(f) == f = [t \in Trees |-> F(f, t)]
           D == CHOOSE f : Eq(f)
<1>0. \A t, q : Search(t, k, at, q) = D[t][q]
  BY DEF Search
<1>c. \A n \in TreeNodes : Push_Down(n) \in TreeNodes /\ n # None /\ n \in Trees
  BY PushDownType, NoneIsNoNode, TreesAre
<1>1. /\ base \in V
      /\ \A n \in TreeNodes : \A a, b \in V : G(n, a, b) \in V
  <2>1. base \in V
    BY TreesAre DEF Visits
  <2>2. ASSUME NEW n \in TreeNodes, NEW a \in V, NEW b \in V
        PROVE  G(n, a, b) \in V
    <3>1. Two(a, b) \in [Side -> V]
      <4> HIDE DEF V
      <4> QED
        BY TwoIs
    <3>2. ASSUME NEW q \in Z
          PROVE  VisitIn(Push_Down(n), Two(a, b), q, k, at) \in Visits
      BY <1>c, <3>1, VisitInIs
    <3>3. \A q \in Z : [tree |-> n, q |-> q] \in Visits
      BY <1>c DEF Visits
    <3> HIDE DEF Z
    <3> QED
      BY <3>2, <3>3
  <2> QED
    BY <2>1, <2>2
<1>2. ASSUME NEW n, NEW f, NEW q, NEW v, \A s \in Side : v[s] = f[n.son[s]]
      PROVE  Q(n, f, q) = VisitIn(n, v, q, k, at)
  <2> DEFINE q0 == IF n.point_deleted THEN q ELSE KeepClosest(q, n.point, k, at)
             dist == [s \in Side |-> calc_box_dist(n.son[s], at)]
             s == Nearer(n, q0, k, at)
             In(x, h) == IF WorthVisiting(h, k, dist[x], at)
                         THEN f[n.son[x]][h] ELSE [tree |-> n.son[x], q |-> h]
             a == In(s, q0)
             b == In(Other(s), a.q)
  <2>1. Q(n, f, q) = [tree |-> WithBoth(n, s, a.tree, b.tree), q |-> b.q]
    BY DEF WithBoth, Nearer, Other
  <2>2. VisitIn(n, v, q, k, at) =
          LET aa == Enter(n, v[s], s, q0, k, at)
              bb == Enter(n, v[Other(s)], Other(s), aa.q, k, at)
          IN [tree |-> WithBoth(n, s, aa.tree, bb.tree), q |-> bb.q]
    BY DEF VisitIn
  <2> HIDE DEF q0, s
  <2>3. s \in Side /\ Other(s) \in Side
    BY DEF Nearer, Other, Side, s
  <2>4. \A x \in Side : \A h : In(x, h) = Enter(n, v[x], x, h, k, at)
    <3> TAKE x \in Side
    <3>1. v[x] = f[n.son[x]]
      BY <1>2
    <3> QED
      BY <3>1 DEF Enter
  <2> HIDE DEF In, Q
  <2>5. a = Enter(n, v[s], s, q0, k, at) /\ b = Enter(n, v[Other(s)], Other(s), a.q, k, at)
    BY <2>3, <2>4
  <2> HIDE DEF a, b
  <2> QED
    BY <2>1, <2>2, <2>5
<1> HIDE DEF Q
<1>3. \A f : F(f, None) = base /\ \A n \in TreeNodes :
        F(f, n) = G(n, f[Son(n, "left")], f[Son(n, "right")])
  <2> TAKE f
  <2>1. F(f, None) = base
    OBVIOUS
  <2>2. ASSUME NEW t \in TreeNodes
        PROVE  F(f, t) = G(t, f[Son(t, "left")], f[Son(t, "right")])
    <3> DEFINE v == Two(f[Son(t, "left")], f[Son(t, "right")])
    <3>1. \A s \in Side : v[s] = f[Push_Down(t).son[s]]
      BY DEF Side, Two, Son
    <3> HIDE DEF v
    <3>2. \A q : Q(Push_Down(t), f, q) = VisitIn(Push_Down(t), v, q, k, at)
      BY <1>2, <3>1
    <3>3. t # None
      BY <1>c
    <3> HIDE DEF Z
    <3> QED
      BY <3>2, <3>3 DEF v
  <2> HIDE DEF F, G
  <2> QED
    BY <2>1, <2>2
<1> HIDE DEF V, base, G, F
<1>4. PICK w : FoldsTree(w, V, base, step)
  <2>1. TreeStep(V, step)
    BY <1>1 DEF TreeStep
  <2> HIDE DEF step
  <2> QED
    BY <1>1, <2>1, TreeRecursion
<1>5. Eq(w)
  <2>1. \A n \in TreeNodes : w[n] = G(n, w[Son(n, "left")], w[Son(n, "right")])
    <3> TAKE n \in TreeNodes
    <3>1. Son(n, "left") \in Trees /\ Son(n, "right") \in Trees
      BY SonType DEF Side
    <3>2. w[Son(n, "left")] \in V /\ w[Son(n, "right")] \in V
      BY <1>4, <3>1 DEF FoldsTree
    <3> QED
      BY <1>4, <3>2 DEF FoldsTree
  <2>2. \A t \in Trees : w[t] = F(w, t)
    BY <1>3, <1>4, <2>1, TreesAre DEF FoldsTree
  <2>3. w = [t \in Trees |-> w[t]]
    BY <1>4 DEF FoldsTree
  <2> QED
    BY <2>2, <2>3
<1>6. Eq(D)
  <2> HIDE DEF Eq
  <2> QED
    BY <1>5
<1> HIDE DEF D
<1>7. /\ D[None] = base
      /\ \A n \in TreeNodes : D[n] = G(n, D[Son(n, "left")], D[Son(n, "right")])
      /\ D = [t \in Trees |-> D[t]]
  BY <1>3, <1>6, TreesAre
<1>8. D \in [Trees -> V]
  <2>1. \A n \in TreeNodes : D[Son(n, "left")] \in V /\ D[Son(n, "right")] \in V => D[n] \in V
    BY <1>1, <1>7
  <2> QED
    BY <1>1, <1>7, <2>1, TreeTyped
<1>9. \A t \in Trees : \A q \in Seq(Points) : Search(t, k, at, q) \in Visits
  BY <1>0, <1>8 DEF V
<1>10. \A q \in Seq(Points) : Search(None, k, at, q) = [tree |-> None, q |-> q]
  <2> TAKE q \in Seq(Points)
  <2>1. base[q] = [tree |-> None, q |-> q]
    BY DEF base
  <2>2. Search(None, k, at, q) = D[None][q] /\ D[None] = base
    BY <1>0, <1>7
  <2> QED
    BY ONLY <2>1, <2>2
<1>11. ASSUME NEW t \in TreeNodes, NEW q \in Seq(Points)
       PROVE  \/ Search(t, k, at, q) = [tree |-> t, q |-> q]
              \/ \E f \in [Side -> Trees] :
                   /\ Search(t, k, at, q).tree = WithSons(Push_Down(t), f)
                   /\ \A s \in Side : \/ f[s] = Son(t, s)
                                      \/ \E h \in Seq(Points) : f[s] = Search(Son(t, s), k, at, h).tree
  <2> DEFINE v == Two(D[Son(t, "left")], D[Son(t, "right")])
  <2>1. D[t][q] = IF t.tree_deleted THEN [tree |-> t, q |-> q] ELSE VisitIn(Push_Down(t), v, q, k, at)
    BY <1>7 DEF G
  <2>2. CASE t.tree_deleted
    BY <1>0, <2>1, <2>2
  <2>3. CASE ~t.tree_deleted
    <3>1. Son(t, "left") \in Trees /\ Son(t, "right") \in Trees
      BY SonType DEF Side
    <3>2. D[Son(t, "left")] \in V /\ D[Son(t, "right")] \in V
      BY <1>8, <3>1
    <3>3. v \in [Side -> V]
      BY <3>2, TwoIs
    <3>4. v \in [Side -> [Seq(Points) -> Visits]]
      BY <3>3 DEF V
    <3>5. \A s \in Side : v[s] = D[Son(t, s)]
      BY DEF Two, Side
    <3> HIDE DEF v
    <3>6. PICK f \in [Side -> Trees] :
            /\ VisitIn(Push_Down(t), v, q, k, at).tree = WithSons(Push_Down(t), f)
            /\ \A s \in Side : \/ f[s] = Push_Down(t).son[s]
                               \/ \E h \in Seq(Points) : f[s] = v[s][h].tree
      <4> DEFINE n == Push_Down(t)
      <4>1. n \in TreeNodes
        BY <1>c
      <4> HIDE DEF n, V, G, step, Eq
      <4>2. PICK f \in [Side -> Trees] :
              /\ VisitIn(n, v, q, k, at).tree = WithSons(n, f)
              /\ \A s \in Side : f[s] = n.son[s] \/ \E h \in Seq(Points) : f[s] = v[s][h].tree
        BY ONLY AnyHeight, <3>4, <4>1, VisitInIs, q \in Seq(Points), k \in Nat \ {0}
      <4> QED
        BY <4>2 DEF n
    <3>7. Search(t, k, at, q).tree = WithSons(Push_Down(t), f)
      BY <1>0, <2>1, <2>3, <3>6
    <3>8. \A s \in Side : \/ f[s] = Son(t, s)
                          \/ \E h \in Seq(Points) : f[s] = Search(Son(t, s), k, at, h).tree
      BY <1>0, <3>5, <3>6 DEF Son
    <3> QED
      BY <3>7, <3>8
  <2> QED
    BY <2>2, <2>3
<1>12. \A t \in TreeNodes : \A q \in Seq(Points) : SearchStep(t, k, at, q)
  <2> HIDE DEF step
  <2> QED
    BY <1>11 DEF SearchStep
<1> HIDE DEF step
<1>13. \A t \in TreeNodes : \A q \in Seq(Points) : Searched(t, k, at, q)
  <2> TAKE t \in TreeNodes
  <2> TAKE q \in Seq(Points)
  <2> DEFINE v == Two(D[Son(t, "left")], D[Son(t, "right")])
  <2>1. D[t][q] = IF t.tree_deleted THEN [tree |-> t, q |-> q] ELSE VisitIn(Push_Down(t), v, q, k, at)
    BY <1>7 DEF G
  <2>2. \A s \in Side : D[Son(t, s)] = [h \in Seq(Points) |-> Search(Son(t, s), k, at, h)]
    <3> TAKE s \in Side
    <3>1. D[Son(t, s)] \in V
      BY <1>8, SonType
    <3>2. D[Son(t, s)] = [h \in Seq(Points) |-> D[Son(t, s)][h]]
      BY <3>1 DEF V
    <3> QED
      BY <1>0, <3>2
  <2>3. v = SonSearches(t, k, at)
    <3>1. v = [s \in Side |-> D[Son(t, s)]]
      BY DEF Two, Side
    <3> HIDE DEF v
    <3> QED
      BY <2>2, <3>1 DEF SonSearches
  <2> HIDE DEF v
  <2>4. Search(t, k, at, q) = D[t][q]
    BY <1>0
  <2> QED
    BY ONLY <2>1, <2>3, <2>4 DEF Searched
<1> QED
  BY <1>9, <1>10, <1>12, <1>13

-----------------------------------------------------------------------------
(***************************************************************************)
(* The nodes of a tree, flags not pushed down.                             *)
(***************************************************************************)
LEMMA NodesIs ==
  ASSUME AnyHeight
  PROVE  /\ Nodes \in [Trees -> SUBSET TreeNodes]
         /\ Nodes[None] = {}
         /\ \A n \in TreeNodes :
              Nodes[n] = {n} \cup Nodes[n.son["left"]] \cup Nodes[n.son["right"]]
<1> DEFINE V == SUBSET TreeNodes
           h == [t \in Trees |-> Height(t)]
           F(f, t) == IF t = None THEN {} ELSE {t} \cup f[t.son["left"]] \cup f[t.son["right"]]
           step == [t \in Trees |-> [f \in [Trees -> V] |-> F(f, t)]]
           Eq(f) == f = [t \in Trees |-> F(f, t)]
<1>1. h \in [Trees -> Nat]
  BY HeightIs
<1>2. \A t \in Trees : t # None =>
        /\ t \in TreeNodes
        /\ t.son["left"] \in Trees /\ h[t.son["left"]] < h[t]
        /\ t.son["right"] \in Trees /\ h[t.son["right"]] < h[t]
  <2> TAKE t \in Trees
  <2> HAVE t # None
  <2>1. t \in TreeNodes
    BY TreesAre
  <2>2. "left" \in Side /\ "right" \in Side
    BY DEF Side
  <2>3. t.son["left"] \in Trees /\ t.son["right"] \in Trees
    BY <2>1, <2>2 DEF TreeNodes, NodesOver
  <2> QED
    BY <2>1, <2>2, <2>3, SonsAreLower
<1> HIDE DEF h
<1>3. ASSUME NEW t \in Trees, NEW f, t # None => f[t.son["left"]] \in V /\ f[t.son["right"]] \in V
      PROVE  F(f, t) \in V
  BY <1>2, <1>3
<1>4. \A f, g : \A t \in Trees :
        (\A m \in Trees : h[m] < h[t] => f[m] = g[m]) => F(f, t) = F(g, t)
  <2> TAKE f, g
  <2> TAKE t \in Trees
  <2> HAVE \A m \in Trees : h[m] < h[t] => f[m] = g[m]
  <2>1. CASE t = None
    BY <2>1
  <2>2. CASE t # None
    <3>1. f[t.son["left"]] = g[t.son["left"]] /\ f[t.son["right"]] = g[t.son["right"]]
      BY <1>2, <2>2
    <3> QED
      BY <3>1
  <2> QED
    BY <2>1, <2>2
<1>5. \A f : F(f, None) = {} /\ \A n \in TreeNodes :
        F(f, n) = {n} \cup f[n.son["left"]] \cup f[n.son["right"]]
  BY NoneIsNoNode
<1>6. {} \in V
  OBVIOUS
<1> HIDE DEF V, F
<1>7. PICK f : Solves(f, Trees, V, step)
  <2>1. step \in [Trees -> [[Trees -> V] -> V]]
    <3>1. ASSUME NEW t \in Trees, NEW f \in [Trees -> V]
          PROVE  F(f, t) \in V
      <4>1. t # None => f[t.son["left"]] \in V /\ f[t.son["right"]] \in V
        BY <1>2
      <4> QED
        BY <1>3, <4>1
    <3> QED
      BY <3>1
  <2>2. \A t \in Trees : \A f, g \in [Trees -> V] :
          (\A m \in Trees : h[m] < h[t] => f[m] = g[m]) => step[t][f] = step[t][g]
    <3> TAKE t \in Trees
    <3> TAKE f, g \in [Trees -> V]
    <3> HAVE \A m \in Trees : h[m] < h[t] => f[m] = g[m]
    <3>1. F(f, t) = F(g, t)
      BY <1>4
    <3> QED
      BY <3>1
  <2> HIDE DEF step
  <2>3. Recursive(Trees, V, h, step)
    BY <1>1, <2>1, <2>2 DEF Recursive
  <2> QED
    BY <1>6, <2>3, RecursionExists
<1>8. Eq(f)
  <2>1. \A t \in Trees : f[t] = F(f, t)
    <3> TAKE t \in Trees
    <3>1. f \in [Trees -> V] /\ f[t] = step[t][f]
      <4> HIDE DEF step
      <4> QED
        BY <1>7 DEF Solves
    <3> QED
      BY <3>1
  <2>2. f = [t \in Trees |-> f[t]]
    <3> HIDE DEF step
    <3> QED
      BY <1>7 DEF Solves
  <2> QED
    BY <2>1, <2>2
<1>9. Eq(Nodes)
  <2>1. Nodes = CHOOSE g : Eq(g)
    BY DEF Nodes, F
  <2> HIDE DEF Eq
  <2> QED
    BY <1>8, <2>1
<1>10. Nodes[None] = {} /\ Nodes = [t \in Trees |-> Nodes[t]] /\ \A t \in Trees : Nodes[t] = F(Nodes, t)
  BY <1>5, <1>9, TreesAre
<1> DEFINE S == {t \in Trees : Nodes[t] \in V}
<1>11. Trees \subseteq S
  <2>1. ASSUME NEW t \in Trees, \A m \in Trees : h[m] < h[t] => m \in S
        PROVE  t \in S
    <3>1. t # None => Nodes[t.son["left"]] \in V /\ Nodes[t.son["right"]] \in V
      BY <1>2, <2>1
    <3>2. F(Nodes, t) \in V
      BY <1>3, <3>1
    <3> QED
      BY <1>10, <3>2
  <2> HIDE DEF S
  <2> QED
    BY <1>1, <2>1, MeasureInduction
<1>12. Nodes \in [Trees -> V]
  BY <1>10, <1>11
<1>13. \A n \in TreeNodes : Nodes[n] = {n} \cup Nodes[n.son["left"]] \cup Nodes[n.son["right"]]
  BY <1>5, <1>10, TreesAre
<1> HIDE DEF step, Eq
<1> QED
  BY <1>10, <1>12, <1>13 DEF V

(***************************************************************************)
(* The invariant of a tree.  The counts of a node are those of its sons    *)
(* once its flags are pushed down, its flags say what the counts say, and a *)
(* flag that is still to be pushed finds the son deleted with the node or  *)
(* without a deleted point: this is what keeps a push from undoing a       *)
(* deletion.                                                               *)
(***************************************************************************)
Size(t) == IF t = None THEN 0 ELSE t.size
Gone(t) == IF t = None THEN 0 ELSE t.invalid
Down(t) == IF t = None THEN 0 ELSE t.down_del

Exact(n) ==
  /\ n.size = 1 + Size(Son(n, "left")) + Size(Son(n, "right"))
  /\ n.invalid = One(n.point_deleted) + Gone(Son(n, "left")) + Gone(Son(n, "right"))
  /\ n.down_del = One(n.point_downsample_deleted) + Down(Son(n, "left")) + Down(Son(n, "right"))
  /\ n.down_del <= n.invalid /\ n.invalid <= n.size
  /\ n.tree_deleted <=> n.invalid = n.size
  /\ n.tree_downsample_deleted <=> n.down_del = n.size
  /\ n.point_downsample_deleted => n.point_deleted
  /\ \A s \in Sons(n) : n.need_push[s] => n.tree_deleted \/ n.son[s].invalid = 0

AllExact(t) == \A n \in Nodes[t] : Exact(n)

LEMMA AllExactIs ==
  ASSUME AnyHeight
  PROVE  /\ AllExact(None)
         /\ \A n \in TreeNodes :
              AllExact(n) <=> Exact(n) /\ AllExact(n.son["left"]) /\ AllExact(n.son["right"])
<1>1. /\ Nodes[None] = {}
      /\ \A n \in TreeNodes : Nodes[n] = {n} \cup Nodes[n.son["left"]] \cup Nodes[n.son["right"]]
  BY NodesIs
<1> QED
  BY <1>1 DEF AllExact

LEMMA CountsAre ==
  ASSUME AnyHeight, NEW t \in Trees
  PROVE  /\ Size(t) \in Nat /\ Gone(t) \in Nat /\ Down(t) \in Nat
         /\ AllExact(t) => /\ Down(t) <= Gone(t) /\ Gone(t) <= Size(t)
                           /\ t # None => /\ Size(t) >= 1
                                          /\ t.tree_deleted <=> Gone(t) = Size(t)
                                          /\ t.tree_downsample_deleted <=> Down(t) = Size(t)
<1>1. CASE t = None
  BY <1>1 DEF Size, Gone, Down
<1>2. CASE t # None
  <2>1. t \in TreeNodes
    BY <1>2, TreesAre
  <2>2. t.size \in Nat /\ t.invalid \in Nat /\ t.down_del \in Nat
    BY <2>1 DEF TreeNodes, NodesOver
  <2>3. Size(t) = t.size /\ Gone(t) = t.invalid /\ Down(t) = t.down_del
    BY <1>2 DEF Size, Gone, Down
  <2>4. \A s \in Side : Size(Son(t, s)) \in Nat
    <3> TAKE s \in Side
    <3>1. Son(t, s) \in Trees
      BY <2>1, SonType
    <3>2. CASE Son(t, s) = None
      BY <3>2 DEF Size
    <3>3. CASE Son(t, s) # None
      <4>1. Son(t, s) \in TreeNodes
        BY <3>1, <3>3, TreesAre
      <4> QED
        BY <3>3, <4>1 DEF Size, TreeNodes, NodesOver
    <3> QED
      BY <3>2, <3>3
  <2>5. AllExact(t) => Exact(t)
    BY <2>1, AllExactIs
  <2>6. Size(Son(t, "left")) \in Nat /\ Size(Son(t, "right")) \in Nat
    BY <2>4 DEF Side
  <2>7. Exact(t) => t.size >= 1
    BY <2>2, <2>6 DEF Exact
  <2>8. Exact(t) => /\ t.down_del <= t.invalid /\ t.invalid <= t.size
                    /\ t.tree_deleted <=> t.invalid = t.size
                    /\ t.tree_downsample_deleted <=> t.down_del = t.size
    BY DEF Exact
  <2> QED
    BY <2>2, <2>3, <2>5, <2>7, <2>8
<1> QED
  BY <1>1, <1>2

(* The counts of a son once the flags are pushed down to it.               *)
LEMMA SonCounts ==
  ASSUME AnyHeight, NEW n \in TreeNodes, NEW s \in Side
  PROVE  /\ Size(Son(n, s)) = Size(n.son[s])
         /\ Gone(Son(n, s)) =
              IF n.need_push[s]
              THEN IF n.tree_deleted \/ n.tree_downsample_deleted THEN Size(n.son[s])
                                                                  ELSE Down(n.son[s])
              ELSE Gone(n.son[s])
         /\ Down(Son(n, s)) =
              IF n.need_push[s] /\ n.tree_downsample_deleted THEN Size(n.son[s])
                                                             ELSE Down(n.son[s])
         /\ n.son[s] \in Trees /\ n.need_push[s] \in BOOLEAN
<1>1. n.son[s] \in Trees /\ n.need_push[s] \in BOOLEAN
  BY DEF TreeNodes, NodesOver
<1>2. Son(n, s) = IF n.son[s] # None /\ n.need_push[s] THEN Pushed(n, n.son[s]) ELSE n.son[s]
  BY PushDownIs DEF Son
<1>3. CASE n.son[s] # None /\ n.need_push[s]
  <2>1. n.son[s] \in TreeNodes
    BY <1>1, <1>3, TreesAre
  <2>2. /\ Pushed(n, n.son[s]) \in TreeNodes
        /\ Pushed(n, n.son[s]).size = n.son[s].size
        /\ Pushed(n, n.son[s]).down_del
             = (IF n.tree_downsample_deleted THEN n.son[s].size ELSE n.son[s].down_del)
        /\ Pushed(n, n.son[s]).invalid
             = (IF n.tree_deleted \/ n.tree_downsample_deleted
                THEN n.son[s].size ELSE n.son[s].down_del)
    BY <2>1, PushedIs
  <2>3. Pushed(n, n.son[s]) # None
    BY <2>2, NoneIsNoNode
  <2> QED
    BY <1>1, <1>2, <1>3, <2>2, <2>3 DEF Size, Gone, Down
<1>4. CASE ~(n.son[s] # None /\ n.need_push[s])
  BY <1>1, <1>2, <1>4 DEF Size, Gone, Down
<1> QED
  BY <1>3, <1>4

(* A flag passed on keeps a node exact.                                    *)
LEMMA PushedExact ==
  ASSUME AnyHeight, NEW op \in TreeNodes, NEW m \in TreeNodes, AllExact(m),
         op.tree_downsample_deleted => op.tree_deleted,
         op.tree_deleted \/ m.invalid = 0
  PROVE  AllExact(Pushed(op, m))
<1> DEFINE x == Pushed(op, m)
           L == m.son["left"]
           R == m.son["right"]
           SL == Son(m, "left")
           SR == Son(m, "right")
           XL == Son(x, "left")
           XR == Son(x, "right")
<1>0. "left" \in Side /\ "right" \in Side
  BY DEF Side
<1>1. Exact(m) /\ AllExact(L) /\ AllExact(R)
  BY AllExactIs
<1>2. /\ x \in TreeNodes /\ x.son = m.son /\ x.size = m.size
      /\ x.need_push["left"] = TRUE /\ x.need_push["right"] = TRUE
      /\ x.tree_downsample_deleted <=> m.tree_downsample_deleted \/ op.tree_downsample_deleted
      /\ x.point_downsample_deleted <=> m.point_downsample_deleted \/ op.tree_downsample_deleted
      /\ x.tree_deleted <=> op.tree_deleted \/ m.tree_downsample_deleted \/ op.tree_downsample_deleted
      /\ x.point_deleted <=> \/ op.tree_deleted \/ m.tree_downsample_deleted
                             \/ op.tree_downsample_deleted \/ m.point_downsample_deleted
      /\ x.down_del = (IF op.tree_downsample_deleted THEN m.size ELSE m.down_del)
      /\ x.invalid = (IF op.tree_deleted \/ op.tree_downsample_deleted THEN m.size ELSE m.down_del)
  <2>1. /\ x \in TreeNodes /\ x.son = m.son /\ x.size = m.size
        /\ x.down_del = (IF op.tree_downsample_deleted THEN m.size ELSE m.down_del)
        /\ x.invalid = (IF op.tree_deleted \/ op.tree_downsample_deleted THEN m.size ELSE m.down_del)
    BY ONLY PushedIs, op \in TreeNodes, m \in TreeNodes
  <2>2. x.need_push = Both(TRUE)
    BY ONLY PushedIs, op \in TreeNodes, m \in TreeNodes
  <2>3. x.need_push["left"] = TRUE /\ x.need_push["right"] = TRUE
    BY <1>0, <2>2 DEF Both
  <2>4. /\ x.tree_downsample_deleted
             = (m.tree_downsample_deleted \/ op.tree_downsample_deleted)
        /\ x.point_downsample_deleted
             = (m.point_downsample_deleted \/ op.tree_downsample_deleted)
        /\ x.tree_deleted
             = (op.tree_deleted \/ m.tree_downsample_deleted \/ op.tree_downsample_deleted)
        /\ x.point_deleted
             = (op.tree_deleted \/ m.tree_downsample_deleted \/ op.tree_downsample_deleted
                  \/ m.point_downsample_deleted)
    BY ONLY PushedIs, op \in TreeNodes, m \in TreeNodes
  <2> HIDE DEF x
  <2> QED
    BY <2>1, <2>3, <2>4
<1> HIDE DEF x
<1>3. /\ Size(L) \in Nat /\ Gone(L) \in Nat /\ Down(L) \in Nat
      /\ Down(L) <= Gone(L) /\ Gone(L) <= Size(L)
      /\ Size(R) \in Nat /\ Gone(R) \in Nat /\ Down(R) \in Nat
      /\ Down(R) <= Gone(R) /\ Gone(R) <= Size(R)
  <2>1. L \in Trees /\ R \in Trees
    BY <1>0, SonCounts
  <2> QED
    BY <1>1, <2>1, CountsAre
<1>4. /\ Size(SL) = Size(L)
      /\ Gone(SL) = IF m.need_push["left"]
                    THEN IF m.tree_deleted \/ m.tree_downsample_deleted THEN Size(L) ELSE Down(L)
                    ELSE Gone(L)
      /\ Down(SL) = IF m.need_push["left"] /\ m.tree_downsample_deleted THEN Size(L) ELSE Down(L)
      /\ Size(SR) = Size(R)
      /\ Gone(SR) = IF m.need_push["right"]
                    THEN IF m.tree_deleted \/ m.tree_downsample_deleted THEN Size(R) ELSE Down(R)
                    ELSE Gone(R)
      /\ Down(SR) = IF m.need_push["right"] /\ m.tree_downsample_deleted THEN Size(R) ELSE Down(R)
  BY <1>0, SonCounts
<1>5. /\ Size(XL) = Size(L)
      /\ Gone(XL) = IF x.tree_deleted \/ x.tree_downsample_deleted THEN Size(L) ELSE Down(L)
      /\ Down(XL) = IF x.tree_downsample_deleted THEN Size(L) ELSE Down(L)
      /\ Size(XR) = Size(R)
      /\ Gone(XR) = IF x.tree_deleted \/ x.tree_downsample_deleted THEN Size(R) ELSE Down(R)
      /\ Down(XR) = IF x.tree_downsample_deleted THEN Size(R) ELSE Down(R)
  <2>1. x.son["left"] = L /\ x.son["right"] = R
    BY <1>2
  <2> HIDE DEF L, R
  <2> QED
    BY <1>0, <1>2, <2>1, SonCounts
<1>6. m.size \in Nat /\ m.invalid \in Nat /\ m.down_del \in Nat
  BY DEF TreeNodes, NodesOver
<1>7. \A s \in Sons(x) : x.tree_deleted \/ x.son[s].invalid = 0
  <2> SUFFICES ASSUME NEW s \in Sons(x), ~x.tree_deleted
               PROVE  x.son[s].invalid = 0
    OBVIOUS
  <2>1. s \in Side /\ m.son[s] # None /\ s \in Sons(m)
    BY <1>2 DEF Sons
  <2>2. m.invalid = 0 /\ ~m.tree_deleted
    <3>1. m.invalid = 0
      BY <1>2
    <3>2. m.size # 0
      BY <1>1, <1>3, <1>4 DEF Exact
    <3> QED
      BY <1>1, <3>1, <3>2 DEF Exact
  <2>3. CASE m.need_push[s]
    <3>1. m.son[s].invalid = 0
      BY <1>1, <2>1, <2>2, <2>3 DEF Exact
    <3> QED
      BY <1>2, <3>1
  <2>4. CASE ~m.need_push[s]
    <3>1. Gone(Son(m, s)) = Gone(m.son[s])
      BY <2>1, <2>4, SonCounts
    <3>2. SL \in Trees /\ SR \in Trees
      BY <1>0, SonType
    <3>3. Gone(SL) \in Nat /\ Gone(SR) \in Nat
      BY <3>2, CountsAre
    <3>4. One(m.point_deleted) \in Nat
      BY DEF One
    <3>5. m.invalid = One(m.point_deleted) + Gone(SL) + Gone(SR)
      BY <1>1 DEF Exact
    <3>6. Gone(SL) = 0 /\ Gone(SR) = 0
      BY <2>2, <3>3, <3>4, <3>5
    <3>7. Gone(Son(m, s)) = 0
      BY <2>1, <3>6 DEF Side
    <3> QED
      BY <1>2, <2>1, <3>1, <3>7 DEF Gone
  <2> QED
    BY <2>3, <2>4
<1> HIDE DEF L, R, SL, SR, XL, XR
<1>8. /\ m.size = 1 + Size(SL) + Size(SR)
      /\ m.invalid = One(m.point_deleted) + Gone(SL) + Gone(SR)
      /\ m.down_del = One(m.point_downsample_deleted) + Down(SL) + Down(SR)
      /\ m.down_del <= m.invalid /\ m.invalid <= m.size
      /\ m.tree_deleted <=> m.invalid = m.size
      /\ m.tree_downsample_deleted <=> m.down_del = m.size
      /\ m.point_downsample_deleted => m.point_deleted
  BY <1>1 DEF Exact, SL, SR
<1>9. /\ x.size = 1 + Size(XL) + Size(XR)
      /\ x.invalid = One(x.point_deleted) + Gone(XL) + Gone(XR)
      /\ x.down_del = One(x.point_downsample_deleted) + Down(XL) + Down(XR)
      /\ x.down_del <= x.invalid /\ x.invalid <= x.size
      /\ x.tree_deleted <=> x.invalid = x.size
      /\ x.tree_downsample_deleted <=> x.down_del = x.size
      /\ x.point_downsample_deleted => x.point_deleted
  <2>1. CASE op.tree_downsample_deleted
    BY ONLY <1>2, <1>3, <1>4, <1>5, <1>6, <1>8, <2>1,
            op.tree_downsample_deleted => op.tree_deleted DEF One
  <2>2. CASE op.tree_deleted /\ ~op.tree_downsample_deleted
    BY ONLY <1>2, <1>3, <1>4, <1>5, <1>6, <1>8, <2>2 DEF One
  <2>3. CASE ~op.tree_deleted
    <3>1. m.invalid = 0 /\ ~op.tree_downsample_deleted
      BY <2>3
    <3>2. ~m.point_deleted /\ ~m.point_downsample_deleted /\ m.size > 0
      <4>1. Gone(SL) \in Nat /\ Gone(SR) \in Nat
        BY ONLY <1>3, <1>4
      <4>2. m.point_deleted => One(m.point_deleted) = 1
        BY ONLY SMT DEF One
      <4>3. ~m.point_deleted
        BY ONLY <1>8, <3>1, <4>1, <4>2
      <4>4. m.size > 0
        BY ONLY <1>3, <1>4, <1>6, <1>8
      <4> QED
        BY ONLY <1>8, <4>3, <4>4
    <3>3. ~m.tree_deleted /\ ~m.tree_downsample_deleted /\ m.down_del = 0
      BY ONLY <1>6, <1>8, <3>1, <3>2
    <3>4. Down(L) = 0 /\ Down(R) = 0
      BY ONLY <1>3, <1>4, <1>8, <3>2, <3>3 DEF One
    <3>5. /\ ~x.tree_deleted /\ ~x.tree_downsample_deleted
          /\ ~x.point_deleted /\ ~x.point_downsample_deleted
      BY ONLY <1>2, <2>3, <3>1, <3>2, <3>3
    <3>6. x.invalid = 0 /\ x.down_del = 0
      BY ONLY <1>2, <2>3, <3>1, <3>3
    <3>7. Gone(XL) = 0 /\ Down(XL) = 0 /\ Gone(XR) = 0 /\ Down(XR) = 0
      BY ONLY <1>5, <3>4, <3>5
    <3>8. x.size = 1 + Size(XL) + Size(XR)
      BY ONLY <1>2, <1>4, <1>5, <1>8
    <3>9. x.size \in Nat /\ x.size > 0
      BY ONLY <1>2, <1>6, <3>2
    <3>10. One(x.point_deleted) = 0 /\ One(x.point_downsample_deleted) = 0
      BY ONLY <3>5 DEF One
    <3> QED
      BY ONLY <3>5, <3>6, <3>7, <3>8, <3>9, <3>10
  <2> QED
    BY <2>1, <2>2, <2>3
<1>10. Exact(x)
  BY <1>7, <1>9 DEF Exact, XL, XR
<1>11. AllExact(x.son["left"]) /\ AllExact(x.son["right"])
  BY <1>1, <1>2 DEF L, R
<1> QED
  BY <1>2, <1>10, <1>11, AllExactIs DEF x

LEMMA PushDownExact ==
  ASSUME AnyHeight, NEW n \in TreeNodes, AllExact(n)
  PROVE  /\ Push_Down(n) \in TreeNodes
         /\ AllExact(Push_Down(n))
         /\ \A s \in Side : /\ AllExact(Son(n, s)) /\ Push_Down(n).son[s] = Son(n, s)
                            /\ Push_Down(n).need_push[s] => Push_Down(n).son[s] = None
                            /\ Son(Push_Down(n), s) = Son(n, s)
<1> DEFINE x == Push_Down(n)
<1>1. Exact(n) /\ \A s \in Side : AllExact(n.son[s])
  BY AllExactIs DEF Side
<1>2. n.tree_downsample_deleted => n.tree_deleted
  <2>1. n.size \in Nat /\ n.invalid \in Nat /\ n.down_del \in Nat
    BY DEF TreeNodes, NodesOver
  <2> QED
    BY <1>1, <2>1 DEF Exact
<1>3. x \in TreeNodes
  BY PushDownType
<1>4. ASSUME NEW s \in Side
      PROVE  /\ AllExact(Son(n, s)) /\ x.son[s] = Son(n, s)
             /\ x.need_push[s] => x.son[s] = None
             /\ Son(x, s) = Son(n, s)
  <2>1. /\ Son(n, s) = IF n.son[s] # None /\ n.need_push[s] THEN Pushed(n, n.son[s]) ELSE n.son[s]
        /\ x.need_push[s] = (n.need_push[s] /\ n.son[s] = None)
        /\ x.son[s] = Son(n, s)
    BY PushDownIs DEF Son
  <2>2. n.son[s] \in Trees
    BY SonCounts
  <2>3. AllExact(Son(n, s))
    <3>1. CASE n.son[s] # None /\ n.need_push[s]
      <4>1. n.son[s] \in TreeNodes
        BY <2>2, <3>1, TreesAre
      <4>2. n.tree_deleted \/ n.son[s].invalid = 0
        BY <1>1, <3>1 DEF Exact, Sons
      <4>3. AllExact(Pushed(n, n.son[s]))
        BY <1>1, <1>2, <4>1, <4>2, PushedExact
      <4> QED
        BY <2>1, <3>1, <4>3
    <3>2. CASE ~(n.son[s] # None /\ n.need_push[s])
      BY <1>1, <2>1, <3>2
    <3> QED
      BY <3>1, <3>2
  <2>4. x.need_push[s] => x.son[s] = None
    BY <2>1
  <2>5. Son(x, s) = x.son[s]
    <3> HIDE DEF x
    <3>1. Push_Down(x).son[s] = IF x.son[s] # None /\ x.need_push[s] THEN Pushed(x, x.son[s]) ELSE x.son[s]
      BY <1>3, PushDownIs
    <3> QED
      BY <2>4, <3>1 DEF Son
  <2> QED
    BY <2>1, <2>3, <2>4, <2>5
<1>5. /\ x.size = n.size /\ x.invalid = n.invalid /\ x.down_del = n.down_del
      /\ x.point_deleted = n.point_deleted
      /\ x.tree_deleted = n.tree_deleted
      /\ x.point_downsample_deleted = n.point_downsample_deleted
      /\ x.tree_downsample_deleted = n.tree_downsample_deleted
  BY PushDownIs
<1> HIDE DEF x
<1>6. Exact(x)
  <2>1. Son(x, "left") = Son(n, "left") /\ Son(x, "right") = Son(n, "right")
    BY <1>4 DEF Side
  <2>2. \A s \in Sons(x) : ~x.need_push[s]
    BY <1>4 DEF Sons
  <2>3. \A s \in Sons(x) : x.need_push[s] => x.tree_deleted \/ x.son[s].invalid = 0
    BY <2>2
  <2> QED
    BY <1>1, <1>5, <2>1, <2>3 DEF Exact
<1>7. AllExact(x)
  <2>1. AllExact(x.son["left"]) /\ AllExact(x.son["right"])
    BY <1>4 DEF Side
  <2> QED
    BY <1>3, <1>6, <2>1, AllExactIs
<1> QED
  BY <1>3, <1>4, <1>7 DEF x

(* Update makes a node exact whose sons are, whatever its own counts were. *)
LEMMA UpdateExact ==
  ASSUME AnyHeight, NEW n \in TreeNodes,
         n.point_downsample_deleted => n.point_deleted,
         AllExact(n.son["left"]), AllExact(n.son["right"]),
         \A s \in Side : n.need_push[s] => Gone(n.son[s]) = 0
  PROVE  AllExact(Update(n))
<1> DEFINE u == Update(n)
           L == n.son["left"]
           R == n.son["right"]
<1>0. "left" \in Side /\ "right" \in Side /\ \A s \in Side : s = "left" \/ s = "right"
  BY DEF Side
<1>1. /\ u \in TreeNodes /\ u.son = n.son /\ u.need_push = n.need_push
      /\ u.point_deleted = n.point_deleted
      /\ u.point_downsample_deleted = n.point_downsample_deleted
      /\ u.tree_deleted = AllDeleted(n)
      /\ u.tree_downsample_deleted
           = (n.point_downsample_deleted /\ \A s \in Sons(n) : n.son[s].tree_downsample_deleted)
      /\ u.size = 1 + Total(n, "size")
      /\ u.invalid = One(n.point_deleted) + Total(n, "invalid")
      /\ u.down_del = One(n.point_downsample_deleted) + Total(n, "down_del")
  BY ONLY UpdateIs, AnyHeight, n \in TreeNodes
<1> HIDE DEF u
<1>2. /\ Total(n, "size") = Size(L) + Size(R)
      /\ Total(n, "invalid") = Gone(L) + Gone(R)
      /\ Total(n, "down_del") = Down(L) + Down(R)
  BY TotalIs DEF Size, Gone, Down
<1>3. /\ Size(L) \in Nat /\ Gone(L) \in Nat /\ Down(L) \in Nat
      /\ Down(L) <= Gone(L) /\ Gone(L) <= Size(L)
      /\ L # None => /\ Size(L) >= 1
                     /\ L.tree_deleted <=> Gone(L) = Size(L)
                     /\ L.tree_downsample_deleted <=> Down(L) = Size(L)
      /\ Size(R) \in Nat /\ Gone(R) \in Nat /\ Down(R) \in Nat
      /\ Down(R) <= Gone(R) /\ Gone(R) <= Size(R)
      /\ R # None => /\ Size(R) >= 1
                     /\ R.tree_deleted <=> Gone(R) = Size(R)
                     /\ R.tree_downsample_deleted <=> Down(R) = Size(R)
  <2>1. L \in Trees /\ R \in Trees
    BY <1>0, SonCounts
  <2> QED
    BY <2>1, CountsAre
<1>4. /\ L = None => Size(L) = 0 /\ Gone(L) = 0 /\ Down(L) = 0
      /\ R = None => Size(R) = 0 /\ Gone(R) = 0 /\ Down(R) = 0
  BY DEF Size, Gone, Down
<1>5. /\ u.tree_deleted <=> /\ n.point_deleted
                            /\ L # None => L.tree_deleted
                            /\ R # None => R.tree_deleted
      /\ u.tree_downsample_deleted <=> /\ n.point_downsample_deleted
                                       /\ L # None => L.tree_downsample_deleted
                                       /\ R # None => R.tree_downsample_deleted
  BY <1>0, <1>1 DEF AllDeleted, Sons
<1>6. n.need_push["left"] => Gone(L) = 0
  BY <1>0
<1>7. n.need_push["right"] => Gone(R) = 0
  BY <1>0
<1>8. /\ Size(Son(u, "left")) = Size(L)
      /\ Gone(Son(u, "left")) = IF n.need_push["left"]
           THEN IF u.tree_deleted \/ u.tree_downsample_deleted THEN Size(L) ELSE Down(L)
           ELSE Gone(L)
      /\ Down(Son(u, "left")) = IF n.need_push["left"] /\ u.tree_downsample_deleted
                                THEN Size(L) ELSE Down(L)
      /\ Size(Son(u, "right")) = Size(R)
      /\ Gone(Son(u, "right")) = IF n.need_push["right"]
           THEN IF u.tree_deleted \/ u.tree_downsample_deleted THEN Size(R) ELSE Down(R)
           ELSE Gone(R)
      /\ Down(Son(u, "right")) = IF n.need_push["right"] /\ u.tree_downsample_deleted
                                 THEN Size(R) ELSE Down(R)
  <2>1. u.son["left"] = L /\ u.son["right"] = R /\ u.need_push = n.need_push /\ u \in TreeNodes
    BY ONLY <1>1
  <2> HIDE DEF L, R
  <2> QED
    BY <1>0, <2>1, SonCounts
<1> HIDE DEF L, R
<1>9. /\ Gone(Son(u, "left")) = Gone(L) /\ Down(Son(u, "left")) = Down(L)
  BY ONLY <1>3, <1>4, <1>5, <1>6, <1>8
<1>10. /\ Gone(Son(u, "right")) = Gone(R) /\ Down(Son(u, "right")) = Down(R)
  BY ONLY <1>3, <1>4, <1>5, <1>7, <1>8
<1>11. /\ u.size = 1 + Size(L) + Size(R)
       /\ u.invalid = One(n.point_deleted) + Gone(L) + Gone(R)
       /\ u.down_del = One(n.point_downsample_deleted) + Down(L) + Down(R)
  <2>1. One(n.point_deleted) \in Nat /\ One(n.point_downsample_deleted) \in Nat
    BY DEF One
  <2> QED
    BY ONLY <1>1, <1>2, <1>3, <2>1
<1> DEFINE pd == One(n.point_deleted)
           pdd == One(n.point_downsample_deleted)
<1>12. /\ pd = 0 \/ pd = 1
       /\ n.point_deleted <=> pd = 1
       /\ pdd = 0 \/ pdd = 1
       /\ n.point_downsample_deleted <=> pdd = 1
       /\ n.point_downsample_deleted => n.point_deleted
  BY DEF One
<1> HIDE DEF pd, pdd
<1>13. u.invalid = pd + Gone(L) + Gone(R) /\ u.down_del = pdd + Down(L) + Down(R)
  BY ONLY <1>11 DEF pd, pdd
<1>14. pdd <= pd /\ pd <= 1
  BY ONLY <1>12
<1>15. u.down_del <= u.invalid /\ u.invalid <= u.size
  BY ONLY <1>3, <1>11, <1>12, <1>13, <1>14
<1>16. u.invalid = u.size <=> pd = 1 /\ Gone(L) = Size(L) /\ Gone(R) = Size(R)
  BY ONLY <1>3, <1>11, <1>12, <1>13
<1>17. u.down_del = u.size <=> pdd = 1 /\ Down(L) = Size(L) /\ Down(R) = Size(R)
  BY ONLY <1>3, <1>11, <1>12, <1>13
<1>18. u.tree_deleted <=> u.invalid = u.size
  BY ONLY <1>3, <1>4, <1>5, <1>12, <1>16
<1>19. u.tree_downsample_deleted <=> u.down_del = u.size
  BY ONLY <1>3, <1>4, <1>5, <1>12, <1>17
<1>20. \A s \in Sons(u) : u.need_push[s] => u.tree_deleted \/ u.son[s].invalid = 0
  <2> SUFFICES ASSUME NEW s \in Sons(u), u.need_push[s]
               PROVE  u.son[s].invalid = 0
    OBVIOUS
  <2>1. s \in Side /\ n.son[s] # None /\ n.need_push[s] /\ u.son[s] = n.son[s]
    BY <1>1 DEF Sons
  <2>2. Gone(n.son[s]) = 0
    BY <2>1
  <2> QED
    BY <2>1, <2>2 DEF Gone
<1>21. Exact(u)
  <2>1. u.size = 1 + Size(Son(u, "left")) + Size(Son(u, "right"))
    BY <1>8, <1>11
  <2>2. u.invalid = One(u.point_deleted) + Gone(Son(u, "left")) + Gone(Son(u, "right"))
    BY <1>1, <1>9, <1>10, <1>11
  <2>3. u.down_del = One(u.point_downsample_deleted) + Down(Son(u, "left")) + Down(Son(u, "right"))
    BY <1>1, <1>9, <1>10, <1>11
  <2>4. u.point_downsample_deleted => u.point_deleted
    BY <1>1
  <2> QED
    BY <1>15, <1>18, <1>19, <1>20, <2>1, <2>2, <2>3, <2>4 DEF Exact
<1>22. AllExact(u.son["left"]) /\ AllExact(u.son["right"])
  BY <1>1
<1> QED
  BY <1>1, <1>21, <1>22, AllExactIs DEF u

LEMMA DeleteAllExact ==
  ASSUME AnyHeight, NEW n \in TreeNodes, NEW ds \in BOOLEAN, AllExact(n)
  PROVE  AllExact(DeleteAll(n, ds))
<1> DEFINE x == DeleteAll(n, ds)
           L == n.son["left"]
           R == n.son["right"]
           SL == Son(n, "left")
           SR == Son(n, "right")
           XL == Son(x, "left")
           XR == Son(x, "right")
<1>0. "left" \in Side /\ "right" \in Side
  BY DEF Side
<1>1. Exact(n) /\ AllExact(L) /\ AllExact(R)
  BY AllExactIs
<1>2. /\ x \in TreeNodes /\ x.son = n.son /\ x.size = n.size /\ x.invalid = n.size
      /\ x.down_del = (IF ds THEN n.size ELSE n.down_del)
      /\ x.need_push = Both(TRUE) /\ x.tree_deleted = TRUE /\ x.point_deleted = TRUE
      /\ x.tree_downsample_deleted = (n.tree_downsample_deleted \/ ds)
      /\ x.point_downsample_deleted = (n.point_downsample_deleted \/ ds)
  <2>1. DeletedAll(x, n, ds)
    BY DeleteAllIs
  <2> HIDE DEF x
  <2> QED
    BY <2>1 DEF DeletedAll
<1> HIDE DEF x
<1>3. /\ Size(L) \in Nat /\ Gone(L) \in Nat /\ Down(L) \in Nat
      /\ Down(L) <= Gone(L) /\ Gone(L) <= Size(L)
      /\ Size(R) \in Nat /\ Gone(R) \in Nat /\ Down(R) \in Nat
      /\ Down(R) <= Gone(R) /\ Gone(R) <= Size(R)
  <2>1. L \in Trees /\ R \in Trees
    BY <1>0, SonCounts
  <2> QED
    BY <1>1, <2>1, CountsAre
<1>4. /\ Size(SL) = Size(L) /\ Size(SR) = Size(R)
      /\ Down(SL) = IF n.need_push["left"] /\ n.tree_downsample_deleted THEN Size(L) ELSE Down(L)
      /\ Down(SR) = IF n.need_push["right"] /\ n.tree_downsample_deleted THEN Size(R) ELSE Down(R)
  BY <1>0, SonCounts
<1>5. /\ Size(XL) = Size(L) /\ Gone(XL) = Size(L)
      /\ Down(XL) = IF x.tree_downsample_deleted THEN Size(L) ELSE Down(L)
      /\ Size(XR) = Size(R) /\ Gone(XR) = Size(R)
      /\ Down(XR) = IF x.tree_downsample_deleted THEN Size(R) ELSE Down(R)
  <2>1. x.son["left"] = L /\ x.son["right"] = R
    BY <1>2
  <2>2. x.need_push["left"] = TRUE /\ x.need_push["right"] = TRUE
    BY <1>0, <1>2 DEF Both
  <2> HIDE DEF L, R
  <2> QED
    BY <1>0, <1>2, <2>1, <2>2, SonCounts
<1>6. n.size \in Nat /\ n.invalid \in Nat /\ n.down_del \in Nat
  BY DEF TreeNodes, NodesOver
<1>7. /\ n.size = 1 + Size(SL) + Size(SR)
      /\ n.down_del = One(n.point_downsample_deleted) + Down(SL) + Down(SR)
      /\ n.down_del <= n.invalid /\ n.invalid <= n.size
      /\ n.tree_downsample_deleted <=> n.down_del = n.size
  BY <1>1 DEF Exact
<1> DEFINE pdd == One(n.point_downsample_deleted)
<1>8. /\ pdd = 0 \/ pdd = 1
      /\ n.point_downsample_deleted <=> pdd = 1
  BY DEF One
<1>9. /\ x.tree_downsample_deleted <=> n.tree_downsample_deleted \/ ds
      /\ x.point_downsample_deleted <=> n.point_downsample_deleted \/ ds
  BY <1>2
<1> HIDE DEF L, R, SL, SR, XL, XR, pdd
<1>10. n.down_del = pdd + Down(SL) + Down(SR)
  BY <1>7 DEF pdd
<1>11. One(x.point_deleted) = 1 /\ One(x.point_downsample_deleted) = IF ds THEN 1 ELSE pdd
  BY <1>2, <1>8, <1>9 DEF One
<1>12. x.size = 1 + Size(XL) + Size(XR) /\ x.invalid = 1 + Gone(XL) + Gone(XR)
  BY ONLY <1>2, <1>4, <1>5, <1>7
<1>13. x.down_del = (IF ds THEN 1 ELSE pdd) + Down(XL) + Down(XR)
  <2>1. CASE ds
    <3>1. x.tree_downsample_deleted /\ x.down_del = n.size
      BY ONLY <1>2, <1>9, <2>1
    <3>2. Down(XL) = Size(L) /\ Down(XR) = Size(R)
      BY ONLY <1>5, <3>1
    <3> QED
      BY ONLY <1>3, <1>4, <1>7, <2>1, <3>1, <3>2
  <2>2. CASE ~ds /\ n.tree_downsample_deleted
    <3>1. x.tree_downsample_deleted /\ x.down_del = n.down_del
      BY ONLY <1>2, <1>9, <2>2
    <3>2. Down(XL) = Size(L) /\ Down(XR) = Size(R)
      BY ONLY <1>5, <3>1
    <3>3. Down(SL) <= Size(L) /\ Down(SR) <= Size(R) /\ Down(SL) \in Nat /\ Down(SR) \in Nat
      BY ONLY <1>3, <1>4
    <3>4. n.down_del = 1 + Size(L) + Size(R)
      BY ONLY <1>4, <1>7, <2>2
    <3>5. pdd = 1
      BY ONLY <1>3, <1>8, <1>10, <3>3, <3>4
    <3> QED
      BY ONLY <2>2, <3>1, <3>2, <3>4, <3>5
  <2>3. CASE ~ds /\ ~n.tree_downsample_deleted
    <3>1. ~x.tree_downsample_deleted /\ x.down_del = n.down_del
      BY ONLY <1>2, <1>9, <2>3
    <3>2. Down(XL) = Down(SL) /\ Down(XR) = Down(SR)
      BY ONLY <1>4, <1>5, <2>3, <3>1
    <3> QED
      BY ONLY <1>10, <2>3, <3>1, <3>2
  <2> QED
    BY <2>1, <2>2, <2>3
<1>14. x.tree_downsample_deleted <=> x.down_del = x.size
  <2>1. CASE ds
    BY ONLY <1>2, <1>9, <2>1
  <2>2. CASE ~ds
    BY ONLY <1>2, <1>7, <1>9, <2>2
  <2> QED
    BY <2>1, <2>2
<1>15. x.down_del <= x.invalid /\ x.invalid <= x.size
  <2>1. n.down_del <= n.size
    BY ONLY <1>6, <1>7
  <2> QED
    BY ONLY <1>2, <1>6, <2>1
<1>16. Exact(x)
  <2>1. x.invalid = One(x.point_deleted) + Gone(XL) + Gone(XR)
    BY ONLY <1>11, <1>12
  <2>2. x.down_del = One(x.point_downsample_deleted) + Down(XL) + Down(XR)
    BY ONLY <1>11, <1>13
  <2>3. x.tree_deleted <=> x.invalid = x.size
    BY ONLY <1>2
  <2>4. x.point_downsample_deleted => x.point_deleted
    BY ONLY <1>2
  <2>5. \A s \in Sons(x) : x.need_push[s] => x.tree_deleted \/ x.son[s].invalid = 0
    BY <1>2
  <2> QED
    BY <1>12, <1>14, <1>15, <2>1, <2>2, <2>3, <2>4, <2>5 DEF Exact, XL, XR
<1>17. AllExact(x.son["left"]) /\ AllExact(x.son["right"])
  BY <1>1, <1>2 DEF L, R
<1> QED
  BY <1>2, <1>16, <1>17, AllExactIs DEF x

LEMMA DeletePointExact ==
  ASSUME AnyHeight, NEW n \in TreeNodes, AllExact(n), ~n.point_deleted,
         \A s \in Side : n.need_push[s] => n.son[s] = None
  PROVE  AllExact(DeletePoint(n))
<1> DEFINE x == DeletePoint(n)
<1>0. "left" \in Side /\ "right" \in Side
  BY DEF Side
<1>1. Exact(n) /\ AllExact(n.son["left"]) /\ AllExact(n.son["right"])
  BY AllExactIs
<1>2. /\ x \in TreeNodes /\ x.son = n.son /\ x.size = n.size /\ x.invalid = n.invalid + 1
      /\ x.down_del = n.down_del /\ x.need_push = n.need_push
      /\ x.tree_deleted = (n.tree_deleted \/ n.invalid + 1 = n.size)
      /\ x.point_deleted = TRUE
      /\ x.tree_downsample_deleted = n.tree_downsample_deleted
      /\ x.point_downsample_deleted = n.point_downsample_deleted
  BY ONLY DeletePointIs, n \in TreeNodes
<1> HIDE DEF x
<1>3. ASSUME NEW s \in Side
      PROVE  /\ Son(n, s) = n.son[s] /\ Son(x, s) = n.son[s]
  <2>1. Son(n, s) = IF n.son[s] # None /\ n.need_push[s] THEN Pushed(n, n.son[s]) ELSE n.son[s]
    BY PushDownIs DEF Son
  <2>2. Son(x, s) = IF x.son[s] # None /\ x.need_push[s] THEN Pushed(x, x.son[s]) ELSE x.son[s]
    BY <1>2, PushDownIs DEF Son
  <2>3. x.son[s] = n.son[s] /\ x.need_push[s] = n.need_push[s]
    BY <1>2
  <2> QED
    BY <2>1, <2>2, <2>3
<1>4. Son(x, "left") = Son(n, "left") /\ Son(x, "right") = Son(n, "right")
  BY <1>0, <1>3
<1>5. n.size \in Nat /\ n.invalid \in Nat /\ n.down_del \in Nat
  BY DEF TreeNodes, NodesOver
<1> DEFINE gl == Gone(Son(n, "left"))
           gr == Gone(Son(n, "right"))
           sl == Size(Son(n, "left"))
           sr == Size(Son(n, "right"))
<1>6. gl \in Nat /\ gr \in Nat /\ sl \in Nat /\ sr \in Nat /\ gl <= sl /\ gr <= sr
  <2>1. Son(n, "left") \in Trees /\ Son(n, "right") \in Trees
    BY <1>0, SonType
  <2>2. AllExact(Son(n, "left")) /\ AllExact(Son(n, "right"))
    BY <1>0, <1>1, <1>3
  <2> QED
    BY <2>1, <2>2, CountsAre
<1>7. n.size = 1 + sl + sr /\ n.invalid = gl + gr
  <2>1. One(n.point_deleted) = 0
    BY DEF One
  <2>2. n.size = 1 + sl + sr /\ n.invalid = One(n.point_deleted) + gl + gr
    BY <1>1 DEF Exact
  <2> HIDE DEF gl, gr, sl, sr
  <2> QED
    BY ONLY <1>6, <2>1, <2>2
<1>8. One(x.point_deleted) = 1 /\ ~n.tree_deleted /\ n.invalid < n.size
  <2>1. One(x.point_deleted) = 1
    BY <1>2 DEF One
  <2>2. n.tree_deleted <=> n.invalid = n.size
    BY <1>1 DEF Exact
  <2> HIDE DEF gl, gr, sl, sr
  <2> QED
    BY ONLY <1>5, <1>6, <1>7, <2>1, <2>2
<1>9. /\ n.down_del = One(n.point_downsample_deleted) + Down(Son(n, "left")) + Down(Son(n, "right"))
      /\ n.down_del <= n.invalid /\ n.invalid <= n.size
      /\ n.tree_downsample_deleted <=> n.down_del = n.size
      /\ n.point_downsample_deleted => n.point_deleted
  BY <1>1 DEF Exact
<1> HIDE DEF gl, gr, sl, sr
<1>10. /\ x.size = 1 + sl + sr
       /\ x.invalid = One(x.point_deleted) + gl + gr
       /\ x.down_del <= x.invalid /\ x.invalid <= x.size
  BY ONLY <1>2, <1>5, <1>6, <1>7, <1>8, <1>9
<1>11. /\ x.down_del = One(x.point_downsample_deleted) + Down(Son(n, "left")) + Down(Son(n, "right"))
       /\ x.point_downsample_deleted => x.point_deleted
       /\ x.tree_downsample_deleted <=> x.down_del = x.size
  BY ONLY <1>2, <1>9
<1>12. x.tree_deleted <=> x.invalid = x.size
  BY ONLY <1>2, <1>8
<1>13. \A s \in Sons(x) : x.need_push[s] => x.tree_deleted \/ x.son[s].invalid = 0
  BY <1>2 DEF Sons
<1>14. Exact(x)
  BY <1>4, <1>10, <1>11, <1>12, <1>13 DEF Exact, gl, gr, sl, sr
<1>15. AllExact(x.son["left"]) /\ AllExact(x.son["right"])
  BY <1>1, <1>2
<1> QED
  BY <1>2, <1>14, <1>15, AllExactIs DEF x

LEMMA NodeExact ==
  ASSUME AnyHeight, NEW p \in Points, NEW axis \in Axes, NEW l \in Trees, NEW r \in Trees,
         AllExact(l), AllExact(r)
  PROVE  /\ AllExact(Update(WithSons(Node(p, axis), Two(l, r))))
         /\ Update(WithSons(Node(p, axis), Two(l, r))) \in TreeNodes
         /\ Size(Update(WithSons(Node(p, axis), Two(l, r)))) = 1 + Size(l) + Size(r)
         /\ Gone(Update(WithSons(Node(p, axis), Two(l, r)))) = Gone(l) + Gone(r)
<1> DEFINE n == Node(p, axis)
           m == WithSons(n, Two(l, r))
<1>1. /\ n \in TreeNodes /\ n.point_deleted = FALSE /\ n.point_downsample_deleted = FALSE
      /\ n.need_push = Both(FALSE)
  BY NodeIs
<1>2. Two(l, r) \in [Side -> Trees] /\ Two(l, r)["left"] = l /\ Two(l, r)["right"] = r
  BY TwoIs
<1> HIDE DEF n
<1>3. /\ m \in TreeNodes /\ m.son["left"] = l /\ m.son["right"] = r
      /\ m.point_deleted = FALSE /\ m.point_downsample_deleted = FALSE /\ m.need_push = Both(FALSE)
  <2> DEFINE f == Two(l, r)
  <2>1. f \in [Side -> Trees]
    BY <1>2
  <2> HIDE DEF f
  <2>2. /\ WithSons(n, f) \in TreeNodes /\ WithSons(n, f).son = f
        /\ WithSons(n, f).point_deleted = n.point_deleted
        /\ WithSons(n, f).point_downsample_deleted = n.point_downsample_deleted
        /\ WithSons(n, f).need_push = n.need_push
    BY <1>1, <2>1, WithSonsIs
  <2> QED
    BY <1>1, <1>2, <2>2 DEF f
<1> HIDE DEF m
<1>4. \A s \in Side : ~m.need_push[s]
  BY <1>3 DEF Both
<1>5. AllExact(Update(m))
  BY <1>3, <1>4, UpdateExact
<1>6. /\ Update(m) \in TreeNodes
      /\ Update(m).size = 1 + Total(m, "size")
      /\ Update(m).invalid = One(m.point_deleted) + Total(m, "invalid")
  BY <1>3, UpdateIs
<1>7. Total(m, "size") = Size(l) + Size(r) /\ Total(m, "invalid") = Gone(l) + Gone(r)
  BY <1>3, TotalIs DEF Size, Gone
<1>8. One(m.point_deleted) = 0
  BY <1>3 DEF One
<1>9. Size(l) \in Nat /\ Size(r) \in Nat /\ Gone(l) \in Nat /\ Gone(r) \in Nat
  BY CountsAre
<1>10. Size(Update(m)) = 1 + (Size(l) + Size(r)) /\ Gone(Update(m)) = 0 + (Gone(l) + Gone(r))
  BY <1>6, <1>7, <1>8, NoneIsNoNode DEF Size, Gone
<1>11. Size(Update(m)) = 1 + Size(l) + Size(r) /\ Gone(Update(m)) = Gone(l) + Gone(r)
  BY ONLY <1>9, <1>10
<1> QED
  BY <1>5, <1>6, <1>11 DEF m, n

LEMMA BuildExact ==
  ASSUME AnyHeight, NEW rank \in [Points -> Int]
  PROVE  \A q \in Seq(Points) : /\ AllExact(BuildTree(q, rank))
                                /\ Size(BuildTree(q, rank)) = Len(q)
                                /\ Gone(BuildTree(q, rank)) = 0
<1> DEFINE X == Seq(Points)
           h == [q \in X |-> Len(q)]
           B(q) == BuildTree(q, rank)
           S == {q \in X : AllExact(B(q)) /\ Size(B(q)) = Len(q) /\ Gone(B(q)) = 0}
<1>1. h \in [X -> Nat]
  OBVIOUS
<1>2. ASSUME NEW q \in X, \A y \in X : h[y] < h[q] => y \in S
      PROVE  q \in S
  <2>1. CASE q = <<>>
    <3>1. B(q) = None
      BY <2>1, BuildTreeIs
    <3>2. Size(B(q)) = 0 /\ Gone(B(q)) = 0 /\ AllExact(B(q)) /\ Len(q) = 0
      BY <2>1, <3>1, AllExactIs DEF Size, Gone
    <3> HIDE DEF B
    <3> QED
      BY <3>2
  <2>2. CASE q # <<>>
    <3> DEFINE l == B(Lower(q, rank))
               r == B(Upper(q, rank))
               p == Sorted(q, rank)[Middle(Len(q))]
    <3>1. /\ Lower(q, rank) \in X /\ Len(Lower(q, rank)) < Len(q)
          /\ Upper(q, rank) \in X /\ Len(Upper(q, rank)) < Len(q)
          /\ 1 + Len(Lower(q, rank)) + Len(Upper(q, rank)) = Len(q)
          /\ Widest(q) \in Axes /\ p \in Points
      BY <2>2, HalvesAre
    <3>2. Lower(q, rank) \in S /\ Upper(q, rank) \in S
      <4> HIDE DEF S
      <4> QED
        BY <1>2, <3>1
    <3>3. /\ AllExact(l) /\ Size(l) = Len(Lower(q, rank)) /\ Gone(l) = 0
          /\ AllExact(r) /\ Size(r) = Len(Upper(q, rank)) /\ Gone(r) = 0
      BY <3>2
    <3>4. l \in Trees /\ r \in Trees
      BY <3>1, BuildTreeIs
    <3>5. B(q) = Update(WithSons(Node(p, Widest(q)), Two(l, r)))
      BY <2>2, BuildTreeIs DEF MiddleNode
    <3> HIDE DEF l, r, p, B
    <3>6. AllExact(B(q)) /\ Size(B(q)) = 1 + Size(l) + Size(r) /\ Gone(B(q)) = Gone(l) + Gone(r)
      <4> DEFINE x == Update(WithSons(Node(p, Widest(q)), Two(l, r)))
      <4>1. AllExact(x) /\ Size(x) = 1 + Size(l) + Size(r) /\ Gone(x) = Gone(l) + Gone(r)
        BY ONLY AnyHeight, <3>1, <3>3, <3>4, NodeExact
      <4> HIDE DEF x
      <4>2. B(q) = x
        BY <3>5 DEF x
      <4> QED
        BY ONLY <4>1, <4>2
    <3>7. Size(B(q)) = Len(q) /\ Gone(B(q)) = 0
      BY ONLY <3>1, <3>3, <3>6
    <3> QED
      BY <3>6, <3>7
  <2> QED
    BY <2>1, <2>2
<1>3. X \subseteq S
  <2> HIDE DEF h, S, X
  <2> QED
    BY <1>1, <1>2, MeasureInduction
<1> QED
  BY <1>3

LEMMA ConcatLength ==
  \A a, b, c \in Seq(Points) : /\ a \o b \o c \in Seq(Points)
                               /\ Len(a \o b \o c) = Len(a) + Len(b) + Len(c)
  BY ONLY SMT

LEMMA CountsLeft ==
  \A one, sl, sr, gl, gr \in Int :
    (1 - one) + (sl - gl) + (sr - gr) = (1 + sl + sr) - (one + gl + gr)
  OBVIOUS

(* The points of an exact tree are those its counts tell.                  *)
LEMMA FlattenCounts ==
  ASSUME AnyHeight
  PROVE  \A t \in Trees : AllExact(t) => Len(flatten[t]) = Size(t) - Gone(t)
<1> DEFINE S == {t \in Trees : AllExact(t) => Len(flatten[t]) = Size(t) - Gone(t)}
<1>1. None \in S
  BY FlattenIs, TreesAre DEF Size, Gone
<1>2. ASSUME NEW n \in TreeNodes, \A s \in Side : Son(n, s) \in S
      PROVE  n \in S
  <2> DEFINE L == Son(n, "left")
             R == Son(n, "right")
             own == IF n.point_deleted THEN <<>> ELSE <<n.point>>
  <2> SUFFICES ASSUME AllExact(n)
               PROVE  Len(flatten[n]) = Size(n) - Gone(n)
    BY TreesAre
  <2>1. L \in Trees /\ R \in Trees
    BY SonType DEF Side
  <2>2. AllExact(L) /\ AllExact(R)
    BY PushDownExact DEF Side
  <2>3. Len(flatten[L]) = Size(L) - Gone(L) /\ Len(flatten[R]) = Size(R) - Gone(R)
    BY <1>2, <2>2 DEF Side
  <2>4. flatten[n] = own \o flatten[L] \o flatten[R]
    BY FlattenIs
  <2>5. flatten[L] \in Seq(Points) /\ flatten[R] \in Seq(Points)
    BY <2>1, FlattenIs
  <2>6. own \in Seq(Points) /\ Len(own) = 1 - One(n.point_deleted)
    BY DEF TreeNodes, NodesOver, One
  <2>7. /\ Size(n) = 1 + Size(L) + Size(R)
        /\ Gone(n) = One(n.point_deleted) + Gone(L) + Gone(R)
    <3>1. Exact(n)
      BY AllExactIs
    <3>2. n # None
      BY NoneIsNoNode
    <3> QED
      BY <3>1, <3>2 DEF Exact, Size, Gone
  <2>8. Size(L) \in Nat /\ Gone(L) \in Nat /\ Size(R) \in Nat /\ Gone(R) \in Nat
    BY <2>1, CountsAre
  <2>9. One(n.point_deleted) \in Nat
    BY DEF One
  <2> HIDE DEF own, L, R
  <2>10. Len(own \o flatten[L] \o flatten[R]) = Len(own) + Len(flatten[L]) + Len(flatten[R])
    BY ONLY <2>5, <2>6, ConcatLength
  <2>11. Len(flatten[n]) = Len(own) + Len(flatten[L]) + Len(flatten[R])
    BY <2>4, <2>10
  <2>12. Len(own) = 1 - One(n.point_deleted)
    BY <2>6
  <2> DEFINE one == One(n.point_deleted)
             sl == Size(L)  sr == Size(R)  gl == Gone(L)  gr == Gone(R)
  <2>13. one \in Int /\ sl \in Int /\ sr \in Int /\ gl \in Int /\ gr \in Int
    BY <2>8, <2>9
  <2>14. /\ Len(flatten[n]) = (1 - one) + (sl - gl) + (sr - gr)
         /\ Size(n) - Gone(n) = (1 + sl + sr) - (one + gl + gr)
    BY ONLY <2>3, <2>7, <2>11, <2>12
  <2> HIDE DEF one, sl, sr, gl, gr
  <2>15. (1 - one) + (sl - gl) + (sr - gr) = (1 + sl + sr) - (one + gl + gr)
    BY ONLY <2>13, CountsLeft
  <2> QED
    BY ONLY <2>14, <2>15
<1>3. \A n \in TreeNodes : (\A s \in Side : Son(n, s) \in S) => n \in S
  <2> HIDE DEF S
  <2> QED
    BY <1>2
<1>4. \A t \in Trees : t \in S
  <2> HIDE DEF S
  <2> QED
    BY <1>1, <1>3, TreeInduction
<1> QED
  BY <1>4

(***************************************************************************)
(* No operation disturbs the invariant of a tree.                          *)
(***************************************************************************)
LEMMA FinishExact ==
  ASSUME AnyHeight, NEW n \in TreeNodes, NEW rank \in [Points -> Int],
         n.point_downsample_deleted => n.point_deleted,
         AllExact(n.son["left"]), AllExact(n.son["right"]),
         \A s \in Side : n.need_push[s] => Gone(n.son[s]) = 0
  PROVE  AllExact(Finish(n, rank).tree)
<1>1. Update(n) \in TreeNodes
  BY UpdateIs
<1>2. Update(n) \in Trees
  BY <1>1, TreesAre
<1>3. flatten[Update(n)] \in Seq(Points)
  BY <1>2, FlattenIs
<1>4. AllExact(BuildTree(flatten[Update(n)], rank))
  BY <1>3, BuildExact
<1>5. AllExact(Update(n))
  BY UpdateExact
<1> QED
  BY <1>4, <1>5, FinishIs

LEMMA DeleteBelowExact ==
  ASSUME AnyHeight, NEW box, NEW rank \in [Points -> Int], NEW ds \in BOOLEAN,
         NEW n \in TreeNodes, NEW l \in Deletions, NEW r \in Deletions,
         AllExact(n), AllExact(l.tree), AllExact(r.tree),
         \A s \in Side : n.need_push[s] => Two(l.tree, r.tree)[s] = None
  PROVE  AllExact(DeleteBelow(n, l, r, box, rank, ds).tree)
<1> DEFINE hit == DeletedHere(n, box)
           pd == n.point_deleted \/ hit
           pdd == n.point_downsample_deleted \/ (hit /\ ds)
           f == Two(l.tree, r.tree)
           m == Marked(n, pd, pdd, f)
<1>1. n.point_deleted \in BOOLEAN /\ n.point_downsample_deleted \in BOOLEAN
  BY DEF TreeNodes, NodesOver
<1>2. l.tree \in Trees /\ r.tree \in Trees
  BY DEF Deletions
<1>3. f \in [Side -> Trees] /\ f["left"] = l.tree /\ f["right"] = r.tree
  BY <1>2, TwoIs
<1>4. pd \in BOOLEAN /\ pdd \in BOOLEAN
  BY <1>1 DEF DeletedHere
<1>5. n.point_downsample_deleted => n.point_deleted
  BY AllExactIs DEF Exact
<1>6. pdd => pd
  BY <1>5
<1>7. \A s \in Side : n.need_push[s] => f[s] = None
  OBVIOUS
<1>8. DeleteBelow(n, l, r, box, rank, ds) = Finish(m, rank)
  BY DEF DeleteBelow
<1> HIDE DEF hit, pd, pdd, f
<1>9. /\ m \in TreeNodes /\ m.son = f /\ m.need_push = n.need_push
      /\ m.point_deleted = pd /\ m.point_downsample_deleted = pdd
  BY ONLY <1>3, <1>4, n \in TreeNodes, MarkedIs
<1> HIDE DEF m
<1>10. AllExact(m.son["left"]) /\ AllExact(m.son["right"])
  BY <1>3, <1>9
<1>11. \A s \in Side : m.need_push[s] => Gone(m.son[s]) = 0
  BY <1>7, <1>9 DEF Gone
<1>12. m.point_downsample_deleted => m.point_deleted
  BY <1>6, <1>9
<1>13. AllExact(Finish(m, rank).tree)
  BY <1>9, <1>10, <1>11, <1>12, FinishExact
<1> QED
  BY <1>8, <1>13

LEMMA DeleteStepExact ==
  ASSUME AnyHeight, NEW box, NEW rank \in [Points -> Int], NEW ds \in BOOLEAN,
         NEW t \in TreeNodes, NEW l \in Deletions, NEW r \in Deletions,
         AllExact(t), AllExact(l.tree), AllExact(r.tree),
         \A s \in Side : Son(t, s) = None => Two(l.tree, r.tree)[s] = None
  PROVE  AllExact(DeleteStep(t, l, r, box, rank, ds).tree)
<1>1. CASE t.tree_deleted
  BY <1>1 DEF DeleteStep
<1>2. CASE ~t.tree_deleted
  <2> DEFINE n == Push_Down(t)
  <2>1. n \in TreeNodes /\ AllExact(n)
    BY PushDownExact
  <2>2. \A s \in Side : n.need_push[s] => Two(l.tree, r.tree)[s] = None
    BY PushDownExact
  <2>3. DeleteStep(t, l, r, box, rank, ds) = DeleteIn(n, l, r, box, rank, ds)
    BY <1>2 DEF DeleteStep
  <2> HIDE DEF n
  <2>4. AllExact(DeleteAll(n, ds))
    BY <2>1, DeleteAllExact
  <2>5. AllExact(DeleteBelow(n, l, r, box, rank, ds).tree)
    BY <2>1, <2>2, DeleteBelowExact
  <2>6. AllExact(DeleteIn(n, l, r, box, rank, ds).tree)
    <3>1. \/ DeleteIn(n, l, r, box, rank, ds).tree = n
          \/ DeleteIn(n, l, r, box, rank, ds).tree = DeleteAll(n, ds)
          \/ DeleteIn(n, l, r, box, rank, ds).tree = DeleteBelow(n, l, r, box, rank, ds).tree
      BY ONLY SMT DEF DeleteIn
    <3> QED
      BY <2>1, <2>4, <2>5, <3>1
  <2> QED
    BY <2>3, <2>6
<1> QED
  BY <1>1, <1>2

LEMMA DeleteByRangeExact ==
  ASSUME AnyHeight, NEW box, NEW rank \in [Points -> Int], NEW ds \in BOOLEAN
  PROVE  \A t \in Trees : AllExact(t) => AllExact(Delete_by_range(t, box, rank, ds).tree)
<1> DEFINE D(t) == Delete_by_range(t, box, rank, ds)
           S == {t \in Trees : AllExact(t) => AllExact(D(t).tree)}
<1>1. /\ D(None) = [tree |-> None, removed |-> <<>>, count |-> 0]
      /\ \A t \in Trees : D(t) \in Deletions
  BY DeleteByRangeIs
<1>2. \A t \in TreeNodes : D(t) = DeleteStep(t, D(Son(t, "left")), D(Son(t, "right")), box, rank, ds)
  BY DeleteByRangeIs
<1> HIDE DEF D
<1>3. D(None).tree = None
  BY ONLY <1>1
<1>4. None \in S
  BY <1>3, TreesAre
<1>5. ASSUME NEW n \in TreeNodes, \A s \in Side : Son(n, s) \in S
      PROVE  n \in S
  <2> SUFFICES ASSUME AllExact(n)
               PROVE  AllExact(D(n).tree)
    BY TreesAre
  <2> DEFINE l == D(Son(n, "left"))
             r == D(Son(n, "right"))
  <2>1. l \in Deletions /\ r \in Deletions
    BY <1>1, SonType DEF Side
  <2>2. AllExact(l.tree) /\ AllExact(r.tree)
    BY <1>5, PushDownExact DEF Side
  <2>3. l.tree \in Trees /\ r.tree \in Trees
    BY <2>1 DEF Deletions
  <2>4. Two(l.tree, r.tree)["left"] = l.tree /\ Two(l.tree, r.tree)["right"] = r.tree
    BY <2>3, TwoIs
  <2>5. \A s \in Side : Son(n, s) = None => Two(l.tree, r.tree)[s] = None
    BY <1>3, <2>4 DEF Side
  <2>6. D(n) = DeleteStep(n, l, r, box, rank, ds)
    BY <1>2
  <2> HIDE DEF l, r
  <2> QED
    BY <2>1, <2>2, <2>5, <2>6, DeleteStepExact
<1>6. \A n \in TreeNodes : (\A s \in Side : Son(n, s) \in S) => n \in S
  <2> HIDE DEF S
  <2> QED
    BY <1>5
<1>7. \A t \in Trees : t \in S
  <2> HIDE DEF S
  <2> QED
    BY <1>4, <1>6, TreeInduction
<1> QED
  BY <1>7 DEF D

(* One side of a node replaced by a tree, as an insertion and a deletion of *)
(* a point do on their way up.                                              *)
LEMMA OnTheWayExact ==
  ASSUME AnyHeight, NEW n \in TreeNodes, NEW s \in Side, NEW d \in Trees,
         NEW rank \in [Points -> Int], AllExact(n), AllExact(d),
         \A x \in Side : n.need_push[x] => n.son[x] = None,
         n.need_push[s] => Gone(d) = 0
  PROVE  AllExact(Finish(WithSon(n, s, d), rank).tree)
<1> DEFINE f == [n.son EXCEPT ![s] = d]
           m == WithSons(n, f)
<1>1. WithSon(n, s, d) = m /\ f \in [Side -> Trees]
  BY WithSonIs
<1>2. n.son \in [Side -> Trees]
  BY DEF TreeNodes, NodesOver
<1>3. \A x \in Side : f[x] = IF x = s THEN d ELSE n.son[x]
  BY <1>2
<1>4. \A x \in Side : AllExact(f[x])
  BY <1>3, AllExactIs DEF Side
<1>5. \A x \in Side : n.need_push[x] => Gone(f[x]) = 0
  BY <1>3 DEF Gone
<1>6. n.point_downsample_deleted => n.point_deleted
  BY AllExactIs DEF Exact
<1> HIDE DEF f
<1>7. /\ m \in TreeNodes /\ m.son = f /\ m.need_push = n.need_push
      /\ m.point_deleted = n.point_deleted
      /\ m.point_downsample_deleted = n.point_downsample_deleted
  BY ONLY <1>1, n \in TreeNodes, WithSonsIs
<1> HIDE DEF m
<1>8. AllExact(Finish(m, rank).tree)
  <2>1. AllExact(m.son["left"]) /\ AllExact(m.son["right"])
    BY <1>4, <1>7 DEF Side
  <2>2. \A x \in Side : m.need_push[x] => Gone(m.son[x]) = 0
    BY <1>5, <1>7
  <2>3. m.point_downsample_deleted => m.point_deleted
    BY <1>6, <1>7
  <2> QED
    BY <1>7, <2>1, <2>2, <2>3, FinishExact
<1> QED
  BY <1>1, <1>8

LEMMA DeleteByPointExact ==
  ASSUME AnyHeight, NEW p, NEW rank \in [Points -> Int]
  PROVE  \A t \in Trees : AllExact(t) => AllExact(Delete_by_point(t, p, rank).tree)
<1> DEFINE D(t) == Delete_by_point(t, p, rank)
           S == {t \in Trees : AllExact(t) => AllExact(D(t).tree)}
<1>1. /\ D(None) = [tree |-> None, removed |-> <<>>]
      /\ \A t \in Trees : D(t) \in Results
  BY DeleteByPointIs
<1>2. \A t \in TreeNodes : D(t) = DeletePointStep(t, D(Wayward(t, p)), p, rank)
  BY DeleteByPointIs
<1> HIDE DEF D
<1>3. D(None).tree = None
  BY ONLY <1>1
<1>4. None \in S
  BY <1>3, TreesAre
<1>5. ASSUME NEW t \in TreeNodes, \A s \in Side : Son(t, s) \in S
      PROVE  t \in S
  <2> SUFFICES ASSUME AllExact(t)
               PROVE  AllExact(D(t).tree)
    BY TreesAre
  <2> DEFINE n == Push_Down(t)
             s == SideOf(n, p)
             d == D(Wayward(t, p))
             w == WithSon(n, s, d.tree)
  <2>1. s \in Side
    BY SideOfIs
  <2>2. Wayward(t, p) = Son(t, s)
    BY DEF Wayward
  <2>3. d \in Results /\ d.tree \in Trees
    BY <1>1, <2>1, <2>2, SonType DEF Results
  <2>4. AllExact(d.tree)
    BY <1>5, <2>1, <2>2, PushDownExact
  <2>5. n \in TreeNodes /\ AllExact(n) /\ \A x \in Side : n.need_push[x] => n.son[x] = None
    BY PushDownExact
  <2>6. n.need_push[s] => d.tree = None
    BY <1>3, <2>1, <2>2, PushDownExact
  <2>7. D(t) = DeletePointStep(t, d, p, rank)
    BY <1>2
  <2>8. DeletePointStep(t, d, p, rank).tree
          \in {t, DeletePoint(n), Finish(w, rank).tree}
    BY DEF DeletePointStep, DeletePointIn
  <2>9. DeletePointStep(t, d, p, rank).tree = DeletePoint(n) /\ n.point_deleted
          => DeletePointStep(t, d, p, rank).tree \in {t, Finish(w, rank).tree}
    BY DEF DeletePointStep, DeletePointIn
  <2> HIDE DEF n, s, d
  <2>10. AllExact(Finish(w, rank).tree)
    <3>1. n.need_push[s] => Gone(d.tree) = 0
      BY <2>6 DEF Gone
    <3> QED
      BY <2>1, <2>3, <2>4, <2>5, <3>1, OnTheWayExact
  <2>11. ~n.point_deleted => AllExact(DeletePoint(n))
    BY <2>5, DeletePointExact
  <2> HIDE DEF w
  <2> QED
    BY <2>7, <2>8, <2>9, <2>10, <2>11
<1>6. \A n \in TreeNodes : (\A s \in Side : Son(n, s) \in S) => n \in S
  <2> HIDE DEF S
  <2> QED
    BY <1>5
<1>7. \A t \in Trees : t \in S
  <2> HIDE DEF S
  <2> QED
    BY <1>4, <1>6, TreeInduction
<1> QED
  BY <1>7 DEF D

LEMMA LeafExact ==
  ASSUME AnyHeight, NEW p \in Points, NEW father \in Axes
  PROVE  AllExact(Leaf(p, father)) /\ Gone(Leaf(p, father)) = 0
<1> DEFINE axis == (father % 3) + 1
<1>1. axis \in Axes
  BY DEF Axes
<1> HIDE DEF axis
<1>2. /\ Node(p, axis) \in TreeNodes
      /\ Node(p, axis).point_deleted = FALSE
      /\ Node(p, axis).point_downsample_deleted = FALSE
      /\ Node(p, axis).need_push = Both(FALSE)
      /\ Node(p, axis).son = Both(None)
  BY <1>1, NodeIs
<1> DEFINE n == Node(p, axis)
<1> HIDE DEF n
<1>3. /\ n \in TreeNodes
      /\ n.point_deleted = FALSE
      /\ n.point_downsample_deleted = FALSE
      /\ \A s \in Side : n.need_push[s] = FALSE
      /\ n.son["left"] = None /\ n.son["right"] = None
  BY <1>2 DEF n, Both, Side
<1>4. AllExact(Update(n))
  <2>1. AllExact(n.son["left"]) /\ AllExact(n.son["right"])
    BY <1>3, AllExactIs
  <2> QED
    BY <1>3, <2>1, UpdateExact
<1>5. Update(n).invalid = 0
  <2>1. Total(n, "invalid") = 0
    BY <1>3, TotalIs
  <2>2. Update(n).invalid = One(n.point_deleted) + Total(n, "invalid")
    BY <1>3, UpdateIs
  <2> QED
    BY <1>3, <2>1, <2>2 DEF One
<1>6. Leaf(p, father) = Update(n)
  BY DEF Leaf, n, axis
<1> QED
  BY <1>4, <1>5, <1>6 DEF Gone

LEMMA AddByPointExact ==
  ASSUME AnyHeight, NEW p \in Points, NEW rank \in [Points -> Int]
  PROVE  \A t \in Trees : AllExact(t) => \A a \in Axes : AllExact(Add_by_point(t, p, rank, a).tree)
<1> DEFINE D(t, a) == Add_by_point(t, p, rank, a)
           S == {t \in Trees : AllExact(t) => \A a \in Axes : AllExact(D(t, a).tree)}
<1>1. /\ \A a \in Axes : D(None, a) = [tree |-> Leaf(p, a), removed |-> <<>>]
      /\ \A t \in Trees, a \in Axes : D(t, a) \in Results
  BY AddByPointIs
<1>2. \A t \in TreeNodes, a \in Axes :
        D(t, a) = AddIn(Push_Down(t), D(Wayward(t, p), t.axis), p, rank)
  BY AddByPointIs
<1> HIDE DEF D
<1>3. \A a \in Axes : AllExact(D(None, a).tree) /\ Gone(D(None, a).tree) = 0
  BY <1>1, LeafExact
<1>4. None \in S
  BY <1>3, TreesAre
<1>5. ASSUME NEW t \in TreeNodes, \A s \in Side : Son(t, s) \in S
      PROVE  t \in S
  <2> SUFFICES ASSUME AllExact(t), NEW a \in Axes
               PROVE  AllExact(D(t, a).tree)
    BY TreesAre
  <2> DEFINE n == Push_Down(t)
             s == SideOf(n, p)
             d == D(Wayward(t, p), t.axis)
             w == WithSon(n, s, d.tree)
  <2>0. t.axis \in Axes
    BY DEF TreeNodes, NodesOver
  <2>1. s \in Side
    BY SideOfIs
  <2>2. Wayward(t, p) = Son(t, s)
    BY DEF Wayward
  <2>3. d \in Results /\ d.tree \in Trees
    BY <1>1, <2>0, <2>1, <2>2, SonType DEF Results
  <2>4. AllExact(d.tree)
    BY <1>5, <2>0, <2>1, <2>2, PushDownExact
  <2>5. n \in TreeNodes /\ AllExact(n) /\ \A x \in Side : n.need_push[x] => n.son[x] = None
    BY PushDownExact
  <2>6. n.need_push[s] => Gone(d.tree) = 0
    BY <1>3, <2>0, <2>1, <2>2, PushDownExact
  <2>7. D(t, a).tree = Finish(w, rank).tree
    <3>1. D(t, a) = AddIn(n, d, p, rank)
      BY <1>2
    <3> HIDE DEF n, d
    <3>2. AddIn(n, d, p, rank).tree = Finish(w, rank).tree
      BY ONLY SMT DEF AddIn
    <3> QED
      BY ONLY <3>1, <3>2
  <2> HIDE DEF n, s, d
  <2>8. AllExact(Finish(w, rank).tree)
    BY <2>1, <2>3, <2>4, <2>5, <2>6, OnTheWayExact
  <2> QED
    BY <2>7, <2>8
<1>6. \A n \in TreeNodes : (\A s \in Side : Son(n, s) \in S) => n \in S
  <2> HIDE DEF S
  <2> QED
    BY <1>5
<1>7. \A t \in Trees : t \in S
  <2> HIDE DEF S
  <2> QED
    BY <1>4, <1>6, TreeInduction
<1> QED
  BY <1>7 DEF D

-----------------------------------------------------------------------------
(***************************************************************************)
(* Searches and PushAll change no count that a father adds up.             *)
(***************************************************************************)
Alike(a, b) ==
  /\ a = None <=> b = None
  /\ Size(a) = Size(b) /\ Gone(a) = Gone(b) /\ Down(a) = Down(b)

LEMMA WithSonsExact ==
  ASSUME AnyHeight, NEW n \in TreeNodes, NEW f \in [Side -> Trees], AllExact(n),
         \A s \in Side : n.need_push[s] => n.son[s] = None,
         \A s \in Side : AllExact(f[s]) /\ Alike(n.son[s], f[s])
  PROVE  AllExact(WithSons(n, f)) /\ Alike(n, WithSons(n, f))
<1> DEFINE m == WithSons(n, f)
<1>1. /\ m \in TreeNodes /\ m.son = f
      /\ m.size = n.size /\ m.invalid = n.invalid /\ m.down_del = n.down_del
      /\ m.point_deleted = n.point_deleted /\ m.tree_deleted = n.tree_deleted
      /\ m.point_downsample_deleted = n.point_downsample_deleted
      /\ m.tree_downsample_deleted = n.tree_downsample_deleted
      /\ m.need_push = n.need_push
  BY WithSonsIs
<1> HIDE DEF m
<1>2. Alike(n, m)
  BY <1>1, NoneIsNoNode DEF Alike, Size, Gone, Down
<1>3. ASSUME NEW s \in Side
      PROVE  Son(n, s) = n.son[s] /\ Son(m, s) = f[s]
  <2>1. n.need_push[s] => n.son[s] = None /\ f[s] = None
    BY DEF Alike
  <2> QED
    BY <1>1, <2>1, PushDownIs DEF Son
<1>4. Exact(n)
  BY AllExactIs
<1>5. \A s \in Side : /\ Size(Son(m, s)) = Size(Son(n, s)) /\ Gone(Son(m, s)) = Gone(Son(n, s))
                      /\ Down(Son(m, s)) = Down(Son(n, s))
  BY <1>3 DEF Alike
<1>6. \A s \in Sons(m) : ~m.need_push[s]
  BY <1>1 DEF Sons, Alike
<1>7. Exact(m)
  <2>1. \A s \in Sons(m) : m.need_push[s] => m.tree_deleted \/ m.son[s].invalid = 0
    BY <1>6
  <2> QED
    BY <1>1, <1>4, <1>5, <2>1 DEF Exact, Side
<1>8. AllExact(m.son["left"]) /\ AllExact(m.son["right"])
  BY <1>1 DEF Side
<1>9. AllExact(m)
  BY <1>1, <1>7, <1>8, AllExactIs
<1> QED
  BY <1>2, <1>9 DEF m

(* A node whose flags have just been pushed down counts as before.         *)
LEMMA PushDownAlike ==
  ASSUME AnyHeight, NEW n \in TreeNodes
  PROVE  Alike(n, Push_Down(n))
BY PushDownIs, PushDownType, NoneIsNoNode DEF Alike, Size, Gone, Down

LEMMA PushedSonsExact ==
  ASSUME AnyHeight, NEW n \in TreeNodes, AllExact(n), NEW f \in [Side -> Trees],
         \A s \in Side : AllExact(f[s]) /\ Alike(Son(n, s), f[s])
  PROVE  AllExact(WithSons(Push_Down(n), f)) /\ Alike(n, WithSons(Push_Down(n), f))
<1> DEFINE m == Push_Down(n)
<1>1. /\ m \in TreeNodes /\ AllExact(m)
      /\ \A s \in Side : m.need_push[s] => m.son[s] = None
      /\ \A s \in Side : m.son[s] = Son(n, s)
  BY PushDownExact
<1>2. Alike(n, m)
  BY PushDownAlike
<1> HIDE DEF m
<1>3. AllExact(WithSons(m, f)) /\ Alike(m, WithSons(m, f))
  BY <1>1, WithSonsExact
<1> QED
  BY <1>2, <1>3 DEF Alike, m

LEMMA PushAllExact ==
  ASSUME AnyHeight
  PROVE  \A t \in Trees : AllExact(t) => AllExact(PushAll[t]) /\ Alike(t, PushAll[t])
<1> DEFINE S == {t \in Trees : AllExact(t) => AllExact(PushAll[t]) /\ Alike(t, PushAll[t])}
<1>1. None \in S
  BY PushAllIs, TreesAre DEF Alike
<1>2. ASSUME NEW n \in TreeNodes, \A s \in Side : Son(n, s) \in S
      PROVE  n \in S
  <2> DEFINE f == [s \in Side |-> PushAll[Son(n, s)]]
  <2> SUFFICES ASSUME AllExact(n)
               PROVE  AllExact(PushAll[n]) /\ Alike(n, PushAll[n])
    BY TreesAre
  <2>1. f \in [Side -> Trees]
    BY SonType, PushAllIs
  <2>2. \A s \in Side : AllExact(f[s]) /\ Alike(Son(n, s), f[s])
    BY <1>2, PushDownExact
  <2>3. PushAll[n] = WithSons(Push_Down(n), f)
    BY PushAllIs
  <2> HIDE DEF f
  <2> QED
    BY <2>1, <2>2, <2>3, PushedSonsExact
<1>3. \A n \in TreeNodes : (\A s \in Side : Son(n, s) \in S) => n \in S
  <2> HIDE DEF S
  <2> QED
    BY <1>2
<1>4. \A t \in Trees : t \in S
  <2> HIDE DEF S
  <2> QED
    BY <1>1, <1>3, TreeInduction
<1> QED
  BY <1>4

(* What a search by range or radius makes of a node.                       *)
LEMMA FindInExact ==
  ASSUME AnyHeight, NEW n \in TreeNodes, AllExact(n),
         NEW l \in FindResults, NEW r \in FindResults, NEW outside, NEW inside, NEW hit,
         AllExact(l.tree), Alike(Son(n, "left"), l.tree),
         AllExact(r.tree), Alike(Son(n, "right"), r.tree)
  PROVE  LET t == FindIn(Push_Down(n), l, r, outside, inside, hit).tree
         IN AllExact(t) /\ Alike(n, t)
<1> DEFINE m == Push_Down(n)
           f == Two(l.tree, r.tree)
           t == FindIn(m, l, r, outside, inside, hit).tree
<1>1. m \in TreeNodes /\ AllExact(m) /\ Alike(n, m)
  BY PushDownExact, PushDownAlike
<1>2. l.tree \in Trees /\ r.tree \in Trees
  BY DEF FindResults
<1>3. f \in [Side -> Trees] /\ f["left"] = l.tree /\ f["right"] = r.tree
  BY ONLY <1>2, TwoIs
<1>4. AllExact(WithSons(m, f)) /\ Alike(n, WithSons(m, f))
  <2>1. \A s \in Side : AllExact(f[s]) /\ Alike(Son(n, s), f[s])
    BY <1>3 DEF Side
  <2> HIDE DEF f
  <2> QED
    BY <1>3, <2>1, PushedSonsExact
<1>5. AllExact(PushAll[m]) /\ Alike(n, PushAll[m])
  <2>1. AllExact(PushAll[m]) /\ Alike(m, PushAll[m])
    BY <1>1, PushAllExact, TreesAre
  <2> QED
    BY <1>1, <2>1 DEF Alike
<1> HIDE DEF m, f
<1>6. t \in {m, PushAll[m], WithSons(m, f)}
  BY ONLY SMT DEF FindIn, f
<1> HIDE DEF t
<1>7. AllExact(t) /\ Alike(n, t)
  BY <1>1, <1>4, <1>5, <1>6
<1> QED
  BY <1>7 DEF t, m

LEMMA SearchByRangeExact ==
  ASSUME AnyHeight, NEW box
  PROVE  \A t \in Trees : AllExact(t) => /\ AllExact(Search_by_range(t, box).tree)
                                         /\ Alike(t, Search_by_range(t, box).tree)
<1> DEFINE D(t) == Search_by_range(t, box)
           S == {t \in Trees : AllExact(t) => AllExact(D(t).tree) /\ Alike(t, D(t).tree)}
<1>1. /\ D(None) = [tree |-> None, found |-> <<>>]
      /\ \A t \in Trees : D(t) \in FindResults
  BY SearchByRangeIs
<1>2. \A t \in TreeNodes : D(t) = RangeIn(Push_Down(t), D(Son(t, "left")), D(Son(t, "right")), box)
  BY SearchByRangeIs
<1> HIDE DEF D
<1>3. None \in S
  <2>1. D(None).tree = None
    BY ONLY <1>1
  <2> QED
    BY <2>1, TreesAre DEF Alike
<1>4. ASSUME NEW n \in TreeNodes, \A s \in Side : Son(n, s) \in S
      PROVE  n \in S
  <2> SUFFICES ASSUME AllExact(n)
               PROVE  AllExact(D(n).tree) /\ Alike(n, D(n).tree)
    BY TreesAre
  <2> DEFINE l == D(Son(n, "left"))
             r == D(Son(n, "right"))
  <2>1. l \in FindResults /\ r \in FindResults
    BY <1>1, SonType DEF Side
  <2>2. /\ AllExact(l.tree) /\ Alike(Son(n, "left"), l.tree)
        /\ AllExact(r.tree) /\ Alike(Son(n, "right"), r.tree)
    BY <1>4, PushDownExact DEF Side
  <2>3. D(n) = RangeIn(Push_Down(n), l, r, box)
    BY <1>2
  <2> HIDE DEF l, r
  <2> QED
    BY <2>1, <2>2, <2>3, FindInExact DEF RangeIn
<1>5. \A n \in TreeNodes : (\A s \in Side : Son(n, s) \in S) => n \in S
  <2> HIDE DEF S
  <2> QED
    BY <1>4
<1>6. \A t \in Trees : t \in S
  <2> HIDE DEF S
  <2> QED
    BY <1>3, <1>5, TreeInduction
<1> QED
  BY <1>6 DEF D

LEMMA SearchByRadiusExact ==
  ASSUME AnyHeight, NEW p, NEW rad
  PROVE  \A t \in Trees : AllExact(t) => AllExact(Search_by_radius(t, p, rad).tree)
<1> DEFINE D(t) == Search_by_radius(t, p, rad)
           S == {t \in Trees : AllExact(t) => AllExact(D(t).tree) /\ Alike(t, D(t).tree)}
<1>1. /\ D(None) = [tree |-> None, found |-> <<>>]
      /\ \A t \in Trees : D(t) \in FindResults
  BY SearchByRadiusIs
<1>2. \A t \in TreeNodes :
        D(t) = RadiusIn(Push_Down(t), D(Son(t, "left")), D(Son(t, "right")), p, rad)
  BY SearchByRadiusIs
<1> HIDE DEF D
<1>3. None \in S
  <2>1. D(None).tree = None
    BY ONLY <1>1
  <2> QED
    BY <2>1, TreesAre DEF Alike
<1>4. ASSUME NEW n \in TreeNodes, \A s \in Side : Son(n, s) \in S
      PROVE  n \in S
  <2> SUFFICES ASSUME AllExact(n)
               PROVE  AllExact(D(n).tree) /\ Alike(n, D(n).tree)
    BY TreesAre
  <2> DEFINE l == D(Son(n, "left"))
             r == D(Son(n, "right"))
  <2>1. l \in FindResults /\ r \in FindResults
    BY <1>1, SonType DEF Side
  <2>2. /\ AllExact(l.tree) /\ Alike(Son(n, "left"), l.tree)
        /\ AllExact(r.tree) /\ Alike(Son(n, "right"), r.tree)
    BY <1>4, PushDownExact DEF Side
  <2>3. D(n) = RadiusIn(Push_Down(n), l, r, p, rad)
    BY <1>2
  <2> HIDE DEF l, r
  <2> QED
    BY <2>1, <2>2, <2>3, FindInExact DEF RadiusIn
<1>5. \A n \in TreeNodes : (\A s \in Side : Son(n, s) \in S) => n \in S
  <2> HIDE DEF S
  <2> QED
    BY <1>4
<1>6. \A t \in Trees : t \in S
  <2> HIDE DEF S
  <2> QED
    BY <1>3, <1>5, TreeInduction
<1> QED
  BY <1>6 DEF D

LEMMA SearchExact ==
  ASSUME AnyHeight, NEW k \in Nat \ {0}, NEW at
  PROVE  \A t \in Trees : AllExact(t) =>
           \A q \in Seq(Points) : AllExact(Search(t, k, at, q).tree)
<1> DEFINE D(t, q) == Search(t, k, at, q).tree
           S == {t \in Trees : AllExact(t) =>
                   \A q \in Seq(Points) : AllExact(D(t, q)) /\ Alike(t, D(t, q))}
<1>1. /\ \A q \in Seq(Points) : D(None, q) = None
      /\ \A t \in Trees, q \in Seq(Points) : D(t, q) \in Trees
  <2>1. \A q \in Seq(Points) : Search(None, k, at, q) = [tree |-> None, q |-> q]
    BY SearchIs
  <2>2. \A q \in Seq(Points) : [tree |-> None, q |-> q].tree = None
    BY ONLY SMT
  <2>3. \A t \in Trees, q \in Seq(Points) : Search(t, k, at, q) \in Visits
    BY SearchIs
  <2>4. \A v \in Visits : v.tree \in Trees
    BY ONLY SMT DEF Visits
  <2> QED
    BY ONLY <2>1, <2>2, <2>3, <2>4
<1>2. \A t \in TreeNodes : \A q \in Seq(Points) : SearchStep(t, k, at, q)
  BY ONLY AnyHeight, k \in Nat \ {0}, SearchIs
<1> HIDE DEF D
<1>3. None \in S
  BY <1>1, TreesAre DEF Alike
<1>4. ASSUME NEW n \in TreeNodes, \A s \in Side : Son(n, s) \in S
      PROVE  n \in S
  <2> SUFFICES ASSUME AllExact(n), NEW q \in Seq(Points)
               PROVE  AllExact(D(n, q)) /\ Alike(n, D(n, q))
    BY TreesAre
  <2>0. \/ D(n, q) = n
        \/ \E f \in [Side -> Trees] :
             /\ D(n, q) = WithSons(Push_Down(n), f)
             /\ \A s \in Side : \/ f[s] = Son(n, s)
                                \/ \E h \in Seq(Points) : f[s] = D(Son(n, s), h)
    <3>1. CASE Search(n, k, at, q) = [tree |-> n, q |-> q]
      BY ONLY <3>1 DEF D
    <3>2. CASE \E f \in [Side -> Trees] :
                 /\ Search(n, k, at, q).tree = WithSons(Push_Down(n), f)
                 /\ \A s \in Side :
                      \/ f[s] = Son(n, s)
                      \/ \E h \in Seq(Points) : f[s] = Search(Son(n, s), k, at, h).tree
      BY ONLY <3>2 DEF D
    <3>3. SearchStep(n, k, at, q)
      BY ONLY <1>2, n \in TreeNodes, q \in Seq(Points)
    <3> QED
      BY <3>1, <3>2, <3>3 DEF SearchStep
  <2>1. CASE D(n, q) = n
    BY <2>1 DEF Alike
  <2>2. ASSUME NEW f \in [Side -> Trees],
               D(n, q) = WithSons(Push_Down(n), f),
               \A s \in Side : \/ f[s] = Son(n, s)
                               \/ \E h \in Seq(Points) : f[s] = D(Son(n, s), h)
        PROVE  AllExact(D(n, q)) /\ Alike(n, D(n, q))
    <3>1. \A s \in Side : AllExact(Son(n, s))
      BY PushDownExact
    <3>2. \A s \in Side : AllExact(f[s]) /\ Alike(Son(n, s), f[s])
      BY <1>4, <2>2, <3>1 DEF Alike
    <3> QED
      BY <2>2, <3>2, PushedSonsExact
  <2> QED
    BY <2>0, <2>1, <2>2
<1>5. \A n \in TreeNodes : (\A s \in Side : Son(n, s) \in S) => n \in S
  <2> HIDE DEF S
  <2> QED
    BY <1>4
<1>6. \A t \in Trees : t \in S
  <2> HIDE DEF S
  <2> QED
    BY <1>3, <1>5, TreeInduction
<1> QED
  BY <1>6 DEF D

-----------------------------------------------------------------------------
(***************************************************************************)
(* The map: every call keeps its tree exact.                               *)
(***************************************************************************)
LEMMA RawInduction ==
  ASSUME AnyHeight, NEW S, None \in S,
         \A n \in TreeNodes : (\A s \in Side : n.son[s] \in S) => n \in S
  PROVE  \A t \in Trees : t \in S
<1> DEFINE h == [t \in Trees |-> Height(t)]
<1>1. h \in [Trees -> Nat]
  BY HeightIs
<1>2. ASSUME NEW t \in Trees, \A y \in Trees : h[y] < h[t] => y \in S
      PROVE  t \in S
  <2>1. CASE t = None
    BY <2>1
  <2>2. CASE t \in TreeNodes
    <3>1. \A s \in Side : t.son[s] \in Trees
      BY <2>2 DEF TreeNodes, NodesOver
    <3>2. \A s \in Side : Height(t.son[s]) < Height(t)
      BY <2>2, <3>1, SonsAreLower
    <3>3. \A s \in Side : h[t.son[s]] < h[t]
      BY <3>1, <3>2
    <3> HIDE DEF h
    <3> QED
      BY <1>2, <2>2, <3>1, <3>3
  <2> QED
    BY <2>1, <2>2, TreesAre
<1>3. Trees \subseteq S
  <2> HIDE DEF h
  <2> QED
    BY <1>1, <1>2, MeasureInduction
<1> QED
  BY <1>3

LEMMA NodesAllExact ==
  ASSUME AnyHeight
  PROVE  \A t \in Trees : AllExact(t) => \A n \in Nodes[t] : n \in TreeNodes /\ AllExact(n)
<1> DEFINE S == {t \in Trees : AllExact(t) => \A n \in Nodes[t] : n \in TreeNodes /\ AllExact(n)}
<1>1. None \in S
  BY NodesIs, TreesAre
<1>2. ASSUME NEW t \in TreeNodes, \A s \in Side : t.son[s] \in S
      PROVE  t \in S
  <2> SUFFICES ASSUME AllExact(t), NEW n \in Nodes[t]
               PROVE  n \in TreeNodes /\ AllExact(n)
    BY TreesAre
  <2>1. AllExact(t.son["left"]) /\ AllExact(t.son["right"])
    BY AllExactIs
  <2>2. n = t \/ n \in Nodes[t.son["left"]] \/ n \in Nodes[t.son["right"]]
    BY NodesIs
  <2> QED
    BY <1>2, <2>1, <2>2 DEF Side
<1>3. \A n \in TreeNodes : (\A s \in Side : n.son[s] \in S) => n \in S
  <2> HIDE DEF S
  <2> QED
    BY <1>2
<1>4. \A t \in Trees : t \in S
  <2> HIDE DEF S
  <2> QED
    BY <1>1, <1>3, RawInduction
<1> QED
  BY <1>4

LEMMA CountsOfPoints ==
  \A s, g, l \in Nat : l = s - g => s = l + g /\ (g = s <=> l = 0)
  OBVIOUS

(* In an exact tree the counts of a node are those of its points.          *)
LEMMA ExactCounts ==
  ASSUME AnyHeight, NEW n \in TreeNodes, AllExact(n)
  PROVE  n.size = Len(flatten[n]) + n.invalid /\ (n.tree_deleted <=> flatten[n] = <<>>)
<1>1. n \in Trees /\ n # None
  BY TreesAre, NoneIsNoNode
<1>2. flatten[n] \in Seq(Points)
  BY <1>1, FlattenIs
<1>3. Len(flatten[n]) = Size(n) - Gone(n)
  BY <1>1, FlattenCounts
<1>4. Size(n) \in Nat /\ Gone(n) \in Nat /\ (n.tree_deleted <=> Gone(n) = Size(n))
  BY <1>1, CountsAre
<1>5. Len(flatten[n]) \in Nat /\ (Len(flatten[n]) = 0 <=> flatten[n] = <<>>)
  BY <1>2
<1>6. Size(n) = n.size /\ Gone(n) = n.invalid
  BY <1>1 DEF Size, Gone
<1>7. Size(n) = Len(flatten[n]) + Gone(n) /\ (Gone(n) = Size(n) <=> Len(flatten[n]) = 0)
  BY ONLY <1>3, <1>4, <1>5, CountsOfPoints
<1> QED
  BY <1>4, <1>5, <1>6, <1>7

TreeExact == Root_Node \in Trees /\ AllExact(Root_Node)

LEMMA ExactIsCounted ==
  ASSUME AnyHeight, TreeExact
  PROVE  CountsExact
<1>1. PushAll[Root_Node] \in Trees /\ AllExact(PushAll[Root_Node])
  BY PushAllIs, PushAllExact DEF TreeExact
<1>2. \A n \in Nodes[PushAll[Root_Node]] : n \in TreeNodes /\ AllExact(n)
  BY <1>1, NodesAllExact
<1> QED
  BY <1>2, ExactCounts DEF CountsExact

LEMMA RanksAre ==
  ASSUME NEW rank \in Ranks
  PROVE  rank \in [Points -> Int]
  BY MapAssumption

LEMMA SetToSeqType ==
  ASSUME NEW S, S \subseteq Points, IsFiniteSet(S)
  PROVE  SetToSeq(S) \in Seq(Points)
<1> DEFINE n == Cardinality(S)
           f == SetToSeq(S)
<1>1. n \in Nat /\ ExistsBijection(1..n, S)
  BY FS_CardinalityType
<1>2. \E g \in [1..n -> S] : IsInjective(g)
  BY <1>1 DEF ExistsBijection, Bijection, Injection
<1>3. f \in [1..n -> S]
  BY <1>2 DEF SetToSeq
<1> HIDE DEF f, n
<1>4. f \in [1..n -> Points]
  BY <1>3
<1> QED
  BY <1>1, <1>4 DEF f

(* The point of a voxel that stays is the new one or one of the stored.    *)
LEMMA ClosestType ==
  ASSUME NEW p \in Points, NEW stored \in Seq(Points), NEW v
  PROVE  Closest(p, stored, v) \in Points
<1> DEFINE Off(i) == OffMiddle(stored[i], v)
           closer == {i \in DOMAIN stored : /\ Off(i) < OffMiddle(p, v)
                                            /\ \A j \in DOMAIN stored : Off(i) <= Off(j)}
<1>1. Closest(p, stored, v) = IF closer = {} THEN p ELSE stored[Min(closer)]
  BY DEF Closest
<1>2. closer \subseteq DOMAIN stored
  OBVIOUS
<1> HIDE DEF closer
<1>3. closer \in SUBSET Int /\ IsFiniteSet(closer)
  <2>1. DOMAIN stored = 1..Len(stored) /\ Len(stored) \in Nat
    OBVIOUS
  <2>2. IsFiniteSet(1..Len(stored))
    BY <2>1, FS_Interval
  <2> QED
    BY <1>2, <2>1, <2>2, FS_Subset
<1>4. closer # {} => Min(closer) \in DOMAIN stored
  BY <1>2, <1>3, MinMax
<1> QED
  BY <1>1, <1>4

LEMMA InsertKeepsExact ==
  ASSUME AnyHeight, NEW t \in Trees, AllExact(t), NEW p \in Points, NEW rank \in Ranks,
         NEW a \in Axes
  PROVE  LET d == Add_by_point(t, p, rank, a) IN d.tree \in Trees /\ AllExact(d.tree)
<1>1. rank \in [Points -> Int]
  BY RanksAre
<1>2. Add_by_point(t, p, rank, a) \in Results
  BY <1>1, AddByPointIs
<1>3. AllExact(Add_by_point(t, p, rank, a).tree)
  BY <1>1, AddByPointExact
<1> QED
  BY <1>2, <1>3 DEF Results

LEMMA BoxKeepsExact ==
  ASSUME AnyHeight, NEW t \in Trees, AllExact(t), NEW b, NEW rank \in Ranks, NEW ds \in BOOLEAN
  PROVE  LET d == Delete_by_range(t, b, rank, ds) IN d.tree \in Trees /\ AllExact(d.tree)
<1>1. rank \in [Points -> Int]
  BY RanksAre
<1>2. Delete_by_range(t, b, rank, ds) \in Deletions
  BY <1>1, DeleteByRangeIs
<1>3. AllExact(Delete_by_range(t, b, rank, ds).tree)
  BY <1>1, DeleteByRangeExact
<1> QED
  BY <1>2, <1>3 DEF Deletions

LEMMA TreesHaveAxes ==
  ASSUME AnyHeight, NEW t \in Trees, t # None
  PROVE  t.axis \in Axes
BY TreesAre DEF TreeNodes, NodesOver

LEMMA DownsampleKeepsExact ==
  ASSUME AnyHeight, TreeExact, NEW p \in Points, NEW rank \in Ranks, AddDownsampled(p, rank)
  PROVE  TreeExact'
<1> DEFINE v == Voxel(p)
           s == Search_by_range(Root_Node, v)
           best == Closest(p, s.found, v)
           cleared == IF s.found = <<>> THEN [tree |-> s.tree, removed |-> <<>>]
                      ELSE Delete_by_range(s.tree, v, rank, TRUE)
           d == Add_by_point(cleared.tree, best, rank, cleared.tree.axis)
<1>1. \/ cleared.tree # None /\ Root_Node' = d.tree
      \/ Root_Node' = s.tree
  BY DEF AddDownsampled
<1>2. s \in FindResults /\ AllExact(s.tree)
  BY SearchByRangeIs, SearchByRangeExact DEF TreeExact
<1>3. s.tree \in Trees /\ s.found \in Seq(Points)
  BY <1>2 DEF FindResults
<1>4. best \in Points
  BY <1>3, ClosestType
<1> HIDE DEF s, v, best
<1>5. cleared.tree \in Trees /\ AllExact(cleared.tree)
  <2>1. CASE s.found = <<>>
    BY <1>2, <1>3, <2>1
  <2>2. CASE s.found # <<>>
    BY <1>2, <1>3, <2>2, BoxKeepsExact
  <2> QED
    BY <2>1, <2>2
<1> HIDE DEF cleared
<1>6. cleared.tree # None => cleared.tree.axis \in Axes
  BY <1>5, TreesHaveAxes
<1>7. cleared.tree # None => d.tree \in Trees /\ AllExact(d.tree)
  BY <1>4, <1>5, <1>6, InsertKeepsExact
<1> HIDE DEF d
<1> QED
  BY <1>1, <1>2, <1>3, <1>7 DEF TreeExact

LEMMA ExactInit ==
  ASSUME AnyHeight, Init
  PROVE  TreeExact
BY TreesAre, AllExactIs DEF Init, TreeExact

LEMMA ExactStep ==
  ASSUME AnyHeight, TreeExact, [Next]_vars
  PROVE  TreeExact'
<1>0. Root_Node \in Trees /\ AllExact(Root_Node)
  BY DEF TreeExact
<1>1. CASE acquire_removed_points
  BY <1>1 DEF acquire_removed_points, TreeExact
<1>2. ASSUME NEW p \in Points, Nearest_Search(p)
      PROVE  TreeExact'
  <2>1. K \in Nat \ {0} /\ <<>> \in Seq(Points)
    BY MapAssumption
  <2>2. Search(Root_Node, K, p, <<>>) \in Visits /\ AllExact(Search(Root_Node, K, p, <<>>).tree)
    BY <1>0, <2>1, SearchIs, SearchExact
  <2> QED
    BY <1>2, <2>2 DEF Nearest_Search, TreeExact, Visits
<1>3. ASSUME NEW p \in Points, NEW r \in Radii, Radius_Search(p, r)
      PROVE  TreeExact'
  <2>1. /\ Search_by_radius(Root_Node, p, r) \in FindResults
        /\ AllExact(Search_by_radius(Root_Node, p, r).tree)
    BY <1>0, SearchByRadiusIs, SearchByRadiusExact
  <2> QED
    BY <1>3, <2>1 DEF Radius_Search, TreeExact, FindResults
<1>4. ASSUME NEW rank \in Ranks, NEW S \in BuildSets, Build(S, rank)
      PROVE  TreeExact'
  <2>1. SetToSeq(S) \in Seq(Points)
    BY MapAssumption, SetToSeqType
  <2>2. BuildTree(SetToSeq(S), rank) \in Trees /\ AllExact(BuildTree(SetToSeq(S), rank))
    BY <2>1, RanksAre, BuildTreeIs, BuildExact
  <2> QED
    BY <1>4, <2>2 DEF Build, TreeExact
<1>5. ASSUME NEW rank \in Ranks, NEW p \in Points, AddPoint(p, rank)
      PROVE  TreeExact'
  <2>1. Root_Node.axis \in Axes
    BY <1>0, <1>5, TreesHaveAxes DEF AddPoint
  <2> QED
    BY <1>0, <1>5, <2>1, InsertKeepsExact DEF AddPoint, TreeExact
<1>6. ASSUME NEW rank \in Ranks, NEW p \in Points, AddDownsampled(p, rank)
      PROVE  TreeExact'
  BY <1>6, DownsampleKeepsExact
<1>7. ASSUME NEW rank \in Ranks, NEW p \in Points, DeletePointOf(p, rank)
      PROVE  TreeExact'
  <2>1. /\ Delete_by_point(Root_Node, p, rank) \in Results
        /\ AllExact(Delete_by_point(Root_Node, p, rank).tree)
    BY <1>0, RanksAre, DeleteByPointIs, DeleteByPointExact
  <2>2. Root_Node' = Delete_by_point(Root_Node, p, rank).tree
    BY <1>7, Zenon DEF DeletePointOf
  <2> QED
    BY <2>1, <2>2 DEF TreeExact, Results
<1>8. ASSUME NEW rank \in Ranks, NEW b \in Boxes, DeleteBox(b, rank)
      PROVE  TreeExact'
  BY <1>0, <1>8, BoxKeepsExact DEF DeleteBox, TreeExact
<1>9. CASE UNCHANGED vars
  BY <1>9 DEF vars, TreeExact
<1> QED
  BY <1>1, <1>2, <1>3, <1>4, <1>5, <1>6, <1>7, <1>8, <1>9 DEF Next, Call

(* The counts that decide on rebuilds and that the odometry reads are      *)
(* those of the points, after any sequence of calls: for any first scans,  *)
(* boxes, voxels and criteria, however ties are broken.                    *)
THEOREM CountsStayExact ==
  ASSUME AnyHeight
  PROVE  Spec => []CountsExact
<1>1. Init => TreeExact
  BY ExactInit
<1>2. TreeExact /\ [Next]_vars => TreeExact'
  BY ExactStep
<1>3. TreeExact => CountsExact
  BY ExactIsCounted
<1> QED
  BY <1>1, <1>2, <1>3, PTL DEF Spec

=============================================================================
