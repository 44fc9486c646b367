----------------------------- MODULE IkdProofs -----------------------------
(***************************************************************************)
(* Proofs about the public operations of the k-d tree: what they report,   *)
(* that they implement a plain store of points, and that both searches are *)
(* exact. The invariant and what the operations do to it is IkdTreeProofs. *)
(***************************************************************************)
EXTENDS IkdTreeProofs

(***************************************************************************)
(* How often a point is in a sequence.                                     *)
(***************************************************************************)
At(q, p) == {i \in DOMAIN q : q[i] = p}
Times(q, p) == Cardinality(At(q, p))

LEMMA TimesType ==
  ASSUME NEW q \in Seq(Points), NEW p
  PROVE  /\ IsFiniteSet(At(q, p)) /\ Times(q, p) \in Nat
         /\ Times(q, p) = 0 <=> \A i \in DOMAIN q : q[i] # p
<1>1. DOMAIN q = 1..Len(q) /\ Len(q) \in Nat
  BY LenProperties
<1>2. IsFiniteSet(1..Len(q))
  BY <1>1, FS_Interval
<1>3. At(q, p) \subseteq 1..Len(q)
  BY <1>1 DEF At
<1>4. IsFiniteSet(At(q, p))
  BY <1>2, <1>3, FS_Subset
<1>5. Cardinality(At(q, p)) \in Nat /\ (Cardinality(At(q, p)) = 0 <=> At(q, p) = {})
  BY <1>4, FS_CardinalityType, FS_EmptySet
<1>6. At(q, p) = {} <=> \A i \in DOMAIN q : q[i] # p
  BY DEF At
<1> QED
  BY <1>4, <1>5, <1>6 DEF Times

LEMMA TimesEmpty ==
  \A p : Times(<<>>, p) = 0
<1> TAKE p
<1>1. At(<<>>, p) = {}
  BY DEF At
<1> QED
  BY <1>1, FS_EmptySet DEF Times

LEMMA TimesOne ==
  ASSUME NEW x, NEW p
  PROVE  Times(<<x>>, p) = One(x = p)
<1>1. At(<<x>>, p) = IF x = p THEN {1} ELSE {}
  BY DEF At
<1> QED
  BY <1>1, FS_EmptySet, FS_Singleton DEF Times, One

LEMMA TimesConcat ==
  ASSUME NEW a \in Seq(Points), NEW b \in Seq(Points), NEW p
  PROVE  a \o b \in Seq(Points) /\ Times(a \o b, p) = Times(a, p) + Times(b, p)
<1> DEFINE n == Len(a)
           A == At(a, p)
           B == At(b, p)
           M == {i \in n + 1 .. n + Len(b) : b[i - n] = p}
           f == [i \in B |-> n + i]
<1>1. /\ a \o b \in Seq(Points) /\ Len(a \o b) = n + Len(b)
      /\ \A i \in 1 .. n + Len(b) : (a \o b)[i] = IF i <= n THEN a[i] ELSE b[i - n]
  BY ConcatProperties
<1>2. /\ n \in Nat /\ Len(b) \in Nat
      /\ DOMAIN a = 1..n /\ DOMAIN b = 1..Len(b) /\ DOMAIN (a \o b) = 1..n + Len(b)
  BY <1>1, LenProperties
<1>3. IsFiniteSet(A) /\ IsFiniteSet(B) /\ Cardinality(A) \in Nat /\ Cardinality(B) \in Nat
  BY TimesType DEF Times
<1>4. At(a \o b, p) = A \cup M
  <2>1. \A i \in 1..n + Len(b) : i \in 1..n \/ i \in n + 1 .. n + Len(b)
    BY <1>2
  <2>2. \A i \in 1..n : i \in 1..n + Len(b) /\ (a \o b)[i] = a[i]
    BY <1>1, <1>2
  <2>3. \A i \in n + 1 .. n + Len(b) : i \in 1..n + Len(b) /\ (a \o b)[i] = b[i - n]
    BY <1>1, <1>2
  <2> QED
    BY <1>2, <2>1, <2>2, <2>3 DEF At
<1>5. A \cap M = {}
  BY <1>2 DEF At
<1>6. f \in Bijection(B, M)
  <2>1. \A i \in B : i \in Int /\ n + i \in M
    BY <1>2 DEF At
  <2>2. f \in [B -> M]
    BY <2>1
  <2>3. \A i, j \in B : f[i] = f[j] => i = j
    BY <1>2, <2>1
  <2>4. \A m \in M : m - n \in B /\ n + (m - n) = m
    BY <1>2 DEF At
  <2>5. \A m \in M : \E i \in B : f[i] = m
    BY <2>4
  <2> HIDE DEF f, M, B
  <2> QED
    BY <2>2, <2>3, <2>5 DEF Bijection, Injection, Surjection, IsInjective
<1> HIDE DEF A, B, M, f
<1>7. IsFiniteSet(M) /\ Cardinality(M) = Cardinality(B)
  <2>1. ExistsBijection(B, M)
    BY <1>6 DEF ExistsBijection
  <2> QED
    BY <1>3, <2>1, FS_Bijection
<1>8. Cardinality(A \cup M) = Cardinality(A) + Cardinality(M) - Cardinality(A \cap M)
  BY <1>3, <1>7, FS_Union
<1>9. Cardinality(A \cap M) = 0
  BY <1>5, FS_EmptySet
<1>10. Cardinality(A \cup M) = Cardinality(A) + Cardinality(B)
  BY ONLY <1>3, <1>7, <1>8, <1>9
<1> QED
  BY <1>1, <1>4, <1>10 DEF Times, A, B

LEMMA TimesConcat3 ==
  ASSUME NEW a \in Seq(Points), NEW b \in Seq(Points), NEW c \in Seq(Points), NEW p
  PROVE  /\ a \o b \o c \in Seq(Points)
         /\ Times(a \o b \o c, p) = Times(a, p) + Times(b, p) + Times(c, p)
<1>1. a \o b \in Seq(Points) /\ Times(a \o b, p) = Times(a, p) + Times(b, p)
  BY TimesConcat
<1>2. /\ (a \o b) \o c \in Seq(Points)
      /\ Times((a \o b) \o c, p) = Times(a \o b, p) + Times(c, p)
  BY <1>1, TimesConcat
<1> QED
  BY <1>1, <1>2

(* The same points in another order.                                       *)
LEMMA TimesPermuted ==
  ASSUME NEW q \in Seq(Points), NEW r \in Seq(Points), NEW p, DOMAIN r = DOMAIN q,
         NEW at \in Bijection(DOMAIN q, DOMAIN q), \A k \in DOMAIN q : r[k] = q[at[k]]
  PROVE  Times(r, p) = Times(q, p)
<1> DEFINE f == [i \in At(r, p) |-> at[i]]
<1>1. at \in [DOMAIN q -> DOMAIN q]
  BY DEF Bijection, Injection
<1>2. \A i, j \in DOMAIN q : at[i] = at[j] => i = j
  BY DEF Bijection, Injection, IsInjective
<1>3. \A j \in DOMAIN q : \E i \in DOMAIN q : at[i] = j
  BY DEF Bijection, Surjection
<1>4. f \in [At(r, p) -> At(q, p)]
  BY <1>1 DEF At
<1>5. \A i, j \in At(r, p) : f[i] = f[j] => i = j
  BY <1>2 DEF At
<1>6. \A j \in At(q, p) : \E i \in At(r, p) : f[i] = j
  BY <1>3 DEF At
<1>7. f \in Bijection(At(r, p), At(q, p))
  <2> HIDE DEF f
  <2> QED
    BY <1>4, <1>5, <1>6 DEF Bijection, Injection, Surjection, IsInjective
<1>8. ExistsBijection(At(r, p), At(q, p))
  BY <1>7 DEF ExistsBijection
<1>9. Cardinality(At(q, p)) = Cardinality(At(r, p))
  BY <1>8, TimesType, FS_Bijection
<1> QED
  BY <1>9 DEF Times

(* A sequence is what is before an element, the element and what is after. *)
LEMMA TimesSplit ==
  ASSUME NEW q \in Seq(Points), NEW m \in 1..Len(q), NEW p
  PROVE  Times(q, p) = Times(SubSeq(q, 1, m - 1), p) + One(q[m] = p)
                       + Times(SubSeq(q, m + 1, Len(q)), p)
<1> DEFINE n == Len(q)
<1>1. n \in Nat /\ m \in Int /\ 1 <= m /\ m <= n /\ \A i \in 1..n : q[i] \in Points
  BY LenProperties
<1>2. q = SubSeq(q, 1, n)
  BY SubSeqFull
<1>3. SubSeq(q, 1, m) \o SubSeq(q, m + 1, n) = SubSeq(q, 1, n)
  <2>1. 1 \in 1..Len(q) + 1 /\ m \in 1 - 1 .. Len(q) /\ n \in m..Len(q)
    BY <1>1
  <2> QED
    BY <2>1, ConcatAdjacentSubSeq
<1>4. SubSeq(q, 1, m - 1) \o SubSeq(q, m, m) = SubSeq(q, 1, m)
  <2>1. 1 \in 1..Len(q) + 1 /\ m - 1 \in 1 - 1 .. Len(q) /\ m \in m - 1..Len(q) /\ (m - 1) + 1 = m
    BY <1>1
  <2>2. SubSeq(q, 1, m - 1) \o SubSeq(q, (m - 1) + 1, m) = SubSeq(q, 1, m)
    BY <2>1, ConcatAdjacentSubSeq
  <2> QED
    BY <2>1, <2>2
<1>5. SubSeq(q, m, m) = <<q[m]>>
  <2>1. SubSeq(q, m, m) \in Seq(Points) /\ Len(SubSeq(q, m, m)) = 1 /\ SubSeq(q, m, m)[1] = q[m]
    BY <1>1, SubSeqProperties
  <2>2. \A x \in Seq(Points) : Len(x) = 1 => x = <<x[1]>>
    BY ONLY SMT
  <2> QED
    BY <2>1, <2>2
<1>6. /\ SubSeq(q, 1, m - 1) \in Seq(Points) /\ SubSeq(q, m + 1, n) \in Seq(Points)
      /\ SubSeq(q, m, m) \in Seq(Points)
  BY <1>1, SubSeqProperties
<1> DEFINE a == SubSeq(q, 1, m - 1)
           b == SubSeq(q, m, m)
           c == SubSeq(q, m + 1, n)
<1> HIDE DEF n
<1>7. q = (a \o b) \o c
  BY <1>2, <1>3, <1>4, Zenon
<1> HIDE DEF a, b, c
<1>8. Times((a \o b) \o c, p) = Times(a, p) + Times(b, p) + Times(c, p)
  <2>1. a \in Seq(Points) /\ b \in Seq(Points) /\ c \in Seq(Points)
    BY <1>6 DEF a, b, c
  <2> QED
    BY ONLY <2>1, TimesConcat3
<1>9. Times(b, p) = One(q[m] = p)
  BY <1>5, TimesOne DEF b
<1>10. Times(q, p) = Times(a, p) + One(q[m] = p) + Times(c, p)
  BY ONLY <1>7, <1>8, <1>9
<1> QED
  BY <1>10 DEF a, c, n

-----------------------------------------------------------------------------
(***************************************************************************)
(* The points a tree holds, and those it has yet to report as removed.     *)
(***************************************************************************)
Held(t, p) == Times(flatten[t], p)
Due(t, p) == Times(Removed[t], p)

LEMMA HeldIs ==
  ASSUME AnyHeight, NEW p
  PROVE  /\ Held(None, p) = 0 /\ Due(None, p) = 0
         /\ \A t \in Trees : Held(t, p) \in Nat /\ Due(t, p) \in Nat
         /\ \A n \in TreeNodes :
              /\ Held(n, p) = One(~n.point_deleted /\ n.point = p)
                              + Held(Son(n, "left"), p) + Held(Son(n, "right"), p)
              /\ Due(n, p) = Due(Son(n, "left"), p) + Due(Son(n, "right"), p)
                             + One(Reported(n) /\ n.point = p)
<1>1. Held(None, p) = 0 /\ Due(None, p) = 0
  BY FlattenIs, RemovedIs, TimesEmpty DEF Held, Due
<1>2. ASSUME NEW t \in Trees
      PROVE  flatten[t] \in Seq(Points) /\ Removed[t] \in Seq(Points)
  BY FlattenIs, RemovedIs
<1>3. ASSUME NEW t \in Trees
      PROVE  Held(t, p) \in Nat /\ Due(t, p) \in Nat
  BY <1>2, TimesType DEF Held, Due
<1>4. ASSUME NEW b \in BOOLEAN, NEW x \in Points
      PROVE  /\ (IF b THEN <<x>> ELSE <<>>) \in Seq(Points)
             /\ Times(IF b THEN <<x>> ELSE <<>>, p) = One(b /\ x = p)
  BY TimesOne, TimesEmpty DEF One
<1>5. ASSUME NEW n \in TreeNodes
      PROVE  /\ Held(n, p) = One(~n.point_deleted /\ n.point = p)
                             + Held(Son(n, "left"), p) + Held(Son(n, "right"), p)
             /\ Due(n, p) = Due(Son(n, "left"), p) + Due(Son(n, "right"), p)
                            + One(Reported(n) /\ n.point = p)
  <2> DEFINE l == Son(n, "left")
             r == Son(n, "right")
             visible == IF ~n.point_deleted THEN <<n.point>> ELSE <<>>
             told == IF Reported(n) THEN <<n.point>> ELSE <<>>
  <2>1. l \in Trees /\ r \in Trees
    BY SonType DEF Side
  <2>2. n.point_deleted \in BOOLEAN /\ Reported(n) \in BOOLEAN /\ n.point \in Points
    BY DEF TreeNodes, NodesOver, Reported
  <2>3. visible \in Seq(Points) /\ Times(visible, p) = One(~n.point_deleted /\ n.point = p)
    BY <1>4, <2>2
  <2>4. told \in Seq(Points) /\ Times(told, p) = One(Reported(n) /\ n.point = p)
    BY <1>4, <2>2
  <2>5. flatten[n] = visible \o flatten[l] \o flatten[r]
    BY FlattenIs
  <2>6. Removed[n] = Removed[l] \o Removed[r] \o told
    BY RemovedIs
  <2> HIDE DEF l, r, visible, told
  <2>7. Times(visible \o flatten[l] \o flatten[r], p)
          = Times(visible, p) + Times(flatten[l], p) + Times(flatten[r], p)
    BY <1>2, <2>1, <2>3, TimesConcat3
  <2>8. Times(Removed[l] \o Removed[r] \o told, p)
          = Times(Removed[l], p) + Times(Removed[r], p) + Times(told, p)
    BY <1>2, <2>1, <2>4, TimesConcat3
  <2>9. Held(n, p) = One(~n.point_deleted /\ n.point = p) + Held(l, p) + Held(r, p)
    BY <2>3, <2>5, <2>7 DEF Held
  <2>10. Due(n, p) = Due(l, p) + Due(r, p) + One(Reported(n) /\ n.point = p)
    BY <2>4, <2>6, <2>8 DEF Due
  <2> QED
    BY <2>9, <2>10 DEF l, r
<1> QED
  BY <1>1, <1>3, <1>5

LEMMA FullSum ==
  \A o, gl, gr, sl, sr \in Nat :
    o <= 1 /\ gl <= sl /\ gr <= sr /\ 1 + sl + sr = o + gl + gr => o = 1 /\ gl = sl /\ gr = sr
  OBVIOUS

LEMMA EmptySum ==
  \A o, gl, gr \in Nat : o + gl + gr = 0 => o = 0 /\ gl = 0 /\ gr = 0
  OBVIOUS

LEMMA OneIs ==
  \A b \in BOOLEAN : One(b) \in Nat /\ One(b) <= 1 /\ (One(b) = 1 <=> b) /\ (One(b) = 0 <=> ~b)
  BY DEF One

(* A deleted tree holds nothing, a tree that the downsampling deleted has  *)
(* nothing to report either, nor has a tree without a deleted point.       *)
Emptied(t, p) ==
  /\ Gone(t) = Size(t) => Held(t, p) = 0
  /\ Down(t) = Size(t) => Held(t, p) = 0 /\ Due(t, p) = 0
  /\ Gone(t) = 0 => Due(t, p) = 0

LEMMA DeletedHolds ==
  ASSUME AnyHeight, NEW p
  PROVE  \A t \in Trees : AllExact(t) => Emptied(t, p)
<1> DEFINE S == {t \in Trees : AllExact(t) => Emptied(t, p)}
<1>1. None \in S
  BY HeldIs, TreesAre DEF Emptied
<1>2. ASSUME NEW n \in TreeNodes, \A s \in Side : Son(n, s) \in S
      PROVE  n \in S
  <2> SUFFICES ASSUME AllExact(n)
               PROVE  Emptied(n, p)
    BY TreesAre
  <2> DEFINE L == Son(n, "left")
             R == Son(n, "right")
             pd == One(n.point_deleted)
             pdd == One(n.point_downsample_deleted)
  <2>1. L \in Trees /\ R \in Trees /\ AllExact(L) /\ AllExact(R)
    BY SonType, PushDownExact DEF Side
  <2>2. Emptied(L, p) /\ Emptied(R, p)
    BY <1>2, <2>1 DEF Side
  <2>3. n.point_deleted \in BOOLEAN /\ n.point_downsample_deleted \in BOOLEAN
    BY DEF TreeNodes, NodesOver
  <2>4. /\ pd \in Nat /\ pd <= 1 /\ (pd = 1 <=> n.point_deleted) /\ (pd = 0 <=> ~n.point_deleted)
        /\ pdd \in Nat /\ pdd <= 1 /\ (pdd = 1 <=> n.point_downsample_deleted)
    BY <2>3, OneIs
  <2>5. n.point_downsample_deleted => n.point_deleted
    BY AllExactIs DEF Exact
  <2>6. /\ Size(n) = 1 + Size(L) + Size(R)
        /\ Gone(n) = pd + Gone(L) + Gone(R)
        /\ Down(n) = pdd + Down(L) + Down(R)
    <3>1. Exact(n)
      BY AllExactIs
    <3>2. n # None
      BY NoneIsNoNode
    <3> QED
      BY <3>1, <3>2 DEF Exact, Size, Gone, Down
  <2>7. /\ Size(L) \in Nat /\ Gone(L) \in Nat /\ Down(L) \in Nat
        /\ Size(R) \in Nat /\ Gone(R) \in Nat /\ Down(R) \in Nat
    BY <2>1, CountsAre
  <2>8. /\ Gone(L) <= Size(L) /\ Gone(R) <= Size(R)
        /\ Down(L) <= Gone(L) /\ Down(R) <= Gone(R)
    BY <2>1, CountsAre
  <2>9. /\ Held(n, p) = One(~n.point_deleted /\ n.point = p) + Held(L, p) + Held(R, p)
        /\ Due(n, p) = Due(L, p) + Due(R, p) + One(Reported(n) /\ n.point = p)
    BY HeldIs
  <2> HIDE DEF L, R, pd, pdd
  <2>10. Gone(n) = Size(n) => Held(n, p) = 0
    <3> SUFFICES ASSUME Gone(n) = Size(n)
                 PROVE  Held(n, p) = 0
      OBVIOUS
    <3>1. pd = 1 /\ Gone(L) = Size(L) /\ Gone(R) = Size(R)
      BY <2>4, <2>6, <2>7, <2>8, FullSum
    <3>2. Held(L, p) = 0 /\ Held(R, p) = 0
      BY <2>2, <3>1 DEF Emptied
    <3>3. One(~n.point_deleted /\ n.point = p) = 0
      BY <2>4, <3>1 DEF One
    <3> QED
      BY <2>9, <3>2, <3>3
  <2>11. Down(n) = Size(n) => Held(n, p) = 0 /\ Due(n, p) = 0
    <3> SUFFICES ASSUME Down(n) = Size(n)
                 PROVE  Held(n, p) = 0 /\ Due(n, p) = 0
      OBVIOUS
    <3>1. pdd = 1 /\ Down(L) = Size(L) /\ Down(R) = Size(R)
      <4>1. Down(L) <= Size(L) /\ Down(R) <= Size(R)
        BY <2>7, <2>8
      <4> QED
        BY <2>4, <2>6, <2>7, <4>1, FullSum
    <3>2. Held(L, p) = 0 /\ Held(R, p) = 0 /\ Due(L, p) = 0 /\ Due(R, p) = 0
      BY <2>2, <3>1 DEF Emptied
    <3>3. One(~n.point_deleted /\ n.point = p) = 0 /\ One(Reported(n) /\ n.point = p) = 0
      BY <2>4, <2>5, <3>1 DEF One, Reported
    <3> QED
      BY <2>9, <3>2, <3>3
  <2>12. Gone(n) = 0 => Due(n, p) = 0
    <3> SUFFICES ASSUME Gone(n) = 0
                 PROVE  Due(n, p) = 0
      OBVIOUS
    <3>1. pd = 0 /\ Gone(L) = 0 /\ Gone(R) = 0
      BY <2>4, <2>6, <2>7, EmptySum
    <3>2. Due(L, p) = 0 /\ Due(R, p) = 0
      BY <2>2, <3>1 DEF Emptied
    <3>3. One(Reported(n) /\ n.point = p) = 0
      BY <2>4, <3>1 DEF One, Reported
    <3> QED
      BY <2>9, <3>2, <3>3
  <2> QED
    BY <2>10, <2>11, <2>12 DEF Emptied
<1>3. \A n \in TreeNodes : (\A s \in Side : Son(n, s) \in S) => n \in S
  <2> HIDE DEF S
  <2> QED
    BY <1>2
<1>4. \A t \in Trees : t \in S
  <2> HIDE DEF S
  <2> QED
    BY <1>1, <1>3, TreeInduction
<1> QED
  BY <1>4

(***************************************************************************)
(* What a flag that is pushed down makes of the points.                    *)
(***************************************************************************)
PushFits(op, m) ==
  /\ op.tree_downsample_deleted => op.tree_deleted
  /\ op.tree_deleted \/ m.invalid = 0

PushHolds(op, m, p) ==
  /\ op.tree_deleted => Held(Pushed(op, m), p) = 0
  /\ op.tree_downsample_deleted => Due(Pushed(op, m), p) = 0
  /\ op.tree_deleted /\ ~op.tree_downsample_deleted
       => Due(Pushed(op, m), p) = Due(m, p) + Held(m, p)
  /\ ~op.tree_deleted => Held(Pushed(op, m), p) = Held(m, p) /\ Due(Pushed(op, m), p) = 0

(* The sons of a node before and after a flag was pushed to it.            *)
LEMMA PushedSons ==
  ASSUME AnyHeight, NEW op \in TreeNodes, NEW m \in TreeNodes, NEW s \in Side
  PROVE  /\ Son(Pushed(op, m), s) = (IF m.son[s] = None THEN None ELSE Pushed(Pushed(op, m), m.son[s]))
         /\ Son(m, s) = (IF m.son[s] # None /\ m.need_push[s] THEN Pushed(m, m.son[s]) ELSE m.son[s])
<1> DEFINE P == Pushed(op, m)
<1>1. P \in TreeNodes /\ P.son = m.son /\ P.need_push = Both(TRUE)
  BY PushedIs
<1>2. P.need_push[s] = TRUE
  BY <1>1 DEF Both
<1> HIDE DEF P
<1>3. Son(P, s) = IF m.son[s] = None THEN None ELSE Pushed(P, m.son[s])
  <2>1. Son(P, s) = IF P.son[s] # None /\ P.need_push[s] THEN Pushed(P, P.son[s]) ELSE P.son[s]
    BY <1>1, PushDownIs DEF Son
  <2>2. P.son[s] = m.son[s]
    BY <1>1
  <2> QED
    BY ONLY <1>2, <2>1, <2>2, Zenon
<1>4. Son(m, s) = IF m.son[s] # None /\ m.need_push[s] THEN Pushed(m, m.son[s]) ELSE m.son[s]
  BY PushDownIs DEF Son
<1> QED
  BY <1>3, <1>4 DEF P

LEMMA PushedEmptied ==
  ASSUME AnyHeight, NEW p, NEW op \in TreeNodes, NEW m \in TreeNodes, AllExact(m), PushFits(op, m)
  PROVE  /\ op.tree_deleted => Held(Pushed(op, m), p) = 0
         /\ op.tree_downsample_deleted => Due(Pushed(op, m), p) = 0
         /\ ~op.tree_deleted => Due(Pushed(op, m), p) = 0 /\ Due(m, p) = 0
<1> DEFINE P == Pushed(op, m)
<1>1. /\ P \in TreeNodes
      /\ P.tree_downsample_deleted = (m.tree_downsample_deleted \/ op.tree_downsample_deleted)
      /\ P.tree_deleted = (op.tree_deleted \/ m.tree_downsample_deleted \/ op.tree_downsample_deleted)
      /\ P.invalid = (IF op.tree_deleted \/ op.tree_downsample_deleted THEN m.size ELSE m.down_del)
  BY PushedIs
<1>2. AllExact(P)
  BY PushedExact DEF PushFits
<1>3. m \in Trees /\ m # None
  BY TreesAre, NoneIsNoNode
<1>4. Emptied(m, p)
  BY <1>3, DeletedHolds
<1> HIDE DEF P
<1>5. P \in Trees /\ P # None
  BY <1>1, TreesAre, NoneIsNoNode
<1>6. Emptied(P, p)
  BY <1>2, <1>5, DeletedHolds
<1>7. /\ P.tree_deleted => Gone(P) = Size(P)
      /\ P.tree_downsample_deleted => Down(P) = Size(P)
  BY <1>2, <1>5, CountsAre
<1>8. op.tree_deleted => Held(P, p) = 0
  BY <1>1, <1>6, <1>7 DEF Emptied
<1>9. op.tree_downsample_deleted => Due(P, p) = 0
  BY <1>1, <1>6, <1>7 DEF Emptied
<1>10. ~op.tree_deleted => Gone(m) = 0 /\ Gone(P) = 0
  <2>1. Down(m) <= Gone(m) /\ Down(m) \in Nat /\ Gone(m) = m.invalid /\ Down(m) = m.down_del
    BY <1>3, CountsAre DEF Gone, Down
  <2>2. ~op.tree_deleted => P.invalid = m.down_del /\ m.invalid = 0
    BY <1>1 DEF PushFits
  <2>3. Gone(P) = P.invalid
    BY <1>5 DEF Gone
  <2> QED
    BY <2>1, <2>2, <2>3
<1>11. ~op.tree_deleted => Due(P, p) = 0 /\ Due(m, p) = 0
  BY <1>4, <1>6, <1>10 DEF Emptied
<1> QED
  BY <1>8, <1>9, <1>11 DEF P

LEMMA PushedHolds ==
  ASSUME AnyHeight, NEW p
  PROVE  \A m \in TreeNodes : AllExact(m) =>
           \A op \in TreeNodes : PushFits(op, m) => PushHolds(op, m, p)
<1> DEFINE S == {t \in Trees : t # None /\ AllExact(t) =>
                   \A op \in TreeNodes : PushFits(op, t) => PushHolds(op, t, p)}
<1>1. None \in S
  BY TreesAre
<1>2. ASSUME NEW m \in TreeNodes, \A s \in Side : m.son[s] \in S
      PROVE  m \in S
  <2> SUFFICES ASSUME AllExact(m), NEW op \in TreeNodes, PushFits(op, m)
               PROVE  PushHolds(op, m, p)
    BY TreesAre
  <2> DEFINE P == Pushed(op, m)
  <2>1. m \in Trees /\ m # None /\ Exact(m)
    BY TreesAre, NoneIsNoNode, AllExactIs
  <2>2. /\ P \in TreeNodes /\ P.son = m.son /\ P.point = m.point
        /\ P.tree_downsample_deleted = (m.tree_downsample_deleted \/ op.tree_downsample_deleted)
        /\ P.point_downsample_deleted = (m.point_downsample_deleted \/ op.tree_downsample_deleted)
        /\ P.tree_deleted = (op.tree_deleted \/ m.tree_downsample_deleted \/ op.tree_downsample_deleted)
        /\ P.point_deleted = (op.tree_deleted \/ m.tree_downsample_deleted \/ op.tree_downsample_deleted
                              \/ m.point_downsample_deleted)
    BY PushedIs
  <2>3. /\ op.tree_deleted => Held(P, p) = 0
        /\ op.tree_downsample_deleted => Due(P, p) = 0
        /\ ~op.tree_deleted => Due(P, p) = 0 /\ Due(m, p) = 0
    BY PushedEmptied
  <2>4. \A s \in Side : m.son[s] \in Trees /\ AllExact(m.son[s])
    BY AllExactIs DEF TreeNodes, NodesOver, Side
  <2>5. \A s \in Side : m.son[s] # None => m.son[s] \in TreeNodes
    BY <2>4, TreesAre
  <2>6. ASSUME NEW s \in Side, m.son[s] # None, NEW o \in TreeNodes, PushFits(o, m.son[s])
        PROVE  PushHolds(o, m.son[s], p)
    BY <1>2, <2>4, <2>6
  <2>7. \A s \in Side :
          /\ Son(P, s) = (IF m.son[s] = None THEN None ELSE Pushed(P, m.son[s]))
          /\ Son(m, s) = (IF m.son[s] # None /\ m.need_push[s] THEN Pushed(m, m.son[s])
                                                               ELSE m.son[s])
    BY PushedSons
  <2>8. /\ op.tree_downsample_deleted => op.tree_deleted
        /\ op.tree_deleted \/ m.invalid = 0
    BY DEF PushFits
  <2>9. /\ m.tree_deleted \in BOOLEAN /\ m.tree_downsample_deleted \in BOOLEAN
        /\ m.point_deleted \in BOOLEAN /\ m.point_downsample_deleted \in BOOLEAN
        /\ op.tree_deleted \in BOOLEAN /\ op.tree_downsample_deleted \in BOOLEAN
    BY DEF TreeNodes, NodesOver
  <2>10. /\ m.point_downsample_deleted => m.point_deleted
         /\ m.tree_downsample_deleted => m.tree_deleted
         /\ m.tree_downsample_deleted => Held(m, p) = 0 /\ Due(m, p) = 0
         /\ \A s \in Side : m.son[s] # None /\ m.need_push[s]
                              => m.tree_deleted \/ m.son[s].invalid = 0
    <3>1. Emptied(m, p)
      BY <2>1, DeletedHolds
    <3>2. /\ m.tree_downsample_deleted <=> Down(m) = Size(m)
          /\ m.tree_deleted <=> Gone(m) = Size(m)
          /\ Down(m) <= Gone(m) /\ Gone(m) <= Size(m)
          /\ Down(m) \in Nat /\ Gone(m) \in Nat /\ Size(m) \in Nat
      BY <2>1, CountsAre
    <3>3. m.tree_downsample_deleted => m.tree_deleted
      BY ONLY <3>2
    <3>4. m.tree_downsample_deleted => Held(m, p) = 0 /\ Due(m, p) = 0
      BY <3>1, <3>2 DEF Emptied
    <3> QED
      BY <2>1, <3>3, <3>4 DEF Exact, Sons
  <2> HIDE DEF P
  <2>11. /\ Held(P, p) = One(~P.point_deleted /\ P.point = p)
                         + Held(Son(P, "left"), p) + Held(Son(P, "right"), p)
         /\ Due(P, p) = Due(Son(P, "left"), p) + Due(Son(P, "right"), p)
                        + One(Reported(P) /\ P.point = p)
         /\ Held(m, p) = One(~m.point_deleted /\ m.point = p)
                         + Held(Son(m, "left"), p) + Held(Son(m, "right"), p)
         /\ Due(m, p) = Due(Son(m, "left"), p) + Due(Son(m, "right"), p)
                        + One(Reported(m) /\ m.point = p)
    BY <2>2, HeldIs
  <2>12. \A s \in Side : Son(m, s) \in Trees /\ Son(P, s) \in Trees
    BY <2>2, SonType
  <2>13. \A s \in Side : /\ Held(Son(m, s), p) \in Nat /\ Due(Son(m, s), p) \in Nat
                         /\ Held(Son(P, s), p) \in Nat /\ Due(Son(P, s), p) \in Nat
    BY <2>12, HeldIs
  <2>14. Held(None, p) = 0 /\ Due(None, p) = 0
    BY HeldIs
  <2>15. op.tree_deleted /\ ~op.tree_downsample_deleted => Due(P, p) = Due(m, p) + Held(m, p)
    <3> SUFFICES ASSUME op.tree_deleted, ~op.tree_downsample_deleted
                 PROVE  Due(P, p) = Due(m, p) + Held(m, p)
      OBVIOUS
    <3>1. CASE m.tree_downsample_deleted
      <4>1. P.tree_downsample_deleted
        BY <2>2, <3>1
      <4>2. P \in Trees /\ P # None /\ AllExact(P)
        BY <2>2, PushedExact, TreesAre, NoneIsNoNode DEF PushFits, P
      <4>3. Due(P, p) = 0
        BY <4>1, <4>2, CountsAre, DeletedHolds DEF Emptied
      <4> QED
        BY <2>10, <3>1, <4>3
    <3>2. CASE ~m.tree_downsample_deleted
      <4>1. P.tree_deleted /\ ~P.tree_downsample_deleted /\ P.point_deleted
        BY <2>2, <3>2
      <4>2. ASSUME NEW s \in Side
            PROVE  Due(Son(P, s), p) = Due(Son(m, s), p) + Held(Son(m, s), p)
        <5> DEFINE x == m.son[s]
        <5>1. CASE x = None
          BY <2>7, <2>14, <5>1
        <5>2. CASE x # None
          <6>1. PushFits(P, x) /\ PushHolds(P, x, p)
            <7>1. PushFits(P, x)
              BY <4>1 DEF PushFits
            <7> QED
              BY <2>2, <2>6, <5>2, <7>1
          <6>2. Due(Son(P, s), p) = Due(x, p) + Held(x, p)
            BY <2>7, <4>1, <5>2, <6>1 DEF PushHolds
          <6>3. CASE ~m.need_push[s]
            BY <2>7, <5>2, <6>2, <6>3
          <6>4. CASE m.need_push[s]
            <7>1. Son(m, s) = Pushed(m, x)
              BY <2>7, <5>2, <6>4
            <7>2. PushFits(m, x)
              BY <2>10, <3>2, <5>2, <6>4 DEF PushFits
            <7>3. PushHolds(m, x, p)
              BY <2>6, <5>2, <7>2
            <7>4. ~m.tree_deleted => Due(x, p) = 0
              BY <2>4, <2>5, <5>2, <7>2, PushedEmptied
            <7>5. Held(x, p) \in Nat /\ Due(x, p) \in Nat
              BY <2>4, HeldIs
            <7> HIDE DEF x
            <7>6. Due(Pushed(m, x), p) + Held(Pushed(m, x), p) = Due(x, p) + Held(x, p)
              BY <3>2, <7>3, <7>4, <7>5 DEF PushHolds
            <7> QED
              BY <6>2, <7>1, <7>6
          <6> QED
            BY <6>3, <6>4
        <5> QED
          BY <5>1, <5>2
      <4>3. One(Reported(P) /\ P.point = p)
              = One(Reported(m) /\ m.point = p) + One(~m.point_deleted /\ m.point = p)
        <5>1. P.point_downsample_deleted = m.point_downsample_deleted
          BY <2>2, <2>9
        <5> QED
          BY <2>2, <2>9, <2>10, <4>1, <5>1 DEF One, Reported
      <4>4. One(Reported(m) /\ m.point = p) \in Nat /\ One(~m.point_deleted /\ m.point = p) \in Nat
        BY DEF One
      <4>5. "left" \in Side /\ "right" \in Side
        BY DEF Side
      <4> QED
        BY <2>11, <2>13, <4>2, <4>3, <4>4, <4>5
    <3> QED
      BY <3>1, <3>2
  <2>16. ~op.tree_deleted => Held(P, p) = Held(m, p)
    <3> SUFFICES ASSUME ~op.tree_deleted
                 PROVE  Held(P, p) = Held(m, p)
      OBVIOUS
    <3>1. ~m.tree_deleted /\ ~m.tree_downsample_deleted /\ ~m.point_deleted
      <4>1. /\ m.tree_deleted <=> Gone(m) = Size(m)
            /\ Size(m) \in Nat /\ Size(m) >= 1 /\ Gone(m) = m.invalid
        BY <2>1, CountsAre DEF Gone
      <4>2. m.invalid = One(m.point_deleted) + Gone(Son(m, "left")) + Gone(Son(m, "right"))
        BY <2>1 DEF Exact
      <4>3. Gone(Son(m, "left")) \in Nat /\ Gone(Son(m, "right")) \in Nat
        BY <2>12, CountsAre DEF Side
      <4>4. One(m.point_deleted) = 0
        BY <2>8, <2>9, <4>2, <4>3, OneIs, EmptySum
      <4> QED
        BY <2>8, <2>9, <2>10, <4>1, <4>4, OneIs
    <3>2. ~P.tree_deleted /\ ~P.tree_downsample_deleted /\ ~P.point_deleted
      BY <2>2, <2>8, <2>10, <3>1
    <3>3. m.invalid = 0
      BY <2>8
    <3>4. ASSUME NEW s \in Side
          PROVE  Held(Son(P, s), p) = Held(Son(m, s), p)
      <4> DEFINE x == m.son[s]
      <4>1. CASE x = None
        BY <2>7, <4>1
      <4>2. CASE x # None
        <5>1. x.invalid = 0
          <6>1. CASE m.need_push[s]
            BY <2>10, <3>1, <4>2, <6>1
          <6>2. CASE ~m.need_push[s]
            <7>1. Gone(Son(m, s)) = 0
              <8>1. m.invalid = One(m.point_deleted) + Gone(Son(m, "left")) + Gone(Son(m, "right"))
                BY <2>1 DEF Exact
              <8>2. Gone(Son(m, "left")) \in Nat /\ Gone(Son(m, "right")) \in Nat
                BY <2>12, CountsAre DEF Side
              <8>3. Gone(Son(m, "left")) = 0 /\ Gone(Son(m, "right")) = 0
                BY <2>9, <3>3, <8>1, <8>2, OneIs, EmptySum
              <8> QED
                BY <8>3 DEF Side
            <7> QED
              BY <2>7, <4>2, <6>2, <7>1 DEF Gone
          <6> QED
            BY <6>1, <6>2
        <5>2. PushFits(P, x) /\ PushFits(m, x)
          BY <3>1, <3>2, <5>1 DEF PushFits
        <5>3. PushHolds(P, x, p) /\ PushHolds(m, x, p)
          BY <2>2, <2>6, <4>2, <5>2
        <5>4. Held(Pushed(P, x), p) = Held(x, p) /\ Held(Pushed(m, x), p) = Held(x, p)
          BY <3>1, <3>2, <5>3 DEF PushHolds
        <5> QED
          BY <2>7, <4>2, <5>4
      <4> QED
        BY <4>1, <4>2
    <3>5. One(~P.point_deleted /\ P.point = p) = One(~m.point_deleted /\ m.point = p)
      BY <2>2, <3>1, <3>2 DEF One
    <3> QED
      BY <2>11, <3>4, <3>5 DEF Side
  <2> QED
    BY <2>3, <2>15, <2>16 DEF PushHolds, P
<1>3. \A n \in TreeNodes : (\A s \in Side : n.son[s] \in S) => n \in S
  <2> HIDE DEF S
  <2> QED
    BY <1>2
<1>4. \A t \in Trees : t \in S
  <2> HIDE DEF S
  <2> QED
    BY <1>1, <1>3, RawInduction
<1> QED
  BY <1>4, TreesAre, NoneIsNoNode

-----------------------------------------------------------------------------
(***************************************************************************)
(* The range of a node holds the points below it that are not deleted.     *)
(***************************************************************************)
Within(n) ==
  \A p \in Points : Held(n, p) # 0 => \A a \in Axes : n.lo[a] <= p[a] /\ p[a] <= n.hi[a]

Fitting(S) == \A m \in S : m # None => Within(m) /\ \A s \in Side : Son(m, s) \in S
Fits(t) == \E S \in SUBSET Trees : t \in S /\ Fitting(S)

LEMMA FitsIs ==
  ASSUME AnyHeight
  PROVE  /\ Fits(None)
         /\ \A n \in TreeNodes : Fits(n) <=> Within(n) /\ \A s \in Side : Fits(Son(n, s))
<1>1. Fits(None)
  <2>1. {None} \in SUBSET Trees /\ Fitting({None})
    BY TreesAre DEF Fitting
  <2> QED
    BY <2>1 DEF Fits
<1>2. ASSUME NEW n \in TreeNodes, Fits(n)
      PROVE  Within(n) /\ \A s \in Side : Fits(Son(n, s))
  <2>1. PICK S \in SUBSET Trees : n \in S /\ Fitting(S)
    BY <1>2 DEF Fits
  <2>2. n # None
    BY NoneIsNoNode
  <2>3. Within(n) /\ \A s \in Side : Son(n, s) \in S
    BY <2>1, <2>2 DEF Fitting
  <2> QED
    BY <2>1, <2>3 DEF Fits
<1>3. ASSUME NEW n \in TreeNodes, Within(n), \A s \in Side : Fits(Son(n, s))
      PROVE  Fits(n)
  <2>1. PICK L \in SUBSET Trees : Son(n, "left") \in L /\ Fitting(L)
    BY <1>3 DEF Fits, Side
  <2>2. PICK R \in SUBSET Trees : Son(n, "right") \in R /\ Fitting(R)
    BY <1>3 DEF Fits, Side
  <2> DEFINE S == {n} \cup L \cup R
  <2>3. S \in SUBSET Trees /\ n \in S
    BY TreesAre
  <2>4. Fitting(S)
    <3> SUFFICES ASSUME NEW m \in S, m # None
                 PROVE  Within(m) /\ \A s \in Side : Son(m, s) \in S
      BY DEF Fitting
    <3>1. CASE m = n
      BY <1>3, <2>1, <2>2, <3>1 DEF Side
    <3>2. CASE m \in L
      BY <2>1, <3>2 DEF Fitting
    <3>3. CASE m \in R
      BY <2>2, <3>3 DEF Fitting
    <3> QED
      BY <3>1, <3>2, <3>3
  <2> QED
    BY <2>3, <2>4 DEF Fits
<1> QED
  BY <1>1, <1>2, <1>3

LEMMA EmptyTerms == \A a, l, r \in Nat : a + l + r = 0 => a = 0 /\ l = 0 /\ r = 0
  OBVIOUS

(* A tree without points has nothing that could lie outside a range.       *)
LEMMA EmptyFits ==
  ASSUME AnyHeight, NEW t \in Trees, \A p \in Points : Held(t, p) = 0
  PROVE  Fits(t)
<1> DEFINE S == {m \in Trees : \A p \in Points : Held(m, p) = 0}
<1>1. S \in SUBSET Trees /\ t \in S
  OBVIOUS
<1>2. ASSUME NEW m \in S, m # None, NEW s \in Side
      PROVE  Son(m, s) \in S
  <2>1. m \in TreeNodes
    BY <1>2, TreesAre
  <2>2. Son(m, "left") \in Trees /\ Son(m, "right") \in Trees
    BY <2>1, SonType DEF Side
  <2>3. ASSUME NEW p \in Points
        PROVE  Held(Son(m, "left"), p) = 0 /\ Held(Son(m, "right"), p) = 0
    <3>1. Held(m, p) = One(~m.point_deleted /\ m.point = p)
                       + Held(Son(m, "left"), p) + Held(Son(m, "right"), p)
      BY <2>1, HeldIs
    <3>2. Held(Son(m, "left"), p) \in Nat /\ Held(Son(m, "right"), p) \in Nat
      BY <2>2, HeldIs
    <3>3. One(~m.point_deleted /\ m.point = p) \in Nat
      BY DEF One
    <3>4. Held(m, p) = 0
      OBVIOUS
    <3> QED
      BY ONLY <3>1, <3>2, <3>3, <3>4, EmptyTerms
  <2> QED
    BY <2>2, <2>3 DEF Side
<1>3. Fitting(S)
  BY <1>2 DEF Fitting, Within
<1> QED
  BY <1>1, <1>3 DEF Fits

(* A flag that is passed on keeps the ranges right.                        *)
LEMMA PushedFits ==
  ASSUME AnyHeight
  PROVE  \A m \in TreeNodes : AllExact(m) /\ Fits(m) =>
           \A op \in TreeNodes : PushFits(op, m) => Fits(Pushed(op, m))
<1> DEFINE S == {t \in Trees : t # None /\ AllExact(t) /\ Fits(t) =>
                   \A op \in TreeNodes : PushFits(op, t) => Fits(Pushed(op, t))}
<1>1. None \in S
  BY TreesAre
<1>2. ASSUME NEW m \in TreeNodes, \A s \in Side : m.son[s] \in S
      PROVE  m \in S
  <2> SUFFICES ASSUME AllExact(m), Fits(m), NEW op \in TreeNodes, PushFits(op, m)
               PROVE  Fits(Pushed(op, m))
    BY TreesAre
  <2> DEFINE P == Pushed(op, m)
  <2>1. /\ P \in TreeNodes /\ P.lo = m.lo /\ P.hi = m.hi
        /\ P.tree_downsample_deleted = (m.tree_downsample_deleted \/ op.tree_downsample_deleted)
        /\ P.tree_deleted = (op.tree_deleted \/ m.tree_downsample_deleted \/ op.tree_downsample_deleted)
    BY PushedIs
  <2>2. ASSUME NEW p \in Points
        PROVE  /\ op.tree_deleted => Held(P, p) = 0
               /\ ~op.tree_deleted => Held(P, p) = Held(m, p)
    BY PushedHolds DEF PushHolds
  <2>3. CASE op.tree_deleted
    <3>1. \A p \in Points : Held(P, p) = 0
      BY <2>2, <2>3
    <3> HIDE DEF P
    <3>2. P \in Trees
      BY <2>1, TreesAre
    <3>3. Fits(P)
      BY <3>1, <3>2, EmptyFits
    <3> QED
      BY <3>3 DEF P
  <2>4. CASE ~op.tree_deleted
    <3>1. Within(m) /\ \A s \in Side : Fits(Son(m, s))
      BY FitsIs
    <3>2. Within(P)
      BY <2>1, <2>2, <2>4, <3>1 DEF Within
    <3>3. m \in Trees /\ m # None /\ Exact(m)
      BY TreesAre, NoneIsNoNode, AllExactIs
    <3>4. m.invalid = 0 /\ ~op.tree_downsample_deleted
      BY <2>4 DEF PushFits
    <3>5. ~m.tree_deleted /\ ~m.tree_downsample_deleted
      <4>1. /\ m.tree_deleted <=> Gone(m) = Size(m)
            /\ m.tree_downsample_deleted <=> Down(m) = Size(m)
            /\ Size(m) \in Nat /\ Size(m) >= 1 /\ Gone(m) = m.invalid
            /\ Down(m) <= Gone(m) /\ Down(m) \in Nat
        BY <3>3, CountsAre DEF Gone
      <4> QED
        BY <3>4, <4>1
    <3>6. ~P.tree_deleted /\ ~P.tree_downsample_deleted
      BY <2>1, <2>4, <3>4, <3>5
    <3>7. ASSUME NEW s \in Side
          PROVE  Fits(Son(P, s))
      <4> DEFINE x == m.son[s]
      <4>1. /\ Son(P, s) = (IF x = None THEN None ELSE Pushed(P, x))
            /\ Son(m, s) = (IF x # None /\ m.need_push[s] THEN Pushed(m, x) ELSE x)
        BY PushedSons
      <4>2. CASE x = None
        BY <4>1, <4>2, FitsIs
      <4>3. CASE x # None
        <5>1. x \in TreeNodes /\ AllExact(x)
          BY <4>3, AllExactIs, TreesAre DEF TreeNodes, NodesOver, Side
        <5> HIDE DEF P
        <5>2. CASE m.need_push[s]
          <6>1. Pushed(P, x) = Pushed(m, x)
            <7>1. P.tree_deleted = m.tree_deleted /\ P.tree_downsample_deleted = m.tree_downsample_deleted
              BY <3>5, <3>6, <2>1 DEF TreeNodes, NodesOver
            <7> QED
              BY ONLY <7>1 DEF Pushed
          <6> QED
            BY <3>1, <4>1, <4>3, <5>2, <6>1
        <5>3. CASE ~m.need_push[s]
          <6>1. Gone(x) = 0
            <7>1. m.invalid = One(m.point_deleted) + Gone(Son(m, "left")) + Gone(Son(m, "right"))
              BY <3>3 DEF Exact
            <7>2. Gone(Son(m, "left")) \in Nat /\ Gone(Son(m, "right")) \in Nat
              BY SonType, CountsAre DEF Side
            <7>3. One(m.point_deleted) \in Nat
              BY DEF One
            <7>4. Gone(Son(m, "left")) = 0 /\ Gone(Son(m, "right")) = 0
              BY ONLY <3>4, <7>1, <7>2, <7>3, EmptyTerms
            <7>5. Gone(Son(m, s)) = 0
              BY <7>4 DEF Side
            <7> QED
              BY <4>1, <5>3, <7>5
          <6>2. PushFits(P, x)
            BY <3>6, <4>3, <6>1 DEF PushFits, Gone
          <6>3. Fits(x)
            BY <3>1, <4>1, <5>3
          <6> QED
            BY <1>2, <2>1, <4>1, <4>3, <5>1, <6>2, <6>3
        <5> QED
          BY <5>2, <5>3
      <4> QED
        BY <4>2, <4>3
    <3> HIDE DEF P
    <3>8. Fits(P)
      BY <2>1, <3>2, <3>7, FitsIs
    <3> QED
      BY <3>8 DEF P
  <2> QED
    BY <2>3, <2>4
<1>3. \A n \in TreeNodes : (\A s \in Side : n.son[s] \in S) => n \in S
  <2> HIDE DEF S
  <2> QED
    BY <1>2
<1>4. \A t \in Trees : t \in S
  <2> HIDE DEF S
  <2> QED
    BY <1>1, <1>3, RawInduction
<1> QED
  BY <1>4, TreesAre, NoneIsNoNode

Sound(t) == t \in Trees /\ AllExact(t) /\ Fits(t)
SamePoints(a, b) == \A p \in Points : Held(a, p) = Held(b, p) /\ Due(a, p) = Due(b, p)

LEMMA PushDownSound ==
  ASSUME AnyHeight, NEW n \in TreeNodes, Sound(n)
  PROVE  /\ Push_Down(n) \in TreeNodes /\ Sound(Push_Down(n)) /\ SamePoints(n, Push_Down(n))
         /\ \A s \in Side : /\ Sound(Son(n, s)) /\ Push_Down(n).son[s] = Son(n, s)
                            /\ Push_Down(n).need_push[s] => Push_Down(n).son[s] = None
                            /\ Son(Push_Down(n), s) = Son(n, s)
<1> DEFINE m == Push_Down(n)
<1>1. AllExact(n) /\ Fits(n)
  BY DEF Sound
<1>2. /\ m \in TreeNodes /\ AllExact(m)
      /\ \A s \in Side : /\ AllExact(Son(n, s)) /\ m.son[s] = Son(n, s)
                         /\ m.need_push[s] => m.son[s] = None
                         /\ Son(m, s) = Son(n, s)
  BY <1>1, PushDownExact
<1>3. /\ m.point = n.point /\ m.point_deleted = n.point_deleted
      /\ m.point_downsample_deleted = n.point_downsample_deleted
      /\ m.lo = n.lo /\ m.hi = n.hi
  BY PushDownIs
<1>4. Within(n) /\ \A s \in Side : Fits(Son(n, s))
  BY <1>1, FitsIs
<1> HIDE DEF m
<1>5. Reported(m) = Reported(n)
  BY <1>3 DEF Reported
<1>6. Son(m, "left") = Son(n, "left") /\ Son(m, "right") = Son(n, "right")
  BY <1>2 DEF Side
<1>7. SamePoints(n, m)
  BY <1>2, <1>3, <1>5, <1>6, HeldIs DEF SamePoints
<1>8. Within(m)
  BY <1>3, <1>4, <1>7 DEF Within, SamePoints
<1>9. Fits(m)
  BY <1>2, <1>4, <1>8, FitsIs
<1>10. \A s \in Side : Son(n, s) \in Trees
  BY SonType
<1> QED
  BY <1>2, <1>4, <1>7, <1>9, <1>10, TreesAre DEF Sound, m

(* What an updated node asks of its sons: a flag that is still pending     *)
(* waits for a son without deleted points.                                 *)
Ready(n) ==
  /\ n.point_downsample_deleted => n.point_deleted
  /\ \A s \in Side : Sound(n.son[s]) /\ (n.need_push[s] => Gone(n.son[s]) = 0)

LEMMA UpdatedSons ==
  ASSUME AnyHeight, NEW n \in TreeNodes, Ready(n), NEW s \in Side
  PROVE  SamePoints(n.son[s], Son(Update(n), s)) /\ Fits(Son(Update(n), s))
<1> DEFINE u == Update(n)
           x == n.son[s]
<1>1. /\ u \in TreeNodes /\ u.son = n.son /\ u.need_push = n.need_push
      /\ u.tree_deleted = AllDeleted(n)
  BY UpdateIs
<1>2. /\ \A z \in Side : AllExact(n.son[z]) /\ (n.need_push[z] => Gone(n.son[z]) = 0)
      /\ n.point_downsample_deleted => n.point_deleted
      /\ x \in Trees /\ AllExact(x) /\ Fits(x)
  BY DEF Ready, Sound
<1>3. AllExact(u)
  <2>1. AllExact(n.son["left"]) /\ AllExact(n.son["right"])
    BY <1>2 DEF Side
  <2> QED
    BY <1>2, <2>1, UpdateExact
<1>4. u \in Trees /\ u # None
  BY <1>1, TreesAre, NoneIsNoNode
<1> HIDE DEF u
<1>5. Son(u, s) = IF x # None /\ n.need_push[s] THEN Pushed(u, x) ELSE x
  <2>1. Son(u, s) = IF u.son[s] # None /\ u.need_push[s] THEN Pushed(u, u.son[s]) ELSE u.son[s]
    BY <1>1, PushDownIs DEF Son
  <2>2. u.son[s] = x /\ u.need_push[s] = n.need_push[s]
    BY <1>1
  <2> HIDE DEF x
  <2> QED
    BY ONLY <2>1, <2>2, Zenon
<1>6. CASE x # None /\ n.need_push[s]
  <2>1. x \in TreeNodes /\ Gone(x) = 0 /\ x.invalid = 0
    BY <1>2, <1>6, TreesAre DEF Gone
  <2>2. ~x.tree_deleted
    BY <1>2, <1>6, <2>1, CountsAre
  <2>3. ~u.tree_deleted
    BY <1>1, <1>6, <2>2 DEF AllDeleted, Sons
  <2>4. ~u.tree_downsample_deleted
    <3>1. /\ u.tree_deleted <=> Gone(u) = Size(u)
          /\ u.tree_downsample_deleted <=> Down(u) = Size(u)
          /\ Down(u) <= Gone(u) /\ Gone(u) <= Size(u)
          /\ Down(u) \in Nat /\ Gone(u) \in Nat /\ Size(u) \in Nat
      BY <1>3, <1>4, CountsAre
    <3> QED
      BY ONLY <2>3, <3>1
  <2>5. PushFits(u, x)
    BY <2>1, <2>4 DEF PushFits
  <2>6. \A p \in Points : PushHolds(u, x, p)
    BY <1>1, <1>2, <2>1, <2>5, PushedHolds
  <2>7. \A p \in Points : Due(x, p) = 0
    BY <1>2, <2>1, DeletedHolds DEF Emptied
  <2>8. SamePoints(x, Pushed(u, x))
    BY <2>3, <2>6, <2>7 DEF PushHolds, SamePoints
  <2>9. Fits(Pushed(u, x))
    BY <1>1, <1>2, <2>1, <2>5, PushedFits
  <2> QED
    BY <1>5, <1>6, <2>8, <2>9 DEF u
<1>7. CASE ~(x # None /\ n.need_push[s])
  BY <1>2, <1>5, <1>7 DEF SamePoints, u
<1> QED
  BY <1>6, <1>7

LEMMA SomeTerm == \A a, l, r \in Nat : a + l + r # 0 => a # 0 \/ l # 0 \/ r # 0
  OBVIOUS

(* The update of a node: its points are its own and those of its sons.     *)
LEMMA UpdateSound ==
  ASSUME AnyHeight, NEW n \in TreeNodes, Ready(n)
  PROVE  /\ Sound(Update(n))
         /\ \A p \in Points :
              /\ Held(Update(n), p) = One(~n.point_deleted /\ n.point = p)
                                      + Held(n.son["left"], p) + Held(n.son["right"], p)
              /\ Due(Update(n), p) = Due(n.son["left"], p) + Due(n.son["right"], p)
                                     + One(Reported(n) /\ n.point = p)
<1> DEFINE u == Update(n)
<1>0. "left" \in Side /\ "right" \in Side
  BY DEF Side
<1>1. /\ u \in TreeNodes /\ u.son = n.son /\ u.point = n.point
      /\ u.point_deleted = n.point_deleted
      /\ u.point_downsample_deleted = n.point_downsample_deleted
      /\ \A c \in Corners(n, AllDeleted(n)), a \in Axes : u.lo[a] <= c[a] /\ c[a] <= u.hi[a]
  BY UpdateIs
<1>2. \A s \in Side : SamePoints(n.son[s], Son(u, s)) /\ Fits(Son(u, s))
  BY UpdatedSons
<1>3. AllExact(u)
  <2>1. AllExact(n.son["left"]) /\ AllExact(n.son["right"])
    BY <1>0 DEF Ready, Sound
  <2>2. /\ n.point_downsample_deleted => n.point_deleted
        /\ \A s \in Side : n.need_push[s] => Gone(n.son[s]) = 0
    BY DEF Ready
  <2> QED
    BY <2>1, <2>2, UpdateExact
<1> HIDE DEF u
<1>4. Reported(u) = Reported(n)
  BY <1>1 DEF Reported
<1>5. ASSUME NEW p \in Points
      PROVE  /\ Held(u, p) = One(~n.point_deleted /\ n.point = p)
                             + Held(n.son["left"], p) + Held(n.son["right"], p)
             /\ Due(u, p) = Due(n.son["left"], p) + Due(n.son["right"], p)
                            + One(Reported(n) /\ n.point = p)
  <2>1. /\ Held(u, p) = One(~u.point_deleted /\ u.point = p)
                        + Held(Son(u, "left"), p) + Held(Son(u, "right"), p)
        /\ Due(u, p) = Due(Son(u, "left"), p) + Due(Son(u, "right"), p)
                       + One(Reported(u) /\ u.point = p)
    BY <1>1, HeldIs
  <2>2. /\ Held(n.son["left"], p) = Held(Son(u, "left"), p)
        /\ Held(n.son["right"], p) = Held(Son(u, "right"), p)
        /\ Due(n.son["left"], p) = Due(Son(u, "left"), p)
        /\ Due(n.son["right"], p) = Due(Son(u, "right"), p)
    BY <1>0, <1>2 DEF SamePoints
  <2> QED
    BY <1>1, <1>4, <2>1, <2>2
<1>6. ASSUME NEW s \in Side, NEW p \in Points, Held(n.son[s], p) # 0, NEW a \in Axes
      PROVE  u.lo[a] <= p[a] /\ p[a] <= u.hi[a]
  <2> DEFINE x == n.son[s]
  <2>1. x \in Trees /\ AllExact(x) /\ Fits(x)
    BY DEF Ready, Sound
  <2>2. x # None
    BY <1>6, HeldIs
  <2>3. x \in TreeNodes
    BY <2>1, <2>2, TreesAre
  <2>4. ~x.tree_deleted
    BY <1>6, <2>1, <2>2, CountsAre, DeletedHolds DEF Emptied
  <2>5. x.lo \in Corners(n, AllDeleted(n)) /\ x.hi \in Corners(n, AllDeleted(n))
    BY <2>2, <2>4 DEF Corners, Sons
  <2>6. x.lo[a] <= p[a] /\ p[a] <= x.hi[a]
    BY <1>6, <2>1, <2>3, FitsIs DEF Within
  <2>7. u.lo[a] <= x.lo[a] /\ x.hi[a] <= u.hi[a]
    BY <1>1, <2>5
  <2>8. /\ u.lo[a] \in Int /\ u.hi[a] \in Int /\ x.lo[a] \in Int /\ x.hi[a] \in Int
        /\ p[a] \in Int
    BY <1>1, <2>3, TreeAssumption DEF TreeNodes, NodesOver
  <2> HIDE DEF x
  <2> QED
    BY ONLY <2>6, <2>7, <2>8
<1>7. Within(u)
  <2> SUFFICES ASSUME NEW p \in Points, Held(u, p) # 0, NEW a \in Axes
               PROVE  u.lo[a] <= p[a] /\ p[a] <= u.hi[a]
    BY DEF Within
  <2> DEFINE own == One(~n.point_deleted /\ n.point = p)
             l == Held(n.son["left"], p)
             r == Held(n.son["right"], p)
  <2>1. Held(u, p) = own + l + r
    BY <1>5
  <2>2. own \in Nat /\ l \in Nat /\ r \in Nat
    BY <1>0, HeldIs DEF One, Ready, Sound
  <2>3. CASE own # 0
    <3>1. ~n.point_deleted /\ n.point = p
      BY <2>3 DEF One
    <3>2. n.point \in Corners(n, AllDeleted(n))
      BY <3>1 DEF Corners
    <3> QED
      BY <1>1, <3>1, <3>2
  <2>4. CASE l # 0
    BY <1>0, <1>6, <2>4
  <2>5. CASE r # 0
    BY <1>0, <1>6, <2>5
  <2> HIDE DEF own, l, r
  <2>6. own # 0 \/ l # 0 \/ r # 0
    BY ONLY <2>1, <2>2, Held(u, p) # 0, SomeTerm
  <2> QED
    BY <2>3, <2>4, <2>5, <2>6
<1>8. Sound(u)
  BY <1>1, <1>2, <1>3, <1>7, FitsIs, TreesAre DEF Sound
<1> QED
  BY <1>5, <1>8 DEF u

LEMMA SortedHolds ==
  ASSUME AnyHeight, NEW rank \in [Points -> Int], NEW q \in Seq(Points), q # <<>>, NEW p
  PROVE  Times(q, p) = Times(Lower(q, rank), p) + One(Sorted(q, rank)[Middle(Len(q))] = p)
                       + Times(Upper(q, rank), p)
<1> DEFINE s == Sorted(q, rank)
           m == Middle(Len(q))
<1>1. Widest(q) \in Axes
  BY WidestIs
<1>2. /\ s \in Seq(Points) /\ Len(s) = Len(q)
      /\ \E at \in Bijection(DOMAIN q, DOMAIN q) : \A k \in DOMAIN q : s[k] = q[at[k]]
  BY <1>1, ArrangedIs DEF Sorted
<1> HIDE DEF s
<1>3. DOMAIN s = DOMAIN q
  BY <1>2
<1>4. Times(s, p) = Times(q, p)
  <2>1. PICK at \in Bijection(DOMAIN q, DOMAIN q) : \A k \in DOMAIN q : s[k] = q[at[k]]
    BY <1>2
  <2> QED
    BY <1>2, <1>3, <2>1, TimesPermuted
<1>5. m \in 1..Len(s)
  <2>1. Len(q) \in Nat /\ Len(q) > 0
    OBVIOUS
  <2> QED
    BY <1>2, <2>1, MiddleIs
<1> HIDE DEF m
<1>6. Times(s, p) = Times(SubSeq(s, 1, m - 1), p) + One(s[m] = p) + Times(SubSeq(s, m + 1, Len(s)), p)
  BY <1>2, <1>5, TimesSplit
<1> QED
  BY <1>2, <1>4, <1>6 DEF Lower, Upper, s, m

(* A tree that is built holds the points it is built from, and owes none.  *)
LEMMA BuildSound ==
  ASSUME AnyHeight, NEW rank \in [Points -> Int]
  PROVE  \A q \in Seq(Points) :
           /\ Sound(BuildTree(q, rank))
           /\ \A p \in Points : /\ Held(BuildTree(q, rank), p) = Times(q, p)
                                /\ Due(BuildTree(q, rank), p) = 0
<1> DEFINE X == Seq(Points)
           h == [q \in X |-> Len(q)]
           B(q) == BuildTree(q, rank)
           S == {q \in X : /\ Fits(B(q))
                           /\ \A p \in Points : Held(B(q), p) = Times(q, p) /\ Due(B(q), p) = 0}
<1>1. h \in [X -> Nat]
  OBVIOUS
<1>2. \A q \in X : B(q) \in Trees /\ AllExact(B(q))
  BY BuildTreeIs, BuildExact
<1>3. ASSUME NEW q \in X, \A y \in X : h[y] < h[q] => y \in S
      PROVE  q \in S
  <2>1. CASE q = <<>>
    <3>1. B(q) = None
      BY <2>1, BuildTreeIs
    <3> HIDE DEF B
    <3> QED
      BY <2>1, <3>1, FitsIs, HeldIs, TimesEmpty
  <2>2. CASE q # <<>>
    <3> DEFINE l == B(Lower(q, rank))
               r == B(Upper(q, rank))
               c == Sorted(q, rank)[Middle(Len(q))]
               k == MiddleNode(q, rank)
               n == WithSons(k, Two(l, r))
    <3>1. /\ Lower(q, rank) \in X /\ Len(Lower(q, rank)) < Len(q)
          /\ Upper(q, rank) \in X /\ Len(Upper(q, rank)) < Len(q)
          /\ Widest(q) \in Axes /\ c \in Points
      BY <2>2, HalvesAre
    <3>2. Lower(q, rank) \in S /\ Upper(q, rank) \in S
      <4> HIDE DEF S
      <4> QED
        BY <1>3, <3>1
    <3>3. Sound(l) /\ Sound(r)
      BY <1>2, <3>1, <3>2 DEF Sound
    <3>4. \A p \in Points : /\ Held(l, p) = Times(Lower(q, rank), p) /\ Due(l, p) = 0
                            /\ Held(r, p) = Times(Upper(q, rank), p) /\ Due(r, p) = 0
      BY <3>2
    <3>5. B(q) = Update(n)
      BY <2>2, BuildTreeIs
    <3>6. /\ k \in TreeNodes /\ k.point = c /\ k.point_deleted = FALSE
          /\ k.point_downsample_deleted = FALSE /\ k.need_push = Both(FALSE)
      BY <3>1, NodeIs DEF MiddleNode
    <3> HIDE DEF B, l, r, c, k
    <3>7. /\ Two(l, r) \in [Side -> Trees] /\ Two(l, r)["left"] = l /\ Two(l, r)["right"] = r
      BY <3>3, TwoIs DEF Sound
    <3>8. /\ n \in TreeNodes /\ n.point = c /\ n.point_deleted = FALSE
          /\ n.point_downsample_deleted = FALSE /\ n.need_push = Both(FALSE)
          /\ n.son["left"] = l /\ n.son["right"] = r
      BY <3>6, <3>7, WithSonsIs
    <3> HIDE DEF n
    <3>9. Ready(n)
      BY <3>3, <3>8 DEF Ready, Side, Both
    <3>10. ~Reported(n)
      BY <3>8 DEF Reported
    <3>11. ASSUME NEW p \in Points
           PROVE  Held(Update(n), p) = Times(q, p) /\ Due(Update(n), p) = 0
      <4> DEFINE own == One(c = p)
                 a == Times(Lower(q, rank), p)
                 b == Times(Upper(q, rank), p)
      <4>1. /\ Held(Update(n), p) = One(~n.point_deleted /\ n.point = p)
                                      + Held(n.son["left"], p) + Held(n.son["right"], p)
            /\ Due(Update(n), p) = Due(n.son["left"], p) + Due(n.son["right"], p)
                                     + One(Reported(n) /\ n.point = p)
        BY <3>8, <3>9, UpdateSound
      <4>2. One(~n.point_deleted /\ n.point = p) = own /\ One(Reported(n) /\ n.point = p) = 0
        BY <3>8, <3>10 DEF One
      <4>3. /\ Held(n.son["left"], p) = a /\ Due(n.son["left"], p) = 0
            /\ Held(n.son["right"], p) = b /\ Due(n.son["right"], p) = 0
        BY <3>4, <3>8
      <4>4. Times(q, p) = a + own + b
        BY <2>2, SortedHolds DEF c
      <4>5. a \in Nat /\ b \in Nat /\ own \in Nat
        BY <3>1, TimesType DEF One
      <4> HIDE DEF own, a, b
      <4> QED
        BY ONLY <4>1, <4>2, <4>3, <4>4, <4>5
    <3>12. Fits(Update(n))
      BY <3>8, <3>9, UpdateSound DEF Sound
    <3> QED
      BY <3>5, <3>11, <3>12
  <2> QED
    BY <2>1, <2>2
<1>4. X \subseteq S
  <2> HIDE DEF h, S, X
  <2> QED
    BY <1>1, <1>3, MeasureInduction
<1> QED
  BY <1>2, <1>4 DEF Sound

(* How an insertion or a deletion leaves a node: with or without a rebuild, *)
(* no point is lost, and what was owed is still owed or is reported.        *)
LEMMA FinishSound ==
  ASSUME AnyHeight, NEW n \in TreeNodes, Ready(n), NEW rank \in [Points -> Int]
  PROVE  LET e == Finish(n, rank)
         IN /\ e \in Results /\ Sound(e.tree)
            /\ \A p \in Points :
                 /\ Held(e.tree, p) = One(~n.point_deleted /\ n.point = p)
                                      + Held(n.son["left"], p) + Held(n.son["right"], p)
                 /\ Due(e.tree, p) + Times(e.removed, p)
                      = Due(n.son["left"], p) + Due(n.son["right"], p)
                        + One(Reported(n) /\ n.point = p)
<1> DEFINE e == Finish(n, rank)
           u == Update(n)
<1>1. e \in Results
  BY FinishIs
<1>2. \/ e.tree = u /\ e.removed = <<>>
      \/ e.tree = BuildTree(flatten[u], rank) /\ e.removed = Removed[u]
  BY FinishIs
<1>3. Sound(u) /\ u \in Trees
  BY UpdateSound DEF Sound
<1>4. \A p \in Points :
        /\ Held(u, p) = One(~n.point_deleted /\ n.point = p)
                        + Held(n.son["left"], p) + Held(n.son["right"], p)
        /\ Due(u, p) = Due(n.son["left"], p) + Due(n.son["right"], p)
                       + One(Reported(n) /\ n.point = p)
  BY UpdateSound
<1> HIDE DEF u, e
<1>5. Sound(e.tree) /\ \A p \in Points : /\ Held(e.tree, p) = Held(u, p)
                                         /\ Due(e.tree, p) + Times(e.removed, p) = Due(u, p)
  <2>1. \A p \in Points : Held(u, p) \in Nat /\ Due(u, p) \in Nat
    BY <1>3, HeldIs
  <2>2. CASE e.tree = u /\ e.removed = <<>>
    BY <1>3, <2>1, <2>2, TimesEmpty
  <2>3. CASE e.tree = BuildTree(flatten[u], rank) /\ e.removed = Removed[u]
    <3>1. flatten[u] \in Seq(Points)
      BY <1>3, FlattenIs
    <3>2. /\ Sound(e.tree)
          /\ \A p \in Points : Held(e.tree, p) = Times(flatten[u], p) /\ Due(e.tree, p) = 0
      BY <2>3, <3>1, BuildSound
    <3>3. \A p \in Points : Held(u, p) = Times(flatten[u], p) /\ Due(u, p) = Times(e.removed, p)
      BY <2>3 DEF Held, Due
    <3> QED
      BY <2>1, <3>2, <3>3
  <2> QED
    BY <1>2, <2>2, <2>3
<1>6. \A p \in Points :
        /\ Held(e.tree, p) = One(~n.point_deleted /\ n.point = p)
                             + Held(n.son["left"], p) + Held(n.son["right"], p)
        /\ Due(e.tree, p) + Times(e.removed, p)
             = Due(n.son["left"], p) + Due(n.son["right"], p) + One(Reported(n) /\ n.point = p)
  BY <1>4, <1>5
<1> QED
  BY <1>1, <1>5, <1>6 DEF e

(* Deleting all of a node is what a flag of its father would do to it.     *)
LEMMA DeleteAllIsPushed ==
  ASSUME NEW n \in TreeNodes, NEW ds \in BOOLEAN
  PROVE  LET op == [n EXCEPT !.tree_deleted = TRUE, !.tree_downsample_deleted = ds]
         IN /\ op \in TreeNodes /\ op.tree_deleted = TRUE /\ op.tree_downsample_deleted = ds
            /\ DeleteAll(n, ds) = Pushed(op, n)
<1> DEFINE op == [n EXCEPT !.tree_deleted = TRUE, !.tree_downsample_deleted = ds]
<1>1. op \in TreeNodes /\ op.tree_deleted = TRUE /\ op.tree_downsample_deleted = ds
  BY DEF TreeNodes, NodesOver
<1> HIDE DEF op
<1>2. DeleteAll(n, ds) = Pushed(op, n)
  BY <1>1 DEF DeleteAll, Pushed, TreeNodes, NodesOver
<1> QED
  BY <1>1, <1>2 DEF op

LEMMA DeleteAllSound ==
  ASSUME AnyHeight, NEW n \in TreeNodes, NEW ds \in BOOLEAN, Sound(n)
  PROVE  /\ Sound(DeleteAll(n, ds))
         /\ \A p \in Points :
              /\ Held(DeleteAll(n, ds), p) = 0
              /\ Due(DeleteAll(n, ds), p) = IF ds THEN 0 ELSE Due(n, p) + Held(n, p)
<1> DEFINE x == DeleteAll(n, ds)
           op == [n EXCEPT !.tree_deleted = TRUE, !.tree_downsample_deleted = ds]
<1>1. op \in TreeNodes /\ op.tree_deleted = TRUE /\ op.tree_downsample_deleted = ds /\ x = Pushed(op, n)
  BY ONLY DeleteAllIsPushed, n \in TreeNodes, ds \in BOOLEAN, Zenon
<1>2. x \in TreeNodes
  BY DeleteAllIs
<1>3. AllExact(n) /\ AllExact(x)
  BY DeleteAllExact DEF Sound
<1> HIDE DEF x, op
<1>4. PushFits(op, n)
  BY <1>1 DEF PushFits
<1>5. \A p \in Points : PushHolds(op, n, p)
  BY <1>1, <1>3, <1>4, PushedHolds
<1>6. \A p \in Points : Held(x, p) = 0 /\ Due(x, p) = IF ds THEN 0 ELSE Due(n, p) + Held(n, p)
  BY <1>1, <1>5 DEF PushHolds
<1>7. x \in Trees
  BY <1>2, TreesAre
<1>8. Fits(x)
  BY <1>6, <1>7, EmptyFits
<1> QED
  BY <1>3, <1>6, <1>7, <1>8 DEF Sound, x

LEMMA DeletePointSound ==
  ASSUME AnyHeight, NEW n \in TreeNodes, Sound(n), ~n.point_deleted,
         \A s \in Side : n.need_push[s] => n.son[s] = None
  PROVE  /\ Sound(DeletePoint(n))
         /\ \A p \in Points :
              /\ Held(DeletePoint(n), p) + One(n.point = p) = Held(n, p)
              /\ Due(DeletePoint(n), p) = Due(n, p) + One(n.point = p)
<1> DEFINE x == DeletePoint(n)
<1>1. /\ x \in TreeNodes /\ x.son = n.son /\ x.point = n.point /\ x.lo = n.lo /\ x.hi = n.hi
      /\ x.need_push = n.need_push /\ x.point_deleted = TRUE
      /\ x.point_downsample_deleted = n.point_downsample_deleted
  BY DeletePointIs
<1>2. AllExact(n) /\ Fits(n)
  BY DEF Sound
<1>3. AllExact(x)
  BY <1>2, DeletePointExact
<1>4. ~n.point_downsample_deleted
  BY <1>2, AllExactIs DEF Exact
<1> HIDE DEF x
<1>5. \A s \in Side : Son(x, s) = Son(n, s)
  <2> TAKE s \in Side
  <2>1. Son(x, s) = (IF x.son[s] # None /\ x.need_push[s] THEN Pushed(x, x.son[s]) ELSE x.son[s])
    BY <1>1, PushDownIs DEF Son
  <2>2. Son(n, s) = (IF n.son[s] # None /\ n.need_push[s] THEN Pushed(n, n.son[s]) ELSE n.son[s])
    BY PushDownIs DEF Son
  <2>3. ~(n.son[s] # None /\ n.need_push[s]) /\ x.son[s] = n.son[s] /\ x.need_push[s] = n.need_push[s]
    BY <1>1
  <2> QED
    BY ONLY <2>1, <2>2, <2>3, Zenon
<1>6. ASSUME NEW p \in Points
      PROVE  Held(x, p) + One(n.point = p) = Held(n, p) /\ Due(x, p) = Due(n, p) + One(n.point = p)
  <2> DEFINE own == One(n.point = p)
             l == Held(Son(n, "left"), p)   r == Held(Son(n, "right"), p)
             dl == Due(Son(n, "left"), p)   dr == Due(Son(n, "right"), p)
  <2>1. Son(x, "left") = Son(n, "left") /\ Son(x, "right") = Son(n, "right")
    BY <1>5 DEF Side
  <2>2. /\ Held(x, p) = One(~x.point_deleted /\ x.point = p) + l + r
        /\ Due(x, p) = dl + dr + One(Reported(x) /\ x.point = p)
        /\ Held(n, p) = One(~n.point_deleted /\ n.point = p) + l + r
        /\ Due(n, p) = dl + dr + One(Reported(n) /\ n.point = p)
    BY <1>1, <2>1, HeldIs
  <2>3. /\ One(~x.point_deleted /\ x.point = p) = 0 /\ One(Reported(x) /\ x.point = p) = own
        /\ One(~n.point_deleted /\ n.point = p) = own /\ One(Reported(n) /\ n.point = p) = 0
    BY <1>1, <1>4 DEF One, Reported
  <2>4. l \in Nat /\ r \in Nat /\ dl \in Nat /\ dr \in Nat /\ own \in Nat
    BY SonType, HeldIs DEF Side, One
  <2> HIDE DEF own, l, r, dl, dr
  <2>5. Held(x, p) + own = Held(n, p) /\ Due(x, p) = Due(n, p) + own
    BY ONLY <2>2, <2>3, <2>4
  <2> QED
    BY <2>5 DEF own
<1>7. Fits(x)
  <2>1. Within(n) /\ \A s \in Side : Fits(Son(n, s))
    BY <1>2, FitsIs
  <2>2. ASSUME NEW p \in Points, Held(x, p) # 0
        PROVE  Held(n, p) # 0
    <3>1. Held(x, p) \in Nat /\ One(n.point = p) \in Nat
      BY <1>1, HeldIs, TreesAre DEF One
    <3> HIDE DEF One
    <3> QED
      BY <1>6, <2>2, <3>1
  <2>3. Within(x)
    BY <1>1, <2>1, <2>2 DEF Within
  <2> QED
    BY <1>1, <1>5, <2>1, <2>3, FitsIs
<1> QED
  BY <1>1, <1>3, <1>6, <1>7, TreesAre DEF Sound, x

LEMMA OneSideChanges ==
  \A a, x, y, d \in Nat : a + d + y + x = a + x + y + d /\ a + y + d + x = a + y + x + d
                          /\ (d + y + a) + x = (x + y + a) + d /\ (y + d + a) + x = (y + x + a) + d
  OBVIOUS

(* One side of a node replaced: what it holds and owes changes as the side. *)
LEMMA OnTheWaySound ==
  ASSUME AnyHeight, NEW t \in TreeNodes, Sound(t), NEW s \in Side, NEW d, Sound(d),
         NEW rank \in [Points -> Int], Push_Down(t).need_push[s] => Gone(d) = 0
  PROVE  LET e == Finish(WithSon(Push_Down(t), s, d), rank)
         IN /\ e \in Results /\ Sound(e.tree)
            /\ \A p \in Points :
                 /\ Held(e.tree, p) + Held(Son(t, s), p) = Held(t, p) + Held(d, p)
                 /\ Due(e.tree, p) + Times(e.removed, p) + Due(Son(t, s), p)
                      = Due(t, p) + Due(d, p)
<1> DEFINE n == Push_Down(t)
           f == [n.son EXCEPT ![s] = d]
           m == WithSons(n, f)
           e == Finish(m, rank)
<1>1. /\ n \in TreeNodes /\ Sound(n) /\ SamePoints(t, n)
      /\ \A x \in Side : /\ Sound(Son(t, x)) /\ n.son[x] = Son(t, x)
                         /\ n.need_push[x] => n.son[x] = None
                         /\ Son(n, x) = Son(t, x)
  BY PushDownSound
<1>2. n.need_push[s] => Gone(d) = 0
  OBVIOUS
<1>3. d \in Trees
  BY DEF Sound
<1> HIDE DEF n
<1>4. WithSon(n, s, d) = m /\ f \in [Side -> Trees]
  BY <1>1, <1>3, WithSonIs
<1>5. \A x \in Side : f[x] = IF x = s THEN d ELSE n.son[x]
  BY <1>1 DEF TreeNodes, NodesOver
<1> HIDE DEF f
<1>6. /\ m \in TreeNodes /\ m.son = f /\ m.need_push = n.need_push /\ m.point = n.point
      /\ m.point_deleted = n.point_deleted
      /\ m.point_downsample_deleted = n.point_downsample_deleted
  BY <1>1, <1>4, WithSonsIs
<1> HIDE DEF m
<1>7. Ready(m)
  <2>1. n.point_downsample_deleted => n.point_deleted
    BY <1>1, AllExactIs DEF Sound, Exact
  <2>2. \A x \in Side : Sound(f[x]) /\ (n.need_push[x] => Gone(f[x]) = 0)
    BY <1>1, <1>2, <1>5 DEF Gone
  <2> QED
    BY <1>6, <2>1, <2>2 DEF Ready
<1>8. /\ e \in Results /\ Sound(e.tree)
      /\ \A p \in Points :
           /\ Held(e.tree, p) = One(~m.point_deleted /\ m.point = p)
                                + Held(m.son["left"], p) + Held(m.son["right"], p)
           /\ Due(e.tree, p) + Times(e.removed, p)
                = Due(m.son["left"], p) + Due(m.son["right"], p) + One(Reported(m) /\ m.point = p)
  BY <1>6, <1>7, FinishSound
<1> HIDE DEF e
<1>9. Reported(m) = Reported(n)
  BY <1>6 DEF Reported
<1>10. ASSUME NEW p \in Points
       PROVE  /\ Held(e.tree, p) + Held(Son(t, s), p) = Held(t, p) + Held(d, p)
              /\ Due(e.tree, p) + Times(e.removed, p) + Due(Son(t, s), p) = Due(t, p) + Due(d, p)
  <2> DEFINE own == One(~n.point_deleted /\ n.point = p)
             told == One(Reported(n) /\ n.point = p)
             l == Son(t, "left")
             r == Son(t, "right")
  <2>1. /\ Held(t, p) = own + Held(l, p) + Held(r, p)
        /\ Due(t, p) = Due(l, p) + Due(r, p) + told
    <3>1. /\ Held(n, p) = own + Held(Son(n, "left"), p) + Held(Son(n, "right"), p)
          /\ Due(n, p) = Due(Son(n, "left"), p) + Due(Son(n, "right"), p) + told
      BY <1>1, HeldIs
    <3>2. Son(n, "left") = l /\ Son(n, "right") = r
      BY <1>1 DEF Side
    <3>3. Held(t, p) = Held(n, p) /\ Due(t, p) = Due(n, p)
      BY <1>1 DEF SamePoints
    <3> QED
      BY ONLY <3>1, <3>2, <3>3
  <2>2. /\ Held(e.tree, p) = own + Held(f["left"], p) + Held(f["right"], p)
        /\ Due(e.tree, p) + Times(e.removed, p) = Due(f["left"], p) + Due(f["right"], p) + told
    <3>1. /\ Held(e.tree, p) = One(~m.point_deleted /\ m.point = p)
                               + Held(m.son["left"], p) + Held(m.son["right"], p)
          /\ Due(e.tree, p) + Times(e.removed, p)
               = Due(m.son["left"], p) + Due(m.son["right"], p) + One(Reported(m) /\ m.point = p)
      BY <1>8
    <3> QED
      BY ONLY <1>6, <1>9, <3>1
  <2>3. /\ own \in Nat /\ told \in Nat
        /\ Held(l, p) \in Nat /\ Held(r, p) \in Nat /\ Held(d, p) \in Nat
        /\ Due(l, p) \in Nat /\ Due(r, p) \in Nat /\ Due(d, p) \in Nat
    BY <1>3, SonType, HeldIs DEF Side, One
  <2>4. CASE s = "left"
    <3>1. f["left"] = d /\ f["right"] = r /\ Son(t, s) = l
      BY <1>1, <1>5, <2>4 DEF Side
    <3> HIDE DEF own, told, l, r
    <3> QED
      BY ONLY <2>1, <2>2, <2>3, <3>1, OneSideChanges
  <2>5. CASE s = "right"
    <3>1. f["left"] = l /\ f["right"] = d /\ Son(t, s) = r
      BY <1>1, <1>5, <2>5 DEF Side
    <3> HIDE DEF own, told, l, r
    <3> QED
      BY ONLY <2>1, <2>2, <2>3, <3>1, OneSideChanges
  <2> QED
    BY <2>4, <2>5 DEF Side
<1> QED
  BY <1>4, <1>8, <1>10 DEF e, n

-----------------------------------------------------------------------------
(***************************************************************************)
(* What the operations make of the points.                                 *)
(***************************************************************************)
Takes(t, d, at) ==
  /\ d \in Results /\ Sound(d.tree)
  /\ \E b \in BOOLEAN : \A p \in Points :
       /\ Held(d.tree, p) + One(b /\ p = at) = Held(t, p)
       /\ Due(d.tree, p) + Times(d.removed, p) = Due(t, p) + One(b /\ p = at)

LEMMA ResultIs ==
  \A x, y : [tree |-> x, removed |-> y].tree = x /\ [tree |-> x, removed |-> y].removed = y
  OBVIOUS

LEMMA DeletePointTakes ==
  ASSUME AnyHeight, NEW t \in TreeNodes, Sound(t), ~Push_Down(t).point_deleted
  PROVE  Takes(t, [tree |-> DeletePoint(Push_Down(t)), removed |-> <<>>], Push_Down(t).point)
<1> DEFINE n == Push_Down(t)
           x == DeletePoint(n)
           d == [tree |-> x, removed |-> <<>>]
<1>1. /\ n \in TreeNodes /\ Sound(n) /\ SamePoints(t, n)
      /\ \A s \in Side : n.need_push[s] => n.son[s] = None
  BY PushDownSound
<1>2. ~n.point_deleted
  OBVIOUS
<1> HIDE DEF n
<1>3. /\ Sound(x)
      /\ \A p \in Points : /\ Held(x, p) + One(n.point = p) = Held(n, p)
                           /\ Due(x, p) = Due(n, p) + One(n.point = p)
  BY <1>1, <1>2, DeletePointSound
<1> HIDE DEF x
<1>4. d.tree = x /\ d.removed = <<>> /\ d \in Results
  BY <1>3 DEF Results, Sound
<1> HIDE DEF d
<1>5. ASSUME NEW p \in Points
      PROVE  /\ Held(d.tree, p) + One(TRUE /\ p = n.point) = Held(t, p)
             /\ Due(d.tree, p) + Times(d.removed, p) = Due(t, p) + One(TRUE /\ p = n.point)
  <2>1. One(TRUE /\ p = n.point) = One(n.point = p)
    BY DEF One
  <2>2. Held(n, p) = Held(t, p) /\ Due(n, p) = Due(t, p)
    BY <1>1 DEF SamePoints
  <2>3. Times(d.removed, p) = 0 /\ Due(x, p) \in Nat
    BY <1>3, <1>4, TimesEmpty, HeldIs DEF Sound
  <2>4. /\ Held(x, p) + One(n.point = p) = Held(n, p)
        /\ Due(x, p) = Due(n, p) + One(n.point = p)
    BY <1>3
  <2>5. d.tree = x
    BY <1>4
  <2>6. Due(x, p) + 0 = Due(x, p)
    BY <2>3
  <2> QED
    BY ONLY <2>1, <2>2, <2>3, <2>4, <2>5, <2>6
<1>6. Takes(t, d, n.point)
  BY <1>3, <1>4, <1>5 DEF Takes
<1> QED
  BY <1>6 DEF d, x, n

(* At most one point goes, an equal one, and it is owed or reported.       *)
LEMMA DeleteByPointSound ==
  ASSUME AnyHeight, NEW at, NEW rank \in [Points -> Int]
  PROVE  \A t \in Trees : Sound(t) => Takes(t, Delete_by_point(t, at, rank), at)
<1> DEFINE D(t) == Delete_by_point(t, at, rank)
           S == {t \in Trees : Sound(t) => Takes(t, D(t), at)}
<1>1. /\ D(None) = [tree |-> None, removed |-> <<>>]
      /\ \A t \in Trees : D(t) \in Results
  BY DeleteByPointIs
<1>2. \A t \in TreeNodes : D(t) = DeletePointStep(t, D(Wayward(t, at)), at, rank)
  BY DeleteByPointIs
<1> HIDE DEF D
<1>3. D(None).tree = None
  BY ONLY <1>1
<1>4. ASSUME NEW t \in Trees, Sound(t), D(t) = [tree |-> t, removed |-> <<>>]
      PROVE  Takes(t, D(t), at)
  <2>1. D(t).tree = t /\ D(t).removed = <<>>
    BY ONLY <1>4
  <2>2. \A p \in Points : Held(t, p) \in Nat /\ Due(t, p) \in Nat
    BY HeldIs
  <2>3. \A p \in Points : /\ Held(D(t).tree, p) + One(FALSE /\ p = at) = Held(t, p)
                          /\ Due(D(t).tree, p) + Times(D(t).removed, p)
                               = Due(t, p) + One(FALSE /\ p = at)
    BY <2>1, <2>2, TimesEmpty DEF One
  <2> QED
    BY <1>1, <1>4, <2>1, <2>3 DEF Takes
<1>5. None \in S
  BY <1>1, <1>4, TreesAre
<1>6. ASSUME NEW t \in TreeNodes, \A s \in Side : Son(t, s) \in S
      PROVE  t \in S
  <2> SUFFICES ASSUME Sound(t)
               PROVE  Takes(t, D(t), at)
    BY TreesAre
  <2> DEFINE n == Push_Down(t)
             s == SideOf(n, at)
             d == D(Wayward(t, at))
             e == Finish(WithSon(n, s, d.tree), rank)
  <2>1. s \in Side /\ Wayward(t, at) = Son(t, s) /\ t \in Trees
    BY SideOfIs, TreesAre DEF Wayward
  <2>2. Sound(Son(t, s)) /\ (n.need_push[s] => Son(t, s) = None)
    BY <2>1, PushDownSound
  <2>3. Takes(Son(t, s), d, at)
    BY <1>6, <2>1, <2>2
  <2>4. d \in Results /\ Sound(d.tree) /\ (n.need_push[s] => d.tree = None)
    BY <1>3, <2>1, <2>2, <2>3 DEF Takes
  <2>5. D(t) = DeletePointStep(t, d, at, rank)
    BY <1>2
  <2>6. CASE t.tree_deleted
    <3>1. D(t) = [tree |-> t, removed |-> <<>>]
      BY <2>5, <2>6 DEF DeletePointStep
    <3> QED
      BY <1>4, <2>1, <3>1
  <2>7. CASE ~t.tree_deleted /\ n.point = at /\ ~n.point_deleted
    <3>1. D(t) = [tree |-> DeletePoint(n), removed |-> <<>>]
      BY <2>5, <2>7 DEF DeletePointStep, DeletePointIn
    <3> HIDE DEF d, e
    <3> QED
      BY <2>7, <3>1, DeletePointTakes
  <2>8. CASE ~t.tree_deleted /\ ~(n.point = at /\ ~n.point_deleted)
    <3>1. D(t) = [tree |-> e.tree, removed |-> d.removed \o e.removed]
      BY <2>5, <2>8 DEF DeletePointStep, DeletePointIn
    <3>2. /\ e \in Results /\ Sound(e.tree)
          /\ \A p \in Points :
               /\ Held(e.tree, p) + Held(Son(t, s), p) = Held(t, p) + Held(d.tree, p)
               /\ Due(e.tree, p) + Times(e.removed, p) + Due(Son(t, s), p)
                    = Due(t, p) + Due(d.tree, p)
      <4>1. n.need_push[s] => Gone(d.tree) = 0
        BY <2>4 DEF Gone
      <4> HIDE DEF s, d
      <4> QED
        BY <2>1, <2>4, <4>1, OnTheWaySound
    <3> HIDE DEF e, d, s, n
    <3>3. D(t).tree = e.tree /\ D(t).removed = d.removed \o e.removed
      BY ONLY <3>1, ResultIs
    <3>4. e.removed \in Seq(Points) /\ d.removed \in Seq(Points)
      BY <2>4, <3>2 DEF Results
    <3>5. PICK b \in BOOLEAN : \A p \in Points :
            /\ Held(d.tree, p) + One(b /\ p = at) = Held(Son(t, s), p)
            /\ Due(d.tree, p) + Times(d.removed, p) = Due(Son(t, s), p) + One(b /\ p = at)
      BY <2>3 DEF Takes
    <3>6. ASSUME NEW p \in Points
          PROVE  /\ Held(D(t).tree, p) + One(b /\ p = at) = Held(t, p)
                 /\ Due(D(t).tree, p) + Times(D(t).removed, p) = Due(t, p) + One(b /\ p = at)
      <4> DEFINE i == One(b /\ p = at)
      <4>1. /\ Held(e.tree, p) + Held(Son(t, s), p) = Held(t, p) + Held(d.tree, p)
            /\ Due(e.tree, p) + Times(e.removed, p) + Due(Son(t, s), p) = Due(t, p) + Due(d.tree, p)
        BY <3>2
      <4>2. /\ Held(d.tree, p) + i = Held(Son(t, s), p)
            /\ Due(d.tree, p) + Times(d.removed, p) = Due(Son(t, s), p) + i
        BY <3>5
      <4>3. Times(D(t).removed, p) = Times(d.removed, p) + Times(e.removed, p)
        BY <3>3, <3>4, TimesConcat
      <4>4. /\ Held(e.tree, p) \in Nat /\ Due(e.tree, p) \in Nat
            /\ Held(d.tree, p) \in Nat /\ Due(d.tree, p) \in Nat
            /\ Held(t, p) \in Nat /\ Due(t, p) \in Nat
            /\ Held(Son(t, s), p) \in Nat /\ Due(Son(t, s), p) \in Nat
        BY <2>1, <2>2, <2>4, <3>2, HeldIs DEF Sound
      <4>5. Times(d.removed, p) \in Nat /\ Times(e.removed, p) \in Nat /\ i \in Nat
        BY <3>4, TimesType DEF One
      <4> HIDE DEF i
      <4>6. /\ Held(e.tree, p) + i = Held(t, p)
            /\ Due(e.tree, p) + (Times(d.removed, p) + Times(e.removed, p)) = Due(t, p) + i
        <5> DEFINE he == Held(e.tree, p)  hs == Held(Son(t, s), p)  ht == Held(t, p)
                   hd == Held(d.tree, p)  de == Due(e.tree, p)      ds == Due(Son(t, s), p)
                   dt == Due(t, p)        dd == Due(d.tree, p)
                   rd == Times(d.removed, p)  re == Times(e.removed, p)
        <5>1. /\ he + hs = ht + hd /\ de + re + ds = dt + dd
              /\ hd + i = hs /\ dd + rd = ds + i
          BY ONLY <4>1, <4>2
        <5>2. /\ he \in Nat /\ hs \in Nat /\ ht \in Nat /\ hd \in Nat /\ i \in Nat /\ de \in Nat
              /\ re \in Nat /\ rd \in Nat /\ ds \in Nat /\ dt \in Nat /\ dd \in Nat
          BY ONLY <4>4, <4>5
        <5> HIDE DEF he, hs, ht, hd, de, ds, dt, dd, rd, re
        <5>3. he + i = ht /\ de + (rd + re) = dt + i
          BY ONLY <5>1, <5>2
        <5> QED
          BY ONLY <5>3 DEF he, ht, de, rd, re, dt
      <4> QED
        BY ONLY <3>3, <4>3, <4>6 DEF i
    <3>7. D(t) \in Results
      BY <1>1, <2>1
    <3> QED
      BY <3>2, <3>3, <3>6, <3>7 DEF Takes
  <2> QED
    BY <2>6, <2>7, <2>8
<1>7. \A n \in TreeNodes : (\A s \in Side : Son(n, s) \in S) => n \in S
  <2> HIDE DEF S
  <2> QED
    BY <1>6
<1>8. \A t \in Trees : t \in S
  <2> HIDE DEF S
  <2> QED
    BY <1>5, <1>7, TreeInduction
<1> QED
  BY <1>8 DEF D

Adds(t, d, new) ==
  /\ d \in Results /\ Sound(d.tree)
  /\ \A p \in Points :
       /\ Held(d.tree, p) = Held(t, p) + One(p = new)
       /\ Due(d.tree, p) + Times(d.removed, p) = Due(t, p)

LEMMA LeafAdds ==
  ASSUME AnyHeight, NEW new \in Points, NEW a \in Axes
  PROVE  Adds(None, [tree |-> Leaf(new, a), removed |-> <<>>], new)
<1> DEFINE axis == (a % 3) + 1
           n == Node(new, axis)
           d == [tree |-> Leaf(new, a), removed |-> <<>>]
<1>1. axis \in Axes
  BY DEF Axes
<1>2. Leaf(new, a) = Update(n)
  BY DEF Leaf
<1> HIDE DEF axis
<1>3. /\ n \in TreeNodes /\ n.point = new /\ n.point_deleted = FALSE
      /\ n.point_downsample_deleted = FALSE
      /\ \A s \in Side : n.need_push[s] = FALSE /\ n.son[s] = None
  <2>1. /\ n \in TreeNodes /\ n.point = new /\ n.point_deleted = FALSE
        /\ n.point_downsample_deleted = FALSE
        /\ n.need_push = Both(FALSE) /\ n.son = Both(None)
    BY <1>1, NodeIs
  <2> HIDE DEF n
  <2> QED
    BY <2>1 DEF Both
<1> HIDE DEF n
<1>4. Sound(None)
  BY TreesAre, AllExactIs, FitsIs DEF Sound
<1>5. Ready(n)
  BY <1>3, <1>4 DEF Ready
<1>6. ~Reported(n) /\ n.son["left"] = None /\ n.son["right"] = None
  BY <1>3 DEF Reported, Side
<1>7. ASSUME NEW p \in Points
      PROVE  Held(Update(n), p) = Held(None, p) + One(p = new) /\ Due(Update(n), p) = Due(None, p)
  <2>1. /\ Held(Update(n), p) = One(~n.point_deleted /\ n.point = p)
                                + Held(n.son["left"], p) + Held(n.son["right"], p)
        /\ Due(Update(n), p) = Due(n.son["left"], p) + Due(n.son["right"], p)
                               + One(Reported(n) /\ n.point = p)
    BY <1>3, <1>5, UpdateSound
  <2>2. One(~n.point_deleted /\ n.point = p) = One(p = new) /\ One(Reported(n) /\ n.point = p) = 0
    BY <1>3, <1>6 DEF One
  <2>3. Held(None, p) = 0 /\ Due(None, p) = 0 /\ One(p = new) \in Nat
    BY HeldIs DEF One
  <2> DEFINE own == One(p = new)
  <2>4. /\ Held(Update(n), p) = own + 0 + 0 /\ Due(Update(n), p) = 0 + 0 + 0 /\ own \in Nat
    BY ONLY <1>6, <2>1, <2>2, <2>3
  <2> HIDE DEF own
  <2>5. Held(Update(n), p) = 0 + own /\ Due(Update(n), p) = 0
    BY ONLY <2>4
  <2> QED
    BY ONLY <2>3, <2>5 DEF own
<1>8. Sound(Update(n))
  BY <1>3, <1>5, UpdateSound
<1>9. d.tree = Update(n) /\ d.removed = <<>> /\ d \in Results
  BY <1>2, <1>8 DEF Results, Sound
<1> HIDE DEF d
<1>10. ASSUME NEW p \in Points
       PROVE  /\ Held(d.tree, p) = Held(None, p) + One(p = new)
              /\ Due(d.tree, p) + Times(d.removed, p) = Due(None, p)
  <2>1. Times(d.removed, p) = 0 /\ Due(None, p) = 0
    BY <1>9, TimesEmpty, HeldIs
  <2> QED
    BY <1>7, <1>9, <2>1
<1> QED
  BY <1>8, <1>9, <1>10 DEF Adds, d

(* The new point is there, with all the others, wherever it went and       *)
(* whatever was rebuilt on the way up.                                     *)
LEMMA AddByPointSound ==
  ASSUME AnyHeight, NEW new \in Points, NEW rank \in [Points -> Int]
  PROVE  \A t \in Trees : Sound(t) => \A a \in Axes : Adds(t, Add_by_point(t, new, rank, a), new)
<1> DEFINE D(t, a) == Add_by_point(t, new, rank, a)
           S == {t \in Trees : Sound(t) => \A a \in Axes : Adds(t, D(t, a), new)}
<1>1. /\ \A a \in Axes : D(None, a) = [tree |-> Leaf(new, a), removed |-> <<>>]
      /\ \A t \in Trees, a \in Axes : D(t, a) \in Results
  BY AddByPointIs
<1>2. \A t \in TreeNodes, a \in Axes :
        D(t, a) = AddIn(Push_Down(t), D(Wayward(t, new), t.axis), new, rank)
  BY AddByPointIs
<1> HIDE DEF D
<1>3. ASSUME NEW a \in Axes
      PROVE  Gone(D(None, a).tree) = 0 /\ Adds(None, D(None, a), new)
  <2>1. Gone(Leaf(new, a)) = 0
    BY LeafExact
  <2>2. D(None, a).tree = Leaf(new, a)
    BY ONLY <1>1, a \in Axes, ResultIs
  <2> QED
    BY <1>1, <2>1, <2>2, LeafAdds
<1>4. None \in S
  BY <1>3, TreesAre
<1>5. ASSUME NEW t \in TreeNodes, \A s \in Side : Son(t, s) \in S
      PROVE  t \in S
  <2> SUFFICES ASSUME Sound(t), NEW a \in Axes
               PROVE  Adds(t, D(t, a), new)
    BY TreesAre
  <2> DEFINE n == Push_Down(t)
             s == SideOf(n, new)
             d == D(Wayward(t, new), t.axis)
             e == Finish(WithSon(n, s, d.tree), rank)
  <2>0. t.axis \in Axes
    BY DEF TreeNodes, NodesOver
  <2>1. s \in Side /\ Wayward(t, new) = Son(t, s) /\ t \in Trees
    BY SideOfIs, TreesAre DEF Wayward
  <2>2. Sound(Son(t, s)) /\ (n.need_push[s] => Son(t, s) = None)
    BY <2>1, PushDownSound
  <2>3. Adds(Son(t, s), d, new)
    BY <1>5, <2>0, <2>1, <2>2
  <2>4. d \in Results /\ Sound(d.tree) /\ (n.need_push[s] => Gone(d.tree) = 0)
    BY <1>3, <2>0, <2>1, <2>2, <2>3 DEF Adds
  <2>5. D(t, a) = [tree |-> e.tree, removed |-> d.removed \o e.removed]
    BY <1>2 DEF AddIn
  <2>6. /\ e \in Results /\ Sound(e.tree)
        /\ \A p \in Points :
             /\ Held(e.tree, p) + Held(Son(t, s), p) = Held(t, p) + Held(d.tree, p)
             /\ Due(e.tree, p) + Times(e.removed, p) + Due(Son(t, s), p)
                  = Due(t, p) + Due(d.tree, p)
    <3> HIDE DEF s, d
    <3> QED
      BY <2>1, <2>4, OnTheWaySound
  <2> HIDE DEF e, d, s, n
  <2>7. D(t, a).tree = e.tree /\ D(t, a).removed = d.removed \o e.removed
    BY ONLY <2>5, ResultIs
  <2>8. e.removed \in Seq(Points) /\ d.removed \in Seq(Points)
    BY <2>4, <2>6 DEF Results
  <2>9. ASSUME NEW p \in Points
        PROVE  /\ Held(D(t, a).tree, p) = Held(t, p) + One(p = new)
               /\ Due(D(t, a).tree, p) + Times(D(t, a).removed, p) = Due(t, p)
    <3> DEFINE i == One(p = new)
               he == Held(e.tree, p)  hs == Held(Son(t, s), p)  ht == Held(t, p)
               hd == Held(d.tree, p)  de == Due(e.tree, p)      ds == Due(Son(t, s), p)
               dt == Due(t, p)        dd == Due(d.tree, p)
               rd == Times(d.removed, p)  re == Times(e.removed, p)
    <3>1. /\ he + hs = ht + hd /\ de + re + ds = dt + dd
          /\ hd = hs + i /\ dd + rd = ds
      BY <2>3, <2>6 DEF Adds
    <3>2. Times(D(t, a).removed, p) = rd + re
      BY <2>7, <2>8, TimesConcat
    <3>3. he \in Nat /\ de \in Nat /\ hd \in Nat /\ dd \in Nat /\ ht \in Nat /\ dt \in Nat
          /\ hs \in Nat /\ ds \in Nat
      BY <2>1, <2>2, <2>4, <2>6, HeldIs DEF Sound
    <3>4. rd \in Nat /\ re \in Nat /\ i \in Nat
      BY <2>8, TimesType DEF One
    <3> HIDE DEF i, he, hs, ht, hd, de, ds, dt, dd, rd, re
    <3>5. he = ht + i /\ de + (rd + re) = dt
      BY ONLY <3>1, <3>3, <3>4
    <3> QED
      BY ONLY <2>7, <3>2, <3>5 DEF i, he, ht, de, dt
  <2>10. D(t, a) \in Results
    BY <1>1, <2>1
  <2> QED
    BY <2>6, <2>7, <2>9, <2>10 DEF Adds
<1>6. \A n \in TreeNodes : (\A s \in Side : Son(n, s) \in S) => n \in S
  <2> HIDE DEF S
  <2> QED
    BY <1>5
<1>7. \A t \in Trees : t \in S
  <2> HIDE DEF S
  <2> QED
    BY <1>4, <1>6, TreeInduction
<1> QED
  BY <1>7 DEF D

(***************************************************************************)
(* Searches change no point, and a range search finds what is in the box.  *)
(***************************************************************************)
Kept(a, b) == Sound(b) /\ Alike(a, b) /\ SamePoints(a, b)

LEMMA PushedSonsKept ==
  ASSUME AnyHeight, NEW n \in TreeNodes, Sound(n), NEW f \in [Side -> Trees],
         \A s \in Side : Kept(Son(n, s), f[s])
  PROVE  Kept(n, WithSons(Push_Down(n), f))
<1> DEFINE m == Push_Down(n)
           w == WithSons(m, f)
<1>1. /\ m \in TreeNodes /\ SamePoints(n, m) /\ Sound(m)
      /\ \A s \in Side : /\ m.son[s] = Son(n, s) /\ Son(m, s) = Son(n, s)
                         /\ m.need_push[s] => m.son[s] = None
  BY PushDownSound
<1>2. AllExact(w) /\ Alike(n, w)
  BY PushedSonsExact DEF Kept, Sound
<1> HIDE DEF m
<1>3. /\ w \in TreeNodes /\ w.son = f /\ w.point = m.point /\ w.point_deleted = m.point_deleted
      /\ w.point_downsample_deleted = m.point_downsample_deleted
      /\ w.need_push = m.need_push /\ w.lo = m.lo /\ w.hi = m.hi
  BY <1>1, WithSonsIs
<1> HIDE DEF w
<1>4. ASSUME NEW s \in Side
      PROVE  Son(w, s) = f[s]
  <2>1. m.need_push[s] => f[s] = None
    BY <1>1 DEF Kept, Alike
  <2>2. Son(w, s) = (IF w.son[s] # None /\ w.need_push[s] THEN Pushed(w, w.son[s]) ELSE w.son[s])
    BY <1>3, PushDownIs DEF Son
  <2>3. ~(w.son[s] # None /\ w.need_push[s]) /\ w.son[s] = f[s]
    BY <1>3, <2>1
  <2> QED
    BY ONLY <2>2, <2>3, Zenon
<1>5. SamePoints(n, w)
  <2> SUFFICES ASSUME NEW p \in Points
               PROVE  Held(n, p) = Held(w, p) /\ Due(n, p) = Due(w, p)
    BY DEF SamePoints
  <2>1. /\ Held(m, p) = One(~m.point_deleted /\ m.point = p)
                        + Held(Son(m, "left"), p) + Held(Son(m, "right"), p)
        /\ Due(m, p) = Due(Son(m, "left"), p) + Due(Son(m, "right"), p)
                       + One(Reported(m) /\ m.point = p)
        /\ Held(w, p) = One(~w.point_deleted /\ w.point = p)
                        + Held(Son(w, "left"), p) + Held(Son(w, "right"), p)
        /\ Due(w, p) = Due(Son(w, "left"), p) + Due(Son(w, "right"), p)
                       + One(Reported(w) /\ w.point = p)
    BY <1>1, <1>3, HeldIs
  <2>2. Reported(w) = Reported(m)
    BY <1>3 DEF Reported
  <2>3. \A s \in Side : /\ Held(Son(w, s), p) = Held(Son(m, s), p)
                        /\ Due(Son(w, s), p) = Due(Son(m, s), p)
    BY <1>1, <1>4 DEF Kept, SamePoints
  <2>4. Held(w, p) = Held(m, p) /\ Due(w, p) = Due(m, p)
    BY <1>3, <2>1, <2>2, <2>3 DEF Side
  <2> QED
    BY <1>1, <2>4 DEF SamePoints
<1>6. Fits(w)
  <2>1. Within(m)
    BY <1>1, FitsIs DEF Sound
  <2>2. \A p \in Points : Held(w, p) = Held(m, p)
    BY <1>1, <1>5 DEF SamePoints
  <2>3. Within(w)
    BY <1>3, <2>1, <2>2 DEF Within
  <2> QED
    BY <1>3, <1>4, <2>3, FitsIs DEF Kept, Sound
<1> QED
  BY <1>2, <1>3, <1>5, <1>6, TreesAre DEF Kept, Sound, w, m

LEMMA PushDownKept ==
  ASSUME AnyHeight, NEW n \in TreeNodes, Sound(n)
  PROVE  Kept(n, Push_Down(n))
BY PushDownSound, PushDownAlike DEF Kept

LEMMA PushAllKept ==
  ASSUME AnyHeight
  PROVE  \A t \in Trees : Sound(t) => Kept(t, PushAll[t])
<1> DEFINE S == {t \in Trees : Sound(t) => Kept(t, PushAll[t])}
<1>1. None \in S
  BY PushAllIs, TreesAre DEF Alike, Kept, SamePoints
<1>2. ASSUME NEW n \in TreeNodes, \A s \in Side : Son(n, s) \in S
      PROVE  n \in S
  <2> DEFINE f == [s \in Side |-> PushAll[Son(n, s)]]
  <2> SUFFICES ASSUME Sound(n)
               PROVE  Kept(n, PushAll[n])
    BY TreesAre
  <2>1. f \in [Side -> Trees]
    BY SonType, PushAllIs
  <2>2. \A s \in Side : Kept(Son(n, s), f[s])
    BY <1>2, PushDownSound
  <2>3. PushAll[n] = WithSons(Push_Down(n), f)
    BY PushAllIs
  <2> HIDE DEF f
  <2> QED
    BY <2>1, <2>2, <2>3, PushedSonsKept
<1>3. \A n \in TreeNodes : (\A s \in Side : Son(n, s) \in S) => n \in S
  <2> HIDE DEF S
  <2> QED
    BY <1>2
<1>4. \A t \in Trees : t \in S
  <2> HIDE DEF S
  <2> QED
    BY <1>1, <1>3, TreeInduction
<1> QED
  BY <1>4

LEMMA FindInKept ==
  ASSUME AnyHeight, NEW n \in TreeNodes, Sound(n),
         NEW l \in FindResults, NEW r \in FindResults, NEW outside, NEW inside, NEW hit,
         Kept(Son(n, "left"), l.tree), Kept(Son(n, "right"), r.tree)
  PROVE  Kept(n, FindIn(Push_Down(n), l, r, outside, inside, hit).tree)
<1> DEFINE m == Push_Down(n)
           f == Two(l.tree, r.tree)
           t == FindIn(m, l, r, outside, inside, hit).tree
<1>1. m \in TreeNodes /\ Sound(m) /\ Kept(n, m)
  BY PushDownSound, PushDownKept
<1>2. l.tree \in Trees /\ r.tree \in Trees
  BY DEF FindResults
<1>3. f \in [Side -> Trees] /\ f["left"] = l.tree /\ f["right"] = r.tree
  BY ONLY <1>2, TwoIs
<1>4. Kept(n, WithSons(m, f))
  <2>1. \A s \in Side : Kept(Son(n, s), f[s])
    BY <1>3 DEF Side
  <2> HIDE DEF f
  <2> QED
    BY <1>3, <2>1, PushedSonsKept
<1>5. Kept(n, PushAll[m])
  <2>1. Kept(m, PushAll[m])
    BY <1>1, PushAllKept, TreesAre
  <2> QED
    BY <1>1, <2>1 DEF Kept, Alike, SamePoints
<1> HIDE DEF m, f
<1>6. t \in {m, PushAll[m], WithSons(m, f)}
  BY ONLY SMT DEF FindIn, f
<1> HIDE DEF t
<1>7. Kept(n, t)
  BY <1>1, <1>4, <1>5, <1>6
<1> QED
  BY <1>7 DEF t, m

LEMMA NoneKept == ASSUME AnyHeight PROVE Kept(None, None)
BY TreesAre, AllExactIs, FitsIs DEF Kept, Sound, Alike, SamePoints

LEMMA SearchByRadiusKept ==
  ASSUME AnyHeight, NEW p, NEW rad
  PROVE  \A t \in Trees : Sound(t) => Kept(t, Search_by_radius(t, p, rad).tree)
<1> DEFINE D(t) == Search_by_radius(t, p, rad)
           S == {t \in Trees : Sound(t) => Kept(t, D(t).tree)}
<1>1. /\ D(None) = [tree |-> None, found |-> <<>>]
      /\ \A t \in Trees : D(t) \in FindResults
  BY SearchByRadiusIs
<1>2. \A t \in TreeNodes :
        D(t) = RadiusIn(Push_Down(t), D(Son(t, "left")), D(Son(t, "right")), p, rad)
  BY SearchByRadiusIs
<1> HIDE DEF D
<1>3. None \in S
  <2>1. D(None).tree = None
    BY ONLY <1>1
  <2> QED
    BY <2>1, NoneKept, TreesAre
<1>4. ASSUME NEW n \in TreeNodes, \A s \in Side : Son(n, s) \in S
      PROVE  n \in S
  <2> SUFFICES ASSUME Sound(n)
               PROVE  Kept(n, D(n).tree)
    BY TreesAre
  <2> DEFINE l == D(Son(n, "left"))
             r == D(Son(n, "right"))
  <2>1. l \in FindResults /\ r \in FindResults
    BY <1>1, SonType DEF Side
  <2>2. Kept(Son(n, "left"), l.tree) /\ Kept(Son(n, "right"), r.tree)
    BY <1>4, PushDownSound DEF Side
  <2>3. D(n) = RadiusIn(Push_Down(n), l, r, p, rad)
    BY <1>2
  <2> HIDE DEF l, r
  <2> QED
    BY <2>1, <2>2, <2>3, FindInKept DEF RadiusIn
<1>5. \A n \in TreeNodes : (\A s \in Side : Son(n, s) \in S) => n \in S
  <2> HIDE DEF S
  <2> QED
    BY <1>4
<1>6. \A t \in Trees : t \in S
  <2> HIDE DEF S
  <2> QED
    BY <1>3, <1>5, TreeInduction
<1> QED
  BY <1>6 DEF D

LEMMA SearchKept ==
  ASSUME AnyHeight, NEW k \in Nat \ {0}, NEW at
  PROVE  \A t \in Trees : Sound(t) => \A q \in Seq(Points) : Kept(t, Search(t, k, at, q).tree)
<1> DEFINE D(t, q) == Search(t, k, at, q).tree
           S == {t \in Trees : Sound(t) => \A q \in Seq(Points) : Kept(t, D(t, q))}
<1>1. \A q \in Seq(Points) : D(None, q) = None
  <2>1. \A q \in Seq(Points) : Search(None, k, at, q) = [tree |-> None, q |-> q]
    BY SearchIs
  <2>2. \A q \in Seq(Points) : [tree |-> None, q |-> q].tree = None
    BY ONLY SMT
  <2> QED
    BY ONLY <2>1, <2>2
<1>2. \A t \in TreeNodes : \A q \in Seq(Points) : SearchStep(t, k, at, q)
  BY ONLY AnyHeight, k \in Nat \ {0}, SearchIs
<1> HIDE DEF D
<1>3. None \in S
  BY <1>1, NoneKept, TreesAre
<1>4. ASSUME NEW n \in TreeNodes, \A s \in Side : Son(n, s) \in S
      PROVE  n \in S
  <2> SUFFICES ASSUME Sound(n), NEW q \in Seq(Points)
               PROVE  Kept(n, D(n, q))
    BY TreesAre
  <2>0. \/ D(n, q) = n
        \/ \E f \in [Side -> Trees] :
             /\ D(n, q) = WithSons(Push_Down(n), f)
             /\ \A s \in Side : \/ f[s] = Son(n, s)
                                \/ \E h \in Seq(Points) : f[s] = D(Son(n, s), h)
    <3>1. CASE Search(n, k, at, q) = [tree |-> n, q |-> q]
      BY ONLY <3>1 DEF D
    <3>2. CASE \E f \in [Side -> Trees] :
                 /\ Search(n, k, at, q).tree = WithSons(Push_Down(n), f)
                 /\ \A s \in Side :
                      \/ f[s] = Son(n, s)
                      \/ \E h \in Seq(Points) : f[s] = Search(Son(n, s), k, at, h).tree
      BY ONLY <3>2 DEF D
    <3>3. SearchStep(n, k, at, q)
      BY ONLY <1>2, n \in TreeNodes, q \in Seq(Points)
    <3> QED
      BY <3>1, <3>2, <3>3 DEF SearchStep
  <2>1. CASE D(n, q) = n
    BY <2>1 DEF Kept, Alike, SamePoints
  <2>2. ASSUME NEW f \in [Side -> Trees],
               D(n, q) = WithSons(Push_Down(n), f),
               \A s \in Side : \/ f[s] = Son(n, s)
                               \/ \E h \in Seq(Points) : f[s] = D(Son(n, s), h)
        PROVE  Kept(n, D(n, q))
    <3>1. \A s \in Side : Sound(Son(n, s))
      BY PushDownSound
    <3>2. \A s \in Side : Kept(Son(n, s), f[s])
      BY <1>4, <2>2, <3>1 DEF Kept, Alike, SamePoints
    <3> QED
      BY <2>2, <3>2, PushedSonsKept
  <2> QED
    BY <2>0, <2>1, <2>2
<1>5. \A n \in TreeNodes : (\A s \in Side : Son(n, s) \in S) => n \in S
  <2> HIDE DEF S
  <2> QED
    BY <1>4
<1>6. \A t \in Trees : t \in S
  <2> HIDE DEF S
  <2> QED
    BY <1>3, <1>5, TreeInduction
<1> QED
  BY <1>6 DEF D

IsBox(b) == b \in [lo : [Axes -> Int], hi : [Axes -> Int]]

(* What the comparison of a box with the range of a node tells of a point. *)
LEMMA BoxAndRange ==
  ASSUME AnyHeight, NEW n \in TreeNodes, NEW box, IsBox(box), Within(n),
         NEW p \in Points, Held(n, p) # 0
  PROVE  (Apart(box, n) => ~InBox(p, box)) /\ (Covers(box, n) => InBox(p, box))
<1>1. \A a \in Axes : n.lo[a] <= p[a] /\ p[a] <= n.hi[a]
  BY DEF Within
<1>2. \A a \in Axes : /\ n.lo[a] \in Int /\ n.hi[a] \in Int /\ p[a] \in Int
                      /\ box.lo[a] \in Int /\ box.hi[a] \in Int
  BY TreeAssumption DEF TreeNodes, NodesOver, IsBox
<1>3. ASSUME NEW a \in Axes, box.hi[a] <= n.lo[a] \/ box.lo[a] > n.hi[a]
      PROVE  ~(box.lo[a] <= p[a] /\ p[a] < box.hi[a])
  BY ONLY <1>1, <1>2, <1>3
<1>4. ASSUME NEW a \in Axes, box.lo[a] <= n.lo[a] /\ box.hi[a] > n.hi[a]
      PROVE  box.lo[a] <= p[a] /\ p[a] < box.hi[a]
  BY ONLY <1>1, <1>2, <1>4
<1> QED
  BY <1>3, <1>4 DEF Apart, Covers, InBox

Finds(t, d, X) ==
  /\ Kept(t, d.tree)
  /\ \A p \in Points : Times(d.found, p) = IF p \in X THEN Held(t, p) ELSE 0

LEMMA FindInFinds ==
  ASSUME AnyHeight, NEW n \in TreeNodes, Sound(n), NEW X,
         NEW outside \in BOOLEAN, NEW inside \in BOOLEAN, NEW hit \in BOOLEAN,
         hit <=> Push_Down(n).point \in X /\ ~Push_Down(n).point_deleted,
         \A p \in Points : Held(Push_Down(n), p) # 0 =>
           (outside => p \notin X) /\ (inside => p \in X),
         NEW l \in FindResults, NEW r \in FindResults,
         Finds(Son(n, "left"), l, X), Finds(Son(n, "right"), r, X)
  PROVE  Finds(n, FindIn(Push_Down(n), l, r, outside, inside, hit), X)
<1> DEFINE m == Push_Down(n)
           d == FindIn(m, l, r, outside, inside, hit)
           L == Son(n, "left")
           R == Son(n, "right")
           own == IF hit THEN <<m.point>> ELSE <<>>
<1>1. Kept(n, d.tree)
  BY FindInKept DEF Finds
<1>2. /\ m \in TreeNodes /\ Sound(m) /\ SamePoints(n, m)
      /\ Son(m, "left") = L /\ Son(m, "right") = R
  BY PushDownSound DEF Side
<1>4. l.found \in Seq(Points) /\ r.found \in Seq(Points) /\ m.point \in Points
  BY <1>2 DEF FindResults, TreeNodes, NodesOver
<1>5. d.found = IF outside THEN <<>> ELSE IF inside THEN flatten[m]
                ELSE own \o l.found \o r.found
  <2> HIDE DEF m
  <2> QED
    BY ONLY SMT DEF FindIn, d, own
<1> HIDE DEF m, d, L, R
<1>6. ASSUME NEW p \in Points
      PROVE  Times(d.found, p) = IF p \in X THEN Held(n, p) ELSE 0
  <2>1. Held(n, p) = Held(m, p) /\ Held(m, p) \in Nat
    BY <1>2, HeldIs DEF SamePoints, Sound
  <2>2. Held(m, p) # 0 => (outside => p \notin X) /\ (inside => p \in X)
    BY DEF m
  <2>3. CASE outside
    BY <1>5, <2>1, <2>2, <2>3, TimesEmpty
  <2>4. CASE ~outside /\ inside
    <3>1. d.found = flatten[m]
      BY <1>5, <2>4
    <3>2. Times(d.found, p) = Held(m, p)
      BY <3>1 DEF Held
    <3> QED
      BY <2>1, <2>2, <2>4, <3>2
  <2>5. CASE ~outside /\ ~inside
    <3>1. own \in Seq(Points) /\ Times(own, p) = One(hit /\ m.point = p)
      BY <1>4, TimesOne, TimesEmpty DEF One
    <3>2. d.found = own \o l.found \o r.found
      BY <1>5, <2>5
    <3> HIDE DEF own
    <3>3. Times(d.found, p) = Times(own, p) + Times(l.found, p) + Times(r.found, p)
      BY <1>4, <3>1, <3>2, TimesConcat3
    <3>4. Held(m, p) = One(~m.point_deleted /\ m.point = p) + Held(L, p) + Held(R, p)
      BY <1>2, HeldIs
    <3>5. /\ Times(l.found, p) = IF p \in X THEN Held(L, p) ELSE 0
          /\ Times(r.found, p) = IF p \in X THEN Held(R, p) ELSE 0
      BY DEF Finds, L, R
    <3>6. hit <=> m.point \in X /\ ~m.point_deleted
      BY DEF m
    <3>7. CASE p \in X
      <4>1. One(hit /\ m.point = p) = One(~m.point_deleted /\ m.point = p)
        BY <3>6, <3>7 DEF One
      <4> QED
        BY <2>1, <3>1, <3>3, <3>4, <3>5, <3>7, <4>1
    <3>8. CASE p \notin X
      <4>1. One(hit /\ m.point = p) = 0
        BY <3>6, <3>8 DEF One
      <4> QED
        BY <3>1, <3>3, <3>5, <3>8, <4>1
    <3> QED
      BY <3>7, <3>8
  <2> QED
    BY <2>3, <2>4, <2>5
<1> QED
  BY <1>1, <1>6 DEF Finds, d, m

NoneFound == [tree |-> None, found |-> <<>>]

LEMMA NoneFinds ==
  ASSUME AnyHeight, NEW X
  PROVE  Finds(None, NoneFound, X)
<1>1. NoneFound.tree = None /\ NoneFound.found = <<>>
  BY DEF NoneFound
<1>2. \A p \in Points : Held(None, p) = 0 /\ Times(<<>>, p) = 0
  BY HeldIs, TimesEmpty
<1> QED
  BY <1>1, <1>2, NoneKept DEF Finds

InsideOf(box) == {p \in Points : InBox(p, box)}

LEMMA RangeInFinds ==
  ASSUME AnyHeight, NEW n \in TreeNodes, Sound(n), NEW box, IsBox(box),
         NEW l \in FindResults, NEW r \in FindResults,
         Finds(Son(n, "left"), l, InsideOf(box)), Finds(Son(n, "right"), r, InsideOf(box))
  PROVE  Finds(n, RangeIn(Push_Down(n), l, r, box), InsideOf(box))
<1> DEFINE m == Push_Down(n)
           outside == Apart(box, m)
           inside == Covers(box, m)
           hit == InBox(m.point, box) /\ ~m.point_deleted
<1>1. m \in TreeNodes /\ Sound(m) /\ m.point \in Points
  BY PushDownSound DEF TreeNodes, NodesOver
<1>2. Within(m)
  BY <1>1, FitsIs DEF Sound
<1>3. \A p \in Points : Held(m, p) # 0 =>
        (outside => p \notin InsideOf(box)) /\ (inside => p \in InsideOf(box))
  BY <1>1, <1>2, BoxAndRange DEF InsideOf
<1>4. outside \in BOOLEAN /\ inside \in BOOLEAN /\ hit \in BOOLEAN
  BY Zenon DEF Apart, Covers, InBox
<1>5. hit <=> m.point \in InsideOf(box) /\ ~m.point_deleted
  BY <1>1 DEF InsideOf
<1>6. RangeIn(m, l, r, box) = FindIn(m, l, r, outside, inside, hit)
  BY DEF RangeIn
<1> HIDE DEF outside, inside, hit
<1>7. Finds(n, FindIn(m, l, r, outside, inside, hit), InsideOf(box))
  BY ONLY AnyHeight, n \in TreeNodes, Sound(n), <1>3, <1>4, <1>5,
     l \in FindResults, r \in FindResults, Finds(Son(n, "left"), l, InsideOf(box)),
     Finds(Son(n, "right"), r, InsideOf(box)), FindInFinds, Zenon
<1> QED
  BY <1>6, <1>7

(* A search by range finds the points of the box, each as often as it is   *)
(* held, though it takes or leaves whole subtrees by their range.          *)
LEMMA SearchByRangeFinds ==
  ASSUME AnyHeight, NEW box, IsBox(box)
  PROVE  \A t \in Trees : Sound(t) => Finds(t, Search_by_range(t, box), InsideOf(box))
<1> DEFINE D(t) == Search_by_range(t, box)
           S == {t \in Trees : Sound(t) => Finds(t, D(t), InsideOf(box))}
<1>1. /\ D(None) = NoneFound
      /\ \A t \in Trees : D(t) \in FindResults
  BY SearchByRangeIs DEF NoneFound
<1>2. \A t \in TreeNodes : D(t) = RangeIn(Push_Down(t), D(Son(t, "left")), D(Son(t, "right")), box)
  BY SearchByRangeIs
<1> HIDE DEF D
<1>3. None \in S
  BY <1>1, NoneFinds, TreesAre
<1>4. ASSUME NEW n \in TreeNodes, \A s \in Side : Son(n, s) \in S
      PROVE  n \in S
  <2> SUFFICES ASSUME Sound(n)
               PROVE  Finds(n, D(n), InsideOf(box))
    BY TreesAre
  <2> DEFINE l == D(Son(n, "left"))
             r == D(Son(n, "right"))
  <2>1. l \in FindResults /\ r \in FindResults
    BY <1>1, SonType DEF Side
  <2>2. Finds(Son(n, "left"), l, InsideOf(box)) /\ Finds(Son(n, "right"), r, InsideOf(box))
    BY <1>4, PushDownSound DEF Side
  <2>3. D(n) = RangeIn(Push_Down(n), l, r, box)
    BY <1>2
  <2> HIDE DEF l, r
  <2> QED
    BY <2>1, <2>2, <2>3, RangeInFinds
<1>5. \A n \in TreeNodes : (\A s \in Side : Son(n, s) \in S) => n \in S
  <2> HIDE DEF S
  <2> QED
    BY <1>4
<1>6. \A t \in Trees : t \in S
  <2> HIDE DEF S
  <2> QED
    BY <1>3, <1>5, TreeInduction
<1> QED
  BY <1>6 DEF D

(***************************************************************************)
(* A deletion by range leaves no point of the box, and every other point.  *)
(***************************************************************************)
Erased(t, box, ds, p) == IF InBox(p, box) /\ ~ds THEN Held(t, p) ELSE 0

Cuts(t, d, box, ds) ==
  /\ d \in Deletions /\ Sound(d.tree)
  /\ \A p \in Points :
       /\ Held(d.tree, p) = IF InBox(p, box) THEN 0 ELSE Held(t, p)
       /\ Due(d.tree, p) + Times(d.removed, p) <= Due(t, p) + Erased(t, box, ds, p)

LEMMA DeletionIs ==
  \A x, y, z : LET d == [tree |-> x, removed |-> y, count |-> z]
               IN d.tree = x /\ d.removed = y /\ d.count = z
  OBVIOUS

(* A subtree outside the box stays, one inside it goes, with all it owes.  *)
LEMMA OutsideCuts ==
  ASSUME AnyHeight, NEW t, NEW x, NEW box, NEW ds \in BOOLEAN, Sound(t), Sound(x), SamePoints(t, x),
         \A p \in Points : InBox(p, box) => Held(t, p) = 0
  PROVE  Cuts(t, [tree |-> x, removed |-> <<>>, count |-> 0], box, ds)
<1> DEFINE d == [tree |-> x, removed |-> <<>>, count |-> 0]
<1>1. d.tree = x /\ d.removed = <<>> /\ d \in Deletions
  BY DEF Deletions, Sound
<1> HIDE DEF d
<1>2. ASSUME NEW p \in Points
      PROVE  /\ Held(d.tree, p) = IF InBox(p, box) THEN 0 ELSE Held(t, p)
             /\ Due(d.tree, p) + Times(d.removed, p) <= Due(t, p) + Erased(t, box, ds, p)
  <2>1. Held(x, p) = Held(t, p) /\ Due(x, p) = Due(t, p)
    BY DEF SamePoints
  <2>2. Held(t, p) \in Nat /\ Due(t, p) \in Nat /\ Times(<<>>, p) = 0
    BY HeldIs, TimesEmpty DEF Sound
  <2>3. Erased(t, box, ds, p) \in Nat
    BY <2>2 DEF Erased
  <2>4. Due(t, p) + 0 <= Due(t, p) + Erased(t, box, ds, p)
    BY ONLY <2>2, <2>3
  <2>5. InBox(p, box) => Held(t, p) = 0
    OBVIOUS
  <2> QED
    BY <1>1, <2>1, <2>2, <2>4, <2>5
<1> QED
  BY <1>1, <1>2 DEF Cuts, d

LEMMA InsideCuts ==
  ASSUME AnyHeight, NEW t, NEW n \in TreeNodes, NEW box, NEW ds \in BOOLEAN, NEW c \in Int,
         Sound(t), Sound(n), SamePoints(t, n),
         \A p \in Points : ~InBox(p, box) => Held(t, p) = 0
  PROVE  Cuts(t, [tree |-> DeleteAll(n, ds), removed |-> <<>>, count |-> c], box, ds)
<1> DEFINE x == DeleteAll(n, ds)
           d == [tree |-> x, removed |-> <<>>, count |-> c]
<1>1. /\ Sound(x)
      /\ \A p \in Points : /\ Held(x, p) = 0
                           /\ Due(x, p) = IF ds THEN 0 ELSE Due(n, p) + Held(n, p)
  BY DeleteAllSound
<1> HIDE DEF x
<1>2. d.tree = x /\ d.removed = <<>> /\ d \in Deletions
  BY <1>1 DEF Deletions, Sound
<1> HIDE DEF d
<1>3. ASSUME NEW p \in Points
      PROVE  /\ Held(d.tree, p) = IF InBox(p, box) THEN 0 ELSE Held(t, p)
             /\ Due(d.tree, p) + Times(d.removed, p) <= Due(t, p) + Erased(t, box, ds, p)
  <2>1. Held(n, p) = Held(t, p) /\ Due(n, p) = Due(t, p)
    BY DEF SamePoints
  <2>2. Held(t, p) \in Nat /\ Due(t, p) \in Nat /\ Times(<<>>, p) = 0
    BY HeldIs, TimesEmpty DEF Sound
  <2>3. Held(d.tree, p) = IF InBox(p, box) THEN 0 ELSE Held(t, p)
    BY <1>1, <1>2
  <2>4. CASE ds
    <3>1. Due(d.tree, p) + Times(d.removed, p) = 0 + 0
      BY <1>1, <1>2, <2>2, <2>4
    <3>2. Erased(t, box, ds, p) = 0
      BY <2>4 DEF Erased
    <3> QED
      BY ONLY <2>2, <2>3, <3>1, <3>2
  <2>5. CASE ~ds
    <3>1. Due(d.tree, p) + Times(d.removed, p) = Due(t, p) + Held(t, p) + 0
      BY <1>1, <1>2, <2>1, <2>2, <2>5
    <3>2. Erased(t, box, ds, p) = Held(t, p)
      BY <2>5 DEF Erased
    <3> QED
      BY ONLY <2>2, <2>3, <3>1, <3>2
  <2> QED
    BY <2>4, <2>5
<1> QED
  BY <1>1, <1>2, <1>3 DEF Cuts, d, x

LEMMA CutBelow ==
  ASSUME NEW de \in Nat, NEW re \in Nat, NEW rl \in Nat, NEW rr \in Nat, NEW dl \in Nat,
         NEW dr \in Nat, NEW wl \in Nat, NEW wr \in Nat, NEW xl \in Nat, NEW xr \in Nat,
         NEW told \in Nat, NEW was \in Nat, NEW own \in Nat,
         de + re = dl + dr + told, dl + rl <= wl + xl, dr + rr <= wr + xr, told <= was + own
  PROVE  de + (rl + rr + re) <= (wl + wr + was) + (own + xl + xr)
OBVIOUS

(* The point of a node and those of its sons, when neither holds.          *)
LEMMA BelowCuts ==
  ASSUME AnyHeight, NEW t \in TreeNodes, Sound(t), NEW box, NEW rank \in [Points -> Int],
         NEW ds \in BOOLEAN, NEW c \in Int, NEW l, NEW r,
         Cuts(Son(t, "left"), l, box, ds), Cuts(Son(t, "right"), r, box, ds),
         \A s \in Side : Son(t, s) = None => Two(l.tree, r.tree)[s] = None
  PROVE  LET e == DeleteBelow(Push_Down(t), l, r, box, rank, ds)
         IN Cuts(t, [tree |-> e.tree, removed |-> l.removed \o r.removed \o e.removed,
                     count |-> c], box, ds)
<1> DEFINE n == Push_Down(t)
           L == Son(t, "left")
           R == Son(t, "right")
           hit == DeletedHere(n, box)
           pd == n.point_deleted \/ hit
           pdd == n.point_downsample_deleted \/ (hit /\ ds)
           f == Two(l.tree, r.tree)
           m == Marked(n, pd, pdd, f)
           e == DeleteBelow(n, l, r, box, rank, ds)
           d == [tree |-> e.tree, removed |-> l.removed \o r.removed \o e.removed, count |-> c]
<1>1. /\ n \in TreeNodes /\ Sound(n) /\ SamePoints(t, n)
      /\ Son(n, "left") = L /\ Son(n, "right") = R
      /\ \A s \in Side : n.need_push[s] => Son(t, s) = None
  BY PushDownSound DEF Side
<1>2. /\ l \in Deletions /\ Sound(l.tree) /\ r \in Deletions /\ Sound(r.tree)
  BY DEF Cuts
<1>3. f \in [Side -> Trees] /\ f["left"] = l.tree /\ f["right"] = r.tree
  BY <1>2, TwoIs DEF Sound
<1>4. \A s \in Side : n.need_push[s] => f[s] = None
  BY <1>1
<1> HIDE DEF n, L, R
<1>5. n.point_deleted \in BOOLEAN /\ n.point_downsample_deleted \in BOOLEAN
  BY <1>1 DEF TreeNodes, NodesOver
<1>6. n.point_downsample_deleted => n.point_deleted
  BY <1>1, AllExactIs DEF Sound, Exact
<1>7. pd \in BOOLEAN /\ pdd \in BOOLEAN /\ (pdd => pd)
  BY <1>5, <1>6 DEF DeletedHere
<1>8. e = Finish(m, rank)
  BY DEF DeleteBelow
<1> HIDE DEF hit, pd, pdd, f, e
<1>9. /\ m \in TreeNodes /\ m.son = f /\ m.need_push = n.need_push /\ m.point = n.point
      /\ m.point_deleted = pd /\ m.point_downsample_deleted = pdd
  BY ONLY <1>1, <1>3, <1>7, MarkedIs
<1> HIDE DEF m
<1>10. Ready(m)
  <2>1. \A s \in Side : Sound(m.son[s])
    BY <1>2, <1>3, <1>9 DEF Side
  <2>2. \A s \in Side : m.need_push[s] => Gone(m.son[s]) = 0
    BY <1>4, <1>9 DEF Gone
  <2> QED
    BY <1>7, <1>9, <2>1, <2>2 DEF Ready
<1>11. /\ e \in Results /\ Sound(e.tree)
       /\ \A p \in Points :
            /\ Held(e.tree, p) = One(~m.point_deleted /\ m.point = p)
                                 + Held(m.son["left"], p) + Held(m.son["right"], p)
            /\ Due(e.tree, p) + Times(e.removed, p)
                 = Due(m.son["left"], p) + Due(m.son["right"], p) + One(Reported(m) /\ m.point = p)
  BY <1>8, <1>9, <1>10, FinishSound
<1>12. d.tree = e.tree /\ d.removed = l.removed \o r.removed \o e.removed
  BY ONLY DeletionIs
<1>13. l.removed \in Seq(Points) /\ r.removed \in Seq(Points) /\ e.removed \in Seq(Points)
  BY <1>2, <1>11 DEF Deletions, Results
<1>14. d \in Deletions
  <2>1. l.removed \o r.removed \o e.removed \in Seq(Points)
    BY <1>13
  <2>2. e.tree \in Trees
    BY <1>11 DEF Results
  <2> QED
    BY <2>1, <2>2 DEF Deletions
<1> HIDE DEF d
<1>15. ASSUME NEW p \in Points
       PROVE  /\ Held(d.tree, p) = IF InBox(p, box) THEN 0 ELSE Held(t, p)
              /\ Due(d.tree, p) + Times(d.removed, p) <= Due(t, p) + Erased(t, box, ds, p)
  <2> DEFINE own == One(~n.point_deleted /\ n.point = p)
             was == One(Reported(n) /\ n.point = p)
             told == One(Reported(m) /\ m.point = p)
             left == One(~m.point_deleted /\ m.point = p)
  <2>1. Held(t, p) = own + Held(L, p) + Held(R, p) /\ Due(t, p) = Due(L, p) + Due(R, p) + was
    <3>1. /\ Held(n, p) = own + Held(Son(n, "left"), p) + Held(Son(n, "right"), p)
          /\ Due(n, p) = Due(Son(n, "left"), p) + Due(Son(n, "right"), p) + was
      BY <1>1, HeldIs
    <3>2. Held(t, p) = Held(n, p) /\ Due(t, p) = Due(n, p)
      BY <1>1 DEF SamePoints
    <3> QED
      BY ONLY <1>1, <3>1, <3>2
  <2>2. /\ Held(e.tree, p) = left + Held(l.tree, p) + Held(r.tree, p)
        /\ Due(e.tree, p) + Times(e.removed, p) = Due(l.tree, p) + Due(r.tree, p) + told
    <3>1. /\ Held(e.tree, p) = One(~m.point_deleted /\ m.point = p)
                               + Held(m.son["left"], p) + Held(m.son["right"], p)
          /\ Due(e.tree, p) + Times(e.removed, p)
               = Due(m.son["left"], p) + Due(m.son["right"], p) + One(Reported(m) /\ m.point = p)
      BY <1>11
    <3> QED
      BY ONLY <1>3, <1>9, <3>1
  <2>3. /\ Held(l.tree, p) = IF InBox(p, box) THEN 0 ELSE Held(L, p)
        /\ Due(l.tree, p) + Times(l.removed, p) <= Due(L, p) + Erased(L, box, ds, p)
        /\ Held(r.tree, p) = IF InBox(p, box) THEN 0 ELSE Held(R, p)
        /\ Due(r.tree, p) + Times(r.removed, p) <= Due(R, p) + Erased(R, box, ds, p)
    BY DEF Cuts, L, R
  <2>4. left = IF InBox(p, box) THEN 0 ELSE own
    BY <1>9 DEF One, DeletedHere, hit, pd
  <2> DEFINE extra == IF InBox(p, box) /\ ~ds THEN own ELSE 0
  <2>5. told <= was + extra
    BY <1>5, <1>6, <1>9 DEF One, DeletedHere, hit, pd, pdd, Reported
  <2>6. L \in Trees /\ R \in Trees /\ l.tree \in Trees /\ r.tree \in Trees /\ e.tree \in Trees
    BY <1>2, <1>11, SonType DEF Sound, L, R, Side
  <2>7. /\ Held(L, p) \in Nat /\ Held(R, p) \in Nat /\ Due(L, p) \in Nat /\ Due(R, p) \in Nat
        /\ Due(l.tree, p) \in Nat /\ Due(r.tree, p) \in Nat /\ Due(e.tree, p) \in Nat
    BY <2>6, HeldIs
  <2>8. /\ Times(l.removed, p) \in Nat /\ Times(r.removed, p) \in Nat /\ Times(e.removed, p) \in Nat
    BY <1>13, TimesType
  <2>9. own \in Nat /\ was \in Nat /\ told \in Nat /\ extra \in Nat
    BY DEF One
  <2>10. Times(d.removed, p) = Times(l.removed, p) + Times(r.removed, p) + Times(e.removed, p)
    BY <1>12, <1>13, TimesConcat3
  <2>11. /\ Erased(L, box, ds, p) \in Nat /\ Erased(R, box, ds, p) \in Nat
    BY <2>7 DEF Erased
  <2>12. Held(d.tree, p) = IF InBox(p, box) THEN 0 ELSE Held(t, p)
    <3> HIDE DEF own, left
    <3>1. CASE InBox(p, box)
      <4>1. Held(e.tree, p) = 0 + 0 + 0
        BY ONLY <2>2, <2>3, <2>4, <3>1
      <4> QED
        BY <1>12, <3>1, <4>1
    <3>2. CASE ~InBox(p, box)
      <4>1. Held(e.tree, p) = own + Held(L, p) + Held(R, p)
        BY ONLY <2>2, <2>3, <2>4, <3>2
      <4> QED
        BY <1>12, <2>1, <3>2, <4>1
    <3> QED
      BY <3>1, <3>2
  <2>13. Erased(t, box, ds, p) = extra + Erased(L, box, ds, p) + Erased(R, box, ds, p)
    <3> HIDE DEF own
    <3>1. CASE InBox(p, box) /\ ~ds
      BY ONLY <2>1, <3>1 DEF Erased
    <3>2. CASE ~(InBox(p, box) /\ ~ds)
      <4>1. Erased(t, box, ds, p) = 0 /\ Erased(L, box, ds, p) = 0 /\ Erased(R, box, ds, p) = 0
            /\ extra = 0
        BY ONLY <3>2 DEF Erased
      <4> QED
        BY ONLY <4>1
    <3> QED
      BY <3>1, <3>2
  <2> HIDE DEF own, was, told, left, extra
  <2>14. Due(e.tree, p) + (Times(l.removed, p) + Times(r.removed, p) + Times(e.removed, p))
           <= (Due(L, p) + Due(R, p) + was)
              + (extra + Erased(L, box, ds, p) + Erased(R, box, ds, p))
    <3>1. Due(e.tree, p) + Times(e.removed, p) = Due(l.tree, p) + Due(r.tree, p) + told
      BY <2>2
    <3>2. /\ Due(l.tree, p) + Times(l.removed, p) <= Due(L, p) + Erased(L, box, ds, p)
          /\ Due(r.tree, p) + Times(r.removed, p) <= Due(R, p) + Erased(R, box, ds, p)
      BY <2>3
    <3> QED
      BY ONLY <2>5, <2>7, <2>8, <2>9, <2>11, <3>1, <3>2, CutBelow
  <2> QED
    BY ONLY <1>12, <2>1, <2>10, <2>12, <2>13, <2>14
<1> QED
  BY <1>11, <1>12, <1>14, <1>15 DEF Cuts, d, e, n

LEMMA DeleteStepCuts ==
  ASSUME AnyHeight, NEW t \in TreeNodes, Sound(t), NEW box, IsBox(box),
         NEW rank \in [Points -> Int], NEW ds \in BOOLEAN, NEW l, NEW r,
         Cuts(Son(t, "left"), l, box, ds), Cuts(Son(t, "right"), r, box, ds),
         \A s \in Side : Son(t, s) = None => Two(l.tree, r.tree)[s] = None
  PROVE  Cuts(t, DeleteStep(t, l, r, box, rank, ds), box, ds)
<1>1. t \in Trees /\ t # None /\ AllExact(t)
  BY TreesAre, NoneIsNoNode DEF Sound
<1>2. CASE t.tree_deleted
  <2>1. \A p \in Points : Held(t, p) = 0
    BY <1>1, <1>2, CountsAre, DeletedHolds DEF Emptied
  <2>2. SamePoints(t, t)
    BY DEF SamePoints
  <2>3. DeleteStep(t, l, r, box, rank, ds) = [tree |-> t, removed |-> <<>>, count |-> 0]
    BY <1>2 DEF DeleteStep
  <2> QED
    BY <2>1, <2>2, <2>3, OutsideCuts
<1>3. CASE ~t.tree_deleted
  <2> DEFINE n == Push_Down(t)
             e == DeleteBelow(n, l, r, box, rank, ds)
  <2>1. n \in TreeNodes /\ Sound(n) /\ SamePoints(t, n)
    BY PushDownSound
  <2>2. DeleteStep(t, l, r, box, rank, ds) = DeleteIn(n, l, r, box, rank, ds)
    BY <1>3 DEF DeleteStep
  <2>3. \A c \in Int : Cuts(t, [tree |-> e.tree, removed |-> l.removed \o r.removed \o e.removed,
                                count |-> c], box, ds)
    BY BelowCuts
  <2> HIDE DEF n, e
  <2>4. ASSUME NEW p \in Points, Held(t, p) # 0
        PROVE  (Apart(box, n) => ~InBox(p, box)) /\ (Covers(box, n) => InBox(p, box))
    <3>1. Within(n)
      BY <2>1, FitsIs DEF Sound
    <3>2. Held(n, p) # 0
      BY <2>1, <2>4 DEF SamePoints
    <3> QED
      BY <2>1, <3>1, <3>2, BoxAndRange
  <2>5. CASE Apart(box, n)
    <3>1. DeleteIn(n, l, r, box, rank, ds) = [tree |-> n, removed |-> <<>>, count |-> 0]
      BY <2>5 DEF DeleteIn
    <3>2. \A p \in Points : InBox(p, box) => Held(t, p) = 0
      BY <2>4, <2>5
    <3> QED
      BY <2>1, <2>2, <3>1, <3>2, OutsideCuts
  <2>6. CASE ~Apart(box, n) /\ Covers(box, n)
    <3>1. DeleteIn(n, l, r, box, rank, ds)
            = [tree |-> DeleteAll(n, ds), removed |-> <<>>, count |-> n.size - n.invalid]
      BY <2>6 DEF DeleteIn
    <3>2. \A p \in Points : ~InBox(p, box) => Held(t, p) = 0
      BY <2>4, <2>6
    <3>3. n.size - n.invalid \in Int
      BY <2>1 DEF TreeNodes, NodesOver
    <3> QED
      BY <2>1, <2>2, <3>1, <3>2, <3>3, InsideCuts
  <2>7. CASE ~Apart(box, n) /\ ~Covers(box, n)
    <3> DEFINE c == One(DeletedHere(n, box)) + l.count + r.count
    <3>1. DeleteIn(n, l, r, box, rank, ds)
            = [tree |-> e.tree, removed |-> l.removed \o r.removed \o e.removed, count |-> c]
      BY <2>7 DEF DeleteIn, e
    <3>2. c \in Int
      <4>1. l.count \in Int /\ r.count \in Int
        BY DEF Cuts, Deletions
      <4>2. One(DeletedHere(n, box)) \in Int
        BY DEF One
      <4> QED
        BY ONLY <4>1, <4>2, IntegersAdd
    <3> HIDE DEF c
    <3> QED
      BY <2>2, <2>3, <3>1, <3>2
  <2> QED
    BY <2>5, <2>6, <2>7
<1> QED
  BY <1>2, <1>3

LEMMA DeleteByRangeCuts ==
  ASSUME AnyHeight, NEW box, IsBox(box), NEW rank \in [Points -> Int], NEW ds \in BOOLEAN
  PROVE  \A t \in Trees : Sound(t) => Cuts(t, Delete_by_range(t, box, rank, ds), box, ds)
<1> DEFINE D(t) == Delete_by_range(t, box, rank, ds)
           S == {t \in Trees : Sound(t) => Cuts(t, D(t), box, ds)}
<1>1. D(None) = [tree |-> None, removed |-> <<>>, count |-> 0]
  BY DeleteByRangeIs
<1>2. \A t \in TreeNodes : D(t) = DeleteStep(t, D(Son(t, "left")), D(Son(t, "right")), box, rank, ds)
  BY DeleteByRangeIs
<1> HIDE DEF D
<1>3. D(None).tree = None
  BY ONLY <1>1
<1>4. None \in S
  <2>1. Sound(None) /\ SamePoints(None, None)
    BY NoneKept DEF Kept
  <2>2. \A p \in Points : Held(None, p) = 0
    BY HeldIs
  <2>3. Cuts(None, D(None), box, ds)
    BY <1>1, <2>1, <2>2, OutsideCuts
  <2> QED
    BY <2>3, TreesAre
<1>5. ASSUME NEW t \in TreeNodes, \A s \in Side : Son(t, s) \in S
      PROVE  t \in S
  <2> SUFFICES ASSUME Sound(t)
               PROVE  Cuts(t, D(t), box, ds)
    BY TreesAre
  <2> DEFINE l == D(Son(t, "left"))
             r == D(Son(t, "right"))
  <2>1. Cuts(Son(t, "left"), l, box, ds) /\ Cuts(Son(t, "right"), r, box, ds)
    BY <1>5, PushDownSound DEF Side
  <2>2. l.tree \in Trees /\ r.tree \in Trees
    BY <2>1 DEF Cuts, Sound
  <2>3. Two(l.tree, r.tree)["left"] = l.tree /\ Two(l.tree, r.tree)["right"] = r.tree
    BY <2>2, TwoIs
  <2>4. \A s \in Side : Son(t, s) = None => Two(l.tree, r.tree)[s] = None
    BY <1>3, <2>3 DEF Side
  <2>5. D(t) = DeleteStep(t, l, r, box, rank, ds)
    BY <1>2
  <2> HIDE DEF l, r
  <2> QED
    BY <2>1, <2>4, <2>5, DeleteStepCuts
<1>6. \A n \in TreeNodes : (\A s \in Side : Son(n, s) \in S) => n \in S
  <2> HIDE DEF S
  <2> QED
    BY <1>5
<1>7. \A t \in Trees : t \in S
  <2> HIDE DEF S
  <2> QED
    BY <1>4, <1>6, TreeInduction
<1> QED
  BY <1>7 DEF D

-----------------------------------------------------------------------------
(***************************************************************************)
(* Bags of points, by how often they hold a point.                         *)
(***************************************************************************)
Copies(e, B) == IF e \in DOMAIN B THEN B[e] ELSE 0
PointBag(B) == IsABag(B) /\ DOMAIN B \subseteq Points

LEMMA CopiesType ==
  ASSUME NEW B, PointBag(B)
  PROVE  \A p : Copies(p, B) \in Nat /\ (p \in DOMAIN B <=> Copies(p, B) # 0)
BY DEF PointBag, IsABag, Copies

LEMMA SameBag ==
  ASSUME NEW A, NEW B, PointBag(A), PointBag(B), \A p \in Points : Copies(p, A) = Copies(p, B)
  PROVE  A = B
<1>1. DOMAIN A = DOMAIN B
  BY CopiesType DEF PointBag
<1>2. \A p \in DOMAIN A : A[p] = B[p]
  BY <1>1 DEF Copies, PointBag
<1>3. A = [p \in DOMAIN A |-> A[p]] /\ B = [p \in DOMAIN B |-> B[p]]
  BY DEF PointBag, IsABag
<1> QED
  BY <1>1, <1>2, <1>3

LEMMA BagIsBelow ==
  ASSUME NEW A, NEW B, PointBag(A), PointBag(B), \A p \in Points : Copies(p, A) <= Copies(p, B)
  PROVE  A \sqsubseteq B
<1>1. ASSUME NEW p \in DOMAIN A
      PROVE  p \in DOMAIN B /\ A[p] <= B[p]
  <2>1. p \in Points /\ A[p] = Copies(p, A)
    BY DEF PointBag, Copies
  <2>2. Copies(p, A) <= Copies(p, B) /\ Copies(p, A) \in Nat /\ Copies(p, A) # 0
    BY <2>1, CopiesType
  <2>3. Copies(p, B) \in Nat /\ (p \in DOMAIN B <=> Copies(p, B) # 0)
    BY CopiesType
  <2>4. Copies(p, B) # 0
    BY ONLY <2>2, <2>3
  <2> QED
    BY <2>1, <2>2, <2>3, <2>4 DEF Copies
<1> QED
  BY <1>1 DEF \sqsubseteq

LEMMA EmptyBagIs ==
  PointBag(EmptyBag) /\ \A p : Copies(p, EmptyBag) = 0
BY DEF EmptyBag, SetToBag, PointBag, IsABag, Copies

LEMMA SetBagIs ==
  ASSUME NEW S, S \subseteq Points
  PROVE  PointBag(SetToBag(S)) /\ \A p : Copies(p, SetToBag(S)) = One(p \in S)
BY DEF SetToBag, PointBag, IsABag, Copies, One

LEMMA BagPlus ==
  ASSUME NEW A, NEW B, PointBag(A), PointBag(B)
  PROVE  PointBag(A (+) B) /\ \A p : Copies(p, A (+) B) = Copies(p, A) + Copies(p, B)
<1> DEFINE C == A (+) B
<1>1. C = [e \in DOMAIN A \cup DOMAIN B |-> Copies(e, A) + Copies(e, B)]
  BY Zenon DEF (+), Copies
<1>2. \A e : Copies(e, A) \in Nat /\ Copies(e, B) \in Nat
  BY CopiesType
<1>3. \A e : e \in DOMAIN A \cup DOMAIN B <=> Copies(e, A) # 0 \/ Copies(e, B) # 0
  BY CopiesType
<1> HIDE DEF C
<1>4. DOMAIN C = DOMAIN A \cup DOMAIN B
  BY <1>1
<1>5. \A e \in DOMAIN C : C[e] = Copies(e, A) + Copies(e, B)
  BY <1>1
<1>6. ASSUME NEW p
      PROVE  Copies(p, C) = Copies(p, A) + Copies(p, B)
  <2>1. CASE p \in DOMAIN C
    BY <1>5, <2>1 DEF Copies
  <2>2. CASE p \notin DOMAIN C
    <3>1. Copies(p, C) = 0
      BY <2>2 DEF Copies
    <3>2. Copies(p, A) = 0 /\ Copies(p, B) = 0
      BY <1>3, <1>4, <2>2
    <3> QED
      BY <3>1, <3>2
  <2> QED
    BY <2>1, <2>2
<1>7. \A e \in DOMAIN C : C[e] \in {n \in Nat : n > 0}
  <2> SUFFICES ASSUME NEW e \in DOMAIN C
               PROVE  C[e] \in {n \in Nat : n > 0}
    OBVIOUS
  <2>1. C[e] = Copies(e, A) + Copies(e, B)
    BY <1>5
  <2>2. Copies(e, A) # 0 \/ Copies(e, B) # 0
    BY <1>3, <1>4
  <2>3. Copies(e, A) \in Nat /\ Copies(e, B) \in Nat
    BY <1>2
  <2> QED
    BY ONLY <2>1, <2>2, <2>3
<1>8. C \in [DOMAIN C -> {n \in Nat : n > 0}]
  BY <1>1, <1>4, <1>7
<1>9. PointBag(C)
  BY <1>4, <1>8 DEF PointBag, IsABag
<1> QED
  BY <1>6, <1>9 DEF C

LEMMA BagMinus ==
  ASSUME NEW A, NEW B, PointBag(A), PointBag(B), \A p : Copies(p, B) <= Copies(p, A)
  PROVE  PointBag(A (-) B) /\ \A p : Copies(p, A (-) B) + Copies(p, B) = Copies(p, A)
<1> DEFINE C == A (-) B
           D == [e \in DOMAIN A |-> IF e \in DOMAIN B THEN A[e] - B[e] ELSE A[e]]
<1>1. C = [e \in {d \in DOMAIN D : D[d] > 0} |-> D[e]]
  BY Zenon DEF (-)
<1>2. \A e : Copies(e, A) \in Nat /\ Copies(e, B) \in Nat
  BY CopiesType
<1>3. \A e \in DOMAIN A : D[e] = Copies(e, A) - Copies(e, B)
  BY DEF Copies, PointBag, IsABag
<1>4. DOMAIN D = DOMAIN A
  OBVIOUS
<1> HIDE DEF C, D
<1>5. DOMAIN C = {d \in DOMAIN D : D[d] > 0} /\ \A e \in DOMAIN C : C[e] = D[e]
  BY <1>1
<1>6. ASSUME NEW p
      PROVE  Copies(p, C) + Copies(p, B) = Copies(p, A)
  <2>0. Copies(p, A) \in Nat /\ Copies(p, B) \in Nat /\ Copies(p, B) <= Copies(p, A)
    BY <1>2
  <2>1. CASE p \in DOMAIN C
    <3>1. Copies(p, C) = Copies(p, A) - Copies(p, B)
      BY <1>3, <1>4, <1>5, <2>1 DEF Copies
    <3> QED
      BY ONLY <2>0, <3>1
  <2>2. CASE p \notin DOMAIN C
    <3>1. Copies(p, C) = 0
      BY <2>2 DEF Copies
    <3>2. CASE p \in DOMAIN A
      <4>1. D[p] = Copies(p, A) - Copies(p, B) /\ ~(D[p] > 0)
        BY <1>3, <1>4, <1>5, <2>2, <3>2
      <4>2. Copies(p, A) = Copies(p, B)
        BY ONLY <2>0, <4>1
      <4> QED
        BY ONLY <2>0, <3>1, <4>2
    <3>3. CASE p \notin DOMAIN A
      <4>1. Copies(p, A) = 0
        BY <3>3 DEF Copies
      <4> QED
        BY ONLY <2>0, <3>1, <4>1
    <3> QED
      BY <3>2, <3>3
  <2> QED
    BY <2>1, <2>2
<1>7. \A e \in DOMAIN C : C[e] \in Int /\ C[e] > 0
  BY <1>2, <1>3, <1>4, <1>5
<1>8. C \in [DOMAIN C -> {n \in Nat : n > 0}] /\ DOMAIN C \subseteq DOMAIN A
  <2>1. \A e \in DOMAIN C : C[e] \in {n \in Nat : n > 0}
    BY ONLY <1>7
  <2>2. C = [e \in DOMAIN C |-> C[e]]
    BY <1>1, <1>5
  <2> QED
    BY <1>4, <1>5, <2>1, <2>2
<1>9. PointBag(C)
  BY <1>8 DEF PointBag, IsABag
<1> QED
  BY <1>6, <1>9 DEF C

LEMMA BagOnly ==
  ASSUME NEW B, PointBag(B), NEW S
  PROVE  /\ PointBag(Only(B, S))
         /\ \A p : Copies(p, Only(B, S)) = IF p \in S THEN Copies(p, B) ELSE 0
BY DEF Only, BagToSet, PointBag, IsABag, Copies

LEMMA BagOfIs ==
  ASSUME NEW q \in Seq(Points)
  PROVE  PointBag(BagOf(q)) /\ \A p : Copies(p, BagOf(q)) = Times(q, p)
<1> DEFINE B == BagOf(q)
<1>1. B = [p \in ToSet(q) |-> Times(q, p)]
  BY Zenon DEF BagOf, Times, At
<1>2. ToSet(q) = {q[i] : i \in DOMAIN q}
  BY DEF ToSet
<1>3. ToSet(q) \subseteq Points
  BY <1>2
<1>4. \A p : Times(q, p) \in Nat /\ (Times(q, p) # 0 <=> p \in ToSet(q))
  BY <1>2, TimesType
<1> HIDE DEF B
<1>5. DOMAIN B = ToSet(q) /\ \A p \in DOMAIN B : B[p] = Times(q, p)
  BY <1>1
<1>6. \A p \in DOMAIN B : B[p] \in {n \in Nat : n > 0}
  <2> SUFFICES ASSUME NEW p \in DOMAIN B
               PROVE  B[p] \in {n \in Nat : n > 0}
    OBVIOUS
  <2>1. B[p] = Times(q, p) /\ Times(q, p) \in Nat /\ Times(q, p) # 0
    BY <1>4, <1>5
  <2> QED
    BY ONLY <2>1
<1>7. PointBag(B)
  BY <1>1, <1>3, <1>5, <1>6 DEF PointBag, IsABag
<1>8. \A p : Copies(p, B) = Times(q, p)
  BY <1>4, <1>5 DEF Copies
<1> QED
  BY <1>7, <1>8 DEF B

(***************************************************************************)
(* What the map keeps: its tree is sound, the history is that of its       *)
(* points, and what it reported or still owes was deleted on request.      *)
(***************************************************************************)
Owed ==
  /\ PointBag(Points_deleted) /\ PointBag(erased)
  /\ \A p \in Points : Copies(p, Points_deleted) + Due(Root_Node, p) <= Copies(p, erased)

PointsKept == Sound(Root_Node) /\ content = BagOf(flatten[Root_Node]) /\ Owed

LEMMA SoundIs ==
  ASSUME AnyHeight, NEW t, Sound(t)
  PROVE  /\ t \in Trees /\ flatten[t] \in Seq(Points) /\ Removed[t] \in Seq(Points)
         /\ \A p \in Points : Held(t, p) \in Nat /\ Due(t, p) \in Nat
BY FlattenIs, RemovedIs, HeldIs DEF Sound

LEMMA ContentIs ==
  ASSUME AnyHeight, NEW t, Sound(t)
  PROVE  PointBag(BagOf(flatten[t])) /\ \A p \in Points : Copies(p, BagOf(flatten[t])) = Held(t, p)
BY SoundIs, BagOfIs DEF Held

LEMMA OwedIsReported ==
  ASSUME AnyHeight, PointsKept
  PROVE  ReportedOnce
<1> DEFINE R == BagOf(Removed[Root_Node])
<1>1. PointBag(R) /\ \A p : Copies(p, R) = Due(Root_Node, p)
  BY SoundIs, BagOfIs DEF PointsKept, Due
<1>2. PointBag(Points_deleted) /\ PointBag(erased)
  BY DEF PointsKept, Owed
<1> HIDE DEF R
<1>3. /\ PointBag(Points_deleted (+) R)
      /\ \A p : Copies(p, Points_deleted (+) R) = Copies(p, Points_deleted) + Copies(p, R)
  BY <1>1, <1>2, BagPlus
<1>4. \A p \in Points : Copies(p, Points_deleted (+) R) <= Copies(p, erased)
  BY <1>1, <1>3 DEF PointsKept, Owed
<1>5. Points_deleted (+) R \sqsubseteq erased
  BY <1>2, <1>3, <1>4, BagIsBelow
<1> QED
  BY <1>5 DEF R, ReportedOnce

LEMMA OwedInit ==
  ASSUME AnyHeight, Init
  PROVE  PointsKept
<1>1. Root_Node = None /\ Points_deleted = EmptyBag /\ erased = EmptyBag /\ content = EmptyBag
  BY DEF Init
<1>2. Sound(None)
  BY NoneKept DEF Kept
<1>3. PointBag(BagOf(flatten[None])) /\ \A p \in Points : Copies(p, BagOf(flatten[None])) = 0
  BY <1>2, ContentIs, HeldIs
<1>4. BagOf(flatten[None]) = EmptyBag
  BY <1>3, EmptyBagIs, SameBag
<1>5. \A p \in Points : Due(None, p) = 0 /\ Copies(p, EmptyBag) = 0
  BY HeldIs, EmptyBagIs
<1> QED
  BY <1>1, <1>2, <1>4, <1>5, EmptyBagIs DEF PointsKept, Owed

(* What a call reports and still owes afterwards is what was owed before   *)
(* it, or deleted by it.                                                   *)
LEMMA SettledIsOwed ==
  ASSUME AnyHeight, Owed, Sound(Root_Node), Sound(Root_Node'),
         NEW seq \in Seq(Points), Drop(seq), PointBag(erased'),
         \A p \in Points : Due(Root_Node', p) + Times(seq, p) + Copies(p, erased)
                             <= Due(Root_Node, p) + Copies(p, erased')
  PROVE  Owed'
<1>1. PointBag(Points_deleted) /\ PointBag(erased)
  BY DEF Owed
<1>2. PointBag(BagOf(seq)) /\ \A p : Copies(p, BagOf(seq)) = Times(seq, p)
  BY BagOfIs
<1>3. /\ PointBag(Points_deleted')
      /\ \A p : Copies(p, Points_deleted') = Copies(p, Points_deleted) + Copies(p, BagOf(seq))
  BY <1>1, <1>2, BagPlus, Zenon DEF Drop
<1>4. ASSUME NEW p \in Points
      PROVE  Copies(p, Points_deleted') + Due(Root_Node', p) <= Copies(p, erased')
  <2> DEFINE d == Copies(p, Points_deleted)
             dd == Copies(p, Points_deleted')
             e == Copies(p, erased)
             ee == Copies(p, erased')
             u == Due(Root_Node, p)
             uu == Due(Root_Node', p)
             x == Times(seq, p)
  <2>1. d \in Nat /\ dd \in Nat /\ e \in Nat /\ ee \in Nat
    BY <1>1, <1>3, CopiesType
  <2>2. u \in Nat /\ uu \in Nat /\ x \in Nat
    BY SoundIs, TimesType
  <2>3. dd = d + x
    BY <1>2, <1>3
  <2>4. d + u <= e
    BY DEF Owed
  <2>5. uu + x + e <= u + ee
    OBVIOUS
  <2> HIDE DEF d, dd, e, ee, u, uu, x
  <2>6. dd + uu <= ee
    BY ONLY <2>1, <2>2, <2>3, <2>4, <2>5
  <2> QED
    BY <2>6 DEF dd, uu, ee
<1> QED
  BY <1>3, <1>4 DEF Owed

LEMMA BoxesAre ==
  /\ \A b \in Boxes : IsBox(b)
  /\ \A p \in Points : Voxel(p) \in Voxels /\ InBox(p, Voxel(p)) /\ IsBox(Voxel(p))
<1>1. \A b \in Boxes \cup Voxels : IsBox(b)
  BY MapAssumption DEF IsBox
<1>2. ASSUME NEW p \in Points
      PROVE  Voxel(p) \in Voxels /\ InBox(p, Voxel(p))
  <2>1. \E v \in Voxels : InBox(p, v)
    BY MapAssumption
  <2> QED
    BY <2>1 DEF Voxel
<1> QED
  BY <1>1, <1>2

(* A downsampled insertion frees the voxel of every point but one, or      *)
(* leaves the points as they are; it has nothing to report of its own.     *)
Replaced(v, best) ==
  \E seq \in Seq(Points) :
    /\ Drop(seq)
    /\ \A q \in Points :
         /\ Held(Root_Node', q) = (IF InBox(q, v) THEN 0 ELSE Held(Root_Node, q)) + One(q = best)
         /\ Due(Root_Node', q) + Times(seq, q) <= Due(Root_Node, q)

LEMMA DownsampledIs ==
  ASSUME AnyHeight, Sound(Root_Node), NEW p \in Points, NEW rank \in Ranks, AddDownsampled(p, rank)
  PROVE  LET v == Voxel(p)
             s == Search_by_range(Root_Node, v)
             best == Closest(p, s.found, v)
         IN /\ Sound(Root_Node') /\ UNCHANGED erased
            /\ s.found \in Seq(Points) /\ best \in Points
            /\ \A q \in Points : Times(s.found, q) = IF InBox(q, v) THEN Held(Root_Node, q) ELSE 0
            /\ IF Len(s.found) > 1 \/ best = p THEN Replaced(v, best)
               ELSE SamePoints(Root_Node, Root_Node') /\ UNCHANGED Points_deleted
<1> DEFINE v == Voxel(p)
           s == Search_by_range(Root_Node, v)
           best == Closest(p, s.found, v)
           cleared == IF s.found = <<>> THEN [tree |-> s.tree, removed |-> <<>>]
                      ELSE Delete_by_range(s.tree, v, rank, TRUE)
           d == Add_by_point(cleared.tree, best, rank, cleared.tree.axis)
<1>1. /\ UNCHANGED erased
      /\ IF Len(s.found) > 1 \/ best = p
         THEN cleared.tree # None /\ Root_Node' = d.tree /\ Drop(cleared.removed \o d.removed)
         ELSE Root_Node' = s.tree /\ UNCHANGED Points_deleted
  BY DEF AddDownsampled
<1>2. IsBox(v) /\ rank \in [Points -> Int]
  BY BoxesAre, RanksAre
<1>3. s \in FindResults /\ Finds(Root_Node, s, InsideOf(v))
  BY <1>2, SearchByRangeIs, SearchByRangeFinds DEF Sound
<1>4. s.found \in Seq(Points) /\ best \in Points
  BY <1>3, ClosestType DEF FindResults
<1>5. /\ Sound(s.tree) /\ SamePoints(Root_Node, s.tree)
      /\ \A q \in Points : Times(s.found, q) = IF InBox(q, v) THEN Held(Root_Node, q) ELSE 0
  BY <1>3 DEF Finds, Kept, InsideOf
<1> HIDE DEF s, v, best
<1>6. /\ Sound(cleared.tree) /\ cleared.removed \in Seq(Points)
      /\ \A q \in Points :
           /\ Held(cleared.tree, q) = IF InBox(q, v) THEN 0 ELSE Held(Root_Node, q)
           /\ Due(cleared.tree, q) + Times(cleared.removed, q) <= Due(Root_Node, q)
  <2>1. CASE s.found = <<>>
    <3>1. cleared.tree = s.tree /\ cleared.removed = <<>>
      BY <2>1
    <3> HIDE DEF cleared
    <3>2. \A q \in Points : InBox(q, v) => Held(Root_Node, q) = 0
      BY <1>5, <2>1, TimesEmpty
    <3>3. \A q \in Points : Held(s.tree, q) = Held(Root_Node, q) /\ Due(s.tree, q) = Due(Root_Node, q)
      BY <1>5 DEF SamePoints
    <3>4. \A q \in Points : Due(Root_Node, q) \in Nat
      BY SoundIs
    <3>5. \A q \in Points : Held(s.tree, q) = IF InBox(q, v) THEN 0 ELSE Held(Root_Node, q)
      BY <3>2, <3>3
    <3>6. \A q \in Points : Due(s.tree, q) + Times(<<>>, q) <= Due(Root_Node, q)
      BY <3>3, <3>4, TimesEmpty
    <3> QED
      BY <1>5, <3>1, <3>5, <3>6
  <2>2. CASE s.found # <<>>
    <3>1. cleared = Delete_by_range(s.tree, v, rank, TRUE)
      BY <2>2
    <3> HIDE DEF cleared
    <3>2. s.tree \in Trees
      BY <1>5 DEF Sound
    <3>3. Cuts(s.tree, cleared, v, TRUE)
      BY <1>2, <1>5, <3>1, <3>2, DeleteByRangeCuts
    <3>4. \A q : Erased(s.tree, v, TRUE, q) = 0
      BY DEF Erased
    <3>5. \A q \in Points : Held(s.tree, q) = Held(Root_Node, q) /\ Due(s.tree, q) = Due(Root_Node, q)
      BY <1>5 DEF SamePoints
    <3>6. \A q \in Points : Due(Root_Node, q) \in Nat
      BY SoundIs
    <3>7. cleared.removed \in Seq(Points)
      BY <3>3 DEF Cuts, Deletions
    <3>8. \A q \in Points : Held(cleared.tree, q) = IF InBox(q, v) THEN 0 ELSE Held(Root_Node, q)
      BY <3>3, <3>5 DEF Cuts
    <3>9. \A q \in Points : Due(cleared.tree, q) + Times(cleared.removed, q) <= Due(Root_Node, q)
      <4> SUFFICES ASSUME NEW q \in Points
                   PROVE  Due(cleared.tree, q) + Times(cleared.removed, q) <= Due(Root_Node, q)
        OBVIOUS
      <4>1. Due(cleared.tree, q) + Times(cleared.removed, q)
              <= Due(s.tree, q) + Erased(s.tree, v, TRUE, q)
        BY <3>3 DEF Cuts
      <4>2. Due(s.tree, q) = Due(Root_Node, q) /\ Due(Root_Node, q) \in Nat
        BY <3>5, <3>6
      <4>3. Erased(s.tree, v, TRUE, q) = 0
        BY <3>4
      <4> DEFINE u == Due(s.tree, q)
                 e == Erased(s.tree, v, TRUE, q)
                 w == Due(Root_Node, q)
      <4> HIDE DEF u, e, w
      <4>4. u + e = w
        <5>1. u = w /\ w \in Nat /\ e = 0
          BY <4>2, <4>3 DEF u, w, e
        <5> QED
          BY ONLY <5>1
      <4>5. Due(cleared.tree, q) + Times(cleared.removed, q) <= u + e
        BY <4>1 DEF u, e
      <4> QED
        BY ONLY <4>4, <4>5, Zenon DEF w
    <3> QED
      BY <3>3, <3>7, <3>8, <3>9 DEF Cuts
  <2> QED
    BY <2>1, <2>2
<1> HIDE DEF cleared
<1>7. ASSUME Len(s.found) > 1 \/ best = p
      PROVE  Sound(Root_Node') /\ Replaced(v, best)
  <2> DEFINE seq == cleared.removed \o d.removed
  <2>1. cleared.tree # None /\ Root_Node' = d.tree /\ Drop(seq)
    BY <1>1, <1>7
  <2>2. cleared.tree.axis \in Axes /\ cleared.tree \in Trees
    BY <1>6, <2>1, TreesHaveAxes DEF Sound
  <2>3. Adds(cleared.tree, d, best)
    BY <1>2, <1>4, <1>6, <2>2, AddByPointSound
  <2> HIDE DEF d
  <2>4. d.removed \in Seq(Points) /\ Sound(d.tree)
    BY <2>3 DEF Adds, Results
  <2>5. ASSUME NEW q \in Points
        PROVE  /\ Held(d.tree, q) = (IF InBox(q, v) THEN 0 ELSE Held(Root_Node, q)) + One(q = best)
               /\ Due(d.tree, q) + Times(seq, q) <= Due(Root_Node, q)
    <3>1. Times(seq, q) = Times(cleared.removed, q) + Times(d.removed, q)
      BY <1>6, <2>4, TimesConcat
    <3>2. /\ Held(d.tree, q) = Held(cleared.tree, q) + One(q = best)
          /\ Due(d.tree, q) + Times(d.removed, q) = Due(cleared.tree, q)
      BY <2>3 DEF Adds
    <3>3. /\ Times(cleared.removed, q) \in Nat /\ Times(d.removed, q) \in Nat
          /\ Due(d.tree, q) \in Nat /\ Due(cleared.tree, q) \in Nat /\ Due(Root_Node, q) \in Nat
      BY <1>6, <2>4, SoundIs, TimesType
    <3>4. Due(cleared.tree, q) + Times(cleared.removed, q) <= Due(Root_Node, q)
      BY <1>6
    <3>5. Held(cleared.tree, q) = IF InBox(q, v) THEN 0 ELSE Held(Root_Node, q)
      BY <1>6
    <3> HIDE DEF seq
    <3> QED
      BY ONLY <3>1, <3>2, <3>3, <3>4, <3>5
  <2>6. seq \in Seq(Points)
    BY <1>6, <2>4, TimesConcat
  <2> HIDE DEF seq
  <2> QED
    BY <2>1, <2>4, <2>5, <2>6 DEF Replaced
<1>8. ASSUME ~(Len(s.found) > 1 \/ best = p)
      PROVE  /\ Sound(Root_Node') /\ SamePoints(Root_Node, Root_Node')
             /\ UNCHANGED Points_deleted
  BY <1>1, <1>5, <1>8
<1> QED
  BY <1>1, <1>4, <1>5, <1>7, <1>8 DEF s, v, best

(***************************************************************************)
(* What each call makes of the points the map holds.                       *)
(***************************************************************************)
LEMMA SameIsOwed ==
  ASSUME AnyHeight, Owed, SamePoints(Root_Node, Root_Node'), UNCHANGED <<Points_deleted, erased>>
  PROVE  Owed'
BY DEF Owed, SamePoints

LEMMA SearchesKeep ==
  ASSUME AnyHeight, Sound(Root_Node), NEW p \in Points,
         \/ Nearest_Search(p)
         \/ \E r \in Radii : Radius_Search(p, r)
  PROVE  /\ Sound(Root_Node') /\ SamePoints(Root_Node, Root_Node')
         /\ UNCHANGED <<Points_deleted, erased, last>>
<1>0. Root_Node \in Trees
  BY DEF Sound
<1>1. CASE Nearest_Search(p)
  <2>1. K \in Nat \ {0} /\ <<>> \in Seq(Points)
    BY MapAssumption
  <2>2. Kept(Root_Node, Search(Root_Node, K, p, <<>>).tree)
    BY <1>0, <2>1, SearchKept
  <2> QED
    BY <1>1, <2>2 DEF Nearest_Search, Kept
<1>2. ASSUME NEW r \in Radii, Radius_Search(p, r)
      PROVE  /\ Sound(Root_Node') /\ SamePoints(Root_Node, Root_Node')
             /\ UNCHANGED <<Points_deleted, erased, last>>
  <2>1. Kept(Root_Node, Search_by_radius(Root_Node, p, r).tree)
    BY <1>0, SearchByRadiusKept
  <2> QED
    BY <1>2, <2>1 DEF Radius_Search, Kept
<1> QED
  BY <1>1, <1>2

(* The set of points of a scan, in whatever order it is built.             *)
LEMMA EachOnce ==
  ASSUME NEW S, S \subseteq Points, IsFiniteSet(S)
  PROVE  SetToSeq(S) \in Seq(Points) /\ \A p : Times(SetToSeq(S), p) = One(p \in S)
<1> DEFINE n == Cardinality(S)
           f == SetToSeq(S)
<1>1. n \in Nat /\ ExistsBijection(1..n, S)
  BY FS_CardinalityType
<1>2. \E g \in [1..n -> S] : IsInjective(g)
  BY <1>1 DEF ExistsBijection, Bijection, Injection
<1>3. f \in [1..n -> S] /\ IsInjective(f)
  BY <1>2 DEF SetToSeq
<1>4. f \in Seq(Points)
  BY SetToSeqType
<1>5. IsFiniteSet(1..n) /\ Cardinality(1..n) = n
  BY <1>1, FS_Interval
<1> HIDE DEF f
<1>6. \A x \in S : \E i \in 1..n : f[i] = x
  <2>1. f \in Injection(1..n, S)
    BY <1>3 DEF Injection
  <2>2. f \in Surjection(1..n, S)
    BY <1>5, <2>1, FS_Injection, FS_Surjection
  <2> QED
    BY <2>2 DEF Surjection
<1>7. ASSUME NEW p
      PROVE  Times(f, p) = One(p \in S)
  <2>1. CASE p \in S
    <3>1. PICK i \in 1..n : f[i] = p
      BY <1>6, <2>1
    <3>2. At(f, p) = {i}
      BY <1>3, <3>1 DEF At, IsInjective
    <3> QED
      BY <2>1, <3>2, FS_Singleton DEF Times, One
  <2>2. CASE p \notin S
    <3>1. At(f, p) = {}
      BY <1>3, <2>2 DEF At
    <3> QED
      BY <2>2, <3>1, FS_EmptySet DEF Times, One
  <2> QED
    BY <2>1, <2>2
<1> QED
  BY <1>4, <1>7 DEF f

LEMMA BuildHolds ==
  ASSUME AnyHeight, NEW S \in BuildSets, NEW rank \in Ranks, Build(S, rank)
  PROVE  /\ Sound(Root_Node') /\ UNCHANGED <<Points_deleted, erased>>
         /\ Root_Node = None /\ S \subseteq Points
         /\ \A p \in Points : Held(Root_Node', p) = One(p \in S) /\ Due(Root_Node', p) = 0
<1>1. S \subseteq Points /\ IsFiniteSet(S)
  BY MapAssumption
<1>2. SetToSeq(S) \in Seq(Points) /\ \A p : Times(SetToSeq(S), p) = One(p \in S)
  BY <1>1, EachOnce
<1>3. Root_Node' = BuildTree(SetToSeq(S), rank)
  BY DEF Build
<1> QED
  BY <1>1, <1>2, <1>3, RanksAre, BuildSound DEF Build

LEMMA InsertHolds ==
  ASSUME AnyHeight, Sound(Root_Node), NEW p \in Points, NEW rank \in Ranks, AddPoint(p, rank)
  PROVE  LET d == Add_by_point(Root_Node, p, rank, Root_Node.axis)
         IN Adds(Root_Node, d, p) /\ Root_Node' = d.tree /\ Drop(d.removed) /\ UNCHANGED erased
<1>1. Root_Node \in Trees /\ Root_Node.axis \in Axes
  BY TreesHaveAxes DEF AddPoint, Sound
<1>2. \A a \in Axes : Adds(Root_Node, Add_by_point(Root_Node, p, rank, a), p)
  BY <1>1, RanksAre, AddByPointSound
<1> QED
  BY <1>1, <1>2 DEF AddPoint

LEMMA DeleteBoxCuts ==
  ASSUME AnyHeight, Sound(Root_Node), NEW b \in Boxes, NEW rank \in Ranks, DeleteBox(b, rank)
  PROVE  LET d == Delete_by_range(Root_Node, b, rank, FALSE)
         IN /\ Cuts(Root_Node, d, b, FALSE) /\ Root_Node' = d.tree /\ Drop(d.removed)
            /\ erased' = erased (+) Only(content, {p \in Points : InBox(p, b)})
<1>1. Root_Node \in Trees /\ IsBox(b)
  BY BoxesAre DEF Sound
<1>2. Cuts(Root_Node, Delete_by_range(Root_Node, b, rank, FALSE), b, FALSE)
  BY <1>1, RanksAre, DeleteByRangeCuts
<1> QED
  BY <1>2 DEF DeleteBox

LEMMA DeletePointOfTakes ==
  ASSUME AnyHeight, Sound(Root_Node), NEW p \in Points, NEW rank \in Ranks, DeletePointOf(p, rank)
  PROVE  LET d == Delete_by_point(Root_Node, p, rank)
         IN /\ Takes(Root_Node, d, p) /\ Root_Node' = d.tree /\ Drop(d.removed)
            /\ erased' = erased (+) (content (-) BagOf(flatten[d.tree]))
<1>1. Root_Node \in Trees
  BY DEF Sound
<1>2. Takes(Root_Node, Delete_by_point(Root_Node, p, rank), p)
  BY <1>1, RanksAre, DeleteByPointSound
<1> QED
  BY <1>2, Zenon DEF DeletePointOf

LEMMA InsertOwes ==
  ASSUME AnyHeight, PointsKept, NEW p \in Points, NEW rank \in Ranks, AddPoint(p, rank)
  PROVE  Sound(Root_Node') /\ Owed'
<1> DEFINE d == Add_by_point(Root_Node, p, rank, Root_Node.axis)
<1>1. Adds(Root_Node, d, p) /\ Root_Node' = d.tree /\ Drop(d.removed) /\ UNCHANGED erased
  BY InsertHolds DEF PointsKept
<1> HIDE DEF d
<1>2. d.removed \in Seq(Points) /\ Sound(Root_Node')
  BY <1>1 DEF Adds, Results
<1>3. PointBag(erased') /\ Owed /\ Sound(Root_Node)
  BY <1>1 DEF PointsKept, Owed
<1>4. ASSUME NEW q \in Points
      PROVE  Due(Root_Node', q) + Times(d.removed, q) + Copies(q, erased)
               <= Due(Root_Node, q) + Copies(q, erased')
  <2>1. Due(Root_Node', q) + Times(d.removed, q) = Due(Root_Node, q)
    BY <1>1 DEF Adds
  <2>2. Copies(q, erased') = Copies(q, erased) /\ Copies(q, erased) \in Nat
    BY <1>1, <1>3, CopiesType
  <2>3. Due(Root_Node, q) \in Nat
    BY <1>3, SoundIs
  <2> QED
    BY ONLY <2>1, <2>2, <2>3
<1> QED
  BY <1>1, <1>2, <1>3, <1>4, SettledIsOwed

LEMMA DownsampleOwes ==
  ASSUME AnyHeight, PointsKept, NEW p \in Points, NEW rank \in Ranks, AddDownsampled(p, rank)
  PROVE  Sound(Root_Node') /\ Owed'
<1> DEFINE v == Voxel(p)
           s == Search_by_range(Root_Node, v)
           best == Closest(p, s.found, v)
<1>1. /\ Sound(Root_Node') /\ UNCHANGED erased
      /\ IF Len(s.found) > 1 \/ best = p THEN Replaced(v, best)
         ELSE SamePoints(Root_Node, Root_Node') /\ UNCHANGED Points_deleted
  BY DownsampledIs DEF PointsKept
<1> HIDE DEF v, s, best
<1>2. CASE Replaced(v, best)
  <2>1. PICK seq \in Seq(Points) :
          /\ Drop(seq)
          /\ \A q \in Points : Due(Root_Node', q) + Times(seq, q) <= Due(Root_Node, q)
    BY <1>2 DEF Replaced
  <2>2. PointBag(erased') /\ Owed /\ Sound(Root_Node)
    BY <1>1 DEF PointsKept, Owed
  <2>3. ASSUME NEW q \in Points
        PROVE  Due(Root_Node', q) + Times(seq, q) + Copies(q, erased)
                 <= Due(Root_Node, q) + Copies(q, erased')
    <3>1. Due(Root_Node', q) + Times(seq, q) <= Due(Root_Node, q)
      BY <2>1
    <3>2. Copies(q, erased') = Copies(q, erased) /\ Copies(q, erased) \in Nat
      BY <1>1, <2>2, CopiesType
    <3>3. Due(Root_Node, q) \in Nat /\ Due(Root_Node', q) \in Nat /\ Times(seq, q) \in Nat
      BY <1>1, <2>2, SoundIs, TimesType
    <3> QED
      BY ONLY <3>1, <3>2, <3>3
  <2> QED
    BY <1>1, <2>1, <2>2, <2>3, SettledIsOwed
<1>3. CASE SamePoints(Root_Node, Root_Node') /\ UNCHANGED Points_deleted
  BY <1>1, <1>3, SameIsOwed DEF PointsKept
<1> QED
  BY <1>1, <1>2, <1>3

LEMMA DeleteBoxOwes ==
  ASSUME AnyHeight, PointsKept, NEW b \in Boxes, NEW rank \in Ranks, DeleteBox(b, rank)
  PROVE  Sound(Root_Node') /\ Owed'
<1> DEFINE d == Delete_by_range(Root_Node, b, rank, FALSE)
           gone == Only(content, {p \in Points : InBox(p, b)})
<1>1. /\ Cuts(Root_Node, d, b, FALSE) /\ Root_Node' = d.tree /\ Drop(d.removed)
      /\ erased' = erased (+) gone
  BY DeleteBoxCuts DEF PointsKept
<1>2. PointBag(erased) /\ Owed /\ Sound(Root_Node)
  BY DEF PointsKept, Owed
<1>3. PointBag(content) /\ \A q \in Points : Copies(q, content) = Held(Root_Node, q)
  BY ContentIs DEF PointsKept
<1>4. /\ PointBag(gone)
      /\ \A q \in Points : Copies(q, gone) = IF InBox(q, b) THEN Held(Root_Node, q) ELSE 0
  BY <1>3, BagOnly
<1> HIDE DEF d, gone
<1>5. d.removed \in Seq(Points) /\ Sound(Root_Node')
  BY <1>1 DEF Cuts, Deletions
<1>6. /\ PointBag(erased')
      /\ \A q : Copies(q, erased') = Copies(q, erased) + Copies(q, gone)
  BY <1>1, <1>2, <1>4, BagPlus, Zenon
<1>7. ASSUME NEW q \in Points
      PROVE  Due(Root_Node', q) + Times(d.removed, q) + Copies(q, erased)
               <= Due(Root_Node, q) + Copies(q, erased')
  <2>1. Due(d.tree, q) + Times(d.removed, q) <= Due(Root_Node, q) + Erased(Root_Node, b, FALSE, q)
    BY <1>1 DEF Cuts
  <2>2. Erased(Root_Node, b, FALSE, q) = Copies(q, gone)
    BY <1>4 DEF Erased
  <2>3. Root_Node' = d.tree
    BY <1>1
  <2>4. Due(Root_Node', q) + Times(d.removed, q) <= Due(Root_Node, q) + Copies(q, gone)
    BY ONLY <2>1, <2>2, <2>3, Zenon
  <2>5. Copies(q, erased) \in Nat /\ Copies(q, gone) \in Nat
    BY <1>2, <1>4, CopiesType
  <2>6. Due(Root_Node, q) \in Nat /\ Due(Root_Node', q) \in Nat /\ Times(d.removed, q) \in Nat
    BY <1>2, <1>5, SoundIs, TimesType
  <2>7. Copies(q, erased') = Copies(q, erased) + Copies(q, gone)
    BY <1>6
  <2> QED
    BY ONLY <2>4, <2>5, <2>6, <2>7
<1> QED
  BY <1>1, <1>2, <1>5, <1>6, <1>7, SettledIsOwed

LEMMA DeletePointOwes ==
  ASSUME AnyHeight, PointsKept, NEW p \in Points, NEW rank \in Ranks, DeletePointOf(p, rank)
  PROVE  Sound(Root_Node') /\ Owed'
<1> DEFINE d == Delete_by_point(Root_Node, p, rank)
           gone == content (-) BagOf(flatten[d.tree])
<1>1. /\ Takes(Root_Node, d, p) /\ Root_Node' = d.tree /\ Drop(d.removed)
      /\ erased' = erased (+) gone
  BY DeletePointOfTakes DEF PointsKept
<1>2. PointBag(erased) /\ Owed /\ Sound(Root_Node)
  BY DEF PointsKept, Owed
<1>3. PointBag(content) /\ \A q \in Points : Copies(q, content) = Held(Root_Node, q)
  BY ContentIs DEF PointsKept
<1> HIDE DEF d
<1>4. d.removed \in Seq(Points) /\ Sound(Root_Node') /\ Sound(d.tree)
  BY <1>1 DEF Takes, Results
<1>5. PICK yes \in BOOLEAN : \A q \in Points :
        /\ Held(d.tree, q) + One(yes /\ q = p) = Held(Root_Node, q)
        /\ Due(d.tree, q) + Times(d.removed, q) = Due(Root_Node, q) + One(yes /\ q = p)
  BY <1>1 DEF Takes
<1>6. \A q : One(yes /\ q = p) \in Nat
  BY DEF One
<1> DEFINE B == BagOf(flatten[d.tree])
<1>7. PointBag(B) /\ \A q \in Points : Copies(q, B) = Held(d.tree, q)
  BY <1>4, ContentIs
<1> HIDE DEF B
<1>8. ASSUME NEW q
      PROVE  Copies(q, B) <= Copies(q, content)
  <2>1. Copies(q, B) \in Nat /\ Copies(q, content) \in Nat
    BY <1>3, <1>7, CopiesType
  <2>2. CASE q \in Points
    <3>1. Copies(q, B) + One(yes /\ q = p) = Copies(q, content)
      BY <1>3, <1>5, <1>7, <2>2
    <3> QED
      BY ONLY <1>6, <2>1, <3>1
  <2>3. CASE q \notin Points
    <3>1. Copies(q, B) = 0
      BY <1>7, <2>3 DEF PointBag, Copies
    <3> QED
      BY <2>1, <3>1
  <2> QED
    BY <2>2, <2>3
<1>9. /\ PointBag(gone)
      /\ \A q : Copies(q, gone) + Copies(q, B) = Copies(q, content)
  BY <1>3, <1>7, <1>8, BagMinus DEF B
<1> HIDE DEF gone
<1>10. /\ PointBag(erased')
       /\ \A q : Copies(q, erased') = Copies(q, erased) + Copies(q, gone)
  BY <1>1, <1>2, <1>9, BagPlus, Zenon
<1>11. ASSUME NEW q \in Points
       PROVE  Due(Root_Node', q) + Times(d.removed, q) + Copies(q, erased)
                <= Due(Root_Node, q) + Copies(q, erased')
  <2>1. /\ Copies(q, B) + One(yes /\ q = p) = Copies(q, content)
        /\ Due(Root_Node', q) + Times(d.removed, q) = Due(Root_Node, q) + One(yes /\ q = p)
    BY <1>1, <1>3, <1>5, <1>7
  <2>2. Copies(q, gone) + Copies(q, B) = Copies(q, content)
    BY <1>9
  <2>3. Copies(q, erased') = Copies(q, erased) + Copies(q, gone)
    BY <1>10
  <2>4. /\ Copies(q, erased) \in Nat /\ Copies(q, gone) \in Nat /\ Copies(q, B) \in Nat
        /\ One(yes /\ q = p) \in Nat
    BY <1>2, <1>6, <1>7, <1>9, CopiesType
  <2>5. Due(Root_Node, q) \in Nat /\ Due(Root_Node', q) \in Nat /\ Times(d.removed, q) \in Nat
    BY <1>2, <1>4, SoundIs, TimesType
  <2> QED
    BY ONLY <2>1, <2>2, <2>3, <2>4, <2>5
<1> QED
  BY <1>1, <1>2, <1>4, <1>10, <1>11, SettledIsOwed

LEMMA PointsKeptStep ==
  ASSUME AnyHeight, PointsKept, [Next]_vars
  PROVE  PointsKept'
<1>0. Sound(Root_Node) /\ Owed
  BY DEF PointsKept
<1>1. CASE Next
  <2>1. content' = BagOf(flatten[Root_Node'])
    BY <1>1 DEF Next
  <2>2. CASE acquire_removed_points
    <3>1. UNCHANGED <<Root_Node, erased>> /\ Points_deleted' = EmptyBag
      BY <2>2 DEF acquire_removed_points
    <3>2. ASSUME NEW p \in Points
          PROVE  Copies(p, EmptyBag) + Due(Root_Node, p) <= Copies(p, erased)
      <4>1. Copies(p, Points_deleted) + Due(Root_Node, p) <= Copies(p, erased)
        BY <1>0 DEF Owed
      <4>2. /\ Copies(p, EmptyBag) = 0 /\ Due(Root_Node, p) \in Nat
            /\ Copies(p, Points_deleted) \in Nat /\ Copies(p, erased) \in Nat
        BY <1>0, EmptyBagIs, SoundIs, CopiesType DEF Owed
      <4> QED
        BY ONLY <4>1, <4>2
    <3> QED
      BY <1>0, <2>1, <3>1, <3>2, EmptyBagIs DEF Owed, PointsKept
  <2>3. ASSUME NEW p \in Points, Nearest_Search(p) \/ \E r \in Radii : Radius_Search(p, r)
        PROVE  PointsKept'
    <3>1. /\ Sound(Root_Node') /\ SamePoints(Root_Node, Root_Node')
          /\ UNCHANGED <<Points_deleted, erased>>
      BY <1>0, <2>3, SearchesKeep
    <3> QED
      BY <1>0, <2>1, <3>1, SameIsOwed DEF PointsKept
  <2>4. ASSUME NEW rank \in Ranks, NEW S \in BuildSets, Build(S, rank)
        PROVE  PointsKept'
    <3>1. /\ Sound(Root_Node') /\ UNCHANGED <<Points_deleted, erased>> /\ Root_Node = None
          /\ \A p \in Points : Due(Root_Node', p) = 0
      BY <2>4, BuildHolds
    <3>2. \A p \in Points : Due(Root_Node, p) = 0
      BY <3>1, HeldIs
    <3>3. Owed'
      BY <1>0, <3>1, <3>2 DEF Owed
    <3> QED
      BY <2>1, <3>1, <3>3 DEF PointsKept
  <2>5. ASSUME NEW rank \in Ranks, NEW p \in Points,
               AddPoint(p, rank) \/ AddDownsampled(p, rank) \/ DeletePointOf(p, rank)
        PROVE  PointsKept'
    <3>1. Sound(Root_Node') /\ Owed'
      BY <2>5, InsertOwes, DownsampleOwes, DeletePointOwes
    <3> QED
      BY <2>1, <3>1 DEF PointsKept
  <2>6. ASSUME NEW rank \in Ranks, NEW b \in Boxes, DeleteBox(b, rank)
        PROVE  PointsKept'
    <3>1. Sound(Root_Node') /\ Owed'
      BY <2>6, DeleteBoxOwes
    <3> QED
      BY <2>1, <3>1 DEF PointsKept
  <2> QED
    BY <1>1, <2>2, <2>3, <2>4, <2>5, <2>6 DEF Next, Call
<1>2. CASE UNCHANGED vars
  BY <1>2 DEF vars, PointsKept, Owed
<1> QED
  BY <1>1, <1>2

(* A point that is reported as removed was deleted on request, and no more *)
(* often than it was: neither a rebuild nor the downsampling, which drop   *)
(* points as well, nor a second report adds to what is reported, for any   *)
(* first scans, boxes, voxels and criteria, however ties are broken.       *)
THEOREM RemovalsReportedOnce ==
  ASSUME AnyHeight
  PROVE  Spec => []ReportedOnce
<1>1. Init => PointsKept
  BY OwedInit
<1>2. PointsKept /\ [Next]_vars => PointsKept'
  BY PointsKeptStep
<1>3. PointsKept => ReportedOnce
  BY OwedIsReported
<1> QED
  BY <1>1, <1>2, <1>3, PTL DEF Spec

-----------------------------------------------------------------------------
(***************************************************************************)
(* The map as a bag of points: what the store promises, call by call.      *)
(***************************************************************************)
LEMMA StoreBoxes ==
  ASSUME NEW p \in Points
  PROVE  (\A b : Store!In(p, b) <=> InBox(p, b)) /\ Store!VoxelOf(p) = Voxel(p)
<1>1. \A b : Store!In(p, b) <=> InBox(p, b)
  BY DEF Store!In, InBox, Axes
<1>2. Store!VoxelOf(p) = CHOOSE v \in Voxels : Store!In(p, v)
  BY Zenon DEF Store!VoxelOf
<1>3. Voxel(p) = CHOOSE v \in Voxels : InBox(p, v)
  BY Zenon DEF Voxel
<1>4. (CHOOSE v \in Voxels : Store!In(p, v)) = (CHOOSE v \in Voxels : InBox(p, v))
  BY ONLY <1>1
<1> QED
  BY <1>1, <1>2, <1>3, <1>4

LEMMA StoreBags ==
  /\ Store!EmptyBag = EmptyBag
  /\ \A S : Store!BagToSet(S) = DOMAIN S /\ Store!SetToBag(S) = SetToBag(S)
  /\ \A A, B : Store!(+)(A, B) = A (+) B /\ Store!(-)(A, B) = A (-) B
<1>1. \A S : Store!BagToSet(S) = DOMAIN S
  BY Zenon DEF Store!BagToSet
<1>2. Store!EmptyBag = EmptyBag /\ \A S : Store!SetToBag(S) = SetToBag(S)
  BY Zenon DEF Store!EmptyBag, Store!SetToBag, EmptyBag, SetToBag
<1>3. \A A, B : Store!(+)(A, B) = A (+) B
  BY Zenon DEF Store!(+), (+)
<1>4. \A A, B : Store!(-)(A, B) = A (-) B
  BY Zenon DEF Store!(-), (-)
<1> QED
  BY ONLY <1>1, <1>2, <1>3, <1>4, Zenon

LEMMA SquareIsNat == \A x \in Int : Square(x) \in Int /\ Square(x) >= 0
BY DEF Square

LEMMA StoreOff ==
  ASSUME NEW p \in Points, NEW v, IsBox(v)
  PROVE  OffMiddle(p, v) \in Nat /\ Store!OffCentre(p, v) = OffMiddle(p, v)
<1> DEFINE x(a) == 2 * p[a] - v.lo[a] - v.hi[a]
<1>1. \A a \in Axes : p[a] \in Int /\ v.lo[a] \in Int /\ v.hi[a] \in Int
  BY TreeAssumption DEF IsBox
<1>2. 1 \in Axes /\ 2 \in Axes /\ 3 \in Axes
  BY DEF Axes
<1>3. \A a \in Axes : x(a) \in Int /\ 2 * p[a] - (v.lo[a] + v.hi[a]) = x(a)
  BY ONLY <1>1
<1>4. OffMiddle(p, v) = Square(2 * p[1] - (v.lo[1] + v.hi[1]))
                        + Square(2 * p[2] - (v.lo[2] + v.hi[2]))
                        + Square(2 * p[3] - (v.lo[3] + v.hi[3]))
  BY <1>2 DEF OffMiddle, SquareDist
<1>5. Store!OffCentre(p, v) = x(1) * x(1) + x(2) * x(2) + x(3) * x(3)
  BY Zenon DEF Store!OffCentre
<1> HIDE DEF x
<1>6. OffMiddle(p, v) = Square(x(1)) + Square(x(2)) + Square(x(3))
  BY ONLY <1>2, <1>3, <1>4
<1>7. Square(x(1)) \in Nat /\ Square(x(2)) \in Nat /\ Square(x(3)) \in Nat
  BY <1>2, <1>3, SquareIsNat
<1>8. Store!OffCentre(p, v) = Square(x(1)) + Square(x(2)) + Square(x(3))
  BY ONLY <1>5, Zenon DEF Square
<1> QED
  BY ONLY <1>6, <1>7, <1>8

(* The point that stays is of the closest ones, the new one if it is.      *)
LEMMA ClosestIs ==
  ASSUME NEW p \in Points, NEW stored \in Seq(Points), NEW v, IsBox(v)
  PROVE  LET best == Closest(p, stored, v)
             here == {p} \cup {stored[i] : i \in DOMAIN stored}
         IN /\ best \in here /\ \A q \in here : OffMiddle(best, v) <= OffMiddle(q, v)
            /\ (\A q \in here : OffMiddle(p, v) <= OffMiddle(q, v)) => best = p
<1> DEFINE best == Closest(p, stored, v)
           here == {p} \cup {stored[i] : i \in DOMAIN stored}
           Off(i) == OffMiddle(stored[i], v)
           closer == {i \in DOMAIN stored : /\ Off(i) < OffMiddle(p, v)
                                            /\ \A j \in DOMAIN stored : Off(i) <= Off(j)}
           T == {Off(i) : i \in DOMAIN stored}
<1>1. best = IF closer = {} THEN p ELSE stored[Min(closer)]
  BY DEF Closest
<1>2. \A i \in DOMAIN stored : stored[i] \in Points
  OBVIOUS
<1>3. OffMiddle(p, v) \in Nat /\ \A i \in DOMAIN stored : Off(i) \in Nat
  BY <1>2, StoreOff
<1>4. closer # {} => Min(closer) \in closer
  <2>1. DOMAIN stored = 1..Len(stored) /\ Len(stored) \in Nat
    OBVIOUS
  <2>2. IsFiniteSet(1..Len(stored))
    BY <2>1, FS_Interval
  <2>3. closer \subseteq 1..Len(stored)
    BY <2>1
  <2>4. closer \in SUBSET Int /\ IsFiniteSet(closer)
    BY <2>2, <2>3, FS_Subset
  <2> HIDE DEF closer
  <2> QED
    BY <2>4, MinMax
<1>5. CASE closer # {}
  <2> DEFINE i == Min(closer)
  <2>1. i \in closer
    BY <1>4, <1>5
  <2>2. best = stored[i]
    BY <1>1, <1>5
  <2> HIDE DEF i
  <2>3. i \in DOMAIN stored /\ Off(i) < OffMiddle(p, v) /\ \A j \in DOMAIN stored : Off(i) <= Off(j)
    BY <2>1
  <2>4. Off(i) \in Nat /\ OffMiddle(best, v) = Off(i)
    BY <1>3, <2>2, <2>3
  <2>5. best \in here /\ OffMiddle(best, v) < OffMiddle(p, v)
    BY <2>2, <2>3
  <2>6. \A q \in here : OffMiddle(best, v) <= OffMiddle(q, v)
    <3> SUFFICES ASSUME NEW q \in here
                 PROVE  OffMiddle(best, v) <= OffMiddle(q, v)
      OBVIOUS
    <3>1. CASE q = p
      BY <1>3, <2>4, <2>5, <3>1
    <3>2. CASE q # p
      <4>1. PICK j \in DOMAIN stored : q = stored[j]
        BY <3>2
      <4> QED
        BY <2>3, <2>4, <4>1
    <3> QED
      BY <3>1, <3>2
  <2>7. ~(OffMiddle(p, v) <= OffMiddle(best, v))
    BY <1>3, <2>4, <2>5
  <2> QED
    BY <2>5, <2>6, <2>7
<1>6. CASE closer = {}
  <2>1. best = p
    BY <1>1, <1>6
  <2>2. ASSUME NEW j \in DOMAIN stored
        PROVE  OffMiddle(p, v) <= Off(j)
    <3>1. T \in SUBSET Nat /\ T # {}
      BY <1>3
    <3>2. PICK m \in T : \A x \in T : m <= x
      <4> HIDE DEF T
      <4> QED
        BY <3>1, Least
    <3>3. PICK i \in DOMAIN stored : m = Off(i)
      OBVIOUS
    <3>4. \A k \in DOMAIN stored : Off(i) <= Off(k)
      BY <3>2, <3>3
    <3>5. ~(Off(i) < OffMiddle(p, v))
      BY <1>6, <3>3, <3>4
    <3>6. Off(i) <= Off(j) /\ Off(i) \in Nat /\ Off(j) \in Nat
      BY <1>3, <3>4
    <3> HIDE DEF Off
    <3> QED
      BY ONLY <1>3, <3>5, <3>6
  <2>3. \A q \in here : OffMiddle(p, v) <= OffMiddle(q, v)
    BY <1>3, <2>2
  <2> QED
    BY <2>1, <2>3
<1> QED
  BY <1>5, <1>6

LEMMA SameContent ==
  ASSUME AnyHeight, NEW a, NEW b, Sound(a), Sound(b), \A q \in Points : Held(a, q) = Held(b, q)
  PROVE  BagOf(flatten[a]) = BagOf(flatten[b])
<1> DEFINE A == BagOf(flatten[a])
           B == BagOf(flatten[b])
<1>1. PointBag(A) /\ PointBag(B) /\ \A q \in Points : Copies(q, A) = Copies(q, B)
  BY ContentIs
<1> HIDE DEF A, B
<1>2. A = B
  BY <1>1, SameBag
<1> QED
  BY <1>2 DEF A, B

LEMMA OutsideIs ==
  ASSUME NEW B, PointBag(B), NEW b
  PROVE  /\ PointBag(Store!Outside(B, b))
         /\ \A q \in Points : Copies(q, Store!Outside(B, b)) = IF InBox(q, b) THEN 0 ELSE Copies(q, B)
<1> DEFINE C == Store!Outside(B, b)
<1>1. C = [p \in {q \in DOMAIN B : ~Store!In(q, b)} |-> B[p]]
  BY StoreBags, Zenon DEF Store!Outside
<1>2. \A q \in Points : Store!In(q, b) <=> InBox(q, b)
  BY StoreBoxes
<1> HIDE DEF C
<1>3. DOMAIN C = {q \in DOMAIN B : ~Store!In(q, b)} /\ \A q \in DOMAIN C : C[q] = B[q]
  BY <1>1
<1>4. \A q \in DOMAIN C : q \in DOMAIN B /\ C[q] \in {n \in Nat : n > 0} /\ q \in Points
  BY <1>3 DEF PointBag, IsABag
<1>5. C \in [DOMAIN C -> {n \in Nat : n > 0}]
  BY <1>1, <1>3, <1>4
<1>6. PointBag(C)
  BY <1>4, <1>5 DEF PointBag, IsABag
<1>7. \A q \in Points : Copies(q, C) = IF InBox(q, b) THEN 0 ELSE Copies(q, B)
  BY <1>2, <1>3 DEF Copies
<1> QED
  BY <1>6, <1>7 DEF C

LEMMA BuildIsStored ==
  ASSUME AnyHeight, PointsKept, NEW S \in BuildSets, NEW rank \in Ranks, Build(S, rank),
         content' = BagOf(flatten[Root_Node'])
  PROVE  S \in SUBSET Points /\ last' = <<"build", S>> /\ Store!Build(content, content', S)
<1>1. /\ Sound(Root_Node') /\ Root_Node = None /\ S \subseteq Points
      /\ \A p \in Points : Held(Root_Node', p) = One(p \in S)
  BY BuildHolds
<1>2. PointBag(content) /\ \A q \in Points : Copies(q, content) = 0
  BY <1>1, ContentIs, HeldIs DEF PointsKept
<1>3. content = EmptyBag
  BY <1>2, EmptyBagIs, SameBag
<1>4. PointBag(content') /\ \A q \in Points : Copies(q, content') = One(q \in S)
  BY <1>1, ContentIs
<1>5. PointBag(SetToBag(S)) /\ \A q \in Points : Copies(q, SetToBag(S)) = One(q \in S)
  BY <1>1, SetBagIs
<1>6. content' = SetToBag(S)
  BY <1>4, <1>5, SameBag
<1> QED
  BY <1>1, <1>3, <1>6, StoreBags DEF Build, Called, Store!Build

LEMMA OneOf == \A p, q : One(q \in {p}) = One(q = p)
BY DEF One

LEMMA InsertIsStored ==
  ASSUME AnyHeight, PointsKept, NEW p \in Points, NEW rank \in Ranks, AddPoint(p, rank),
         content' = BagOf(flatten[Root_Node'])
  PROVE  last' = <<"insert", p>> /\ Store!Insert(content, content', p)
<1>1. /\ Sound(Root_Node')
      /\ \A q \in Points : Held(Root_Node', q) = Held(Root_Node, q) + One(q = p)
  BY InsertHolds DEF Adds, PointsKept
<1>2. PointBag(content) /\ \A q \in Points : Copies(q, content) = Held(Root_Node, q)
  BY ContentIs DEF PointsKept
<1>3. PointBag(content') /\ \A q \in Points : Copies(q, content') = Held(Root_Node', q)
  BY <1>1, ContentIs
<1>4. PointBag(SetToBag({p})) /\ \A q : Copies(q, SetToBag({p})) = One(q = p)
  BY SetBagIs, OneOf
<1>5. /\ PointBag(content (+) SetToBag({p}))
      /\ \A q : Copies(q, content (+) SetToBag({p})) = Copies(q, content) + Copies(q, SetToBag({p}))
  BY <1>2, <1>4, BagPlus
<1>6. content' = content (+) SetToBag({p})
  <2>1. \A q \in Points : Copies(q, content') = Copies(q, content (+) SetToBag({p}))
    BY <1>1, <1>2, <1>3, <1>4, <1>5
  <2> QED
    BY <1>3, <1>5, <2>1, SameBag
<1>7. last' = <<"insert", p>>
  BY Zenon DEF AddPoint, Called
<1> QED
  BY <1>6, <1>7, StoreBags, Zenon DEF Store!Insert

LEMMA DeleteIsStored ==
  ASSUME AnyHeight, PointsKept, NEW b \in Boxes, NEW rank \in Ranks, DeleteBox(b, rank),
         content' = BagOf(flatten[Root_Node'])
  PROVE  last' = <<"delete", b>> /\ Store!Delete(content, content', b)
<1>1. /\ Sound(Root_Node')
      /\ \A q \in Points : Held(Root_Node', q) = IF InBox(q, b) THEN 0 ELSE Held(Root_Node, q)
  BY DeleteBoxCuts DEF Cuts, PointsKept
<1>2. PointBag(content) /\ \A q \in Points : Copies(q, content) = Held(Root_Node, q)
  BY ContentIs DEF PointsKept
<1>3. PointBag(content') /\ \A q \in Points : Copies(q, content') = Held(Root_Node', q)
  BY <1>1, ContentIs
<1>4. /\ PointBag(Store!Outside(content, b))
      /\ \A q \in Points : Copies(q, Store!Outside(content, b))
                             = IF InBox(q, b) THEN 0 ELSE Copies(q, content)
  BY <1>2, OutsideIs
<1>5. \A q \in Points : Copies(q, content') = Copies(q, Store!Outside(content, b))
  BY <1>1, <1>2, <1>3, <1>4
<1>6. content' = Store!Outside(content, b)
  BY <1>3, <1>4, <1>5, SameBag
<1>7. last' = <<"delete", b>>
  BY Zenon DEF DeleteBox, Called
<1> QED
  BY <1>6, <1>7, Zenon DEF Store!Delete

LEMMA DeletePointIsStored ==
  ASSUME AnyHeight, PointsKept, NEW p \in Points, NEW rank \in Ranks, DeletePointOf(p, rank),
         content' = BagOf(flatten[Root_Node'])
  PROVE  last' = <<"delete point", p>> /\ Store!DeletePoint(content, content', p)
<1> DEFINE d == Delete_by_point(Root_Node, p, rank)
<1>1. Takes(Root_Node, d, p) /\ Root_Node' = d.tree
  BY DeletePointOfTakes DEF PointsKept
<1> HIDE DEF d
<1>2. Sound(Root_Node')
  BY <1>1 DEF Takes
<1>3. PICK yes \in BOOLEAN : \A q \in Points :
        Held(Root_Node', q) + One(yes /\ q = p) = Held(Root_Node, q)
  BY <1>1 DEF Takes
<1>4. PointBag(content) /\ \A q \in Points : Copies(q, content) = Held(Root_Node, q)
  BY ContentIs DEF PointsKept
<1>5. PointBag(content') /\ \A q \in Points : Copies(q, content') = Held(Root_Node', q)
  BY <1>2, ContentIs
<1>6. \A q : Copies(q, content) \in Nat /\ Copies(q, content') \in Nat
  BY <1>4, <1>5, CopiesType
<1>7. ASSUME ~yes
      PROVE  content' = content
  <2>1. \A q : One(yes /\ q = p) = 0
    BY <1>7 DEF One
  <2>2. ASSUME NEW q \in Points
        PROVE  Copies(q, content') = Copies(q, content)
    <3>1. Copies(q, content') + One(yes /\ q = p) = Copies(q, content)
      BY <1>3, <1>4, <1>5
    <3>2. One(yes /\ q = p) = 0 /\ Copies(q, content') \in Nat
      BY <1>6, <2>1
    <3> DEFINE c == Copies(q, content')
               o == One(yes /\ q = p)
               e == Copies(q, content)
    <3> HIDE DEF c, o, e
    <3>3. c + o = e /\ o = 0 /\ c \in Nat
      BY <3>1, <3>2 DEF c, o, e
    <3>4. c = e
      BY ONLY <3>3
    <3> QED
      BY <3>4 DEF c, e
  <2> QED
    BY <1>4, <1>5, <2>2, SameBag
<1>8. ASSUME yes
      PROVE  content' = content (-) SetToBag({p})
  <2> DEFINE I == SetToBag({p})
  <2>1. PointBag(I) /\ \A q : Copies(q, I) = One(q = p)
    BY SetBagIs, OneOf
  <2>2. \A q : One(q = p) \in Nat /\ One(yes /\ q = p) = One(q = p)
    BY <1>8 DEF One
  <2> HIDE DEF I
  <2>3. ASSUME NEW q \in Points
        PROVE  Copies(q, content') + Copies(q, I) = Copies(q, content)
    BY <1>3, <1>4, <1>5, <2>1, <2>2
  <2>4. ASSUME NEW q
        PROVE  Copies(q, I) <= Copies(q, content)
    <3>1. CASE q \in Points
      <4>1. Copies(q, content') + Copies(q, I) = Copies(q, content)
        BY <2>3, <3>1
      <4>2. Copies(q, I) \in Nat
        BY <2>1, CopiesType
      <4> QED
        BY ONLY <1>6, <4>1, <4>2
    <3>2. CASE q \notin Points
      <4>1. Copies(q, I) = 0
        BY <2>1, <3>2 DEF PointBag, Copies
      <4> QED
        BY <1>6, <4>1
    <3> QED
      BY <3>1, <3>2
  <2>5. /\ PointBag(content (-) I)
        /\ \A q : Copies(q, content (-) I) + Copies(q, I) = Copies(q, content)
    BY <1>4, <2>1, <2>4, BagMinus
  <2>6. ASSUME NEW q \in Points
        PROVE  Copies(q, content') = Copies(q, content (-) I)
    <3>1. /\ Copies(q, content') + Copies(q, I) = Copies(q, content)
          /\ Copies(q, content (-) I) + Copies(q, I) = Copies(q, content)
      BY <2>3, <2>5
    <3>2. Copies(q, I) \in Nat /\ Copies(q, content (-) I) \in Nat /\ Copies(q, content') \in Nat
      BY <1>6, <2>1, <2>5, CopiesType
    <3> DEFINE c == Copies(q, content')
               i == Copies(q, I)
               w == Copies(q, content (-) I)
               e == Copies(q, content)
    <3> HIDE DEF c, i, w, e
    <3>3. c + i = e /\ w + i = e /\ c \in Nat /\ i \in Nat /\ w \in Nat
      BY <3>1, <3>2 DEF c, i, w, e
    <3>4. c = w
      BY ONLY <3>3
    <3> QED
      BY <3>4 DEF c, w
  <2>7. content' = content (-) I
    BY <1>5, <2>5, <2>6, SameBag
  <2> QED
    BY <2>7 DEF I
<1>9. last' = <<"delete point", p>>
  BY Zenon DEF DeletePointOf, Called
<1> QED
  BY <1>7, <1>8, <1>9, StoreBags, Zenon DEF Store!DeletePoint

(* Whether a voxel holds one point is what the length of a search tells.   *)
LEMMA HoldsOneIs ==
  ASSUME NEW found \in Seq(Points), NEW v, NEW B, PointBag(B),
         \A q \in Points : Times(found, q) = IF InBox(q, v) THEN Copies(q, B) ELSE 0
  PROVE  /\ {q \in DOMAIN B : Store!In(q, v)} = {found[i] : i \in DOMAIN found}
         /\ Len(found) > 1 => ~Store!HoldsOne(B, v)
         /\ Len(found) = 1 => Store!HoldsOne(B, v)
<1> DEFINE stored == {found[i] : i \in DOMAIN found}
<1>1. DOMAIN found = 1..Len(found) /\ Len(found) \in Nat /\ stored \subseteq Points
  BY LenProperties
<1>2. {q \in DOMAIN B : Store!In(q, v)} = stored
  <2>1. \A q \in Points : Store!In(q, v) <=> InBox(q, v)
    BY StoreBoxes
  <2>2. \A q \in Points : q \in DOMAIN B <=> Copies(q, B) # 0
    BY CopiesType
  <2>3. \A q \in Points : q \in stored <=> Times(found, q) # 0
    BY TimesType
  <2>4. DOMAIN B \subseteq Points
    BY DEF PointBag
  <2> HIDE DEF stored
  <2>5. ASSUME NEW q \in Points
        PROVE  (q \in DOMAIN B /\ Store!In(q, v)) <=> q \in stored
    <3>1. Times(found, q) = IF InBox(q, v) THEN Copies(q, B) ELSE 0
      OBVIOUS
    <3> QED
      BY <2>1, <2>2, <2>3, <3>1
  <2> QED
    BY <1>1, <2>4, <2>5
<1>3. \A q \in stored : B[q] = Times(found, q)
  <2> SUFFICES ASSUME NEW q \in stored
               PROVE  B[q] = Times(found, q)
    OBVIOUS
  <2>1. q \in DOMAIN B /\ q \in Points /\ Store!In(q, v)
    BY <1>1, <1>2
  <2>2. InBox(q, v)
    BY <2>1, StoreBoxes
  <2>3. Times(found, q) = Copies(q, B)
    BY <2>1, <2>2
  <2> QED
    BY <2>1, <2>3 DEF Copies
<1>4. Store!HoldsOne(B, v) <=> \E q \in DOMAIN B : B[q] = 1 /\ stored = {q}
  <2>1. Store!HoldsOne(B, v)
          <=> \E q \in DOMAIN B : B[q] = 1 /\ {r \in DOMAIN B : Store!In(r, v)} = {q}
    BY StoreBags, Zenon DEF Store!HoldsOne
  <2> HIDE DEF stored
  <2> QED
    BY ONLY <1>2, <2>1, Zenon
<1>5. ASSUME Len(found) > 1, Store!HoldsOne(B, v)
      PROVE  FALSE
  <2>1. PICK q \in DOMAIN B : B[q] = 1 /\ stored = {q}
    BY <1>4, <1>5
  <2>2. Times(found, q) = 1
    BY <1>3, <2>1
  <2>3. At(found, q) = 1..Len(found)
    BY <1>1, <2>1 DEF At
  <2>4. Cardinality(1..Len(found)) = Len(found)
    <3> DEFINE n == Len(found)
    <3>1. n \in Nat
      BY <1>1
    <3> HIDE DEF n
    <3>2. Cardinality(1..n) = n
      BY <3>1, FS_Interval
    <3> QED
      BY <3>2 DEF n
  <2> QED
    BY <1>1, <1>5, <2>2, <2>3, <2>4 DEF Times
<1>6. ASSUME Len(found) = 1
      PROVE  Store!HoldsOne(B, v)
  <2> DEFINE q == found[1]
  <2>1. stored = {q}
    BY <1>1, <1>6
  <2>2. At(found, q) = {1}
    BY <1>1, <1>6 DEF At
  <2>3. Times(found, q) = 1
    BY <2>2, FS_Singleton DEF Times
  <2>4. q \in DOMAIN B /\ B[q] = 1
    BY <1>2, <1>3, <2>1, <2>3
  <2> QED
    BY <1>4, <2>1, <2>4
<1> QED
  BY <1>2, <1>5, <1>6

LEMMA DownsampleIsStored ==
  ASSUME AnyHeight, PointsKept, NEW p \in Points, NEW rank \in Ranks, AddDownsampled(p, rank),
         content' = BagOf(flatten[Root_Node'])
  PROVE  last' = <<"downsample", p>> /\ Store!Downsample(content, content', p)
<1> DEFINE v == Voxel(p)
           found == Search_by_range(Root_Node, v).found
           best == Closest(p, found, v)
           here == {p} \cup {q \in DOMAIN content : Store!In(q, v)}
           closest == {q \in here : \A r \in here : Store!OffCentre(q, v) <= Store!OffCentre(r, v)}
           choice == IF p \in closest THEN {p} ELSE closest
           put == Store!Outside(content, v) (+) SetToBag({best})
           Goes(b) == content' = IF Store!HoldsOne(content, v) /\ b # p THEN content
                                 ELSE Store!Outside(content, v) (+) SetToBag({b})
<1>1. /\ Sound(Root_Node') /\ found \in Seq(Points) /\ best \in Points
      /\ \A q \in Points : Times(found, q) = IF InBox(q, v) THEN Held(Root_Node, q) ELSE 0
      /\ IF Len(found) > 1 \/ best = p THEN Replaced(v, best)
         ELSE SamePoints(Root_Node, Root_Node')
  BY DownsampledIs DEF PointsKept
<1>2. IsBox(v) /\ Store!VoxelOf(p) = v
  BY BoxesAre, StoreBoxes
<1>3. PointBag(content) /\ \A q \in Points : Copies(q, content) = Held(Root_Node, q)
  BY ContentIs DEF PointsKept
<1>4. PointBag(content') /\ \A q \in Points : Copies(q, content') = Held(Root_Node', q)
  BY <1>1, ContentIs
<1>5. Store!Downsample(content, content', p)
        <=> \E b \in choice : Goes(b)
  BY <1>2, StoreBags, Zenon DEF Store!Downsample
<1> HIDE DEF v
<1>6. /\ {q \in DOMAIN content : Store!In(q, v)} = {found[i] : i \in DOMAIN found}
      /\ Len(found) > 1 => ~Store!HoldsOne(content, v)
      /\ Len(found) = 1 => Store!HoldsOne(content, v)
  <2>1. \A q \in Points : Times(found, q) = IF InBox(q, v) THEN Copies(q, content) ELSE 0
    BY <1>1, <1>3
  <2> HIDE DEF found
  <2> QED
    BY <1>1, <1>3, <2>1, HoldsOneIs
<1> HIDE DEF found
<1>7. /\ best \in here /\ \A q \in here : OffMiddle(best, v) <= OffMiddle(q, v)
      /\ (\A q \in here : OffMiddle(p, v) <= OffMiddle(q, v)) => best = p
  <2>1. here = {p} \cup {found[i] : i \in DOMAIN found}
    BY <1>6
  <2> HIDE DEF here
  <2> QED
    BY <1>1, <1>2, <2>1, ClosestIs
<1>8. here \subseteq Points
  BY <1>3 DEF PointBag
<1> HIDE DEF best, here
<1>9. best \in choice
  <2>1. \A q \in here : Store!OffCentre(q, v) = OffMiddle(q, v)
    BY <1>2, <1>8, StoreOff
  <2>2. best \in closest
    BY <1>7, <2>1
  <2>3. p \in closest => best = p
    BY <1>7, <2>1
  <2> QED
    BY <2>2, <2>3
<1>10. PointBag(put) /\ \A q \in Points : Copies(q, put)
                          = (IF InBox(q, v) THEN 0 ELSE Held(Root_Node, q)) + One(q = best)
  <2>1. /\ PointBag(Store!Outside(content, v))
        /\ \A q \in Points : Copies(q, Store!Outside(content, v))
                               = IF InBox(q, v) THEN 0 ELSE Copies(q, content)
    BY <1>3, OutsideIs
  <2>2. PointBag(SetToBag({best})) /\ \A q : Copies(q, SetToBag({best})) = One(q = best)
    BY <1>1, SetBagIs, OneOf
  <2>3. /\ PointBag(put)
        /\ \A q : Copies(q, put) = Copies(q, Store!Outside(content, v)) + Copies(q, SetToBag({best}))
    BY <2>1, <2>2, BagPlus
  <2> HIDE DEF put
  <2> QED
    BY <1>3, <2>1, <2>2, <2>3
<1>11. ASSUME Len(found) > 1 \/ best = p
       PROVE  Store!Downsample(content, content', p)
  <2>1. \A q \in Points : Held(Root_Node', q)
                            = (IF InBox(q, v) THEN 0 ELSE Held(Root_Node, q)) + One(q = best)
    BY <1>1, <1>11 DEF Replaced
  <2>2. \A q \in Points : Copies(q, content') = Copies(q, put)
    <3> HIDE DEF put
    <3> QED
      BY <1>4, <1>10, <2>1
  <2>3. content' = put
    <3> HIDE DEF put
    <3> QED
      BY <1>4, <1>10, <2>2, SameBag
  <2>4. ~(Store!HoldsOne(content, v) /\ best # p)
    BY <1>6, <1>11
  <2>5. Goes(best)
    BY <2>3, <2>4
  <2> HIDE DEF choice, closest, Goes
  <2> QED
    BY <1>5, <1>9, <2>5
<1>12. ASSUME ~(Len(found) > 1 \/ best = p)
       PROVE  Store!Downsample(content, content', p)
  <2>1. \A q \in Points : Copies(q, content') = Copies(q, content)
    BY <1>1, <1>3, <1>4, <1>12 DEF SamePoints
  <2>2. content' = content
    BY <1>3, <1>4, <2>1, SameBag
  <2>3. Len(found) = 1
    <3>1. best \in {found[i] : i \in DOMAIN found}
      BY <1>6, <1>7, <1>12 DEF here
    <3>2. Len(found) \in Nat /\ DOMAIN found = 1..Len(found)
      BY <1>1, LenProperties
    <3>3. Len(found) # 0
      BY <3>1, <3>2
    <3> QED
      BY ONLY <1>12, <3>2, <3>3
  <2>4. Goes(best)
    BY <1>6, <1>12, <2>2, <2>3
  <2> HIDE DEF choice, closest, Goes
  <2> QED
    BY <1>5, <1>9, <2>4
<1>13. last' = <<"downsample", p>>
  BY Zenon DEF AddDownsampled, Called
<1> QED
  BY <1>11, <1>12, <1>13

LEMMA StoreStep ==
  ASSUME AnyHeight, PointsKept, [Next]_vars
  PROVE  [Store!Next]_<<content, last>>
<1>0. Sound(Root_Node) /\ content = BagOf(flatten[Root_Node])
  BY DEF PointsKept
<1>1. CASE Next
  <2>0. content' = BagOf(flatten[Root_Node'])
    BY <1>1 DEF Next
  <2>1. CASE acquire_removed_points
    BY <1>0, <2>0, <2>1 DEF acquire_removed_points
  <2>2. ASSUME NEW p \in Points, Nearest_Search(p) \/ \E r \in Radii : Radius_Search(p, r)
        PROVE  UNCHANGED <<content, last>>
    <3>1. Sound(Root_Node') /\ SamePoints(Root_Node, Root_Node') /\ UNCHANGED last
      BY <1>0, <2>2, SearchesKeep
    <3>2. BagOf(flatten[Root_Node]) = BagOf(flatten[Root_Node'])
      BY <1>0, <3>1, SameContent DEF SamePoints
    <3> QED
      BY <1>0, <2>0, <3>1, <3>2
  <2>3. ASSUME NEW rank \in Ranks, NEW S \in BuildSets, Build(S, rank)
        PROVE  Store!Next
    BY <2>0, <2>3, BuildIsStored, Zenon DEF Store!Next
  <2>4. ASSUME NEW rank \in Ranks, NEW p \in Points, AddPoint(p, rank)
        PROVE  Store!Next
    BY <2>0, <2>4, InsertIsStored, Zenon DEF Store!Next
  <2>5. ASSUME NEW rank \in Ranks, NEW p \in Points, AddDownsampled(p, rank)
        PROVE  Store!Next
    BY <2>0, <2>5, DownsampleIsStored, Zenon DEF Store!Next
  <2>6. ASSUME NEW rank \in Ranks, NEW p \in Points, DeletePointOf(p, rank)
        PROVE  Store!Next
    BY <2>0, <2>6, DeletePointIsStored, Zenon DEF Store!Next
  <2>7. ASSUME NEW rank \in Ranks, NEW b \in Boxes, DeleteBox(b, rank)
        PROVE  Store!Next
    BY <2>0, <2>7, DeleteIsStored, Zenon DEF Store!Next
  <2> QED
    BY <1>1, <2>1, <2>2, <2>3, <2>4, <2>5, <2>6, <2>7 DEF Next, Call
<1>2. CASE UNCHANGED vars
  BY <1>2 DEF vars
<1> QED
  BY <1>1, <1>2

(* The k-d tree implements a bag of points: lazy deletions, flags pushed   *)
(* down late, subtrees taken or left by their range and rebuilds change    *)
(* the points as the same call changes a plain bag, whatever the points,   *)
(* boxes, voxels and criteria and however ties are broken.                 *)
THEOREM TreeIsPointStore ==
  ASSUME AnyHeight
  PROVE  Spec => IsPointStore
<1>1. Init => PointsKept
  BY OwedInit
<1>2. PointsKept /\ [Next]_vars => PointsKept'
  BY PointsKeptStep
<1>3. Init => Store!Init
  BY StoreBags DEF Init, Store!Init
<1>4. PointsKept /\ [Next]_vars => [Store!Next]_<<content, last>>
  BY StoreStep
<1> QED
  BY <1>1, <1>2, <1>3, <1>4, PTL DEF Spec, IsPointStore, Store!Spec

-----------------------------------------------------------------------------
(***************************************************************************)
(* The ball around the range of a node, and the ball of a search.          *)
(***************************************************************************)
LEMMA Cauchy ==
  ASSUME NEW a \in Int, NEW b \in Int, NEW c \in Int, NEW x \in Int, NEW y \in Int, NEW z \in Int
  PROVE  (a * x + b * y + c * z) * (a * x + b * y + c * z)
           <= (a * a + b * b + c * c) * (x * x + y * y + z * z)
<1> DEFINE p == a * y - b * x
           q == a * z - c * x
           r == b * z - c * y
           L == (a * a + b * b + c * c) * (x * x + y * y + z * z)
           D == (a * x + b * y + c * z) * (a * x + b * y + c * z)
<1>1. L = D + p * p + q * q + r * r
  OBVIOUS
<1>2. p \in Int /\ q \in Int /\ r \in Int /\ L \in Int /\ D \in Int
  OBVIOUS
<1> HIDE DEF p, q, r, L, D
<1>3. p * p \in Nat /\ q * q \in Nat /\ r * r \in Nat
  BY ONLY <1>2
<1> DEFINE pp == p * p
           qq == q * q
           rr == r * r
<1>4. pp \in Nat /\ qq \in Nat /\ rr \in Nat /\ L = D + pp + qq + rr
  BY <1>1, <1>3
<1> HIDE DEF pp, qq, rr
<1>5. D <= L
  BY ONLY <1>2, <1>4
<1> QED
  BY <1>5 DEF D, L

LEMMA Expanded ==
  ASSUME NEW a \in Int, NEW b \in Int, NEW c \in Int, NEW x \in Int, NEW y \in Int, NEW z \in Int
  PROVE  (a - x) * (a - x) + (b - y) * (b - y) + (c - z) * (c - z)
           = (a * a + b * b + c * c) + (x * x + y * y + z * z) - 2 * (a * x + b * y + c * z)
OBVIOUS

LEMMA ProductGrows ==
  ASSUME NEW a \in Nat, NEW b \in Nat, NEW c \in Nat, NEW d \in Nat, a <= c, b <= d
  PROVE  a * b <= c * d
OBVIOUS

(* U, E and T are the squared lengths of two sides of a triangle and of    *)
(* the third, C the product of the two, D the square of the longest U may  *)
(* be and R of the longest half E.                                         *)
LEMMA OutsideBall ==
  ASSUME NEW U \in Nat, NEW E \in Nat, NEW T \in Int, NEW D \in Nat, NEW R \in Nat, NEW C \in Int,
         U <= D, E <= 4 * R, T = U + E - 2 * C, C * C <= U * E,
         T - 4 * R - D > 0, (T - 4 * R - D) * (T - 4 * R - D) > 16 * (R * D)
  PROVE  FALSE
<1> DEFINE b == T - 4 * R - D
           F == 4 * R
<1>1. b \in Int /\ 0 < b /\ b <= 0 - 2 * C
  OBVIOUS
<1>2. b * b <= (0 - 2 * C) * (0 - 2 * C)
  <2> DEFINE g == 0 - 2 * C
  <2>1. g \in Int /\ b <= g
    BY <1>1
  <2> HIDE DEF b, g
  <2>2. b * b <= g * g
    BY ONLY <1>1, <2>1
  <2> QED
    BY <2>2 DEF g
<1>3. (0 - 2 * C) * (0 - 2 * C) = 4 * (C * C)
  OBVIOUS
<1>4. U * E <= D * F
  <2>1. F \in Nat /\ E <= F
    OBVIOUS
  <2> HIDE DEF F
  <2> QED
    BY <2>1, ProductGrows
<1>5. 4 * (D * F) = 16 * (R * D)
  OBVIOUS
<1>6. b * b > 16 * (R * D)
  OBVIOUS
<1> DEFINE bb == b * b
           cc == C * C
           ue == U * E
           df == D * F
           rd == R * D
           gg == (0 - 2 * C) * (0 - 2 * C)
<1>7. /\ bb \in Int /\ cc \in Int /\ ue \in Int /\ df \in Int /\ rd \in Int /\ gg \in Int
      /\ bb <= gg /\ gg = 4 * cc /\ cc <= ue /\ ue <= df /\ 4 * df = 16 * rd /\ bb > 16 * rd
  <2>1. bb \in Int /\ cc \in Int /\ ue \in Int /\ df \in Int /\ rd \in Int /\ gg \in Int
    OBVIOUS
  <2> QED
    BY <1>2, <1>3, <1>4, <1>5, <1>6, <2>1
<1> HIDE DEF bb, cc, ue, df, rd, gg
<1> QED
  BY ONLY <1>7

LEMMA InsideBall ==
  ASSUME NEW U \in Nat, NEW T \in Nat, NEW E \in Int, NEW D \in Nat, NEW R \in Nat, NEW C \in Int,
         U <= D, E = U + T - 2 * C, C * C <= U * T,
         4 * R - T - D >= 0, 4 * T * D <= (4 * R - T - D) * (4 * R - T - D)
  PROVE  E <= 4 * R
<1> DEFINE l == 4 * R - T - D
           g == 0 - 2 * C
<1>1. l \in Int /\ 0 <= l /\ g \in Int
  OBVIOUS
<1>2. g * g = 4 * (C * C)
  OBVIOUS
<1>3. U * T <= D * T
  BY ProductGrows
<1>4. 4 * T * D = 4 * (D * T)
  OBVIOUS
<1>5. g * g <= l * l
  <2> DEFINE gg == g * g
             cc == C * C
             ut == U * T
             dt == D * T
             ll == l * l
  <2>1. gg \in Int /\ cc \in Int /\ ut \in Int /\ dt \in Int /\ ll \in Int
    OBVIOUS
  <2>2. gg = 4 * cc /\ cc <= ut /\ ut <= dt /\ 4 * dt <= ll
    BY <1>2, <1>3, <1>4
  <2> HIDE DEF gg, cc, ut, dt, ll
  <2>3. gg <= ll
    BY ONLY <2>1, <2>2
  <2> QED
    BY <2>3 DEF gg, ll
<1>6. g <= l
  <2> HIDE DEF g, l
  <2> QED
    BY ONLY <1>1, <1>5
<1>7. E = U + T + g /\ l = 4 * R - T - D
  OBVIOUS
<1> HIDE DEF g, l
<1> QED
  BY ONLY <1>1, <1>6, <1>7, U \in Nat, T \in Nat, D \in Nat, R \in Nat, U <= D

LEMMA BetweenSquares ==
  ASSUME NEW l \in Int, NEW h \in Int, NEW x \in Int, l <= x, x <= h
  PROVE  (2 * x - (l + h)) * (2 * x - (l + h)) <= (l - h) * (l - h)
<1> DEFINE u == 2 * x - (l + h)
           w == h - l
<1>1. u \in Int /\ w \in Int /\ 0 - w <= u /\ u <= w
  OBVIOUS
<1>2. (l - h) * (l - h) = w * w
  OBVIOUS
<1> HIDE DEF u, w
<1>3. u * u <= w * w
  BY ONLY <1>1
<1> QED
  BY <1>2, <1>3 DEF u

(* What the comparison of a ball with the range of a node tells of a point. *)
LEMMA BallAndRange ==
  ASSUME AnyHeight, NEW n \in TreeNodes, Within(n), NEW at \in Points, NEW r \in Int,
         NEW p \in Points, Held(n, p) # 0
  PROVE  /\ BallOutside(n, at, r) => ~(SquareDist(p, at) <= r * r)
         /\ BallInside(n, at, r) => SquareDist(p, at) <= r * r
<1> DEFINE l(a) == n.lo[a]
           h(a) == n.hi[a]
           x(a) == p[a]
           y(a) == at[a]
<1>1. \A a \in Axes : l(a) \in Int /\ h(a) \in Int /\ x(a) \in Int /\ y(a) \in Int
                      /\ l(a) <= x(a) /\ x(a) <= h(a)
  BY TreeAssumption DEF TreeNodes, NodesOver, Within
<1>2. 1 \in Axes /\ 2 \in Axes /\ 3 \in Axes
  BY DEF Axes
<1> DEFINE R == r * r
           S == SquareDist(p, at)
           D == Diagonal(n)
           T == ToCenter(n, at)
           u(a) == 2 * x(a) - (l(a) + h(a))
           w(a) == 2 * y(a) - (l(a) + h(a))
           e(a) == u(a) - w(a)
           U == u(1) * u(1) + u(2) * u(2) + u(3) * u(3)
           C == u(1) * w(1) + u(2) * w(2) + u(3) * w(3)
           G == u(1) * e(1) + u(2) * e(2) + u(3) * e(3)
           E == e(1) * e(1) + e(2) * e(2) + e(3) * e(3)
<1>3. /\ S = (x(1) - y(1)) * (x(1) - y(1)) + (x(2) - y(2)) * (x(2) - y(2))
             + (x(3) - y(3)) * (x(3) - y(3))
      /\ D = (l(1) - h(1)) * (l(1) - h(1)) + (l(2) - h(2)) * (l(2) - h(2))
             + (l(3) - h(3)) * (l(3) - h(3))
      /\ T = ((l(1) + h(1)) - 2 * y(1)) * ((l(1) + h(1)) - 2 * y(1))
             + ((l(2) + h(2)) - 2 * y(2)) * ((l(2) + h(2)) - 2 * y(2))
             + ((l(3) + h(3)) - 2 * y(3)) * ((l(3) + h(3)) - 2 * y(3))
  <2>1. /\ S = Square(x(1) - y(1)) + Square(x(2) - y(2)) + Square(x(3) - y(3))
        /\ D = Square(l(1) - h(1)) + Square(l(2) - h(2)) + Square(l(3) - h(3))
    BY Zenon DEF SquareDist, Diagonal
  <2>2. T = Square((l(1) + h(1)) - 2 * y(1)) + Square((l(2) + h(2)) - 2 * y(2))
            + Square((l(3) + h(3)) - 2 * y(3))
    <3> DEFINE c == [a \in Axes |-> n.lo[a] + n.hi[a]]
               b == [a \in Axes |-> 2 * at[a]]
    <3>1. T = Square(c[1] - b[1]) + Square(c[2] - b[2]) + Square(c[3] - b[3])
      BY Zenon DEF SquareDist, ToCenter
    <3>2. \A a \in Axes : c[a] = l(a) + h(a) /\ b[a] = 2 * y(a)
      OBVIOUS
    <3> HIDE DEF c, b, T, l, h, y
    <3>3. /\ c[1] = l(1) + h(1) /\ c[2] = l(2) + h(2) /\ c[3] = l(3) + h(3)
          /\ b[1] = 2 * y(1) /\ b[2] = 2 * y(2) /\ b[3] = 2 * y(3)
      BY <1>2, <3>2
    <3> QED
      BY ONLY <3>1, <3>3, Zenon
  <2> HIDE DEF S, D, T, l, h, x, y
  <2> QED
    BY ONLY <2>1, <2>2, Zenon DEF Square
<1> HIDE DEF l, h, x, y, S, D, T
<1>4. \A a \in Axes : u(a) \in Int /\ w(a) \in Int /\ e(a) \in Int
  BY <1>1
<1>5. \A a \in Axes : u(a) * u(a) <= (l(a) - h(a)) * (l(a) - h(a))
  BY <1>1, BetweenSquares
<1>6. E = 4 * S
  <2>1. \A a \in Axes : e(a) * e(a) = 4 * ((x(a) - y(a)) * (x(a) - y(a)))
    BY <1>1
  <2>2. \A a \in Axes : (x(a) - y(a)) * (x(a) - y(a)) \in Int
    BY <1>1
  <2> HIDE DEF e
  <2> QED
    BY <1>2, <1>3, <2>1, <2>2
<1>7. T = w(1) * w(1) + w(2) * w(2) + w(3) * w(3)
  <2>1. \A a \in Axes : ((l(a) + h(a)) - 2 * y(a)) * ((l(a) + h(a)) - 2 * y(a)) = w(a) * w(a)
    BY <1>1
  <2> HIDE DEF w
  <2> QED
    BY <1>2, <1>3, <2>1, Zenon
<1>8. U \in Nat /\ D \in Nat /\ U <= D
  <2> DEFINE uu(a) == u(a) * u(a)
             dd(a) == (l(a) - h(a)) * (l(a) - h(a))
  <2>1. \A a \in Axes : uu(a) \in Nat
    <3> HIDE DEF u
    <3> QED
      BY <1>4
  <2>2. \A a \in Axes : dd(a) \in Int /\ uu(a) <= dd(a)
    BY <1>1, <1>5
  <2>3. U = uu(1) + uu(2) + uu(3) /\ D = dd(1) + dd(2) + dd(3)
    BY <1>3
  <2> HIDE DEF uu, dd, U
  <2> QED
    BY ONLY <1>2, <2>1, <2>2, <2>3
<1> HIDE DEF u, w
<1>9. u(1) \in Int /\ u(2) \in Int /\ u(3) \in Int /\ w(1) \in Int /\ w(2) \in Int /\ w(3) \in Int
  BY <1>2, <1>4
<1>10. /\ C \in Int /\ T \in Nat /\ C * C <= U * T /\ E = U + T - 2 * C
  <2>1. E = U + T - 2 * C
    BY <1>7, <1>9, Expanded
  <2>2. C * C <= U * T
    BY <1>7, <1>9, Cauchy
  <2>3. T \in Nat
    <3> DEFINE w1 == w(1) * w(1)
               w2 == w(2) * w(2)
               w3 == w(3) * w(3)
    <3>1. w1 \in Nat /\ w2 \in Nat /\ w3 \in Nat
      BY <1>9
    <3>2. T = w1 + w2 + w3
      BY <1>7
    <3> HIDE DEF w1, w2, w3
    <3> QED
      BY ONLY <3>1, <3>2
  <2>4. C \in Int
    BY <1>9
  <2> QED
    BY <2>1, <2>2, <2>3, <2>4
<1>11. /\ G \in Int /\ E \in Nat /\ G * G <= U * E /\ T = U + E - 2 * G
  <2>1. e(1) \in Int /\ e(2) \in Int /\ e(3) \in Int
    BY <1>9
  <2>2. w(1) = u(1) - e(1) /\ w(2) = u(2) - e(2) /\ w(3) = u(3) - e(3)
    BY <1>9
  <2> HIDE DEF e
  <2>3. T = U + E - 2 * G
    BY <1>7, <1>9, <2>1, <2>2, Expanded
  <2>4. G * G <= U * E
    BY <1>9, <2>1, Cauchy
  <2>5. G \in Int
    BY <1>9, <2>1
  <2>6. E \in Nat
    <3> DEFINE e1 == e(1) * e(1)
               e2 == e(2) * e(2)
               e3 == e(3) * e(3)
    <3>1. e1 \in Nat /\ e2 \in Nat /\ e3 \in Nat
      BY <2>1
    <3>2. E = e1 + e2 + e3
      OBVIOUS
    <3> HIDE DEF e1, e2, e3, E
    <3> QED
      BY ONLY <3>1, <3>2
  <2> QED
    BY <2>3, <2>4, <2>5, <2>6
<1>12. S \in Int
  <2>1. x(1) \in Int /\ x(2) \in Int /\ x(3) \in Int /\ y(1) \in Int /\ y(2) \in Int /\ y(3) \in Int
    BY <1>1, <1>2
  <2> QED
    BY <1>3, <2>1
<1>13. R \in Nat /\ 4 * r * r = 4 * R /\ 16 * r * r = 16 * R
  OBVIOUS
<1>14. BallOutside(n, at, r) <=> T - 4 * R - D > 0 /\ (T - 4 * R - D) * (T - 4 * R - D) > 16 * R * D
  BY <1>13 DEF BallOutside, Square, T, D
<1>15. BallInside(n, at, r) <=> 4 * R - T - D >= 0 /\ 4 * T * D <= (4 * R - T - D) * (4 * R - T - D)
  BY <1>13 DEF BallInside, Square, T, D
<1> HIDE DEF R, U, C, G, E
<1>16. ASSUME T - 4 * R - D > 0, (T - 4 * R - D) * (T - 4 * R - D) > 16 * R * D, S <= R
       PROVE  FALSE
  <2>1. 16 * R * D = 16 * (R * D)
    BY ONLY <1>8, <1>13
  <2>2. (T - 4 * R - D) * (T - 4 * R - D) > 16 * (R * D)
    BY ONLY <1>16, <2>1
  <2>3. E <= 4 * R
    BY ONLY <1>6, <1>12, <1>13, <1>16
  <2>4. T \in Int
    BY <1>10
  <2> QED
    BY ONLY <1>8, <1>11, <1>13, <1>16, <2>2, <2>3, <2>4, OutsideBall
<1>17. ASSUME 4 * R - T - D >= 0, 4 * T * D <= (4 * R - T - D) * (4 * R - T - D)
       PROVE  S <= R
  <2>1. E \in Int
    BY <1>11
  <2>2. E <= 4 * R
    BY ONLY <1>8, <1>10, <1>13, <1>17, <2>1, InsideBall
  <2> QED
    BY ONLY <1>6, <1>12, <1>13, <2>2
<1> QED
  BY <1>14, <1>15, <1>16, <1>17 DEF S, R

InReach(at, r) == {p \in Points : SquareDist(p, at) <= r * r}

LEMMA RadiusInFinds ==
  ASSUME AnyHeight, NEW n \in TreeNodes, Sound(n), NEW at \in Points, NEW rad \in Int,
         NEW l \in FindResults, NEW r \in FindResults,
         Finds(Son(n, "left"), l, InReach(at, rad)), Finds(Son(n, "right"), r, InReach(at, rad))
  PROVE  Finds(n, RadiusIn(Push_Down(n), l, r, at, rad), InReach(at, rad))
<1> DEFINE m == Push_Down(n)
           outside == BallOutside(m, at, rad)
           inside == BallInside(m, at, rad)
           hit == ~m.point_deleted /\ SquareDist(m.point, at) <= rad * rad
<1>1. m \in TreeNodes /\ Sound(m) /\ m.point \in Points
  BY PushDownSound DEF TreeNodes, NodesOver
<1>2. Within(m)
  BY <1>1, FitsIs DEF Sound
<1>3. \A p \in Points : Held(m, p) # 0 =>
        (outside => p \notin InReach(at, rad)) /\ (inside => p \in InReach(at, rad))
  BY <1>1, <1>2, BallAndRange DEF InReach
<1>4. outside \in BOOLEAN /\ inside \in BOOLEAN /\ hit \in BOOLEAN
  BY Zenon DEF BallOutside, BallInside
<1>5. hit <=> m.point \in InReach(at, rad) /\ ~m.point_deleted
  BY <1>1 DEF InReach
<1>6. RadiusIn(m, l, r, at, rad) = FindIn(m, l, r, outside, inside, hit)
  BY DEF RadiusIn
<1> HIDE DEF outside, inside, hit
<1>7. Finds(n, FindIn(m, l, r, outside, inside, hit), InReach(at, rad))
  BY ONLY AnyHeight, n \in TreeNodes, Sound(n), <1>3, <1>4, <1>5,
     l \in FindResults, r \in FindResults, Finds(Son(n, "left"), l, InReach(at, rad)),
     Finds(Son(n, "right"), r, InReach(at, rad)), FindInFinds, Zenon
<1> QED
  BY <1>6, <1>7

(* A search around a point finds the points in reach, each as often as it  *)
(* is held, though it takes or leaves whole subtrees by their ball.        *)
LEMMA SearchByRadiusFinds ==
  ASSUME AnyHeight, NEW at \in Points, NEW rad \in Int
  PROVE  \A t \in Trees : Sound(t) => Finds(t, Search_by_radius(t, at, rad), InReach(at, rad))
<1> DEFINE D(t) == Search_by_radius(t, at, rad)
           S == {t \in Trees : Sound(t) => Finds(t, D(t), InReach(at, rad))}
<1>1. /\ D(None) = NoneFound
      /\ \A t \in Trees : D(t) \in FindResults
  BY SearchByRadiusIs DEF NoneFound
<1>2. \A t \in TreeNodes :
        D(t) = RadiusIn(Push_Down(t), D(Son(t, "left")), D(Son(t, "right")), at, rad)
  BY SearchByRadiusIs
<1> HIDE DEF D
<1>3. None \in S
  BY <1>1, NoneFinds, TreesAre
<1>4. ASSUME NEW n \in TreeNodes, \A s \in Side : Son(n, s) \in S
      PROVE  n \in S
  <2> SUFFICES ASSUME Sound(n)
               PROVE  Finds(n, D(n), InReach(at, rad))
    BY TreesAre
  <2> DEFINE l == D(Son(n, "left"))
             r == D(Son(n, "right"))
  <2>1. l \in FindResults /\ r \in FindResults
    BY <1>1, SonType DEF Side
  <2>2. Finds(Son(n, "left"), l, InReach(at, rad)) /\ Finds(Son(n, "right"), r, InReach(at, rad))
    BY <1>4, PushDownSound DEF Side
  <2>3. D(n) = RadiusIn(Push_Down(n), l, r, at, rad)
    BY <1>2
  <2> HIDE DEF l, r
  <2> QED
    BY <2>1, <2>2, <2>3, RadiusInFinds
<1>5. \A n \in TreeNodes : (\A s \in Side : Son(n, s) \in S) => n \in S
  <2> HIDE DEF S
  <2> QED
    BY <1>4
<1>6. \A t \in Trees : t \in S
  <2> HIDE DEF S
  <2> QED
    BY <1>3, <1>5, TreeInduction
<1> QED
  BY <1>6 DEF D

LEMMA RadiusIsFound ==
  ASSUME AnyHeight, PointsKept
  PROVE  RadiusFound
<1> SUFFICES ASSUME NEW at \in Points, NEW r \in Radii
             PROVE  BagOf(Search_by_radius(Root_Node, at, r).found) = Only(content, InReach(at, r))
  BY DEF RadiusFound, InReach
<1> DEFINE d == Search_by_radius(Root_Node, at, r)
           X == InReach(at, r)
<1>1. r \in Int /\ Sound(Root_Node) /\ Root_Node \in Trees
  BY MapAssumption DEF PointsKept, Sound
<1>2. Finds(Root_Node, d, X) /\ d.found \in Seq(Points)
  BY <1>1, SearchByRadiusFinds, SearchByRadiusIs DEF FindResults
<1> HIDE DEF d, X
<1>3. PointBag(BagOf(d.found)) /\ \A p : Copies(p, BagOf(d.found)) = Times(d.found, p)
  BY <1>2, BagOfIs
<1>4. PointBag(content) /\ \A p \in Points : Copies(p, content) = Held(Root_Node, p)
  BY ContentIs DEF PointsKept
<1>5. /\ PointBag(Only(content, X))
      /\ \A p : Copies(p, Only(content, X)) = IF p \in X THEN Copies(p, content) ELSE 0
  BY <1>4, BagOnly
<1>6. \A p \in Points : Times(d.found, p) = IF p \in X THEN Held(Root_Node, p) ELSE 0
  BY <1>2 DEF Finds
<1>7. \A p \in Points : Copies(p, BagOf(d.found)) = Copies(p, Only(content, X))
  BY <1>3, <1>4, <1>5, <1>6
<1>8. BagOf(d.found) = Only(content, X)
  BY <1>3, <1>5, <1>7, SameBag
<1> QED
  BY <1>8 DEF d, X

(* A search around a point returns the points within its radius and no     *)
(* others, each as often as the map holds it: what the ranges of the nodes *)
(* let it skip or take whole never costs or adds a point, though ranges    *)
(* are kept up lazily, for any points and radii.                           *)
THEOREM RadiusSearchIsExact ==
  ASSUME AnyHeight
  PROVE  Spec => []RadiusFound
<1>1. Init => PointsKept
  BY OwedInit
<1>2. PointsKept /\ [Next]_vars => PointsKept'
  BY PointsKeptStep
<1>3. PointsKept => RadiusFound
  BY RadiusIsFound
<1> QED
  BY <1>1, <1>2, <1>3, PTL DEF Spec

-----------------------------------------------------------------------------
(***************************************************************************)
(* The nearest points: the heap of a search, from one node to the next.    *)
(***************************************************************************)
Ordered(q, at) ==
  \A i, j \in DOMAIN q : i <= j => SquareDist(q[i], at) <= SquareDist(q[j], at)
Heap(q, k, at) == q \in Seq(Points) /\ Ordered(q, at) /\ Len(q) <= k

(* The heap is full and its top is not farther than a point.               *)
Beyond(p, q, k, at) == Len(q) = k /\ Top(q, at) <= SquareDist(p, at)

(* What is left out of the points of a heap q and of those counted by more *)
(* is beyond the heap r.                                                   *)
Improves(q, r, more, k, at) ==
  /\ Heap(r, k, at) /\ Len(q) <= Len(r)
  /\ Len(q) = k => Top(r, at) <= Top(q, at)
  /\ \A p \in Points :
       /\ Times(r, p) <= Times(q, p) + more[p]
       /\ Times(r, p) < Times(q, p) + more[p] => Beyond(p, r, k, at)

LEMMA DistIs ==
  ASSUME NEW p \in Points, NEW at \in Points
  PROVE  SquareDist(p, at) \in Int
<1>1. \A a \in Axes : p[a] \in Int /\ at[a] \in Int
  BY TreeAssumption
<1>2. 1 \in Axes /\ 2 \in Axes /\ 3 \in Axes
  BY DEF Axes
<1>3. /\ Square(p[1] - at[1]) \in Int /\ Square(p[2] - at[2]) \in Int
      /\ Square(p[3] - at[3]) \in Int
  BY <1>1, <1>2, SquareIsNat
<1> QED
  BY <1>3 DEF SquareDist

LEMMA TopIs ==
  ASSUME NEW at \in Points, NEW q \in Seq(Points), Len(q) # 0
  PROVE  /\ Len(q) \in DOMAIN q /\ Last(q) = q[Len(q)] /\ Last(q) \in Points
         /\ Top(q, at) = SquareDist(q[Len(q)], at) /\ Top(q, at) \in Int
<1>1. Len(q) \in Nat /\ Len(q) \in DOMAIN q /\ q[Len(q)] \in Points
  OBVIOUS
<1> QED
  BY <1>1, DistIs DEF Top, Last

LEMMA HeapTop ==
  ASSUME NEW at \in Points, NEW k \in Nat, NEW q, Heap(q, k, at), NEW i \in DOMAIN q
  PROVE  SquareDist(q[i], at) <= Top(q, at) /\ Len(q) # 0 /\ Len(q) \in Nat /\ q[i] \in Points
<1>1. q \in Seq(Points) /\ Len(q) \in Nat /\ i \in 1..Len(q) /\ q[i] \in Points
  BY DEF Heap
<1>2. Len(q) # 0 /\ i <= Len(q)
  BY <1>1
<1>3. Len(q) \in DOMAIN q /\ Top(q, at) = SquareDist(q[Len(q)], at)
  BY <1>1, <1>2, TopIs
<1> QED
  BY <1>1, <1>2, <1>3 DEF Heap, Ordered

LEMMA ShortOf ==
  \A q, r, s, a, b \in Nat : s < q + (a + b) => s < r + b \/ r < q + a
  OBVIOUS

(* One search after another.                                               *)
LEMMA ImprovesTwice ==
  ASSUME NEW at \in Points, NEW k \in Nat \ {0}, NEW q \in Seq(Points), NEW r, NEW s,
         NEW a \in [Points -> Nat], NEW b \in [Points -> Nat],
         Improves(q, r, a, k, at), Improves(r, s, b, k, at)
  PROVE  Improves(q, s, [p \in Points |-> a[p] + b[p]], k, at)
<1>1. /\ r \in Seq(Points) /\ s \in Seq(Points) /\ Heap(s, k, at)
      /\ Len(q) <= Len(r) /\ Len(r) <= Len(s) /\ Len(s) <= k
      /\ Len(q) \in Nat /\ Len(r) \in Nat /\ Len(s) \in Nat
  BY DEF Improves, Heap
<1>2. Len(q) <= Len(s)
  BY <1>1
<1>3. ASSUME Len(r) = k
      PROVE  Len(s) = k /\ Top(s, at) <= Top(r, at) /\ Top(s, at) \in Int /\ Top(r, at) \in Int
  <2>1. Len(s) = k /\ Len(s) # 0 /\ Len(r) # 0
    BY <1>1, <1>3
  <2>2. Top(s, at) \in Int /\ Top(r, at) \in Int
    BY <1>1, <2>1, TopIs
  <2> QED
    BY <1>3, <2>1, <2>2 DEF Improves
<1>4. ASSUME Len(q) = k
      PROVE  Top(s, at) <= Top(q, at)
  <2>1. Len(r) = k /\ Len(q) # 0
    BY <1>1, <1>4
  <2>2. Top(q, at) \in Int /\ Top(r, at) <= Top(q, at)
    BY <1>4, <2>1, TopIs DEF Improves
  <2>3. Top(s, at) <= Top(r, at) /\ Top(s, at) \in Int /\ Top(r, at) \in Int
    BY <1>3, <2>1
  <2> QED
    BY ONLY <2>2, <2>3
<1>5. ASSUME NEW p \in Points
      PROVE  /\ Times(s, p) <= Times(q, p) + (a[p] + b[p])
             /\ Times(s, p) < Times(q, p) + (a[p] + b[p]) => Beyond(p, s, k, at)
  <2>1. Times(q, p) \in Nat /\ Times(r, p) \in Nat /\ Times(s, p) \in Nat
        /\ a[p] \in Nat /\ b[p] \in Nat
    BY <1>1, TimesType
  <2>2. Times(r, p) <= Times(q, p) + a[p] /\ Times(s, p) <= Times(r, p) + b[p]
    BY DEF Improves
  <2>3. ASSUME Times(s, p) < Times(q, p) + (a[p] + b[p])
        PROVE  Beyond(p, s, k, at)
    <3>1. Times(s, p) < Times(r, p) + b[p] \/ Times(r, p) < Times(q, p) + a[p]
      BY ONLY <2>1, <2>3, ShortOf, Zenon
    <3>2. CASE Times(s, p) < Times(r, p) + b[p]
      BY <3>2 DEF Improves
    <3>3. CASE Times(r, p) < Times(q, p) + a[p]
      <4>1. Len(r) = k /\ Top(r, at) <= SquareDist(p, at)
        BY <3>3 DEF Improves, Beyond
      <4>2. SquareDist(p, at) \in Int
        BY DistIs
      <4>3. Len(s) = k /\ Top(s, at) <= Top(r, at) /\ Top(s, at) \in Int /\ Top(r, at) \in Int
        BY <1>3, <4>1
      <4>4. Top(s, at) <= SquareDist(p, at)
        BY ONLY <4>1, <4>2, <4>3
      <4> QED
        BY <4>3, <4>4 DEF Beyond
    <3> QED
      BY <3>1, <3>2, <3>3
  <2>4. Times(s, p) <= Times(q, p) + (a[p] + b[p])
    BY ONLY <2>1, <2>2
  <2> QED
    BY <2>3, <2>4
<1> QED
  BY <1>1, <1>2, <1>4, <1>5 DEF Improves

(* Points beyond a heap may be left out.                                   *)
LEMMA LeftOut ==
  ASSUME NEW at \in Points, NEW k \in Nat \ {0}, NEW q, Heap(q, k, at),
         NEW more \in [Points -> Nat], \A p \in Points : more[p] # 0 => Beyond(p, q, k, at)
  PROVE  Improves(q, q, more, k, at)
<1>1. q \in Seq(Points) /\ Len(q) \in Nat
  BY DEF Heap
<1>2. Len(q) = k => Top(q, at) <= Top(q, at)
  <2>1. Len(q) = k => Top(q, at) \in Int
    BY <1>1, TopIs
  <2> QED
    BY <2>1
<1>3. ASSUME NEW p \in Points
      PROVE  /\ Times(q, p) <= Times(q, p) + more[p]
             /\ Times(q, p) < Times(q, p) + more[p] => Beyond(p, q, k, at)
  <2>1. Times(q, p) \in Nat /\ more[p] \in Nat
    BY <1>1, TimesType
  <2>2. Times(q, p) <= Times(q, p) + more[p] /\ (Times(q, p) < Times(q, p) + more[p] => more[p] # 0)
    BY ONLY <2>1
  <2> QED
    BY <2>2
<1> QED
  BY <1>1, <1>2, <1>3 DEF Improves

(* Where a heap is ordered, the points not farther than some distance are  *)
(* its first ones, as many as there are.                                   *)
LEMMA PrefixIs ==
  ASSUME NEW n \in Nat, NEW S \in SUBSET (1..n), \A i, j \in 1..n : i <= j /\ j \in S => i \in S
  PROVE  Cardinality(S) \in 0..n /\ S = 1..Cardinality(S)
<1>1. ASSUME NEW m \in Nat
      PROVE  IsFiniteSet(1..m) /\ Cardinality(1..m) = m
  <2>1. IsFiniteSet(1..m) /\ Cardinality(1..m) = IF 1 > m THEN 0 ELSE m - 1 + 1
    BY FS_Interval
  <2>2. (IF 1 > m THEN 0 ELSE m - 1 + 1) = m
    OBVIOUS
  <2> QED
    BY <2>1, <2>2
<1>2. CASE S = {}
  <2>1. Cardinality(S) = 0 /\ 1..0 = {}
    BY <1>2, FS_EmptySet
  <2> QED
    BY <1>2, <2>1
<1>3. CASE S # {}
  <2>1. IsFiniteSet(S)
    BY <1>1, FS_Subset
  <2>2. S \in SUBSET Int
    OBVIOUS
  <2>3. Max(S) \in S /\ \A x \in S : x <= Max(S)
    BY <1>3, <2>1, <2>2, MinMax
  <2> DEFINE m == Max(S)
  <2> HIDE DEF m
  <2>4. m \in S /\ m \in 1..n /\ \A x \in S : x <= m
    BY <2>3 DEF m
  <2>5. S = 1..m
    <3>1. \A x \in S : x \in 1..m
      BY <2>4
    <3>2. \A i \in 1..m : i \in 1..n /\ i <= m
      BY <2>4
    <3>3. \A i \in 1..m : i \in S
      BY <2>4, <3>2
    <3> QED
      BY <3>1, <3>3
  <2>6. m \in Nat /\ m \in 0..n
    BY <2>4
  <2>7. Cardinality(S) = m
    BY <1>1, <2>5, <2>6
  <2> QED
    BY <2>5, <2>6, <2>7
<1> QED
  BY <1>2, <1>3

(* A point put behind the first c of a heap.                               *)
Insert(q, p, c) == SubSeq(q, 1, c) \o <<p>> \o SubSeq(q, c + 1, Len(q))

IsInsert(r, q, p, c) ==
  /\ r \in Seq(Points) /\ Len(r) = Len(q) + 1
  /\ \A i \in 1 .. Len(q) + 1 :
       r[i] = IF i <= c THEN q[i] ELSE IF i = c + 1 THEN p ELSE q[i - 1]
  /\ \A x : Times(r, x) = Times(q, x) + One(p = x)

LEMMA InsertIs ==
  ASSUME NEW q \in Seq(Points), NEW p \in Points, NEW c \in 0..Len(q)
  PROVE  IsInsert(Insert(q, p, c), q, p, c)
<1> DEFINE n == Len(q)
           a == SubSeq(q, 1, c)
           b == SubSeq(q, c + 1, n)
<1>1. n \in Nat /\ c \in Int /\ 0 <= c /\ c <= n /\ \A i \in 1..n : q[i] \in Points
  BY LenProperties
<1>2. a \in Seq(Points) /\ Len(a) = c /\ \A i \in 1..c : a[i] = q[i]
  <2>1. \A i \in 1..c : q[i] \in Points
    BY <1>1
  <2>2. /\ a \in Seq(Points) /\ Len(a) = IF 1 <= c THEN c - 1 + 1 ELSE 0
        /\ \A i \in 1 .. c - 1 + 1 : a[i] = q[1 + i - 1]
    BY <1>1, <2>1, SubSeqProperties
  <2> HIDE DEF a
  <2>3. (IF 1 <= c THEN c - 1 + 1 ELSE 0) = c /\ \A i \in 1..c : i \in 1 .. c - 1 + 1 /\ 1 + i - 1 = i
    BY <1>1
  <2> QED
    BY <2>2, <2>3
<1>3. b \in Seq(Points) /\ Len(b) = n - c /\ \A i \in 1 .. n - c : b[i] = q[c + i]
  <2>1. \A i \in c + 1 .. n : q[i] \in Points
    BY <1>1
  <2>2. /\ b \in Seq(Points) /\ Len(b) = IF c + 1 <= n THEN n - (c + 1) + 1 ELSE 0
        /\ \A i \in 1 .. n - (c + 1) + 1 : b[i] = q[c + 1 + i - 1]
    BY <1>1, <2>1, SubSeqProperties
  <2> HIDE DEF b
  <2>3. /\ (IF c + 1 <= n THEN n - (c + 1) + 1 ELSE 0) = n - c
        /\ \A i \in 1 .. n - c : i \in 1 .. n - (c + 1) + 1 /\ c + 1 + i - 1 = c + i
    BY <1>1
  <2> QED
    BY <2>2, <2>3
<1> HIDE DEF a, b, n
<1>4. <<p>> \in Seq(Points) /\ Len(<<p>>) = 1 /\ <<p>>[1] = p
  OBVIOUS
<1>5. /\ a \o <<p>> \in Seq(Points) /\ Len(a \o <<p>>) = c + 1
      /\ \A i \in 1 .. c + 1 : (a \o <<p>>)[i] = IF i <= c THEN q[i] ELSE p
  <2>1. /\ a \o <<p>> \in Seq(Points) /\ Len(a \o <<p>>) = Len(a) + Len(<<p>>)
        /\ \A i \in 1 .. Len(a) + Len(<<p>>) :
             (a \o <<p>>)[i] = IF i <= Len(a) THEN a[i] ELSE <<p>>[i - Len(a)]
    BY <1>2, <1>4, ConcatProperties
  <2> DEFINE y == a \o <<p>>
             z == <<p>>
  <2> HIDE DEF y, z
  <2>2. \A i \in 1 .. c + 1 : y[i] = IF i <= c THEN a[i] ELSE z[i - c]
    BY <1>2, <1>4, <2>1 DEF y, z
  <2>3. \A i \in 1 .. c + 1 : i <= c => i \in 1..c
    BY <1>1
  <2>4. \A i \in 1 .. c + 1 : ~(i <= c) => i - c = 1
    BY <1>1
  <2>5. z[1] = p
    BY <1>4 DEF z
  <2>6. \A i \in 1 .. c + 1 : y[i] = IF i <= c THEN q[i] ELSE p
    BY ONLY <1>2, <2>2, <2>3, <2>4, <2>5
  <2> QED
    BY <1>2, <1>4, <2>1, <2>6 DEF y
<1> DEFINE y == a \o <<p>>
           r == y \o b
<1>6. /\ r \in Seq(Points) /\ Len(r) = Len(y) + Len(b)
      /\ \A i \in 1 .. Len(y) + Len(b) : r[i] = IF i <= Len(y) THEN y[i] ELSE b[i - Len(y)]
  BY <1>3, <1>5, ConcatProperties
<1>7. \A x : Times(r, x) = Times(a, x) + One(p = x) + Times(b, x)
  <2> TAKE x
  <2> DEFINE z == <<p>>
  <2> HIDE DEF z
  <2>1. Times(a \o z \o b, x) = Times(a, x) + Times(z, x) + Times(b, x)
    <3>1. a \in Seq(Points) /\ b \in Seq(Points) /\ z \in Seq(Points)
      BY <1>2, <1>3, <1>4 DEF z
    <3> QED
      BY ONLY <3>1, TimesConcat3
  <2>2. Times(z, x) = One(p = x)
    BY TimesOne DEF z
  <2>3. r = a \o z \o b
    BY DEF z
  <2> HIDE DEF r
  <2> QED
    BY <2>1, <2>2, <2>3
<1>8. \A x : Times(q, x) = Times(a, x) + Times(b, x)
  <2> TAKE x
  <2>1. 1 \in 1..Len(q) + 1 /\ c \in 1 - 1 .. Len(q) /\ n \in c..Len(q)
    BY <1>1 DEF n
  <2>2. SubSeq(q, 1, c) \o SubSeq(q, c + 1, n) = SubSeq(q, 1, n)
    BY <2>1, ConcatAdjacentSubSeq
  <2>3. q = SubSeq(q, 1, n)
    BY SubSeqFull DEF n
  <2>4. q = a \o b
    BY <2>2, <2>3 DEF a, b
  <2> QED
    BY <1>2, <1>3, <2>4, TimesConcat
<1> HIDE DEF y, r
<1>9. /\ y \in Seq(Points) /\ Len(y) = c + 1
      /\ \A i \in 1 .. c + 1 : y[i] = IF i <= c THEN q[i] ELSE p
  BY <1>5 DEF y
<1>10. Len(y) + Len(b) = n + 1
  BY <1>1, <1>3, <1>9
<1>11. ASSUME NEW i \in 1 .. n + 1
       PROVE  r[i] = IF i <= c THEN q[i] ELSE IF i = c + 1 THEN p ELSE q[i - 1]
  <2>1. r[i] = IF i <= c + 1 THEN y[i] ELSE b[i - (c + 1)]
    BY <1>6, <1>9, <1>10
  <2>2. i \in Int /\ 1 <= i /\ i <= n + 1
    BY <1>1
  <2>3. CASE i <= c + 1
    <3>1. i \in 1 .. c + 1
      BY <1>1, <2>2, <2>3
    <3>2. r[i] = IF i <= c THEN q[i] ELSE p
      BY <1>9, <2>1, <2>3, <3>1
    <3>3. ~(i <= c) => i = c + 1
      BY <1>1, <2>2, <2>3
    <3> QED
      BY <3>2, <3>3
  <2>4. CASE ~(i <= c + 1)
    <3>1. i - (c + 1) \in 1 .. n - c /\ c + (i - (c + 1)) = i - 1 /\ ~(i <= c) /\ i # c + 1
      BY <1>1, <2>2, <2>4
    <3>2. b[i - (c + 1)] = q[i - 1]
      BY <1>3, <3>1
    <3> QED
      BY <2>1, <2>4, <3>1, <3>2
  <2> QED
    BY <2>3, <2>4
<1>12. \A x : Times(r, x) = Times(q, x) + One(p = x)
  <2> TAKE x
  <2>1. Times(a, x) \in Nat /\ Times(b, x) \in Nat /\ One(p = x) \in Nat
    BY <1>2, <1>3, TimesType DEF One
  <2>2. Times(r, x) = Times(a, x) + One(p = x) + Times(b, x) /\ Times(q, x) = Times(a, x) + Times(b, x)
    BY <1>7, <1>8
  <2> QED
    BY ONLY <2>1, <2>2
<1>13. Insert(q, p, c) = r
  BY DEF Insert, r, y, a, b, n
<1>14. r \in Seq(Points) /\ Len(r) = n + 1
  BY <1>6, <1>10
<1> QED
  BY ONLY <1>11, <1>12, <1>13, <1>14 DEF n, IsInsert

(* In its place, it leaves the heap ordered.                               *)
LEMMA InsertOrdered ==
  ASSUME NEW at \in Points, NEW q \in Seq(Points), Ordered(q, at), NEW p \in Points, NEW c,
         c = Cardinality({i \in DOMAIN q : SquareDist(q[i], at) <= SquareDist(p, at)})
  PROVE  c \in 0..Len(q) /\ Ordered(Insert(q, p, c), at)
<1> DEFINE n == Len(q)
           g == [i \in 1..n |-> SquareDist(q[i], at)]
           d == SquareDist(p, at)
           S == {i \in 1..n : g[i] <= d}
           r == Insert(q, p, c)
           w == [i \in 1 .. n + 1 |-> SquareDist(r[i], at)]
<1>1. n \in Nat /\ DOMAIN q = 1..n /\ d \in Int
  BY DistIs, LenProperties
<1>2. g \in [1..n -> Int]
  BY <1>1, DistIs
<1>3. \A i, j \in 1..n : i <= j => g[i] <= g[j]
  BY <1>1 DEF Ordered
<1>4. c = Cardinality(S)
  <2>1. S = {i \in DOMAIN q : SquareDist(q[i], at) <= SquareDist(p, at)}
    BY <1>1
  <2> QED
    BY <2>1
<1> HIDE DEF g, d
<1>5. S \in SUBSET (1..n) /\ \A i, j \in 1..n : i <= j /\ j \in S => i \in S
  <2>1. ASSUME NEW i \in 1..n, NEW j \in 1..n, i <= j, g[j] <= d
        PROVE  g[i] <= d
    <3>1. g[i] \in Int /\ g[j] \in Int /\ g[i] <= g[j]
      BY <1>2, <1>3, <2>1
    <3> QED
      BY ONLY <1>1, <2>1, <3>1
  <2> QED
    BY <2>1
<1>6. c \in 0..n /\ S = 1..c
  <2> HIDE DEF n, S
  <2>1. Cardinality(S) \in 0..n /\ S = 1..Cardinality(S)
    BY ONLY <1>1, <1>5, PrefixIs
  <2> QED
    BY <1>4, <2>1
<1>7. \A i \in 1..n : i <= c <=> g[i] <= d
  <2> TAKE i \in 1..n
  <2>1. i \in S <=> g[i] <= d
    OBVIOUS
  <2>2. i \in 1..c <=> i <= c
    BY <1>1, <1>6
  <2> QED
    BY <1>6, <2>1, <2>2
<1> HIDE DEF S
<1>8. r \in Seq(Points) /\ DOMAIN r = 1 .. n + 1
      /\ \A i \in 1 .. n + 1 : r[i] = IF i <= c THEN q[i] ELSE IF i = c + 1 THEN p ELSE q[i - 1]
  <2>1. c \in 0..Len(q)
    BY <1>6
  <2>2. /\ r \in Seq(Points) /\ Len(r) = n + 1
        /\ \A i \in 1 .. n + 1 : r[i] = IF i <= c THEN q[i] ELSE IF i = c + 1 THEN p ELSE q[i - 1]
    <3>1. IsInsert(r, q, p, c)
      BY ONLY <2>1, q \in Seq(Points), p \in Points, InsertIs
    <3> QED
      BY ONLY <3>1 DEF IsInsert
  <2> HIDE DEF r, n
  <2>3. DOMAIN r = 1..Len(r)
    BY <2>2, LenProperties
  <2> QED
    BY <2>2, <2>3
<1> HIDE DEF r, n
<1>9. \A i \in 1 .. n + 1 : /\ i <= c => i \in 1..n
                            /\ i > c + 1 => i - 1 \in 1..n /\ ~(i <= c) /\ i # c + 1 /\ ~(i - 1 <= c)
                            /\ i = c + 1 => ~(i <= c)
                            /\ i <= c \/ i = c + 1 \/ i > c + 1
  BY <1>1, <1>6
<1>10. ASSUME NEW i \in 1 .. n + 1
       PROVE  /\ i <= c => w[i] = g[i]
              /\ i = c + 1 => w[i] = d
              /\ i > c + 1 => w[i] = g[i - 1]
  <2>1. i <= c => r[i] = q[i] /\ g[i] = SquareDist(q[i], at)
    BY <1>8, <1>9 DEF g
  <2>2. i = c + 1 => r[i] = p
    BY <1>8, <1>9
  <2>3. i > c + 1 => r[i] = q[i - 1] /\ g[i - 1] = SquareDist(q[i - 1], at)
    BY <1>8, <1>9 DEF g
  <2> QED
    BY <2>1, <2>2, <2>3 DEF d
<1> HIDE DEF w
<1>11. ASSUME NEW i \in 1 .. n + 1, NEW j \in 1 .. n + 1, i <= j
       PROVE  w[i] <= w[j]
  <2>1. i \in Int /\ j \in Int /\ c \in Int /\ n \in Int
    BY <1>1, <1>6
  <2>2. CASE j <= c
    <3>1. i <= c /\ w[i] = g[i] /\ w[j] = g[j] /\ i \in 1..n /\ j \in 1..n
      BY <1>9, <1>10, <1>11, <2>1, <2>2
    <3> QED
      BY <1>3, <1>11, <3>1
  <2>3. CASE i <= c /\ j = c + 1
    BY <1>7, <1>9, <1>10, <2>3
  <2>4. CASE i <= c /\ j > c + 1
    <3>1. w[i] = g[i] /\ w[j] = g[j - 1] /\ i \in 1..n /\ j - 1 \in 1..n
      BY <1>9, <1>10, <2>4
    <3>2. i <= j - 1
      BY <2>1, <2>4
    <3> QED
      BY <1>3, <3>1, <3>2
  <2>5. CASE i = c + 1 /\ j = c + 1
    BY <1>1, <1>10, <2>5
  <2>6. CASE i = c + 1 /\ j > c + 1
    <3>1. w[i] = d /\ w[j] = g[j - 1] /\ j - 1 \in 1..n /\ ~(j - 1 <= c)
      BY <1>9, <1>10, <2>6
    <3>2. ~(g[j - 1] <= d) /\ g[j - 1] \in Int
      BY <1>2, <1>7, <3>1
    <3> QED
      BY ONLY <1>1, <3>1, <3>2
  <2>7. CASE i > c + 1 /\ j > c + 1
    <3>1. w[i] = g[i - 1] /\ w[j] = g[j - 1] /\ i - 1 \in 1..n /\ j - 1 \in 1..n
      BY <1>9, <1>10, <2>7
    <3>2. i - 1 <= j - 1
      BY <1>11, <2>1
    <3> QED
      BY <1>3, <3>1, <3>2
  <2>8. \/ j <= c \/ (i <= c /\ j = c + 1) \/ (i <= c /\ j > c + 1)
        \/ (i = c + 1 /\ j = c + 1) \/ (i = c + 1 /\ j > c + 1) \/ (i > c + 1 /\ j > c + 1)
    BY ONLY <1>11, <2>1
  <2> QED
    BY <2>2, <2>3, <2>4, <2>5, <2>6, <2>7, <2>8
<1>12. Ordered(r, at)
  BY <1>8, <1>11 DEF Ordered, w
<1> QED
  BY <1>6, <1>12 DEF r, n

(* A heap without its top.                                                 *)
LEMMA FrontIs ==
  ASSUME NEW at \in Points, NEW k \in Nat, NEW q, Heap(q, k, at), Len(q) # 0
  PROVE  /\ Front(q) \in Seq(Points) /\ Len(Front(q)) + 1 = Len(q) /\ Ordered(Front(q), at)
         /\ \A i \in DOMAIN Front(q) : i \in DOMAIN q /\ Front(q)[i] = q[i]
         /\ \A x : Times(q, x) = Times(Front(q), x) + One(Last(q) = x)
<1> DEFINE n == Len(q)
           f == Front(q)
<1>1. q \in Seq(Points) /\ n \in Nat /\ n # 0 /\ DOMAIN q = 1..n /\ \A i \in 1..n : q[i] \in Points
  BY LenProperties DEF Heap
<1>2. f = SubSeq(q, 1, n - 1)
  BY DEF Front
<1>3. f \in Seq(Points) /\ Len(f) = n - 1 /\ \A i \in 1 .. n - 1 : f[i] = q[i]
  <2>1. \A i \in 1 .. n - 1 : q[i] \in Points
    BY <1>1
  <2>2. /\ f \in Seq(Points) /\ Len(f) = IF 1 <= n - 1 THEN (n - 1) - 1 + 1 ELSE 0
        /\ \A i \in 1 .. (n - 1) - 1 + 1 : f[i] = q[1 + i - 1]
    BY <1>1, <1>2, <2>1, SubSeqProperties
  <2> HIDE DEF f, n
  <2>3. /\ (IF 1 <= n - 1 THEN (n - 1) - 1 + 1 ELSE 0) = n - 1
        /\ \A i \in 1 .. n - 1 : i \in 1 .. (n - 1) - 1 + 1 /\ 1 + i - 1 = i
    BY <1>1
  <2> QED
    BY <2>2, <2>3
<1>4. \A x : Times(q, x) = Times(f, x) + One(Last(q) = x)
  <2> TAKE x
  <2>1. n \in 1..Len(q) /\ Last(q) = q[n]
    BY <1>1 DEF Last
  <2>2. Times(q, x) = Times(SubSeq(q, 1, n - 1), x) + One(q[n] = x) + Times(SubSeq(q, n + 1, n), x)
    BY <1>1, <2>1, TimesSplit
  <2>3. SubSeq(q, n + 1, n) = <<>>
    BY <1>1, SubSeqEmpty
  <2>4. Times(SubSeq(q, n + 1, n), x) = 0
    BY <2>3, TimesEmpty
  <2>5. Times(f, x) \in Nat /\ One(q[n] = x) \in Nat
    BY <1>3, TimesType DEF One
  <2> HIDE DEF f, n
  <2> QED
    BY <1>2, <2>1, <2>2, <2>4, <2>5
<1> HIDE DEF f
<1>5. DOMAIN f = 1 .. n - 1 /\ \A i \in DOMAIN f : i \in DOMAIN q /\ f[i] = q[i]
  BY <1>1, <1>3
<1>6. Ordered(f, at)
  BY <1>5 DEF Ordered, Heap
<1> QED
  BY <1>1, <1>3, <1>4, <1>5, <1>6 DEF f

(* A node's point is taken into the heap, or is beyond it.                 *)
LEMMA KeepClosestImproves ==
  ASSUME NEW at \in Points, NEW k \in Nat \ {0}, NEW q, Heap(q, k, at), NEW p \in Points
  PROVE  Improves(q, KeepClosest(q, p, k, at), [x \in Points |-> One(p = x)], k, at)
<1> DEFINE d == SquareDist(p, at)
           rest == IF Len(q) >= k THEN Front(q) ELSE q
           c == Cardinality({i \in DOMAIN rest : SquareDist(rest[i], at) <= d})
           r == Insert(rest, p, c)
           more == [x \in Points |-> One(p = x)]
<1>1. q \in Seq(Points) /\ Len(q) \in Nat /\ Len(q) <= k /\ d \in Int /\ Ordered(q, at)
  BY DistIs DEF Heap
<1>2. KeepClosest(q, p, k, at) = IF Len(q) < k \/ d < Top(q, at) THEN r ELSE q
  BY DEF KeepClosest, Insert
<1>3. more \in [Points -> Nat] /\ \A x \in Points : more[x] = One(p = x)
  BY DEF One
<1>4. ASSUME ~(Len(q) < k \/ d < Top(q, at))
      PROVE  Improves(q, q, more, k, at)
  <2>1. Len(q) = k /\ Len(q) # 0
    BY <1>1, <1>4
  <2>2. Top(q, at) \in Int
    BY <1>1, <2>1, TopIs
  <2>3. Top(q, at) <= d
    BY ONLY <1>1, <1>4, <2>2
  <2>4. \A x \in Points : more[x] # 0 => Beyond(x, q, k, at)
    <3> TAKE x \in Points
    <3>1. more[x] # 0 => p = x
      BY <1>3 DEF One
    <3> QED
      BY <2>1, <2>3, <3>1 DEF Beyond
  <2> HIDE DEF more
  <2> QED
    BY <1>3, <2>4, LeftOut
<1>5. ASSUME NEW f \in Seq(Points), Ordered(f, at), rest = f
      PROVE  c \in 0..Len(f) /\ Ordered(r, at) /\ IsInsert(r, f, p, c)
  <2>1. c = Cardinality({i \in DOMAIN f : SquareDist(f[i], at) <= SquareDist(p, at)})
    BY <1>5
  <2>2. r = Insert(f, p, c)
    BY <1>5
  <2> HIDE DEF c, r, rest
  <2>3. c \in 0..Len(f) /\ Ordered(Insert(f, p, c), at)
    BY <1>5, <2>1, InsertOrdered
  <2>4. IsInsert(Insert(f, p, c), f, p, c)
    BY ONLY f \in Seq(Points), <2>3, p \in Points, InsertIs
  <2> QED
    BY ONLY <2>2, <2>3, <2>4
<1> HIDE DEF r, c, d, more
<1>6. ASSUME Len(q) < k
      PROVE  Improves(q, r, more, k, at)
  <2>1. rest = q
    BY <1>1, <1>6
  <2> HIDE DEF rest
  <2>2. /\ r \in Seq(Points) /\ Len(r) = Len(q) + 1 /\ Ordered(r, at)
        /\ \A x : Times(r, x) = Times(q, x) + One(p = x)
    BY <1>1, <1>5, <2>1 DEF IsInsert
  <2>3. Len(r) <= k /\ Len(q) <= Len(r) /\ Len(q) # k
    BY <1>1, <1>6, <2>2
  <2>4. ASSUME NEW x \in Points
        PROVE  /\ Times(r, x) <= Times(q, x) + more[x]
               /\ ~(Times(r, x) < Times(q, x) + more[x])
    <3>1. Times(r, x) = Times(q, x) + more[x] /\ Times(r, x) \in Nat
      BY <1>3, <2>2, TimesType
    <3> QED
      BY ONLY <3>1
  <2> QED
    BY <2>2, <2>3, <2>4 DEF Improves, Heap
<1>7. ASSUME Len(q) = k, d < Top(q, at)
      PROVE  Improves(q, r, more, k, at)
  <2>1. rest = Front(q) /\ Len(q) # 0
    BY <1>1, <1>7
  <2> HIDE DEF rest
  <2> DEFINE f == Front(q)
             T == Top(q, at)
  <2>2. /\ f \in Seq(Points) /\ Len(f) + 1 = k /\ Ordered(f, at)
        /\ \A i \in DOMAIN f : i \in DOMAIN q /\ f[i] = q[i]
        /\ \A x : Times(q, x) = Times(f, x) + One(Last(q) = x)
    BY <1>7, <2>1, FrontIs
  <2>3. T \in Int /\ Last(q) \in Points /\ T = SquareDist(Last(q), at)
    BY <1>1, <2>1, TopIs DEF Top
  <2>4. \A i \in DOMAIN f : SquareDist(f[i], at) <= T
    BY <2>2, HeapTop
  <2> HIDE DEF f, T
  <2>5. /\ c \in 0..Len(f) /\ r \in Seq(Points) /\ Len(r) = Len(f) + 1 /\ Ordered(r, at)
        /\ \A i \in 1 .. Len(f) + 1 :
             r[i] = IF i <= c THEN f[i] ELSE IF i = c + 1 THEN p ELSE f[i - 1]
        /\ \A x : Times(r, x) = Times(f, x) + One(p = x)
    BY <1>5, <2>1, <2>2 DEF f, IsInsert
  <2>6. Len(r) = k /\ Len(q) <= Len(r) /\ Len(r) <= k
    BY <1>1, <1>7, <2>2, <2>5
  <2>7. Top(r, at) <= T /\ Top(r, at) \in Int
    <3>1. Len(r) # 0 /\ Len(r) = k
      BY <2>6
    <3>2. Top(r, at) = SquareDist(r[k], at) /\ Top(r, at) \in Int
      BY <2>5, <3>1, TopIs
    <3>3. r[k] = IF k <= c THEN f[k] ELSE IF k = c + 1 THEN p ELSE f[k - 1]
      BY <2>2, <2>5
    <3>4. Len(f) \in Nat /\ DOMAIN f = 1..Len(f)
      BY <2>2, LenProperties
    <3>5. k \in Int /\ c \in Int /\ c <= Len(f) /\ 0 <= c /\ Len(f) + 1 = k
      BY <2>2, <2>5, <3>4
    <3>6. ~(k <= c) /\ (k # c + 1 => k - 1 \in DOMAIN f)
      BY ONLY <3>4, <3>5
    <3>7. SquareDist(r[k], at) <= T
      <4>1. CASE k = c + 1
        <5>1. r[k] = p
          BY <3>3, <3>6, <4>1
        <5>2. d <= T
          BY <1>1, <1>7, <2>3 DEF T
        <5> QED
          BY <5>1, <5>2 DEF d
      <4>2. CASE k # c + 1
        BY <2>4, <3>3, <3>6, <4>2
      <4> QED
        BY <4>1, <4>2
    <3> QED
      BY <3>2, <3>7
  <2>8. ASSUME NEW x \in Points
        PROVE  /\ Times(r, x) <= Times(q, x) + more[x]
               /\ Times(r, x) < Times(q, x) + more[x] => Beyond(x, r, k, at)
    <3> DEFINE o == One(Last(q) = x)
    <3>1. Times(f, x) \in Nat /\ more[x] \in Nat /\ o \in Nat
      BY <1>3, <2>2, TimesType DEF One
    <3>2. Times(r, x) = Times(f, x) + more[x] /\ Times(q, x) = Times(f, x) + o
      BY <1>3, <2>2, <2>5
    <3>3. o # 0 => Last(q) = x
      BY DEF One
    <3>4. Last(q) = x => Beyond(x, r, k, at)
      BY <2>3, <2>6, <2>7 DEF Beyond
    <3> HIDE DEF o
    <3> DEFINE tf == Times(f, x)
               m == more[x]
    <3>5. tf \in Nat /\ m \in Nat
      BY <3>1
    <3> HIDE DEF tf, m
    <3>6. tf + m <= (tf + o) + m /\ (tf + m < (tf + o) + m => o # 0)
      BY ONLY <3>1, <3>5
    <3>7. Times(r, x) = tf + m /\ Times(q, x) + more[x] = (tf + o) + m
      BY <3>2 DEF tf, m
    <3> QED
      BY ONLY <3>3, <3>4, <3>6, <3>7
  <2>9. Len(q) = k => Top(r, at) <= Top(q, at)
    BY <2>7 DEF T
  <2> QED
    BY <2>5, <2>6, <2>8, <2>9 DEF Improves, Heap
<1>8. CASE Len(q) < k \/ d < Top(q, at)
  <2>1. Len(q) < k \/ Len(q) = k
    BY <1>1
  <2>2. Improves(q, r, more, k, at)
    BY <1>6, <1>7, <1>8, <2>1
  <2> QED
    BY <1>2, <1>8, <2>2 DEF more
<1>9. CASE ~(Len(q) < k \/ d < Top(q, at))
  <2>1. Improves(q, q, more, k, at)
    BY <1>4, <1>9
  <2> QED
    BY <1>2, <1>9, <2>1 DEF more
<1> QED
  BY <1>8, <1>9

(* The distance to the range of a node is not above that to its points.    *)
LEMMA PairMinMax ==
  ASSUME NEW x \in Int, NEW y \in Int
  PROVE  /\ Min({x, y}) \in {x, y} /\ Min({x, y}) <= x /\ Min({x, y}) <= y
         /\ Max({x, y}) \in {x, y} /\ x <= Max({x, y}) /\ y <= Max({x, y})
<1>1. {x, y} \in SUBSET Int /\ {x, y} # {}
  OBVIOUS
<1>2. IsFiniteSet({x, y})
  <2>1. IsFiniteSet({x}) /\ IsFiniteSet({y})
    BY FS_Singleton
  <2>2. IsFiniteSet({x} \cup {y})
    BY <2>1, FS_Union
  <2>3. {x, y} = {x} \cup {y}
    OBVIOUS
  <2> QED
    BY <2>2, <2>3
<1> DEFINE S == {x, y}
<1>3. S \in SUBSET Int /\ IsFiniteSet(S) /\ S # {} /\ x \in S /\ y \in S
  BY <1>1, <1>2
<1> HIDE DEF S
<1>4. /\ Min(S) \in S /\ \A z \in S : Min(S) <= z
      /\ Max(S) \in S /\ \A z \in S : z <= Max(S)
  BY <1>3, MinMax
<1>5. Min(S) <= x /\ Min(S) <= y /\ x <= Max(S) /\ y <= Max(S)
  BY <1>3, <1>4
<1> QED
  BY <1>4, <1>5 DEF S

LEMMA NotFarther ==
  ASSUME NEW x \in Int, NEW p \in Int, NEW lo \in Int, NEW hi \in Int, NEW m \in Int, NEW c \in Int,
         lo <= p, p <= hi, m = x \/ m = hi, m <= x, m <= hi, c = lo \/ c = m, lo <= c, m <= c
  PROVE  (x - c) * (x - c) <= (x - p) * (x - p)
<1>1. ASSUME NEW e \in Nat, NEW g \in Nat, e <= g
      PROVE  e * e <= g * g
  BY <1>1
<1>2. CASE x < lo
  <2>1. c = lo
    BY <1>2
  <2>2. lo - x \in Nat /\ p - x \in Nat /\ lo - x <= p - x
    BY <1>2
  <2>3. (lo - x) * (lo - x) <= (p - x) * (p - x)
    BY ONLY <1>1, <2>2
  <2>4. (lo - x) * (lo - x) = (x - lo) * (x - lo) /\ (p - x) * (p - x) = (x - p) * (x - p)
    OBVIOUS
  <2> QED
    BY ONLY <2>1, <2>3, <2>4
<1>3. CASE x > hi
  <2>1. c = hi
    BY <1>3
  <2>2. x - hi \in Nat /\ x - p \in Nat /\ x - hi <= x - p
    BY <1>3
  <2>3. (x - hi) * (x - hi) <= (x - p) * (x - p)
    BY ONLY <1>1, <2>2
  <2> QED
    BY ONLY <2>1, <2>3
<1>4. CASE lo <= x /\ x <= hi
  <2>1. x - c = 0
    BY <1>4
  <2>2. x - p \in Int
    OBVIOUS
  <2>3. \A y \in Int : 0 * 0 <= y * y
    OBVIOUS
  <2> QED
    BY ONLY <2>1, <2>2, <2>3
<1> QED
  BY <1>2, <1>3, <1>4

LEMMA BoxDistBelow ==
  ASSUME AnyHeight, NEW n \in TreeNodes, Within(n), NEW p \in Points, Held(n, p) # 0,
         NEW at \in Points
  PROVE  calc_box_dist(n, at) \in Int /\ calc_box_dist(n, at) <= SquareDist(p, at)
<1> DEFINE m(a) == Min({at[a], n.hi[a]})
           c(a) == Max({n.lo[a], m(a)})
           e(a) == Square(at[a] - c(a))
           g(a) == Square(at[a] - p[a])
<1>1. n # None
  BY NoneIsNoNode
<1>2. calc_box_dist(n, at) = SquareDist(at, [a \in Axes |-> c(a)])
  BY <1>1 DEF calc_box_dist
<1>3. \A a \in Axes : at[a] \in Int /\ p[a] \in Int /\ n.lo[a] \in Int /\ n.hi[a] \in Int
  BY TreeAssumption DEF TreeNodes, NodesOver
<1>4. \A a \in Axes : n.lo[a] <= p[a] /\ p[a] <= n.hi[a]
  BY DEF Within
<1>5. ASSUME NEW a \in Axes
      PROVE  c(a) \in Int /\ e(a) <= g(a) /\ e(a) \in Int /\ g(a) \in Int
  <2>1. /\ m(a) \in {at[a], n.hi[a]} /\ m(a) <= at[a] /\ m(a) <= n.hi[a]
    BY <1>3, PairMinMax
  <2>2. m(a) \in Int
    BY <1>3, <2>1
  <2> DEFINE y == m(a)
             z == c(a)
  <2> HIDE DEF m
  <2>3. z \in {n.lo[a], y} /\ n.lo[a] <= z /\ y <= z
    BY <1>3, <2>2, PairMinMax
  <2> HIDE DEF c
  <2> HIDE DEF y, z
  <2>4. y \in Int /\ z \in Int /\ (y = at[a] \/ y = n.hi[a]) /\ y <= at[a] /\ y <= n.hi[a]
        /\ (z = n.lo[a] \/ z = y) /\ n.lo[a] <= z /\ y <= z
    BY <1>3, <2>1, <2>2, <2>3 DEF y
  <2>5. (at[a] - z) * (at[a] - z) <= (at[a] - p[a]) * (at[a] - p[a])
    BY <1>3, <1>4, <2>4, NotFarther
  <2>6. e(a) = (at[a] - z) * (at[a] - z) /\ g(a) = (at[a] - p[a]) * (at[a] - p[a])
    BY DEF Square, z
  <2>7. e(a) \in Int /\ g(a) \in Int
    BY <1>3, <2>4, <2>6
  <2> QED
    BY <2>4, <2>5, <2>6, <2>7 DEF z
<1>6. 1 \in Axes /\ 2 \in Axes /\ 3 \in Axes
  BY DEF Axes
<1>7. SquareDist(at, [a \in Axes |-> c(a)]) = e(1) + e(2) + e(3)
  <2> HIDE DEF c
  <2> QED
    BY <1>6 DEF SquareDist
<1>8. SquareDist(p, at) = g(1) + g(2) + g(3)
  <2>1. \A x, y \in Int : Square(x - y) = Square(y - x)
    BY DEF Square
  <2>2. \A a \in Axes : Square(p[a] - at[a]) = g(a)
    BY <1>3, <2>1
  <2> HIDE DEF g
  <2> QED
    BY <1>6, <2>2 DEF SquareDist
<1> HIDE DEF e, g, c
<1>9. /\ e(1) \in Int /\ e(2) \in Int /\ e(3) \in Int /\ g(1) \in Int /\ g(2) \in Int /\ g(3) \in Int
      /\ e(1) <= g(1) /\ e(2) <= g(2) /\ e(3) <= g(3)
  BY <1>5, <1>6
<1> QED
  BY ONLY <1>2, <1>7, <1>8, <1>9

(* A son is searched, or holds nothing that could improve the heap.        *)
HeldIn(t) == [p \in Points |-> Held(t, p)]

LEMMA EnterImproves ==
  ASSUME AnyHeight, NEW n \in TreeNodes, NEW s \in Side, NEW at \in Points, NEW k \in Nat \ {0},
         NEW h, Heap(h, k, at), n.son[s] # None => Within(n.son[s]), NEW v,
         Improves(h, v[h].q, HeldIn(n.son[s]), k, at)
  PROVE  Improves(h, Enter(n, v, s, h, k, at).q, HeldIn(n.son[s]), k, at)
<1> DEFINE m == n.son[s]
           d == calc_box_dist(m, at)
<1>1. m \in Trees
  BY DEF TreeNodes, NodesOver
<1>2. Enter(n, v, s, h, k, at) = IF WorthVisiting(h, k, d, at) THEN v[h] ELSE [tree |-> m, q |-> h]
  BY DEF Enter
<1>3. CASE WorthVisiting(h, k, d, at)
  BY <1>2, <1>3
<1>4. CASE ~WorthVisiting(h, k, d, at)
  <2>1. h \in Seq(Points) /\ Len(h) \in Nat /\ Len(h) <= k
    BY DEF Heap
  <2>2. ~(Len(h) < k) /\ ~(d < Top(h, at))
    BY <1>4 DEF WorthVisiting
  <2>3. Len(h) = k /\ Len(h) # 0
    BY <2>1, <2>2
  <2>4. Top(h, at) \in Int
    BY <2>1, <2>3, TopIs
  <2>5. HeldIn(m) \in [Points -> Nat]
    BY <1>1, HeldIs DEF HeldIn
  <2>6. ASSUME NEW p \in Points, HeldIn(m)[p] # 0
        PROVE  Beyond(p, h, k, at)
    <3>1. Held(m, p) # 0
      BY <2>6 DEF HeldIn
    <3>2. m # None
      BY <3>1, HeldIs
    <3>3. m \in TreeNodes /\ Within(m)
      BY <1>1, <3>2, TreesAre
    <3> HIDE DEF m
    <3>4. d \in Int /\ d <= SquareDist(p, at)
      BY <3>1, <3>3, BoxDistBelow
    <3>5. SquareDist(p, at) \in Int
      BY DistIs
    <3> HIDE DEF d
    <3>6. Top(h, at) <= SquareDist(p, at)
      BY ONLY <2>2, <2>4, <3>4, <3>5
    <3> QED
      BY <2>3, <3>6 DEF Beyond
  <2>7. Improves(h, h, HeldIn(m), k, at)
    <3> HIDE DEF m
    <3> QED
      BY <2>5, <2>6, LeftOut
  <2>8. Enter(n, v, s, h, k, at).q = h
    BY <1>2, <1>4
  <2> QED
    BY <2>7, <2>8
<1> QED
  BY <1>3, <1>4

(* A node is searched: its point, its nearer son and then the other one.   *)
LEMMA VisitImproves ==
  ASSUME AnyHeight, NEW t \in TreeNodes, Sound(t), NEW at \in Points, NEW k \in Nat \ {0},
         NEW q, Heap(q, k, at), NEW v,
         \A s \in Side : \A h : Heap(h, k, at) => Improves(h, v[s][h].q, HeldIn(Son(t, s)), k, at)
  PROVE  Improves(q, VisitIn(Push_Down(t), v, q, k, at).q, HeldIn(t), k, at)
<1> DEFINE n == Push_Down(t)
           q0 == IF n.point_deleted THEN q ELSE KeepClosest(q, n.point, k, at)
           s == Nearer(n, q0, k, at)
           o == Other(s)
           a == Enter(n, v[s], s, q0, k, at)
           b == Enter(n, v[o], o, a.q, k, at)
           own == [p \in Points |-> One(~n.point_deleted /\ n.point = p)]
           S(x) == HeldIn(Son(t, x))
<1>1. /\ n \in TreeNodes /\ SamePoints(t, n)
      /\ \A x \in Side : Sound(Son(t, x)) /\ n.son[x] = Son(t, x) /\ Son(n, x) = Son(t, x)
  BY PushDownSound
<1>2. VisitIn(n, v, q, k, at).q = b.q
  BY DEF VisitIn
<1>3. s \in Side /\ o \in Side /\ o # s
  BY SidesAre DEF Nearer, Side
<1> HIDE DEF s, o
<1>4. ASSUME NEW x \in Side
      PROVE  /\ S(x) \in [Points -> Nat]
             /\ n.son[x] # None => Within(n.son[x])
  <2>1. Son(t, x) \in Trees /\ Fits(Son(t, x))
    BY <1>1 DEF Sound
  <2>2. S(x) \in [Points -> Nat]
    BY <2>1, HeldIs DEF HeldIn
  <2>3. n.son[x] = Son(t, x)
    BY <1>1
  <2>4. Son(t, x) # None => Within(Son(t, x))
    BY <2>1, TreesAre, FitsIs
  <2> QED
    BY <2>2, <2>3, <2>4
<1>5. own \in [Points -> Nat]
  BY DEF One
<1>6. n.point \in Points /\ n.point_deleted \in BOOLEAN
  BY <1>1 DEF TreeNodes, NodesOver
<1> HIDE DEF n
<1>7. Improves(q, q0, own, k, at)
  <2>1. CASE n.point_deleted
    <3>1. \A p \in Points : own[p] = 0
      BY <2>1 DEF One
    <3> HIDE DEF own
    <3>2. Improves(q, q, own, k, at)
      BY <1>5, <3>1, LeftOut
    <3> QED
      BY <2>1, <3>2
  <2>2. CASE ~n.point_deleted
    <3>1. own = [p \in Points |-> One(n.point = p)]
      BY <2>2 DEF One
    <3> HIDE DEF own
    <3>2. Improves(q, KeepClosest(q, n.point, k, at), own, k, at)
      BY <1>6, <3>1, KeepClosestImproves
    <3> QED
      BY <2>2, <3>2
  <2> QED
    BY <2>1, <2>2
<1> HIDE DEF own, q0, S
<1>8. ASSUME NEW x \in Side, NEW h, Heap(h, k, at)
      PROVE  Improves(h, Enter(n, v[x], x, h, k, at).q, S(x), k, at)
  <2>1. S(x) = HeldIn(n.son[x])
    BY <1>1 DEF S, n
  <2>2. Improves(h, v[x][h].q, S(x), k, at)
    BY <1>8 DEF S
  <2>3. n \in TreeNodes /\ (n.son[x] # None => Within(n.son[x]))
    BY <1>1, <1>4 DEF n
  <2> DEFINE w == v[x]
  <2>4. Improves(h, w[h].q, HeldIn(n.son[x]), k, at)
    BY <2>1, <2>2
  <2> HIDE DEF w
  <2>5. Improves(h, Enter(n, w, x, h, k, at).q, HeldIn(n.son[x]), k, at)
    BY <1>8, <2>3, <2>4, EnterImproves
  <2> QED
    BY <2>1, <2>5 DEF w
<1>9. Heap(q0, k, at) /\ Improves(q0, a.q, S(s), k, at)
  BY <1>3, <1>7, <1>8 DEF Improves
<1> HIDE DEF a
<1>10. Heap(a.q, k, at) /\ Improves(a.q, b.q, S(o), k, at)
  BY <1>3, <1>8, <1>9 DEF Improves
<1> HIDE DEF b
<1>11. q \in Seq(Points) /\ S(s) \in [Points -> Nat] /\ S(o) \in [Points -> Nat]
  BY <1>3, <1>4 DEF Heap
<1> DEFINE f == [p \in Points |-> own[p] + S(s)[p]]
<1>12. Improves(q, a.q, f, k, at)
  <2> DEFINE u == S(s)
  <2>1. Improves(q0, a.q, u, k, at) /\ u \in [Points -> Nat]
    BY <1>9, <1>11
  <2> HIDE DEF u
  <2>2. Improves(q, a.q, [p \in Points |-> own[p] + u[p]], k, at)
    BY <1>5, <1>7, <1>11, <2>1, ImprovesTwice
  <2> QED
    BY <2>2 DEF u
<1>13. f \in [Points -> Nat]
  <2>1. \A p \in Points : own[p] \in Nat /\ S(s)[p] \in Nat
    BY <1>5, <1>11
  <2>2. \A x, y \in Nat : x + y \in Nat
    OBVIOUS
  <2> QED
    BY <2>1, <2>2
<1>14. HeldIn(t) = [p \in Points |-> f[p] + S(o)[p]]
  <2>1. ASSUME NEW p \in Points
        PROVE  Held(t, p) = f[p] + S(o)[p]
    <3>1. Held(t, p) = Held(n, p)
      BY <1>1 DEF SamePoints, n
    <3>2. Held(n, p) = One(~n.point_deleted /\ n.point = p)
                       + Held(Son(n, "left"), p) + Held(Son(n, "right"), p)
      BY <1>1, HeldIs DEF n
    <3>3. \A x \in Side : S(x)[p] = Held(Son(n, x), p) /\ S(x)[p] \in Nat
      BY <1>1, <1>4 DEF S, HeldIn, n
    <3>4. own[p] = One(~n.point_deleted /\ n.point = p) /\ own[p] \in Nat
      BY <1>5 DEF own
    <3>5. Held(t, p) = own[p] + S("left")[p] + S("right")[p]
      BY <3>1, <3>2, <3>3, <3>4 DEF Side
    <3>6. f[p] = own[p] + S(s)[p]
      OBVIOUS
    <3>7. (s = "left" /\ o = "right") \/ (s = "right" /\ o = "left")
      BY <1>3 DEF Side
    <3> DEFINE l == S("left")[p]
               r == S("right")[p]
               w == own[p]
    <3>8. l \in Nat /\ r \in Nat /\ w \in Nat
      BY <3>3, <3>4 DEF Side
    <3>9. Held(t, p) = w + l + r
      BY <3>5
    <3>10. f[p] + S(o)[p] = w + l + r \/ f[p] + S(o)[p] = w + r + l
      BY <3>6, <3>7
    <3> HIDE DEF l, r, w, f
    <3>11. w + l + r = w + r + l
      BY ONLY <3>8
    <3> QED
      BY ONLY <3>9, <3>10, <3>11
  <2> HIDE DEF f
  <2> QED
    BY <2>1 DEF HeldIn
<1> HIDE DEF f
<1>15. Improves(q, b.q, [p \in Points |-> f[p] + S(o)[p]], k, at)
  <2> DEFINE u == S(o)
  <2>1. Improves(a.q, b.q, u, k, at) /\ u \in [Points -> Nat]
    BY <1>10, <1>11
  <2> HIDE DEF u
  <2>2. Improves(q, b.q, [p \in Points |-> f[p] + u[p]], k, at)
    BY <1>11, <1>12, <1>13, <2>1, ImprovesTwice
  <2> QED
    BY <2>2 DEF u
<1> QED
  BY <1>2, <1>14, <1>15 DEF n

LEMMA SearchImproves ==
  ASSUME AnyHeight, NEW at \in Points, NEW k \in Nat \ {0}
  PROVE  \A t \in Trees : Sound(t) =>
           \A q : Heap(q, k, at) => Improves(q, Search(t, k, at, q).q, HeldIn(t), k, at)
<1> DEFINE S == {t \in Trees : Sound(t) => \A q : Heap(q, k, at) =>
                   Improves(q, Search(t, k, at, q).q, HeldIn(t), k, at)}
<1>1. ASSUME NEW t \in Trees, \A p \in Points : Held(t, p) = 0, NEW q, Heap(q, k, at)
      PROVE  Improves(q, q, HeldIn(t), k, at)
  <2>1. HeldIn(t) \in [Points -> Nat] /\ \A p \in Points : HeldIn(t)[p] = 0
    BY <1>1 DEF HeldIn
  <2> QED
    BY <1>1, <2>1, LeftOut
<1>2. None \in S
  <2>1. None \in Trees /\ \A p \in Points : Held(None, p) = 0
    BY TreesAre, HeldIs
  <2>2. ASSUME NEW q, Heap(q, k, at)
        PROVE  Improves(q, Search(None, k, at, q).q, HeldIn(None), k, at)
    <3>1. Search(None, k, at, q) = [tree |-> None, q |-> q]
      BY <2>2, SearchIs DEF Heap
    <3>2. Search(None, k, at, q).q = q
      BY ONLY <3>1, SMT
    <3>3. Improves(q, q, HeldIn(None), k, at)
      BY ONLY <1>1, <2>1, <2>2
    <3> QED
      BY ONLY <3>2, <3>3
  <2> QED
    BY <2>1, <2>2
<1>3. ASSUME NEW t \in TreeNodes, \A s \in Side : Son(t, s) \in S
      PROVE  t \in S
  <2> SUFFICES ASSUME Sound(t), NEW q, Heap(q, k, at)
               PROVE  Improves(q, Search(t, k, at, q).q, HeldIn(t), k, at)
    BY TreesAre
  <2>1. q \in Seq(Points)
    BY DEF Heap
  <2>2. Searched(t, k, at, q)
    BY ONLY AnyHeight, k \in Nat \ {0}, t \in TreeNodes, <2>1, SearchIs
  <2>3. CASE t.tree_deleted
    <3>1. Search(t, k, at, q) = [tree |-> t, q |-> q]
      BY <2>2, <2>3 DEF Searched
    <3>2. Search(t, k, at, q).q = q
      BY ONLY <3>1, SMT
    <3>3. \A p \in Points : Held(t, p) = 0
      <4>1. AllExact(t) /\ t \in Trees /\ t # None
        BY NoneIsNoNode DEF Sound
      <4>2. Gone(t) = Size(t)
        BY <2>3, <4>1, CountsAre
      <4> QED
        BY <4>1, <4>2, DeletedHolds DEF Emptied
    <3>4. Improves(q, q, HeldIn(t), k, at)
      BY <1>1, <3>3, TreesAre
    <3> QED
      BY ONLY <3>2, <3>4
  <2>4. CASE ~t.tree_deleted
    <3> DEFINE v == SonSearches(t, k, at)
    <3>1. Search(t, k, at, q) = VisitIn(Push_Down(t), v, q, k, at)
      BY <2>2, <2>4 DEF Searched
    <3>2. ASSUME NEW s \in Side, NEW h, Heap(h, k, at)
          PROVE  Improves(h, v[s][h].q, HeldIn(Son(t, s)), k, at)
      <4>1. v[s][h] = Search(Son(t, s), k, at, h)
        BY <3>2 DEF SonSearches, Heap
      <4>2. Sound(Son(t, s))
        BY PushDownSound
      <4> QED
        BY <1>3, <3>2, <4>1, <4>2
    <3> HIDE DEF v
    <3>3. Improves(q, VisitIn(Push_Down(t), v, q, k, at).q, HeldIn(t), k, at)
      BY <3>2, VisitImproves
    <3> QED
      BY ONLY <3>1, <3>3
  <2> QED
    BY <2>3, <2>4
<1>4. \A n \in TreeNodes : (\A s \in Side : Son(n, s) \in S) => n \in S
  <2> HIDE DEF S
  <2> QED
    BY <1>3
<1>5. \A t \in Trees : t \in S
  <2> HIDE DEF S
  <2> QED
    BY <1>2, <1>4, TreeInduction
<1> QED
  BY <1>5

LEMMA NearestIsFound ==
  ASSUME AnyHeight, PointsKept
  PROVE  NearestFound
<1> SUFFICES ASSUME NEW at \in Points
             PROVE  LET q == Search(Root_Node, K, at, <<>>).q
                        others == content (-) BagOf(q)
                    IN /\ BagOf(q) \sqsubseteq content /\ Len(q) <= K
                       /\ \A i, j \in DOMAIN q :
                            i <= j => SquareDist(q[i], at) <= SquareDist(q[j], at)
                       /\ \A p \in BagToSet(others) : Len(q) = K /\ Top(q, at) <= SquareDist(p, at)
  BY DEF NearestFound
<1> DEFINE q == Search(Root_Node, K, at, <<>>).q
           others == content (-) BagOf(q)
<1>1. K \in Nat \ {0} /\ Sound(Root_Node) /\ Root_Node \in Trees
  BY MapAssumption DEF PointsKept, Sound
<1>2. Heap(<<>>, K, at)
  <2>1. <<>> \in Seq(Points) /\ Len(<<>>) = 0 /\ DOMAIN <<>> = {}
    OBVIOUS
  <2> QED
    BY <1>1, <2>1 DEF Heap, Ordered
<1>3. Improves(<<>>, q, HeldIn(Root_Node), K, at)
  BY <1>1, <1>2, SearchImproves
<1> HIDE DEF q
<1>4. q \in Seq(Points) /\ Ordered(q, at) /\ Len(q) <= K
  BY <1>3 DEF Improves, Heap
<1>5. ASSUME NEW p \in Points
      PROVE  /\ Times(q, p) <= Held(Root_Node, p)
             /\ Times(q, p) < Held(Root_Node, p) => Beyond(p, q, K, at)
  <2>1. HeldIn(Root_Node)[p] = Held(Root_Node, p) /\ Times(<<>>, p) = 0
    BY TimesEmpty DEF HeldIn
  <2>2. Held(Root_Node, p) \in Nat
    BY <1>1, HeldIs
  <2>3. 0 + Held(Root_Node, p) = Held(Root_Node, p)
    BY <2>2
  <2>4. /\ Times(q, p) <= Times(<<>>, p) + HeldIn(Root_Node)[p]
        /\ Times(q, p) < Times(<<>>, p) + HeldIn(Root_Node)[p] => Beyond(p, q, K, at)
    BY <1>3 DEF Improves
  <2> QED
    BY ONLY <2>1, <2>3, <2>4
<1>6. PointBag(BagOf(q)) /\ \A p : Copies(p, BagOf(q)) = Times(q, p)
  BY <1>4, BagOfIs
<1>7. PointBag(content) /\ \A p \in Points : Copies(p, content) = Held(Root_Node, p)
  BY <1>1, ContentIs DEF PointsKept
<1>8. BagOf(q) \sqsubseteq content
  BY <1>5, <1>6, <1>7, BagIsBelow
<1>9. \A p : Copies(p, BagOf(q)) <= Copies(p, content)
  <2> TAKE p
  <2>1. CASE p \in Points
    BY <1>5, <1>6, <1>7, <2>1
  <2>2. CASE p \notin Points
    <3>1. Copies(p, BagOf(q)) = 0 /\ Copies(p, content) = 0
      BY <1>6, <1>7, <2>2 DEF PointBag, Copies
    <3> QED
      BY <3>1
  <2> QED
    BY <2>1, <2>2
<1>10. /\ PointBag(others)
       /\ \A p : Copies(p, others) + Copies(p, BagOf(q)) = Copies(p, content)
  BY ONLY <1>6, <1>7, <1>9, BagMinus
<1> HIDE DEF others
<1>11. ASSUME NEW p \in BagToSet(others)
       PROVE  Len(q) = K /\ Top(q, at) <= SquareDist(p, at)
  <2>1. p \in DOMAIN others /\ p \in Points
    BY <1>10 DEF BagToSet, PointBag
  <2>2. Copies(p, others) \in Nat /\ Copies(p, others) # 0
    BY <1>10, <2>1, CopiesType
  <2>3. Copies(p, others) + Times(q, p) = Held(Root_Node, p) /\ Times(q, p) \in Nat
    BY <1>4, <1>6, <1>7, <1>10, <2>1, TimesType
  <2>4. Times(q, p) < Held(Root_Node, p)
    BY ONLY <2>2, <2>3
  <2> QED
    BY <1>5, <2>1, <2>4 DEF Beyond
<1> QED
  BY <1>4, <1>8, <1>11 DEF Ordered, q, others

(* A search for the nearest points finds K of those the map holds, or all  *)
(* of them when it holds fewer, the closest first, and leaves out none     *)
(* that is closer than one it found: the sons it skips by their range, and *)
(* the order in which it takes them, never cost a closer point, for any    *)
(* points and any K.                                                       *)
THEOREM NearestSearchIsExact ==
  ASSUME AnyHeight
  PROVE  Spec => []NearestFound
<1>1. Init => PointsKept
  BY OwedInit
<1>2. PointsKept /\ [Next]_vars => PointsKept'
  BY PointsKeptStep
<1>3. PointsKept => NearestFound
  BY NearestIsFound
<1> QED
  BY <1>1, <1>2, <1>3, PTL DEF Spec
=============================================================================
