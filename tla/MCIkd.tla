------------------------------- MODULE MCIkd -------------------------------
(* A small instance of IkdMap for TLC: four points of a plane in two       *)
(* voxels, two of them at the same place in one coordinate.                *)
EXTENDS IkdProps

P(x, y) == <<x, y, 0>>
Box(x0, y0, x1, y1) == [lo |-> <<x0, y0, 0>>, hi |-> <<x1, y1, 4>>]

SomePoints == {P(0, 1), P(1, 1), P(1, 3), P(5, 0)}
SomeBoxes == {Box(0, 0, 2, 2), Box(1, 0, 6, 4), Box(4, 0, 8, 4)}
SomeVoxels == {Box(0, 0, 4, 4), Box(4, 0, 8, 4)}
FirstScans == {{P(0, 1), P(1, 1), P(1, 3), P(5, 0)}}

Rank(f) == [p \in SomePoints |-> f * (10 * p[1] + p[2])]
SomeRanks == {Rank(1), Rank(-1)}
=============================================================================
