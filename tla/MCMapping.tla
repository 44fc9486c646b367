---------------------------- MODULE MCMapping ----------------------------
(* A flat world of four landmarks on a grid of positions. *)
EXTENDS MappingProps

At(x, y) == [a \in {"x", "y"} |-> IF a = "x" THEN x ELSE y]

MCLandmarks == {At(-16, 0), At(10, 2), At(11, 3), At(19, 19)}
MCHome == At(0, 0)
Grid == {At(x, y) : x \in {-8, -4, 0, 4, 8, 12}, y \in {0, 4}}
        \cup {At(x, y) : x \in {8, 12}, y \in {8, 12}}

MCVoxel(q) == [a \in Axes |-> q[a] \div 4]
MCFromCentre(q) == LET d(a) == IF q[a] % 4 <= 1 THEN 2 - (q[a] % 4) ELSE (q[a] % 4) - 2
                   IN d("x") + d("y")
==========================================================================
