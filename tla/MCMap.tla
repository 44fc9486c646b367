------------------------------- MODULE MCMap -------------------------------
(* Small instances of MapManager for TLC. *)
EXTENDS MapProps

CONSTANTS a, b, c

(* One scan that sees each cell, one that looks through it at the other,   *)
(* and scans with several points in one cell or in both.                   *)
AllScans == { [points |-> <<a>>, pierced |-> {}],
              [points |-> <<a>>, pierced |-> {b}],
              [points |-> <<b>>, pierced |-> {a}],
              [points |-> <<a, a>>, pierced |-> {}],
              [points |-> <<b, a>>, pierced |-> {a}] }

(* Scans that put two cells at once into the map, and a third one.         *)
FewScans == { [points |-> <<a, b, a, b>>, pierced |-> {}],
              [points |-> <<b, b>>, pierced |-> {a}],
              [points |-> <<c, c>>, pierced |-> {}] }

(* Two scans for a map that is full with one cell.                         *)
FullScans == { [points |-> <<a, a>>, pierced |-> {}],
               [points |-> <<b, a>>, pierced |-> {a}] }
=============================================================================
