------------------------------ MODULE GridMap ------------------------------
(***************************************************************************)
(* The occupancy grid of the planner library (grid_map.hpp) and the        *)
(* lengths of steps on it.  Only lengths are data: a path's cost is s + d  *)
(* times the square root of 2, and on the few steps of a small map the     *)
(* integers 1000 s + 1414 d compare as these numbers do.                   *)
(***************************************************************************)
EXTENDS Integers, Sequences, FiniteSets

Free     == 0
Unknown  == 127
Obstacle == 255

Straight == 1000
Diagonal == 1414
Infinity == 1000000

Abs(n) == IF n < 0 THEN -n ELSE n
Least(a, b) == IF a < b THEN a ELSE b

----------------------------------------------------------------------------
(* The map: 0, 127 and 255 stand for free, unknown and occupied.  data is  *)
(* numbered from 0, column by column of cells with the same x.             *)

Cells(m) == (0 .. m.width - 1) \X (0 .. m.height - 1)
IsInside(m, c) == c \in Cells(m)
GetCell(m, c) == m.data[c[1] * m.height + c[2]]
Occupied(m, c) == GetCell(m, c) = Obstacle

\* std::round of the offset from the origin, which is in quarters of a cell:
\* halves are rounded away from zero.
Round(q) == IF q >= 0 THEN (q + 2) \div 4 ELSE -((2 - q) \div 4)
WorldToGrid(p) == <<Round(p[1]), Round(p[2])>>
GridToWorld(c) == <<4 * c[1], 4 * c[2]>>

Shift(c, d) == <<c[1] + d[1], c[2] + d[2]>>
Around == ((-1 .. 1) \X (-1 .. 1)) \ {<<0, 0>>}
IsDiagonal(d) == d[1] # 0 /\ d[2] # 0
StepCost(d) == IF IsDiagonal(d) THEN Diagonal ELSE Straight

\* The octile distance.
Heuristic(c, goal) ==
    LET dx == Abs(c[1] - goal[1])
        dy == Abs(c[2] - goal[2])
    IN  Diagonal * Least(dx, dy) + Straight * Abs(dx - dy)
============================================================================
