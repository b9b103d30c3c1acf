---------------------------- MODULE DistanceField ----------------------------
(***************************************************************************)
(* The distance field of the planner library (esdf_map.hpp), the collision *)
(* checks on it (collision_checker.hpp, inCollision() of kino_astar.cpp)   *)
(* and the heuristic field of the kinodynamic search (buildHeuristicField).*)
(* Distances are in cells, costs as in GridMap.  Positions are in quarters *)
(* of a cell from the corner of cell (0, 0).  A map of the field is numbered*)
(* row by row, so that the data of a GridMap are another map here.         *)
(***************************************************************************)
EXTENDS GridMap

Quarters == 4

\* The casts to int cut towards zero: a position less than a cell outside the
\* map counts as inside.  A position is given as a fraction of positive n.
Truncated(q, n) == IF q >= 0 THEN q \div (n * Quarters) ELSE -((-q) \div (n * Quarters))
CellOf(p, n) == <<Truncated(p[1], n), Truncated(p[2], n)>>

----------------------------------------------------------------------------
(* buildFromOccupancyGrid(): all obstacles at distance 0 in a queue; a     *)
(* popped entry spreads the distance it was pushed with, even if the cell  *)
(* has a smaller one by then.                                              *)

\* The eight neighbours in the order of dx8 and dy8.
Order == << <<-1, 0>>, <<1, 0>>, <<0, -1>>, <<0, 1>>, <<-1, -1>>, <<-1, 1>>, <<1, -1>>, <<1, 1>> >>

CellAt(m, i) == <<i % m.width, i \div m.width>>
Index(m, c) == c[2] * m.width + c[1]
Blocked(m, c) == m.data[Index(m, c)] = Obstacle
Entry(c, n) == [cell |-> c, dist |-> n]
Seeds(m) ==
    LET seeds[i \in 0 .. m.width * m.height] ==
            IF i = 0 THEN <<>>
            ELSE IF m.data[i - 1] = Obstacle THEN Append(seeds[i - 1], Entry(CellAt(m, i - 1), 0))
            ELSE seeds[i - 1]
    IN  seeds[m.width * m.height]

Distances(m) == [Cells(m) -> 0 .. Infinity]
Entries(m) == [cell : Cells(m), dist : 0 .. Infinity]

\* Mutant: only the first neighbour to reach a cell counts.
Closer_Once(m, dist, e, d) ==
    LET c == Shift(e.cell, d) IN IsInside(m, c) /\ dist[c] = Infinity
Closer(m, dist, e, d) ==
    LET c == Shift(e.cell, d) IN IsInside(m, c) /\ e.dist + StepCost(d) < dist[c]

\* The entry e reaches its neighbour in direction d, and all of them in turn.
Reach(m, s, e, d) ==
    LET c == Shift(e.cell, d)
        n == e.dist + StepCost(d)
    IN  IF Closer(m, s.dist, e, d) THEN [dist |-> [s.dist EXCEPT ![c] = n], queue |-> Append(s.queue, Entry(c, n))]
        ELSE s
Pop(m, s) ==
    LET reached[k \in 0 .. 8] ==
            IF k = 0 THEN [s EXCEPT !.queue = Tail(@)] ELSE Reach(m, reached[k - 1], Head(s.queue), Order[k])
    IN  reached[8]

Build(m) ==
    LET spread[s \in [dist : Distances(m), queue : Seq(Entries(m))]] ==
            IF s.queue = <<>> THEN s ELSE spread[Pop(m, s)]
    IN  spread[[dist |-> [c \in Cells(m) |-> IF Blocked(m, c) THEN 0 ELSE Infinity], queue |-> Seeds(m)]].dist

\* Off the map the distance is 0.
GetDistance(m, dist, c) == IF IsInside(m, c) THEN dist[c] ELSE 0
IsSafe(m, dist, p, n, radius) == GetDistance(m, dist, CellOf(p, n)) > radius

----------------------------------------------------------------------------
(* Checks along a segment: samples + 1 equally spaced points, the spacing  *)
(* at most a cell in isSegmentSafe() and half a cell in inCollision().     *)

SquaredLength(p, q) == (q[1] - p[1]) * (q[1] - p[1]) + (q[2] - p[2]) * (q[2] - p[2])
\* The largest number of steps of s quarters that fit, and the least that covers.
Fits(p, q, s) == CHOOSE k \in 0 .. SquaredLength(p, q) :
    /\ k * k * s * s <= SquaredLength(p, q)
    /\ (k + 1) * (k + 1) * s * s > SquaredLength(p, q)
Covers(p, q, s) == Fits(p, q, s) + (IF Fits(p, q, s) * Fits(p, q, s) * s * s = SquaredLength(p, q) THEN 0 ELSE 1)

SafeAt(m, dist, p, q, samples, radius) ==
    \A i \in 0 .. samples :
        IsSafe(m, dist, <<samples * p[1] + i * (q[1] - p[1]), samples * p[2] + i * (q[2] - p[2])>>, samples, radius)

IsSegmentSafe(m, dist, p, q, radius) == SafeAt(m, dist, p, q, Fits(p, q, Quarters) + 1, radius)
InCollision(m, dist, p, q, radius) ==
    ~ SafeAt(m, dist, p, q, IF Covers(p, q, 2) > 1 THEN Covers(p, q, 2) ELSE 1, radius)

----------------------------------------------------------------------------
(* buildHeuristicField(): Dijkstra from the cell of the goal through cells *)
(* that are no obstacle; corners may be cut.  heuristic() is 0 where there *)
(* is no way.                                                              *)

\* Entries wait in order of their length; one whose cell has a shorter way by
\* now is dropped.
Shorten(m, dist, s, e, d) ==
    LET c == Shift(e.cell, d)
        n == e.dist + StepCost(d)
    IN  IF GetDistance(m, dist, c) > 0 /\ n < s.field[c]
        THEN [field |-> [s.field EXCEPT ![c] = n], open |-> s.open \cup {Entry(c, n)}]
        ELSE s
Settle(m, dist, s) ==
    LET e == CHOOSE x \in s.open : \A y \in s.open : x.dist <= y.dist
        rest == [s EXCEPT !.open = @ \ {e}]
        shortened[k \in 0 .. 8] == IF k = 0 THEN rest ELSE Shorten(m, dist, shortened[k - 1], e, Order[k])
    IN  IF e.dist > s.field[e.cell] THEN rest ELSE shortened[8]
HeuristicField(m, dist, goal) ==
    LET blank == [c \in Cells(m) |-> Infinity]
        c     == CellOf(goal, 1)
        settled[s \in [field : Distances(m), open : SUBSET Entries(m)]] ==
            IF s.open = {} THEN s ELSE settled[Settle(m, dist, s)]
    IN  IF IsInside(m, c) THEN settled[[field |-> [blank EXCEPT ![c] = 0], open |-> {Entry(c, 0)}]].field ELSE blank
HeuristicAt(m, h, p) ==
    LET c == CellOf(p, 1) IN IF IsInside(m, c) /\ h[c] < Infinity THEN h[c] ELSE 0

----------------------------------------------------------------------------
(* What the fields promise.                                                *)

\* The distance of a cell is the least octile distance to an obstacle.
DistanceIsNearest(m, dist) ==
    \A c \in Cells(m) :
        LET ds == {Heuristic(c, o) : o \in {x \in Cells(m) : Blocked(m, x)}} \cup {Infinity}
        IN  dist[c] = CHOOSE n \in ds : \A k \in ds : n <= k

\* The heuristic field is 0 at the goal.  Everywhere else it is, where there is
\* a way, the shortest one to there over unoccupied cells, corners or not;
\* where there is none it counts as 0.
FieldIsShortest(m, h, goal) ==
    \A c \in Cells(m) :
        LET ways == {h[Shift(c, d)] + StepCost(d) : d \in {e \in Around : IsInside(m, Shift(c, e))}} \cup {Infinity}
            best == CHOOSE n \in ways : \A k \in ways : n <= k
            way  == IF c = CellOf(goal, 1) THEN 0 ELSE IF Blocked(m, c) THEN Infinity ELSE best
        IN  /\ h[c] = way
            /\ HeuristicAt(m, h, <<Quarters * c[1] + 1, Quarters * c[2] + 3>>) = IF way = Infinity THEN 0 ELSE way

\* The segment from p to q enters the inside of cell c: it reaches between both
\* pairs of sides, and its line has corners of the cell on either side.
Crosses(p, q, c) ==
    LET corners == {<<Quarters * (c[1] + i), Quarters * (c[2] + j)>> : i, j \in {0, 1}}
        Turn(r) == (q[1] - p[1]) * (r[2] - p[2]) - (q[2] - p[2]) * (r[1] - p[1])
    IN  /\ \A x \in 1 .. 2 : /\ \E r \in {p, q} : r[x] < Quarters * (c[x] + 1)
                            /\ \E r \in {p, q} : r[x] > Quarters * c[x]
        /\ p = q \/ ((\E r \in corners : Turn(r) > 0) /\ (\E r \in corners : Turn(r) < 0))

\* A segment found safe may still cross cells that are not, between two samples,
\* but only where a cell less of radius would do: no obstacle if the radius is a
\* cell or more.
SafeIsClear(m, dist, p, q, radius) ==
    \A c \in Cells(m) : Crosses(p, q, c) /\ dist[c] + Straight <= radius =>
        /\ ~ IsSegmentSafe(m, dist, p, q, radius)
        /\ InCollision(m, dist, p, q, radius)
============================================================================
