------------------------------- MODULE AStar -------------------------------
(***************************************************************************)
(* The grid search of the planner library (astar.cpp, astar.hpp).          *)
(* Entries of equal f are popped in some fixed order; what is checked does *)
(* not depend on which.  The generation does not wrap: a planner makes     *)
(* fewer than 2^32 searches.                                               *)
(***************************************************************************)
EXTENDS GridMap

None     == <<-1, -1>>

\* A step is refused if it ends in an obstacle or, on the diagonal, if it
\* touches one at either side.
CutsCorner(m, c, d) ==
    IsDiagonal(d) /\ (Occupied(m, Shift(c, <<d[1], 0>>)) \/ Occupied(m, Shift(c, <<0, d[2]>>)))
MayStep(m, c, d) ==
    /\ IsInside(m, Shift(c, d))
    /\ ~ Occupied(m, Shift(c, d))
    /\ ~ CutsCorner(m, c, d)

\* An occupied goal gives way to the first free cell of the smallest square
\* round it, at most five cells away, that holds one.  The value is a set: it
\* is empty if there is none.
Aims(m, goal) ==
    LET FreeIn(r) == {d \in (-r .. r) \X (-r .. r) :
                        IsInside(m, Shift(goal, d)) /\ GetCell(m, Shift(goal, d)) = Free}
        radii == {r \in 1 .. 5 : FreeIn(r) # {}}
        nearest == FreeIn(CHOOSE r \in radii : \A q \in radii : r <= q)
    IN  IF ~ Occupied(m, goal) THEN {goal}
        ELSE IF radii = {} THEN {}
        ELSE {Shift(goal, CHOOSE d \in nearest : \A e \in nearest :
                  d[1] < e[1] \/ (d[1] = e[1] /\ d[2] <= e[2]))}

----------------------------------------------------------------------------
(* The search.  The cells are kept from one search to the next; a cell     *)
(* whose generation is not this search's counts as unvisited.              *)

Unvisited(generation) ==
    [generation |-> generation, g |-> Infinity, f |-> Infinity, parent |-> None]

NewPlanner == [width |-> 0, height |-> 0, cells |-> <<>>, generation |-> 0,
               gridPath |-> <<>>, path |-> <<>>]

\* The cells are allocated anew only when the size of the map has changed.
Prepare(a, m) ==
    LET fits == a.width = m.width /\ a.height = m.height
    IN  [a EXCEPT !.width = m.width, !.height = m.height, !.generation = @ + 1,
                  !.cells = IF fits THEN @ ELSE [c \in Cells(m) |-> Unvisited(0)]]

Marks(m) == [generation : Nat, g : 0 .. Infinity, f : Nat, parent : Cells(m) \cup {None}]
States(m) == [cells : [Cells(m) -> Marks(m)], open : SUBSET [f : Nat, cell : Cells(m)]]

\* Mutant: a cell keeps what an earlier search left in it.
Visited_Stale(n, cells, c) == cells[c]
Visited(n, cells, c) == IF cells[c].generation = n THEN cells[c] ELSE Unvisited(n)

Reached(n, c, goal, g, parent) == [generation |-> n, g |-> g, f |-> g + Heuristic(c, goal), parent |-> parent]

\* The neighbours a pop improves, and the state after it.
Improved(m, n, cells, c) ==
    {d \in Around : MayStep(m, c, d) /\ Visited(n, cells, c).g + StepCost(d) < Visited(n, cells, Shift(c, d)).g}
Expand(m, n, goal, s, c) ==
    LET better == Improved(m, n, s.cells, c)
        Step(x) == <<x[1] - c[1], x[2] - c[2]>>
        cells == [x \in Cells(m) |-> IF Step(x) \notin better THEN s.cells[x]
                     ELSE Reached(n, x, goal, Visited(n, s.cells, c).g + StepCost(Step(x)), c)]
    IN  [cells |-> cells,
         open |-> s.open \cup {[f |-> cells[Shift(c, d)].f, cell |-> Shift(c, d)] : d \in better}]

\* The main loop: pop the least f, skip what is stale, stop at the goal.
Top(s) == CHOOSE e \in s.open : \A o \in s.open : e.f <= o.f
IsStale(n, s) == Top(s).f > Visited(n, s.cells, Top(s).cell).f
Arrives(n, goal, s) == ~ IsStale(n, s) /\ Top(s).cell = goal
Turn(m, n, goal, s) ==
    LET rest == [s EXCEPT !.open = @ \ {Top(s)}]
    IN  IF IsStale(n, s) THEN rest ELSE Expand(m, n, goal, rest, Top(s).cell)
Explore(m, n, goal, start) ==
    LET explored[s \in States(m)] ==
            IF s.open = {} \/ Arrives(n, goal, s) THEN s ELSE explored[Turn(m, n, goal, s)]
    IN  explored[start]

\* The parents, from the goal back to the start.
Backtrack(m, n, cells, goal) ==
    LET traced[s \in [route : Seq(Cells(m)), at : Cells(m) \cup {None}]] ==
            IF s.at = None THEN s
            ELSE traced[[route |-> <<s.at>> \o s.route,
                         at |-> IF cells[s.at].generation = n THEN cells[s.at].parent ELSE None]]
    IN  traced[[route |-> <<>>, at |-> goal]].route

----------------------------------------------------------------------------
(* The simplification of a path: from each anchor to the farthest point    *)
(* that Bresenham's line reaches over unoccupied cells.                    *)

Closed(m, c) == ~ IsInside(m, c) \/ Occupied(m, c)
HasLineOfSight(m, from, to) ==
    LET dx == Abs(to[1] - from[1])
        dy == Abs(to[2] - from[2])
        sx == IF from[1] < to[1] THEN 1 ELSE -1
        sy == IF from[2] < to[2] THEN 1 ELSE -1
        Next(s) == LET onX == 2 * s.err > -dy
                       onY == 2 * s.err < dx
                   IN  [at |-> Shift(s.at, <<IF onX THEN sx ELSE 0, IF onY THEN sy ELSE 0>>),
                        err |-> s.err - (IF onX THEN dy ELSE 0) + (IF onY THEN dx ELSE 0)]
        walked[s \in [at : Int \X Int, err : Int]] == IF Closed(m, s.at) \/ s.at = to THEN s ELSE walked[Next(s)]
    IN  ~ Closed(m, walked[[at |-> from, err |-> dx - dy]].at)

Farthest(m, p, anchor) ==
    LET seen == {k \in anchor + 2 .. Len(p) : HasLineOfSight(m, p[anchor], p[k])} \cup {anchor + 1}
    IN  CHOOSE k \in seen : \A l \in seen : l <= k
SimplifyPath(m, p) ==
    LET simplified[s \in [kept : Seq(Cells(m)), anchor : DOMAIN p]] ==
            IF s.anchor = Len(p) THEN s
            ELSE LET next == Farthest(m, p, s.anchor)
                 IN  simplified[[kept |-> Append(s.kept, p[next]), anchor |-> next]]
    IN  IF Len(p) <= 2 THEN p ELSE simplified[[kept |-> <<p[1]>>, anchor |-> 1]].kept

----------------------------------------------------------------------------
(* search() and plan().  A plan that fails leaves both paths as they were. *)

Fails(a) == [planner |-> a, found |-> FALSE, route |-> <<>>]
Succeeds(a, m, route) ==
    [planner |-> [a EXCEPT !.gridPath = SimplifyPath(m, route)], found |-> TRUE, route |-> route]

Search(a, m, start, goal) ==
    IF ~ IsInside(m, start) \/ ~ IsInside(m, goal) THEN Fails(a)
    ELSE IF Occupied(m, start) THEN Fails(a)
    ELSE IF start = goal THEN Succeeds(a, m, <<start>>)
    ELSE IF Aims(m, goal) = {} THEN Fails(a)
    ELSE LET aim   == CHOOSE c \in Aims(m, goal) : TRUE
             ready == Prepare(a, m)
             n     == ready.generation
             first == Reached(n, start, aim, 0, None)
             done  == Explore(m, n, aim, [cells |-> [ready.cells EXCEPT ![start] = first],
                                          open |-> {[f |-> first.f, cell |-> start]}])
             after == [ready EXCEPT !.cells = done.cells]
         IN  IF done.open # {} THEN Succeeds(after, m, Backtrack(m, n, done.cells, aim)) ELSE Fails(after)

Plan(a, m, start, goal) ==
    LET s == Search(a, m, WorldToGrid(start), WorldToGrid(goal))
    IN  IF s.found
        THEN [s EXCEPT !.planner.path = [k \in DOMAIN s.planner.gridPath |-> GridToWorld(s.planner.gridPath[k])]]
        ELSE s

----------------------------------------------------------------------------
(* What a plan promises, independent of heap, heuristic and stamps.        *)

\* The length of the shortest legal way from start to every cell, by
\* relaxing all steps until nothing changes.
Shortest(m, start) ==
    LET Back(d) == <<-d[1], -d[2]>>
        Eased(dist) == [c \in Cells(m) |->
            LET ways == {dist[Shift(c, d)] + StepCost(d) : d \in {e \in Around :
                            IsInside(m, Shift(c, e)) /\ MayStep(m, Shift(c, e), Back(e))}} \cup {dist[c]}
            IN  CHOOSE n \in ways : \A k \in ways : n <= k]
        relaxed[dist \in [Cells(m) -> 0 .. Infinity]] == IF Eased(dist) = dist THEN dist ELSE relaxed[Eased(dist)]
    IN  relaxed[[c \in Cells(m) |-> IF c = start THEN 0 ELSE Infinity]]

StepAt(route, k) == <<route[k + 1][1] - route[k][1], route[k + 1][2] - route[k][2]>>
CostOf(route) ==
    LET cost[k \in 0 .. Len(route) - 1] == IF k = 0 THEN 0 ELSE cost[k - 1] + StepCost(StepAt(route, k))
    IN  cost[Len(route) - 1]
IsLegal(m, route) ==
    \A k \in 1 .. Len(route) - 1 : StepAt(route, k) \in Around /\ MayStep(m, route[k], StepAt(route, k))

\* Every step along the longer axis of the leg has an unoccupied cell no more
\* than half a cell off the exact line.
IsClear(m, from, to) ==
    LET dx == to[1] - from[1]
        dy == to[2] - from[2]
        n  == IF Abs(dx) > Abs(dy) THEN Abs(dx) ELSE Abs(dy)
    IN  \A k \in 0 .. n : \E c \in Cells(m) :
            /\ ~ Occupied(m, c)
            /\ 2 * Abs(n * (c[1] - from[1]) - k * dx) <= n
            /\ 2 * Abs(n * (c[2] - from[2]) - k * dy) <= n

\* A plan is found exactly if there is a way, and it is a shortest one.
PlanIsShortest(m, start, goal, result) ==
    LET dist  == Shortest(m, start)
        valid == IsInside(m, start) /\ IsInside(m, goal) /\ ~ Occupied(m, start)
        aims  == IF start = goal THEN {goal} ELSE Aims(m, goal)
        route == result.route
    IN  /\ result.found <=> valid /\ \E c \in aims : dist[c] < Infinity
        /\ result.found => /\ route[1] = start /\ route[Len(route)] \in aims
                           /\ IsLegal(m, route)
                           /\ CostOf(route) = dist[route[Len(route)]]

\* The simplified path has the ends of the route, is part of it in order, and
\* no leg runs through an obstacle.
PathIsClear(m, before, result) ==
    LET path == result.planner.gridPath
    IN  IF ~ result.found THEN path = before.gridPath /\ result.planner.path = before.path
        ELSE /\ path[1] = result.route[1] /\ path[Len(path)] = result.route[Len(result.route)]
             /\ \A k \in 1 .. Len(path) - 1 :
                    /\ \E i, j \in DOMAIN result.route :
                           i < j /\ path[k] = result.route[i] /\ path[k + 1] = result.route[j]
                    /\ IsClear(m, path[k], path[k + 1])
============================================================================
