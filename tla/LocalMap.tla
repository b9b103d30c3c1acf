------------------------------ MODULE LocalMap ------------------------------
(***************************************************************************)
(* The map as FAST-LIO uses it between two scans, one call at a time: the  *)
(* operations of the kd-tree with the rebuilding of small subtrees on the  *)
(* spot (IkdRebuild has the rebuild thread), what a scan adds              *)
(* (map_incremental) and the cube that moves with the robot                *)
(* (lasermap_fov_segment).  The points of the tree have one coordinate,    *)
(* those of a scan have three, and the map is then the set of points that  *)
(* the tree has been shown to be; the cube has two axes.                   *)
(***************************************************************************)
EXTENDS IkdTree, TLC

----------------------------------------------------------------------------
(* Leaving a node: its counts, then a new subtree if it is unbalanced or   *)
(* has lost too much.                                                      *)

Rebuilt(t, n) == IF CriterionCheck(t, n) THEN Graft(t, n, BuildTree(n, Ascending(Visible(t, n)))) ELSE Done(t, n)
Leave(t, n) == Rebuilt(Update(t, n), n)

Absent(t, n) == n \notin DOMAIN t
Gone(t, n) == IF Absent(t, n) THEN TRUE ELSE t[n].tdel

RECURSIVE AddPoint(_, _, _)
AddPoint(t, n, p) ==
    IF Absent(t, n) THEN (n :> Leaf(p)) @@ t
    ELSE LET u == Enter(t, n) IN Leave(AddPoint(u, SideOf(u, n, p), p), n)

RECURSIVE DeleteBox(_, _, _, _)
DeleteBox(t, n, box, downsample) ==
    IF Gone(t, n) THEN t
    ELSE LET u == Enter(t, n)
             v == DeleteBox(DeleteOwn(u, n, box, downsample), 2 * n, box, downsample)
         IN  IF Disjoint(u[n], box) THEN u
             ELSE IF Covers(u[n], box) THEN MarkAll(u, n, downsample)
             ELSE Leave(DeleteBox(v, 2 * n + 1, box, downsample), n)

\* Delete_by_point returns from the node it marks at once; only its ancestors
\* are updated.
Struck(t, n) ==
    (n :> [t[n] EXCEPT !.del = TRUE, !.inv = @ + 1, !.tdel = @ \/ t[n].inv + 1 = t[n].size]) @@ t
RECURSIVE DeletePoint(_, _, _)
DeletePoint(t, n, p) ==
    IF Gone(t, n) THEN t
    ELSE LET u == Enter(t, n)
         IN  IF u[n].pt = p /\ ~ u[n].del THEN Struck(u, n)
             ELSE Leave(DeletePoint(u, SideOf(u, n, p), p), n)

\* Add_by_range takes deletions back, but not those of downsampling.
Revived(t, n) ==
    (n :> [t[n] EXCEPT !.tdel = t[n].tddel, !.del = t[n].ddel, !.push = {0, 1}, !.inv = t[n].down]) @@ t
ReviveOwn(t, n, box) == IF InBox(t[n].pt, box) THEN (n :> [t[n] EXCEPT !.del = t[n].ddel]) @@ t ELSE t
RECURSIVE AddBox(_, _, _)
AddBox(t, n, box) ==
    IF Absent(t, n) THEN t
    ELSE LET u == Enter(t, n)
             v == AddBox(ReviveOwn(u, n, box), 2 * n, box)
         IN  IF Disjoint(u[n], box) THEN u
             ELSE IF Covers(u[n], box) THEN Revived(u, n)
             ELSE Leave(AddBox(v, 2 * n + 1, box), n)

----------------------------------------------------------------------------
(* Searches: the k nearest within max, and all within radius.              *)

Farthest(S, q) == CHOOSE p \in S : \A r \in S : Distance(p, q) >= Distance(r, q)
\* The heap takes what is closer than its farthest, and gives that up if full.
Offered(best, k, q, p) ==
    IF Cardinality(best) < k THEN best \cup {p}
    ELSE IF Distance(p, q) < Distance(Farthest(best, q), q) THEN (best \ {Farthest(best, q)}) \cup {p}
    ELSE best

RECURSIVE Nearest(_, _, _, _, _)
Nearest(t, n, q, want, best) ==
    IF Gone(t, n) THEN [tree |-> t, best |-> best]
    ELSE IF BoxDistance(t, n, q) > want.max THEN [tree |-> t, best |-> best]
    ELSE LET u == PushDown(t, n)
             own == IF ~ u[n].del /\ Distance(u[n].pt, q) <= want.max
                    THEN Offered(best, want.k, q, u[n].pt) ELSE best
             May(s, b) == Cardinality(b) < want.k \/ BoxDistance(u, s, q) < Distance(Farthest(b, q), q)
             Visit(r, s) == IF Absent(u, s) THEN r
                            ELSE IF May(s, r.best) THEN Nearest(r.tree, s, q, want, r.best) ELSE r
             near == IF Sons(u, n) = {2 * n, 2 * n + 1}
                        /\ BoxDistance(u, 2 * n, q) > BoxDistance(u, 2 * n + 1, q)
                     THEN <<2 * n + 1, 2 * n>> ELSE <<2 * n, 2 * n + 1>>
         IN  Visit(Visit([tree |-> u, best |-> own], near[1]), near[2])
NearestSearch(t, q, k, max) == Nearest(t, 1, q, [k |-> k, max |-> max], {})

\* The middle of a node's range, twice, and half its length, twice.
Middle(node) == node.lo + node.hi
Length(node) == node.hi - node.lo
RECURSIVE SearchByRadius(_, _, _, _)
SearchByRadius(t, n, q, radius) ==
    IF Absent(t, n) THEN [tree |-> t, found |-> {}]
    ELSE LET u == PushDown(t, n)
             far == Distance(Middle(u[n]), 2 * q)
             left == SearchByRadius(u, 2 * n, q, radius)
             right == SearchByRadius(left.tree, 2 * n + 1, q, radius)
             own == IF ~ u[n].del /\ Distance(u[n].pt, q) <= radius THEN {u[n].pt} ELSE {}
         IN  IF far > 2 * radius + Length(u[n]) THEN [tree |-> u, found |-> {}]
             ELSE IF far <= 2 * radius - Length(u[n]) THEN [tree |-> PushAll(u, n), found |-> Visible(u, n)]
             ELSE [tree |-> right.tree, found |-> own \cup left.found \cup right.found]

Validnum(t) == IF Absent(t, 1) THEN 0 ELSE t[1].size - t[1].inv

----------------------------------------------------------------------------
(* Add_Points with downsampling.                                           *)

\* Of the points in the cell of p and p itself, which are off from its middle, the closest
\* stays; nothing is done if the cell holds just that one.
Closest(off, p) ==
    LET closer == {x \in DOMAIN off : off[x] < off[p]}
    IN  IF closer = {} THEN p ELSE CHOOSE x \in closer : \A y \in closer : off[x] <= off[y]
Sampled(found, p) == Closest([x \in found \cup {p} |-> OffCentre(x)], p)
AddSampled(t, p) ==
    LET search == SearchByRange(t, 1, Cell(p))
        chosen == Sampled(search.found, p)
        cleared == IF search.found = {} THEN search.tree ELSE DeleteBox(search.tree, 1, Cell(p), TRUE)
    IN  IF Cardinality(search.found) > 1 \/ chosen = p THEN AddPoint(cleared, 1, chosen) ELSE search.tree

----------------------------------------------------------------------------
(* map_incremental.  Places have three coordinates.                        *)

Axes == 1 .. 3
Square(n) == n * n
Apart(p, q) == Square(p[1] - q[1]) + Square(p[2] - q[2]) + Square(p[3] - q[3])
CellAt(p) == [x \in Axes |-> p[x] \div CellSize]
\* Twice the middle of the cell of p, and how far p is from a middle.
MidPoint(p) == [x \in Axes |-> (2 * CellAt(p)[x] + 1) * CellSize]
Double(p) == [x \in Axes |-> 2 * p[x]]
Off(p, mid) == Apart(Double(p), mid)

\* The k nearest points of the map, nearest first; the search may order equal
\* ones in any way.
NearLists(points, q, k) ==
    LET n == Min({k, Cardinality(points)})
    IN  {s \in [1 .. n -> points] :
            /\ \A i, j \in 1 .. n : i < j => s[i] # s[j] /\ Apart(s[i], q) <= Apart(s[j], q)
            /\ n > 0 => \A o \in points \ Range(s) : Apart(s[n], q) <= Apart(o, q)}

\* Mutant: a point is left out if it has enough neighbours, however far.
Fate_Enough(near, numMatch, p) ==
    IF near = <<>> THEN "sample"
    ELSE IF \A x \in Axes : Distance(Double(near[1])[x], MidPoint(p)[x]) > CellSize THEN "add"
    ELSE IF Len(near) = numMatch THEN "skip" ELSE "sample"
\* What becomes of a point of the scan.  near are the points found round the
\* place it had in the last search, at most numMatch, nearest first; none
\* before the filter has started.
Fate(near, numMatch, p) ==
    IF near = <<>> THEN "sample"
    ELSE IF \A x \in Axes : Distance(Double(near[1])[x], MidPoint(p)[x]) > CellSize THEN "add"
    ELSE IF Len(near) = numMatch /\ \E i \in 1 .. numMatch : Off(near[i], MidPoint(p)) < Off(p, MidPoint(p)) THEN "skip"
    ELSE "sample"

\* The map with a point more, downsampled: AddSampled in three dimensions.
WithSampled(points, p) ==
    LET found == {x \in points : CellAt(x) = CellAt(p)}
    IN  (points \ found) \cup {Closest([x \in found \cup {p} |-> Off(x, MidPoint(p))], p)}
\* scan is a sequence of points, near[i] the neighbours kept for the i-th.
MapIncremental(points, scan, near, numMatch) ==
    LET chosen(f) == {i \in DOMAIN scan : Fate(near[i], numMatch, scan[i]) = f}
        toAdd == SelectSeq([i \in DOMAIN scan |-> i], LAMBDA i : i \in chosen("sample"))
    IN  FoldLeft(LAMBDA S, i : WithSampled(S, scan[i]), points, toAdd) \cup {scan[i] : i \in chosen("add")}

----------------------------------------------------------------------------
(* The cube.  r is the range of the lidar; margin is 1.5 r.                *)

Margin(r) == (3 * r) \div 2
MovDist(length, r) == Max({((length - 2 * Margin(r)) * 9) \div 20, r \div 2})
CubeAt(pos, length) == [x \in 1 .. 2 |-> [min |-> pos[x] - length \div 2, max |-> pos[x] + length \div 2]]

Low(cube, pos, r, x) == Distance(pos[x], cube[x].min) <= Margin(r)
High(cube, pos, r, x) == ~ Low(cube, pos, r, x) /\ Distance(pos[x], cube[x].max) <= Margin(r)
NeedMove(cube, pos, r) == \E x \in 1 .. 2 : Low(cube, pos, r, x) \/ High(cube, pos, r, x)

Moved(cube, pos, length, r) ==
    [x \in 1 .. 2 |->
        LET by == IF Low(cube, pos, r, x) THEN -MovDist(length, r)
                  ELSE IF High(cube, pos, r, x) THEN MovDist(length, r) ELSE 0
        IN  [min |-> cube[x].min + by, max |-> cube[x].max + by]]
\* Along each axis it moves on, the old cube without what the moved one holds.
CubNeedrm(cube, pos, length, r) ==
    {[cube EXCEPT ![x].min = cube[x].max - MovDist(length, r)] : x \in {y \in 1 .. 2 : Low(cube, pos, r, y)}}
    \cup {[cube EXCEPT ![x].max = cube[x].min + MovDist(length, r)] : x \in {y \in 1 .. 2 : High(cube, pos, r, y)}}
LasermapFovSegment(cube, pos, length, r) ==
    IF NeedMove(cube, pos, r)
    THEN [cube |-> Moved(cube, pos, length, r), removed |-> CubNeedrm(cube, pos, length, r)]
    ELSE [cube |-> cube, removed |-> {}]

----------------------------------------------------------------------------
(* What the map promises.                                                  *)

\* One call on the tree, and on the set of points that it stands for.
Called(t, c) ==
    CASE c.kind = "add" -> AddPoint(t, 1, c.arg)
      [] c.kind = "sample" -> AddSampled(t, c.arg)
      [] c.kind = "strike" -> DeletePoint(t, 1, c.arg)
      [] c.kind = "box" -> DeleteBox(t, 1, c.arg, FALSE)
Meant(S, c) ==
    CASE c.kind = "add" -> S \cup {c.arg}
      [] c.kind = "sample" ->
            LET cell == {p \in S : Cell(p) = Cell(c.arg)}
            IN  (S \ cell) \cup {Sampled(cell, c.arg)}
      [] c.kind = "strike" -> S \ {c.arg}
      [] c.kind = "box" -> {p \in S : ~ InBox(p, c.arg)}
RECURSIVE AllCalled(_, _)
AllCalled(t, calls) == IF calls = <<>> THEN t ELSE AllCalled(Called(t, Head(calls)), Tail(calls))
RECURSIVE AllMeant(_, _)
AllMeant(S, calls) == IF calls = <<>> THEN S ELSE AllMeant(Meant(S, Head(calls)), Tail(calls))

\* No call adds a point that the map already holds.
AddsNew(points, calls) ==
    \A i \in DOMAIN calls : calls[i].kind = "add" => calls[i].arg \notin AllMeant(Range(points), SubSeq(calls, 1, i - 1))

\* The tree t after any calls holds the points that were meant, counts them
\* right, and searches of every kind find exactly what they should.
MapIsItsPoints(points, calls, t, queries) ==
    LET held == AllMeant(Range(points), calls)
    IN  AddsNew(points, calls) =>
        /\ Visible(t, 1) = held
        /\ Validnum(t) = Cardinality(held)
        /\ \A q \in queries, r \in 0 .. 3 :
              /\ SearchByRadius(t, 1, q, r).found = {p \in held : Distance(p, q) <= r}
              /\ SearchByRange(t, 1, [min |-> q, max |-> q + r]).found = {p \in held : q <= p /\ p < q + r}
        /\ \A q \in queries, k \in 1 .. 3, max \in {2, 1000} :
              LET best == NearestSearch(t, q, k, max).best
                  within == {p \in held : Distance(p, q) <= max}
              IN  /\ best \subseteq within
                  /\ Cardinality(best) = Min({k, Cardinality(within)})
                  /\ \A p \in best, o \in within \ best : Distance(p, q) <= Distance(o, q)

\* Taking a deletion back never brings a point of downsampling back and never
\* loses one that is held: revived is the tree t after Add_by_range.
RevivalIsSafe(points, calls, t, revived) ==
    LET before == Visible(t, 1)
        after == Visible(revived, 1)
        \* the points that downsampling has taken and nothing has added since
        sampled == {p \in Range(points) : p \notin before /\ ~ \E i \in DOMAIN calls :
                       \/ calls[i].kind = "box" /\ InBox(p, calls[i].arg)
                       \/ calls[i].kind \in {"add", "strike"} /\ p = calls[i].arg}
    IN  before \subseteq after /\ after \cap sampled = {}

\* After a scan every point of it has a point of the map in its own cell or in
\* one that touches it, wherever its neighbours were searched, and a cell that
\* held a point still holds one.  A neighbour in a touching cell may keep a point
\* out of an empty one.
ScanIsCovered(points, scan, after) ==
    /\ \A i \in DOMAIN scan : \E h \in after : \A x \in Axes : Distance(CellAt(h)[x], CellAt(scan[i])[x]) <= 1
    /\ \A p \in points : \E h \in after : CellAt(h) = CellAt(p)

\* A move forgets exactly what the cube has left behind.  If the cube is wider
\* than two margins and a move, a robot that has gone less than a move past a
\* margin is then inside with no further move due.
CubeFollows(cube, pos, length, r, samples) ==
    LET m == LasermapFovSegment(cube, pos, length, r)
        Inside(p, c) == \A x \in 1 .. 2 : InBox(p[x], c[x])
        Near == \A x \in 1 .. 2 : /\ pos[x] - cube[x].min > Margin(r) - MovDist(length, r)
                                  /\ cube[x].max - pos[x] > Margin(r) - MovDist(length, r)
    IN  /\ \A p \in samples : Inside(p, cube) =>
              (~ Inside(p, m.cube) <=> \E b \in m.removed : Inside(p, b))
        /\ length - 2 * Margin(r) > MovDist(length, r) /\ Near => Inside(pos, m.cube) /\ ~ NeedMove(m.cube, pos, r)
============================================================================
