------------------------------ MODULE IkdTree ------------------------------
(***************************************************************************)
(* The incremental kd-tree as operators on a value.  A tree is a function  *)
(* from positions to nodes: the root is at position 1, the sons of n at    *)
(* 2n and 2n+1, so that the pointer to a node's slot, which is what the    *)
(* code passes around, is a position and a father is n halved.  Points     *)
(* have one coordinate; a box is a half-open interval.                     *)
(*                                                                         *)
(* Deleting a whole subtree only marks its root; Push_Down carries the     *)
(* marks one level down whenever a node is visited.                        *)
(***************************************************************************)
EXTENDS Integers, Sequences, FiniteSets, FiniteSetsExt, SequencesExt

CONSTANTS
  DeletePercent,      \* delete_criterion_param, 50 %
  BalancePercent,     \* balance_criterion_param, 60 %
  MinimalUnbalanced,  \* Minimal_Unbalanced_Tree_Size
  CellSize            \* downsample_size

ASSUME TreeAssumption ==
  /\ DeletePercent \in 0 .. 100 /\ BalancePercent \in 50 .. 100
  /\ MinimalUnbalanced \in Nat \ {0} /\ CellSize \in Nat \ {0}

Father(n) == n \div 2
Side(n) == n % 2
Sons(t, n) == {2 * n, 2 * n + 1} \cap DOMAIN t
Within(m, n) == \E k \in 0 .. 8 : m \div 2^k = n
Subtree(t, n) == {m \in DOMAIN t : Within(m, n)}
Path(t, n) == {m \in DOMAIN t : Within(n, m)}

\* A recursion does something at a node on its way down, before it comes to the
\* sons, and on its way up, after them.  What it does at a node changes nothing
\* but that node and its sons: the nodes can be taken in the order of their
\* positions, and the recursion is a fold.
Down(Do(_, _), t, S) == MapThenFoldSet(LAMBDA n, u : Do(u, n), t, LAMBDA n : n, Max, S)
Up(Do(_, _), t, S) == MapThenFoldSet(LAMBDA n, u : Do(u, n), t, LAMBDA n : n, Min, S)

\* push holds the sides with a need_push_down flag, busy is working_flag.
Leaf(p) ==
  [pt |-> p, del |-> FALSE, ddel |-> FALSE, tdel |-> FALSE, tddel |-> FALSE,
   size |-> 1, inv |-> 0, down |-> 0, push |-> {}, busy |-> FALSE,
   lo |-> p, hi |-> p]

Indicator(b) == IF b THEN 1 ELSE 0

\* Mutant: the range of a node leaves out its right son.
Spanning_Left(t, n) ==
  LET node == t[n]
      used == {s \in Sons(t, n) : Side(s) = 0 /\ ~t[s].tdel}
  IN [lo |-> Min({t[s].lo : s \in used} \cup {node.pt}),
      hi |-> Max({t[s].hi : s \in used} \cup {node.pt})]

\* The range of a node: of what is not deleted, or of everything if all is.
Spanning(t, n) ==
  LET node == t[n]
      alive == {s \in Sons(t, n) : ~t[s].tdel}
      gone == node.del /\ alive = {}
      used == IF gone THEN Sons(t, n) ELSE alive
      own == IF gone \/ ~node.del THEN {node.pt} ELSE {}
  IN [lo |-> Min({t[s].lo : s \in used} \cup own),
      hi |-> Max({t[s].hi : s \in used} \cup own)]

\* Update: a node's counts, marks and range from its sons.
Update(t, n) ==
  LET node == t[n]
      sons == Sons(t, n)
      span == Spanning(t, n)
  IN (n :> [node EXCEPT
        !.size = 1 + MapThenSumSet(LAMBDA s : t[s].size, sons),
        !.inv = Indicator(node.del) + MapThenSumSet(LAMBDA s : t[s].inv, sons),
        !.down = Indicator(node.ddel) + MapThenSumSet(LAMBDA s : t[s].down, sons),
        !.tddel = node.ddel /\ \A s \in sons : t[s].tddel,
        !.tdel = node.del /\ \A s \in sons : t[s].tdel,
        !.lo = span.lo, !.hi = span.hi]) @@ t

\* What a node takes over from its father's marks; also the logged PUSH_DOWN.
Inherit(node, tdel, tddel) ==
  LET tddel2 == node.tddel \/ tddel
      ddel2 == node.ddel \/ tddel
      down2 == IF tddel THEN node.size ELSE node.down
  IN [node EXCEPT !.tddel = tddel2, !.ddel = ddel2,
        !.tdel = tdel \/ tddel2,
        !.del = tdel \/ tddel2 \/ ddel2,
        !.down = down2,
        !.inv = IF tdel THEN node.size ELSE down2,
        !.push = {0, 1}]

\* Sons that a visit of n pushes marks to.
Pending(t, n) == {s \in Sons(t, n) : Side(s) \in t[n].push}

\* Push_Down: the flag of a side without a son stays up.
PushDown(t, n) ==
  LET pending == Pending(t, n)
  IN (n :> [t[n] EXCEPT !.push = @ \ {Side(s) : s \in pending}])
       @@ [s \in pending |-> Inherit(t[s], t[n].tdel, t[n].tddel)] @@ t

\* The tree once flatten has visited the subtree at n, and the valid points it
\* collects there, in order.
PushAll(t, n) == Down(PushDown, t, Subtree(t, n))

InOrder(t, n) ==
  LET walk[m \in Nat] ==
        IF m \notin DOMAIN t THEN <<>>
        ELSE walk[2 * m] \o (IF t[m].del THEN <<>> ELSE <<t[m].pt>>) \o walk[2 * m + 1]
  IN walk[n]

Flatten(t, n) == InOrder(PushAll(t, n), n)

\* The points a tree holds; a point held twice makes NoTwins false.
Visible(t, n) == Range(Flatten(t, n))
NoTwins(t, n) == LET f == Flatten(t, n) IN Cardinality(Range(f)) = Len(f)

Ascending(S) ==
  [i \in 1 .. Cardinality(S) |-> CHOOSE p \in S : Cardinality({q \in S : q < p}) = i - 1]

\* BuildTree: a balanced tree at position n over points in order.
BuildTree(n, points) ==
  LET build[m \in Nat, l \in Nat, r \in Nat] ==
        IF l > r THEN <<>>
        ELSE LET mid == (l + r) \div 2
             IN Update((m :> Leaf(points[mid])) @@ build[2 * m, l, mid - 1]
                         @@ build[2 * m + 1, mid + 1, r], m)
  IN build[n, 1, Len(points)]

\* The tree with the subtree at n replaced.
Graft(t, n, sub) == sub @@ [m \in DOMAIN t \ Subtree(t, n) |-> t[m]]

-----------------------------------------------------------------------------
(* Boxes.                                                                  *)

InBox(p, box) == box.min <= p /\ p < box.max
Disjoint(node, box) == box.max <= node.lo \/ box.min > node.hi
Covers(node, box) == box.min <= node.lo /\ box.max > node.hi

Cell(p) == LET min == (p \div CellSize) * CellSize
           IN [min |-> min, max |-> min + CellSize]
\* Twice the distance of p to the middle of its cell.
OffCentre(p) == LET d == 2 * p - (Cell(p).min + Cell(p).max)
                IN IF d >= 0 THEN d ELSE -d

-----------------------------------------------------------------------------
(* The operations, inside one call that holds all the locks it needs or    *)
(* works on a tree nobody else has.                                        *)

\* Delete_by_range marks a node whose range lies in the box.
MarkAll(t, n, downsample) ==
  (n :> [t[n] EXCEPT
     !.tdel = TRUE, !.del = TRUE, !.push = {0, 1}, !.inv = t[n].size,
     !.tddel = @ \/ downsample, !.ddel = @ \/ downsample,
     !.down = IF downsample THEN t[n].size ELSE @]) @@ t

\* A visit of n up to its sons: Enter. What it does to the sons is left to the
\* caller, because the rebuild thread may own one of them.
Busy(t, n, b) == (n :> [t[n] EXCEPT !.busy = b]) @@ t
Enter(t, n) == PushDown(Busy(t, n, TRUE), n)
DeleteOwn(t, n, box, downsample) ==
  IF ~t[n].del /\ InBox(t[n].pt, box)
  THEN (n :> [t[n] EXCEPT !.del = TRUE, !.ddel = @ \/ downsample]) @@ t
  ELSE t
Done(t, n) == Busy(t, n, FALSE)

\* Sons are visited below the nodes that the box cuts.
Visited(s, m, n) == m = n \/ Father(m) \in s.cut
Finished(t, n) == Done(Update(t, n), n)

DeleteByRange(t, n, box, downsample) ==
  LET Visit(s, m) ==
        LET u == Enter(s.tree, m)
        IN IF ~Visited(s, m, n) \/ s.tree[m].tdel THEN s
           ELSE IF Disjoint(u[m], box) THEN [s EXCEPT !.tree = u]
           ELSE IF Covers(u[m], box) THEN [s EXCEPT !.tree = MarkAll(u, m, downsample)]
           ELSE [tree |-> DeleteOwn(u, m, box, downsample), cut |-> s.cut \cup {m}]
      down == Down(Visit, [tree |-> t, cut |-> {}], Subtree(t, n))
  IN Up(Finished, down.tree, down.cut)

\* The side of n that a point goes to.
SideOf(t, n, p) == IF p < t[n].pt THEN 2 * n ELSE 2 * n + 1

AddByPoint(t, n, p) ==
  LET descend[m \in Nat] == IF m \notin DOMAIN t THEN m ELSE descend[SideOf(t, m, p)]
      new == descend[n]
      path == Path(t, new) \cap Subtree(t, n)
  IN Up(Finished, (new :> Leaf(p)) @@ Down(Enter, t, path), path)

\* run_operation, and what an operation does under working_flag_mutex.
RunOperation(t, n, op) ==
  CASE op.op = "ADD_POINT" -> AddByPoint(t, n, op.arg)
    [] op.op = "DELETE_BOX" -> DeleteByRange(t, n, op.arg, FALSE)
    [] op.op = "DOWNSAMPLE_DELETE" -> DeleteByRange(t, n, op.arg, TRUE)
    [] op.op = "PUSH_DOWN" -> (n :> Inherit(t[n], op.arg.tdel, op.arg.tddel)) @@ t

\* Criterion_Check.
CriterionCheck(t, n) ==
  LET node == t[n]
      son == IF 2 * n \in DOMAIN t THEN 2 * n ELSE 2 * n + 1
      balance == 100 * t[son].size
  IN /\ node.size > MinimalUnbalanced
     /\ \/ 100 * node.inv > DeletePercent * node.size
        \/ balance > BalancePercent * (node.size - 1)
        \/ balance < (100 - BalancePercent) * (node.size - 1)

-----------------------------------------------------------------------------
(* The searches.  Both push marks down on their way, so both also give the *)
(* tree they leave behind.                                                 *)

SearchByRange(t, n, box) ==
  LET Visit(s, m) ==
        LET u == PushDown(s.tree, m)
            own == IF ~u[m].del /\ InBox(u[m].pt, box) THEN {u[m].pt} ELSE {}
        IN IF ~Visited(s, m, n) THEN s
           ELSE IF Disjoint(u[m], box) THEN [s EXCEPT !.tree = u]
           ELSE IF Covers(u[m], box)
           THEN [s EXCEPT !.tree = PushAll(u, m), !.found = @ \cup Visible(u, m)]
           ELSE [tree |-> u, found |-> s.found \cup own, cut |-> s.cut \cup {m}]
  IN Down(Visit, [tree |-> t, found |-> {}, cut |-> {}], Subtree(t, n))

Distance(p, q) == IF p >= q THEN p - q ELSE q - p
\* calc_box_dist
BoxDistance(t, n, q) ==
  IF q < t[n].lo THEN t[n].lo - q ELSE IF q > t[n].hi THEN q - t[n].hi ELSE 0

\* Search for the nearest point (k_nearest = 1): best is the set of it.  The
\* nearer son comes first, and a son is left out if it cannot be better.  What a
\* visit pushes down is all that later visits below it see of the marks above.
Search(t, n, q, best) ==
  LET u == PushAll(t, n)
      Better(d, b) == \A p \in b : d < Distance(p, q)
      visit[m \in Nat, b \in SUBSET Int] ==
        IF m \notin DOMAIN u \/ u[m].tdel THEN [best |-> b, seen |-> {}]
        ELSE LET own == IF ~u[m].del /\ Better(Distance(u[m].pt, q), b) THEN {u[m].pt} ELSE b
                 Visit(r, s) ==
                   IF s \in DOMAIN u /\ Better(BoxDistance(u, s, q), r.best)
                   THEN LET below == visit[s, r.best]
                        IN [best |-> below.best, seen |-> r.seen \cup below.seen]
                   ELSE r
                 near == IF Sons(u, m) = {2 * m, 2 * m + 1}
                            /\ BoxDistance(u, 2 * m, q) > BoxDistance(u, 2 * m + 1, q)
                         THEN 2 * m + 1 ELSE 2 * m
             IN Visit(Visit([best |-> own, seen |-> {m}], near), 4 * m + 1 - near)
      found == visit[n, best]
  IN [tree |-> Down(PushDown, t, found.seen), best |-> found.best]
=============================================================================
