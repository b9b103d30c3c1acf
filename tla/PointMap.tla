------------------------------ MODULE PointMap ------------------------------
(***************************************************************************)
(* What the map promises its user: a set of points that changes only when  *)
(* a call of Add_Points or Delete_Point_Boxes returns, and then exactly as *)
(* the call says.  Rebuilding does not show.                               *)
(***************************************************************************)
EXTENDS Integers, FiniteSets

CONSTANTS Calls,    \* the calls: [kind |-> "add" | "insert" | "delete", arg |-> ...]
          CellOf(_),    \* the downsampling cell of a point
          OffCentre(_)  \* how far a point is from the middle of its cell

VARIABLES points, call

NoCall == [kind |-> "none", arg |-> 0]

\* A point inserted with downsampling: of the points in its cell the one closest
\* to the middle stays, and the new one wins a tie.
Inserted(S, p) ==
  LET cell == {q \in S : CellOf(q) = CellOf(p)}
      closer == {q \in cell : OffCentre(q) < OffCentre(p)}
      Closest == CHOOSE q \in closer : \A r \in closer : OffCentre(q) <= OffCentre(r)
  IN IF closer = {} THEN (S \ cell) \cup {p}
     ELSE IF Cardinality(cell) = 1 THEN S
     ELSE (S \ cell) \cup {Closest}

Result(S, c) ==
  CASE c.kind = "add" -> S \cup {c.arg}
    [] c.kind = "insert" -> Inserted(S, c.arg)
    [] c.kind = "delete" -> {p \in S : ~(c.arg.min <= p /\ p < c.arg.max)}

MapInit == points \subseteq Int /\ call = NoCall

Invoke == call = NoCall /\ call' \in Calls /\ UNCHANGED points
Answer == call # NoCall /\ call' = NoCall /\ points' = Result(points, call)

MapNext == Invoke \/ Answer
=============================================================================
