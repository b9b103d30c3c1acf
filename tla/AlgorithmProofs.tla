--------------------------- MODULE AlgorithmProofs ---------------------------
(***************************************************************************)
(* Proofs about the sequential parts: what Promises says of their answers  *)
(* to questions of any size.                                               *)
(*                                                                         *)
(* The parts are loops, written as functions defined along 0 .. n.  Two    *)
(* facts carry every proof: such a function exists, and what holds at 0    *)
(* and is passed on from each place to the next holds everywhere.          *)
(***************************************************************************)
EXTENDS Promises, SequenceTheorems, FiniteSetTheorems, NaturalsInduction, WellFoundedInduction, TLAPS

\* What holds at 0 and is passed on holds up to n.  P is the set of the places
\* where it holds.
LEMMA Induction ==
  ASSUME NEW n \in Nat, NEW P, 0 \in P,
         \A i \in 0 .. n : i # n /\ i \in P => i + 1 \in P
  PROVE  0 .. n \subseteq P
  <1> DEFINE Bad == {i \in 0 .. n : i \notin P}
  <1> SUFFICES ASSUME Bad # {} PROVE FALSE
    OBVIOUS
  <1>1. Bad \subseteq Nat
    OBVIOUS
  <1>2. \E x \in Bad : \A y \in Bad : ~(<<y, x>> \in OpToRel(<, Nat))
    BY <1>1, NatLessThanWellFounded, WFMin
  <1>3. PICK x \in Bad : \A y \in Bad : x <= y
    <2>1. \A x, y \in Bad : ~(<<y, x>> \in OpToRel(<, Nat)) => x <= y
      BY <1>1 DEF OpToRel
    <2> QED
      BY <1>2, <2>1
  <1>4. x # 0 /\ x - 1 \in 0 .. n /\ x - 1 # n /\ (x - 1) + 1 = x /\ ~(x <= x - 1)
    OBVIOUS
  <1>5. x - 1 \in P
    BY <1>3, <1>4
  <1> QED
    BY <1>4, <1>5

\* f has the values of a loop that makes each from the one before and the number
\* of the round.
Loops(f, n, V, base, step) ==
  f \in [0 .. n -> V] /\ f[0] = base /\ \A i \in 1 .. n : f[i] = step[<<i, f[i - 1]>>]

\* There is such a function.
LEMMA Recursion ==
  ASSUME NEW n \in Nat, NEW V, NEW base \in V, NEW step \in [(1 .. n) \X V -> V]
  PROVE  \E f : Loops(f, n, V, base, step)
  <1> DEFINE Solves(f, k) ==
               f[0] = base /\ \A i \in 1 .. k : f[i] = step[<<i, f[i - 1]>>]
             P == {k \in 0 .. n : \E f \in [0 .. k -> V] : Solves(f, k)}
  <1>1. 0 \in P
    <2> DEFINE z == [i \in 0 .. 0 |-> base]
    <2>1. z \in [0 .. 0 -> V] /\ z[0] = base
      OBVIOUS
    <2>2. Solves(z, 0)
      BY <2>1
    <2> HIDE DEF Solves, z
    <2>3. \E f \in [0 .. 0 -> V] : Solves(f, 0)
      BY <2>1, <2>2
    <2> QED
      BY <2>3
  <1>2. ASSUME NEW k \in 0 .. n, k # n, k \in P
        PROVE  k + 1 \in P
    <2>1. PICK f \in [0 .. k -> V] : Solves(f, k)
      BY <1>2
    <2> DEFINE g == [i \in 0 .. k + 1 |-> IF i = k + 1 THEN step[<<k + 1, f[k]>>] ELSE f[i]]
    <2>2. k + 1 \in 0 .. n /\ k + 1 \in 1 .. n /\ k \in 0 .. k
      BY <1>2
    <2>3. step[<<k + 1, f[k]>>] \in V
      BY <2>2
    <2>4. g \in [0 .. k + 1 -> V]
      <3>1. \A i \in 0 .. k + 1 : i # k + 1 => i \in 0 .. k
        OBVIOUS
      <3> QED
        BY <2>3, <3>1
    <2>5. g[0] = base
      BY <2>1
    <2>6. ASSUME NEW i \in 1 .. k + 1
          PROVE  g[i] = step[<<i, g[i - 1]>>]
      <3>1. i - 1 \in 0 .. k /\ i - 1 \in 0 .. k + 1 /\ i - 1 # k + 1
        OBVIOUS
      <3>2. g[i - 1] = f[i - 1]
        BY <3>1
      <3>3. CASE i = k + 1
        <4>1. g[i] = step[<<k + 1, f[k]>>] /\ i - 1 = k
          BY <3>3
        <4> QED
          BY <3>2, <3>3, <4>1
      <3>4. CASE i # k + 1
        <4>1. i \in 1 .. k /\ g[i] = f[i]
          BY <3>4
        <4> QED
          BY <2>1, <3>2, <4>1
      <3> QED
        BY <3>3, <3>4
    <2> QED
      BY <2>2, <2>4, <2>5, <2>6
  <1>3. n \in P
    <2>1. 0 .. n \subseteq P
      <3> HIDE DEF P
      <3> QED
        BY <1>1, <1>2, Induction
    <2> QED
      BY <2>1
  <1> QED
    BY <1>3 DEF Loops

-----------------------------------------------------------------------------
(* The filter's update.                                                    *)

Filters(n) ==
  [estimate : Nat, covariance : [updated : BOOLEAN, about : Int],
   points : [1 .. n -> [searched : Int, selected : BOOLEAN]], converge : BOOLEAN,
   t : Nat, looks : Nat, done : BOOLEAN, used : SUBSET (1 .. n)]

\* The next look searches, or the last one did so after a correction.
Fresh(f) == f.converge \/ \A i \in DOMAIN f.points : f.points[i].searched > 0

\* A filter after k of the maximum + 1 iterations, if it has not ended ...
Underway(f, k, maximum) ==
  /\ ~f.done /\ f.looks = k /\ f.estimate <= k
  /\ f.estimate = 0 <=> f.used = {}
  /\ f.covariance = [updated |-> FALSE,
                     about |-> f.estimate - (IF f.estimate = 0 THEN 0 ELSE 1)]
  /\ f.t <= 1 /\ (f.t = 1 => f.estimate > 0 /\ Fresh(f))
  /\ \A i \in DOMAIN f.points :
        f.points[i].selected => f.points[i].searched \in 0 .. f.estimate
  /\ k = maximum /\ k > 0 /\ f.estimate = f.looks => Fresh(f)
  /\ k = maximum + 1 => ~Filter!Valid(f)

\* ... and if it has.
Ended(f, maximum) ==
  f.done /\ Filter!UpdateIsFinished(f, maximum) /\ Filter!NeighboursAreLate(f, maximum)

UpdateInv(f, k, maximum) == Underway(f, k, maximum) \/ Ended(f, maximum)

LEMMA UpdateStarts ==
  ASSUME NEW n \in Nat, NEW maximum \in Nat
  PROVE  Filter!Predicted(n) \in Filters(n) /\ UpdateInv(Filter!Predicted(n), 0, maximum)
  <1> DEFINE f == Filter!Predicted(n)
  <1>1. f \in Filters(n)
    BY DEF Filter!Predicted, Filter!Unsearched, Filters
  <1>2. Underway(f, 0, maximum)
    BY DEF Filter!Predicted, Filter!Unsearched, Underway, Fresh
  <1> QED
    BY <1>1, <1>2 DEF UpdateInv

\* A look leaves all but the points alone.  It searches for all of them or for
\* none, and whom it selects it has searched for, now or before.
LEMMA LookStep ==
  ASSUME NEW n \in Nat, NEW maximum \in Nat, NEW k \in Nat,
         NEW f \in Filters(n), Underway(f, k, maximum),
         NEW a \in SUBSET (1 .. n), NEW b \in SUBSET (1 .. n)
  PROVE  LET g == [Filter!Shared(f, a, b) EXCEPT !.looks = @ + 1]
         IN  /\ g \in Filters(n)
             /\ g.estimate = f.estimate /\ g.covariance = f.covariance
             /\ g.converge = f.converge /\ g.t = f.t /\ g.looks = k + 1
             /\ g.done = f.done /\ g.used = f.used
             /\ \A i \in 1 .. n :
                  /\ g.points[i].selected => g.points[i].searched \in 0 .. f.estimate
                  /\ f.estimate > 0 /\ Fresh(f) => g.points[i].searched > 0
  <1> DEFINE points == [i \in DOMAIN f.points |-> Filter!Looked(f, i, a, b)]
             g == [Filter!Shared(f, a, b) EXCEPT !.looks = @ + 1]
  <1>1. f.points \in [1 .. n -> [searched : Int, selected : BOOLEAN]] /\ f.estimate \in Nat
    BY DEF Filters
  <1>2. ASSUME NEW i \in 1 .. n
        PROVE  /\ Filter!Looked(f, i, a, b) \in [searched : Int, selected : BOOLEAN]
               /\ Filter!Looked(f, i, a, b).selected
                    => Filter!Looked(f, i, a, b).searched \in 0 .. f.estimate
               /\ f.estimate > 0 /\ Fresh(f) => Filter!Looked(f, i, a, b).searched > 0
    <2>1. f.points[i] \in [searched : Int, selected : BOOLEAN] /\ i \in DOMAIN f.points
      BY <1>1
    <2>2. f.points[i].selected => f.points[i].searched \in 0 .. f.estimate
      BY <2>1 DEF Underway
    <2>3. Filter!Searched(f, i, a) = IF f.converge THEN [searched |-> f.estimate, selected |-> i \in a]
                                                   ELSE f.points[i]
      BY DEF Filter!Searched
    <2>4. Filter!Looked(f, i, a, b) =
            [Filter!Searched(f, i, a) EXCEPT !.selected = @ /\ i \in b]
      BY DEF Filter!Looked
    <2> DEFINE old == Filter!Searched(f, i, a)
               new == Filter!Looked(f, i, a, b)
    <2>5. /\ old \in [searched : Int, selected : BOOLEAN]
          /\ old.selected => old.searched \in 0 .. f.estimate
          /\ f.estimate > 0 /\ Fresh(f) => old.searched > 0
      <3>1. CASE f.converge
        BY <1>1, <2>3, <3>1
      <3>2. CASE ~f.converge
        BY <2>1, <2>2, <2>3, <3>2 DEF Fresh
      <3> QED
        BY <3>1, <3>2
    <2> HIDE DEF old, new
    <2>6. new = [old EXCEPT !.selected = @ /\ i \in b]
      BY <2>4 DEF new, old
    <2>7. /\ new \in [searched : Int, selected : BOOLEAN]
          /\ new.searched = old.searched /\ (new.selected => old.selected)
      BY <2>5, <2>6
    <2>8. /\ new.selected => new.searched \in 0 .. f.estimate
          /\ f.estimate > 0 /\ Fresh(f) => new.searched > 0
      BY <2>5, <2>7
    <2> QED
      BY <2>7, <2>8 DEF new
  <1>3. points \in [1 .. n -> [searched : Int, selected : BOOLEAN]]
    BY <1>1, <1>2
  <1>4. g = [f EXCEPT !.points = points, !.looks = @ + 1]
    BY DEF Filter!Shared, Filters
  <1>5. \A i \in 1 .. n : points[i] = Filter!Looked(f, i, a, b)
    BY <1>1
  <1> HIDE DEF points
  <1>6. g.points = points
    BY <1>4 DEF Filters
  <1>7. /\ g \in Filters(n)
        /\ g.estimate = f.estimate /\ g.covariance = f.covariance
        /\ g.converge = f.converge /\ g.t = f.t /\ g.looks = k + 1
        /\ g.done = f.done /\ g.used = f.used
    <2>1. f.looks = k
      BY DEF Underway
    <2>2. f.looks + 1 = k + 1 /\ k + 1 \in Nat
      BY <2>1
    <2>3. f \in Filters(n)
      OBVIOUS
    <2> QED
      BY <1>3, <1>4, <2>2, <2>3 DEF Filters
  <1> HIDE DEF g
  <1>8. \A i \in 1 .. n :
                  /\ g.points[i].selected => g.points[i].searched \in 0 .. f.estimate
                  /\ f.estimate > 0 /\ Fresh(f) => g.points[i].searched > 0
    BY <1>2, <1>5, <1>6
  <1> QED
    BY <1>7, <1>8 DEF g

\* One iteration: nothing is selected, or a correction that ends the update or
\* does not.
LEMMA IterateStep ==
  ASSUME NEW n \in Nat, NEW maximum \in Nat, NEW k \in 0 .. maximum,
         NEW f \in Filters(n), Underway(f, k, maximum),
         NEW a \in SUBSET (1 .. n), NEW b \in SUBSET (1 .. n), NEW small \in BOOLEAN
  PROVE  LET h == Filter!Iterated(f, k - 1, maximum, a, b, small)
         IN  h \in Filters(n) /\ UpdateInv(h, k + 1, maximum)
  <1> DEFINE g == [Filter!Shared(f, a, b) EXCEPT !.looks = @ + 1]
             c == Filter!Corrected(g, small)
             d == Filter!Forced(c, k - 1, maximum)
             h == Filter!Iterated(f, k - 1, maximum, a, b, small)
  <1>1. /\ g \in Filters(n)
        /\ g.estimate = f.estimate /\ g.covariance = f.covariance
        /\ g.converge = f.converge /\ g.t = f.t /\ g.looks = k + 1
        /\ g.done = f.done /\ g.used = f.used
        /\ \A i \in 1 .. n :
             /\ g.points[i].selected => g.points[i].searched \in 0 .. f.estimate
             /\ f.estimate > 0 /\ Fresh(f) => g.points[i].searched > 0
    BY LookStep, k \in Nat
  <1>2. h = IF ~Filter!Valid(g) THEN g
            ELSE IF Filter!Ends(d, k - 1, maximum) THEN Filter!Finished(d) ELSE d
    BY DEF Filter!Iterated
  <1>3. /\ f.estimate \in Nat /\ f.t \in Nat /\ f.estimate <= k /\ f.looks = k /\ ~f.done
        /\ f.t <= 1
        /\ f.t = 1 => f.estimate > 0 /\ Fresh(f)
        /\ k = maximum /\ k > 0 /\ f.estimate = k => Fresh(f)
    BY DEF Filters, Underway
  <1> DEFINE Allsearched == \A i \in 1 .. n : g.points[i].searched > 0
  <1>4. f.estimate > 0 /\ Fresh(f) => Allsearched
    BY <1>1
  <1>5. DOMAIN g.points = 1 .. n /\ g.points \in [1 .. n -> [searched : Int, selected : BOOLEAN]]
    BY <1>1 DEF Filters
  <1> HIDE DEF g
  <1>6. CASE ~Filter!Valid(g)
    <2>1. Fresh(f) /\ f.estimate > 0 => Fresh(g)
      BY <1>4, <1>5 DEF Fresh
    <2>2. Underway(g, k + 1, maximum)
      BY <1>1, <1>3, <1>5, <1>6, <2>1 DEF Underway
    <2> QED
      BY <1>1, <1>2, <1>6, <2>2 DEF UpdateInv
  <1>7. CASE Filter!Valid(g)
    <2> DEFINE used == Filter!Selected(g)
               t == IF small THEN f.t + 1 ELSE f.t
               converge == (t = 0 /\ k + 1 = maximum) \/ small
    <2>1. used \subseteq 1 .. n /\ used # {} /\ \A i \in used : g.points[i].selected
      BY <1>5, <1>7 DEF Filter!Valid, Filter!Selected
    <2>2. t \in Nat /\ converge \in BOOLEAN
      BY <1>3
    <2>3. /\ c \in Filters(n)
          /\ c.estimate = f.estimate + 1 /\ c.used = used /\ c.t = t /\ c.looks = k + 1
          /\ c.covariance = [updated |-> FALSE, about |-> f.estimate]
          /\ c.points = g.points /\ c.converge = small /\ c.done = FALSE
      <3>1. c = [g EXCEPT !.estimate = f.estimate + 1,
                          !.covariance = [updated |-> FALSE, about |-> f.estimate],
                          !.used = used, !.converge = small, !.t = t]
        BY <1>1, <1>3 DEF Filter!Corrected, Filters
      <3>2. [updated |-> FALSE, about |-> f.estimate] \in [updated : BOOLEAN, about : Int]
              /\ f.estimate + 1 \in Nat
        BY <1>3
      <3> HIDE DEF c, t, used
      <3> QED
        BY <1>1, <1>3, <2>1, <2>2, <3>1, <3>2 DEF Filters
    <2>4. /\ d \in Filters(n)
          /\ d.estimate = f.estimate + 1 /\ d.used = used /\ d.t = t /\ d.looks = k + 1
          /\ d.covariance = [updated |-> FALSE, about |-> f.estimate]
          /\ d.points = g.points /\ d.converge = converge /\ d.done = FALSE
      <3>1. d = IF t = 0 /\ k - 1 = maximum - 2 THEN [c EXCEPT !.converge = TRUE] ELSE c
        BY <2>3 DEF Filter!Forced
      <3>2. k - 1 = maximum - 2 <=> k + 1 = maximum
        OBVIOUS
      <3> HIDE DEF c, d, t, used
      <3>3. CASE t = 0 /\ k + 1 = maximum
        <4>1. d = [c EXCEPT !.converge = TRUE]
          BY <3>1, <3>2, <3>3
        <4> QED
          BY <2>3, <3>3, <4>1 DEF Filters
      <3>4. CASE ~(t = 0 /\ k + 1 = maximum)
        BY <2>3, <3>1, <3>2, <3>4
      <3> QED
        BY <3>3, <3>4
    <2>5. f.t = 1 => Allsearched
      BY <1>3, <1>4
    <2> HIDE DEF c, d, used, converge
    <2>6. CASE t > 1 \/ k = maximum
      <3>1. h = [d EXCEPT !.covariance = [updated |-> TRUE, about |-> d.estimate], !.done = TRUE]
        BY <1>2, <1>7, <2>4, <2>6 DEF Filter!Ends, Filter!Finished
      <3>2. /\ h \in Filters(n)
            /\ h.estimate = f.estimate + 1 /\ h.used = used /\ h.t = t /\ h.looks = k + 1
            /\ h.covariance = [updated |-> TRUE, about |-> f.estimate + 1]
            /\ h.points = g.points /\ h.done
        <4>1. [updated |-> TRUE, about |-> d.estimate] \in [updated : BOOLEAN, about : Int]
          BY <1>3, <2>4
        <4> HIDE DEF h
        <4> QED
          BY <2>4, <3>1, <4>1 DEF Filters
      <3> HIDE DEF h, t
      <3>3. Filter!UpdateIsFinished(h, maximum)
        <4>1. h.looks <= maximum + 1 /\ (t > 1 \/ h.looks = maximum + 1) /\ h.estimate # 0
          BY <1>3, <2>6, <3>2
        <4> QED
          BY <3>2, <4>1 DEF Filter!UpdateIsFinished
      <3>4. \A i \in used : g.points[i].searched \in 0 .. f.estimate
        BY <1>1, <2>1
      <3>5. t > 1 \/ (f.estimate + 1 = k + 1 /\ maximum >= 1) => Allsearched
        <4>1. CASE t > 1
          BY <1>3, <2>5, <4>1 DEF t
        <4>2. CASE ~(t > 1) /\ f.estimate + 1 = k + 1 /\ maximum >= 1
          BY <1>3, <1>4, <2>6, <4>2
        <4> QED
          BY <4>1, <4>2
      <3>6. Filter!NeighboursAreLate(h, maximum)
        <4>1. ASSUME NEW i \in h.used
              PROVE  /\ h.points[i].searched \in 0 .. h.estimate - 1
                     /\ h.t > 1 \/ (h.estimate = h.looks /\ maximum >= 1)
                          => h.points[i].searched > 0
          <5>1. i \in used /\ i \in 1 .. n /\ h.points[i] = g.points[i]
            BY <2>1, <3>2
          <5>2. h.estimate - 1 = f.estimate
            BY <1>3, <3>2
          <5> QED
            BY <3>2, <3>4, <3>5, <5>1, <5>2
        <4> QED
          BY <4>1 DEF Filter!NeighboursAreLate
      <3> QED
        BY <3>2, <3>3, <3>6 DEF UpdateInv, Ended, h
    <2>7. CASE ~(t > 1) /\ k # maximum
      <3>1. h = d
        BY <1>2, <1>7, <2>4, <2>7 DEF Filter!Ends
      <3>2. t = 1 => Fresh(d)
        <4>1. CASE small
          BY <2>4, <4>1 DEF Fresh, converge
        <4>2. CASE ~small
          BY <1>5, <2>4, <2>5, <4>2 DEF Fresh
        <4> QED
          BY <4>1, <4>2
      <3>3. k + 1 = maximum => Fresh(d)
        <4>1. CASE t = 0
          BY <2>4, <4>1 DEF Fresh, converge
        <4>2. CASE t = 1
          BY <3>2, <4>2
        <4> QED
          BY <2>2, <2>7, <4>1, <4>2
      <3>4. \A i \in DOMAIN d.points :
               d.points[i].selected => d.points[i].searched \in 0 .. d.estimate
        BY <1>1, <1>3, <1>5, <2>4
      <3> HIDE DEF t
      <3>5. Underway(d, k + 1, maximum)
        <4>1. d.estimate # 0 /\ d.used # {} /\ d.estimate - 1 = f.estimate /\ d.estimate <= k + 1
          BY <1>3, <2>1, <2>4
        <4>2. d.t <= 1 /\ (d.t = 1 => d.estimate > 0 /\ Fresh(d))
          BY <1>3, <2>2, <2>4, <2>7, <3>2
        <4>3. k + 1 # maximum + 1
          BY <2>7
        <4> QED
          BY <2>4, <3>3, <3>4, <4>1, <4>2, <4>3 DEF Underway
      <3> QED
        BY <2>4, <3>1, <3>5 DEF UpdateInv
    <2> QED
      BY <2>6, <2>7
  <1> QED
    BY <1>6, <1>7

\* A round of the update takes filters after k - 1 iterations to such after k.
Good(n, k, maximum) == {f \in Filters(n) : UpdateInv(f, k, maximum)}
Round(k, fs, maximum) == UNION {Filter!Updates(f, k - 2, maximum) : f \in fs}

LEMMA RoundStep ==
  ASSUME NEW n \in Nat, NEW maximum \in Nat, NEW k \in 1 .. maximum + 1,
         NEW fs \in SUBSET Good(n, k - 1, maximum)
  PROVE  Round(k, fs, maximum) \subseteq Good(n, k, maximum)
  <1> SUFFICES ASSUME NEW f \in fs, NEW h \in Filter!Updates(f, k - 2, maximum)
               PROVE  h \in Filters(n) /\ UpdateInv(h, k, maximum)
    BY DEF Round, Good
  <1>1. f \in Filters(n) /\ UpdateInv(f, k - 1, maximum)
    BY DEF Good
  <1>2. CASE f.done
    <2>1. h = f /\ Ended(f, maximum)
      BY <1>1, <1>2 DEF Filter!Updates, UpdateInv, Underway
    <2> QED
      BY <1>1, <2>1 DEF UpdateInv
  <1>3. CASE ~f.done
    <2>1. Underway(f, k - 1, maximum)
      BY <1>1, <1>3 DEF UpdateInv, Ended
    <2>2. DOMAIN f.points = 1 .. n
      BY <1>1 DEF Filters
    <2>3. PICK a \in SUBSET (1 .. n), b \in SUBSET (1 .. n), s \in BOOLEAN :
             h = Filter!Iterated(f, k - 2, maximum, a, b, s)
      BY <1>3, <2>2 DEF Filter!Updates
    <2>4. k - 1 \in 0 .. maximum /\ k - 2 = (k - 1) - 1 /\ (k - 1) + 1 = k
      OBVIOUS
    <2>5. LET i == Filter!Iterated(f, (k - 1) - 1, maximum, a, b, s)
          IN  i \in Filters(n) /\ UpdateInv(i, (k - 1) + 1, maximum)
      BY <1>1, <2>1, <2>4, IterateStep
    <2> QED
      BY <2>3, <2>4, <2>5
  <1> QED
    BY <1>2, <1>3

\* All filters that the loop of the update may leave.
LEMMA UpdateEnds ==
  ASSUME NEW n \in Nat, NEW maximum \in Nat
  PROVE  Filter!Update(n, maximum) \subseteq Good(n, maximum + 1, maximum)
  <1> DEFINE N == maximum + 1
             start == {Filter!Predicted(n)}
             Loop(r) == [k \in 0 .. N |-> IF k = 0 THEN start ELSE Round(k, r[k - 1], maximum)]
             after == CHOOSE r : r = Loop(r)
             G(k) == Good(n, k, maximum)
  <1>1. Filter!Update(n, maximum) = after[N]
    BY DEF Filter!Update, Round
  <1>2. N \in Nat /\ start \subseteq G(0)
    BY UpdateStarts DEF Good
  <1>3. \A k \in 1 .. N : \A fs \in SUBSET G(k - 1) : Round(k, fs, maximum) \subseteq G(k)
    BY RoundStep
  <1>4. \A k : G(k) \subseteq Filters(n)
    BY DEF Good
  <1> HIDE DEF start, G, N
  <1>5. \E r : r = Loop(r)
    <2> DEFINE V == SUBSET Filters(n)
               step == [p \in (1 .. N) \X V |-> Round(p[1], p[2] \cap G(p[1] - 1), maximum)]
    <2>1. step \in [(1 .. N) \X V -> V]
      <3>1. ASSUME NEW p \in (1 .. N) \X V
            PROVE  Round(p[1], p[2] \cap G(p[1] - 1), maximum) \in V
        <4>1. p[1] \in 1 .. N /\ p[2] \cap G(p[1] - 1) \in SUBSET G(p[1] - 1)
          OBVIOUS
        <4> QED
          BY <1>3, <1>4, <4>1
      <3> QED
        BY <3>1
    <2>2. start \in V
      BY <1>2, <1>4
    <2>3. \A i \in 1 .. N : \A fs \in V : step[<<i, fs>>] = Round(i, fs \cap G(i - 1), maximum)
      OBVIOUS
    <2> HIDE DEF step, V
    <2>4. PICK r : Loops(r, N, V, start, step)
      BY <1>2, <2>1, <2>2, Recursion
    <2>5. ASSUME NEW i \in 0 .. N
          PROVE  r[i] = IF i = 0 THEN start ELSE Round(i, r[i - 1] \cap G(i - 1), maximum)
      <3>1. i # 0 => i \in 1 .. N /\ r[i - 1] \in V
        BY <1>2, <2>4 DEF Loops
      <3> QED
        BY <2>3, <2>4, <3>1 DEF Loops
    <2> DEFINE P == {i \in 0 .. N : r[i] \subseteq G(i)}
    <2>6. 0 .. N \subseteq P
      <3>1. 0 \in P
        <4>1. 0 \in 0 .. N
          BY <1>2
        <4>2. r[0] = start
          BY <2>5, <4>1
        <4> QED
          BY <1>2, <4>1, <4>2
      <3>2. ASSUME NEW i \in 0 .. N, i # N, i \in P
            PROVE  i + 1 \in P
        <4>1. i + 1 \in 1 .. N /\ i + 1 \in 0 .. N /\ i + 1 # 0 /\ (i + 1) - 1 = i
          BY <1>2, <3>2
        <4>2. r[i + 1] = Round(i + 1, r[i] \cap G(i), maximum)
          BY <2>5, <4>1
        <4>3. r[i] \cap G(i) \in SUBSET G((i + 1) - 1)
          BY <4>1
        <4>4. r[i + 1] \subseteq G(i + 1)
          BY <1>3, <4>1, <4>2, <4>3
        <4> QED
          BY <4>1, <4>4
      <3> HIDE DEF P
      <3> QED
        BY <1>2, <3>1, <3>2, Induction
    <2>7. \A i \in 0 .. N : r[i] \subseteq G(i)
      BY <2>6
    <2> HIDE DEF P
    <2>8. \A i \in 0 .. N : r[i] = IF i = 0 THEN start ELSE Round(i, r[i - 1], maximum)
      <3> SUFFICES ASSUME NEW i \in 0 .. N, i # 0
                   PROVE  r[i] = Round(i, r[i - 1], maximum)
        BY <2>5
      <3>1. i - 1 \in 0 .. N
        BY <1>2
      <3>2. r[i - 1] \cap G(i - 1) = r[i - 1]
        BY <2>7, <3>1
      <3> QED
        BY <2>5, <3>2
    <2>9. DOMAIN r = 0 .. N
      BY <2>4 DEF Loops
    <2>10. r = Loop(r)
      <3>1. r = [i \in 0 .. N |-> r[i]]
        BY <2>4 DEF Loops
      <3> QED
        BY <2>8, <3>1
    <2> QED
      BY <2>10
  <1>6. after = Loop(after)
    <2> HIDE DEF Loop
    <2> QED
      BY <1>5
  <1> HIDE DEF after
  <1>7. \A k \in 0 .. N : after[k] = IF k = 0 THEN start ELSE Round(k, after[k - 1], maximum)
    <2> DEFINE L == Loop(after)
    <2>1. \A k \in 0 .. N : L[k] = IF k = 0 THEN start ELSE Round(k, after[k - 1], maximum)
      OBVIOUS
    <2>2. after = L
      BY <1>6
    <2> HIDE DEF L
    <2> QED
      BY <2>1, <2>2
  <1> DEFINE P == {k \in 0 .. N : after[k] \subseteq G(k)}
  <1>8. 0 .. N \subseteq P
    <2>1. 0 \in P
      BY <1>2, <1>7
    <2>2. ASSUME NEW i \in 0 .. N, i # N, i \in P
          PROVE  i + 1 \in P
      <3>1. i + 1 \in 1 .. N /\ i + 1 \in 0 .. N /\ i + 1 # 0 /\ (i + 1) - 1 = i
        BY <1>2, <2>2
      <3>2. after[i + 1] = Round(i + 1, after[i], maximum)
        BY <1>7, <3>1
      <3>3. after[i] \in SUBSET G((i + 1) - 1)
        BY <2>2, <3>1
      <3>4. after[i + 1] \subseteq G(i + 1)
        BY <1>3, <3>1, <3>2, <3>3
      <3> QED
        BY <3>1, <3>4
    <2> HIDE DEF P
    <2> QED
      BY <1>2, <2>1, <2>2, Induction
  <1> QED
    BY <1>1, <1>2, <1>8 DEF N, G

\* Whatever an update leaves has been finished if its last look found surfaces
\* (esekfom.hpp).
LEMMA UpdatesFinish ==
  ASSUME NEW n \in Nat, NEW maximum \in Nat, NEW f \in Filter!Update(n, maximum)
  PROVE  Filter!UpdateIsFinished(f, maximum) /\ Filter!NeighboursAreLate(f, maximum)
  <1>1. f \in Filters(n) /\ UpdateInv(f, maximum + 1, maximum)
    BY UpdateEnds DEF Good
  <1>2. CASE Ended(f, maximum)
    BY <1>2 DEF Ended
  <1>3. CASE Underway(f, maximum + 1, maximum)
    <2>1. f.done = FALSE /\ f.looks = maximum + 1 /\ ~ Filter!Valid(f)
      BY <1>1, <1>3 DEF Underway, Filters
    <2>2. ASSUME f.estimate = 0 PROVE f.covariance = [updated |-> FALSE, about |-> 0]
      <3>1. f.covariance = [updated |-> FALSE, about |-> f.estimate - (IF f.estimate = 0 THEN 0 ELSE 1)]
        BY <1>3 DEF Underway
      <3>2. f.estimate - (IF f.estimate = 0 THEN 0 ELSE 1) = 0
        BY <2>2
      <3> QED
        BY <3>1, <3>2
    <2> QED
      BY <2>1, <2>2 DEF Filter!UpdateIsFinished, Filter!NeighboursAreLate
  <1> QED
    BY <1>1, <1>2, <1>3 DEF UpdateInv

-----------------------------------------------------------------------------
(* The odometry.                                                           *)

\* As long as the time rises, a message has the pose of its scan and the way and
\* the time from the one before.
Message(odom, i) ==
  [has |-> TRUE, pose |-> odom[i].pose, time |-> odom[i].time,
   velocity |-> IF i = 1 THEN <<0, 1>>
                ELSE <<odom[i].pose - odom[i - 1].pose, odom[i].time - odom[i - 1].time>>]

LEMMA MessagesSay ==
  ASSUME NEW odom \in Seq([pose : Int, time : Int]),
         \A i \in 1 .. Len(odom) - 1 : odom[i].time < odom[i + 1].time
  PROVE  Filter!Messages(Filter!NoPose, odom) = [i \in 1 .. Len(odom) |-> Message(odom, i)]
  <1> DEFINE n == Len(odom)
             Next(x, i) == Filter!PublishOdometry(x, odom[i].pose, odom[i].time)
             Loop(r) == [i \in 0 .. n |-> IF i = 0 THEN Filter!NoPose ELSE Next(r[i - 1], i)]
             sent == CHOOSE r : r = Loop(r)
             closed == [i \in 0 .. n |-> IF i = 0 THEN Filter!NoPose ELSE Message(odom, i)]
  <1>1. Filter!Messages(Filter!NoPose, odom) = [i \in 1 .. n |-> sent[i]]
    BY DEF Filter!Messages
  <1>2. n \in Nat /\ \A i \in 1 .. n : odom[i].pose \in Int /\ odom[i].time \in Int
    <2>1. n \in Nat /\ \A i \in 1 .. n : odom[i] \in [pose : Int, time : Int]
      BY LenProperties, ElementOfSeq
    <2> QED
      BY <2>1
  <1>3. ASSUME NEW i \in 1 .. n
        PROVE  Next(closed[i - 1], i) = Message(odom, i)
    <2>1. i - 1 \in 0 .. n
      BY <1>2
    <2>2. CASE i = 1
      <3>1. closed[i - 1] = Filter!NoPose
        BY <2>1, <2>2
      <3> QED
        <4>1. Filter!NoPose.has = FALSE /\ Filter!NoPose.velocity = <<0, 1>>
          BY DEF Filter!NoPose
        <4> HIDE DEF closed
        <4>2. Next(closed[i - 1], i) = [has |-> TRUE, pose |-> odom[i].pose, time |-> odom[i].time,
                                        velocity |-> <<0, 1>>]
          BY <3>1, <4>1 DEF Filter!PublishOdometry
        <4> QED
          BY <2>2, <4>2 DEF Message
    <2>3. CASE i # 1
      <3>1. closed[i - 1] = Message(odom, i - 1)
        BY <2>1, <2>3
      <3>2. i - 1 \in 1 .. n - 1 /\ (i - 1) + 1 = i
        BY <1>2, <2>3
      <3>3. odom[i].time > odom[i - 1].time
        BY <1>2, <3>2
      <3> HIDE DEF closed
      <3> QED
        BY <2>3, <3>1, <3>3 DEF Filter!PublishOdometry, Message
    <2> QED
      BY <2>2, <2>3
  <1> HIDE DEF Next
  <1>4. closed = Loop(closed)
    <2>1. \A i \in 0 .. n : i # 0 => i \in 1 .. n
      BY <1>2
    <2> QED
      BY <1>3, <2>1
  <1>5. sent = Loop(sent)
    <2> HIDE DEF Loop, closed
    <2> QED
      BY <1>4
  <1> HIDE DEF sent
  <1>6. \A i \in 0 .. n : sent[i] = IF i = 0 THEN Filter!NoPose ELSE Next(sent[i - 1], i)
    <2> DEFINE L == Loop(sent)
    <2>1. \A i \in 0 .. n : L[i] = IF i = 0 THEN Filter!NoPose ELSE Next(sent[i - 1], i)
      OBVIOUS
    <2>2. sent = L
      BY <1>5
    <2> HIDE DEF L
    <2> QED
      BY <2>1, <2>2
  <1> DEFINE P == {i \in 0 .. n : sent[i] = closed[i]}
  <1>7. 0 .. n \subseteq P
    <2>1. 0 \in P
      <3>1. 0 \in 0 .. n
        BY <1>2
      <3> QED
        BY <1>6, <3>1
    <2>2. ASSUME NEW i \in 0 .. n, i # n, i \in P
          PROVE  i + 1 \in P
      <3>1. i + 1 \in 1 .. n /\ i + 1 \in 0 .. n /\ i + 1 # 0 /\ (i + 1) - 1 = i
        BY <1>2, <2>2
      <3>2. sent[i + 1] = Next(closed[i], i + 1)
        BY <1>6, <2>2, <3>1
      <3>3. Next(closed[i], i + 1) = Message(odom, i + 1)
        BY <1>3, <3>1
      <3>4. closed[i + 1] = Message(odom, i + 1)
        BY <3>1
      <3> QED
        BY <3>1, <3>2, <3>3, <3>4
    <2> HIDE DEF P
    <2> QED
      BY <1>2, <2>1, <2>2, Induction
  <1>8. ASSUME NEW i \in 1 .. n
        PROVE  sent[i] = Message(odom, i)
    <2>1. i \in 0 .. n /\ i # 0
      BY <1>2
    <2> QED
      BY <1>7, <2>1
  <1> QED
    BY <1>1, <1>8

\* The velocities between two scans are the way between them, over any number of
\* scans (publish_odometry of laserMapping.cpp).
LEMMA VelocitiesAlwaysAddUp ==
  ASSUME NEW odom \in Seq([pose : Int, time : Int])
  PROVE  Filter!VelocitiesAddUp(odom)
  <1> DEFINE n == Len(odom)
             sent == Filter!Messages(Filter!NoPose, odom)
             m == Len(sent)
             Loop(r) == [i \in 0 .. m |-> IF i <= 1 THEN 0 ELSE r[i - 1] + sent[i].velocity[1]]
             way == CHOOSE r : r = Loop(r)
             closed == [i \in 0 .. n |-> IF i <= 1 THEN 0 ELSE odom[i].pose - odom[1].pose]
  <1> SUFFICES ASSUME \A i \in 1 .. n - 1 : odom[i].time < odom[i + 1].time, odom # <<>>
               PROVE  /\ way[m] = odom[n].pose - odom[1].pose
                      /\ \A i \in 2 .. m : sent[i].velocity[2] = odom[i].time - odom[i - 1].time
    BY DEF Filter!VelocitiesAddUp
  <1>1. /\ n \in Nat \ {0}
        /\ \A i \in 1 .. n : odom[i].pose \in Int /\ odom[i].time \in Int
    <2>1. n \in Nat \ {0} /\ \A i \in 1 .. n : odom[i] \in [pose : Int, time : Int]
      BY LenProperties, EmptySeq, ElementOfSeq
    <2> QED
      BY <2>1
  <1>2. sent = [i \in 1 .. n |-> Message(odom, i)]
    BY MessagesSay
  <1>3. m = n
    <2>1. [i \in 1 .. n |-> Message(odom, i)] \in Seq({Message(odom, i) : i \in 1 .. n})
            /\ DOMAIN [i \in 1 .. n |-> Message(odom, i)] = 1 .. n
      BY <1>1
    <2> QED
      BY <1>1, <1>2, <2>1, LenProperties
  <1>4. \A i \in 2 .. n : /\ sent[i].velocity[1] = odom[i].pose - odom[i - 1].pose
                          /\ sent[i].velocity[2] = odom[i].time - odom[i - 1].time
    BY <1>1, <1>2 DEF Message
  <1> HIDE DEF sent, m
  <1>5. closed = Loop(closed)
    <2>1. ASSUME NEW i \in 0 .. n
          PROVE  closed[i] = IF i <= 1 THEN 0 ELSE closed[i - 1] + sent[i].velocity[1]
      <3>1. CASE i <= 1
        BY <3>1
      <3>2. CASE i = 2
        <4>1. 1 \in 0 .. n /\ 2 \in 2 .. n /\ 1 \in 1 .. n /\ 2 \in 1 .. n
          BY <1>1, <3>2
        <4>2. closed[1] = 0 /\ closed[2] = odom[2].pose - odom[1].pose
          BY <3>2, <4>1
        <4>3. sent[2].velocity[1] = odom[2].pose - odom[1].pose
          BY <1>4, <4>1
        <4> HIDE DEF closed
        <4> QED
          BY <1>1, <3>2, <4>1, <4>2, <4>3
      <3>3. CASE i > 2
        <4>1. i - 1 \in 0 .. n /\ ~(i - 1 <= 1) /\ ~(i <= 1) /\ i \in 2 .. n
              /\ 1 \in 1 .. n /\ i \in 1 .. n /\ i - 1 \in 1 .. n
          BY <1>1, <3>3
        <4>2. closed[i - 1] = odom[i - 1].pose - odom[1].pose
              /\ closed[i] = odom[i].pose - odom[1].pose
          BY <4>1
        <4>3. sent[i].velocity[1] = odom[i].pose - odom[i - 1].pose
          BY <1>4, <4>1
        <4>4. odom[i].pose \in Int /\ odom[i - 1].pose \in Int /\ odom[1].pose \in Int
          BY <1>1, <4>1
        <4> HIDE DEF closed
        <4>5. \A x, y, z \in Int : x - z = (y - z) + (x - y)
          OBVIOUS
        <4>6. closed[i] = closed[i - 1] + sent[i].velocity[1]
          BY <4>2, <4>3, <4>4, <4>5
        <4> QED
          BY <4>1, <4>6
      <3> QED
        BY <1>1, <3>1, <3>2, <3>3
    <2> QED
      BY <1>3, <2>1
  <1>6. way = Loop(way)
    <2> HIDE DEF Loop, closed
    <2> QED
      BY <1>5
  <1> HIDE DEF way
  <1>7. \A i \in 0 .. n : way[i] = IF i <= 1 THEN 0 ELSE way[i - 1] + sent[i].velocity[1]
    <2> DEFINE L == Loop(way)
    <2>1. \A i \in 0 .. n : L[i] = IF i <= 1 THEN 0 ELSE way[i - 1] + sent[i].velocity[1]
      BY <1>3
    <2>2. way = L
      BY <1>6
    <2> HIDE DEF L
    <2> QED
      BY <2>1, <2>2
  <1>8. \A i \in 0 .. n : closed[i] = IF i <= 1 THEN 0 ELSE closed[i - 1] + sent[i].velocity[1]
    <2> DEFINE L == Loop(closed)
    <2>1. \A i \in 0 .. n : L[i] = IF i <= 1 THEN 0 ELSE closed[i - 1] + sent[i].velocity[1]
      BY <1>3
    <2>2. closed = L
      BY <1>5
    <2> HIDE DEF L, closed
    <2> QED
      BY <2>1, <2>2
  <1> DEFINE P == {i \in 0 .. n : way[i] = closed[i]}
  <1>9. 0 .. n \subseteq P
    <2> HIDE DEF closed
    <2>1. 0 \in P
      <3>1. 0 \in 0 .. n
        BY <1>1
      <3> QED
        BY <1>7, <1>8, <3>1
    <2>2. ASSUME NEW i \in 0 .. n, i # n, i \in P
          PROVE  i + 1 \in P
      <3>1. i + 1 \in 0 .. n /\ (i + 1) - 1 = i
        BY <1>1, <2>2
      <3> QED
        BY <1>7, <1>8, <2>2, <3>1
    <2> HIDE DEF P
    <2> QED
      BY <1>1, <2>1, <2>2, Induction
  <1>10. way[n] = closed[n] /\ n \in 1 .. n
    BY <1>1, <1>9
  <1>11. closed[n] = odom[n].pose - odom[1].pose
    BY <1>1, <1>10
  <1> QED
    BY <1>3, <1>4, <1>10, <1>11

\* Whatever number of points and iterations an update is asked for, and whatever
\* odometry: an update whose last look found surfaces is finished, the covariance
\* and the neighbours belong to its estimate, and the velocities lead to the
\* poses.
THEOREM EveryUpdateIsKept == UpdateAsked => Updated
  BY UpdatesFinish, VelocitiesAlwaysAddUp DEF UpdateAsked, Updated

-----------------------------------------------------------------------------
(* The driver's frames.                                                    *)

Points(ext, steps) ==
  UNION {{Frames!Unpacked(ext, steps[i].pkt)[k] : k \in DOMAIN steps[i].pkt.raw} : i \in DOMAIN steps}
TimeOf(pkt, k) == pkt.time + (k - 1) * pkt.interval
Handlers(lidars, S) ==
  [clouds : [lidars -> Seq(S)], first : BOOLEAN, last : Int]
FramesOver(lidars, S) == [lidar : lidars, base : Int, points : Seq(S)]
Results(lidars, S) == [handler : Handlers(lidars, S), frames : SUBSET FramesOver(lidars, S)]

\* The points of a packet have its times.
Carries(ext, steps, i) ==
  LET u == Frames!Unpacked(ext, steps[i].pkt)
      n == Len(steps[i].pkt.raw)
  IN  /\ u \in Seq(Points(ext, steps)) /\ Len(u) = n
      /\ \A k \in 1 .. n : u[k].time = TimeOf(steps[i].pkt, k)

LEMMA EveryPacketCarries ==
  ASSUME NEW lidars, NEW ext, NEW steps, StepsAsked(lidars, steps), NEW i \in DOMAIN steps
  PROVE  Carries(ext, steps, i)
  <1> DEFINE pkt == steps[i].pkt
             u == Frames!Unpacked(ext, pkt)
             n == Len(pkt.raw)
  <1>1. PICK R : pkt.raw \in Seq(R)
    BY DEF StepsAsked, IsSequence
  <1>2. n \in Nat /\ DOMAIN pkt.raw = 1 .. n
    BY <1>1, LenProperties
  <1>3. u = [k \in 1 .. n |-> u[k]]
    BY <1>2 DEF Frames!Unpacked
  <1>4. \A k \in 1 .. n : u[k] \in Points(ext, steps)
    <2> SUFFICES ASSUME NEW k \in 1 .. n
                 PROVE  u[k] \in Points(ext, steps)
      OBVIOUS
    <2> DEFINE P == {Frames!Unpacked(ext, steps[i].pkt)[j] : j \in DOMAIN steps[i].pkt.raw}
    <2>1. u[k] \in P
      BY <1>2
    <2>2. P \subseteq Points(ext, steps)
      BY DEF Points
    <2> HIDE DEF u, P
    <2> QED
      BY <2>1, <2>2
  <1>5. \A k \in 1 .. n : u[k].time = TimeOf(pkt, k)
    BY <1>2 DEF Frames!Unpacked, TimeOf
  <1> HIDE DEF u, n
  <1>6. u \in Seq(Points(ext, steps)) /\ Len(u) = n
    <2>1. u \in [1 .. n -> Points(ext, steps)]
      BY <1>3, <1>4
    <2>2. u \in Seq(Points(ext, steps)) /\ DOMAIN u = 1 .. n
      BY <1>2, <2>1
    <2> QED
      BY <1>2, <2>2, LenProperties
  <1> QED
    BY <1>5, <1>6 DEF u, n, Carries

LEMMA PointsHaveTimes ==
  ASSUME NEW lidars, NEW ext, NEW steps, StepsAsked(lidars, steps)
  PROVE  \A p \in Points(ext, steps) : p.time \in Nat
  <1> SUFFICES ASSUME NEW i \in DOMAIN steps, NEW k \in DOMAIN steps[i].pkt.raw
               PROVE  Frames!Unpacked(ext, steps[i].pkt)[k].time \in Nat
    BY DEF Points
  <1>1. PICK R : steps[i].pkt.raw \in Seq(R)
    BY DEF StepsAsked, IsSequence
  <1>2. k \in 1 .. Len(steps[i].pkt.raw)
    BY <1>1, LenProperties
  <1>3. Frames!Unpacked(ext, steps[i].pkt)[k].time = TimeOf(steps[i].pkt, k)
    <2>1. Carries(ext, steps, i)
      BY EveryPacketCarries
    <2> QED
      BY <1>2, <2>1 DEF Carries
  <1>4. steps[i].pkt.time \in Nat /\ steps[i].pkt.interval \in Nat /\ k - 1 \in Nat
    BY <1>2 DEF StepsAsked
  <1>5. \A x, y, z \in Nat : x + y * z \in Nat
    OBVIOUS
  <1> QED
    BY <1>3, <1>4, <1>5 DEF TimeOf

Grown(h, ext, pkt, l) ==
  h.clouds[l] \o (IF pkt.lidar = l THEN Frames!Unpacked(ext, pkt) ELSE <<>>)
TheFrame(l, points) == [lidar |-> l, base |-> Frames!BaseTime(points), points |-> points]
\* A lidar's points wait or make up its frame.
Waits(r, l, points) ==
  r.handler.clouds[l] = points /\ \A f \in r.frames : f.lidar # l
Leaves(r, l, points) ==
  /\ points # <<>> /\ r.handler.clouds[l] = <<>>
  /\ TheFrame(l, points) \in r.frames
  /\ \A f \in r.frames : f.lidar = l => f = TheFrame(l, points)

\* What a packet of a step does to the points of lidar l.
Outcome(r, h, ext, step, l) ==
  LET grown == Grown(h, ext, step.pkt, l)
  IN  /\ Waits(r, l, grown) \/ Leaves(r, l, grown)
      /\ step.synced =>
            \/ Waits(r, l, grown) /\ (l = step.pkt.lidar /\ grown # <<>> => ~Frames!Due(grown))
            \/ Leaves(r, l, grown) /\ l = step.pkt.lidar /\ Frames!Due(grown)
      /\ ~step.synced =>
            /\ ~r.handler.first
            /\ \/ h.first /\ r.handler.last = step.now /\ r.frames = {}
               \/ /\ ~h.first /\ step.now - h.last < Frames!Interval
                  /\ r.handler.last = h.last /\ r.frames = {}
               \/ /\ ~h.first /\ step.now - h.last >= Frames!Interval
                  /\ r.handler.last = h.last + Frames!Interval

LEMMA ProcessedStep ==
  ASSUME NEW lidars, NEW S, \A p \in S : p.time \in Nat,
         NEW h \in Handlers(lidars, S), NEW ext, NEW pkt, pkt.lidar \in lidars,
         Frames!Unpacked(ext, pkt) \in Seq(S), NEW synced \in BOOLEAN, NEW now \in Int,
         NEW l \in lidars
  PROVE  LET r == Frames!Processed(h, ext, pkt, synced, now)
         IN  /\ r \in Results(lidars, S)
             /\ Grown(h, ext, pkt, l) \in Seq(S)
             /\ Outcome(r, h, ext, [pkt |-> pkt, synced |-> synced, now |-> now], l)
  <1> DEFINE added == [h EXCEPT !.clouds[pkt.lidar] = @ \o Frames!Unpacked(ext, pkt)]
             r == Frames!Processed(h, ext, pkt, synced, now)
             filled == {m \in lidars : added.clouds[m] # <<>>}
  <1>1. /\ added.first = h.first /\ added.last = h.last
        /\ added.clouds = [h.clouds EXCEPT ![pkt.lidar] = @ \o Frames!Unpacked(ext, pkt)]
        /\ added = [clouds |-> added.clouds, first |-> added.first, last |-> added.last]
    <2> DEFINE C == {[h.clouds EXCEPT ![pkt.lidar] = @ \o Frames!Unpacked(ext, pkt)], h.clouds}
    <2>1. h \in [clouds : C, first : BOOLEAN, last : Int]
      BY DEF Handlers
    <2>2. added \in [clouds : C, first : BOOLEAN, last : Int]
      BY <2>1
    <2>3. /\ added.first = h.first /\ added.last = h.last
          /\ added.clouds = [h.clouds EXCEPT ![pkt.lidar] = @ \o Frames!Unpacked(ext, pkt)]
      BY <2>1
    <2> HIDE DEF added, C
    <2> QED
      BY <2>2, <2>3
  <1>2. \A m \in lidars : added.clouds[m] = Grown(h, ext, pkt, m) /\ added.clouds[m] \in Seq(S)
    <2> SUFFICES ASSUME NEW m \in lidars
                 PROVE  added.clouds[m] = Grown(h, ext, pkt, m) /\ added.clouds[m] \in Seq(S)
      OBVIOUS
    <2>1. h.clouds \in [lidars -> Seq(S)] /\ h.clouds[m] \in Seq(S)
      BY DEF Handlers
    <2>2. CASE m = pkt.lidar
      BY <1>1, <2>1, <2>2 DEF Grown
    <2>3. CASE m # pkt.lidar
      <3>1. h.clouds[m] \o <<>> = h.clouds[m]
        BY <2>1
      <3> QED
        BY <1>1, <2>1, <2>3, <3>1 DEF Grown
    <2> QED
      BY <2>2, <2>3
  <1>3. added.clouds \in [lidars -> Seq(S)] /\ added \in Handlers(lidars, S)
    <2>1. h.clouds \in [lidars -> Seq(S)]
      BY DEF Handlers
    <2>2. DOMAIN added.clouds = lidars /\ added.clouds = [m \in lidars |-> added.clouds[m]]
      BY <1>1, <2>1
    <2>3. added.clouds \in [lidars -> Seq(S)]
      BY <1>2, <2>2
    <2> HIDE DEF added
    <2>4. added.first \in BOOLEAN /\ added.last \in Int
      BY <1>1 DEF Handlers
    <2>5. [clouds |-> added.clouds, first |-> added.first, last |-> added.last] \in Handlers(lidars, S)
      BY <2>3, <2>4 DEF Handlers
    <2> QED
      BY <1>1, <2>3, <2>5
  <1>4. r = Frames!CheckTimer(added, pkt.lidar, synced, now)
    BY DEF Frames!Processed
  <1> HIDE DEF added, r
  <1>5. \A m \in lidars : Frames!FrameOf(added, m) = TheFrame(m, added.clouds[m])
                          /\ Frames!FrameOf(added, m) \in FramesOver(lidars, S)
    <2> SUFFICES ASSUME NEW m \in lidars
                 PROVE  /\ Frames!FrameOf(added, m) = TheFrame(m, added.clouds[m])
                        /\ Frames!FrameOf(added, m) \in FramesOver(lidars, S)
      OBVIOUS
    <2>1. Frames!FrameOf(added, m) = TheFrame(m, added.clouds[m])
      BY DEF Frames!FrameOf, TheFrame
    <2>2. Frames!BaseTime(added.clouds[m]) \in Int
      <3>1. CASE added.clouds[m] = <<>>
        BY <3>1 DEF Frames!BaseTime
      <3>2. CASE added.clouds[m] # <<>>
        <4>1. added.clouds[m][1] \in S
          BY <1>2, <3>2
        <4> QED
          BY <3>2, <4>1 DEF Frames!BaseTime
      <3> QED
        BY <3>1, <3>2
    <2> QED
      BY <1>2, <2>1, <2>2 DEF TheFrame, FramesOver
  <1>6. ASSUME NEW ls
        PROVE  /\ Frames!Emptied(added, ls) \in Handlers(lidars, S)
               /\ Frames!Emptied(added, ls).first = h.first
               /\ Frames!Emptied(added, ls).last = h.last
               /\ \A m \in lidars : Frames!Emptied(added, ls).clouds[m]
                                      = IF m \in ls THEN <<>> ELSE added.clouds[m]
    <2> DEFINE left == [m \in lidars |-> IF m \in ls THEN <<>> ELSE added.clouds[m]]
    <2>1. Frames!Emptied(added, ls) = [clouds |-> left, first |-> h.first, last |-> h.last]
      <3> DEFINE a == added.clouds
      <3>1. added = [clouds |-> a, first |-> h.first, last |-> h.last] /\ DOMAIN a = lidars
        BY <1>1, <1>3
      <3> HIDE DEF a
      <3>2. Frames!Emptied(added, ls) = [clouds |-> [m \in lidars |-> IF m \in ls THEN <<>> ELSE a[m]],
                                         first |-> h.first, last |-> h.last]
        BY <3>1 DEF Frames!Emptied
      <3> QED
        BY <3>2 DEF a
    <2>2. left \in [lidars -> Seq(S)]
      BY <1>2
    <2>3. h.first \in BOOLEAN /\ h.last \in Int
      BY DEF Handlers
    <2> QED
      BY <2>1, <2>2, <2>3 DEF Handlers
  <1>7. /\ r \in Results(lidars, S)
        /\ Waits(r, l, added.clouds[l]) \/ Leaves(r, l, added.clouds[l])
        /\ synced => \/ Waits(r, l, added.clouds[l]) /\ (l = pkt.lidar /\ added.clouds[l] # <<>> => ~Frames!Due(added.clouds[l]))
                     \/ Leaves(r, l, added.clouds[l]) /\ l = pkt.lidar /\ Frames!Due(added.clouds[l])
        /\ ~synced =>
                  /\ ~r.handler.first
                  /\ \/ h.first /\ r.handler.last = now /\ r.frames = {}
                     \/ ~h.first /\ now - h.last < Frames!Interval /\ r.handler.last = h.last /\ r.frames = {}
                     \/ ~h.first /\ now - h.last >= Frames!Interval
                        /\ r.handler.last = h.last + Frames!Interval
    <2>1. CASE synced
      <3>1. r = Frames!CheckSynced(added, pkt.lidar)
        BY <1>4, <2>1 DEF Frames!CheckTimer
      <3>2. CASE Frames!Due(added.clouds[pkt.lidar]) /\ added.clouds[pkt.lidar] # <<>>
        <4>1. r = [handler |-> Frames!Emptied(added, {pkt.lidar}), frames |-> {Frames!FrameOf(added, pkt.lidar)}]
          BY <3>1, <3>2 DEF Frames!CheckSynced
        <4>2. r \in Results(lidars, S)
          BY <1>5, <1>6, <4>1 DEF Results
        <4>3. CASE l = pkt.lidar
          <5>1. r.handler.clouds[l] = <<>> /\ r.frames = {TheFrame(l, added.clouds[l])}
            BY <1>5, <1>6, <4>1, <4>3
          <5>2. Leaves(r, l, added.clouds[l])
            BY <3>2, <4>3, <5>1 DEF Leaves
          <5> QED
            BY <2>1, <3>2, <4>2, <4>3, <5>2
        <4>4. CASE l # pkt.lidar
          <5>1. r.handler.clouds[l] = added.clouds[l] /\ r.frames = {TheFrame(pkt.lidar, added.clouds[pkt.lidar])}
            BY <1>5, <1>6, <4>1, <4>4
          <5>2. Waits(r, l, added.clouds[l])
            BY <4>4, <5>1 DEF Waits, TheFrame
          <5> QED
            BY <2>1, <4>2, <4>4, <5>2
        <4> QED
          BY <4>3, <4>4
      <3>3. CASE ~(Frames!Due(added.clouds[pkt.lidar]) /\ added.clouds[pkt.lidar] # <<>>)
        <4>1. r = [handler |-> added, frames |-> {}]
          BY <3>1, <3>3 DEF Frames!CheckSynced
        <4>2. r \in Results(lidars, S)
          BY <1>3, <4>1 DEF Results
        <4>3. Waits(r, l, added.clouds[l])
          BY <4>1 DEF Waits
        <4> QED
          BY <2>1, <3>3, <4>2, <4>3
      <3> QED
        BY <3>2, <3>3
    <2>2. CASE ~synced
      <3>1. r = Frames!CheckUnsynced(added, now)
        BY <1>4, <2>2 DEF Frames!CheckTimer
      <3>2. CASE h.first
        <4> DEFINE begun == [clouds |-> added.clouds, first |-> FALSE, last |-> now]
        <4>1. r = [handler |-> begun, frames |-> {}]
          BY <1>1, <3>1, <3>2 DEF Frames!CheckUnsynced
        <4>3. begun \in Handlers(lidars, S)
          BY <1>3 DEF Handlers
        <4>4. r \in Results(lidars, S)
          BY <4>1, <4>3 DEF Results
        <4>5. Waits(r, l, added.clouds[l])
          BY <4>1 DEF Waits
        <4> QED
          BY <2>2, <3>2, <4>1, <4>4, <4>5
      <3>3. CASE ~h.first /\ now - h.last < Frames!Interval
        <4>1. r = [handler |-> added, frames |-> {}]
          BY <1>1, <3>1, <3>3 DEF Frames!CheckUnsynced
        <4>2. r \in Results(lidars, S)
          BY <1>3, <4>1 DEF Results
        <4>3. Waits(r, l, added.clouds[l])
          BY <4>1 DEF Waits
        <4> QED
          BY <1>1, <2>2, <3>3, <4>1, <4>2, <4>3
      <3>4. CASE ~h.first /\ now - h.last >= Frames!Interval
        <4> DEFINE emptied == Frames!Emptied(added, filled)
                   left == [emptied EXCEPT !.last = @ + Frames!Interval]
        <4>1. h.last \in Int /\ Frames!Interval \in Int
          BY DEF Handlers, Frames!Interval, Frames!IntervalMs, Frames!Ms
        <4>2. r = [handler |-> left, frames |-> {Frames!FrameOf(added, m) : m \in filled}]
          <5>1. DOMAIN added.clouds = lidars
            BY <1>3
          <5>2. ~(now - added.last < Frames!Interval) /\ ~added.first
            BY <1>1, <3>4, <4>1
          <5> QED
            BY <3>1, <5>1, <5>2 DEF Frames!CheckUnsynced
        <4>3. emptied \in Handlers(lidars, S) /\ emptied.first = h.first /\ emptied.last = h.last
              /\ \A m \in lidars : emptied.clouds[m] = IF m \in filled THEN <<>> ELSE added.clouds[m]
          BY <1>6
        <4> HIDE DEF emptied
        <4>4. left = [clouds |-> emptied.clouds, first |-> emptied.first, last |-> h.last + Frames!Interval]
          <5>1. emptied = [clouds |-> emptied.clouds, first |-> emptied.first, last |-> emptied.last]
            BY <4>3 DEF Handlers
          <5>2. left = [clouds |-> emptied.clouds, first |-> emptied.first, last |-> emptied.last + Frames!Interval]
            BY <5>1
          <5> QED
            BY <4>3, <5>2
        <4> HIDE DEF left
        <4>5. left \in Handlers(lidars, S)
          BY <4>1, <4>3, <4>4 DEF Handlers
        <4>6. r.frames = {TheFrame(m, added.clouds[m]) : m \in filled} /\ r.frames \subseteq FramesOver(lidars, S)
          BY <1>5, <4>2
        <4>7. r \in Results(lidars, S)
          BY <4>2, <4>5, <4>6 DEF Results
        <4>8. Waits(r, l, added.clouds[l]) \/ Leaves(r, l, added.clouds[l])
          <5>1. \A f \in r.frames : \E m \in filled : f = TheFrame(m, added.clouds[m]) /\ f.lidar = m
            BY <4>6 DEF TheFrame
          <5>2. r.handler.clouds[l] = IF l \in filled THEN <<>> ELSE added.clouds[l]
            BY <4>2, <4>3, <4>4
          <5>3. CASE l \in filled
            BY <4>6, <5>1, <5>2, <5>3 DEF Leaves
          <5>4. CASE l \notin filled
            BY <5>1, <5>2, <5>4 DEF Waits
          <5> QED
            BY <5>3, <5>4
        <4>9. r.handler.last = h.last + Frames!Interval /\ ~r.handler.first
          BY <3>4, <4>2, <4>3, <4>4
        <4> QED
          BY <2>2, <3>4, <4>7, <4>8, <4>9
      <3> QED
        <4>1. h.last \in Int /\ Frames!Interval \in Int /\ h.first \in BOOLEAN
          BY DEF Handlers, Frames!Interval, Frames!IntervalMs, Frames!Ms
        <4>2. now - h.last < Frames!Interval \/ now - h.last >= Frames!Interval
          BY <4>1
        <4> QED
          BY <3>2, <3>3, <3>4, <4>2
    <2> QED
      BY <2>1, <2>2
  <1>8. added.clouds[l] = Grown(h, ext, pkt, l) /\ added.clouds[l] \in Seq(S)
    BY <1>2
  <1> QED
    BY <1>7, <1>8 DEF r, Outcome

LEMMA StepMeans ==
  ASSUME NEW lidars, NEW ext, NEW steps, StepsAsked(lidars, steps), NEW i \in DOMAIN steps,
         NEW h \in Handlers(lidars, Points(ext, steps)), NEW l \in lidars
  PROVE  LET r == Frames!Processed(h, ext, steps[i].pkt, steps[i].synced, steps[i].now)
         IN  /\ r \in Results(lidars, Points(ext, steps))
             /\ Grown(h, ext, steps[i].pkt, l) \in Seq(Points(ext, steps))
             /\ Outcome(r, h, ext, steps[i], l)
  <1> DEFINE S == Points(ext, steps)
             pkt == steps[i].pkt
             synced == steps[i].synced
             now == steps[i].now
             r == Frames!Processed(h, ext, pkt, synced, now)
  <1>1. pkt.lidar \in lidars /\ synced \in BOOLEAN /\ now \in Int
    BY DEF StepsAsked
  <1>2. Frames!Unpacked(ext, pkt) \in Seq(S)
    <2>1. Carries(ext, steps, i)
      BY EveryPacketCarries
    <2> QED
      BY <2>1 DEF Carries
  <1>3. \A p \in S : p.time \in Nat
    BY PointsHaveTimes
  <1> HIDE DEF S, pkt, synced, now
  <1>4. /\ r \in Results(lidars, S)
        /\ Grown(h, ext, pkt, l) \in Seq(S)
        /\ Outcome(r, h, ext, [pkt |-> pkt, synced |-> synced, now |-> now], l)
    BY <1>1, <1>2, <1>3, ProcessedStep DEF S
  <1>5. Outcome(r, h, ext, [pkt |-> pkt, synced |-> synced, now |-> now], l) = Outcome(r, h, ext, steps[i], l)
    BY DEF Outcome, pkt, synced, now
  <1> QED
    BY <1>4, <1>5 DEF S, pkt, synced, now

\* The driver after each step.
Run(after, lidars, ext, steps) ==
  /\ after \in [0 .. Len(steps) -> Results(lidars, Points(ext, steps))]
  /\ after[0] = [handler |-> Frames!Started(lidars), frames |-> {}]
  /\ \A i \in 1 .. Len(steps) :
        after[i] = Frames!Processed(after[i - 1].handler, ext, steps[i].pkt, steps[i].synced, steps[i].now)
Told(after, steps) ==
  [handler |-> after[Len(steps)].handler, frames |-> [i \in DOMAIN steps |-> after[i].frames]]

LEMMA StepsAreASequence ==
  ASSUME NEW lidars, NEW steps, StepsAsked(lidars, steps)
  PROVE  /\ Len(steps) \in Nat \ {0} /\ DOMAIN steps = 1 .. Len(steps)
         /\ \A i \in 1 .. Len(steps) : steps[i].pkt.lidar \in lidars
  <1>1. PICK S : steps \in Seq(S)
    BY DEF StepsAsked, IsSequence
  <1>2. steps # <<>>
    BY DEF StepsAsked
  <1>3. Len(steps) \in Nat /\ DOMAIN steps = 1 .. Len(steps) /\ Len(steps) # 0
    BY <1>1, <1>2, LenProperties, EmptySeq
  <1> QED
    BY <1>3 DEF StepsAsked

LEMMA DriverRuns ==
  ASSUME NEW lidars, NEW ext, NEW steps, StepsAsked(lidars, steps)
  PROVE  \E after : /\ Run(after, lidars, ext, steps)
                    /\ Frames!AllProcessed(Frames!Started(lidars), ext, steps) = Told(after, steps)
  <1> DEFINE n == Len(steps)
             V == Results(lidars, Points(ext, steps))
             start == [handler |-> Frames!Started(lidars), frames |-> {}]
             Does(i, v) == Frames!Processed(v.handler, ext, steps[i].pkt, steps[i].synced, steps[i].now)
             Loop(r) == [i \in 0 .. n |-> IF i = 0 THEN start ELSE Does(i, r[i - 1])]
             after == CHOOSE r : r = Loop(r)
             step == [p \in (1 .. n) \X V |-> Does(p[1], p[2])]
  <1>1. Frames!AllProcessed(Frames!Started(lidars), ext, steps) = Told(after, steps)
    BY DEF Frames!AllProcessed, Told
  <1>2. n \in Nat \ {0} /\ DOMAIN steps = 1 .. n
    BY StepsAreASequence
  <1>3. start \in V
    <2>1. [l \in lidars |-> <<>>] \in [lidars -> Seq(Points(ext, steps))]
      OBVIOUS
    <2> QED
      BY <2>1 DEF Frames!Started, Results, Handlers
  <1>4. \A i \in 1 .. n : \A v \in V : Does(i, v) \in V
    <2> SUFFICES ASSUME NEW i \in 1 .. n, NEW v \in V PROVE Does(i, v) \in V
      OBVIOUS
    <2>1. v.handler \in Handlers(lidars, Points(ext, steps)) /\ i \in DOMAIN steps
      BY <1>2 DEF Results
    <2>2. steps[i].pkt.lidar \in lidars
      BY StepsAreASequence
    <2> QED
      BY <2>1, <2>2, StepMeans
  <1> HIDE DEF n, V, start, Does
  <1>5. step \in [(1 .. n) \X V -> V] /\ \A i \in 1 .. n : \A v \in V : step[<<i, v>>] = Does(i, v)
    BY <1>4
  <1>6. PICK r : Loops(r, n, V, start, step)
    <2> HIDE DEF step
    <2> QED
      BY <1>2, <1>3, <1>5, Recursion
  <1> HIDE DEF step
  <1>7. r \in [0 .. n -> V] /\ r[0] = start /\ \A i \in 1 .. n : r[i] = step[<<i, r[i - 1]>>]
    BY <1>6 DEF Loops
  <1>8. \A i \in 0 .. n : r[i] = IF i = 0 THEN start ELSE Does(i, r[i - 1])
    <2> SUFFICES ASSUME NEW i \in 0 .. n, i # 0 PROVE r[i] = Does(i, r[i - 1])
      BY <1>7
    <2>1. i \in 1 .. n /\ i - 1 \in 0 .. n
      BY <1>2
    <2> QED
      BY <1>5, <1>7, <2>1
  <1>9. r = Loop(r)
    <2>1. r = [i \in 0 .. n |-> r[i]]
      BY <1>7
    <2> QED
      BY <1>8, <2>1
  <1>10. after = Loop(after)
    <2> HIDE DEF Loop
    <2> QED
      BY <1>9
  <1> HIDE DEF after
  <1>11. \A i \in 0 .. n : after[i] = IF i = 0 THEN start ELSE Does(i, after[i - 1])
    <2> DEFINE L == Loop(after)
    <2>1. \A i \in 0 .. n : L[i] = IF i = 0 THEN start ELSE Does(i, after[i - 1])
      OBVIOUS
    <2>2. after = L
      BY <1>10
    <2> HIDE DEF L
    <2> QED
      BY <2>1, <2>2
  <1> DEFINE P == {i \in 0 .. n : after[i] \in V}
  <1>12. 0 .. n \subseteq P
    <2>1. 0 \in P
      <3>1. 0 \in 0 .. n
        BY <1>2
      <3> QED
        BY <1>3, <1>11, <3>1
    <2>2. ASSUME NEW i \in 0 .. n, i # n, i \in P
          PROVE  i + 1 \in P
      <3>1. i + 1 \in 1 .. n /\ i + 1 \in 0 .. n /\ i + 1 # 0 /\ (i + 1) - 1 = i
        BY <1>2, <2>2
      <3>2. after[i + 1] = Does(i + 1, after[i])
        BY <1>11, <3>1
      <3> QED
        BY <1>4, <2>2, <3>1, <3>2
    <2> HIDE DEF P
    <2> QED
      BY <1>2, <2>1, <2>2, Induction
  <1>13. after \in [0 .. n -> V]
    <2>1. after = [i \in 0 .. n |-> after[i]]
      <3> DEFINE L == Loop(after)
      <3>1. L = [i \in 0 .. n |-> L[i]]
        OBVIOUS
      <3> HIDE DEF L
      <3>2. after = L
        BY <1>10 DEF L
      <3> QED
        BY <3>1, <3>2
    <2> QED
      BY <1>12, <2>1
  <1>14. Run(after, lidars, ext, steps)
    <2>1. after[0] = start
      BY <1>2, <1>11
    <2>2. \A i \in 1 .. n : after[i] = Does(i, after[i - 1])
      <3>1. \A i \in 1 .. n : i \in 0 .. n /\ i # 0
        BY <1>2
      <3> QED
        BY <1>11, <3>1
    <2> QED
      BY <1>13, <2>1, <2>2 DEF Run, n, V, start, Does
  <1> QED
    BY <1>1, <1>14

\* What a sequence of sequences is, joined.
Joins(joined, seqs, n, S) ==
  /\ joined \in [0 .. n -> Seq(S)] /\ joined[0] = <<>>
  /\ \A i \in 1 .. n : joined[i] = joined[i - 1] \o seqs[i]

LEMMA SequencesJoin ==
  ASSUME NEW n \in Nat, NEW S, NEW seqs \in [1 .. n -> Seq(S)]
  PROVE  \E joined : Joins(joined, seqs, n, S) /\ Frames!Joined(seqs) = joined[n]
  <1> DEFINE V == Seq(S)
             Loop(r) == [i \in 0 .. n |-> IF i = 0 THEN <<>> ELSE r[i - 1] \o seqs[i]]
             joined == CHOOSE r : r = Loop(r)
             step == [p \in (1 .. n) \X V |-> p[2] \o seqs[p[1]]]
  <1>1. Frames!Joined(seqs) = joined[n]
    <2>1. seqs \in Seq(Seq(S)) /\ DOMAIN seqs = 1 .. n
      OBVIOUS
    <2>2. Len(seqs) = n
      BY <2>1, LenProperties
    <2> QED
      BY <2>2 DEF Frames!Joined
  <1>2. <<>> \in V
    OBVIOUS
  <1>3. step \in [(1 .. n) \X V -> V] /\ \A i \in 1 .. n : \A v \in V : step[<<i, v>>] = v \o seqs[i]
    <2>1. \A i \in 1 .. n : \A v \in V : v \o seqs[i] \in V
      BY ConcatProperties
    <2> HIDE DEF V
    <2> QED
      BY <2>1
  <1> HIDE DEF step
  <1>4. PICK r : Loops(r, n, V, <<>>, step)
    <2> HIDE DEF V
    <2> QED
      BY <1>2, <1>3, Recursion
  <1>5. r \in [0 .. n -> V] /\ r[0] = <<>> /\ \A i \in 1 .. n : r[i] = step[<<i, r[i - 1]>>]
    BY <1>4 DEF Loops
  <1> HIDE DEF V
  <1>6. \A i \in 0 .. n : r[i] = IF i = 0 THEN <<>> ELSE r[i - 1] \o seqs[i]
    <2> SUFFICES ASSUME NEW i \in 0 .. n, i # 0 PROVE r[i] = r[i - 1] \o seqs[i]
      BY <1>5
    <2>1. i \in 1 .. n /\ i - 1 \in 0 .. n
      OBVIOUS
    <2> QED
      BY <1>3, <1>5, <2>1
  <1>7. r = Loop(r)
    <2>1. r = [i \in 0 .. n |-> r[i]]
      BY <1>5
    <2> QED
      BY <1>6, <2>1
  <1>8. joined = Loop(joined)
    <2> HIDE DEF Loop
    <2> QED
      BY <1>7
  <1> HIDE DEF joined
  <1>9. \A i \in 0 .. n : joined[i] = IF i = 0 THEN <<>> ELSE joined[i - 1] \o seqs[i]
    <2> DEFINE L == Loop(joined)
    <2>1. \A i \in 0 .. n : L[i] = IF i = 0 THEN <<>> ELSE joined[i - 1] \o seqs[i]
      OBVIOUS
    <2>2. joined = L
      BY <1>8
    <2> HIDE DEF L
    <2> QED
      BY <2>1, <2>2
  <1> DEFINE P == {i \in 0 .. n : joined[i] = r[i]}
  <1>10. 0 .. n \subseteq P
    <2>1. 0 \in P
      <3>1. 0 \in 0 .. n
        OBVIOUS
      <3> QED
        BY <1>6, <1>9, <3>1
    <2>2. ASSUME NEW i \in 0 .. n, i # n, i \in P
          PROVE  i + 1 \in P
      <3>1. i + 1 \in 0 .. n /\ i + 1 # 0 /\ (i + 1) - 1 = i
        BY <2>2
      <3>2. joined[i + 1] = joined[i] \o seqs[i + 1] /\ r[i + 1] = r[i] \o seqs[i + 1]
        BY <1>6, <1>9, <3>1
      <3> QED
        BY <2>2, <3>1, <3>2
    <2> HIDE DEF P
    <2> QED
      BY <2>1, <2>2, Induction
  <1>11. joined[n] = r[n]
    BY <1>10
  <1>12. Joins(r, seqs, n, S)
    <2>1. \A i \in 1 .. n : r[i] = r[i - 1] \o seqs[i]
      <3>1. \A i \in 1 .. n : i \in 0 .. n /\ i # 0
        OBVIOUS
      <3> QED
        BY <1>6, <3>1
    <2> QED
      BY <1>5, <2>1 DEF Joins, V
  <1> QED
    BY <1>1, <1>11, <1>12

LEMMA RunMeans ==
  ASSUME NEW lidars, NEW ext, NEW steps, StepsAsked(lidars, steps),
         NEW after, Run(after, lidars, ext, steps), NEW i \in 1 .. Len(steps), NEW l \in lidars
  PROVE  /\ after[i - 1].handler \in Handlers(lidars, Points(ext, steps))
         /\ after[i].handler \in Handlers(lidars, Points(ext, steps))
         /\ Grown(after[i - 1].handler, ext, steps[i].pkt, l) \in Seq(Points(ext, steps))
         /\ Outcome(after[i], after[i - 1].handler, ext, steps[i], l)
  <1>1. i - 1 \in 0 .. Len(steps) /\ i \in 0 .. Len(steps) /\ i \in DOMAIN steps
    BY StepsAreASequence
  <1>2. /\ after[i - 1].handler \in Handlers(lidars, Points(ext, steps))
        /\ after[i].handler \in Handlers(lidars, Points(ext, steps))
    BY <1>1 DEF Run, Results
  <1>3. after[i] = Frames!Processed(after[i - 1].handler, ext, steps[i].pkt, steps[i].synced, steps[i].now)
    BY DEF Run
  <1> QED
    BY <1>1, <1>2, <1>3, StepMeans

\* The host's clock ends a frame only when an interval has passed since the last
\* should have ended, and never falls back by more than one.
LEMMA FramesAlwaysKeepRate ==
  ASSUME NEW lidars, NEW ext, NEW steps, StepsAsked(lidars, steps),
         \A i \in DOMAIN steps : ~steps[i].synced
  PROVE  Frames!FramesKeepRate(lidars, ext, steps)
  <1> DEFINE n == Len(steps)
  <1>1. PICK after : /\ Run(after, lidars, ext, steps)
                     /\ Frames!AllProcessed(Frames!Started(lidars), ext, steps) = Told(after, steps)
    BY DriverRuns
  <1>2. n \in Nat \ {0} /\ DOMAIN steps = 1 .. n /\ steps[1].pkt.lidar \in lidars
    <2>1. 1 \in 1 .. n
      BY StepsAreASequence
    <2> QED
      BY <2>1, StepsAreASequence
  <1>a. n = Len(steps)
    OBVIOUS
  <1> HIDE DEF n
  <1> DEFINE Late(i) == {j \in 1 .. i : after[j].frames # {}}
             count(i) == Cardinality(Late(i))
             last(i) == after[i].handler.last
             now(i) == steps[i].now
  <1>3. \A i \in 0 .. n : IsFiniteSet(Late(i)) /\ count(i) \in Nat
    <2> SUFFICES ASSUME NEW i \in 0 .. n PROVE IsFiniteSet(Late(i)) /\ count(i) \in Nat
      OBVIOUS
    <2>1. IsFiniteSet(1 .. i) /\ Late(i) \subseteq 1 .. i
      BY <1>2, FS_Interval
    <2> HIDE DEF Late
    <2> QED
      BY <2>1, FS_Subset, FS_CardinalityType
  <1>4. \A i \in 1 .. n : now(i) \in Int /\ last(i) \in Int
    <2> SUFFICES ASSUME NEW i \in 1 .. n PROVE now(i) \in Int /\ last(i) \in Int
      OBVIOUS
    <2>1. after[i].handler \in Handlers(lidars, Points(ext, steps))
      BY <1>1, <1>2, <1>a, RunMeans
    <2> QED
      BY <1>2, <2>1 DEF StepsAsked, Handlers
  <1>5. ASSUME NEW i \in 1 .. n - 1
        PROVE  /\ i + 1 \in 1 .. n
               /\ \/ after[i + 1].frames = {} /\ count(i + 1) = count(i)
                  \/ after[i + 1].frames # {} /\ count(i + 1) = count(i) + 1
    <2>1. i + 1 \in 1 .. n /\ i \in 0 .. n /\ i + 1 \notin Late(i)
      BY <1>2
    <2>2. CASE after[i + 1].frames = {}
      <3>1. Late(i + 1) = Late(i)
        BY <2>1, <2>2
      <3> QED
        BY <2>1, <2>2, <3>1
    <2>3. CASE after[i + 1].frames # {}
      <3>1. Late(i + 1) = Late(i) \cup {i + 1}
        BY <2>1, <2>3
      <3>2. IsFiniteSet(Late(i))
        BY <1>3, <2>1
      <3> HIDE DEF Late
      <3> QED
        BY <2>1, <2>3, <3>1, <3>2, FS_AddElement
    <2> QED
      BY <2>2, <2>3
  <1> SUFFICES ASSUME \A i \in 1 .. n - 1 : now(i + 1) - now(i) \in 0 .. Frames!Interval
               PROVE  /\ count(n) * Frames!Interval <= now(n) - now(1)
                      /\ now(n) - last(n) < Frames!Interval
    <2>1. /\ Told(after, steps).handler = after[n].handler
          /\ DOMAIN Told(after, steps).frames = 1 .. n
          /\ \A i \in 1 .. n : Told(after, steps).frames[i] = after[i].frames
      BY <1>2, <1>a DEF Told
    <2>2. {i \in DOMAIN Told(after, steps).frames : Told(after, steps).frames[i] # {}} = Late(n)
      BY <2>1
    <2>3. Frames!Cardinality(Late(n)) = count(n)
      BY DEF Frames!Cardinality, Cardinality
    <2> HIDE DEF Late, count
    <2> QED
      BY <1>1, <1>2, <1>a, <2>1, <2>2, <2>3 DEF Frames!FramesKeepRate
  <1> DEFINE Keeps(i) == /\ ~after[i].handler.first
                         /\ 4 * count(i) <= last(i) - now(1)
                         /\ last(i) <= now(i) /\ now(i) - last(i) < 4
             P == {i \in 0 .. n : i > 0 => Keeps(i)}
  <1>6. 0 \in P
    BY <1>2
  <1>7. Frames!Interval = 4
    BY DEF Frames!Interval, Frames!IntervalMs, Frames!Ms
  <1>8. \A i \in 1 .. n : Outcome(after[i], after[i - 1].handler, ext, steps[i], steps[1].pkt.lidar)
    <2> SUFFICES ASSUME NEW i \in 1 .. n
                 PROVE  Outcome(after[i], after[i - 1].handler, ext, steps[i], steps[1].pkt.lidar)
      OBVIOUS
    <2>1. i \in 1 .. Len(steps) /\ steps[1].pkt.lidar \in lidars /\ Run(after, lidars, ext, steps)
      BY <1>1, <1>2, <1>a
    <2> QED
      BY <2>1, RunMeans
  <1>9. ASSUME NEW i \in 0 .. n, i # n, i \in P
        PROVE  i + 1 \in P
    <2>1. i + 1 \in 1 .. n /\ (i + 1) - 1 = i /\ ~steps[i + 1].synced
      BY <1>2, <1>9
    <2> DEFINE h == after[i].handler
               r == after[i + 1]
    <2>2. /\ ~r.handler.first
          /\ \/ h.first /\ last(i + 1) = now(i + 1) /\ r.frames = {}
             \/ ~h.first /\ now(i + 1) - h.last < 4 /\ last(i + 1) = h.last /\ r.frames = {}
             \/ ~h.first /\ now(i + 1) - h.last >= 4 /\ last(i + 1) = h.last + 4
      BY <1>7, <1>8, <2>1 DEF Outcome
    <2>3. CASE i = 0
      <3>1. h.first
        BY <1>1, <2>3 DEF Run, Frames!Started
      <3>2. last(1) = now(1) /\ r.frames = {} /\ ~r.handler.first
        BY <2>2, <2>3, <3>1
      <3>3. Late(1) = {}
        BY <2>3, <3>2
      <3>4. count(1) = 0
        BY <3>3, FS_EmptySet
      <3>5. 1 \in 1 .. n
        BY <1>2
      <3> HIDE DEF count, last, now
      <3>6. Keeps(1)
        BY <1>4, <2>3, <3>2, <3>4, <3>5
      <3> QED
        BY <2>1, <2>3, <3>6
    <2>4. CASE i # 0
      <3>1. i \in 1 .. n - 1 /\ i \in 1 .. n /\ i \in 0 .. n
        BY <1>2, <1>9, <2>4
      <3>2. Keeps(i)
        BY <1>9, <3>1
      <3>3. now(i + 1) - now(i) \in 0 .. 4
        BY <1>7, <3>1
      <3>4. /\ now(i) \in Int /\ now(i + 1) \in Int /\ last(i) \in Int /\ last(i + 1) \in Int /\ now(1) \in Int
            /\ count(i) \in Nat /\ count(i + 1) \in Nat
        <4>1. 1 \in 1 .. n /\ i + 1 \in 0 .. n
          BY <1>2, <2>1
        <4> HIDE DEF now, last, count, Late
        <4> QED
          BY <1>3, <1>4, <2>1, <3>1, <4>1
      <3>5. \/ r.frames = {} /\ count(i + 1) = count(i)
            \/ r.frames # {} /\ count(i + 1) = count(i) + 1
        BY <1>5, <3>1
      <3>6. \/ now(i + 1) - last(i) < 4 /\ last(i + 1) = last(i) /\ r.frames = {}
            \/ now(i + 1) - last(i) >= 4 /\ last(i + 1) = last(i) + 4
        BY <2>2, <3>2
      <3>7. ~r.handler.first
        BY <2>2
      <3> HIDE DEF count, last, now, r, h
      <3>8. /\ 4 * count(i) <= last(i) - now(1)
            /\ last(i) <= now(i) /\ now(i) - last(i) < 4
        BY <3>2
      <3>9. /\ 4 * count(i + 1) <= last(i + 1) - now(1)
            /\ last(i + 1) <= now(i + 1) /\ now(i + 1) - last(i + 1) < 4
        <4>1. ASSUME NEW a \in Int, NEW b \in Int, NEW y \in Int, NEW z \in Int, NEW s0 \in Int,
                     NEW c \in Int, NEW d \in Int,
                     4 * c <= y - s0, y <= a, a - y < 4, b - a \in 0 .. 4, d = c \/ d = c + 1,
                     \/ b - y < 4 /\ z = y /\ d = c
                     \/ b - y >= 4 /\ z = y + 4
              PROVE  4 * d <= z - s0 /\ z <= b /\ b - z < 4
          BY <4>1
        <4> QED
          BY <3>3, <3>4, <3>5, <3>6, <3>8, <4>1
      <3> QED
        BY <2>1, <3>7, <3>9 DEF r
    <2> QED
      BY <2>3, <2>4
  <1>10. n \in P /\ n > 0
    <2> HIDE DEF P
    <2>1. 0 .. n \subseteq P
      BY <1>2, <1>6, <1>9, Induction
    <2> QED
      BY <1>2, <2>1
  <1>11. now(n) \in Int /\ last(n) \in Int /\ now(1) \in Int /\ count(n) \in Nat
    <2>1. n \in 1 .. n /\ n \in 0 .. n /\ 1 \in 1 .. n
      BY <1>2
    <2> HIDE DEF now, last, count, Late
    <2> QED
      BY <1>3, <1>4, <2>1
  <1>12. 4 * count(n) <= last(n) - now(1) /\ last(n) <= now(n) /\ now(n) - last(n) < 4
    BY <1>10
  <1> HIDE DEF now, last, count
  <1> QED
    BY <1>7, <1>11, <1>12

\* The three turns one after another are the driver's matrix.
LEMMA TurnsAreRows ==
  ASSUME NEW cr \in Int, NEW sr \in Int, NEW cp \in Int, NEW sp \in Int, NEW cy \in Int, NEW sy \in Int,
         NEW a \in Int, NEW b \in Int, NEW c \in Int
  PROVE  /\ cy * (cp * a + sp * (sr * b + cr * c)) - sy * (cr * b - sr * c)
              = (cp * cy) * a + (sr * sp * cy - cr * sy) * b + (cr * sp * cy + sr * sy) * c
         /\ sy * (cp * a + sp * (sr * b + cr * c)) + cy * (cr * b - sr * c)
              = (cp * sy) * a + (sr * sp * sy + cr * cy) * b + (cr * sp * sy - sr * cy) * c
         /\ cp * (sr * b + cr * c) - sp * a = -sp * a + (sr * cp) * b + (cr * cp) * c
  OBVIOUS

LEMMA PointsArePlaced ==
  ASSUME NEW kind \in {"high", "spherical"}, NEW e, NEW raw, NEW mm,
         e.roll \in Int, e.pitch \in Int, e.yaw \in Int, Place(e.trans), Place(mm),
         kind = "high" => raw = mm, kind = "spherical" => Frames!Spherical(raw) = mm
  PROVE  Frames!PointIsPlaced(kind, e, raw, mm)
  <1>1. ASSUME NEW q \in Int
        PROVE  Frames!Cos(q) \in Int /\ Frames!Sin(q) \in Int
    <2>1. q % 4 \in 0 .. 3
      OBVIOUS
    <2>2. \A m \in 0 .. 3 : <<1, 0, -1, 0>>[1 + m] \in Int /\ <<0, 1, 0, -1>>[1 + m] \in Int
      OBVIOUS
    <2> QED
      BY <2>1, <2>2 DEF Frames!Cos, Frames!Sin
  <1> DEFINE ext == Frames!ExtParam(e)
             turned == Frames!Turned(ext.rotation, mm)
             way == Frames!Yawed(Frames!Pitched(Frames!Rolled(mm, e.roll), e.pitch), e.yaw)
  <1>2. ext.trans = e.trans
    BY DEF Frames!ExtParam
  <1>3. Frames!Placed(kind, ext, raw) = Frames!Plus(turned, e.trans)
    BY <1>2 DEF Frames!Placed
  <1>4. turned[1] = way[1] /\ turned[2] = way[2] /\ turned[3] = way[3]
    <2>1. PICK a \in Int, b \in Int, c \in Int : mm = <<a, b, c>>
      BY DEF Place
    <2>2. PICK cr \in Int, sr \in Int : cr = Frames!Cos(e.roll) /\ sr = Frames!Sin(e.roll)
      BY <1>1
    <2>3. PICK cp \in Int, sp \in Int : cp = Frames!Cos(e.pitch) /\ sp = Frames!Sin(e.pitch)
      BY <1>1
    <2>4. PICK cy \in Int, sy \in Int : cy = Frames!Cos(e.yaw) /\ sy = Frames!Sin(e.yaw)
      BY <1>1
    <2>5. ext.rotation = << <<cp * cy, sr * sp * cy - cr * sy, cr * sp * cy + sr * sy>>,
                            <<cp * sy, sr * sp * sy + cr * cy, cr * sp * sy - sr * cy>>,
                            <<-sp, sr * cp, cr * cp>> >>
      BY <2>2, <2>3, <2>4 DEF Frames!ExtParam, Frames!MiddleRow
    <2>6. /\ turned[1] = (cp * cy) * a + (sr * sp * cy - cr * sy) * b + (cr * sp * cy + sr * sy) * c
          /\ turned[2] = (cp * sy) * a + (sr * sp * sy + cr * cy) * b + (cr * sp * sy - sr * cy) * c
          /\ turned[3] = -sp * a + (sr * cp) * b + (cr * cp) * c
      <3>1. \A i \in 1 .. 3 : turned[i] = ext.rotation[i][1] * mm[1] + ext.rotation[i][2] * mm[2] + ext.rotation[i][3] * mm[3]
        BY DEF Frames!Turned
      <3> HIDE DEF turned, ext
      <3> QED
        BY <2>1, <2>5, <3>1
    <2>7. way = <<cy * (cp * a + sp * (sr * b + cr * c)) - sy * (cr * b - sr * c),
                  sy * (cp * a + sp * (sr * b + cr * c)) + cy * (cr * b - sr * c),
                  cp * (sr * b + cr * c) - sp * a>>
      BY <2>1, <2>2, <2>3, <2>4 DEF Frames!Rolled, Frames!Pitched, Frames!Yawed
    <2> HIDE DEF turned, way
    <2> QED
      BY <2>6, <2>7, TurnsAreRows
  <1>5. Frames!Plus(turned, e.trans) = Frames!Plus(way, e.trans)
    <2> HIDE DEF turned, way
    <2>1. \A i \in 1 .. 3 : turned[i] = way[i]
      BY <1>4
    <2> QED
      BY <2>1 DEF Frames!Plus
  <1> HIDE DEF turned, way
  <1> QED
    BY <1>3, <1>5 DEF Frames!PointIsPlaced, ext, way

\* Points that go forward do so over any distance.
LEMMA ForwardIsMonotone ==
  ASSUME NEW S, \A x \in S : x.time \in Nat, NEW p \in Seq(S), Frames!Forward(p),
         NEW i \in 1 .. Len(p), NEW j \in i .. Len(p)
  PROVE  p[i].time <= p[j].time
  <1> DEFINE n == Len(p)
             P == {k \in 0 .. n : i <= k => p[i].time <= p[k].time}
  <1>1. n \in Nat /\ \A k \in 1 .. n : p[k].time \in Nat
    <2>1. \A k \in 1 .. n : p[k] \in S
      BY ElementOfSeq
    <2> QED
      BY <2>1, LenProperties
  <1>2. \A k \in 1 .. n - 1 : p[k].time <= p[k + 1].time
    BY DEF Frames!Forward
  <1>a. i \in 1 .. n /\ j \in i .. n
    OBVIOUS
  <1> HIDE DEF n
  <1>3. 0 \in P
    BY <1>1, <1>a
  <1>4. ASSUME NEW k \in 0 .. n, k # n, k \in P
        PROVE  k + 1 \in P
    <2>1. CASE i <= k
      <3>1. k \in 1 .. n - 1 /\ k \in 1 .. n /\ k + 1 \in 1 .. n /\ k + 1 \in 0 .. n
        BY <1>1, <1>4, <1>a, <2>1
      <3>2. p[i].time <= p[k].time /\ p[k].time <= p[k + 1].time
        BY <1>2, <1>4, <2>1, <3>1
      <3>3. p[i].time \in Nat /\ p[k].time \in Nat /\ p[k + 1].time \in Nat
        BY <1>1, <1>a, <3>1
      <3>4. \A x, y, z \in Nat : x <= y /\ y <= z => x <= z
        OBVIOUS
      <3>5. p[i].time <= p[k + 1].time
        BY <3>2, <3>3, <3>4
      <3> QED
        BY <3>1, <3>5
    <2>2. CASE ~(i <= k)
      <3>1. k + 1 \in 0 .. n /\ (i <= k + 1 => i = k + 1)
        BY <1>1, <1>4, <1>a, <2>2
      <3>2. p[i].time <= p[i].time
        BY <1>1, <1>a
      <3> QED
        BY <3>1, <3>2
    <2> QED
      BY <2>1, <2>2
  <1> HIDE DEF P
  <1>5. 0 .. n \subseteq P
    BY <1>1, <1>3, <1>4, Induction
  <1>6. j \in 0 .. n /\ i <= j
    BY <1>1, <1>a
  <1> QED
    BY <1>5, <1>6 DEF P

\* A part of them has offsets that the message holds.
LEMMA PartsHaveOffsets ==
  ASSUME NEW S, \A x \in S : x.time \in Nat, NEW a \in Seq(S), NEW g \in Seq(S), NEW t \in Seq(S),
         Frames!Forward((a \o g) \o t), NEW k \in 1 .. Len(g)
  PROVE  /\ g[1].time \in Nat /\ g[k].time \in Nat
         /\ g[k].time - g[1].time \in 0 .. Frames!Word - 1
  <1>1. PICK p : p = (a \o g) \o t
    OBVIOUS
  <1>2. /\ a \o g \in Seq(S) /\ Len(a \o g) = Len(a) + Len(g)
        /\ p \in Seq(S) /\ Len(p) = (Len(a) + Len(g)) + Len(t)
    BY <1>1, ConcatProperties
  <1>3. Len(a) \in Nat /\ Len(g) \in Nat /\ Len(t) \in Nat /\ 1 \in 1 .. Len(g)
    BY LenProperties
  <1>4. ASSUME NEW i \in 1 .. Len(g)
        PROVE  Len(a) + i \in 1 .. Len(p) /\ p[Len(a) + i] = g[i]
    <2>1. /\ Len(a) + i \in 1 .. Len(a) + Len(g) /\ ~(Len(a) + i <= Len(a)) /\ (Len(a) + i) - Len(a) = i
          /\ Len(a) + i \in 1 .. Len(a \o g) + Len(t) /\ Len(a) + i <= Len(a \o g)
      BY <1>2, <1>3
    <2>2. (a \o g)[Len(a) + i] = g[i]
      BY <2>1, ConcatProperties
    <2>3. p[Len(a) + i] = (a \o g)[Len(a) + i]
      BY <1>1, <1>2, <2>1, ConcatProperties
    <2> QED
      BY <1>2, <2>1, <2>2, <2>3
  <1>5. Frames!Forward(p) /\ p # <<>>
    BY <1>1, <1>2, <1>3, EmptySeq
  <1>6. p[Len(p)].time - p[1].time < 32
    BY <1>5 DEF Frames!Forward, Frames!Word
  <1>7. PICK i \in 1 .. Len(p), j \in 1 .. Len(p) : i = Len(a) + 1 /\ j = Len(a) + k
    <2>1. Len(a) + 1 \in 1 .. Len(p) /\ Len(a) + k \in 1 .. Len(p)
      BY <1>2, <1>3
    <2> QED
      BY <2>1
  <1>8. p[i] = g[1] /\ p[j] = g[k]
    BY <1>3, <1>4, <1>7
  <1>9. 1 \in 1 .. Len(p) /\ i \in 1 .. Len(p) /\ j \in 1 .. Len(p) /\ Len(p) \in 1 .. Len(p)
        /\ i \in 1 .. Len(p) /\ j \in i .. Len(p) /\ Len(p) \in j .. Len(p)
    BY <1>2, <1>3, <1>7
  <1>10. p[1].time <= p[i].time /\ p[i].time <= p[j].time /\ p[j].time <= p[Len(p)].time
    BY <1>2, <1>5, <1>7, <1>9, ForwardIsMonotone
  <1>11. p[1].time \in Nat /\ p[i].time \in Nat /\ p[j].time \in Nat /\ p[Len(p)].time \in Nat
    <2>1. p[1] \in S /\ p[i] \in S /\ p[j] \in S /\ p[Len(p)] \in S
      BY <1>2, <1>9, ElementOfSeq
    <2> QED
      BY <2>1
  <1>12. \A w, x, y, z \in Nat : w <= x /\ x <= y /\ y <= z /\ z - w < 32 => y - x \in 0 .. 31
    OBVIOUS
  <1>13. p[j].time - p[i].time \in 0 .. 31
    BY <1>6, <1>10, <1>11, <1>12
  <1> QED
    BY <1>8, <1>11, <1>13 DEF Frames!Word

Extends(joined, i, n, S) == \E t \in Seq(S) : joined[n] = joined[i] \o t

\* What was added to a lidar's points is still before what is added later.
LEMMA JoinedGrows ==
  ASSUME NEW n \in Nat, NEW S, NEW seqs \in [1 .. n -> Seq(S)], NEW joined, Joins(joined, seqs, n, S),
         NEW i \in 0 .. n
  PROVE  Extends(joined, i, n, S)
  <1> DEFINE P == {k \in 0 .. n : i <= k => \E t \in Seq(S) : joined[k] = joined[i] \o t}
  <1>1. \A k \in 0 .. n : joined[k] \in Seq(S)
    BY DEF Joins
  <1>2. \A k \in 1 .. n : joined[k] = joined[k - 1] \o seqs[k]
    BY DEF Joins
  <1>3. joined[i] = joined[i] \o <<>> /\ <<>> \in Seq(S)
    BY <1>1, ConcatEmptySeq
  <1>4. 0 \in P
    <2>1. i <= 0 => i = 0
      OBVIOUS
    <2>2. i = 0 => joined[0] = joined[i] \o <<>>
      BY <1>3
    <2>3. 0 \in 0 .. n
      OBVIOUS
    <2> QED
      BY <1>3, <2>1, <2>2, <2>3
  <1>5. ASSUME NEW k \in 0 .. n, k # n, k \in P
        PROVE  k + 1 \in P
    <2>1. k + 1 \in 0 .. n /\ k + 1 \in 1 .. n /\ (k + 1) - 1 = k
      BY <1>5
    <2>2. CASE i <= k
      <3>1. PICK t \in Seq(S) : joined[k] = joined[i] \o t
        BY <1>5, <2>2
      <3>2. seqs[k + 1] \in Seq(S)
        BY <2>1
      <3>3. t \o seqs[k + 1] \in Seq(S)
        BY <3>2, ConcatProperties
      <3>4. joined[k + 1] = joined[i] \o (t \o seqs[k + 1])
        <4>1. (joined[i] \o t) \o seqs[k + 1] = joined[i] \o (t \o seqs[k + 1])
          <5>1. PICK a \in Seq(S), b \in Seq(S) : a = joined[i] /\ b = seqs[k + 1]
            BY <1>1, <3>2
          <5>2. (a \o t) \o b = a \o (t \o b)
            BY ConcatAssociative
          <5> QED
            BY <5>1, <5>2
        <4>2. joined[k + 1] = joined[k] \o seqs[k + 1]
          BY <1>2, <2>1
        <4> QED
          BY <3>1, <4>1, <4>2
      <3> QED
        BY <2>1, <3>3, <3>4
    <2>3. CASE ~(i <= k)
      <3>1. i <= k + 1 => i = k + 1
        BY <2>3
      <3> QED
        BY <1>3, <2>1, <3>1
    <2> QED
      BY <2>2, <2>3
  <1> HIDE DEF P
  <1>6. 0 .. n \subseteq P
    BY <1>4, <1>5, Induction
  <1>7. n \in 0 .. n /\ i <= n
    OBVIOUS
  <1> QED
    BY <1>6, <1>7 DEF P, Extends

\* Every point of a packet goes into one frame, in order, and the message says
\* when it was taken.
LEMMA FramesAlwaysKeepPoints ==
  ASSUME NEW lidars, NEW ext, NEW steps, StepsAsked(lidars, steps)
  PROVE  Frames!FramesKeepPoints(lidars, ext, steps)
  <1> DEFINE n == Len(steps)
             S == Points(ext, steps)
  <1>1. PICK after : /\ Run(after, lidars, ext, steps)
                     /\ Frames!AllProcessed(Frames!Started(lidars), ext, steps) = Told(after, steps)
    BY DriverRuns
  <1>2. n \in Nat \ {0} /\ DOMAIN steps = 1 .. n
    BY StepsAreASequence
  <1>3. \A x \in S : x.time \in Nat
    BY PointsHaveTimes
  <1>4. /\ Told(after, steps).handler = after[n].handler
        /\ Told(after, steps).frames = [i \in 1 .. n |-> after[i].frames]
    BY <1>2 DEF Told
  <1>5. n = Len(steps)
    OBVIOUS
  <1>6. \A i \in 1 .. n : Frames!Unpacked(ext, steps[i].pkt) \in Seq(S)
    <2> SUFFICES ASSUME NEW i \in 1 .. n PROVE Frames!Unpacked(ext, steps[i].pkt) \in Seq(S)
      OBVIOUS
    <2>1. i \in DOMAIN steps
      BY <1>2
    <2>2. Carries(ext, steps, i)
      BY <2>1, EveryPacketCarries
    <2> QED
      BY <2>2 DEF Carries
  <1> HIDE DEF n
  <1>a. Points(ext, steps) = S
    OBVIOUS
  <1> HIDE DEF S
  <1> SUFFICES ASSUME NEW l \in lidars
               PROVE  LET frames == [i \in 1 .. n |-> after[i].frames]
                          came == Frames!Came(ext, steps, l)
                      IN  /\ Frames!Went(frames, l) \o after[n].handler.clouds[l] = came
                          /\ Frames!Forward(came) =>
                                \A i \in 1 .. n : \A f \in after[i].frames : f.lidar = l =>
                                   LET m == Frames!CustomMsg(f)
                                   IN  \A k \in DOMAIN f.points :
                                          m.timebase + m.points[k].offset = Frames!PointCloud2(f).points[k].time
    <2>1. LET done == Frames!AllProcessed(Frames!Started(lidars), ext, steps)
          IN  /\ done.handler = after[n].handler
              /\ done.frames = [i \in 1 .. n |-> after[i].frames]
      BY <1>1, <1>4
    <2> DEFINE done == Frames!AllProcessed(Frames!Started(lidars), ext, steps)
               frames == [i \in 1 .. n |-> after[i].frames]
    <2>2. DOMAIN frames = 1 .. n /\ \A i \in 1 .. n : frames[i] = after[i].frames
      OBVIOUS
    <2>3. done.handler = after[n].handler /\ done.frames = frames
      BY <2>1
    <2> SUFFICES ASSUME NEW l \in lidars
                 PROVE  LET came == Frames!Came(ext, steps, l)
                        IN  /\ Frames!Went(done.frames, l) \o done.handler.clouds[l] = came
                            /\ Frames!Forward(came) =>
                                  \A i \in DOMAIN done.frames : \A f \in done.frames[i] : f.lidar = l =>
                                     LET m == Frames!CustomMsg(f)
                                     IN  \A k \in DOMAIN f.points :
                                            m.timebase + m.points[k].offset = Frames!PointCloud2(f).points[k].time
      BY DEF Frames!FramesKeepPoints
    <2> HIDE DEF done
    <2>4. LET came == Frames!Came(ext, steps, l)
          IN  /\ Frames!Went(frames, l) \o after[n].handler.clouds[l] = came
              /\ Frames!Forward(came) =>
                    \A i \in 1 .. n : \A f \in after[i].frames : f.lidar = l =>
                       LET m == Frames!CustomMsg(f)
                       IN  \A k \in DOMAIN f.points :
                              m.timebase + m.points[k].offset = Frames!PointCloud2(f).points[k].time
      OBVIOUS
    <2> HIDE DEF frames
    <2> QED
      BY <2>2, <2>3, <2>4
  <1> DEFINE cs == [i \in 1 .. n |-> IF steps[i].pkt.lidar = l THEN Frames!Unpacked(ext, steps[i].pkt) ELSE <<>>]
             ws == [i \in 1 .. n |-> IF \E f \in after[i].frames : f.lidar = l
                                     THEN (CHOOSE f \in after[i].frames : f.lidar = l).points ELSE <<>>]
             cloud(i) == after[i].handler.clouds[l]
             grown(i) == Grown(after[i - 1].handler, ext, steps[i].pkt, l)
  <1>7. /\ Frames!Came(ext, steps, l) = Frames!Joined(cs)
        /\ Frames!Went([i \in 1 .. n |-> after[i].frames], l) = Frames!Joined(ws)
    <2>1. Frames!Came(ext, steps, l) = Frames!Joined(cs)
      BY <1>2 DEF Frames!Came
    <2> DEFINE frames == [i \in 1 .. n |-> after[i].frames]
    <2>2. DOMAIN frames = 1 .. n /\ \A i \in 1 .. n : frames[i] = after[i].frames
      OBVIOUS
    <2> HIDE DEF frames
    <2>3. Frames!Went(frames, l) = Frames!Joined(ws)
      <3> DEFINE ws2 == [i \in 1 .. n |-> IF \E f \in frames[i] : f.lidar = l
                                          THEN (CHOOSE f \in frames[i] : f.lidar = l).points ELSE <<>>]
      <3>1. ws2 = ws
        BY <2>2
      <3>2. Frames!Went(frames, l) = Frames!Joined(ws2)
        BY <2>2 DEF Frames!Went
      <3> HIDE DEF ws, ws2
      <3> QED
        BY <3>1, <3>2
    <2> QED
      BY <2>1, <2>3 DEF frames
  <1>8. \A i \in 1 .. n : cs[i] \in Seq(S) /\ cs[i] = IF steps[i].pkt.lidar = l THEN Frames!Unpacked(ext, steps[i].pkt) ELSE <<>>
    BY <1>6
  <1>9. \A i \in 0 .. n : cloud(i) \in Seq(S)
    BY <1>1, <1>5, <1>a DEF Run, Results, Handlers
  <1>10. ASSUME NEW i \in 1 .. n
         PROVE  /\ i - 1 \in 0 .. n
                /\ grown(i) = cloud(i - 1) \o cs[i] /\ grown(i) \in Seq(S)
                /\ \/ Waits(after[i], l, grown(i)) /\ ws[i] = <<>>
                   \/ Leaves(after[i], l, grown(i)) /\ ws[i] = grown(i)
    <2>1. i \in 1 .. Len(steps) /\ i - 1 \in 0 .. n
      BY <1>2, <1>5
    <2>2. Outcome(after[i], after[i - 1].handler, ext, steps[i], l) /\ grown(i) \in Seq(S)
      BY <1>1, <1>a, <2>1, RunMeans
    <2>3. Waits(after[i], l, grown(i)) \/ Leaves(after[i], l, grown(i))
      BY <2>2 DEF Outcome
    <2>4. grown(i) = cloud(i - 1) \o cs[i]
      BY DEF Grown
    <2>5. ws[i] = IF \E f \in after[i].frames : f.lidar = l
                  THEN (CHOOSE f \in after[i].frames : f.lidar = l).points ELSE <<>>
      OBVIOUS
    <2> HIDE DEF ws, grown, cs, cloud
    <2>6. CASE Waits(after[i], l, grown(i))
      <3>1. ~ \E f \in after[i].frames : f.lidar = l
        BY <2>6 DEF Waits
      <3> QED
        BY <2>1, <2>2, <2>4, <2>5, <2>6, <3>1
    <2>7. CASE Leaves(after[i], l, grown(i))
      <3>1. \E f \in after[i].frames : f.lidar = l
        BY <2>7 DEF Leaves, TheFrame
      <3>2. PICK g \in after[i].frames : g.lidar = l /\ g = CHOOSE f \in after[i].frames : f.lidar = l
        BY <3>1
      <3>3. g.points = grown(i)
        BY <2>7, <3>2 DEF Leaves, TheFrame
      <3>4. ws[i] = grown(i)
        BY <2>5, <3>1, <3>2, <3>3
      <3> QED
        BY <2>1, <2>2, <2>4, <2>7, <3>4
    <2> QED
      BY <2>3, <2>6, <2>7
  <1>11. cs \in [1 .. n -> Seq(S)] /\ ws \in [1 .. n -> Seq(S)]
    <2>1. \A i \in 1 .. n : ws[i] \in Seq(S)
      <3>1. <<>> \in Seq(S)
        OBVIOUS
      <3> HIDE DEF ws, cs, grown, cloud
      <3> QED
        BY <1>10, <3>1
    <2>2. ws = [i \in 1 .. n |-> ws[i]] /\ cs = [i \in 1 .. n |-> cs[i]]
      OBVIOUS
    <2> HIDE DEF ws, cs
    <2> QED
      BY <1>8, <2>1, <2>2
  <1> HIDE DEF ws, cs, grown, cloud
  <1>12. PICK C : Joins(C, cs, n, S) /\ Frames!Joined(cs) = C[n]
    BY <1>2, <1>11, SequencesJoin
  <1>13. PICK W : Joins(W, ws, n, S) /\ Frames!Joined(ws) = W[n]
    BY <1>2, <1>11, SequencesJoin
  <1>14. /\ \A i \in 0 .. n : C[i] \in Seq(S) /\ W[i] \in Seq(S)
         /\ C[0] = <<>> /\ W[0] = <<>>
         /\ \A i \in 1 .. n : C[i] = C[i - 1] \o cs[i] /\ W[i] = W[i - 1] \o ws[i]
    BY <1>12, <1>13 DEF Joins
  <1>15. ASSUME NEW i \in 1 .. n, W[i - 1] \o cloud(i - 1) = C[i - 1]
         PROVE  W[i - 1] \o grown(i) = C[i] /\ W[i] \o cloud(i) = C[i]
    <2>1. i - 1 \in 0 .. n /\ i \in 0 .. n /\ cs[i] \in Seq(S) /\ grown(i) \in Seq(S)
      <3>1. i - 1 \in 0 .. n /\ grown(i) \in Seq(S)
        BY <1>10, Zenon
      <3>2. i \in 0 .. n
        BY <1>2
      <3> QED
        BY <1>8, <3>1, <3>2, Zenon
    <2>2. W[i - 1] \in Seq(S) /\ W[i] \in Seq(S) /\ cloud(i - 1) \in Seq(S)
      BY <1>9, <1>14, <2>1
    <2>3. W[i - 1] \o grown(i) = C[i]
      <3>1. (W[i - 1] \o cloud(i - 1)) \o cs[i] = W[i - 1] \o (cloud(i - 1) \o cs[i])
        <4>1. PICK a \in Seq(S), b \in Seq(S), c \in Seq(S) : a = W[i - 1] /\ b = cloud(i - 1) /\ c = cs[i]
          BY <2>1, <2>2
        <4>2. (a \o b) \o c = a \o (b \o c)
          BY ConcatAssociative
        <4> QED
          BY <4>1, <4>2
      <3>2. C[i] = C[i - 1] \o cs[i] /\ grown(i) = cloud(i - 1) \o cs[i]
        BY <1>10, <1>14
      <3> QED
        BY <1>15, <3>1, <3>2
    <2>4. W[i] = W[i - 1] \o ws[i]
      BY <1>14
    <2>5. CASE Waits(after[i], l, grown(i)) /\ ws[i] = <<>>
      <3>1. cloud(i) = grown(i)
        BY <2>5 DEF Waits, cloud
      <3>2. W[i] = W[i - 1]
        BY <2>2, <2>4, <2>5, ConcatEmptySeq
      <3> QED
        BY <2>3, <3>1, <3>2
    <2>6. CASE Leaves(after[i], l, grown(i)) /\ ws[i] = grown(i)
      <3>1. cloud(i) = <<>>
        BY <2>6 DEF Leaves, cloud
      <3>2. W[i] = C[i]
        BY <2>3, <2>4, <2>6
      <3> QED
        BY <2>2, <2>3, <3>1, <3>2, ConcatEmptySeq
    <2> QED
      BY <1>10, <2>5, <2>6
  <1> DEFINE P == {i \in 0 .. n : W[i] \o cloud(i) = C[i]}
  <1>16. 0 .. n \subseteq P
    <2>1. 0 \in P
      <3>1. cloud(0) = <<>> /\ 0 \in 0 .. n
        BY <1>1, <1>2 DEF cloud, Run, Frames!Started
      <3>2. <<>> \o <<>> = <<>>
        <4>1. <<>> \in Seq(S)
          OBVIOUS
        <4> QED
          BY <4>1, ConcatEmptySeq
      <3> QED
        BY <1>14, <3>1, <3>2
    <2>2. ASSUME NEW i \in 0 .. n, i # n, i \in P
          PROVE  i + 1 \in P
      <3>1. i + 1 \in 1 .. n /\ i + 1 \in 0 .. n /\ (i + 1) - 1 = i
        BY <1>2, <2>2
      <3>2. W[i] \o cloud(i) = C[i]
        BY <2>2
      <3>3. W[i + 1] \o cloud(i + 1) = C[i + 1]
        BY <1>15, <3>1, <3>2
      <3> QED
        BY <3>1, <3>3
    <2> HIDE DEF P
    <2> QED
      BY <1>2, <2>1, <2>2, Induction
  <1>17. W[n] \o cloud(n) = C[n]
    <2>1. n \in 0 .. n
      BY <1>2
    <2> QED
      BY <1>16, <2>1
  <1>18. ASSUME Frames!Forward(C[n]), NEW i \in 1 .. n, NEW f \in after[i].frames, f.lidar = l,
                NEW k \in DOMAIN f.points
         PROVE  LET m == Frames!CustomMsg(f)
                IN  m.timebase + m.points[k].offset = Frames!PointCloud2(f).points[k].time
    <2>1. Leaves(after[i], l, grown(i)) /\ f = TheFrame(l, grown(i))
      BY <1>10, <1>18 DEF Waits, Leaves
    <2>2. grown(i) \in Seq(S) /\ grown(i) # <<>> /\ f.points = grown(i) /\ f.base = grown(i)[1].time
      BY <1>10, <2>1 DEF Leaves, TheFrame, Frames!BaseTime
    <2>3. i - 1 \in 0 .. n /\ i \in 0 .. n /\ W[i - 1] \in Seq(S) /\ W[i - 1] \o grown(i) = C[i]
      <3>1. i - 1 \in 0 .. n /\ i \in 0 .. n
        BY <1>2, <1>10
      <3>2. W[i - 1] \o cloud(i - 1) = C[i - 1]
        BY <1>16, <3>1
      <3> QED
        BY <1>14, <1>15, <3>1, <3>2
    <2>4. PICK t \in Seq(S) : C[n] = C[i] \o t
      <3>1. n \in Nat /\ i \in 0 .. n /\ cs \in [1 .. n -> Seq(S)] /\ Joins(C, cs, n, S)
        BY <1>2, <1>11, <1>12, <2>3
      <3> QED
        <4>1. Extends(C, i, n, S)
          BY <3>1, JoinedGrows
        <4> QED
          BY <4>1 DEF Extends
    <2>5. k \in 1 .. Len(grown(i))
      BY <2>2, LenProperties
    <2>6. Frames!Forward((W[i - 1] \o grown(i)) \o t)
      BY <1>18, <2>3, <2>4
    <2>7. PICK g \in Seq(S) : g = grown(i)
      BY <2>2
    <2>8. /\ g[1].time \in Nat /\ g[k].time \in Nat
          /\ g[k].time - g[1].time \in 0 .. Frames!Word - 1
      BY <1>3, <2>3, <2>5, <2>6, <2>7, PartsHaveOffsets
    <2>9. /\ Frames!CustomMsg(f).timebase = g[1].time
          /\ Frames!CustomMsg(f).points[k].offset = (g[k].time - g[1].time) % Frames!Word
          /\ Frames!PointCloud2(f).points[k].time = g[k].time
      BY <2>2, <2>7 DEF Frames!CustomMsg, Frames!PointCloud2
    <2>10. \A x, y \in Nat : y - x \in 0 .. 31 => x + ((y - x) % 32) = y
      OBVIOUS
    <2> QED
      BY <2>8, <2>9, <2>10 DEF Frames!Word
  <1> QED
    BY <1>7, <1>12, <1>13, <1>17, <1>18 DEF cloud

\* How far points that wait may reach from their base to their end: not over the
\* next multiple of the interval, or not far enough to be a frame.
Short(end, base) == end - base <= 1 \/ (end % 4 >= 2 /\ (end + 3) - (end % 4) - base <= 5)
Ends(end, base) == (end \div 2) % 2 = 0 /\ end \div 2 # 0 /\ end - base >= 2

LEMMA ShortStays ==
  ASSUME NEW end \in Nat, NEW base \in Nat,
         end - base <= 4 \/ \E e \in Nat : end - e \in 0 .. 2 /\ Short(e, base)
  PROVE  end - base <= 7 /\ (~Ends(end, base) => Short(end, base))
  <1>1. PICK a \in Nat, c \in 0 .. 3 : end = 4 * a + c
    <2>1. end \div 4 \in Nat /\ end % 4 \in 0 .. 3 /\ end = 4 * (end \div 4) + (end % 4)
      OBVIOUS
    <2> QED
      BY <2>1
  <1>2. end % 4 = c /\ (Ends(end, base) <=> c \in {0, 1} /\ a # 0 /\ end - base >= 2)
    <2>1. c = 0 \/ c = 1 \/ c = 2 \/ c = 3
      OBVIOUS
    <2>2. end % 4 = c
      BY <1>1
    <2>3. end \div 2 = IF c \in {0, 1} THEN 2 * a ELSE 2 * a + 1
      BY <1>1, <2>1
    <2>4. (2 * a) % 2 = 0 /\ (2 * a + 1) % 2 = 1
      OBVIOUS
    <2> QED
      BY <2>1, <2>2, <2>3, <2>4 DEF Ends
  <1>3. CASE end - base <= 4
    BY <1>1, <1>2, <1>3 DEF Short
  <1>4. CASE \E e \in Nat : end - e \in 0 .. 2 /\ Short(e, base)
    <2>1. PICK e \in Nat : end - e \in 0 .. 2 /\ Short(e, base)
      BY <1>4
    <2>2. CASE e - base <= 1
      BY <1>1, <1>2, <2>1, <2>2 DEF Short
    <2>3. CASE e % 4 >= 2 /\ (e + 3) - (e % 4) - base <= 5
      <3>1. PICK b \in Nat, d \in 0 .. 3 : e = 4 * b + d /\ e % 4 = d
        <4>1. e \div 4 \in Nat /\ e % 4 \in 0 .. 3 /\ e = 4 * (e \div 4) + (e % 4)
          OBVIOUS
        <4> QED
          BY <4>1
      <3>2. d \in 2 .. 3 /\ 4 * b + 3 - base <= 5
        BY <2>3, <3>1
      <3>3. end - base <= 7
        BY <1>1, <2>1, <3>1, <3>2
      <3>4. ASSUME ~Ends(end, base)
            PROVE  Short(end, base)
        <4>1. c \in 2 .. 3 \/ a = 0 \/ end - base <= 1
          BY <1>1, <1>2, <3>4
        <4>2. c \in 2 .. 3 => a = b
          BY <1>1, <2>1, <3>1, <3>2
        <4>3. a = 0 /\ c \in 0 .. 1 => FALSE
          BY <1>1, <2>1, <3>1, <3>2
        <4>4. CASE c \in 2 .. 3
          <5>1. (end + 3) - c - base <= 5
            BY <1>1, <3>2, <4>2, <4>4
          <5> QED
            BY <1>2, <4>4, <5>1 DEF Short
        <4>5. CASE end - base <= 1
          BY <4>5 DEF Short
        <4> QED
          BY <4>1, <4>3, <4>4, <4>5
      <3> QED
        BY <3>3, <3>4
    <2> QED
      BY <2>1, <2>2, <2>3 DEF Short
  <1> QED
    BY <1>3, <1>4

\* A synchronised frame is about one interval long.
LEMMA FramesAreAlwaysRegular ==
  ASSUME NEW lidars, NEW ext, NEW steps, StepsAsked(lidars, steps),
         \A i \in DOMAIN steps : steps[i].synced
  PROVE  Frames!FramesAreRegular(lidars, ext, steps)
  <1> DEFINE n == Len(steps)
             S == Points(ext, steps)
  <1>1. PICK after : /\ Run(after, lidars, ext, steps)
                     /\ Frames!AllProcessed(Frames!Started(lidars), ext, steps) = Told(after, steps)
    BY DriverRuns
  <1>2. n \in Nat \ {0} /\ DOMAIN steps = 1 .. n /\ n = Len(steps)
    BY StepsAreASequence
  <1>3. S = Points(ext, steps) /\ \A x \in S : x.time \in Nat
    BY PointsHaveTimes
  <1>4. LET frames == Frames!AllProcessed(Frames!Started(lidars), ext, steps).frames
        IN  DOMAIN frames = 1 .. n /\ \A i \in 1 .. n : frames[i] = after[i].frames
    BY <1>1, <1>2 DEF Told
  <1> HIDE DEF n, S
  <1> SUFFICES ASSUME NEW l \in lidars, Frames!Dense(ext, steps, l)
               PROVE  \A i \in 1 .. n : \A f \in after[i].frames : f.lidar = l =>
                         Frames!Recent(f.points) - f.base \in Frames!Tolerance .. 2 * Frames!Interval - 1
    <2> DEFINE frames == Frames!AllProcessed(Frames!Started(lidars), ext, steps).frames
    <2>1. DOMAIN frames = 1 .. n /\ \A i \in 1 .. n : frames[i] = after[i].frames
      BY <1>4
    <2> SUFFICES ASSUME NEW l \in lidars, Frames!Dense(ext, steps, l)
                 PROVE  \A i \in DOMAIN frames : \A f \in frames[i] : f.lidar = l =>
                           Frames!Recent(f.points) - f.base \in Frames!Tolerance .. 2 * Frames!Interval - 1
      BY DEF Frames!FramesAreRegular
    <2> HIDE DEF frames
    <2> QED
      BY <2>1
  <1> DEFINE cloud(i) == after[i].handler.clouds[l]
             grown(i) == Grown(after[i - 1].handler, ext, steps[i].pkt, l)
             mine(i) == steps[i].pkt.lidar = l
             ending(i) == Frames!Ending(ext, steps[i])
             Last(j, i) == j \in 1 .. i /\ mine(j) /\ \A k \in j + 1 .. i : ~mine(k)
             Waiting(c, i) == c # <<>> => /\ Short(Frames!Recent(c), Frames!BaseTime(c))
                                          /\ \E j \in 1 .. i : Last(j, i) /\ Frames!Recent(c) = ending(j)
  <1>5. ASSUME NEW i \in 1 .. n
        PROVE  /\ i - 1 \in 0 .. n /\ i \in 0 .. n
               /\ cloud(i - 1) \in Seq(S) /\ grown(i) \in Seq(S)
               /\ \/ Waits(after[i], l, grown(i)) /\ (mine(i) /\ grown(i) # <<>> => ~Frames!Due(grown(i)))
                  \/ Leaves(after[i], l, grown(i)) /\ mine(i) /\ Frames!Due(grown(i))
    <2>1. i \in 1 .. Len(steps) /\ i - 1 \in 0 .. n /\ i \in 0 .. n /\ steps[i].synced
      BY <1>2
    <2>2. /\ Outcome(after[i], after[i - 1].handler, ext, steps[i], l) /\ grown(i) \in Seq(S)
          /\ after[i - 1].handler \in Handlers(lidars, S)
      BY <1>1, <1>3, <2>1, RunMeans
    <2>3. cloud(i - 1) \in Seq(S)
      BY <2>2 DEF Handlers
    <2> HIDE DEF grown
    <2>4. \/ Waits(after[i], l, grown(i)) /\ (mine(i) /\ grown(i) # <<>> => ~Frames!Due(grown(i)))
          \/ Leaves(after[i], l, grown(i)) /\ mine(i) /\ Frames!Due(grown(i))
      BY <2>1, <2>2 DEF Outcome, grown
    <2> QED
      BY <2>1, <2>2, <2>3, <2>4
  <1>6. ASSUME NEW i \in 1 .. n
        PROVE  grown(i) = cloud(i - 1) \o IF mine(i) THEN Frames!Unpacked(ext, steps[i].pkt) ELSE <<>>
    BY DEF Grown
  <1> DEFINE unpacked(i) == Frames!Unpacked(ext, steps[i].pkt)
  <1>7. ASSUME NEW i \in 1 .. n, mine(i)
        PROVE  /\ unpacked(i) \in Seq(S) /\ unpacked(i) # <<>>
               /\ unpacked(i)[Len(unpacked(i))].time = ending(i)
               /\ ending(i) - unpacked(i)[1].time <= 4
    <2>1. i \in DOMAIN steps
      BY <1>2
    <2>2. Carries(ext, steps, i)
      BY <2>1, EveryPacketCarries
    <2>3. steps[i].pkt.raw # <<>> /\ ending(i) - steps[i].pkt.time <= 4
      BY <1>7, <2>1 DEF Frames!Dense, Frames!Interval, Frames!IntervalMs, Frames!Ms
    <2>4. PICK R : steps[i].pkt.raw \in Seq(R)
      BY <2>1 DEF StepsAsked, IsSequence
    <2>5. Len(steps[i].pkt.raw) \in Nat \ {0} /\ 1 \in 1 .. Len(steps[i].pkt.raw)
      BY <2>3, <2>4, LenProperties, EmptySeq
    <2>6. unpacked(i) \in Seq(S) /\ Len(unpacked(i)) # 0 /\ unpacked(i)[1].time = TimeOf(steps[i].pkt, 1)
      BY <1>3, <2>2, <2>5 DEF Carries
    <2>7. steps[i].pkt.time \in Nat /\ steps[i].pkt.interval \in Nat
      BY <2>1 DEF StepsAsked
    <2>8. TimeOf(steps[i].pkt, 1) = steps[i].pkt.time
      BY <2>7 DEF TimeOf
    <2>9. unpacked(i)[Len(unpacked(i))].time = ending(i)
      BY DEF Frames!Ending
    <2>10. unpacked(i) # <<>>
      BY <2>6, EmptySeq
    <2> HIDE DEF unpacked, ending
    <2> QED
      BY <2>3, <2>6, <2>8, <2>9, <2>10
  <1>8. ASSUME NEW i \in 1 .. n, NEW j \in 1 .. n, Last(i, j - 1), mine(j)
        PROVE  ending(j) - ending(i) \in 0 .. 2
    <2>1. i \in DOMAIN steps /\ j \in DOMAIN steps
      BY <1>2
    <2>2. i < j /\ \A k \in i + 1 .. j - 1 : ~mine(k)
      BY <1>2, <1>8
    <2>3. Frames!Follows(steps, i, j)
      BY <1>8, <2>2 DEF Frames!Follows
    <2>4. \A a, b \in DOMAIN steps : Frames!Follows(steps, a, b) /\ steps[a].pkt.lidar = l =>
             Frames!Ending(ext, steps[b]) - Frames!Ending(ext, steps[a]) \in 0 .. Frames!Ms
      BY DEF Frames!Dense
    <2> QED
      BY <1>8, <2>1, <2>3, <2>4 DEF Frames!Ms
  <1> HIDE DEF unpacked, grown, cloud, ending
  <1>9. ASSUME NEW c \in Seq(S), c # <<>>
        PROVE  /\ Frames!BaseTime(c) \in Nat /\ Frames!Recent(c) \in Nat
               /\ Frames!BaseTime(c) = c[1].time /\ Frames!Recent(c) = c[Len(c)].time
               /\ Frames!Due(c) <=> Ends(Frames!Recent(c), Frames!BaseTime(c))
    <2>1. Len(c) \in Nat \ {0} /\ 1 \in 1 .. Len(c) /\ Len(c) \in 1 .. Len(c)
      BY <1>9, LenProperties, EmptySeq
    <2>2. c[1] \in S /\ c[Len(c)] \in S
      BY <2>1, ElementOfSeq
    <2>3. Frames!BaseTime(c) = c[1].time /\ Frames!Recent(c) = c[Len(c)].time
      BY <1>9 DEF Frames!BaseTime, Frames!Recent
    <2>4. Frames!Due(c) <=> Ends(Frames!Recent(c), Frames!BaseTime(c))
      BY DEF Frames!Due, Ends, Frames!Ms, Frames!IntervalMs, Frames!Tolerance, Frames!Interval
    <2> QED
      BY <1>3, <2>2, <2>3, <2>4
  <1>10. ASSUME NEW i \in 1 .. n, mine(i), Waiting(cloud(i - 1), i - 1)
         PROVE  /\ grown(i) # <<>> /\ Frames!Recent(grown(i)) = ending(i)
                /\ Frames!Recent(grown(i)) - Frames!BaseTime(grown(i)) <= 7
                /\ ~Frames!Due(grown(i)) => Short(Frames!Recent(grown(i)), Frames!BaseTime(grown(i)))
    <2>1. PICK c \in Seq(S), u \in Seq(S), g \in Seq(S) :
             c = cloud(i - 1) /\ u = unpacked(i) /\ g = grown(i) /\ g = c \o u
      BY <1>5, <1>6, <1>7, <1>10 DEF unpacked
    <2>2. u # <<>> /\ u[Len(u)].time = ending(i) /\ ending(i) - u[1].time <= 4
      BY <1>7, <1>10, <2>1
    <2>3. /\ Len(c) \in Nat /\ Len(u) \in Nat \ {0} /\ Len(g) = Len(c) + Len(u)
          /\ \A k \in 1 .. Len(c) + Len(u) : g[k] = IF k <= Len(c) THEN c[k] ELSE u[k - Len(c)]
      BY <2>1, <2>2, ConcatProperties, LenProperties, EmptySeq
    <2>4. g # <<>> /\ g[Len(g)] = u[Len(u)]
      <3>1. /\ Len(g) \in 1 .. Len(c) + Len(u) /\ ~(Len(g) <= Len(c)) /\ Len(g) - Len(c) = Len(u)
            /\ Len(g) # 0
        BY <2>3
      <3> QED
        BY <2>3, <3>1, EmptySeq
    <2>5. Frames!Recent(g) = ending(i) /\ Frames!Recent(g) \in Nat /\ Frames!BaseTime(g) \in Nat
          /\ Frames!BaseTime(g) = g[1].time
      BY <1>9, <2>2, <2>4
    <2>6. Frames!Recent(g) - Frames!BaseTime(g) <= 4
          \/ \E e \in Nat : Frames!Recent(g) - e \in 0 .. 2 /\ Short(e, Frames!BaseTime(g))
      <3>1. CASE c = <<>>
        <4>1. g[1] = u[1]
          <5>1. Len(c) = 0 /\ 1 \in 1 .. Len(c) + Len(u) /\ ~(1 <= Len(c)) /\ 1 - Len(c) = 1
            BY <2>3, <3>1
          <5> QED
            BY <2>3, <5>1
        <4> QED
          BY <2>2, <2>5, <4>1
      <3>2. CASE c # <<>>
        <4>1. g[1] = c[1]
          <5>1. Len(c) # 0
            BY <3>2, EmptySeq
          <5>2. 1 \in 1 .. Len(c) + Len(u) /\ 1 <= Len(c)
            BY <2>3, <5>1
          <5> QED
            BY <2>3, <5>2
        <4>2. Frames!BaseTime(c) = c[1].time /\ Frames!Recent(c) \in Nat
          BY <1>9, <3>2
        <4>3. PICK j \in 1 .. i - 1 : Last(j, i - 1) /\ Frames!Recent(c) = ending(j)
          BY <1>10, <2>1, <3>2
        <4>4. Short(Frames!Recent(c), Frames!BaseTime(c))
          BY <1>10, <2>1, <3>2
        <4>5. j \in 1 .. n
          BY <1>2, <4>3
        <4>6. ending(i) - ending(j) \in 0 .. 2
          BY <1>8, <1>10, <4>3, <4>5
        <4>7. Frames!Recent(g) - Frames!Recent(c) \in 0 .. 2 /\ Frames!BaseTime(g) = Frames!BaseTime(c)
          BY <2>5, <4>1, <4>2, <4>3, <4>6
        <4> QED
          BY <4>2, <4>4, <4>7
      <3> QED
        BY <3>1, <3>2
    <2>7. PICK end \in Nat, base \in Nat : end = Frames!Recent(g) /\ base = Frames!BaseTime(g)
      BY <2>5
    <2>8. end - base <= 7 /\ (~Ends(end, base) => Short(end, base))
      BY <2>6, <2>7, ShortStays
    <2>9. Frames!Due(g) <=> Ends(end, base)
      BY <1>9, <2>4, <2>7
    <2> QED
      BY <2>1, <2>4, <2>5, <2>7, <2>8, <2>9
  <1>11. ASSUME NEW i \in 1 .. n, Waiting(cloud(i - 1), i - 1)
         PROVE  Waiting(cloud(i), i)
    <2>1. CASE Leaves(after[i], l, grown(i))
      BY <2>1 DEF Leaves, cloud
    <2>2. CASE Waits(after[i], l, grown(i)) /\ (mine(i) /\ grown(i) # <<>> => ~Frames!Due(grown(i)))
      <3>1. cloud(i) = grown(i)
        BY <2>2 DEF Waits, cloud
      <3>2. CASE mine(i)
        <4>1. Last(i, i) /\ i \in 1 .. i
          BY <1>2, <3>2
        <4>2. /\ Frames!Recent(grown(i)) = ending(i)
              /\ Short(Frames!Recent(grown(i)), Frames!BaseTime(grown(i)))
          BY <1>10, <1>11, <2>2, <3>2
        <4> QED
          BY <3>1, <4>1, <4>2
      <3>3. CASE ~mine(i)
        <4>1. cloud(i) = cloud(i - 1)
          <5>1. cloud(i - 1) \in Seq(S) /\ grown(i) = cloud(i - 1) \o <<>>
            BY <1>5, <1>6, <3>3
          <5> QED
            BY <3>1, <5>1, ConcatEmptySeq
        <4>2. \A j : Last(j, i - 1) => Last(j, i) /\ j \in 1 .. i
          <5> SUFFICES ASSUME NEW j, Last(j, i - 1) PROVE Last(j, i) /\ j \in 1 .. i
            OBVIOUS
          <5>1. j \in 1 .. i - 1 /\ j \in 1 .. i
            BY <1>2
          <5>2. \A k \in j + 1 .. i : k \in j + 1 .. i - 1 \/ k = i
            BY <1>2, <5>1
          <5> QED
            BY <3>3, <5>1, <5>2
        <4> QED
          BY <1>11, <4>1, <4>2
      <3> QED
        BY <3>2, <3>3
    <2> QED
      BY <1>5, <2>1, <2>2
  <1> DEFINE P == {i \in 0 .. n : Waiting(cloud(i), i)}
  <1>12. 0 .. n \subseteq P
    <2>1. 0 \in P
      <3>1. cloud(0) = <<>> /\ 0 \in 0 .. n
        BY <1>1, <1>2 DEF cloud, Run, Frames!Started
      <3> QED
        BY <3>1
    <2>2. ASSUME NEW i \in 0 .. n, i # n, i \in P
          PROVE  i + 1 \in P
      <3>1. i + 1 \in 1 .. n /\ i + 1 \in 0 .. n /\ (i + 1) - 1 = i
        <4>1. i # n
          BY <2>2
        <4>2. n \in Nat
          BY <1>2
        <4> QED
          BY <4>1, <4>2
      <3>2. Waiting(cloud(i), i)
        BY <2>2
      <3> HIDE DEF Waiting
      <3>3. Waiting(cloud(i + 1), i + 1)
        BY <1>11, <3>1, <3>2
      <3> QED
        BY <3>1, <3>3
    <2> HIDE DEF P
    <2> QED
      BY <1>2, <2>1, <2>2, Induction
  <1> SUFFICES ASSUME NEW i \in 1 .. n, NEW f \in after[i].frames, f.lidar = l
               PROVE  Frames!Recent(f.points) - f.base \in Frames!Tolerance .. 2 * Frames!Interval - 1
    OBVIOUS
  <1>13. /\ Leaves(after[i], l, grown(i)) /\ mine(i) /\ Frames!Due(grown(i))
         /\ f = TheFrame(l, grown(i))
    BY <1>5 DEF Waits, Leaves
  <1>14. Waiting(cloud(i - 1), i - 1)
    <2>1. i - 1 \in 0 .. n
      BY <1>5
    <2> QED
      BY <1>12, <2>1
  <1>15. grown(i) # <<>> /\ Frames!Recent(grown(i)) - Frames!BaseTime(grown(i)) <= 7
    <2> HIDE DEF Waiting
    <2> QED
      BY <1>10, <1>13, <1>14
  <1>16. /\ Frames!Recent(grown(i)) \in Nat /\ Frames!BaseTime(grown(i)) \in Nat
         /\ Ends(Frames!Recent(grown(i)), Frames!BaseTime(grown(i)))
    BY <1>5, <1>9, <1>13, <1>15
  <1>17. f.points = grown(i) /\ f.base = Frames!BaseTime(grown(i))
    BY <1>13 DEF TheFrame
  <1> QED
    BY <1>15, <1>16, <1>17 DEF Ends, Frames!Tolerance, Frames!Interval, Frames!IntervalMs, Frames!Ms

\* Whatever packets come in: their points all go into frames, in order and with
\* their times, synchronised frames are about an interval long and the others
\* keep the host's pace, and a point is where its lidar's pose takes it.
THEOREM EveryPacketIsFramed == FramesAsked => Framed
  <1>1. ASSUME FramesAsked, answer.kind = "frames"
        PROVE  /\ Frames!FramesKeepPoints(task.lidars, task.ext, task.steps)
               /\ (\A i \in DOMAIN task.steps : task.steps[i].synced) =>
                     Frames!FramesAreRegular(task.lidars, task.ext, task.steps)
               /\ (\A i \in DOMAIN task.steps : ~task.steps[i].synced) =>
                     Frames!FramesKeepRate(task.lidars, task.ext, task.steps)
    <2>1. StepsAsked(task.lidars, task.steps)
      BY <1>1 DEF FramesAsked
    <2> QED
      BY <2>1, FramesAlwaysKeepPoints, FramesAreAlwaysRegular, FramesAlwaysKeepRate
  <1>2. ASSUME FramesAsked, answer.kind = "placed"
        PROVE  Frames!PointIsPlaced(task.data, task.pose, task.raw, task.mm)
    <2>1. /\ task.pose.roll \in Int /\ task.pose.pitch \in Int /\ task.pose.yaw \in Int
          /\ Place(task.pose.trans) /\ Place(task.mm) /\ task.data \in {"high", "spherical"}
          /\ task.data = "high" => task.raw = task.mm
          /\ task.data = "spherical" => Frames!Spherical(task.raw) = task.mm
      BY <1>2 DEF FramesAsked
    <2> QED
      BY <2>1, PointsArePlaced
  <1> QED
    BY <1>1, <1>2 DEF Framed

-----------------------------------------------------------------------------
(* The followers and the smoother.                                         *)

\* s has the sums of f up to each place.
Summed(f, n, s) ==
  s \in [0 .. n -> Int] /\ s[0] = 0 /\ \A i \in 1 .. n : s[i] = f[i] + s[i - 1]

LEMMA SumsExist ==
  ASSUME NEW n \in Nat, NEW f, \A i \in 1 .. n : f[i] \in Int
  PROVE  \E s : Summed(f, n, s)
  <1> DEFINE step == [p \in (1 .. n) \X Int |-> f[p[1]] + p[2]]
  <1>1. step \in [(1 .. n) \X Int -> Int] /\ \A i \in 1 .. n : \A v \in Int : step[<<i, v>>] = f[i] + v
    OBVIOUS
  <1> HIDE DEF step
  <1> DEFINE V == Int
  <1>20. 0 \in V /\ step \in [(1 .. n) \X V -> V]
    BY <1>1
  <1> HIDE DEF V
  <1>21. \E s : Loops(s, n, V, 0, step)
    BY <1>20, Recursion
  <1>2. PICK s : Loops(s, n, Int, 0, step)
    BY <1>21 DEF V
  <1>3. s \in [0 .. n -> Int] /\ s[0] = 0 /\ \A i \in 1 .. n : s[i] = step[<<i, s[i - 1]>>]
    BY <1>2 DEF Loops
  <1>4. ASSUME NEW i \in 1 .. n PROVE s[i] = f[i] + s[i - 1]
    <2>1. i - 1 \in 0 .. n
      OBVIOUS
    <2> QED
      BY <1>1, <1>3, <2>1
  <1> QED
    BY <1>3, <1>4 DEF Summed

LEMMA SumsAreTheirs ==
  ASSUME NEW n \in Nat, NEW f, NEW s, Summed(f, n, s), NEW k \in 0 .. n
  PROVE  Follow!SumUpTo(f, k) = s[k]
  <1> DEFINE Loop(r) == [i \in 0 .. k |-> IF i = 0 THEN 0 ELSE f[i] + r[i - 1]]
             sum == CHOOSE r : r = Loop(r)
             closed == [i \in 0 .. k |-> s[i]]
  <1>1. Follow!SumUpTo(f, k) = sum[k]
    BY DEF Follow!SumUpTo
  <1>2. \A i \in 0 .. k : closed[i] = IF i = 0 THEN 0 ELSE f[i] + closed[i - 1]
    <2> SUFFICES ASSUME NEW i \in 0 .. k
                 PROVE  closed[i] = IF i = 0 THEN 0 ELSE f[i] + closed[i - 1]
      OBVIOUS
    <2>1. CASE i = 0
      BY <2>1 DEF Summed
    <2>2. CASE i # 0
      <3>1. i \in 1 .. n /\ i - 1 \in 0 .. k
        BY <2>2
      <3>2. s[i] = f[i] + s[i - 1]
        BY <3>1 DEF Summed
      <3> QED
        BY <2>2, <3>1, <3>2
    <2> QED
      BY <2>1, <2>2
  <1>3. closed = Loop(closed)
    <2>1. closed = [i \in 0 .. k |-> closed[i]]
      OBVIOUS
    <2> HIDE DEF closed
    <2> QED
      BY <1>2, <2>1
  <1>4. sum = Loop(sum)
    <2> HIDE DEF Loop, closed
    <2> QED
      BY <1>3
  <1> HIDE DEF sum
  <1>5. \A i \in 0 .. k : sum[i] = IF i = 0 THEN 0 ELSE f[i] + sum[i - 1]
    <2> DEFINE L == Loop(sum)
    <2>1. \A i \in 0 .. k : L[i] = IF i = 0 THEN 0 ELSE f[i] + sum[i - 1]
      OBVIOUS
    <2>2. sum = L
      BY <1>4
    <2> HIDE DEF L
    <2> QED
      BY <2>1, <2>2
  <1> DEFINE P == {i \in 0 .. k : sum[i] = closed[i]}
  <1>6. 0 .. k \subseteq P
    <2>1. 0 \in P
      <3>1. 0 \in 0 .. k
        OBVIOUS
      <3> HIDE DEF closed
      <3> QED
        BY <1>2, <1>5, <3>1
    <2>2. ASSUME NEW i \in 0 .. k, i # k, i \in P
          PROVE  i + 1 \in P
      <3>1. i + 1 \in 0 .. k /\ i + 1 # 0 /\ (i + 1) - 1 = i
        BY <2>2
      <3> HIDE DEF closed
      <3>2. sum[i + 1] = f[i + 1] + sum[i] /\ closed[i + 1] = f[i + 1] + closed[i]
        BY <1>2, <1>5, <3>1
      <3> QED
        BY <2>2, <3>1, <3>2
    <2> HIDE DEF P
    <2> QED
      BY <2>1, <2>2, Induction
  <1>7. sum[k] = closed[k]
    BY <1>6
  <1> QED
    BY <1>1, <1>7

\* A wrapped angle is within half a turn and whole turns away.
LEMMA WrappedAngle ==
  ASSUME NEW a \in Int
  PROVE  /\ Follow!WrapAngle(a) \in Int
         /\ Follow!Magnitude(Follow!WrapAngle(a)) <= Follow!HalfTurn
         /\ (Follow!WrapAngle(a) - a) % 8 = 0
  <1>1. ASSUME NEW x \in Int
        PROVE  (x % 8) \in 0 .. 7 /\ x = 8 * (x \div 8) + (x % 8) /\ x \div 8 \in Int
    OBVIOUS
  <1>2. \A m \in Int : (8 * m) % 8 = 0
    OBVIOUS
  <1>3. CASE a > 4
    <2>1. PICK m \in Int, r \in 0 .. 7 : 4 - a = 8 * m + r /\ (4 - a) % 8 = r
      BY <1>1
    <2>2. Follow!WrapAngle(a) = 4 - r
      BY <1>3, <2>1 DEF Follow!WrapAngle, Follow!HalfTurn
    <2>3. (4 - r) - a = 8 * m
      BY <2>1
    <2>4. ((4 - r) - a) % 8 = 0
      BY <1>2, <2>3
    <2> QED
      BY <2>2, <2>4 DEF Follow!Magnitude, Follow!HalfTurn
  <1>4. CASE a < -4
    <2>1. PICK m \in Int, r \in 0 .. 7 : a + 4 = 8 * m + r /\ (a + 4) % 8 = r
      BY <1>1
    <2>2. Follow!WrapAngle(a) = r - 4
      BY <1>4, <2>1 DEF Follow!WrapAngle, Follow!HalfTurn
    <2>3. -m \in Int /\ (r - 4) - a = 8 * (-m)
      BY <2>1
    <2>4. ((r - 4) - a) % 8 = 0
      BY <1>2, <2>3
    <2> QED
      BY <2>2, <2>4 DEF Follow!Magnitude, Follow!HalfTurn
  <1>5. CASE ~(a > 4) /\ ~(a < -4)
    <2>1. Follow!WrapAngle(a) = a /\ a - a = 0
      BY <1>5 DEF Follow!WrapAngle, Follow!HalfTurn
    <2> QED
      BY <1>5, <2>1 DEF Follow!Magnitude, Follow!HalfTurn
  <1> QED
    BY <1>3, <1>4, <1>5

\* Predicted headings are within half a turn and as far as the controls turn.
LEMMA HeadingsAreAlwaysWrapped ==
  ASSUME NEW theta \in Int, NEW controls \in Seq(Pairs)
  PROVE  Follow!HeadingsAreWrapped(theta, controls)
  <1> DEFINE n == Len(controls)
             turn == [i \in DOMAIN controls |-> controls[i][2]]
             h == Follow!Headings(theta, controls)
             Loop(r) == [k \in 1 .. n + 1 |-> IF k = 1 THEN theta ELSE Follow!WrapAngle(r[k - 1] + controls[k - 1][2])]
             step == [p \in (1 .. n) \X Int |-> Follow!WrapAngle(p[2] + controls[p[1]][2])]
  <1>1. n \in Nat /\ DOMAIN controls = 1 .. n /\ \A i \in 1 .. n : controls[i][2] \in Int
    <2>1. n \in Nat /\ DOMAIN controls = 1 .. n
      BY LenProperties
    <2>2. \A i \in 1 .. n : controls[i] \in Pairs
      BY ElementOfSeq
    <2> QED
      BY <2>1, <2>2 DEF Pairs
  <1>2. \A i \in 1 .. n : turn[i] = controls[i][2] /\ turn[i] \in Int
    BY <1>1
  <1>3. h = CHOOSE r : r = Loop(r)
    BY DEF Follow!Headings
  <1> HIDE DEF n, turn, h
  <1>4. step \in [(1 .. n) \X Int -> Int]
        /\ \A i \in 1 .. n : \A v \in Int : step[<<i, v>>] = Follow!WrapAngle(v + controls[i][2])
    <2>1. \A a \in Int : Follow!WrapAngle(a) \in Int
      BY WrappedAngle
    <2>2. ASSUME NEW i \in 1 .. n, NEW v \in Int PROVE Follow!WrapAngle(v + controls[i][2]) \in Int
      <3>1. v + controls[i][2] \in Int
        BY <1>1
      <3> QED
        BY <2>1, <3>1
    <2> QED
      BY <2>2
  <1> HIDE DEF step
  <1>5. PICK r : Loops(r, n, Int, theta, step)
    BY <1>1, <1>4, Recursion
  <1>6. r \in [0 .. n -> Int] /\ r[0] = theta /\ \A i \in 1 .. n : r[i] = step[<<i, r[i - 1]>>]
    BY <1>5 DEF Loops
  <1>7. ASSUME NEW i \in 1 .. n
        PROVE  r[i] = Follow!WrapAngle(r[i - 1] + controls[i][2])
    <2>1. i - 1 \in 0 .. n
      BY <1>1
    <2> QED
      BY <1>4, <1>6, <2>1
  <1> DEFINE g == [k \in 1 .. n + 1 |-> r[k - 1]]
  <1>8. \A k \in 1 .. n + 1 : g[k] = IF k = 1 THEN theta ELSE Follow!WrapAngle(g[k - 1] + controls[k - 1][2])
    <2> SUFFICES ASSUME NEW k \in 1 .. n + 1
                 PROVE  g[k] = IF k = 1 THEN theta ELSE Follow!WrapAngle(g[k - 1] + controls[k - 1][2])
      OBVIOUS
    <2>1. CASE k = 1
      BY <1>6, <2>1
    <2>2. CASE k # 1
      <3>1. k - 1 \in 1 .. n /\ k - 1 \in 1 .. n + 1
        BY <1>1, <2>2
      <3>2. g[k - 1] = r[(k - 1) - 1] /\ g[k] = r[k - 1]
        BY <3>1
      <3>3. r[k - 1] = Follow!WrapAngle(r[(k - 1) - 1] + controls[k - 1][2])
        BY <1>7, <3>1
      <3> QED
        BY <2>2, <3>2, <3>3
    <2> QED
      BY <2>1, <2>2
  <1>9. g = Loop(g)
    <2>1. g = [k \in 1 .. n + 1 |-> g[k]]
      OBVIOUS
    <2> HIDE DEF g
    <2> QED
      BY <1>8, <2>1
  <1>10. h = Loop(h)
    <2> HIDE DEF Loop, g
    <2> QED
      BY <1>3, <1>9
  <1> HIDE DEF g
  <1>11. \A k \in 1 .. n + 1 : h[k] = IF k = 1 THEN theta ELSE Follow!WrapAngle(h[k - 1] + controls[k - 1][2])
    <2> DEFINE L == Loop(h)
    <2>1. \A k \in 1 .. n + 1 : L[k] = IF k = 1 THEN theta ELSE Follow!WrapAngle(h[k - 1] + controls[k - 1][2])
      OBVIOUS
    <2>2. h = L
      BY <1>10
    <2> HIDE DEF L
    <2> QED
      BY <2>1, <2>2
  <1>12. PICK s : Summed(turn, n, s)
    BY <1>1, <1>2, SumsExist
  <1> DEFINE Wrapped(k) == /\ h[k + 1] \in Int
                           /\ k > 0 => Follow!Magnitude(h[k + 1]) <= Follow!HalfTurn
                           /\ (h[k + 1] - theta - s[k]) % 8 = 0
             P == {k \in 0 .. n : Wrapped(k)}
  <1>13. 0 .. n \subseteq P
    <2>1. 0 \in P
      <3>1. h[0 + 1] = theta /\ s[0] = 0 /\ 0 \in 0 .. n
        BY <1>1, <1>11, <1>12 DEF Summed
      <3> QED
        BY <3>1
    <2>2. ASSUME NEW k \in 0 .. n, k # n, k \in P
          PROVE  k + 1 \in P
      <3>1. k + 1 \in 0 .. n /\ k + 1 \in 1 .. n /\ k + 2 \in 1 .. n + 1 /\ k + 2 # 1 /\ (k + 2) - 1 = k + 1
            /\ (k + 1) - 1 = k /\ (k + 1) + 1 = k + 2
        BY <1>1, <2>2
      <3>2. PICK x \in Int, y \in Int, t \in Int, c \in Int :
               x = h[k + 1] /\ t = s[k] /\ c = controls[k + 1][2] /\ y = Follow!WrapAngle(x + c)
        <4>1. h[k + 1] \in Int /\ s[k] \in Int /\ controls[k + 1][2] \in Int
          BY <1>1, <1>12, <2>2, <3>1 DEF Summed
        <4>2. \A a \in Int : Follow!WrapAngle(a) \in Int
          BY WrappedAngle
        <4>3. h[k + 1] + controls[k + 1][2] \in Int
          BY <4>1
        <4> QED
          BY <4>1, <4>2, <4>3
      <3>3. h[(k + 1) + 1] = y
        BY <1>11, <3>1, <3>2
      <3>4. s[k + 1] = c + t
        BY <1>2, <1>12, <3>1, <3>2 DEF Summed
      <3>5. (x - theta - t) % 8 = 0
        BY <2>2, <3>2
      <3>6. (y - (x + c)) % 8 = 0 /\ Follow!Magnitude(y) <= Follow!HalfTurn
        <4>1. \A a \in Int : /\ Follow!Magnitude(Follow!WrapAngle(a)) <= Follow!HalfTurn
                             /\ (Follow!WrapAngle(a) - a) % 8 = 0
          BY WrappedAngle
        <4>2. x + c \in Int
          BY <3>2
        <4> QED
          BY <3>2, <4>1, <4>2
      <3>7. (y - theta - (c + t)) % 8 = 0
        <4>1. \A u, v \in Int : ((u % 8) = 0 /\ (v % 8) = 0) => ((u + v) % 8) = 0
          OBVIOUS
        <4>2. \A a, b, d, e, f \in Int : b - d - (e + f) = (a - d - f) + (b - (a + e))
          OBVIOUS
        <4>3. \A a, b, d \in Int : a - b - d \in Int /\ a - (b + d) \in Int
          OBVIOUS
        <4>4. x - theta - t \in Int /\ y - (x + c) \in Int
          <5>1. x \in Int /\ y \in Int /\ t \in Int /\ c \in Int
            BY <3>2
          <5> QED
            BY <4>3, <5>1
        <4>5. y - theta - (c + t) = (x - theta - t) + (y - (x + c))
          <5>1. x \in Int /\ y \in Int /\ t \in Int /\ c \in Int
            BY <3>2
          <5> QED
            BY <4>2, <5>1
        <4> DEFINE u == x - theta - t
                   v == y - (x + c)
        <4>6. u \in Int /\ v \in Int /\ (u % 8) = 0 /\ (v % 8) = 0
          BY <3>5, <3>6, <4>4
        <4>7. y - theta - (c + t) = u + v
          BY <4>5
        <4> HIDE DEF u, v
        <4> QED
          BY <4>1, <4>6, <4>7
      <3>8. Wrapped(k + 1)
        BY <3>3, <3>4, <3>6, <3>7
      <3> QED
        BY <3>1, <3>8
    <2> HIDE DEF P
    <2> QED
      BY <1>1, <2>1, <2>2, Induction
  <1>14. ASSUME NEW k \in 1 .. n
         PROVE  /\ Follow!Magnitude(h[k + 1]) <= Follow!HalfTurn
                /\ (h[k + 1] - theta - Follow!SumUpTo(turn, k)) % (2 * Follow!HalfTurn) = 0
    <2>1. k \in 0 .. n /\ k > 0
      BY <1>1
    <2>2. Wrapped(k)
      BY <1>13, <2>1
    <2>3. Follow!SumUpTo(turn, k) = s[k]
      BY <1>1, <1>12, <2>1, SumsAreTheirs
    <2> QED
      BY <2>1, <2>2, <2>3 DEF Follow!HalfTurn
  <1> QED
    BY <1>14 DEF Follow!HeadingsAreWrapped, n, turn, h

-----------------------------------------------------------------------------
Controllers == [prev : Pairs, nominal : Seq(Pairs)]

\* A value that changes by no more than step, stays in the range, and from
\* outside comes no farther from it.
Nearer(lo, hi, step, old, new) ==
  /\ new \in Int
  /\ Follow!Magnitude(new - old) <= step
  /\ Follow!Clamp(old, lo, hi) = old => Follow!Clamp(new, lo, hi) = new
  /\ Follow!Magnitude(new - Follow!Clamp(new, lo, hi)) <= Follow!Magnitude(old - Follow!Clamp(old, lo, hi))

\* A limited change to a limited value is such a change.
LEMMA ChangesAreLimited ==
  ASSUME NEW lo \in Int, NEW hi \in Int, lo <= hi, NEW step \in Nat, NEW u \in Int, NEW old \in Int
  PROVE  Nearer(lo, hi, step, old, old + Follow!Clamp(Follow!Clamp(u, lo, hi) - old, -step, step))
  BY DEF Nearer, Follow!Clamp, Follow!Magnitude

LEMMA PairsAreTheirParts ==
  ASSUME NEW a \in Pairs, NEW b \in Pairs, a[1] = b[1], a[2] = b[2]
  PROVE  a = b
  BY DEF Pairs

LEMMA LimitsArePairs ==
  ASSUME NEW p \in Limits, NEW u \in Pairs
  PROVE  /\ Follow!Limited(p, u) \in Pairs
         /\ Follow!Limited(p, u)[1] = Follow!Clamp(u[1], IF p.allowBackward THEN -p.maxVel ELSE 0, p.maxVel)
         /\ Follow!Limited(p, u)[2] = Follow!Clamp(u[2], -p.maxOmega, p.maxOmega)
  <1>1. p.maxVel \in Nat /\ p.maxOmega \in Nat /\ p.allowBackward \in BOOLEAN
    BY DEF Limits
  <1>2. u[1] \in Int /\ u[2] \in Int
    BY DEF Pairs
  <1>3. \A x, lo, hi \in Int : Follow!Clamp(x, lo, hi) \in Int
    BY DEF Follow!Clamp
  <1> DEFINE lo == IF p.allowBackward THEN -p.maxVel ELSE 0
             a == Follow!Clamp(u[1], lo, p.maxVel)
             b == Follow!Clamp(u[2], -p.maxOmega, p.maxOmega)
  <1>4. lo \in Int /\ p.maxVel \in Int /\ -p.maxOmega \in Int /\ p.maxOmega \in Int
    BY <1>1
  <1>5. Follow!Limited(p, u) = <<a, b>>
    BY DEF Follow!Limited
  <1> HIDE DEF lo
  <1>6. a \in Int /\ b \in Int
    BY <1>2, <1>3, <1>4
  <1> HIDE DEF a, b
  <1>7. Follow!Limited(p, u) \in Pairs /\ Follow!Limited(p, u)[1] = a /\ Follow!Limited(p, u)[2] = b
    BY <1>5, <1>6 DEF Pairs
  <1> QED
    BY <1>7 DEF a, b, lo

\* The projection of a first control.
LEMMA FirstIsFeasible ==
  ASSUME NEW p \in Limits, NEW u \in Pairs, NEW c \in Controllers, NEW d,
         d.prev = Follow!Feasible(p, u, c.prev)
  PROVE  d.prev \in Pairs /\ Follow!CommandIsFeasible(p, c, d)
  <1> DEFINE lo == IF p.allowBackward THEN -p.maxVel ELSE 0
             hi == p.maxVel
             om == p.maxOmega
             s1 == p.step[1]
             s2 == p.step[2]
             old == c.prev
             new == d.prev
             w == Follow!Limited(p, u)
  <1>1. lo \in Int /\ hi \in Int /\ lo <= hi /\ om \in Nat /\ -om \in Int /\ -om <= om /\ s1 \in Nat /\ s2 \in Nat
    BY DEF Limits
  <1>2. u[1] \in Int /\ u[2] \in Int /\ old \in Pairs /\ old[1] \in Int /\ old[2] \in Int
    BY DEF Pairs, Controllers
  <1>3. w \in Pairs /\ w[1] = Follow!Clamp(u[1], lo, hi) /\ w[2] = Follow!Clamp(u[2], -om, om)
    BY LimitsArePairs
  <1>4. new = <<old[1] + Follow!Clamp(w[1] - old[1], -s1, s1), old[2] + Follow!Clamp(w[2] - old[2], -s2, s2)>>
    BY DEF Follow!Feasible, Follow!Slewed
  <1> HIDE DEF lo, hi, om, s1, s2, old, new, w
  <1>5. /\ new[1] = old[1] + Follow!Clamp(Follow!Clamp(u[1], lo, hi) - old[1], -s1, s1)
        /\ new[2] = old[2] + Follow!Clamp(Follow!Clamp(u[2], -om, om) - old[2], -s2, s2)
    BY <1>3, <1>4
  <1>6. Nearer(lo, hi, s1, old[1], new[1])
    <2>1. Nearer(lo, hi, s1, old[1], old[1] + Follow!Clamp(Follow!Clamp(u[1], lo, hi) - old[1], -s1, s1))
      BY <1>1, <1>2, ChangesAreLimited
    <2> QED
      BY <1>5, <2>1
  <1>7. Nearer(-om, om, s2, old[2], new[2])
    <2> DEFINE low == -om
    <2>1. om \in Int /\ low \in Int /\ low <= om
      BY <1>1
    <2> HIDE DEF low
    <2>2. Nearer(low, om, s2, old[2], old[2] + Follow!Clamp(Follow!Clamp(u[2], low, om) - old[2], -s2, s2))
      BY <1>1, <1>2, <2>1, ChangesAreLimited
    <2> QED
      BY <1>5, <2>2 DEF low
  <1>8. new \in Pairs
    <2>1. new = <<new[1], new[2]>>
      BY <1>4
    <2> QED
      BY <1>6, <1>7, <2>1 DEF Pairs, Nearer
  <1>9. /\ Follow!Limited(p, old) \in Pairs /\ Follow!Limited(p, new) \in Pairs
        /\ Follow!Limited(p, old)[1] = Follow!Clamp(old[1], lo, hi)
        /\ Follow!Limited(p, old)[2] = Follow!Clamp(old[2], -om, om)
        /\ Follow!Limited(p, new)[1] = Follow!Clamp(new[1], lo, hi)
        /\ Follow!Limited(p, new)[2] = Follow!Clamp(new[2], -om, om)
    BY <1>2, <1>8, LimitsArePairs DEF lo, hi, om
  <1>10. Follow!InRange(p, old) => Follow!InRange(p, new)
    <2> SUFFICES ASSUME Follow!Limited(p, old) = old
                 PROVE  Follow!Limited(p, new) = new
      BY DEF Follow!InRange
    <2> QED
      BY <1>6, <1>7, <1>8, <1>9, PairsAreTheirParts DEF Nearer
  <1>11. ASSUME NEW x \in 1 .. 2
         PROVE  /\ Follow!Magnitude(new[x] - old[x]) <= p.step[x]
                /\ Follow!Magnitude(new[x] - Follow!Limited(p, new)[x])
                       <= Follow!Magnitude(old[x] - Follow!Limited(p, old)[x])
    <2>1. CASE x = 1
      BY <1>6, <1>9, <2>1 DEF s1, Nearer
    <2>2. CASE x = 2
      BY <1>7, <1>9, <2>2 DEF s2, Nearer
    <2>3. x = 1 \/ x = 2
      OBVIOUS
    <2> QED
      BY <2>1, <2>2, <2>3
  <1> QED
    BY <1>8, <1>10, <1>11 DEF Follow!CommandIsFeasible, old, new

LEMMA ShiftsArePairs ==
  ASSUME NEW u \in Pairs, NEW d \in Pairs
  PROVE  Follow!Shifted(u, d) \in Pairs
  BY DEF Pairs, Follow!Shifted

\* A command that is the one before is feasible.
LEMMA StandingIsFeasible ==
  ASSUME NEW p \in Limits, NEW c \in Controllers, NEW d, d.prev = c.prev
  PROVE  Follow!CommandIsFeasible(p, c, d)
  <1>1. /\ c.prev[1] \in Int /\ c.prev[2] \in Int
        /\ Follow!Limited(p, c.prev)[1] \in Int /\ Follow!Limited(p, c.prev)[2] \in Int
        /\ p.step[1] \in Nat /\ p.step[2] \in Nat
    BY LimitsArePairs DEF Controllers, Pairs, Limits
  <1>4. ASSUME NEW x \in 1 .. 2
        PROVE  /\ Follow!Magnitude(c.prev[x] - c.prev[x]) <= p.step[x]
               /\ Follow!Magnitude(c.prev[x] - Follow!Limited(p, c.prev)[x]) \in Int
    <2>1. c.prev[x] \in Int /\ Follow!Limited(p, c.prev)[x] \in Int /\ p.step[x] \in Nat
      <3>1. x = 1 \/ x = 2
        OBVIOUS
      <3> QED
        BY <1>1, <3>1
    <2>2. \A y, z \in Int : \A n \in Nat : Follow!Magnitude(y - y) <= n /\ Follow!Magnitude(y - z) \in Int
      BY DEF Follow!Magnitude
    <2> QED
      BY <2>1, <2>2
  <1>5. \A x \in Int : x <= x
    OBVIOUS
  <1> QED
    BY <1>4, <1>5 DEF Follow!CommandIsFeasible

\* Sequences of n controls, and those that begin with a projected one.
Controls(n) == [1 .. n -> Pairs]
Projected(n, p, prev) == {q \in Controls(n) : \E u \in Pairs : q[1] = Follow!Feasible(p, u, prev)}

LEMMA ProjectionsAreProjected ==
  ASSUME NEW p \in Limits, NEW c \in Controllers, NEW n \in Nat \ {0}, NEW q \in Controls(n), NEW d \in Pairs
  PROVE  Follow!ProjectToFeasible(p, [k \in DOMAIN q |-> Follow!Shifted(q[k], d)], c.prev)
             \in Projected(n, p, c.prev)
  <1> DEFINE s == [k \in DOMAIN q |-> Follow!Shifted(q[k], d)]
             t == Follow!ProjectToFeasible(p, s, c.prev)
  <1>1. DOMAIN q = 1 .. n /\ \A k \in 1 .. n : q[k] \in Pairs
    BY DEF Controls
  <1>2. DOMAIN s = 1 .. n /\ \A k \in 1 .. n : s[k] \in Pairs
    BY <1>1, ShiftsArePairs
  <1> HIDE DEF s
  <1>3. t = [k \in 1 .. n |-> IF k = 1 THEN Follow!Feasible(p, s[k], c.prev) ELSE Follow!Limited(p, s[k])]
    BY <1>2 DEF Follow!ProjectToFeasible
  <1>4. \A u \in Pairs : Follow!Feasible(p, u, c.prev) \in Pairs /\ Follow!Limited(p, u) \in Pairs
    <2> SUFFICES ASSUME NEW u \in Pairs
                 PROVE  Follow!Feasible(p, u, c.prev) \in Pairs /\ Follow!Limited(p, u) \in Pairs
      OBVIOUS
    <2> DEFINE d2 == [prev |-> Follow!Feasible(p, u, c.prev)]
    <2>1. d2.prev = Follow!Feasible(p, u, c.prev)
      OBVIOUS
    <2> HIDE DEF d2
    <2>2. d2.prev \in Pairs
      BY <2>1, FirstIsFeasible
    <2> QED
      BY <2>1, <2>2, LimitsArePairs
  <1> HIDE DEF t
  <1>5. t \in Controls(n)
    BY <1>2, <1>3, <1>4 DEF Controls
  <1>6. 1 \in 1 .. n /\ t[1] = Follow!Feasible(p, s[1], c.prev)
    BY <1>3
  <1> QED
    BY <1>2, <1>5, <1>6 DEF Projected, s, t

LEMMA DescentsAreProjected ==
  ASSUME NEW p \in Limits, NEW c \in Controllers, NEW n \in Nat \ {0}, NEW controls \in Controls(n),
         NEW moves \in SUBSET Pairs, NEW rounds \in Nat, NEW q \in Follow!Descents(p, controls, c.prev, moves, rounds)
  PROVE  q = controls \/ q \in Projected(n, p, c.prev)
  <1> DEFINE G(x, d) == Follow!ProjectToFeasible(p, [k \in DOMAIN x |-> Follow!Shifted(x[k], d)], c.prev)
             Turn(S) == {G(x, d) : x \in S, d \in moves}
             Loop(r) == [i \in 0 .. rounds |-> IF i = 0 THEN {controls} ELSE Turn(r[i - 1])]
             after == CHOOSE r : r = Loop(r)
             V == SUBSET Controls(n)
             step == [x \in (1 .. rounds) \X V |-> Turn(x[2])]
             Fine == SUBSET Projected(n, p, c.prev)
  <1>1. ASSUME NEW S \in V
        PROVE  Turn(S) \in V /\ Turn(S) \in Fine
    <2>1. \A x \in S : \A d \in moves : G(x, d) \in Projected(n, p, c.prev)
      BY ProjectionsAreProjected
    <2> HIDE DEF G
    <2>2. Projected(n, p, c.prev) \subseteq Controls(n)
      BY DEF Projected
    <2>3. ASSUME NEW y \in Turn(S)
          PROVE  y \in Projected(n, p, c.prev)
      <3>1. PICK x \in S, d \in moves : y = G(x, d)
        OBVIOUS
      <3> QED
        BY <2>1, <3>1
    <2> HIDE DEF Turn
    <2> QED
      BY <2>2, <2>3
  <1>2. Follow!Descents(p, controls, c.prev, moves, rounds) =
            IF rounds = 0 THEN {controls} ELSE UNION {after[r] : r \in 1 .. rounds}
    BY DEF Follow!Descents
  <1> HIDE DEF Turn
  <1>3. {controls} \in V /\ step \in [(1 .. rounds) \X V -> V]
        /\ \A i \in 1 .. rounds : \A S \in V : step[<<i, S>>] = Turn(S)
    BY <1>1
  <1> HIDE DEF V, step
  <1>4. \E r : Loops(r, rounds, V, {controls}, step)
    BY <1>3, Recursion
  <1>5. PICK r : Loops(r, rounds, V, {controls}, step)
    BY <1>4
  <1>6. r \in [0 .. rounds -> V] /\ r[0] = {controls} /\ \A i \in 1 .. rounds : r[i] = step[<<i, r[i - 1]>>]
    BY <1>5 DEF Loops
  <1>7. ASSUME NEW i \in 0 .. rounds
        PROVE  r[i] = IF i = 0 THEN {controls} ELSE Turn(r[i - 1])
    <2>1. CASE i = 0
      BY <1>6, <2>1
    <2>2. CASE i # 0
      <3>1. i \in 1 .. rounds /\ i - 1 \in 0 .. rounds
        BY <2>2
      <3> QED
        BY <1>3, <1>6, <2>2, <3>1
    <2> QED
      BY <2>1, <2>2
  <1>8. r = Loop(r)
    <2>1. r = [i \in 0 .. rounds |-> r[i]]
      BY <1>6
    <2> QED
      BY <1>7, <2>1
  <1>9. after = Loop(after)
    <2> HIDE DEF Loop
    <2> QED
      BY <1>8
  <1> HIDE DEF after
  <1>10. \A i \in 0 .. rounds : after[i] = IF i = 0 THEN {controls} ELSE Turn(after[i - 1])
    <2> DEFINE L == Loop(after)
    <2>1. \A i \in 0 .. rounds : L[i] = IF i = 0 THEN {controls} ELSE Turn(after[i - 1])
      OBVIOUS
    <2>2. after = L
      BY <1>9
    <2> HIDE DEF L
    <2> QED
      BY <2>1, <2>2
  <1> DEFINE P == {i \in 0 .. rounds : after[i] \in V /\ (i > 0 => after[i] \in Fine)}
  <1>11. 0 .. rounds \subseteq P
    <2>1. 0 \in P
      <3>1. 0 \in 0 .. rounds /\ after[0] = {controls}
        BY <1>10
      <3> QED
        BY <1>3, <3>1
    <2>2. ASSUME NEW i \in 0 .. rounds, i # rounds, i \in P
          PROVE  i + 1 \in P
      <3>1. i + 1 \in 0 .. rounds /\ i + 1 # 0 /\ (i + 1) - 1 = i
        BY <2>2
      <3>2. after[i + 1] = Turn(after[i])
        BY <1>10, <3>1
      <3> QED
        BY <1>1, <2>2, <3>1, <3>2
    <2> HIDE DEF P
    <2> QED
      BY <2>1, <2>2, Induction
  <1>12. CASE rounds = 0
    BY <1>2, <1>12
  <1>13. CASE rounds # 0
    <2>1. PICK i \in 1 .. rounds : q \in after[i]
      BY <1>2, <1>13
    <2>2. i \in 0 .. rounds /\ i > 0
      OBVIOUS
    <2>3. after[i] \in Fine
      BY <1>11, <2>2
    <2> QED
      BY <2>1, <2>3
  <1> QED
    BY <1>12, <1>13

\* A command of either controller.
LEMMA CommandsFollow ==
  ASSUME NEW kind \in {"mpc", "mppi"}, NEW p \in Limits, NEW c \in Controllers, NEW moves \in SUBSET Pairs,
         NEW d \in Follow!ComputeCommand(kind, c, p, moves)
  PROVE  d \in Controllers /\ Follow!CommandIsFeasible(p, c, d)
  <1> DEFINE n == p.horizon
  <1>1. n \in Nat \ {0} /\ p.maxIters \in Nat
    BY DEF Limits
  <1>2. c.prev \in Pairs /\ c.nominal \in Seq(Pairs) /\ c = [prev |-> c.prev, nominal |-> c.nominal]
    BY DEF Controllers
  <1> HIDE DEF n
  <1>3. CASE p.path = <<>>
    <2>1. d = c
      BY <1>3 DEF Follow!ComputeCommand
    <2> QED
      BY <2>1, StandingIsFeasible
  <1>4. CASE p.path # <<>> /\ kind = "mpc"
    <2> DEFINE controls == [k \in 1 .. n |-> c.prev]
    <2>1. d \in Follow!MpcCommand(c, p, moves)
      BY <1>4 DEF Follow!ComputeCommand
    <2>2. PICK q \in Follow!Descents(p, controls, c.prev, moves, p.maxIters) : d = [c EXCEPT !.prev = q[1]]
      BY <2>1 DEF Follow!MpcCommand, n
    <2>3. controls \in Controls(n) /\ controls[1] = c.prev
      BY <1>1, <1>2 DEF Controls
    <2> HIDE DEF controls
    <2>4. q = controls \/ q \in Projected(n, p, c.prev)
      BY <1>1, <2>3, DescentsAreProjected
    <2>5. d.prev = q[1] /\ d.nominal = c.nominal /\ d = [prev |-> q[1], nominal |-> c.nominal]
      BY <1>2, <2>2
    <2>6. CASE q = controls
      <3>1. d.prev = c.prev /\ d \in Controllers
        BY <1>2, <2>3, <2>5, <2>6 DEF Controllers
      <3> QED
        BY <3>1, StandingIsFeasible
    <2>7. CASE q \in Projected(n, p, c.prev)
      <3>1. PICK u \in Pairs : d.prev = Follow!Feasible(p, u, c.prev)
        BY <2>5, <2>7 DEF Projected
      <3>2. d.prev \in Pairs /\ Follow!CommandIsFeasible(p, c, d)
        BY <3>1, FirstIsFeasible
      <3> QED
        BY <1>2, <2>5, <3>2 DEF Controllers
    <2> QED
      BY <2>4, <2>6, <2>7
  <1>5. CASE p.path # <<>> /\ kind = "mppi"
    <2> DEFINE warm == Follow!WarmStart(c, p)
    <2>1. d \in Follow!MppiCommand(c, p, moves)
      BY <1>5 DEF Follow!ComputeCommand
    <2>2. \A k \in 1 .. n : warm[k] \in Pairs
      <3>1. CASE Len(c.nominal) # n
        BY <1>2, <3>1 DEF Follow!WarmStart, n
      <3>2. CASE Len(c.nominal) = n
        <4>1. \A k \in 1 .. n : Follow!Smaller(k + 1, n) \in 1 .. n
          BY <1>1 DEF Follow!Smaller
        <4>2. \A k \in 1 .. n : c.nominal[k] \in Pairs
          BY <1>2, <3>2, ElementOfSeq
        <4>3. \A k \in 1 .. n : warm[k] = c.nominal[Follow!Smaller(k + 1, n)]
          BY <3>2 DEF Follow!WarmStart, n
        <4> HIDE DEF warm
        <4> QED
          BY <4>1, <4>2, <4>3
      <3> QED
        BY <3>1, <3>2
    <2> HIDE DEF warm
    <2>3. PICK e \in moves : d = LET nominal == [k \in 1 .. n |-> Follow!Shifted(warm[k], e)]
                                 IN  [prev |-> Follow!Feasible(p, nominal[1], c.prev), nominal |-> nominal]
      BY <2>1 DEF Follow!MppiCommand, n, warm
    <2> DEFINE nominal == [k \in 1 .. n |-> Follow!Shifted(warm[k], e)]
    <2>4. d = [prev |-> Follow!Feasible(p, nominal[1], c.prev), nominal |-> nominal]
      BY <2>3
    <2>5. \A k \in 1 .. n : nominal[k] \in Pairs
      BY <2>2, ShiftsArePairs
    <2>6. nominal \in Seq(Pairs)
      BY <1>1, <2>5, IsASeq
    <2>7. 1 \in 1 .. n
      BY <1>1
    <2> HIDE DEF nominal
    <2>8. d.prev = Follow!Feasible(p, nominal[1], c.prev) /\ nominal[1] \in Pairs
      BY <2>4, <2>5, <2>7
    <2>9. d.prev \in Pairs /\ Follow!CommandIsFeasible(p, c, d)
      BY <2>8, FirstIsFeasible
    <2> QED
      BY <2>4, <2>6, <2>9 DEF Controllers
  <1> QED
    BY <1>3, <1>4, <1>5

\* Every command of a controller, whatever limits each period is given, is
\* feasible (computeCommand, projectToFeasible, setParams).
LEMMA CommandsAreAlwaysFeasible ==
  ASSUME NEW kind \in {"mpc", "mppi"}, NEW ps \in Seq(Limits), NEW moves \in SUBSET Pairs
  PROVE  Follow!CommandsAreFeasible(kind, Follow!Reset, ps, moves)
  <1> DEFINE n == Len(ps)
             Turn(i, S) == UNION {Follow!ComputeCommand(kind, b, ps[i], moves) : b \in S}
             Loop(r) == [i \in 0 .. n |-> IF i = 0 THEN {Follow!Reset} ELSE Turn(i, r[i - 1])]
             after == CHOOSE r : r = Loop(r)
             V == SUBSET Controllers
             step == [x \in (1 .. n) \X V |-> Turn(x[1], x[2])]
  <1>1. n \in Nat /\ \A i \in 1 .. n : ps[i] \in Limits
    BY LenProperties, ElementOfSeq
  <1>2. Follow!CommandsAreFeasible(kind, Follow!Reset, ps, moves) <=>
            \A i \in 1 .. n : \A b \in after[i - 1] : \A d \in Follow!ComputeCommand(kind, b, ps[i], moves) :
                Follow!CommandIsFeasible(ps[i], b, d)
    BY DEF Follow!CommandsAreFeasible
  <1> HIDE DEF n
  <1>3. ASSUME NEW i \in 1 .. n, NEW S \in V
        PROVE  Turn(i, S) \in V
    <2>1. \A b \in S : \A d \in Follow!ComputeCommand(kind, b, ps[i], moves) : d \in Controllers
      BY <1>1, CommandsFollow
    <2> QED
      BY <2>1
  <1>4. {Follow!Reset} \in V
    <2>1. <<0, 0>> \in Pairs /\ <<>> \in Seq(Pairs)
      BY EmptySeq DEF Pairs
    <2> QED
      BY <2>1 DEF Follow!Reset, Controllers
  <1> HIDE DEF Turn
  <1>5. step \in [(1 .. n) \X V -> V] /\ \A i \in 1 .. n : \A S \in V : step[<<i, S>>] = Turn(i, S)
    BY <1>3
  <1> HIDE DEF V, step
  <1>6. \E r : Loops(r, n, V, {Follow!Reset}, step)
    BY <1>1, <1>4, <1>5, Recursion
  <1>7. PICK r : Loops(r, n, V, {Follow!Reset}, step)
    BY <1>6
  <1>8. r \in [0 .. n -> V] /\ r[0] = {Follow!Reset} /\ \A i \in 1 .. n : r[i] = step[<<i, r[i - 1]>>]
    BY <1>7 DEF Loops
  <1>9. ASSUME NEW i \in 0 .. n
        PROVE  r[i] = IF i = 0 THEN {Follow!Reset} ELSE Turn(i, r[i - 1])
    <2>1. CASE i = 0
      BY <1>8, <2>1
    <2>2. CASE i # 0
      <3>1. i \in 1 .. n /\ i - 1 \in 0 .. n
        BY <1>1, <2>2
      <3> QED
        BY <1>5, <1>8, <2>2, <3>1
    <2> QED
      BY <2>1, <2>2
  <1>10. r = Loop(r)
    <2>1. r = [i \in 0 .. n |-> r[i]]
      BY <1>8
    <2> QED
      BY <1>9, <2>1
  <1>11. after = Loop(after)
    <2> HIDE DEF Loop
    <2> QED
      BY <1>10
  <1> HIDE DEF after
  <1>12. \A i \in 0 .. n : after[i] = IF i = 0 THEN {Follow!Reset} ELSE Turn(i, after[i - 1])
    <2> DEFINE L == Loop(after)
    <2>1. \A i \in 0 .. n : L[i] = IF i = 0 THEN {Follow!Reset} ELSE Turn(i, after[i - 1])
      OBVIOUS
    <2>2. after = L
      BY <1>11
    <2> HIDE DEF L
    <2> QED
      BY <2>1, <2>2
  <1> DEFINE P == {i \in 0 .. n : after[i] \in V}
  <1>13. 0 .. n \subseteq P
    <2>1. 0 \in P
      <3>1. 0 \in 0 .. n /\ after[0] = {Follow!Reset}
        BY <1>1, <1>12
      <3> QED
        BY <1>4, <3>1
    <2>2. ASSUME NEW i \in 0 .. n, i # n, i \in P
          PROVE  i + 1 \in P
      <3>1. i + 1 \in 0 .. n /\ i + 1 \in 1 .. n /\ i + 1 # 0 /\ (i + 1) - 1 = i
        BY <1>1, <2>2
      <3>2. after[i + 1] = Turn(i + 1, after[i])
        BY <1>12, <3>1
      <3> QED
        BY <1>3, <2>2, <3>1, <3>2
    <2> HIDE DEF P
    <2> QED
      BY <1>1, <2>1, <2>2, Induction
  <1>14. ASSUME NEW i \in 1 .. n, NEW b \in after[i - 1],
                NEW d \in Follow!ComputeCommand(kind, b, ps[i], moves)
         PROVE  Follow!CommandIsFeasible(ps[i], b, d)
    <2>1. i - 1 \in 0 .. n
      BY <1>1
    <2>2. b \in Controllers
      BY <1>13, <2>1 DEF V
    <2> QED
      BY <1>1, <2>2, CommandsFollow
  <1> QED
    BY <1>2, <1>14

-----------------------------------------------------------------------------
LEMMA LeastExists ==
  ASSUME NEW S \in SUBSET Nat, S # {}
  PROVE  \E x \in S : \A y \in S : x <= y
  <1>1. \E x \in S : \A y \in S : ~(<<y, x>> \in OpToRel(<, Nat))
    BY NatLessThanWellFounded, WFMin
  <1>2. \A x, y \in S : ~(<<y, x>> \in OpToRel(<, Nat)) => x <= y
    BY DEF OpToRel
  <1> QED
    BY <1>1, <1>2

\* A path with its times, and the first of the points nearest to the robot.
Posed(path) == path # <<>> /\ path \in Seq([pos : Pairs, t : Int])
Nearest(path, robot, i) ==
  /\ i \in DOMAIN path
  /\ \A j \in DOMAIN path :
        \/ Follow!SquaredGap(path[i].pos, robot) < Follow!SquaredGap(path[j].pos, robot)
        \/ Follow!SquaredGap(path[i].pos, robot) = Follow!SquaredGap(path[j].pos, robot) /\ i <= j

LEMMA ClosestIsNearest ==
  ASSUME NEW path, Posed(path), NEW robot \in Pairs
  PROVE  /\ Nearest(path, robot, Follow!Closest(path, robot))
         /\ Len(path) \in Nat \ {0} /\ DOMAIN path = 1 .. Len(path)
         /\ \A j \in DOMAIN path : Follow!SquaredGap(path[j].pos, robot) \in Nat
  <1> DEFINE n == Len(path)
             gap == [i \in 1 .. n |-> Follow!SquaredGap(path[i].pos, robot)]
  <1>1. n \in Nat \ {0} /\ DOMAIN path = 1 .. n
    BY LenProperties, EmptySeq DEF Posed
  <1>2. \A i \in 1 .. n : path[i].pos \in Pairs
    <2>1. \A i \in 1 .. n : path[i] \in [pos : Pairs, t : Int]
      BY ElementOfSeq DEF Posed
    <2> QED
      BY <2>1
  <1>3. \A p \in Pairs : Follow!SquaredGap(p, robot) \in Nat
    <2>1. \A x \in Int : x * x \in Nat
      OBVIOUS
    <2>2. \A x, y \in Int : (x - y) * (x - y) \in Nat
      <3>1. \A x, y \in Int : x - y \in Int
        OBVIOUS
      <3> QED
        BY <2>1, <3>1
    <2>3. \A p \in Pairs : p[1] \in Int /\ p[2] \in Int
      BY DEF Pairs
    <2>4. \A a, b \in Nat : a + b \in Nat
      OBVIOUS
    <2>5. ASSUME NEW p \in Pairs PROVE Follow!SquaredGap(p, robot) \in Nat
      <3>1. (p[1] - robot[1]) * (p[1] - robot[1]) \in Nat /\ (p[2] - robot[2]) * (p[2] - robot[2]) \in Nat
        BY <2>2, <2>3
      <3> QED
        BY <2>4, <3>1 DEF Follow!SquaredGap
    <2> QED
      BY <2>5
  <1>4. \A i \in 1 .. n : gap[i] = Follow!SquaredGap(path[i].pos, robot) /\ gap[i] \in Nat
    BY <1>2, <1>3
  <1> HIDE DEF n, gap
  <1> DEFINE S == {gap[i] : i \in 1 .. n}
  <1>5. PICK m \in S : \A y \in S : m <= y
    <2>1. S \in SUBSET Nat
      BY <1>4
    <2>2. S # {}
      <3>1. 1 \in 1 .. n
        BY <1>1
      <3> QED
        BY <3>1
    <2> HIDE DEF S
    <2> QED
      BY <2>1, <2>2, LeastExists
  <1> DEFINE T == {i \in 1 .. n : gap[i] = m}
  <1>6. PICK i \in T : \A j \in T : i <= j
    <2>1. T \in SUBSET Nat
      BY <1>1
    <2>2. T # {}
      BY <1>5
    <2> HIDE DEF T
    <2> QED
      BY <2>1, <2>2, LeastExists
  <1>7. \A j \in 1 .. n : gap[i] < gap[j] \/ (gap[i] = gap[j] /\ i <= j)
    <2> SUFFICES ASSUME NEW j \in 1 .. n PROVE gap[i] < gap[j] \/ (gap[i] = gap[j] /\ i <= j)
      OBVIOUS
    <2>1. gap[i] = m /\ m <= gap[j] /\ i \in 1 .. n
      BY <1>5, <1>6
    <2>2. gap[i] \in Nat /\ gap[j] \in Nat
      BY <1>4, <2>1
    <2>3. gap[j] = m => i <= j
      BY <1>6
    <2> QED
      BY <2>1, <2>2, <2>3
  <1>8. Nearest(path, robot, i)
    BY <1>1, <1>4, <1>6, <1>7 DEF Nearest
  <1>9. Nearest(path, robot, Follow!Closest(path, robot))
    BY <1>8 DEF Nearest, Follow!Closest
  <1> QED
    BY <1>1, <1>4, <1>9 DEF n

\* A reference follows its path (extractReference).
LEMMA ReferenceAlwaysFollowsPath ==
  ASSUME NEW path, Posed(path), NEW robot \in Pairs, NEW horizon \in Nat
  PROVE  Follow!ReferenceFollowsPath(path, robot, horizon)
  <1> DEFINE n == Len(path)
             c == Follow!Closest(path, robot)
             ref == Follow!ExtractReference(path, robot, horizon)
  <1>1. n \in Nat \ {0} /\ DOMAIN path = 1 .. n /\ c \in 1 .. n
    BY ClosestIsNearest DEF Nearest
  <1>2. \A k \in 1 .. horizon + 1 :
           /\ ref[k].index = Follow!Smaller(c + k - 1, n)
           /\ ref[k].velocity = Follow!LegVelocity(path, Follow!Smaller(c + k - 1, n))
    BY DEF Follow!ExtractReference
  <1>3. /\ Nearest(path, robot, c)
        /\ \A j \in 1 .. n : Follow!SquaredGap(path[j].pos, robot) \in Nat
    BY <1>1, ClosestIsNearest
  <1> HIDE DEF n, c, ref
  <1>4. ref[1].index = c
    <2>1. 1 \in 1 .. horizon + 1
      OBVIOUS
    <2>2. Follow!Smaller(c + 1 - 1, n) = c
      BY <1>1 DEF Follow!Smaller
    <2> QED
      BY <1>2, <2>1, <2>2
  <1>5. ASSUME NEW j \in DOMAIN path
        PROVE  LET gap == Follow!SquaredGap(path[j].pos, robot)
                   own == Follow!SquaredGap(path[ref[1].index].pos, robot)
               IN  IF j < ref[1].index THEN own < gap ELSE own <= gap
    <2> DEFINE gap == Follow!SquaredGap(path[j].pos, robot)
               own == Follow!SquaredGap(path[c].pos, robot)
    <2>1. gap \in Nat /\ own \in Nat /\ j \in 1 .. n
      BY <1>1, <1>3
    <2>2. own < gap \/ (own = gap /\ c <= j)
      BY <1>1, <1>3 DEF Nearest
    <2> HIDE DEF gap, own
    <2>3. IF j < c THEN own < gap ELSE own <= gap
      BY <1>1, <2>1, <2>2
    <2> QED
      BY <1>4, <2>3 DEF gap, own
  <1>6. ASSUME NEW k \in 1 .. horizon
        PROVE  ref[k + 1].index = IF ref[k].velocity = Follow!Standing /\ ref[k].index = n
                                  THEN n ELSE ref[k].index + 1
    <2>1. k \in 1 .. horizon + 1 /\ k + 1 \in 1 .. horizon + 1
      OBVIOUS
    <2>2. ref[k].index = Follow!Smaller(c + k - 1, n)
          /\ ref[k].velocity = Follow!LegVelocity(path, ref[k].index)
          /\ ref[k + 1].index = Follow!Smaller(c + (k + 1) - 1, n)
      BY <1>2, <2>1
    <2>3. ref[k].index = n => ref[k].velocity = Follow!Standing
      BY <2>2 DEF Follow!LegVelocity, n
    <2>4. IF ref[k].index = n THEN ref[k + 1].index = n ELSE ref[k + 1].index = ref[k].index + 1
      BY <1>1, <2>2 DEF Follow!Smaller
    <2> QED
      BY <2>3, <2>4
  <1> QED
    BY <1>5, <1>6 DEF Follow!ReferenceFollowsPath, ref, n

-----------------------------------------------------------------------------
LEMMA ProductsGrow ==
  ASSUME NEW x \in Int, NEW y \in Int, NEW z \in Nat, x <= y
  PROVE  x * z <= y * z
  <1>1. y - x \in Nat
    OBVIOUS
  <1>2. (y - x) * z \in Nat
    <2>1. \A u, v \in Nat : u * v \in Nat
      OBVIOUS
    <2> QED
      BY <1>1, <2>1
  <1>3. (y - x) * z = y * z - x * z
    OBVIOUS
  <1>4. x * z \in Int /\ y * z \in Int
    OBVIOUS
  <1> QED
    BY <1>2, <1>3, <1>4

LEMMA SharesAreWithin ==
  ASSUME NEW a \in Nat, NEW b \in Nat, b > 0, NEW i \in 0 .. b
  PROVE  (a * i) \div b \in 0 .. a /\ (a * 0) \div b = 0 /\ (a * b) \div b = a
  <1>1. ASSUME NEW x \in Int
        PROVE  \E q, r \in Int : x \div b = q /\ 0 <= r /\ r < b /\ x = q * b + r
    <2>1. x \div b \in Int /\ (x % b) \in 0 .. b - 1 /\ x = b * (x \div b) + (x % b)
      OBVIOUS
    <2> DEFINE q == x \div b
               r == x % b
    <2>2. q \in Int /\ r \in Int /\ 0 <= r /\ r < b /\ x = b * q + r
      BY <2>1
    <2> HIDE DEF q, r
    <2>3. b * q = q * b
      BY <2>2
    <2>4. x \div b = q
      BY DEF q
    <2> QED
      BY <2>2, <2>3, <2>4
  <1>2. ASSUME NEW q \in Int, NEW r \in Int, NEW t \in Int, 0 <= r, r < b, t * b = q * b + r
        PROVE  q = t /\ r = 0
    <2>1. CASE q <= t - 1
      <3>1. q * b <= (t - 1) * b
        BY <2>1, ProductsGrow
      <3>2. (t - 1) * b = t * b - b
        OBVIOUS
      <3>3. q * b \in Int /\ t * b \in Int
        OBVIOUS
      <3> QED
        BY <1>2, <3>1, <3>2, <3>3
    <2>2. CASE t + 1 <= q
      <3>1. (t + 1) * b <= q * b
        BY <2>2, ProductsGrow
      <3>2. (t + 1) * b = t * b + b
        OBVIOUS
      <3>3. q * b \in Int /\ t * b \in Int
        OBVIOUS
      <3> QED
        BY <1>2, <3>1, <3>2, <3>3
    <2>3. CASE q = t
      <3>1. q * b \in Int
        OBVIOUS
      <3> QED
        BY <1>2, <2>3, <3>1
    <2> QED
      BY <2>1, <2>2, <2>3
  <1>3. (a * b) \div b = a
    <2>1. a * b \in Int
      OBVIOUS
    <2>2. PICK q \in Int, r \in Int : (a * b) \div b = q /\ 0 <= r /\ r < b /\ a * b = q * b + r
      BY <1>1, <2>1
    <2>3. q = a
      BY <1>2, <2>2
    <2> QED
      BY <2>2, <2>3
  <1>4. (a * 0) \div b = 0
    <2>1. 0 \in Int /\ a * 0 = 0 /\ 0 * b = 0
      OBVIOUS
    <2>2. PICK q \in Int, r \in Int : 0 \div b = q /\ 0 <= r /\ r < b /\ 0 = q * b + r
      BY <1>1, <2>1
    <2>3. q = 0
      BY <1>2, <2>1, <2>2
    <2> QED
      BY <2>1, <2>2, <2>3
  <1>5. (a * i) \div b \in 0 .. a
    <2>1. a * i \in Int /\ i \in Nat /\ i <= b
      OBVIOUS
    <2>2. PICK q \in Int, r \in Int : (a * i) \div b = q /\ 0 <= r /\ r < b /\ a * i = q * b + r
      BY <1>1, <2>1
    <2>3. 0 <= a * i /\ a * i <= a * b
      <3>1. i * a <= b * a
        BY <2>1, ProductsGrow
      <3>2. 0 * i <= a * i
        BY <2>1, ProductsGrow
      <3>3. 0 * i = 0 /\ i * a = a * i /\ b * a = a * b
        BY <2>1
      <3> QED
        BY <3>1, <3>2, <3>3
    <2>4. CASE q <= -1
      <3>1. q * b <= (-1) * b
        BY <2>4, ProductsGrow
      <3>2. (-1) * b = -b
        OBVIOUS
      <3>3. q * b \in Int
        OBVIOUS
      <3> QED
        BY <2>1, <2>2, <2>3, <3>1, <3>2, <3>3
    <2>5. CASE a + 1 <= q
      <3>1. (a + 1) * b <= q * b
        BY <2>5, ProductsGrow
      <3>2. (a + 1) * b = a * b + b
        OBVIOUS
      <3>3. q * b \in Int /\ a * b \in Int
        OBVIOUS
      <3> QED
        BY <2>1, <2>2, <2>3, <3>1, <3>2, <3>3
    <2>6. CASE 0 <= q /\ q <= a
      BY <2>2, <2>6
    <2> QED
      BY <2>4, <2>5, <2>6
  <1> QED
    BY <1>3, <1>4, <1>5

\* j is the leg of an arc that holds a target.
Holds(arc, j, target) ==
  /\ j \in DOMAIN arc /\ j + 1 \in DOMAIN arc
  /\ arc[j] <= target /\ target <= arc[j + 1]

LEMMA ArcsAre ==
  ASSUME NEW arc, IsArc(arc)
  PROVE  /\ Len(arc) \in Nat \ {0} /\ DOMAIN arc = 1 .. Len(arc)
         /\ \A i \in 1 .. Len(arc) : arc[i] \in Nat
  BY LenProperties, ElementOfSeq, EmptySeq DEF IsArc

LEMMA LegHolds ==
  ASSUME NEW arc, IsArc(arc), arc[Len(arc)] > 0, NEW target \in 0 .. arc[Len(arc)]
  PROVE  Holds(arc, Follow!LegOf(arc, target), target)
  <1> DEFINE n == Len(arc)
             Leg(j) == ~Follow!Passed(arc, j, target) /\ \A i \in 1 .. j - 1 : Follow!Passed(arc, i, target)
             leg == Follow!LegOf(arc, target)
             S == {j \in 1 .. n : ~Follow!Passed(arc, j, target)}
  <1>1. n \in Nat \ {0} /\ DOMAIN arc = 1 .. n /\ \A i \in 1 .. n : arc[i] \in Nat
    BY ArcsAre
  <1>2. arc[1] = 0 /\ arc[n] > 0 /\ target \in Int /\ 0 <= target /\ target <= arc[n]
    <2>1. arc[1] = 0 /\ arc[n] > 0 /\ n \in 1 .. n
      BY <1>1 DEF IsArc
    <2> QED
      BY <1>1, <2>1
  <1>3. leg = CHOOSE j \in DOMAIN arc : Leg(j)
    BY DEF Follow!LegOf
  <1> HIDE DEF n, leg
  <1>4. PICK j \in S : \A i \in S : j <= i
    <2>1. n \in S
      BY <1>1 DEF Follow!Passed, n
    <2>2. S \in SUBSET Nat
      BY <1>1
    <2>3. S # {}
      BY <2>1
    <2> HIDE DEF S
    <2> QED
      BY <2>2, <2>3, LeastExists
  <1>5. Leg(j)
    <2>1. ASSUME NEW i \in 1 .. j - 1 PROVE Follow!Passed(arc, i, target)
      <3>1. j \in 1 .. n /\ i \in 1 .. n /\ ~(j <= i)
        BY <1>1, <1>4
      <3> QED
        BY <1>4, <3>1
    <2> QED
      BY <1>4, <2>1
  <1>6. leg \in 1 .. n /\ Leg(leg)
    <2>1. \E x \in DOMAIN arc : Leg(x)
      BY <1>1, <1>4, <1>5
    <2> HIDE DEF Leg
    <2> QED
      BY <1>1, <1>3, <2>1
  <1>7. arc[leg] <= target
    <2>1. CASE leg = 1
      BY <1>2, <2>1
    <2>2. CASE leg # 1
      <3>1. leg - 1 \in 1 .. leg - 1 /\ (leg - 1) + 1 = leg
        BY <1>1, <1>6, <2>2
      <3>2. Follow!Passed(arc, leg - 1, target)
        BY <1>6, <3>1
      <3>3. arc[leg] < target
        BY <3>1, <3>2 DEF Follow!Passed
      <3> QED
        BY <1>1, <1>2, <1>6, <3>3
    <2> QED
      BY <2>1, <2>2
  <1>8. leg # n
    <2> SUFFICES ASSUME leg = n PROVE FALSE
      OBVIOUS
    <2>1. n # 1
      BY <1>2
    <2>2. n - 1 \in 1 .. leg - 1 /\ (n - 1) + 1 = n
      BY <1>1, <2>1
    <2>3. Follow!Passed(arc, n - 1, target)
      BY <1>6, <2>2
    <2>4. arc[n] < target
      BY <2>2, <2>3 DEF Follow!Passed
    <2> QED
      BY <1>1, <1>2, <2>4
  <1>9. leg + 1 \in 1 .. n /\ leg + 1 <= n
    BY <1>1, <1>6, <1>8
  <1>10. target <= arc[leg + 1]
    <2>1. ~(arc[leg + 1] < target)
      BY <1>6, <1>9 DEF Follow!Passed, n
    <2> QED
      BY <1>1, <1>2, <1>9, <2>1
  <1> QED
    BY <1>1, <1>6, <1>7, <1>9, <1>10 DEF Holds, leg

\* The samples of a path of some length.
SampledAt(arc, n, i, s) ==
  /\ s.leg \in DOMAIN arc /\ s.ahead \in Nat
  /\ arc[s.leg] + s.ahead = (arc[Len(arc)] * (i - 1)) \div (n - 1)
  /\ s.ahead > 0 => arc[s.leg] + s.ahead <= arc[s.leg + 1]

LEMMA SamplesAreTheirs ==
  ASSUME NEW arc, IsArc(arc), arc[Len(arc)] > 0, NEW n \in Nat \ {0, 1}
  PROVE  /\ DOMAIN Follow!ResamplePath(arc, n) = 1 .. n /\ Follow!ResamplePath(arc, n) # <<>>
         /\ Len(Follow!ResamplePath(arc, n)) = n
         /\ \A i \in 1 .. n : SampledAt(arc, n, i, Follow!ResamplePath(arc, n)[i])
  <1> DEFINE total == arc[Len(arc)]
             samples == Follow!ResamplePath(arc, n)
             target(i) == (total * (i - 1)) \div (n - 1)
  <1>1. /\ Len(arc) \in Nat \ {0} /\ DOMAIN arc = 1 .. Len(arc) /\ \A i \in 1 .. Len(arc) : arc[i] \in Nat
        /\ arc # <<>> /\ arc[1] = 0
    BY ArcsAre DEF IsArc
  <1>2. total \in Nat /\ total > 0
    <2>1. Len(arc) \in 1 .. Len(arc)
      BY <1>1
    <2> QED
      BY <1>1, <2>1
  <1>3. samples = [i \in 1 .. n |->
             IF i = 1 THEN [leg |-> 1, ahead |-> 0]
             ELSE IF i = n THEN [leg |-> Len(arc), ahead |-> 0]
             ELSE Follow!SampleAt(arc, target(i))]
    BY <1>1, <1>2 DEF Follow!ResamplePath
  <1> HIDE DEF samples
  <1>4. DOMAIN samples = 1 .. n /\ samples # <<>> /\ Len(samples) = n
    <2>1. DOMAIN samples = 1 .. n /\ 1 \in 1 .. n
      BY <1>3
    <2>2. Len(samples) = n
      BY <1>3, <2>1
    <2> QED
      BY <2>1, <2>2, EmptySeq
  <1>5. ASSUME NEW i \in 1 .. n
        PROVE  target(i) \in 0 .. total /\ (i = 1 => target(i) = 0) /\ (i = n => target(i) = total)
    <2> DEFINE a == total
               b == n - 1
               x == i - 1
    <2>1. a \in Nat /\ b \in Nat /\ b > 0 /\ x \in 0 .. b /\ (i = 1 => x = 0) /\ (i = n => x = b)
      BY <1>2
    <2>2. target(i) = (a * x) \div b
      OBVIOUS
    <2> HIDE DEF a, b, x, target
    <2>3. (a * x) \div b \in 0 .. a /\ (a * 0) \div b = 0 /\ (a * b) \div b = a
      BY <2>1, SharesAreWithin
    <2>4. target(i) \in 0 .. a /\ (i = 1 => target(i) = 0) /\ (i = n => target(i) = a)
      BY <2>1, <2>2, <2>3
    <2> QED
      BY <2>4 DEF a
  <1>6. ASSUME NEW i \in 1 .. n
        PROVE  SampledAt(arc, n, i, samples[i])
    <2> DEFINE s == samples[i]
               t == target(i)
    <2>1. t \in 0 .. total /\ (i = 1 => t = 0) /\ (i = n => t = total)
      BY <1>5
    <2> SUFFICES /\ s.leg \in DOMAIN arc /\ s.ahead \in Nat /\ arc[s.leg] + s.ahead = t
                 /\ s.ahead > 0 => arc[s.leg] + s.ahead <= arc[s.leg + 1]
      BY DEF SampledAt
    <2> HIDE DEF t, target
    <2>2. CASE i = 1
      <3>1. s.leg = 1 /\ s.ahead = 0
        BY <1>3, <2>2
      <3>2. 1 \in DOMAIN arc
        BY <1>1
      <3> QED
        BY <1>1, <2>1, <2>2, <3>1, <3>2
    <2>3. CASE i # 1 /\ i = n
      <3>1. s.leg = Len(arc) /\ s.ahead = 0
        BY <1>3, <2>3
      <3>2. Len(arc) \in DOMAIN arc
        BY <1>1
      <3>3. total + 0 = total
        BY <1>2
      <3> QED
        BY <2>1, <2>3, <3>1, <3>2, <3>3
    <2>4. CASE i # 1 /\ i # n
      <3>1. s = Follow!SampleAt(arc, t)
        BY <1>3, <2>4 DEF t
      <3> DEFINE j == Follow!LegOf(arc, t)
      <3>2. j \in 1 .. Len(arc) /\ j + 1 \in 1 .. Len(arc) /\ arc[j] <= t /\ t <= arc[j + 1]
        BY <1>1, <1>2, <2>1, LegHolds DEF Holds
      <3> HIDE DEF j
      <3>3. ~(j + 1 > Len(arc)) /\ arc[j] \in Nat /\ arc[j + 1] \in Nat
        BY <1>1, <3>2
      <3>4. s.leg = j /\ s.ahead = IF arc[j + 1] > arc[j] THEN t - arc[j] ELSE 0
        BY <3>1, <3>3 DEF Follow!SampleAt, j
      <3>5. t \in Int
        BY <2>1
      <3>6. s.ahead \in Nat /\ arc[j] + s.ahead = t
        BY <3>2, <3>3, <3>4, <3>5
      <3> QED
        BY <1>1, <3>2, <3>4, <3>6
    <2> QED
      BY <2>2, <2>3, <2>4
  <1> QED
    BY <1>4, <1>6 DEF samples

\* The samples of a path are even (ResamplePath).
LEMMA SamplesAreAlwaysEven ==
  ASSUME NEW arc, IsArc(arc), NEW n \in Nat \ {0, 1}
  PROVE  Follow!SamplesAreEven(arc, n)
  BY SamplesAreTheirs DEF Follow!SamplesAreEven, SampledAt

-----------------------------------------------------------------------------
\* Points on a line, the lengths of the legs between them, and the sums of those.
OnLine(n) == [1 .. n -> Int]
Legs(q, n) == [i \in 1 .. n - 1 |-> Follow!Magnitude(q[i + 1] - q[i])]

LEMMA LegsAre ==
  ASSUME NEW n \in Nat \ {0}, NEW q \in OnLine(n), NEW i \in 1 .. n - 1
  PROVE  Legs(q, n)[i] = Follow!Magnitude(q[i + 1] - q[i]) /\ Legs(q, n)[i] \in Nat
  <1>1. q[i + 1] \in Int /\ q[i] \in Int
    <2>1. i + 1 \in 1 .. n /\ i \in 1 .. n
      OBVIOUS
    <2> QED
      BY <2>1 DEF OnLine
  <1>2. \A x, y \in Int : Follow!Magnitude(x - y) \in Nat
    BY DEF Follow!Magnitude
  <1> QED
    BY <1>1, <1>2 DEF Legs

\* The length of a path up to a point.
LEMMA LengthIsTheSum ==
  ASSUME NEW n \in Nat \ {0}, NEW q \in OnLine(n), NEW s, Summed(Legs(q, n), n - 1, s), NEW i \in 1 .. n
  PROVE  Follow!LengthLoss(SubSeq(q, 1, i)) = s[i - 1]
  <1> DEFINE p == SubSeq(q, 1, i)
             f == [j \in 1 .. i - 1 |-> Follow!Magnitude(p[j + 1] - p[j])]
             t == [j \in 0 .. i - 1 |-> s[j]]
  <1>1. p = [j \in 1 .. i |-> q[j]] /\ Len(p) = i
    <2>1. q \in Seq(Int) /\ Len(q) = n
      BY IsASeq, LenProperties DEF OnLine
    <2>2. Len(p) = i /\ p \in Seq(Int) /\ \A j \in 1 .. i : p[j] = q[j]
      BY <2>1, SubSeqProperties
    <2>3. p = [j \in 1 .. Len(p) |-> p[j]]
      BY <2>2
    <2> HIDE DEF p
    <2> QED
      BY <2>2, <2>3
  <1> HIDE DEF p
  <1>2. Follow!LengthLoss(p) = Follow!SumUpTo(f, i - 1)
    BY <1>1 DEF Follow!LengthLoss
  <1>3. i - 1 \in Nat /\ i - 1 \in 0 .. i - 1
    OBVIOUS
  <1>4. ASSUME NEW j \in 1 .. i - 1
        PROVE  f[j] = Legs(q, n)[j] /\ t[j] = f[j] + t[j - 1]
    <2>1. j \in 1 .. n - 1 /\ j \in 1 .. i /\ j + 1 \in 1 .. i /\ j \in 0 .. i - 1 /\ j - 1 \in 0 .. i - 1
      OBVIOUS
    <2>2. f[j] = Legs(q, n)[j]
      BY <1>1, <2>1, LegsAre
    <2>3. s[j] = Legs(q, n)[j] + s[j - 1]
      BY <2>1 DEF Summed
    <2> HIDE DEF f
    <2>4. t[j] = s[j] /\ t[j - 1] = s[j - 1]
      BY <2>1
    <2> QED
      BY <2>2, <2>3, <2>4
  <1>5. Summed(f, i - 1, t)
    <2>1. t[0] = 0
      BY <1>3 DEF Summed
    <2>2. t \in [0 .. i - 1 -> Int]
      <3>1. \A j \in 0 .. i - 1 : j \in 0 .. n - 1
        OBVIOUS
      <3> QED
        BY <3>1 DEF Summed
    <2> HIDE DEF t, f
    <2> QED
      BY <1>4, <2>1, <2>2 DEF Summed
  <1>6. Follow!SumUpTo(f, i - 1) = t[i - 1]
    <2> HIDE DEF f, t
    <2> QED
      BY <1>3, <1>5, SumsAreTheirs
  <1> QED
    BY <1>2, <1>3, <1>6 DEF p

\* The paths a smoother leaves keep the ends.
KeepEnds(n, first, last) == {q \in OnLine(n) : q[1] = first /\ q[n] = last}

LEMMA SmoothingsKeepEnds ==
  ASSUME NEW n \in Nat \ {0}, NEW first, NEW last, NEW pts \in KeepEnds(n, first, last),
         NEW moves, \A m \in moves : \A i \in 1 .. n : m[i] \in Int, NEW rounds \in Nat,
         NEW q \in Follow!Smoothings(pts, moves, rounds)
  PROVE  q \in KeepEnds(n, first, last)
  <1> DEFINE V == SUBSET KeepEnds(n, first, last)
             G(x, m) == Follow!Descended(x, m)
             Turn(S) == {G(x, m) : x \in S, m \in moves}
             Loop(r) == [i \in 0 .. rounds |-> IF i = 0 THEN {pts} ELSE Turn(r[i - 1])]
             after == CHOOSE r : r = Loop(r)
             step == [x \in (1 .. rounds) \X V |-> Turn(x[2])]
  <1>1. ASSUME NEW x \in KeepEnds(n, first, last), NEW m \in moves
        PROVE  G(x, m) \in KeepEnds(n, first, last)
    <2>1. x \in OnLine(n) /\ DOMAIN x = 1 .. n /\ x[1] = first /\ x[n] = last
      BY DEF KeepEnds, OnLine
    <2>2. Len(x) = n
      BY <2>1, IsASeq, LenProperties DEF OnLine
    <2>3. G(x, m) = [i \in 1 .. n |-> IF i \in {1, n} THEN x[i] ELSE x[i] - m[i]]
      BY <2>1, <2>2 DEF Follow!Descended
    <2> HIDE DEF G
    <2>4. \A i \in 1 .. n : x[i] \in Int /\ m[i] \in Int
      BY <2>1 DEF OnLine
    <2>5. \A a, b \in Int : a - b \in Int
      OBVIOUS
    <2>6. G(x, m) \in OnLine(n)
      BY <2>3, <2>4, <2>5 DEF OnLine
    <2>7. 1 \in 1 .. n /\ n \in 1 .. n
      OBVIOUS
    <2>8. G(x, m)[1] = x[1] /\ G(x, m)[n] = x[n]
      BY <2>3, <2>7
    <2> QED
      BY <2>1, <2>6, <2>8 DEF KeepEnds
  <1> HIDE DEF G
  <1>2. ASSUME NEW S \in V
        PROVE  Turn(S) \in V
    <2>1. ASSUME NEW y \in Turn(S)
          PROVE  y \in KeepEnds(n, first, last)
      <3>1. PICK x \in S, m \in moves : y = G(x, m)
        OBVIOUS
      <3> QED
        BY <1>1, <3>1
    <2> HIDE DEF Turn
    <2> QED
      BY <2>1
  <1>3. Follow!Smoothings(pts, moves, rounds) = UNION {after[r] : r \in 0 .. rounds}
    BY DEF Follow!Smoothings, G
  <1> HIDE DEF Turn
  <1>4. {pts} \in V /\ step \in [(1 .. rounds) \X V -> V]
        /\ \A i \in 1 .. rounds : \A S \in V : step[<<i, S>>] = Turn(S)
    BY <1>2
  <1> HIDE DEF V, step
  <1>5. \E r : Loops(r, rounds, V, {pts}, step)
    BY <1>4, Recursion
  <1>6. PICK r : Loops(r, rounds, V, {pts}, step)
    BY <1>5
  <1>7. r \in [0 .. rounds -> V] /\ r[0] = {pts} /\ \A i \in 1 .. rounds : r[i] = step[<<i, r[i - 1]>>]
    BY <1>6 DEF Loops
  <1>8. ASSUME NEW i \in 0 .. rounds
        PROVE  r[i] = IF i = 0 THEN {pts} ELSE Turn(r[i - 1])
    <2>1. CASE i = 0
      BY <1>7, <2>1
    <2>2. CASE i # 0
      <3>1. i \in 1 .. rounds /\ i - 1 \in 0 .. rounds
        BY <2>2
      <3> QED
        BY <1>4, <1>7, <2>2, <3>1
    <2> QED
      BY <2>1, <2>2
  <1>9. r = Loop(r)
    <2>1. r = [i \in 0 .. rounds |-> r[i]]
      BY <1>7
    <2> QED
      BY <1>8, <2>1
  <1>10. after = Loop(after)
    <2> HIDE DEF Loop
    <2> QED
      BY <1>9
  <1> HIDE DEF after
  <1>11. \A i \in 0 .. rounds : after[i] = IF i = 0 THEN {pts} ELSE Turn(after[i - 1])
    <2> DEFINE L == Loop(after)
    <2>1. \A i \in 0 .. rounds : L[i] = IF i = 0 THEN {pts} ELSE Turn(after[i - 1])
      OBVIOUS
    <2>2. after = L
      BY <1>10
    <2> HIDE DEF L
    <2> QED
      BY <2>1, <2>2
  <1> DEFINE P == {i \in 0 .. rounds : after[i] \in V}
  <1>12. 0 .. rounds \subseteq P
    <2>1. 0 \in P
      <3>1. 0 \in 0 .. rounds /\ after[0] = {pts}
        BY <1>11
      <3> QED
        BY <1>4, <3>1
    <2>2. ASSUME NEW i \in 0 .. rounds, i # rounds, i \in P
          PROVE  i + 1 \in P
      <3>1. i + 1 \in 0 .. rounds /\ i + 1 # 0 /\ (i + 1) - 1 = i
        BY <2>2
      <3>2. after[i + 1] = Turn(after[i])
        BY <1>11, <3>1
      <3> QED
        BY <1>2, <2>2, <3>1, <3>2
    <2> HIDE DEF P
    <2> QED
      BY <2>1, <2>2, Induction
  <1>13. PICK i \in 0 .. rounds : q \in after[i]
    BY <1>3
  <1> QED
    BY <1>12, <1>13 DEF V

LEMMA FunctionsAreSequences ==
  ASSUME NEW n \in Nat, NEW S, NEW f \in [1 .. n -> S]
  PROVE  f \in Seq(S) /\ Len(f) = n
  OBVIOUS

\* Whoever follows a timed path is asked for the top speed or for none.
LEMMA TimedIsFollowed ==
  ASSUME NEW n \in Nat \ {0}, NEW q \in OnLine(n), NEW i \in 1 .. n
  PROVE  /\ Posed(Follow!Timed(q)) /\ Len(Follow!Timed(q)) = n
         /\ Follow!Timed(q)[i].pos = <<q[i], 0>>
         /\ LET v == Follow!LegVelocity(Follow!Timed(q), i) IN v.gap \in {0, v.time * v.time}
  <1> DEFINE path == Follow!Timed(q)
             f == Legs(q, n)
  <1>1. DOMAIN q = 1 .. n /\ \A j \in 1 .. n : q[j] \in Int
    BY DEF OnLine
  <1>2. \A j \in 1 .. n - 1 : f[j] = Follow!Magnitude(q[j + 1] - q[j]) /\ f[j] \in Nat
    BY LegsAre
  <1> HIDE DEF f
  <1>3. \E s : Summed(f, n - 1, s)
    <2>1. n - 1 \in Nat /\ \A j \in 1 .. n - 1 : f[j] \in Int
      BY <1>2
    <2> QED
      BY <2>1, SumsExist
  <1>4. PICK s : Summed(f, n - 1, s)
    BY <1>3
  <1>5. path = [j \in 1 .. n |-> [pos |-> <<q[j], 0>>, t |-> Follow!LengthLoss(SubSeq(q, 1, j))]]
    BY <1>1 DEF Follow!Timed
  <1> HIDE DEF path
  <1>6. ASSUME NEW j \in 1 .. n
        PROVE  path[j].pos = <<q[j], 0>> /\ path[j].t = s[j - 1] /\ path[j] \in [pos : Pairs, t : Int]
    <2>1. Follow!LengthLoss(SubSeq(q, 1, j)) = s[j - 1]
      BY <1>4, LengthIsTheSum DEF f
    <2>2. s[j - 1] \in Int
      <3>1. j - 1 \in 0 .. n - 1
        OBVIOUS
      <3> QED
        BY <1>4, <3>1 DEF Summed
    <2>3. path[j] = [pos |-> <<q[j], 0>>, t |-> s[j - 1]]
      BY <1>5, <2>1
    <2>4. <<q[j], 0>> \in Pairs
      BY <1>1 DEF Pairs
    <2> QED
      BY <2>2, <2>3, <2>4
  <1>7. path \in Seq([pos : Pairs, t : Int]) /\ Len(path) = n /\ path # <<>>
    <2>1. path \in [1 .. n -> [pos : Pairs, t : Int]]
      BY <1>5, <1>6
    <2>2. path \in Seq([pos : Pairs, t : Int]) /\ Len(path) = n
      BY <2>1, FunctionsAreSequences
    <2> QED
      BY <2>2, EmptySeq
  <1>8. LET v == Follow!LegVelocity(path, i) IN v.gap \in {0, v.time * v.time}
    <2>1. CASE i = n
      <3>1. Follow!LegVelocity(path, i) = Follow!Standing
        BY <1>7, <2>1 DEF Follow!LegVelocity
      <3> QED
        BY <3>1 DEF Follow!Standing
    <2>2. CASE i # n
      <3>1. i + 1 \in 1 .. n /\ i \in 1 .. n - 1 /\ (i + 1) - 1 = i /\ i \in 0 .. n - 1 /\ i - 1 \in 0 .. n - 1
        BY <2>2
      <3> DEFINE v == Follow!LegVelocity(path, i)
      <3>2. v = [gap |-> Follow!SquaredGap(path[i].pos, path[i + 1].pos),
                 time |-> Follow!Larger(1, path[i + 1].t - path[i].t)]
        BY <1>7, <2>2 DEF Follow!LegVelocity
      <3>3. PICK a \in Int, b \in Int, d \in Int, e \in Int : a = q[i] /\ b = q[i + 1] /\ d = s[i] /\ e = s[i - 1]
        BY <1>1, <1>4, <3>1 DEF Summed
      <3>4. path[i].pos = <<a, 0>> /\ path[i + 1].pos = <<b, 0>> /\ path[i + 1].t = d /\ path[i].t = e
        BY <1>6, <3>1, <3>3
      <3>5. d = Follow!Magnitude(b - a) + e
        BY <1>2, <1>4, <3>1, <3>3 DEF Summed
      <3>6. \A x, y \in Int : Follow!Magnitude(y - x) \in Nat /\ (Follow!Magnitude(y - x) + e) - e = Follow!Magnitude(y - x)
        BY DEF Follow!Magnitude
      <3>7. d - e = Follow!Magnitude(b - a)
        BY <3>3, <3>5, <3>6
      <3>8. v.time = Follow!Larger(1, Follow!Magnitude(b - a))
        BY <3>2, <3>4, <3>7
      <3>9. v.gap = Follow!SquaredGap(<<a, 0>>, <<b, 0>>)
        BY <3>2, <3>4
      <3>10. Follow!SquaredGap(<<a, 0>>, <<b, 0>>) = (a - b) * (a - b)
        <4>1. \A x \in Int : x * x + 0 * 0 = x * x
          OBVIOUS
        <4> QED
          BY <3>3, <4>1 DEF Follow!SquaredGap
      <3> HIDE DEF v
      <3>11. (a - b) * (a - b) \in {0, Follow!Larger(1, Follow!Magnitude(b - a)) * Follow!Larger(1, Follow!Magnitude(b - a))}
        <4>1. CASE a = b
          <5>1. (a - b) * (a - b) = 0
            BY <3>3, <4>1
          <5> QED
            BY <5>1
        <4>2. CASE a < b
          <5>1. Follow!Larger(1, Follow!Magnitude(b - a)) = b - a
            BY <3>3, <4>2 DEF Follow!Larger, Follow!Magnitude
          <5>2. (a - b) * (a - b) = (b - a) * (b - a)
            BY <3>3
          <5> QED
            BY <5>1, <5>2
        <4>3. CASE b < a
          <5>1. Follow!Larger(1, Follow!Magnitude(b - a)) = a - b
            BY <3>3, <4>3 DEF Follow!Larger, Follow!Magnitude
          <5> QED
            BY <5>1
        <4> QED
          BY <3>3, <4>1, <4>2, <4>3
      <3>12. v.gap \in {0, v.time * v.time}
        BY <3>8, <3>9, <3>10, <3>11
      <3> QED
        BY <3>12 DEF v
    <2> QED
      BY <2>1, <2>2
  <1> QED
    BY <1>6, <1>7, <1>8 DEF Posed, path

\* A smoothed path can be followed from its start (optimize).
LEMMA SmoothedIsAlwaysFollowed ==
  ASSUME NEW arc, IsArc(arc), NEW rounds \in Nat, NEW moves,
         \A m \in moves : \A i \in 1 .. Follow!SampleCount(arc) : m[i] \in Int
  PROVE  Follow!SmoothedIsFollowed(arc, moves, rounds)
  <1> DEFINE n == Follow!SampleCount(arc)
             total == arc[Len(arc)]
             samples == Follow!ResamplePath(arc, n)
             pts == [i \in DOMAIN samples |-> arc[samples[i].leg] + samples[i].ahead]
             Path(q) == Follow!Timed(q)
             Ref(q) == Follow!ExtractReference(Path(q), <<0, 0>>, Len(Path(q)))
             Suits(path, ref) == /\ path[1].pos = <<0, 0>> /\ path[Len(path)].pos = <<total, 0>>
                                /\ \A k \in DOMAIN ref :
                                      LET v == ref[k].velocity IN v.gap \in {0, v.time * v.time}
  <1>1. /\ Len(arc) \in Nat \ {0} /\ DOMAIN arc = 1 .. Len(arc) /\ \A i \in 1 .. Len(arc) : arc[i] \in Nat
        /\ arc # <<>> /\ arc[1] = 0
    BY ArcsAre DEF IsArc
  <1>2. total \in Nat
    <2>1. Len(arc) \in 1 .. Len(arc)
      BY <1>1
    <2> QED
      BY <1>1, <2>1
  <1>3. n \in Nat \ {0, 1}
    BY <1>1 DEF Follow!SampleCount, Follow!Larger, Follow!Smaller
  <1>4. \A m \in moves : \A i \in 1 .. n : m[i] \in Int
    OBVIOUS
  <1>5. Follow!Optimize(arc, moves, rounds) =
            IF Len(arc) < 2 \/ Len(pts) < 3 THEN {} ELSE {Path(q) : q \in Follow!Smoothings(pts, moves, rounds)}
    BY DEF Follow!Optimize
  <1> HIDE DEF n
  <1>6. CASE total = 0
    <2>1. samples = <<[leg |-> 1, ahead |-> 0]>>
      BY <1>1, <1>6 DEF Follow!ResamplePath
    <2> HIDE DEF samples
    <2>2. pts \in [1 .. 1 -> {arc[samples[1].leg] + samples[1].ahead}]
      BY <2>1
    <2> HIDE DEF pts
    <2>3. Len(pts) = 1
      BY <2>2, FunctionsAreSequences
    <2>4. Follow!Optimize(arc, moves, rounds) = {}
      BY <1>5, <2>3
    <2> QED
      BY <2>4 DEF Follow!SmoothedIsFollowed
  <1>7. CASE total > 0
    <2>1. DOMAIN samples = 1 .. n /\ \A i \in 1 .. n : SampledAt(arc, n, i, samples[i])
      BY <1>3, <1>7, SamplesAreTheirs
    <2> HIDE DEF samples
    <2>2. \A i \in 1 .. n : pts[i] = (total * (i - 1)) \div (n - 1) /\ pts[i] \in Int
      <3> SUFFICES ASSUME NEW i \in 1 .. n
                   PROVE  pts[i] = (total * (i - 1)) \div (n - 1) /\ pts[i] \in Int
        OBVIOUS
      <3>1. pts[i] = arc[samples[i].leg] + samples[i].ahead
        BY <2>1
      <3>2. samples[i].leg \in DOMAIN arc /\ samples[i].ahead \in Nat
            /\ arc[samples[i].leg] + samples[i].ahead = (total * (i - 1)) \div (n - 1)
        BY <2>1 DEF SampledAt
      <3>3. arc[samples[i].leg] \in Nat
        BY <1>1, <3>2
      <3> HIDE DEF pts, total
      <3>4. \A a, b \in Nat : a + b \in Int
        OBVIOUS
      <3> QED
        BY <3>1, <3>2, <3>3, <3>4
    <2>3. pts[1] = 0 /\ pts[n] = total
      <3> DEFINE b == n - 1
      <3>1. 1 \in 1 .. n /\ n \in 1 .. n /\ 1 - 1 = 0 /\ b \in Nat /\ b > 0 /\ b \in 0 .. b
        BY <1>3
      <3>2. (total * 0) \div b = 0 /\ (total * b) \div b = total
        <4> HIDE DEF b, total
        <4> QED
          BY <1>2, <3>1, SharesAreWithin
      <3>3. pts[1] = (total * 0) \div b /\ pts[n] = (total * b) \div b
        <4> HIDE DEF pts, total
        <4> QED
          BY <2>2, <3>1
      <3> QED
        BY <3>2, <3>3
    <2>4. pts \in KeepEnds(n, 0, total)
      <3>1. DOMAIN pts = 1 .. n /\ pts = [i \in DOMAIN pts |-> pts[i]]
        BY <2>1
      <3> HIDE DEF pts
      <3> QED
        BY <2>2, <2>3, <3>1 DEF KeepEnds, OnLine
    <2> HIDE DEF pts, total
    <2>5. ASSUME NEW path \in Follow!Optimize(arc, moves, rounds)
          PROVE  Suits(path, Follow!ExtractReference(path, <<0, 0>>, Len(path)))
      <3>1. PICK q \in Follow!Smoothings(pts, moves, rounds) : path = Follow!Timed(q)
        BY <1>5
      <3>2. q \in OnLine(n) /\ q[1] = 0 /\ q[n] = total
        <4>1. n \in Nat \ {0}
          BY <1>3
        <4>2. q \in KeepEnds(n, 0, total)
          BY <1>4, <2>4, <4>1, SmoothingsKeepEnds
        <4> QED
          BY <4>2 DEF KeepEnds
      <3>3. n \in Nat \ {0} /\ 1 \in 1 .. n /\ n \in 1 .. n
        BY <1>3
      <3>4. /\ Posed(path) /\ Len(path) = n
            /\ \A i \in 1 .. n : /\ path[i].pos = <<q[i], 0>>
                                 /\ LET v == Follow!LegVelocity(path, i) IN v.gap \in {0, v.time * v.time}
        BY <3>1, <3>2, <3>3, TimedIsFollowed
      <3> DEFINE ref == Follow!ExtractReference(path, <<0, 0>>, n)
                 c == Follow!Closest(path, <<0, 0>>)
      <3>5. c \in 1 .. n
        <4>1. <<0, 0>> \in Pairs
          BY DEF Pairs
        <4> QED
          BY <3>4, <4>1, ClosestIsNearest DEF Nearest
      <3>6. DOMAIN ref = 1 .. n + 1 /\ \A k \in 1 .. n + 1 :
                 ref[k].velocity = Follow!LegVelocity(path, Follow!Smaller(c + k - 1, n))
        BY <3>4 DEF Follow!ExtractReference
      <3> HIDE DEF ref, c
      <3>7. ASSUME NEW k \in DOMAIN ref
            PROVE  LET v == ref[k].velocity IN v.gap \in {0, v.time * v.time}
        <4>1. Follow!Smaller(c + k - 1, n) \in 1 .. n
          BY <3>3, <3>5, <3>6 DEF Follow!Smaller
        <4>2. ref[k].velocity = Follow!LegVelocity(path, Follow!Smaller(c + k - 1, n))
          BY <3>6
        <4> QED
          BY <3>4, <4>1, <4>2
      <3>8. path[1].pos = <<0, 0>> /\ path[n].pos = <<total, 0>>
        BY <3>2, <3>3, <3>4
      <3> QED
        BY <3>4, <3>7, <3>8 DEF ref
    <2> QED
      BY <2>5 DEF Follow!SmoothedIsFollowed, total
  <1> QED
    BY <1>2, <1>6, <1>7

-----------------------------------------------------------------------------
\* The length of a path is the sum of its legs.
LEMMA LossIsTheSum ==
  ASSUME NEW n \in Nat \ {0}, NEW q \in OnLine(n), NEW s, Summed(Legs(q, n), n - 1, s)
  PROVE  Follow!LengthLoss(q) = s[n - 1]
  <1>1. Len(q) = n
    BY FunctionsAreSequences DEF OnLine
  <1>2. Follow!LengthLoss(q) = Follow!SumUpTo(Legs(q, n), n - 1)
    BY <1>1 DEF Follow!LengthLoss, Legs
  <1>3. n - 1 \in Nat /\ n - 1 \in 0 .. n - 1
    OBVIOUS
  <1> QED
    BY <1>2, <1>3, SumsAreTheirs

\* What a leg gains when its end moves on and loses when its start does.
LEMMA LegsChange ==
  ASSUME NEW x \in Int, NEW y \in Int
  PROVE  /\ Follow!Magnitude((y + 1) - x) - Follow!Magnitude((y - 1) - x) = 2 * Follow!Unit(y - x)
         /\ Follow!Magnitude(y - (x + 1)) - Follow!Magnitude(y - (x - 1)) = -(2 * Follow!Unit(y - x))
  BY DEF Follow!Magnitude, Follow!Unit

\* The gradient of the length is its slope (the gradients of the smoother).
LEMMA LengthAlwaysFalls ==
  ASSUME NEW pts \in Seq(Int)
  PROVE  Follow!LengthFalls(pts, 1)
  <1> SUFFICES ASSUME NEW k \in DOMAIN pts
               PROVE  Follow!LengthLoss([pts EXCEPT ![k] = @ + 1]) - Follow!LengthLoss([pts EXCEPT ![k] = @ - 1])
                          = 2 * 1 * Follow!LengthGradient(pts, k)
    BY DEF Follow!LengthFalls
  <1> DEFINE n == Len(pts)
             a == [pts EXCEPT ![k] = @ + 1]
             b == [pts EXCEPT ![k] = @ - 1]
             before == IF k > 1 THEN Follow!Unit(pts[k] - pts[k - 1]) ELSE 0
             behind == IF k < n THEN Follow!Unit(pts[k + 1] - pts[k]) ELSE 0
  <1>1. n \in Nat \ {0} /\ k \in 1 .. n /\ DOMAIN pts = 1 .. n /\ pts \in OnLine(n) /\ \A i \in 1 .. n : pts[i] \in Int
    <2>1. n \in Nat /\ DOMAIN pts = 1 .. n /\ pts \in [1 .. n -> Int]
      BY LenProperties
    <2> QED
      BY <2>1 DEF OnLine
  <1>2. \A i \in 1 .. n : a[i] = IF i = k THEN pts[i] + 1 ELSE pts[i]
    BY <1>1
  <1>3. \A i \in 1 .. n : b[i] = IF i = k THEN pts[i] - 1 ELSE pts[i]
    BY <1>1
  <1>4. a \in OnLine(n) /\ b \in OnLine(n)
    BY <1>1 DEF OnLine
  <1>5. Follow!LengthGradient(pts, k) = before - behind
    BY DEF Follow!LengthGradient
  <1>6. before \in Int /\ behind \in Int
    <2>1. \A x \in Int : Follow!Unit(x) \in Int
      BY DEF Follow!Unit
    <2>2. before \in Int
      <3>1. CASE k > 1
        <4>1. pts[k] - pts[k - 1] \in Int
          BY <1>1, <3>1
        <4>2. Follow!Unit(pts[k] - pts[k - 1]) \in Int
          BY <2>1, <4>1
        <4> QED
          BY <3>1, <4>2
      <3>2. CASE ~(k > 1)
        BY <3>2
      <3> QED
        BY <3>1, <3>2
    <2>3. behind \in Int
      <3>1. CASE k < n
        <4>1. pts[k + 1] - pts[k] \in Int
          BY <1>1, <3>1
        <4>2. Follow!Unit(pts[k + 1] - pts[k]) \in Int
          BY <2>1, <4>1
        <4> QED
          BY <3>1, <4>2
      <3>2. CASE ~(k < n)
        BY <3>2
      <3> QED
        BY <3>1, <3>2
    <2> QED
      BY <2>2, <2>3
  <1> HIDE DEF n, a, b
  <1>7. \E s : Summed(Legs(a, n), n - 1, s)
    <2>1. n - 1 \in Nat /\ \A i \in 1 .. n - 1 : Legs(a, n)[i] \in Int
      BY <1>1, <1>4, LegsAre
    <2> QED
      BY <2>1, SumsExist
  <1>8. \E s : Summed(Legs(b, n), n - 1, s)
    <2>1. n - 1 \in Nat /\ \A i \in 1 .. n - 1 : Legs(b, n)[i] \in Int
      BY <1>1, <1>4, LegsAre
    <2> QED
      BY <2>1, SumsExist
  <1>9. PICK s : Summed(Legs(a, n), n - 1, s)
    BY <1>7
  <1>10. PICK t : Summed(Legs(b, n), n - 1, t)
    BY <1>8
  <1>11. Follow!LengthLoss(a) = s[n - 1] /\ Follow!LengthLoss(b) = t[n - 1]
    BY <1>1, <1>4, <1>9, <1>10, LossIsTheSum
  \* The leg before the point and the leg behind it are all that change.
  <1>12. ASSUME NEW i \in 1 .. n - 1
         PROVE  Legs(a, n)[i] - Legs(b, n)[i] = IF i = k - 1 THEN 2 * before
                                                ELSE IF i = k THEN -(2 * behind) ELSE 0
    <2>1. i \in 1 .. n /\ i + 1 \in 1 .. n /\ i # i + 1
      BY <1>1
    <2>2. PICK x \in Int, y \in Int : x = pts[i] /\ y = pts[i + 1]
      BY <1>1, <2>1
    <2>3. Legs(a, n)[i] = Follow!Magnitude(a[i + 1] - a[i]) /\ Legs(b, n)[i] = Follow!Magnitude(b[i + 1] - b[i])
      BY <1>1, <1>4, LegsAre
    <2>4. CASE i = k - 1
      <3>1. i + 1 = k /\ i # k /\ k > 1 /\ k - 1 = i
        BY <1>1, <2>1, <2>4
      <3>2. a[i + 1] = y + 1 /\ b[i + 1] = y - 1 /\ a[i] = x /\ b[i] = x
        BY <1>2, <1>3, <2>1, <2>2, <3>1
      <3>3. before = Follow!Unit(y - x)
        BY <2>2, <3>1
      <3>4. Follow!Magnitude((y + 1) - x) - Follow!Magnitude((y - 1) - x) = 2 * Follow!Unit(y - x)
        BY <2>2, LegsChange
      <3> HIDE DEF before, behind
      <3> QED
        BY <2>3, <2>4, <3>2, <3>3, <3>4
    <2>5. CASE i = k
      <3>1. i # k - 1 /\ i + 1 # k /\ k < n /\ k + 1 = i + 1
        BY <1>1, <2>1, <2>5
      <3>2. a[i + 1] = y /\ b[i + 1] = y /\ a[i] = x + 1 /\ b[i] = x - 1
        BY <1>2, <1>3, <2>1, <2>2, <2>5, <3>1
      <3>3. behind = Follow!Unit(y - x)
        BY <2>2, <2>5, <3>1
      <3>4. Follow!Magnitude(y - (x + 1)) - Follow!Magnitude(y - (x - 1)) = -(2 * Follow!Unit(y - x))
        BY <2>2, LegsChange
      <3> HIDE DEF before, behind
      <3> QED
        BY <2>3, <2>5, <3>1, <3>2, <3>3, <3>4
    <2>6. CASE i # k - 1 /\ i # k
      <3>1. i + 1 # k
        BY <1>1, <2>1, <2>6
      <3>2. a[i + 1] = y /\ b[i + 1] = y /\ a[i] = x /\ b[i] = x
        BY <1>2, <1>3, <2>1, <2>2, <2>6, <3>1
      <3>3. Follow!Magnitude(y - x) \in Int
        BY <2>2 DEF Follow!Magnitude
      <3> HIDE DEF before, behind
      <3>4. \A z \in Int : z - z = 0
        OBVIOUS
      <3> QED
        BY <2>3, <2>6, <3>2, <3>3, <3>4
    <2> QED
      BY <2>4, <2>5, <2>6
  <1> HIDE DEF before, behind
  <1> DEFINE Gain(m) == (IF m >= k - 1 THEN 2 * before ELSE 0) - (IF m >= k THEN 2 * behind ELSE 0)
             P == {m \in 0 .. n - 1 : s[m] - t[m] = Gain(m)}
  <1>13. 0 .. n - 1 \subseteq P
    <2>1. n - 1 \in Nat
      BY <1>1
    <2>2. 0 \in P
      <3>1. s[0] = 0 /\ t[0] = 0 /\ 0 \in 0 .. n - 1
        BY <1>9, <1>10, <2>1 DEF Summed
      <3>2. k = 1 => before = 0
        BY DEF before
      <3>3. Gain(0) = 0
        BY <1>1, <1>6, <3>2
      <3> QED
        BY <3>1, <3>3
    <2>3. ASSUME NEW m \in 0 .. n - 1, m # n - 1, m \in P
          PROVE  m + 1 \in P
      <3>1. m + 1 \in 1 .. n - 1 /\ m + 1 \in 0 .. n - 1 /\ (m + 1) - 1 = m
        BY <1>1, <2>3
      <3>2. s[m + 1] = Legs(a, n)[m + 1] + s[m] /\ t[m + 1] = Legs(b, n)[m + 1] + t[m]
        BY <1>9, <1>10, <3>1 DEF Summed
      <3>3. PICK u \in Int, v \in Int, f \in Int, g \in Int :
               u = s[m] /\ v = t[m] /\ f = Legs(a, n)[m + 1] /\ g = Legs(b, n)[m + 1]
        <4>1. s[m] \in Int /\ t[m] \in Int
          BY <1>9, <1>10, <3>1 DEF Summed
        <4>2. Legs(a, n)[m + 1] \in Int /\ Legs(b, n)[m + 1] \in Int
          BY <1>1, <1>4, <3>1, LegsAre
        <4> QED
          BY <4>1, <4>2
      <3>4. u - v = Gain(m)
        BY <2>3, <3>3
      <3>5. f - g = IF m + 1 = k - 1 THEN 2 * before ELSE IF m + 1 = k THEN -(2 * behind) ELSE 0
        BY <1>12, <3>1, <3>3
      <3>6. (f + u) - (g + v) = Gain(m + 1)
        <4>1. (f + u) - (g + v) = (f - g) + (u - v)
          <5>1. \A w, x, y, z \in Int : (w + x) - (y + z) = (w - y) + (x - z)
            OBVIOUS
          <5>2. f \in Int /\ g \in Int /\ u \in Int /\ v \in Int
            OBVIOUS
          <5> QED
            BY <5>1, <5>2
        <4>2. (f - g) + Gain(m) = Gain(m + 1)
          <5>1. k \in Nat /\ m \in Nat
            BY <1>1, <3>1
          <5>2. k = 1 => before = 0
            BY DEF before
          <5> QED
            BY <1>6, <3>5, <5>1, <5>2
        <4> QED
          BY <3>4, <4>1, <4>2
      <3> QED
        BY <3>1, <3>2, <3>3, <3>6
    <2> HIDE DEF P
    <2> QED
      BY <2>1, <2>2, <2>3, Induction
  <1>14. s[n - 1] - t[n - 1] = Gain(n - 1)
    <2>1. n - 1 \in 0 .. n - 1
      BY <1>1
    <2> QED
      BY <1>13, <2>1
  <1>15. Gain(n - 1) = 2 * (before - behind)
    <2>1. n - 1 >= k - 1
      BY <1>1
    <2>2. k = n => behind = 0
      BY DEF behind
    <2>3. n - 1 >= k <=> k # n
      BY <1>1
    <2> QED
      BY <1>6, <2>1, <2>2, <2>3
  <1> HIDE DEF Gain
  <1>16. 2 * 1 * (before - behind) = 2 * (before - behind)
    BY <1>6
  <1> QED
    BY <1>5, <1>11, <1>14, <1>15, <1>16 DEF a, b

\* The followers and the smoother keep their promises, whatever they are asked.
THEOREM EveryPathIsFollowed == FollowAsked => Followed
  <1> SUFFICES ASSUME FollowAsked PROVE Followed
    OBVIOUS
  <1>1. answer.kind = "commands" =>
            Follow!CommandsAreFeasible(task.controller, Follow!Reset, task.params, task.moves)
    BY CommandsAreAlwaysFeasible DEF FollowAsked
  <1>2. answer.kind = "reference" => Follow!ReferenceFollowsPath(task.path, task.robot, task.horizon)
    BY ReferenceAlwaysFollowsPath DEF FollowAsked, Posed
  <1>3. answer.kind = "headings" => Follow!HeadingsAreWrapped(task.theta, task.controls)
    BY HeadingsAreAlwaysWrapped DEF FollowAsked
  <1>4. answer.kind = "samples" => Follow!SamplesAreEven(task.arc, task.count)
    BY SamplesAreAlwaysEven DEF FollowAsked
  <1>5. answer.kind = "smooth" => Follow!SmoothedIsFollowed(task.arc, task.moves, task.rounds)
    BY SmoothedIsAlwaysFollowed DEF FollowAsked
  <1>6. answer.kind = "slope" => Follow!LengthFalls(task.points, 1)
    BY LengthAlwaysFalls DEF FollowAsked
  <1> QED
    BY <1>1, <1>2, <1>3, <1>4, <1>5, <1>6 DEF Followed

-----------------------------------------------------------------------------
(* The global search: loops, finite sets and sums.                         *)

\* A loop whose every round is a step keeps to the values that its steps keep to.
LEMMA LoopRuns ==
  ASSUME NEW n \in Nat, NEW V, NEW base \in V, NEW step \in [(1 .. n) \X V -> V],
         NEW h, h = [i \in 0 .. n |-> h[i]], h[0] = base,
         \A i \in 1 .. n : h[i - 1] \in V => h[i] = step[<<i, h[i - 1]>>]
  PROVE  Loops(h, n, V, base, step)
  <1> DEFINE P == {i \in 0 .. n : h[i] \in V}
  <1>1. 0 .. n \subseteq P
    <2>1. 0 \in P
      OBVIOUS
    <2>2. ASSUME NEW i \in 0 .. n, i # n, i \in P
          PROVE  i + 1 \in P
      <3>1. i + 1 \in 1 .. n /\ (i + 1) - 1 = i /\ i + 1 \in 0 .. n
        BY <2>2
      <3>2. h[i + 1] = step[<<i + 1, h[i]>>]
        BY <2>2, <3>1
      <3>3. step[<<i + 1, h[i]>>] \in V
        BY <2>2, <3>1
      <3> QED
        BY <3>1, <3>2, <3>3
    <2> HIDE DEF P
    <2> QED
      BY <2>1, <2>2, Induction
  <1>2. \A i \in 0 .. n : h[i] \in V
    BY <1>1
  <1>3. h \in [0 .. n -> V]
    BY <1>2
  <1>4. ASSUME NEW i \in 1 .. n
        PROVE  h[i] = step[<<i, h[i - 1]>>]
    <2>1. i - 1 \in 0 .. n
      OBVIOUS
    <2> QED
      BY <1>2, <2>1
  <1> QED
    BY <1>3, <1>4 DEF Loops

LEMMA GlobalCounts == \A S : Global!Cardinality(S) = Cardinality(S)
  BY DEF Global!Cardinality, Cardinality

\* A one-to-one function onto a set.
LEMMA SameSize ==
  ASSUME NEW S, NEW T, IsFiniteSet(S), NEW f \in [S -> T],
         \A a, b \in S : f[a] = f[b] => a = b,
         \A t \in T : \E s \in S : f[s] = t
  PROVE  IsFiniteSet(T) /\ Cardinality(T) = Cardinality(S)
  <1>1. f \in Bijection(S, T)
    BY DEF Bijection, Injection, Surjection, IsInjective
  <1> QED
    BY <1>1, FS_Bijection DEF ExistsBijection

\* What is given for each of finitely many things is finite.
LEMMA ImagesAreFinite ==
  ASSUME NEW S, IsFiniteSet(S), NEW f, f = [s \in S |-> f[s]]
  PROVE  IsFiniteSet({f[s] : s \in S})
  <1> DEFINE T == {f[s] : s \in S}
  <1>1. f \in [S -> T]
    OBVIOUS
  <1>2. f \in Surjection(S, T)
    BY <1>1 DEF Surjection
  <1> QED
    BY <1>2, FS_Surjection

\* A finite set of numbers has bounds, a least and a largest.
LEMMA NumbersAreBounded ==
  ASSUME NEW S \in SUBSET Int, IsFiniteSet(S)
  PROVE  \E b \in Nat : \A x \in S : -b <= x /\ x <= b
  <1>1. PICK n \in Nat : ExistsSurjection(1 .. n, S)
    BY FS_NatSurjection
  <1>2. PICK f : f \in Surjection(1 .. n, S)
    BY <1>1 DEF ExistsSurjection
  <1>3. f \in [1 .. n -> S] /\ \A x \in S : \E i \in 1 .. n : f[i] = x
    BY <1>2 DEF Surjection
  <1> DEFINE P == {i \in 0 .. n : \E b \in Nat : \A j \in 1 .. i : -b <= f[j] /\ f[j] <= b}
  <1>4. 0 .. n \subseteq P
    <2>1. 0 \in P
      OBVIOUS
    <2>2. ASSUME NEW i \in 0 .. n, i # n, i \in P
          PROVE  i + 1 \in P
      <3>1. PICK b \in Nat : \A j \in 1 .. i : -b <= f[j] /\ f[j] <= b
        BY <2>2
      <3>2. i + 1 \in 0 .. n /\ i + 1 \in 1 .. n
        BY <2>2
      <3>3. f[i + 1] \in Int /\ \A j \in 1 .. i : j \in 1 .. n /\ f[j] \in Int
        <4>1. \A j \in 1 .. n : f[j] \in Int
          BY <1>3
        <4>2. \A j \in 1 .. i : j \in 1 .. n
          BY <3>2
        <4> QED
          BY <3>2, <4>1, <4>2
      <3> DEFINE x == f[i + 1]
                 c == IF x > b THEN x ELSE IF -x > b THEN -x ELSE b
      <3>4. c \in Nat /\ -c <= x /\ x <= c /\ b <= c
        BY <3>3
      <3> HIDE DEF c
      <3>5. \A j \in 1 .. i + 1 : j = i + 1 \/ j \in 1 .. i
        OBVIOUS
      <3>6. \A j \in 1 .. i + 1 : -c <= f[j] /\ f[j] <= c
        BY <3>1, <3>3, <3>4, <3>5
      <3> QED
        BY <3>2, <3>4, <3>6
    <2> HIDE DEF P
    <2> QED
      BY <2>1, <2>2, Induction
  <1>5. PICK b \in Nat : \A j \in 1 .. n : -b <= f[j] /\ f[j] <= b
    BY <1>4
  <1> QED
    BY <1>3, <1>5

LEMMA ExtremesExist ==
  ASSUME NEW S \in SUBSET Int, S # {}, IsFiniteSet(S)
  PROVE  /\ Global!Largest(S) \in S /\ \A x \in S : x <= Global!Largest(S)
         /\ Global!Smallest(S) \in S /\ \A x \in S : Global!Smallest(S) <= x
  <1>1. PICK b \in Nat : \A x \in S : -b <= x /\ x <= b
    BY NumbersAreBounded
  <1> DEFINE Up == {b - x : x \in S}
             Down == {b + x : x \in S}
  <1>2. Up \in SUBSET Nat /\ Up # {} /\ Down \in SUBSET Nat /\ Down # {}
    <2>1. \A x \in S : x \in Int /\ b - x \in Nat /\ b + x \in Nat
      BY <1>1
    <2> QED
      BY <2>1
  <1>3. \E x \in S : \A y \in S : y <= x
    <2>1. PICK u \in Up : \A v \in Up : u <= v
      BY <1>2, LeastExists
    <2>2. PICK x \in S : u = b - x
      OBVIOUS
    <2>3. \A y \in S : b - x <= b - y
      BY <2>1, <2>2
    <2> QED
      BY <2>3
  <1>4. \E x \in S : \A y \in S : x <= y
    <2>1. PICK u \in Down : \A v \in Down : u <= v
      BY <1>2, LeastExists
    <2>2. PICK x \in S : u = b + x
      OBVIOUS
    <2>3. \A y \in S : b + x <= b + y
      BY <2>1, <2>2
    <2> QED
      BY <2>3
  <1> QED
    BY <1>3, <1>4 DEF Global!Largest, Global!Smallest

\* Sums of no negative values.
LEMMA TotalsAre ==
  ASSUME NEW n \in Nat, NEW f, \A i \in 1 .. n : f[i] \in Int
  PROVE  \E s : Summed(f, n, s) /\ Global!Total(f, n) = s[n]
  <1>1. PICK s : Summed(f, n, s)
    BY SumsExist
  <1>2. Follow!SumUpTo(f, n) = s[n]
    BY <1>1, SumsAreTheirs
  <1>3. Global!Total(f, n) = Follow!SumUpTo(f, n)
    BY DEF Global!Total, Follow!SumUpTo
  <1> QED
    BY <1>1, <1>2, <1>3

LEMMA TotalsGrow ==
  ASSUME NEW n \in Nat, NEW f, NEW g, \A i \in 1 .. n : f[i] \in Nat /\ g[i] \in Nat /\ f[i] <= g[i]
  PROVE  /\ Global!Total(f, n) \in Nat /\ Global!Total(g, n) \in Nat
         /\ Global!Total(f, n) <= Global!Total(g, n)
  <1>1. PICK s : Summed(f, n, s) /\ Global!Total(f, n) = s[n]
    BY TotalsAre
  <1>2. PICK t : Summed(g, n, t) /\ Global!Total(g, n) = t[n]
    BY TotalsAre
  <1> DEFINE P == {i \in 0 .. n : s[i] \in Nat /\ t[i] \in Nat /\ s[i] <= t[i]}
  <1>3. 0 .. n \subseteq P
    <2>1. 0 \in P
      BY <1>1, <1>2 DEF Summed
    <2>2. ASSUME NEW i \in 0 .. n, i # n, i \in P
          PROVE  i + 1 \in P
      <3>1. i + 1 \in 1 .. n /\ (i + 1) - 1 = i /\ i + 1 \in 0 .. n
        BY <2>2
      <3>2. s[i + 1] = f[i + 1] + s[i] /\ t[i + 1] = g[i + 1] + t[i]
        BY <1>1, <1>2, <3>1 DEF Summed
      <3> QED
        BY <2>2, <3>1, <3>2
    <2> HIDE DEF P
    <2> QED
      BY <2>1, <2>2, Induction
  <1> QED
    BY <1>1, <1>2, <1>3

-----------------------------------------------------------------------------
(* The transform is large enough: nothing wraps round.                     *)

LEMMA PowersCover ==
  ASSUME NEW n \in Nat \ {0}
  PROVE  Global!NextPowerOfTwo(n) \in Nat /\ n <= Global!NextPowerOfTwo(n)
  <1> DEFINE V == Nat \ {0}
             Loop(r) == [i \in 0 .. n |-> IF i = 0 THEN 1 ELSE IF r[i - 1] < n THEN 2 * r[i - 1] ELSE r[i - 1]]
             h == CHOOSE r : r = Loop(r)
             step == [p \in (1 .. n) \X V |-> IF p[2] < n THEN 2 * p[2] ELSE p[2]]
  <1>1. Global!NextPowerOfTwo(n) = h[n]
    BY DEF Global!NextPowerOfTwo
  <1>2. 1 \in V /\ step \in [(1 .. n) \X V -> V]
        /\ \A i \in 1 .. n : \A v \in V : step[<<i, v>>] = IF v < n THEN 2 * v ELSE v
    OBVIOUS
  <1> HIDE DEF step
  <1>3. PICK f : Loops(f, n, V, 1, step)
    <2> HIDE DEF V
    <2> QED
      BY <1>2, Recursion
  <1>4. f = Loop(f)
    <2>1. f = [i \in 0 .. n |-> f[i]] /\ f[0] = 1 /\ \A i \in 1 .. n : f[i] = step[<<i, f[i - 1]>>]
      BY <1>3 DEF Loops
    <2>2. \A i \in 1 .. n : f[i - 1] \in V
      BY <1>3 DEF Loops
    <2>3. \A i \in 1 .. n : f[i] = IF f[i - 1] < n THEN 2 * f[i - 1] ELSE f[i - 1]
      BY <1>2, <2>1, <2>2
    <2>4. \A i \in 0 .. n : i = 0 \/ i \in 1 .. n
      OBVIOUS
    <2> QED
      BY <2>1, <2>3, <2>4
  <1>5. h = Loop(h)
    <2> HIDE DEF Loop
    <2> QED
      BY <1>4
  <1> HIDE DEF h
  <1>6. h = [i \in 0 .. n |-> h[i]] /\ h[0] = 1
        /\ \A i \in 1 .. n : h[i] = IF h[i - 1] < n THEN 2 * h[i - 1] ELSE h[i - 1]
    BY <1>5
  <1>7. \A i \in 1 .. n : h[i - 1] \in V => h[i] = step[<<i, h[i - 1]>>]
    BY <1>2, <1>6
  <1>8. Loops(h, n, V, 1, step)
    <2> HIDE DEF V
    <2> QED
      BY <1>2, <1>6, <1>7, LoopRuns
  <1>9. \A i \in 0 .. n : h[i] \in V
    BY <1>8 DEF Loops
  <1> DEFINE P == {i \in 0 .. n : h[i] >= n \/ h[i] >= i + 1}
  <1>10. 0 .. n \subseteq P
    <2>1. 0 \in P
      BY <1>6
    <2>2. ASSUME NEW i \in 0 .. n, i # n, i \in P
          PROVE  i + 1 \in P
      <3>1. i + 1 \in 1 .. n /\ (i + 1) - 1 = i /\ i + 1 \in 0 .. n
        BY <2>2
      <3>2. h[i + 1] = IF h[i] < n THEN 2 * h[i] ELSE h[i]
        BY <1>6, <3>1
      <3>3. h[i] \in Nat \ {0}
        BY <1>9
      <3> QED
        BY <2>2, <3>1, <3>2, <3>3
    <2> HIDE DEF P
    <2> QED
      BY <2>1, <2>2, Induction
  <1>11. h[n] \in Nat /\ n <= h[n]
    BY <1>9, <1>10
  <1> QED
    BY <1>1, <1>11

\* The remainder of a number not far from its range.
LEMMA NearRemainders ==
  ASSUME NEW n \in Nat \ {0}, NEW d \in Int, -n <= d, d < n
  PROVE  d % n = IF d < 0 THEN d + n ELSE d
  <1>1. d = n * (d \div n) + (d % n) /\ d \div n \in Int /\ d % n \in 0 .. n - 1
    OBVIOUS
  <1> DEFINE q == d \div n
             r == d % n
  <1>2. q \in Int /\ r \in 0 .. n - 1 /\ d = n * q + r
    BY <1>1
  <1> HIDE DEF q, r
  <1>3. q >= -1 /\ q <= 0
    <2>1. CASE q >= 1
      <3>1. n * q >= n
        BY <2>1, <1>2
      <3> QED
        BY <1>2, <3>1
    <2>2. CASE q <= -2
      <3>1. n * q <= -(2 * n)
        BY <2>2, <1>2
      <3> QED
        BY <1>2, <3>1
    <2> QED
      BY <1>2, <2>1, <2>2
  <1>4. q = 0 \/ q = -1
    BY <1>2, <1>3
  <1>5. d = r \/ d = r - n
    BY <1>2, <1>4
  <1>6. r = IF d < 0 THEN d + n ELSE d
    BY <1>2, <1>5
  <1> QED
    BY <1>6 DEF r

\* A number rounded is a number, and a whole number of units stays what it is.
LEMMA RoundingsToUnits ==
  ASSUME NEW n \in Nat \ {0}
  PROVE  /\ \A a \in Int : Global!RoundTo(a, n) \in Int
         /\ \A v \in Nat : Global!RoundTo(n * v, n) = v
  <1> DEFINE d == 2 * n
  <1>1. d \in Nat \ {0}
    OBVIOUS
  <1>2. ASSUME NEW x \in Int PROVE x \div d \in Int
    <2> HIDE DEF d
    <2> QED
      BY <1>1
  <1>3. ASSUME NEW a \in Int PROVE Global!RoundTo(a, n) \in Int
    <2> DEFINE u == (2 * a + n) \div d
               v == (n - 2 * a) \div d
    <2>1. 2 * a + n \in Int /\ n - 2 * a \in Int
      OBVIOUS
    <2>2. u \in Int /\ v \in Int
      <3> HIDE DEF d
      <3> QED
        BY <1>2, <2>1
    <2>3. Global!RoundTo(a, n) = IF a >= 0 THEN u ELSE -v
      BY DEF Global!RoundTo
    <2> HIDE DEF u, v
    <2> QED
      BY <2>2, <2>3
  <1>4. ASSUME NEW v \in Nat PROVE Global!RoundTo(n * v, n) = v
    <2>1. n * v \in Nat
      <3>1. \A x, y \in Nat : x * y \in Nat
        OBVIOUS
      <3> QED
        BY <3>1
    <2> DEFINE x == 2 * (n * v) + n
               q == x \div d
               r == x % d
    <2>2. x = d * v + n /\ x \in Int
      BY <2>1
    <2>3. x = d * q + r /\ q \in Int /\ r \in 0 .. d - 1
      <3>1. \A y \in Int : y = d * (y \div d) + (y % d) /\ y \div d \in Int /\ y % d \in 0 .. d - 1
        <4> HIDE DEF d
        <4> QED
          BY <1>1
      <3> HIDE DEF d, x
      <3> QED
        BY <2>2, <3>1
    <2>4. Global!RoundTo(n * v, n) = q
      BY <2>1 DEF Global!RoundTo
    <2> HIDE DEF q, r, x
    <2>5. PICK e \in Int : e = q - v
      BY <2>3
    <2>6. d * q = d * v + d * e
      BY <2>3, <2>5
    <2>7. d * v \in Int /\ d * e \in Int
      <3>1. \A y, z \in Int : y * z \in Int
        OBVIOUS
      <3> QED
        BY <2>5, <3>1
    <2> HIDE DEF d
    <2>8. n - r = d * e
      BY <1>1, <2>2, <2>3, <2>6, <2>7
    <2>9. -d < n - r /\ n - r < d
      BY <1>1, <2>3 DEF d
    <2>10. e = 0
      <3>1. CASE e >= 1
        <4>1. d * e >= d
          BY <1>1, <2>5, <3>1
        <4> QED
          BY <1>1, <2>3, <2>8, <2>9, <4>1
      <3>2. CASE e <= -1
        <4>1. d * e <= -d
          BY <1>1, <2>5, <3>2
        <4> QED
          BY <1>1, <2>3, <2>8, <2>9, <4>1
      <3> QED
        BY <2>5, <3>1, <3>2
    <2> QED
      BY <2>3, <2>4, <2>5, <2>10
  <1> QED
    BY <1>3, <1>4

LEMMA TurnsAre ==
  ASSUME NEW t \in Turns
  PROVE  t.cos \in Int /\ t.sin \in Int /\ t.unit \in Nat \ {0} /\ t.deg \in Int
  BY DEF Turns

\* A turned cell is somewhere.
LEMMA TurnedIsSomewhere ==
  ASSUME NEW c \in Pairs, NEW t \in Turns, NEW radius \in Nat
  PROVE  Global!Turned(c, t, radius) \in Pairs
  <1>1. t.cos \in Int /\ t.sin \in Int /\ t.unit \in Nat \ {0} /\ c[1] \in Int /\ c[2] \in Int
    BY TurnsAre DEF Pairs
  <1> DEFINE a == t.cos * c[1] - t.sin * c[2] + radius * t.unit
             b == t.sin * c[1] + t.cos * c[2] + radius * t.unit
  <1>2. a \in Int /\ b \in Int
    <2>1. \A x, y \in Int : x * y \in Int
      OBVIOUS
    <2>2. /\ t.cos * c[1] \in Int /\ t.sin * c[2] \in Int /\ t.sin * c[1] \in Int /\ t.cos * c[2] \in Int
          /\ radius * t.unit \in Int
      BY <1>1, <2>1
    <2> QED
      BY <2>2
  <1>3. Global!Turned(c, t, radius) = <<Global!RoundTo(a, t.unit), Global!RoundTo(b, t.unit)>>
    BY DEF Global!Turned
  <1> HIDE DEF a, b
  <1>4. Global!RoundTo(a, t.unit) \in Int /\ Global!RoundTo(b, t.unit) \in Int
    BY <1>1, <1>2, RoundingsToUnits
  <1> QED
    BY <1>3, <1>4 DEF Pairs

\* A quarter turn keeps cells apart and within a square.
LEMMA QuartersAre ==
  ASSUME NEW c \in Pairs, NEW q \in Global!Headings
  PROVE  /\ Global!Quartered(c, q) \in Pairs
         /\ \A b \in Int : -b <= c[1] /\ c[1] <= b /\ -b <= c[2] /\ c[2] <= b =>
               /\ -b <= Global!Quartered(c, q)[1] /\ Global!Quartered(c, q)[1] <= b
               /\ -b <= Global!Quartered(c, q)[2] /\ Global!Quartered(c, q)[2] <= b
  BY DEF Pairs, Global!Headings, Global!Quartered

LEMMA QuartersDiffer ==
  ASSUME NEW c \in Pairs, NEW e \in Pairs, NEW q \in Global!Headings,
         Global!Quartered(c, q)[1] = Global!Quartered(e, q)[1], Global!Quartered(c, q)[2] = Global!Quartered(e, q)[2]
  PROVE  c = e
  BY DEF Pairs, Global!Headings, Global!Quartered

\* A turn that is a quarter turn takes cells where that takes them.
LEMMA QuartersTurn ==
  ASSUME NEW c \in Pairs, NEW q \in Global!Headings, NEW t \in Turns, Global!IsQuarter(t, q), NEW radius \in Nat,
         -radius <= c[1], c[1] <= radius, -radius <= c[2], c[2] <= radius
  PROVE  Global!Turned(c, t, radius) = <<Global!Quartered(c, q)[1] + radius, Global!Quartered(c, q)[2] + radius>>
  <1> DEFINE r == Global!Quartered(c, q)
             n == t.unit
             x == c[1]
             y == c[2]
             a == t.cos * x - t.sin * y + radius * n
             b == t.sin * x + t.cos * y + radius * n
  <1>1. n \in Nat \ {0} /\ x \in Int /\ y \in Int
    BY TurnsAre DEF Pairs
  <1>2. Global!Turned(c, t, radius) = <<Global!RoundTo(a, n), Global!RoundTo(b, n)>>
    BY DEF Global!Turned
  <1>3. r[1] + radius \in Nat /\ r[2] + radius \in Nat
    <2>1. r \in Pairs /\ -radius <= r[1] /\ -radius <= r[2]
      BY QuartersAre
    <2>2. r[1] \in Int /\ r[2] \in Int
      BY <2>1 DEF Pairs
    <2> HIDE DEF r
    <2> QED
      BY <2>1, <2>2
  <1>4. a = n * (r[1] + radius) /\ b = n * (r[2] + radius)
    <2>1. \A u, v \in Int : u * v \in Int /\ n * (u + v) = n * u + n * v /\ radius * n = n * radius
                           /\ n * (-u) = -(n * u) /\ (-n) * u = -(n * u) /\ 0 * u = 0
      BY <1>1
    <2>2. n * 1 = n /\ n * 0 = 0 /\ n * (-1) = -n /\ n * (-0) = 0
      BY <1>1
    <2>3. /\ n * (x + radius) = n * x + n * radius /\ n * (y + radius) = n * y + n * radius
          /\ n * (-x + radius) = -(n * x) + n * radius /\ n * (-y + radius) = -(n * y) + n * radius
          /\ n * x \in Int /\ n * y \in Int /\ n * radius \in Int /\ radius * n = n * radius
          /\ (-n) * x = -(n * x) /\ (-n) * y = -(n * y) /\ 0 * x = 0 /\ 0 * y = 0
      <3>1. -x \in Int /\ -y \in Int /\ radius \in Int
        BY <1>1
      <3> HIDE DEF n, x, y
      <3> QED
        BY <1>1, <2>1, <3>1
    <2>4. CASE q = 0
      <3>1. t.cos = n /\ t.sin = 0 /\ r[1] = x /\ r[2] = y
        BY <2>2, <2>4 DEF Global!IsQuarter, Global!Quartered
      <3> HIDE DEF n, x, y, r
      <3> QED
        BY <1>1, <2>3, <3>1
    <2>5. CASE q = 1
      <3>1. t.cos = 0 /\ t.sin = n /\ r[1] = -y /\ r[2] = x
        BY <2>2, <2>5 DEF Global!IsQuarter, Global!Quartered
      <3> HIDE DEF n, x, y, r
      <3> QED
        BY <1>1, <2>3, <3>1
    <2>6. CASE q = 2
      <3>1. t.cos = -n /\ t.sin = 0 /\ r[1] = -x /\ r[2] = -y
        BY <2>2, <2>6 DEF Global!IsQuarter, Global!Quartered
      <3> HIDE DEF n, x, y, r
      <3> QED
        BY <1>1, <2>3, <3>1
    <2>7. CASE q = 3
      <3>1. t.cos = 0 /\ t.sin = -n /\ r[1] = y /\ r[2] = -x
        BY <2>2, <2>7 DEF Global!IsQuarter, Global!Quartered
      <3> HIDE DEF n, x, y, r
      <3> QED
        BY <1>1, <2>3, <3>1
    <2> QED
      BY <2>4, <2>5, <2>6, <2>7 DEF Global!Headings
  <1> HIDE DEF a, b, r, n
  <1> QED
    BY <1>1, <1>2, <1>3, <1>4, RoundingsToUnits DEF r

\* The cells of a scan, layer by layer, and a map's grids.
\* The cells of a scan, layer by layer, and a map's grids.
Celled(k, cells) ==
  \A i \in Global!Layers(k) : cells[i] \subseteq Pairs /\ IsFiniteSet(cells[i])
Gridded(k, grid) ==
  /\ grid.ox \in Int /\ grid.oy \in Int /\ grid.rows \in Nat \ {0} /\ grid.cols \in Nat \ {0}
  /\ \A i \in Global!Layers(k) : grid.layers[i] \subseteq (0 .. grid.rows - 1) \X (0 .. grid.cols - 1)

LEMMA RadiusBounds ==
  ASSUME NEW k, Configured(k), NEW cells, Celled(k, cells)
  PROVE  /\ Global!Radius(k, cells) \in Nat \ {0}
         /\ \A i \in Global!Layers(k) : \A c \in cells[i] :
               LET b == Global!Radius(k, cells) - 1
               IN  -b <= c[1] /\ c[1] <= b /\ -b <= c[2] /\ c[2] <= b
  <1> DEFINE all == Global!AllCells(k, cells)
             abs == [q \in all \X (1 .. 2) |-> Global!Abs(q[1][q[2]])]
             A == {abs[q] : q \in all \X (1 .. 2)}
             B == {1} \cup A
  <1>1. Global!LayerCount(k) \in Nat /\ IsFiniteSet(Global!Layers(k))
    <2>1. Global!LayerCount(k) \in Nat
      BY LenProperties DEF Configured, Global!LayerCount
    <2> QED
      BY <2>1, FS_Interval DEF Global!Layers
  <1>2. all \subseteq Pairs /\ IsFiniteSet(all)
    <2> DEFINE f == [i \in Global!Layers(k) |-> cells[i]]
               S == {f[i] : i \in Global!Layers(k)}
    <2>1. IsFiniteSet(S)
      BY <1>1, ImagesAreFinite
    <2>2. \A T \in S : IsFiniteSet(T) /\ T \subseteq Pairs
      BY DEF Celled
    <2>3. S = {cells[i] : i \in Global!Layers(k)}
      OBVIOUS
    <2>4. all = UNION S
      BY <2>3 DEF Global!AllCells
    <2> HIDE DEF S
    <2> QED
      BY <2>1, <2>2, <2>4, FS_UNION
  <1> HIDE DEF all
  <1>3. IsFiniteSet(all \X (1 .. 2))
    <2>1. \A a, b \in Int : IsFiniteSet(a .. b)
      BY FS_Interval
    <2>2. 1 \in Int /\ 2 \in Int
      OBVIOUS
    <2>3. IsFiniteSet(1 .. 2)
      BY ONLY <2>1, <2>2, Zenon
    <2> QED
      BY <1>2, <2>3, FS_Product
  <1>4. IsFiniteSet(A)
    <2> DEFINE S == all \X (1 .. 2)
    <2>1. abs = [q \in S |-> abs[q]] /\ A = {abs[q] : q \in S} /\ IsFiniteSet(S)
      BY <1>3
    <2> HIDE DEF S, abs, A
    <2>2. IsFiniteSet({abs[q] : q \in S})
      BY <2>1, ImagesAreFinite
    <2> QED
      BY <2>1, <2>2
  <1>5. \A c \in all : \A x \in 1 .. 2 : c[x] \in Int /\ abs[<<c, x>>] = Global!Abs(c[x])
    BY <1>2 DEF Pairs
  <1>6. A \subseteq Int
    <2>1. \A m \in Int : Global!Abs(m) \in Int
      BY DEF Global!Abs
    <2> QED
      BY <1>5, <2>1
  <1>7. B \in SUBSET Int /\ B # {} /\ IsFiniteSet(B) /\ 1 \in B
    <2> HIDE DEF A
    <2>1. IsFiniteSet(A \cup {1}) /\ B = A \cup {1}
      BY <1>4, FS_AddElement
    <2> QED
      BY <1>6, <2>1
  <1>8. B = {1} \cup {Global!Abs(c[x]) : c \in all, x \in 1 .. 2}
    <2>1. A = {Global!Abs(c[x]) : c \in all, x \in 1 .. 2}
      <3>1. ASSUME NEW a \in A PROVE \E c \in all, x \in 1 .. 2 : a = Global!Abs(c[x])
        <4>1. PICK q \in all \X (1 .. 2) : a = abs[q]
          OBVIOUS
        <4>2. q[1] \in all /\ q[2] \in 1 .. 2 /\ a = Global!Abs(q[1][q[2]])
          BY <4>1
        <4> QED
          BY <4>2
      <3>2. ASSUME NEW c \in all, NEW x \in 1 .. 2 PROVE Global!Abs(c[x]) \in A
        <4>1. <<c, x>> \in all \X (1 .. 2)
          OBVIOUS
        <4> QED
          BY <1>5, <4>1
      <3> HIDE DEF A
      <3> QED
        BY <3>1, <3>2
    <2> HIDE DEF A
    <2> QED
      BY <2>1
  <1>9. Global!Radius(k, cells) = Global!Largest(B) + 1
    <2> HIDE DEF B
    <2> QED
      BY <1>8 DEF Global!Radius, all
  <1>10. Global!Largest(B) \in Int /\ \A m \in B : m <= Global!Largest(B)
    <2> HIDE DEF B
    <2> QED
      BY <1>7, ExtremesExist
  <1>11. Global!Radius(k, cells) \in Nat \ {0}
    <2> HIDE DEF B
    <2> QED
      BY <1>7, <1>9, <1>10
  <1>12. ASSUME NEW i \in Global!Layers(k), NEW c \in cells[i], NEW x \in 1 .. 2
         PROVE  -Global!Largest(B) <= c[x] /\ c[x] <= Global!Largest(B)
    <2>1. c \in all
      BY DEF all, Global!AllCells
    <2>2. Global!Abs(c[x]) \in B /\ c[x] \in Int
      BY <1>5, <1>8, <2>1
    <2>3. Global!Abs(c[x]) <= Global!Largest(B)
      BY <1>10, <2>2
    <2> HIDE DEF B
    <2> QED
      BY <1>10, <2>2, <2>3 DEF Global!Abs
  <1> HIDE DEF B
  <1>13. Global!Radius(k, cells) - 1 = Global!Largest(B)
    BY <1>9, <1>10
  <1> QED
    BY <1>11, <1>12, <1>13

\* A remainder is among the rows only where the number itself is.
LEMMA NothingWraps ==
  ASSUME NEW rows \in Nat \ {0}, NEW radius \in Nat \ {0}, NEW n \in Nat, rows + 2 * radius <= n,
         NEW d \in Int, -(2 * radius) <= d, d < rows + 2 * radius
  PROVE  /\ d \in 0 .. rows - 1 => d % n = d
         /\ d \notin 0 .. rows - 1 => d % n \notin 0 .. rows - 1
  <1>1. n \in Nat \ {0} /\ -n <= d /\ d < n
    OBVIOUS
  <1>2. d % n = IF d < 0 THEN d + n ELSE d
    BY <1>1, NearRemainders
  <1> QED
    BY <1>1, <1>2

\* The square has as many rows and columns as the scan.
LEMMA SquaresAre ==
  ASSUME NEW radius \in Nat \ {0}
  PROVE  /\ Global!ScanSide(radius) - 1 = 2 * radius /\ Global!ScanSide(radius) = 2 * radius + 1
         /\ Global!InSquare(radius) = (0 .. 2 * radius) \X (0 .. 2 * radius)
  <1>1. Global!ScanSide(radius) = 2 * radius + 1
    BY DEF Global!ScanSide
  <1> DEFINE side == Global!ScanSide(radius)
             last == 2 * radius
  <1>2. side - 1 = last
    <2> HIDE DEF side
    <2> QED
      BY <1>1 DEF side
  <1>3. Global!InSquare(radius) = (0 .. side - 1) \X (0 .. side - 1)
    BY DEF Global!InSquare
  <1> HIDE DEF side, last
  <1> QED
    BY <1>1, <1>2, <1>3 DEF side, last

\* The images of finitely many things are not more than these.
LEMMA ImagesAreFewer ==
  ASSUME NEW S, IsFiniteSet(S), NEW f, f = [s \in S |-> f[s]]
  PROVE  /\ IsFiniteSet({f[s] : s \in S})
         /\ Cardinality({f[s] : s \in S}) \in Nat /\ Cardinality(S) \in Nat
         /\ Cardinality({f[s] : s \in S}) <= Cardinality(S)
  <1> DEFINE T == {f[s] : s \in S}
  <1>1. f \in [S -> T]
    OBVIOUS
  <1>2. f \in Surjection(S, T)
    BY <1>1 DEF Surjection
  <1>3. IsFiniteSet(T) /\ Cardinality(T) <= Cardinality(S)
    BY <1>2, FS_Surjection
  <1> HIDE DEF T
  <1>4. Cardinality(T) \in Nat /\ Cardinality(S) \in Nat
    BY <1>3, FS_CardinalityType
  <1> QED
    BY <1>3, <1>4 DEF T

\* A scan turned, layer by layer: what is left of it, in the square.
Spread(k, cells, turn) ==
  [i \in Global!Layers(k) |-> Global!Rotated(cells[i], turn, Global!Radius(k, cells))]
IsSpread(k, cells, spread) ==
  \A i \in Global!Layers(k) :
    /\ spread[i] \subseteq (0 .. 2 * Global!Radius(k, cells)) \X (0 .. 2 * Global!Radius(k, cells))
    /\ IsFiniteSet(spread[i])
    /\ Cardinality(spread[i]) \in Nat /\ Cardinality(cells[i]) \in Nat
    /\ Cardinality(spread[i]) <= Cardinality(cells[i])

LEMMA SpreadsAre ==
  ASSUME NEW k, Configured(k), NEW cells, Celled(k, cells), NEW turn
  PROVE  IsSpread(k, cells, Spread(k, cells, turn))
  <1> DEFINE R == Global!Radius(k, cells)
             spread == Spread(k, cells, turn)
  <1>1. R \in Nat \ {0}
    BY RadiusBounds
  <1>2. ASSUME NEW i \in Global!Layers(k)
        PROVE  /\ spread[i] \subseteq (0 .. 2 * R) \X (0 .. 2 * R)
               /\ IsFiniteSet(spread[i])
               /\ Cardinality(spread[i]) \in Nat /\ Cardinality(cells[i]) \in Nat
               /\ Cardinality(spread[i]) <= Cardinality(cells[i])
    <2> DEFINE S == cells[i]
               f == [c \in S |-> Global!Turned(c, turn, R)]
               T == {f[c] : c \in S}
               A == spread[i]
    <2>1. IsFiniteSet(S)
      BY DEF Celled
    <2>2. A = Global!Rotated(S, turn, R)
      BY DEF Spread
    <2>3. T = {Global!Turned(c, turn, R) : c \in S}
      OBVIOUS
    <2>4. A = T \cap Global!InSquare(R)
      <3> HIDE DEF T, A
      <3> QED
        BY <2>2, <2>3 DEF Global!Rotated
    <2>5. A \subseteq T /\ A \subseteq (0 .. 2 * R) \X (0 .. 2 * R)
      <3> HIDE DEF T, A, R
      <3> QED
        BY <1>1, <2>4, SquaresAre
    <2>6. IsFiniteSet(T) /\ Cardinality(T) \in Nat /\ Cardinality(S) \in Nat /\ Cardinality(T) <= Cardinality(S)
      <3>1. f = [c \in S |-> f[c]]
        OBVIOUS
      <3> HIDE DEF f
      <3> QED
        BY <2>1, <3>1, ImagesAreFewer
    <2> HIDE DEF A, T
    <2>7. IsFiniteSet(A) /\ Cardinality(A) <= Cardinality(T)
      <3>1. A \in SUBSET T
        BY <2>5
      <3> QED
        BY <2>6, <3>1, FS_Subset
    <2>8. Cardinality(A) \in Nat
      BY <2>7, FS_CardinalityType
    <2>9. Cardinality(A) <= Cardinality(S)
      BY <2>6, <2>7, <2>8
    <2> QED
      BY <2>5, <2>6, <2>7, <2>8, <2>9 DEF A
  <1> QED
    BY <1>2 DEF IsSpread

\* The cells of a layer that fall on the map, moved by dx and dy.
Falling(S, layer, dx, dy) == {c \in S : <<c[1] + dx, c[2] + dy>> \in layer}
Falls(k, grid, spread, dx, dy) ==
  Global!Total([i \in Global!Layers(k) |-> Cardinality(Falling(spread[i], grid.layers[i], dx, dy))],
               Global!LayerCount(k))

SameCount(S, layer, radius, n, m, x, y) ==
  Cardinality({c \in Global!Reversed(S, radius) : <<(x - c[1]) % n, (y - c[2]) % m>> \in layer}) =
    Cardinality(Falling(S, layer, x - 2 * radius, y - 2 * radius))

\* One layer of the product of spectra counts the cells that fall on the map.
LEMMA LayerCounts ==
  ASSUME NEW radius \in Nat \ {0}, NEW S \in SUBSET ((0 .. 2 * radius) \X (0 .. 2 * radius)), IsFiniteSet(S),
         NEW rows \in Nat \ {0}, NEW cols \in Nat \ {0}, NEW layer \in SUBSET ((0 .. rows - 1) \X (0 .. cols - 1)),
         NEW n \in Nat, rows + 2 * radius <= n, NEW m \in Nat, cols + 2 * radius <= m,
         NEW x \in 0 .. rows + 2 * radius - 1, NEW y \in 0 .. cols + 2 * radius - 1
  PROVE  SameCount(S, layer, radius, n, m, x, y)
  <1> DEFINE t == 2 * radius
             A == Falling(S, layer, x - t, y - t)
             R == Global!Reversed(S, radius)
             B == {c \in R : <<(x - c[1]) % n, (y - c[2]) % m>> \in layer}
             f == [c \in A |-> <<t - c[1], t - c[2]>>]
  <1>1. R = {<<t - c[1], t - c[2]>> : c \in S}
    <2>1. Global!ScanSide(radius) - 1 = t
      BY SquaresAre
    <2> HIDE DEF t
    <2> QED
      BY <2>1 DEF Global!Reversed
  <1>2. t \in Nat /\ S \subseteq (0 .. t) \X (0 .. t)
    OBVIOUS
  <1>3. ASSUME NEW c \in S
        PROVE  /\ c[1] \in Int /\ c[2] \in Int /\ c = <<c[1], c[2]>>
               /\ 0 <= c[1] /\ c[1] <= t /\ 0 <= c[2] /\ c[2] <= t
    <2> HIDE DEF t
    <2> QED
      BY <1>2
  <1>4. ASSUME NEW c \in S
        PROVE  <<(x - (t - c[1])) % n, (y - (t - c[2])) % m>> \in layer
                  <=> <<c[1] + (x - t), c[2] + (y - t)>> \in layer
    <2> DEFINE d == c[1] + (x - t)
               e == c[2] + (y - t)
    <2>1. /\ d \in Int /\ e \in Int /\ x - (t - c[1]) = d /\ y - (t - c[2]) = e
          /\ -(2 * radius) <= d /\ d < rows + 2 * radius /\ -(2 * radius) <= e /\ e < cols + 2 * radius
      BY <1>3
    <2> HIDE DEF d, e
    <2>2. /\ d \in 0 .. rows - 1 => d % n = d
          /\ d \notin 0 .. rows - 1 => d % n \notin 0 .. rows - 1
      BY <2>1, NothingWraps
    <2>3. /\ e \in 0 .. cols - 1 => e % m = e
          /\ e \notin 0 .. cols - 1 => e % m \notin 0 .. cols - 1
      BY <2>1, NothingWraps
    <2> DEFINE u == d % n
               v == e % m
               I == 0 .. rows - 1
               J == 0 .. cols - 1
    <2>4. /\ d \in I => u = d
          /\ d \notin I => u \notin I
          /\ e \in J => v = e
          /\ e \notin J => v \notin J
          /\ layer \subseteq I \X J
      BY <2>2, <2>3
    <2>5. <<u, v>> \in layer <=> <<d, e>> \in layer
      <3> HIDE DEF u, v, I, J
      <3>1. \A p, q : <<p, q>> \in layer => p \in I /\ q \in J
        BY <2>4
      <3> QED
        BY <2>4, <3>1
    <2> QED
      BY <2>1, <2>5 DEF d, e
  <1> HIDE DEF t
  <1>5. A \subseteq S /\ IsFiniteSet(A)
    <2>1. A \in SUBSET S
      BY DEF Falling
    <2> QED
      BY <2>1, FS_Subset
  <1>6. \A c \in A : f[c] \in B
    <2> TAKE c \in A
    <2>1. c \in S /\ <<c[1] + (x - t), c[2] + (y - t)>> \in layer
      BY DEF Falling
    <2>2. f[c] = <<t - c[1], t - c[2]>> /\ f[c] \in R
      BY <1>1, <2>1
    <2>3. f[c][1] = t - c[1] /\ f[c][2] = t - c[2]
      BY <2>2
    <2> QED
      BY <1>4, <2>1, <2>2, <2>3
  <1>7. f \in [A -> B]
    <2> HIDE DEF A, B
    <2> QED
      BY <1>6
  <1>8. \A a, b \in A : f[a] = f[b] => a = b
    <2> TAKE a, b \in A
    <2> HAVE f[a] = f[b]
    <2>1. a \in S /\ b \in S
      BY <1>5
    <2>2. t - a[1] = t - b[1] /\ t - a[2] = t - b[2]
      OBVIOUS
    <2>3. a[1] = b[1] /\ a[2] = b[2]
      <3>1. a[1] \in Int /\ a[2] \in Int /\ b[1] \in Int /\ b[2] \in Int
        BY <1>3, <2>1
      <3> HIDE DEF A, f
      <3> QED
        BY <1>2, <2>2, <3>1
    <2>4. a = <<a[1], a[2]>> /\ b = <<b[1], b[2]>>
      BY <1>3, <2>1
    <2> QED
      BY <2>3, <2>4
  <1>9. \A o \in B : \E s \in A : f[s] = o
    <2> TAKE o \in B
    <2>1. o \in R /\ <<(x - o[1]) % n, (y - o[2]) % m>> \in layer
      OBVIOUS
    <2>2. PICK c \in S : o = <<t - c[1], t - c[2]>>
      BY <1>1, <2>1
    <2>3. <<c[1] + (x - t), c[2] + (y - t)>> \in layer
      BY <1>4, <2>1, <2>2
    <2>4. c \in A
      BY <2>3 DEF Falling
    <2> QED
      BY <2>2, <2>4
  <1> HIDE DEF A, B, f
  <1>10. Cardinality(B) = Cardinality(A)
    BY <1>5, <1>7, <1>8, <1>9, SameSize
  <1> QED
    BY <1>10 DEF A, B, SameCount, t

LEMMA LayersAre ==
  ASSUME NEW k, Configured(k)
  PROVE  Global!LayerCount(k) \in Nat \ {0} /\ Global!Layers(k) = 1 .. Global!LayerCount(k)
  <1>1. Len(k.zLayers) \in Nat /\ Len(k.zLayers) > 1
    BY LenProperties DEF Configured
  <1>2. Global!LayerCount(k) = Len(k.zLayers) - 1
    BY DEF Global!LayerCount
  <1>3. Global!Layers(k) = 1 .. Global!LayerCount(k)
    BY DEF Global!Layers
  <1> DEFINE l == Len(k.zLayers)
  <1>4. l \in Nat /\ l > 1 => l - 1 \in Nat \ {0}
    <2> HIDE DEF l
    <2> QED
      OBVIOUS
  <1> QED
    BY <1>1, <1>2, <1>3, <1>4

\* The scores of a turn are numbers of cells on the map.
ScoresAre(k, grid, cells, turn) ==
  LET radius == Global!Radius(k, cells)
  IN  Global!Scores(k, grid, cells, turn) =
        [at \in (0 .. grid.rows + 2 * radius - 1) \X (0 .. grid.cols + 2 * radius - 1) |->
           Falls(k, grid, Spread(k, cells, turn), at[1] - 2 * radius, at[2] - 2 * radius)]

LEMMA ScoresAreFalls ==
  ASSUME NEW k, Configured(k), NEW cells, Celled(k, cells), NEW grid, Gridded(k, grid), NEW turn
  PROVE  ScoresAre(k, grid, cells, turn)
  <1> DEFINE radius == Global!Radius(k, cells)
             side == Global!ScanSide(radius)
             rows == grid.rows
             cols == grid.cols
             n == Global!Padded(rows, side)
             m == Global!Padded(cols, side)
             spread == Spread(k, cells, turn)
             reversed == [i \in Global!Layers(k) |-> Global!Reversed(Global!Rotated(cells[i], turn, radius), radius)]
             all == (0 .. rows + 2 * radius - 1) \X (0 .. cols + 2 * radius - 1)
  <1>1. radius \in Nat \ {0} /\ rows \in Nat \ {0} /\ cols \in Nat \ {0}
    BY RadiusBounds DEF Gridded
  <1>2. side = 2 * radius + 1
    BY DEF Global!ScanSide
  <1>3. n \in Nat /\ rows + 2 * radius <= n /\ m \in Nat /\ cols + 2 * radius <= m
    <2>1. rows + side - 1 = rows + 2 * radius /\ cols + side - 1 = cols + 2 * radius
          /\ rows + 2 * radius \in Nat \ {0} /\ cols + 2 * radius \in Nat \ {0}
      <3> HIDE DEF radius, side, rows, cols
      <3> QED
        BY <1>1, <1>2
    <2> DEFINE u == rows + 2 * radius
               v == cols + 2 * radius
    <2>2. n = Global!NextPowerOfTwo(u) /\ m = Global!NextPowerOfTwo(v)
      BY <2>1 DEF Global!Padded
    <2>3. u \in Nat \ {0} /\ v \in Nat \ {0}
      BY <2>1
    <2> HIDE DEF u, v
    <2>4. Global!NextPowerOfTwo(u) \in Nat /\ u <= Global!NextPowerOfTwo(u)
          /\ Global!NextPowerOfTwo(v) \in Nat /\ v <= Global!NextPowerOfTwo(v)
      BY <2>3, PowersCover
    <2> QED
      BY <2>2, <2>4 DEF u, v
  <1>4. rows + side - 2 = rows + 2 * radius - 1 /\ cols + side - 2 = cols + 2 * radius - 1
    <2> HIDE DEF radius, side, rows, cols
    <2> QED
      BY <1>1, <1>2
  <1>5. Global!Scores(k, grid, cells, turn) = [at \in all |-> Global!Correlation(k, grid, reversed, at, n, m)]
    BY <1>4 DEF Global!Scores
  <1>6. ASSUME NEW at \in all
        PROVE  Global!Correlation(k, grid, reversed, at, n, m)
                 = Falls(k, grid, spread, at[1] - 2 * radius, at[2] - 2 * radius)
    <2> DEFINE x == at[1]
               y == at[2]
               L(i) == {c \in reversed[i] : <<(x - c[1]) % n, (y - c[2]) % m>> \in grid.layers[i]}
               F(i) == Falling(spread[i], grid.layers[i], x - 2 * radius, y - 2 * radius)
    <2>1. x \in 0 .. rows + 2 * radius - 1 /\ y \in 0 .. cols + 2 * radius - 1
      OBVIOUS
    <2>2. ASSUME NEW i \in Global!Layers(k)
          PROVE  Global!Cardinality(L(i)) = Cardinality(F(i))
      <3> DEFINE S == spread[i]
                 layer == grid.layers[i]
      <3>1. S \in SUBSET ((0 .. 2 * radius) \X (0 .. 2 * radius)) /\ IsFiniteSet(S)
        <4>1. IsSpread(k, cells, spread)
          BY SpreadsAre
        <4> QED
          BY <4>1 DEF IsSpread
      <3>2. layer \in SUBSET ((0 .. rows - 1) \X (0 .. cols - 1))
        BY DEF Gridded
      <3>3. reversed[i] = Global!Reversed(S, radius)
        BY DEF Spread
      <3>4. L(i) = {c \in Global!Reversed(S, radius) : <<(x - c[1]) % n, (y - c[2]) % m>> \in layer}
        BY <3>3
      <3>5. SameCount(S, layer, radius, n, m, x, y)
        <4> HIDE DEF S, layer, radius, rows, cols, n, m, x, y
        <4> QED
          BY <1>1, <1>3, <2>1, <3>1, <3>2, LayerCounts
      <3>6. Cardinality(L(i)) = Cardinality(F(i))
        BY <3>4, <3>5 DEF SameCount
      <3> HIDE DEF L, F
      <3> QED
        BY <3>6, GlobalCounts
    <2>3. [i \in Global!Layers(k) |-> Global!Cardinality(L(i))] = [i \in Global!Layers(k) |-> Cardinality(F(i))]
      <3> HIDE DEF L, F
      <3> QED
        BY <2>2
    <2>4. Global!Correlation(k, grid, reversed, at, n, m) =
             Global!Total([i \in Global!Layers(k) |-> Global!Cardinality(L(i))], Global!LayerCount(k))
      BY DEF Global!Correlation
    <2>5. Falls(k, grid, spread, at[1] - 2 * radius, at[2] - 2 * radius) =
             Global!Total([i \in Global!Layers(k) |-> Cardinality(F(i))], Global!LayerCount(k))
      BY DEF Falls
    <2> HIDE DEF L, F
    <2> QED
      BY <2>3, <2>4, <2>5
  <1> HIDE DEF n, m, reversed
  <1> QED
    BY <1>5, <1>6 DEF ScoresAre

\* A number of cells on the map is never above the number of cells.
LEMMA FallsAreCounts ==
  ASSUME NEW k, Configured(k), NEW cells, NEW spread, IsSpread(k, cells, spread), NEW grid, NEW dx, NEW dy
  PROVE  /\ Falls(k, grid, spread, dx, dy) \in Nat /\ Global!Count(k, cells) \in Nat
         /\ Falls(k, grid, spread, dx, dy) <= Global!Count(k, cells)
  <1> DEFINE n == Global!LayerCount(k)
             f == [i \in Global!Layers(k) |-> Cardinality(Falling(spread[i], grid.layers[i], dx, dy))]
             g == [i \in Global!Layers(k) |-> Cardinality(cells[i])]
  <1>1. n \in Nat /\ Global!Layers(k) = 1 .. n
    BY LayersAre
  <1>2. ASSUME NEW i \in 1 .. n PROVE f[i] \in Nat /\ g[i] \in Nat /\ f[i] <= g[i]
    <2> DEFINE A == Falling(spread[i], grid.layers[i], dx, dy)
               B == spread[i]
               C == cells[i]
    <2>1. IsFiniteSet(B) /\ Cardinality(B) \in Nat /\ Cardinality(C) \in Nat /\ Cardinality(B) <= Cardinality(C)
      BY <1>1 DEF IsSpread
    <2>2. A \in SUBSET B
      BY DEF Falling
    <2>3. f[i] = Cardinality(A) /\ g[i] = Cardinality(C)
      BY <1>1
    <2> HIDE DEF A, B, C, f, g
    <2>4. IsFiniteSet(A) /\ Cardinality(A) <= Cardinality(B)
      BY <2>1, <2>2, FS_Subset
    <2>5. Cardinality(A) \in Nat
      BY <2>4, FS_CardinalityType
    <2> QED
      BY <2>1, <2>3, <2>4, <2>5
  <1>3. g = [i \in Global!Layers(k) |-> Global!Cardinality(cells[i])]
    BY GlobalCounts
  <1>4. Global!Count(k, cells) = Global!Total(g, n)
    BY <1>3 DEF Global!Count
  <1>5. Falls(k, grid, spread, dx, dy) = Global!Total(f, n)
    BY DEF Falls
  <1> HIDE DEF f, g, n
  <1> QED
    BY <1>1, <1>2, <1>4, <1>5, TotalsGrow

\* Moved off the map, no cell falls on it.
LEMMA NothingFallsOutside ==
  ASSUME NEW k, Configured(k), NEW cells, NEW spread, IsSpread(k, cells, spread), NEW grid, Gridded(k, grid),
         Celled(k, cells), NEW dx \in Int, NEW dy \in Int,
         LET side == 2 * Global!Radius(k, cells)
         IN  dx + side \notin 0 .. grid.rows + side - 1 \/ dy + side \notin 0 .. grid.cols + side - 1,
         NEW anyX, NEW anyY
  PROVE  Falls(k, grid, spread, dx, dy) <= Falls(k, grid, spread, anyX, anyY)
  <1> DEFINE n == Global!LayerCount(k)
             f == [i \in Global!Layers(k) |-> Cardinality(Falling(spread[i], grid.layers[i], dx, dy))]
             g == [i \in Global!Layers(k) |-> Cardinality(Falling(spread[i], grid.layers[i], anyX, anyY))]
             side == 2 * Global!Radius(k, cells)
             rows == grid.rows
             cols == grid.cols
  <1>1. n \in Nat /\ Global!Layers(k) = 1 .. n
    BY LayersAre
  <1>2. side \in Nat \ {0} /\ rows \in Nat \ {0} /\ cols \in Nat \ {0}
    <2>1. Global!Radius(k, cells) \in Nat \ {0}
      BY RadiusBounds
    <2> QED
      BY <2>1 DEF Gridded
  <1>3. dx + side \notin 0 .. rows + side - 1 \/ dy + side \notin 0 .. cols + side - 1
    OBVIOUS
  <1>4. \A i \in Global!Layers(k) : spread[i] \subseteq (0 .. side) \X (0 .. side) /\ IsFiniteSet(spread[i])
    BY DEF IsSpread
  <1>5. \A i \in Global!Layers(k) : grid.layers[i] \subseteq (0 .. rows - 1) \X (0 .. cols - 1)
    BY DEF Gridded
  <1> HIDE DEF side, rows, cols
  <1>6. ASSUME NEW i \in Global!Layers(k), NEW c \in spread[i]
        PROVE  <<c[1] + dx, c[2] + dy>> \notin grid.layers[i]
    <2>1. c[1] \in 0 .. side /\ c[2] \in 0 .. side
      BY <1>4
    <2>2. ~ (c[1] + dx \in 0 .. rows - 1 /\ c[2] + dy \in 0 .. cols - 1)
      BY <1>2, <1>3, <2>1
    <2> QED
      BY <1>5, <2>2
  <1>7. ASSUME NEW i \in 1 .. n PROVE f[i] \in Nat /\ g[i] \in Nat /\ f[i] <= g[i]
    <2> DEFINE A == Falling(spread[i], grid.layers[i], dx, dy)
               B == Falling(spread[i], grid.layers[i], anyX, anyY)
    <2>1. IsFiniteSet(spread[i]) /\ B \in SUBSET spread[i]
      BY <1>1, <1>4 DEF Falling
    <2>2. A = {}
      BY <1>1, <1>6 DEF Falling
    <2>3. f[i] = Cardinality(A) /\ g[i] = Cardinality(B)
      BY <1>1
    <2> HIDE DEF A, B, f, g
    <2>4. Cardinality(A) = 0
      BY <2>2, FS_EmptySet
    <2>5. IsFiniteSet(B)
      BY <2>1, FS_Subset
    <2>6. Cardinality(B) \in Nat
      BY <2>5, FS_CardinalityType
    <2> QED
      BY <2>3, <2>4, <2>6
  <1>8. Falls(k, grid, spread, dx, dy) = Global!Total(f, n)
    BY DEF Falls
  <1>9. Falls(k, grid, spread, anyX, anyY) = Global!Total(g, n)
    BY DEF Falls
  <1> HIDE DEF f, g, n
  <1> QED
    BY <1>1, <1>7, <1>8, <1>9, TotalsGrow

\* The overlap of a scan at a pose.
LEMMA OverlapsAreFalls ==
  ASSUME NEW k, Configured(k), NEW scan, Celled(k, Global!ScanCells(k, scan)), NEW grid, Gridded(k, grid),
         NEW pose, pose.x \in Int, pose.y \in Int
  PROVE  LET cells == Global!ScanCells(k, scan)
             radius == Global!Radius(k, cells)
         IN  Global!Overlap(k, grid, scan, pose) =
               Falls(k, grid, Spread(k, cells, pose.yaw), pose.x - grid.ox - radius, pose.y - grid.oy - radius)
  <1> DEFINE cells == Global!ScanCells(k, scan)
             radius == Global!Radius(k, cells)
             spread == Spread(k, cells, pose.yaw)
             dx == pose.x - grid.ox - radius
             dy == pose.y - grid.oy - radius
             L(i) == {c \in Global!Rotated(cells[i], pose.yaw, radius) :
                        <<c[1] - radius + pose.x - grid.ox, c[2] - radius + pose.y - grid.oy>> \in grid.layers[i]}
             F(i) == Falling(spread[i], grid.layers[i], dx, dy)
  <1>1. radius \in Nat \ {0}
    BY RadiusBounds
  <1>2. IsSpread(k, cells, spread)
    BY SpreadsAre
  <1>3. ASSUME NEW i \in Global!Layers(k)
        PROVE  Global!Cardinality(L(i)) = Cardinality(F(i))
    <2>1. spread[i] = Global!Rotated(cells[i], pose.yaw, radius)
      BY DEF Spread
    <2>2. ASSUME NEW c \in spread[i]
          PROVE  c[1] - radius + pose.x - grid.ox = c[1] + dx /\ c[2] - radius + pose.y - grid.oy = c[2] + dy
      <3>1. c \in (0 .. 2 * radius) \X (0 .. 2 * radius)
        BY <1>2 DEF IsSpread
      <3>2. c[1] \in Int /\ c[2] \in Int
        BY <3>1
      <3>3. grid.ox \in Int /\ grid.oy \in Int
        BY DEF Gridded
      <3> HIDE DEF radius
      <3> QED
        BY <1>1, <3>2, <3>3
    <2> HIDE DEF dx, dy, spread
    <2>3. L(i) = F(i)
      BY <2>1, <2>2 DEF Falling
    <2> HIDE DEF L, F
    <2> QED
      BY <2>3, GlobalCounts
  <1>4. Global!Overlap(k, grid, scan, pose) = Global!Total([i \in Global!Layers(k) |-> Global!Cardinality(L(i))], Global!LayerCount(k))
    BY DEF Global!Overlap
  <1>5. Falls(k, grid, spread, dx, dy) =
           Global!Total([i \in Global!Layers(k) |-> Cardinality(F(i))], Global!LayerCount(k))
    BY DEF Falls
  <1> HIDE DEF L, F
  <1> QED
    BY <1>3, <1>4, <1>5

\* No more turned cells fall on the map than cells of the scan do.
LEMMA MatchingIsMore ==
  ASSUME NEW k, Configured(k), NEW scan, Celled(k, Global!ScanCells(k, scan)), NEW grid, NEW pose
  PROVE  Global!Overlap(k, grid, scan, pose) <= Global!Matching(k, grid, scan, pose)
  <1> DEFINE cells == Global!ScanCells(k, scan)
             radius == Global!Radius(k, cells)
             n == Global!LayerCount(k)
             On(i, c) == <<c[1] - radius + pose.x - grid.ox, c[2] - radius + pose.y - grid.oy>> \in grid.layers[i]
             at(c) == Global!Turned(c, pose.yaw, radius)
             A(i) == {c \in Global!Rotated(cells[i], pose.yaw, radius) : On(i, c)}
             B(i) == {c \in cells[i] : On(i, at(c))}
             f == [i \in Global!Layers(k) |-> Global!Cardinality(A(i))]
             g == [i \in Global!Layers(k) |-> Global!Cardinality(B(i))]
  <1>1. n \in Nat /\ Global!Layers(k) = 1 .. n
    BY LayersAre
  <1>2. ASSUME NEW i \in 1 .. n PROVE f[i] \in Nat /\ g[i] \in Nat /\ f[i] <= g[i]
    <2> DEFINE h == [c \in B(i) |-> at(c)]
               T == {h[c] : c \in B(i)}
    <2>1. IsFiniteSet(B(i))
      <3>1. IsFiniteSet(cells[i]) /\ B(i) \in SUBSET cells[i]
        BY <1>1 DEF Celled
      <3> QED
        BY <3>1, FS_Subset
    <2>2. A(i) \in SUBSET T
      <3>1. ASSUME NEW c \in A(i) PROVE c \in T
        <4>1. PICK e \in cells[i] : c = at(e)
          BY DEF Global!Rotated
        <4>2. e \in B(i) /\ h[e] = c
          BY <4>1
        <4> QED
          BY <4>2
      <3> QED
        BY <3>1
    <2>3. f[i] = Cardinality(A(i)) /\ g[i] = Cardinality(B(i))
      BY <1>1, GlobalCounts
    <2>4. h = [c \in B(i) |-> h[c]]
      OBVIOUS
    <2> HIDE DEF A, B, f, g, h
    <2>5. IsFiniteSet(T) /\ Cardinality(T) \in Nat /\ Cardinality(B(i)) \in Nat /\ Cardinality(T) <= Cardinality(B(i))
      BY <2>1, <2>4, ImagesAreFewer
    <2> HIDE DEF T
    <2>6. IsFiniteSet(A(i)) /\ Cardinality(A(i)) <= Cardinality(T)
      BY <2>2, <2>5, FS_Subset
    <2>7. Cardinality(A(i)) \in Nat
      BY <2>6, FS_CardinalityType
    <2> QED
      BY <2>3, <2>5, <2>6, <2>7
  <1>3. Global!Overlap(k, grid, scan, pose) = Global!Total(f, n)
    BY DEF Global!Overlap
  <1>4. Global!Matching(k, grid, scan, pose) = Global!Total(g, n)
    BY DEF Global!Matching
  <1> HIDE DEF f, g, n
  <1> QED
    BY <1>1, <1>2, <1>3, <1>4, TotalsGrow

LEMMA PointsAre ==
  /\ \A p \in PointSpace : p.x \in Int /\ p.y \in Int /\ p.z \in Int
  /\ \A a, b, c \in Int : [x |-> a, y |-> b, z |-> c] \in PointSpace
  BY DEF PointSpace

LEMMA Roundings ==
  ASSUME NEW q \in Int
  PROVE  /\ Global!Round(q) \in Int /\ q \div Global!Quarters \in Int /\ Global!Ceil(q) \in Int
         /\ 4 * (q \div Global!Quarters) <= q /\ q < 4 * (q \div Global!Quarters) + 4
         /\ q <= 4 * Global!Ceil(q)
         /\ 4 * Global!Round(q) <= q + 2 /\ q - 2 <= 4 * Global!Round(q)
  <1> DEFINE f == q \div 4
             h == (q + 2) \div 4
             l == (2 - q) \div 4
             c == (-q) \div 4
  <1>1. f \in Int /\ 4 * f <= q /\ q < 4 * f + 4
    OBVIOUS
  <1>2. h \in Int /\ 4 * h <= q + 2 /\ q + 2 < 4 * h + 4
    OBVIOUS
  <1>3. l \in Int /\ 4 * l <= 2 - q /\ 2 - q < 4 * l + 4
    OBVIOUS
  <1>4. c \in Int /\ 4 * c <= -q
    OBVIOUS
  <1>5. Global!Round(q) = IF q >= 0 THEN h ELSE -l
    BY DEF Global!Round, Global!Quarters
  <1>6. Global!Ceil(q) = -c /\ q \div Global!Quarters = f
    BY DEF Global!Ceil, Global!Quarters
  <1> HIDE DEF f, h, l, c
  <1> QED
    BY <1>1, <1>2, <1>3, <1>4, <1>5, <1>6

LEMMA ScansAreCelled ==
  ASSUME NEW k, NEW scan \in SUBSET PointSpace, IsFiniteSet(scan)
  PROVE  Celled(k, Global!ScanCells(k, scan))
  <1> SUFFICES ASSUME NEW i \in Global!Layers(k)
               PROVE  Global!ScanCells(k, scan)[i] \subseteq Pairs /\ IsFiniteSet(Global!ScanCells(k, scan)[i])
    BY DEF Celled
  <1> DEFINE in == {q \in scan : i \in Global!FindLayer(k, q.z)}
             f == [p \in in |-> <<Global!Round(p.x), Global!Round(p.y)>>]
  <1>1. Global!ScanCells(k, scan)[i] = {<<Global!Round(p.x), Global!Round(p.y)>> : p \in in}
    BY DEF Global!ScanCells
  <1>2. in \subseteq scan /\ IsFiniteSet(in)
    <2>1. in \in SUBSET scan
      OBVIOUS
    <2> QED
      BY <2>1, FS_Subset
  <1>3. IsFiniteSet({f[p] : p \in in})
    <2>1. f = [p \in in |-> f[p]]
      OBVIOUS
    <2> HIDE DEF f, in
    <2> QED
      BY <1>2, <2>1, ImagesAreFinite
  <1>4. {f[p] : p \in in} = {<<Global!Round(p.x), Global!Round(p.y)>> : p \in in}
    <2> HIDE DEF in
    <2> QED
      OBVIOUS
  <1>5. \A p \in in : <<Global!Round(p.x), Global!Round(p.y)>> \in Pairs
    <2>1. \A p \in scan : p.x \in Int /\ p.y \in Int
      BY PointsAre
    <2> QED
      BY <1>2, <2>1, Roundings DEF Pairs
  <1> HIDE DEF in, f
  <1> QED
    BY <1>1, <1>3, <1>4, <1>5

\* The bounds of a map's grid.
LEMMA MapsAreGridded ==
  ASSUME NEW k, Configured(k), NEW map \in SUBSET PointSpace, IsFiniteSet(map),
         \E p \in map : Global!FindLayer(k, p.z) # {}
  PROVE  LET grid == Global!MapGrid(k, map)
         IN  /\ Gridded(k, grid)
             /\ \A p \in map : Global!FindLayer(k, p.z) # {} =>
                  /\ p.x \div Global!Quarters - grid.ox \in 1 .. grid.rows - 2
                  /\ p.y \div Global!Quarters - grid.oy \in 1 .. grid.cols - 2
             /\ \A i \in Global!Layers(k) : grid.layers[i] =
                  Global!Dilated({<<p.x \div Global!Quarters - grid.ox, p.y \div Global!Quarters - grid.oy>> :
                                    p \in {q \in map : i \in Global!FindLayer(k, q.z)}}, grid.rows, grid.cols)
  <1> DEFINE used == {p \in map : Global!FindLayer(k, p.z) # {}}
             fx == [p \in used |-> p.x]
             fy == [p \in used |-> p.y]
             X == {p.x : p \in used}
             Y == {p.y : p \in used}
             ox == Global!Smallest(X) \div Global!Quarters - k.margin
             oy == Global!Smallest(Y) \div Global!Quarters - k.margin
             rows == Global!Ceil(Global!Largest(X) - Global!Quarters * ox) + k.margin + 1
             cols == Global!Ceil(Global!Largest(Y) - Global!Quarters * oy) + k.margin + 1
             Raw(i) == {<<p.x \div Global!Quarters - ox, p.y \div Global!Quarters - oy>> :
                          p \in {q \in used : i \in Global!FindLayer(k, q.z)}}
             CellsOf(i) == {c \in Raw(i) : c[1] \in 0 .. rows - 1 /\ c[2] \in 0 .. cols - 1}
             grid == Global!MapGrid(k, map)
  <1>1. grid = [ox |-> ox, oy |-> oy, rows |-> rows, cols |-> cols,
                layers |-> [i \in Global!Layers(k) |-> Global!Dilated(CellsOf(i), rows, cols)]]
    BY DEF Global!MapGrid
  <1>2. used \in SUBSET PointSpace /\ IsFiniteSet(used) /\ used # {}
    <2>1. used \in SUBSET map
      OBVIOUS
    <2> QED
      BY <2>1, FS_Subset
  <1>3. IsFiniteSet(X) /\ X \in SUBSET Int /\ X # {}
    <2> HIDE DEF used
    <2>1. fx = [p \in used |-> fx[p]] /\ X = {fx[p] : p \in used}
      OBVIOUS
    <2>2. X \in SUBSET Int /\ X # {}
      BY <1>2, PointsAre
    <2> HIDE DEF fx, X
    <2> QED
      BY <1>2, <2>1, <2>2, ImagesAreFinite
  <1>4. IsFiniteSet(Y) /\ Y \in SUBSET Int /\ Y # {}
    <2> HIDE DEF used
    <2>1. fy = [p \in used |-> fy[p]] /\ Y = {fy[p] : p \in used}
      OBVIOUS
    <2>2. Y \in SUBSET Int /\ Y # {}
      BY <1>2, PointsAre
    <2> HIDE DEF fy, Y
    <2> QED
      BY <1>2, <2>1, <2>2, ImagesAreFinite
  <1>5. k.margin \in Nat \ {0}
    BY DEF Configured
  <1>6. ASSUME NEW Z \in SUBSET Int, IsFiniteSet(Z), Z # {}, NEW z \in Z
        PROVE  LET o == Global!Smallest(Z) \div Global!Quarters - k.margin
                   r == Global!Ceil(Global!Largest(Z) - Global!Quarters * o) + k.margin + 1
               IN  o \in Int /\ r \in Nat \ {0} /\ z \div Global!Quarters - o \in 1 .. r - 2
    <2> DEFINE lo == Global!Smallest(Z)
               hi == Global!Largest(Z)
               m == k.margin
               a == lo \div Global!Quarters
               b == z \div Global!Quarters
               o == a - m
               d == hi - Global!Quarters * o
               e == Global!Ceil(d)
               r == e + m + 1
    <2>1. lo \in Int /\ hi \in Int /\ lo <= z /\ z <= hi /\ z \in Int
      BY <1>6, ExtremesExist
    <2> HIDE DEF lo, hi
    <2>2. a \in Int /\ 4 * a <= lo /\ lo < 4 * a + 4 /\ b \in Int /\ 4 * b <= z /\ z < 4 * b + 4
      BY <2>1, Roundings
    <2> HIDE DEF a, b
    <2>3. d = hi - 4 * o /\ d \in Int /\ o \in Int /\ m \in Nat \ {0}
      BY <1>5, <2>1, <2>2 DEF Global!Quarters
    <2> HIDE DEF d
    <2>4. e \in Int /\ d <= 4 * e
      BY <2>3, Roundings
    <2> HIDE DEF e, m
    <2>5. a <= b
      BY <2>1, <2>2
    <2>6. b - o >= 1
      BY <2>2, <2>3, <2>5
    <2>7. 4 * b <= 4 * o + 4 * e
      BY <2>1, <2>2, <2>3, <2>4
    <2>8. b - o <= e
      BY <2>2, <2>3, <2>4, <2>7
    <2>9. o \in Int /\ r \in Nat \ {0} /\ b - o \in 1 .. r - 2
      BY <2>2, <2>3, <2>4, <2>6, <2>8
    <2> QED
      BY <2>9 DEF lo, hi, a, b, d, e, m
  <1>7. ASSUME NEW p \in used
        PROVE  /\ ox \in Int /\ rows \in Nat \ {0} /\ p.x \div Global!Quarters - ox \in 1 .. rows - 2
               /\ oy \in Int /\ cols \in Nat \ {0} /\ p.y \div Global!Quarters - oy \in 1 .. cols - 2
    <2>1. p.x \in X /\ p.y \in Y
      OBVIOUS
    <2> HIDE DEF X, Y
    <2> QED
      BY <1>3, <1>4, <1>6, <2>1
  <1>8. ASSUME NEW i
        PROVE  CellsOf(i) = {<<p.x \div Global!Quarters - ox, p.y \div Global!Quarters - oy>> :
                               p \in {q \in map : i \in Global!FindLayer(k, q.z)}}
    <2>1. {q \in used : i \in Global!FindLayer(k, q.z)} = {q \in map : i \in Global!FindLayer(k, q.z)}
      OBVIOUS
    <2>2. ASSUME NEW c \in Raw(i) PROVE c[1] \in 0 .. rows - 1 /\ c[2] \in 0 .. cols - 1
      <3>1. PICK p \in used : c = <<p.x \div Global!Quarters - ox, p.y \div Global!Quarters - oy>>
        OBVIOUS
      <3>2. c[1] = p.x \div Global!Quarters - ox /\ c[2] = p.y \div Global!Quarters - oy
        BY <3>1
      <3>3. \A r \in Nat : \A v \in 1 .. r - 2 : v \in 0 .. r - 1
        OBVIOUS
      <3>4. c[1] \in 1 .. rows - 2 /\ c[2] \in 1 .. cols - 2 /\ rows \in Nat /\ cols \in Nat
        BY <1>7, <3>2
      <3> HIDE DEF rows, cols
      <3> QED
        BY <3>3, <3>4
    <2> HIDE DEF Raw
    <2>3. CellsOf(i) = Raw(i)
      BY <2>2
    <2> HIDE DEF CellsOf, used
    <2> QED
      BY <2>1, <2>3 DEF Raw
  <1>9. ASSUME NEW S, NEW r \in Nat, NEW c \in Nat
        PROVE  Global!Dilated(S, r, c) \subseteq (0 .. r - 1) \X (0 .. c - 1)
    BY DEF Global!Dilated
  <1>10. ox \in Int /\ oy \in Int /\ rows \in Nat \ {0} /\ cols \in Nat \ {0}
    BY <1>2, <1>7
  <1> HIDE DEF ox, oy, rows, cols, CellsOf, grid
  <1>11. /\ grid.ox = ox /\ grid.oy = oy /\ grid.rows = rows /\ grid.cols = cols
         /\ \A i \in Global!Layers(k) : grid.layers[i] = Global!Dilated(CellsOf(i), rows, cols)
    BY <1>1
  <1>12. Gridded(k, grid)
    BY <1>9, <1>10, <1>11 DEF Gridded
  <1>13. \A p \in map : Global!FindLayer(k, p.z) # {} => p \in used
    OBVIOUS
  <1> HIDE DEF used
  <1>14. \A p \in map : Global!FindLayer(k, p.z) # {} =>
                  /\ p.x \div Global!Quarters - grid.ox \in 1 .. grid.rows - 2
                  /\ p.y \div Global!Quarters - grid.oy \in 1 .. grid.cols - 2
    BY <1>7, <1>11, <1>13
  <1>15. \A i \in Global!Layers(k) : grid.layers[i] =
                  Global!Dilated({<<p.x \div Global!Quarters - grid.ox, p.y \div Global!Quarters - grid.oy>> :
                                    p \in {q \in map : i \in Global!FindLayer(k, q.z)}}, grid.rows, grid.cols)
    <2> TAKE i \in Global!Layers(k)
    <2>1. grid.layers[i] = Global!Dilated(CellsOf(i), rows, cols)
      BY <1>11
    <2> QED
      BY <1>8, <1>11, <2>1
  <1> QED
    BY <1>12, <1>14, <1>15 DEF grid

-----------------------------------------------------------------------------
(* The peaks of a turn, and one of them is its best offset.                *)

LEMMA BestOffsetIsBest ==
  ASSUME NEW a \in Nat, NEW b \in Nat, NEW score \in [(0 .. a) \X (0 .. b) -> Nat],
         NEW open \in SUBSET DOMAIN score, open # {}
  PROVE  /\ Global!BestOffset(score, open) \in open
         /\ \A at \in open : score[at] <= score[Global!BestOffset(score, open)]
  <1> DEFINE scores == {score[at] : at \in open}
             top == Global!Largest(scores)
             best == {at \in open : score[at] = top}
             First(at) == \A c \in best : at[1] < c[1] \/ (at[1] = c[1] /\ at[2] <= c[2])
  <1>1. open \subseteq (0 .. a) \X (0 .. b) /\ IsFiniteSet(open)
    <2>1. IsFiniteSet(0 .. a) /\ IsFiniteSet(0 .. b)
      BY FS_Interval
    <2>2. IsFiniteSet((0 .. a) \X (0 .. b))
      BY <2>1, FS_Product
    <2>3. open \in SUBSET ((0 .. a) \X (0 .. b))
      OBVIOUS
    <2> QED
      BY <2>2, <2>3, FS_Subset
  <1>2. scores \in SUBSET Int /\ scores # {}
    BY <1>1
  <1>3. IsFiniteSet(scores)
    <2> DEFINE f == [at \in open |-> score[at]]
    <2>1. f = [at \in open |-> f[at]] /\ scores = {f[at] : at \in open}
      OBVIOUS
    <2> HIDE DEF f, scores
    <2> QED
      BY <1>1, <2>1, ImagesAreFinite
  <1>4. top \in scores /\ \A v \in scores : v <= top
    <2> HIDE DEF scores
    <2> QED
      BY <1>2, <1>3, ExtremesExist
  <1>5. best # {} /\ best \subseteq (0 .. a) \X (0 .. b)
    <2> HIDE DEF top
    <2> QED
      BY <1>1, <1>4
  <1>6. \E at \in best : First(at)
    <2> HIDE DEF best
    <2> DEFINE X == {at[1] : at \in best}
    <2>1. X \in SUBSET Nat /\ X # {}
      BY <1>5
    <2>2. PICK x \in X : \A c \in X : x <= c
      <3> HIDE DEF X
      <3> QED
        BY <2>1, LeastExists
    <2> DEFINE row == {at \in best : at[1] = x}
               Y == {at[2] : at \in row}
    <2>3. Y \in SUBSET Nat /\ Y # {}
      BY <1>5
    <2>4. PICK y \in Y : \A c \in Y : y <= c
      <3> HIDE DEF Y
      <3> QED
        BY <2>3, LeastExists
    <2>5. PICK at \in best : at[1] = x /\ at[2] = y
      OBVIOUS
    <2>6. ASSUME NEW c \in best PROVE at[1] < c[1] \/ (at[1] = c[1] /\ at[2] <= c[2])
      <3>1. c[1] \in Nat /\ x \in Nat /\ c[1] \in X
        BY <1>5, <2>1
      <3>2. x <= c[1]
        BY <2>2, <3>1
      <3>3. CASE x = c[1]
        <4>1. c[2] \in Y
          BY <3>3
        <4> QED
          BY <2>4, <2>5, <3>3, <4>1
      <3>4. CASE x # c[1]
        BY <2>5, <3>1, <3>2, <3>4
      <3> QED
        BY <3>3, <3>4
    <2> QED
      BY <2>6
  <1>7. Global!BestOffset(score, open) = CHOOSE at \in best : First(at)
    BY DEF Global!BestOffset
  <1>8. Global!BestOffset(score, open) \in best
    <2> HIDE DEF best, First
    <2> QED
      BY <1>6, <1>7
  <1>9. \A at \in open : score[at] <= top
    <2>1. \A at \in open : score[at] \in scores
      OBVIOUS
    <2> HIDE DEF scores, top
    <2> QED
      BY <1>4, <2>1
  <1> HIDE DEF top
  <1> QED
    BY <1>8, <1>9

LEMMA PeaksHoldTheBest ==
  ASSUME NEW k, Configured(k), NEW a \in Nat, NEW b \in Nat, NEW score \in [(0 .. a) \X (0 .. b) -> Nat]
  PROVE  /\ Global!Peaks(k, score) \in SUBSET DOMAIN score /\ IsFiniteSet(Global!Peaks(k, score))
         /\ \E p \in Global!Peaks(k, score) : \A at \in DOMAIN score : score[at] <= score[p]
  <1> DEFINE n == k.peaksPerYaw
             D == DOMAIN score
             V == SUBSET D
             Next(v) == Global!WithNextPeak(k, score, v)
             Loop(r) == [i \in 0 .. n |-> IF i = 0 THEN {} ELSE Next(r[i - 1])]
             h == CHOOSE r : r = Loop(r)
             step == [p \in (1 .. n) \X V |-> Next(p[2])]
  <1>1. n \in Nat \ {0}
    BY DEF Configured
  <1>2. Global!Peaks(k, score) = h[n]
    BY DEF Global!Peaks
  <1>3. ASSUME NEW v \in V
        PROVE  /\ Next(v) \in V /\ v \subseteq Next(v)
               /\ v = {} => \E p \in Next(v) : \A at \in D : score[at] <= score[p]
    <2> DEFINE open == Global!Unsuppressed(k, score, v)
               best == Global!BestOffset(score, open)
    <2>1. open \in SUBSET D /\ Next(v) = IF open = {} THEN v ELSE v \cup {best}
      BY DEF Global!Unsuppressed, Global!WithNextPeak
    <2>2. open # {} => best \in open /\ \A at \in open : score[at] <= score[best]
      <3> HIDE DEF open
      <3> QED
        BY <2>1, BestOffsetIsBest
    <2>3. v = {} => open = D /\ D # {}
      <3>1. <<0, 0>> \in D
        OBVIOUS
      <3> QED
        BY <3>1 DEF Global!Unsuppressed
    <2> HIDE DEF open, best, Next, D
    <2> QED
      BY <2>1, <2>2, <2>3
  <1>4. {} \in V /\ step \in [(1 .. n) \X V -> V] /\ \A i \in 1 .. n : \A v \in V : step[<<i, v>>] = Next(v)
    <2> HIDE DEF V, Next, n
    <2>1. {} \in V
      BY DEF V
    <2> QED
      BY <1>3, <2>1
  <1> HIDE DEF step, Next, V, n
  <1>5. PICK f : Loops(f, n, V, {}, step)
    BY <1>1, <1>4, Recursion
  <1>6. f = Loop(f)
    <2>1. f = [i \in 0 .. n |-> f[i]] /\ f[0] = {} /\ \A i \in 1 .. n : f[i] = step[<<i, f[i - 1]>>]
      BY <1>5 DEF Loops
    <2>2. \A i \in 1 .. n : f[i - 1] \in V
      BY <1>1, <1>5 DEF Loops
    <2>3. \A i \in 1 .. n : f[i] = Next(f[i - 1])
      BY <1>4, <2>1, <2>2
    <2>4. \A i \in 0 .. n : i = 0 \/ i \in 1 .. n
      BY <1>1
    <2> QED
      BY <2>1, <2>3, <2>4
  <1>7. h = Loop(h)
    <2> HIDE DEF Loop
    <2> QED
      BY <1>6
  <1> HIDE DEF h
  <1>8. h = [i \in 0 .. n |-> h[i]] /\ h[0] = {} /\ \A i \in 1 .. n : h[i] = Next(h[i - 1])
    <2>1. h = [i \in 0 .. n |-> IF i = 0 THEN {} ELSE Next(h[i - 1])]
      BY <1>7
    <2>2. \A i \in 0 .. n : h[i] = IF i = 0 THEN {} ELSE Next(h[i - 1])
      BY <2>1
    <2>3. 0 \in 0 .. n /\ \A i \in 1 .. n : i \in 0 .. n /\ i # 0
      BY <1>1
    <2>4. h[0] = {} /\ \A i \in 1 .. n : h[i] = Next(h[i - 1])
      BY <2>2, <2>3
    <2>5. h = [i \in 0 .. n |-> h[i]]
      BY <2>1
    <2> QED
      BY <2>4, <2>5
  <1>9. Loops(h, n, V, {}, step)
    <2>1. \A i \in 1 .. n : h[i - 1] \in V => h[i] = step[<<i, h[i - 1]>>]
      BY <1>4, <1>8
    <2> QED
      BY <1>1, <1>4, <1>8, <2>1, LoopRuns
  <1>10. \A i \in 0 .. n : h[i] \in V
    BY <1>9 DEF Loops
  <1> DEFINE P == {i \in 0 .. n : i = 0 \/ \E p \in h[i] : \A at \in D : score[at] <= score[p]}
  <1>11. 0 .. n \subseteq P
    <2>1. 0 \in P
      BY <1>1
    <2>2. ASSUME NEW i \in 0 .. n, i # n, i \in P
          PROVE  i + 1 \in P
      <3>1. i + 1 \in 1 .. n /\ (i + 1) - 1 = i /\ i + 1 \in 0 .. n
        BY <1>1, <2>2
      <3>2. h[i + 1] = Next(h[i]) /\ h[i] \in V
        BY <1>8, <1>10, <3>1
      <3>3. i = 0 => h[i] = {}
        BY <1>8
      <3> QED
        BY <1>3, <2>2, <3>1, <3>2, <3>3
    <2> HIDE DEF P
    <2> QED
      BY <1>1, <2>1, <2>2, Induction
  <1>12. h[n] \in V /\ \E p \in h[n] : \A at \in D : score[at] <= score[p]
    BY <1>1, <1>10, <1>11
  <1>13. IsFiniteSet(D)
    <2>1. IsFiniteSet(0 .. a) /\ IsFiniteSet(0 .. b)
      BY FS_Interval
    <2>2. IsFiniteSet((0 .. a) \X (0 .. b))
      BY <2>1, FS_Product
    <2> QED
      BY <2>2
  <1>14. IsFiniteSet(h[n]) /\ h[n] \in SUBSET D
    BY <1>12, <1>13, FS_Subset DEF V
  <1> QED
    BY <1>2, <1>12, <1>14

-----------------------------------------------------------------------------
(* The list of candidates.                                                 *)
LEMMA YawsAreSymmetric ==
  ASSUME NEW t \in Turns, NEW u \in Turns
  PROVE  Global!NormalizedYawDistance(t, u) = Global!NormalizedYawDistance(u, t)
  <1> DEFINE a == t.deg
             b == u.deg
             d == (a - b) % 360
             e == (b - a) % 360
             p == (a - b) \div 360
             q == (b - a) \div 360
  <1>1. a \in Int /\ b \in Int
    BY TurnsAre
  <1>2. \A x \in Int : x = 360 * (x \div 360) + (x % 360) /\ x \div 360 \in Int /\ x % 360 \in 0 .. 359
    OBVIOUS
  <1>3. a - b \in Int /\ b - a \in Int
    BY <1>1
  <1>4. a - b = 360 * p + d /\ p \in Int /\ d \in 0 .. 359 /\ b - a = 360 * q + e /\ q \in Int /\ e \in 0 .. 359
    BY <1>2, <1>3
  <1>5. Global!NormalizedYawDistance(t, u) = IF d <= 180 THEN d ELSE 360 - d
    BY DEF Global!NormalizedYawDistance
  <1>6. Global!NormalizedYawDistance(u, t) = IF e <= 180 THEN e ELSE 360 - e
    BY DEF Global!NormalizedYawDistance
  <1> HIDE DEF a, b, d, e, p, q
  <1>7. d + e = 0 \/ d + e = 360
    <2>1. PICK r \in Int : r = -(p + q)
      BY <1>4
    <2>2. d + e = 360 * r
      BY <1>1, <1>4, <2>1
    <2>3. d \in Int /\ e \in Int /\ 0 <= d + e /\ d + e <= 718
      BY <1>4
    <2>4. r = 0 \/ r = 1
      BY <2>1, <2>2, <2>3
    <2> QED
      BY <2>2, <2>4
  <1>8. d \in Int /\ e \in Int /\ 0 <= d /\ 0 <= e
    BY <1>4
  <1>9. (IF d <= 180 THEN d ELSE 360 - d) = (IF e <= 180 THEN e ELSE 360 - e)
    <2>1. CASE d + e = 0
      <3>1. d = e
        BY <1>8, <2>1
      <3> QED
        BY <3>1
    <2>2. CASE d + e = 360
      <3>1. e = 360 - d
        BY <1>8, <2>2
      <3> QED
        BY <1>8, <3>1
    <2> QED
      BY <1>7, <2>1, <2>2
  <1> QED
    BY <1>5, <1>6, <1>9

LEMMA NearIsSymmetric ==
  ASSUME NEW k, NEW a, NEW b, a.x \in Int, a.y \in Int, b.x \in Int, b.y \in Int, a.yaw \in Turns, b.yaw \in Turns,
         Global!Near(k, a, b)
  PROVE  Global!Near(k, b, a)
  <1>1. \A u, v \in Int : (u - v) * (u - v) = (v - u) * (v - u)
    OBVIOUS
  <1>2. (a.x - b.x) * (a.x - b.x) = (b.x - a.x) * (b.x - a.x) /\ (a.y - b.y) * (a.y - b.y) = (b.y - a.y) * (b.y - a.y)
    BY <1>1
  <1>3. Global!NormalizedYawDistance(a.yaw, b.yaw) = Global!NormalizedYawDistance(b.yaw, a.yaw)
    BY YawsAreSymmetric
  <1> QED
    BY <1>2, <1>3 DEF Global!Near

\* Candidates have scores and places.
Scored(raw) == \A c \in raw : c.score \in Nat /\ c.x \in Int /\ c.y \in Int /\ c.yaw \in Turns

LEMMA TopsExist ==
  ASSUME NEW S, IsFiniteSet(S), S # {}, Scored(S)
  PROVE  \E c \in S : \A o \in S : o.score <= c.score
  <1> DEFINE f == [c \in S |-> c.score]
             T == {f[c] : c \in S}
  <1>1. IsFiniteSet(T)
    <2>1. f = [c \in S |-> f[c]]
      OBVIOUS
    <2> HIDE DEF f
    <2> QED
      BY <2>1, ImagesAreFinite
  <1>2. \A c \in S : f[c] = c.score /\ c.score \in Nat
    BY DEF Scored
  <1>3. T \in SUBSET Int /\ T # {}
    BY <1>2
  <1>4. Global!Largest(T) \in T /\ \A v \in T : v <= Global!Largest(T)
    <2> HIDE DEF T
    <2> QED
      BY <1>1, <1>3, ExtremesExist
  <1>5. \A c \in S : f[c] \in T
    OBVIOUS
  <1>6. PICK c \in S : Global!Largest(T) = f[c]
    BY <1>4
  <1> HIDE DEF f, T
  <1> QED
    BY <1>2, <1>4, <1>5, <1>6

\* The list so far: its order, and what is left to be considered.
Listed(k, raw, s) ==
  /\ s.left \in SUBSET raw /\ s.kept \in Seq(raw) /\ Len(s.kept) <= k.topK
  /\ \A i, j \in 1 .. Len(s.kept) : i < j => s.kept[j].score <= s.kept[i].score /\ ~ Global!Near(k, s.kept[i], s.kept[j])
  /\ \A c \in s.left : \A j \in 1 .. Len(s.kept) : c.score <= s.kept[j].score
  /\ s.kept = <<>> => s.left = raw
  /\ s.kept # <<>> => \A c \in raw : c.score <= s.kept[1].score

LEMMA ConsideredIsListed ==
  ASSUME NEW k, Configured(k), NEW raw, IsFiniteSet(raw), raw # {}, Scored(raw), NEW s, Listed(k, raw, s)
  PROVE  Listed(k, raw, Global!Considered(k, s)) /\ Global!Considered(k, s).kept # <<>>
  <1> DEFINE t == Global!Considered(k, s)
             best == CHOOSE c \in s.left : \A o \in s.left : o.score <= c.score
             near == \E j \in DOMAIN s.kept : Global!Near(k, best, s.kept[j])
             n == Len(s.kept)
  <1>1. t = IF s.left = {} \/ n >= k.topK THEN s
            ELSE [left |-> s.left \ {best}, kept |-> IF near THEN s.kept ELSE Append(s.kept, best)]
    BY DEF Global!Considered
  <1>2. k.topK \in Nat \ {0}
    BY DEF Configured
  <1>3. s.left \in SUBSET raw /\ s.kept \in Seq(raw) /\ n \in Nat /\ DOMAIN s.kept = 1 .. n
        /\ \A i \in 1 .. n : s.kept[i] \in raw
    <2>1. s.left \in SUBSET raw /\ s.kept \in Seq(raw)
      BY DEF Listed
    <2> QED
      BY <2>1, LenProperties, ElementOfSeq
  <1>4. CASE s.left = {} \/ n >= k.topK
    <2>1. t = s
      BY <1>1, <1>4
    <2>2. s.kept # <<>>
      <3>1. CASE s.left = {}
        BY <3>1 DEF Listed
      <3>2. CASE n >= k.topK
        <4>1. n # 0
          BY <1>2, <1>3, <3>2
        <4> QED
          BY <4>1, EmptySeq
      <3> QED
        BY <1>4, <3>1, <3>2
    <2> QED
      BY <2>1, <2>2
  <1>5. CASE ~ (s.left = {} \/ n >= k.topK)
    <2>1. best \in s.left /\ \A o \in s.left : o.score <= best.score
      <3>1. IsFiniteSet(s.left) /\ Scored(s.left) /\ s.left # {}
        BY <1>3, <1>5, FS_Subset DEF Scored
      <3>2. \E c \in s.left : \A o \in s.left : o.score <= c.score
        BY <3>1, TopsExist
      <3> QED
        BY <3>2
    <2> HIDE DEF best
    <2>2. best \in raw /\ best.score \in Nat /\ best.x \in Int /\ best.y \in Int /\ best.yaw \in Turns
      BY <1>3, <2>1 DEF Scored
    <2>3. CASE near
      <3>1. t = [left |-> s.left \ {best}, kept |-> s.kept]
        BY <1>1, <1>5, <2>3
      <3>2. t.left = s.left \ {best} /\ t.kept = s.kept
        BY <3>1
      <3>3. s.kept # <<>>
        <4>1. \E j \in 1 .. n : TRUE
          BY <1>3, <2>3
        <4>2. n # 0
          BY <4>1
        <4> QED
          BY <4>2, EmptySeq
      <3> HIDE DEF near
      <3> QED
        BY <3>2, <3>3 DEF Listed
    <2>4. CASE ~ near
      <3>1. t = [left |-> s.left \ {best}, kept |-> Append(s.kept, best)]
        BY <1>1, <1>5, <2>4
      <3>2. t.left = s.left \ {best} /\ t.kept = Append(s.kept, best)
        BY <3>1
      <3> DEFINE kept == Append(s.kept, best)
      <3>3. /\ kept \in Seq(raw) /\ Len(kept) = n + 1 /\ kept # <<>>
            /\ \A i \in 1 .. n : kept[i] = s.kept[i]
            /\ kept[n + 1] = best
        <4>1. kept \in Seq(raw) /\ Len(kept) = n + 1
              /\ (\A i \in 1 .. n : kept[i] = s.kept[i]) /\ kept[n + 1] = best
          BY <1>3, <2>2, AppendProperties
        <4>2. kept # <<>>
          <5>1. n + 1 # 0
            BY <1>3
          <5> QED
            BY <4>1, <5>1, EmptySeq
        <4> QED
          BY <4>1, <4>2
      <3> HIDE DEF kept
      <3>4. n + 1 <= k.topK
        BY <1>2, <1>3, <1>5
      <3>5. ASSUME NEW i \in 1 .. n PROVE best.score <= s.kept[i].score /\ ~ Global!Near(k, s.kept[i], best)
        <4>1. best.score <= s.kept[i].score
          BY <2>1 DEF Listed
        <4>2. s.kept[i].x \in Int /\ s.kept[i].y \in Int /\ s.kept[i].yaw \in Turns
          BY <1>3 DEF Scored
        <4>3. ~ Global!Near(k, best, s.kept[i])
          BY <1>3, <2>4
        <4>4. ~ Global!Near(k, s.kept[i], best)
          BY <2>2, <4>2, <4>3, NearIsSymmetric
        <4> QED
          BY <4>1, <4>4
      <3>6. \A i, j \in 1 .. n + 1 : i < j => kept[j].score <= kept[i].score /\ ~ Global!Near(k, kept[i], kept[j])
        <4> TAKE i, j \in 1 .. n + 1
        <4> HAVE i < j
        <4>1. i \in 1 .. n /\ (j \in 1 .. n \/ j = n + 1)
          BY <1>3
        <4>2. CASE j \in 1 .. n
          BY <3>3, <4>1, <4>2 DEF Listed
        <4>3. CASE j = n + 1
          BY <3>3, <3>5, <4>1, <4>3
        <4> QED
          BY <4>1, <4>2, <4>3
      <3>7. \A c \in s.left : \A j \in 1 .. n + 1 : c.score <= kept[j].score
        <4> TAKE c \in s.left
        <4> TAKE j \in 1 .. n + 1
        <4>1. j \in 1 .. n \/ j = n + 1
          BY <1>3
        <4>2. CASE j \in 1 .. n
          BY <3>3, <4>2 DEF Listed
        <4>3. CASE j = n + 1
          BY <2>1, <3>3, <4>3
        <4> QED
          BY <4>1, <4>2, <4>3
      <3>8. \A c \in raw : c.score <= kept[1].score
        <4>1. CASE s.kept = <<>>
          <5>1. n = 0
            BY <4>1, EmptySeq
          <5>2. s.left = raw /\ kept[1] = best
            BY <3>3, <4>1, <5>1 DEF Listed
          <5> QED
            BY <2>1, <5>2
        <4>2. CASE s.kept # <<>>
          <5>1. n # 0
            BY <4>2, <1>3, EmptySeq
          <5>2. kept[1] = s.kept[1]
            BY <1>3, <3>3, <5>1
          <5> QED
            BY <4>2, <5>2 DEF Listed
        <4> QED
          BY <4>1, <4>2
      <3>9. s.left \ {best} \in SUBSET raw
        BY <1>3
      <3> QED
        BY <3>2, <3>3, <3>4, <3>6, <3>7, <3>8, <3>9 DEF Listed
    <2> QED
      BY <2>3, <2>4
  <1> QED
    BY <1>4, <1>5

\* The list of any set of candidates.
LEMMA KeptIsListed ==
  ASSUME NEW k, Configured(k), NEW raw, IsFiniteSet(raw), raw # {}, Scored(raw)
  PROVE  LET kept == Global!Kept(k, raw)
         IN  /\ kept \in Seq(raw) /\ kept # <<>> /\ Len(kept) <= k.topK
             /\ \A i, j \in 1 .. Len(kept) : i < j => kept[j].score <= kept[i].score /\ ~ Global!Near(k, kept[i], kept[j])
             /\ \A c \in raw : c.score <= kept[1].score
  <1> DEFINE n == Cardinality(raw)
             base == [left |-> raw, kept |-> <<>>]
             V == {s \in [left : SUBSET raw, kept : Seq(raw)] : Listed(k, raw, s)}
             Next(v) == Global!Considered(k, v)
             Loop(r) == [i \in 0 .. n |-> IF i = 0 THEN base ELSE Next(r[i - 1])]
             h == CHOOSE r : r = Loop(r)
             step == [p \in (1 .. n) \X V |-> Next(p[2])]
  <1>1. n \in Nat \ {0}
    BY FS_CardinalityType, FS_EmptySet
  <1>2. Global!Kept(k, raw) = h[n].kept
    BY GlobalCounts DEF Global!Kept
  <1>3. ASSUME NEW v \in V PROVE Next(v) \in V /\ Next(v).kept # <<>>
    <2>1. v \in [left : SUBSET raw, kept : Seq(raw)] /\ Listed(k, raw, v)
      OBVIOUS
    <2>2. Listed(k, raw, Next(v)) /\ Next(v).kept # <<>>
      BY <2>1, ConsideredIsListed
    <2>3. Next(v) = [left |-> Next(v).left, kept |-> Next(v).kept]
      <3>1. v = [left |-> v.left, kept |-> v.kept]
        BY <2>1
      <3> QED
        BY <3>1 DEF Global!Considered
    <2>4. Next(v).left \in SUBSET raw /\ Next(v).kept \in Seq(raw)
      BY <2>2 DEF Listed
    <2> HIDE DEF Next
    <2>5. Next(v) \in [left : SUBSET raw, kept : Seq(raw)]
      BY <2>3, <2>4
    <2> QED
      BY <2>2, <2>5
  <1>4. base \in V
    <2>1. base.left = raw /\ base.kept = <<>> /\ <<>> \in Seq(raw) /\ Len(<<>>) = 0
      BY EmptySeq
    <2>2. k.topK \in Nat
      BY DEF Configured
    <2>3. base \in [left : SUBSET raw, kept : Seq(raw)]
      BY <2>1
    <2>4. Listed(k, raw, base)
      <3> HIDE DEF base
      <3>1. Len(base.kept) = 0 /\ 1 .. Len(base.kept) = {}
        BY <2>1
      <3> QED
        BY <2>1, <2>2, <3>1 DEF Listed
    <2> HIDE DEF base
    <2> QED
      BY <2>3, <2>4
  <1>5. step \in [(1 .. n) \X V -> V] /\ \A i \in 1 .. n : \A v \in V : step[<<i, v>>] = Next(v)
    <2> HIDE DEF V, Next, n
    <2> QED
      BY <1>3
  <1> HIDE DEF step, Next, V, n, base
  <1>6. PICK f : Loops(f, n, V, base, step)
    BY <1>1, <1>4, <1>5, Recursion
  <1>7. f = Loop(f)
    <2>1. f = [i \in 0 .. n |-> f[i]] /\ f[0] = base /\ \A i \in 1 .. n : f[i] = step[<<i, f[i - 1]>>]
      BY <1>6 DEF Loops
    <2>2. \A i \in 1 .. n : f[i - 1] \in V
      BY <1>1, <1>6 DEF Loops
    <2>3. \A i \in 1 .. n : f[i] = Next(f[i - 1])
      BY <1>5, <2>1, <2>2
    <2>4. \A i \in 0 .. n : i = 0 \/ i \in 1 .. n
      BY <1>1
    <2> QED
      BY <2>1, <2>3, <2>4
  <1>8. h = Loop(h)
    <2> HIDE DEF Loop
    <2> QED
      BY <1>7
  <1> HIDE DEF h
  <1>9. h = [i \in 0 .. n |-> h[i]] /\ h[0] = base /\ \A i \in 1 .. n : h[i] = Next(h[i - 1])
    <2>1. h = [i \in 0 .. n |-> IF i = 0 THEN base ELSE Next(h[i - 1])]
      BY <1>8
    <2>2. \A i \in 0 .. n : h[i] = IF i = 0 THEN base ELSE Next(h[i - 1])
      BY <2>1
    <2>3. 0 \in 0 .. n /\ \A i \in 1 .. n : i \in 0 .. n /\ i # 0
      BY <1>1
    <2>4. h[0] = base /\ \A i \in 1 .. n : h[i] = Next(h[i - 1])
      BY <2>2, <2>3
    <2>5. h = [i \in 0 .. n |-> h[i]]
      BY <2>1
    <2> QED
      BY <2>4, <2>5
  <1>10. Loops(h, n, V, base, step)
    <2>1. \A i \in 1 .. n : h[i - 1] \in V => h[i] = step[<<i, h[i - 1]>>]
      BY <1>5, <1>9
    <2> QED
      BY <1>1, <1>4, <1>5, <1>9, <2>1, LoopRuns
  <1>11. \A i \in 0 .. n : h[i] \in V
    BY <1>10 DEF Loops
  <1>12. h[n] \in V /\ h[n].kept # <<>>
    <2>1. n \in 1 .. n /\ n - 1 \in 0 .. n /\ n \in 0 .. n
      BY <1>1
    <2>2. h[n] = Next(h[n - 1]) /\ h[n - 1] \in V /\ h[n] \in V
      BY <1>9, <1>11, <2>1
    <2> QED
      BY <1>3, <2>2
  <1>13. Listed(k, raw, h[n])
    BY <1>12 DEF V
  <1> QED
    BY <1>2, <1>12, <1>13 DEF Listed

-----------------------------------------------------------------------------
(* What search() compares.                                                 *)

\* The candidates of a turn have their overlaps as scores, and the best
\* overlap of the turn is among them.
LEMMA YawCandidatesAre ==
  ASSUME NEW k, Configured(k), NEW cells, Celled(k, cells), NEW grid, Gridded(k, grid), NEW turn \in Turns
  PROVE  LET some == Global!YawCandidates(k, grid, cells, turn)
             R == Global!Radius(k, cells)
             spread == Spread(k, cells, turn)
         IN  /\ IsFiniteSet(some) /\ Scored(some)
             /\ \A c \in some : c.yaw = turn /\ c.score = Falls(k, grid, spread, c.x - grid.ox - R, c.y - grid.oy - R)
             /\ \A dx, dy \in Int : \E c \in some : Falls(k, grid, spread, dx, dy) <= c.score
  <1> DEFINE R == Global!Radius(k, cells)
             s == 2 * R
             a == grid.rows + s - 1
             b == grid.cols + s - 1
             D == (0 .. a) \X (0 .. b)
             spread == Spread(k, cells, turn)
             F(dx, dy) == Falls(k, grid, spread, dx, dy)
             score == Global!Scores(k, grid, cells, turn)
             peaks == Global!Peaks(k, score)
             C(p) == Global!Candidate(k, grid, cells, turn, score, p)
             some == Global!YawCandidates(k, grid, cells, turn)
  <1>1. R \in Nat \ {0} /\ grid.rows \in Nat \ {0} /\ grid.cols \in Nat \ {0} /\ grid.ox \in Int /\ grid.oy \in Int
    BY RadiusBounds DEF Gridded
  <1>2. a \in Nat /\ b \in Nat /\ s \in Nat
    <2> HIDE DEF R
    <2> QED
      BY <1>1
  <1>3. score = [at \in D |-> F(at[1] - s, at[2] - s)]
    <2>1. ScoresAre(k, grid, cells, turn)
      BY ScoresAreFalls
    <2> QED
      BY <2>1 DEF ScoresAre
  <1>4. IsSpread(k, cells, spread)
    BY SpreadsAre
  <1> HIDE DEF spread
  <1>5. \A dx, dy : F(dx, dy) \in Nat
    BY <1>4, FallsAreCounts
  <1> HIDE DEF F, score
  <1>6. score \in [D -> Nat] /\ DOMAIN score = D /\ \A at \in D : score[at] = F(at[1] - s, at[2] - s)
    BY <1>3, <1>5
  <1>7. /\ peaks \in SUBSET D /\ IsFiniteSet(peaks)
        /\ \E p \in peaks : \A at \in D : score[at] <= score[p]
    <2> HIDE DEF a, b
    <2> QED
      BY <1>2, <1>6, PeaksHoldTheBest
  <1> HIDE DEF peaks
  <1>8. some = {C(p) : p \in peaks}
    BY DEF Global!YawCandidates, score, peaks
  <1>9. ASSUME NEW p \in D
        PROVE  /\ C(p).score = score[p] /\ C(p).yaw = turn /\ C(p).x \in Int /\ C(p).y \in Int
               /\ C(p).x - grid.ox - R = p[1] - s /\ C(p).y - grid.oy - R = p[2] - s
    <2> DEFINE x == grid.ox + p[1] - (Global!ScanSide(R) - 1) + R
               y == grid.oy + p[2] - (Global!ScanSide(R) - 1) + R
    <2>1. C(p) = [score |-> score[p], yaw |-> turn, x |-> x, y |-> y]
      BY DEF Global!Candidate
    <2> HIDE DEF R
    <2>2. p[1] \in Int /\ p[2] \in Int
      BY <1>2
    <2>3. Global!ScanSide(R) - 1 = s
      BY <1>1, SquaresAre
    <2>4. x \in Int /\ y \in Int /\ x - grid.ox - R = p[1] - s /\ y - grid.oy - R = p[2] - s
      BY <1>1, <2>2, <2>3
    <2> HIDE DEF x, y, C
    <2> QED
      BY <2>1, <2>4
  <1> HIDE DEF R
  <1>10. IsFiniteSet(some)
    <2> DEFINE f == [p \in peaks |-> C(p)]
    <2>1. f = [p \in peaks |-> f[p]] /\ some = {f[p] : p \in peaks}
      BY <1>8
    <2> HIDE DEF f
    <2> QED
      BY <1>7, <2>1, ImagesAreFinite
  <1> HIDE DEF C, some, D
  <1>11. \A c \in some : \E p \in D : c = C(p)
    BY <1>7, <1>8
  <1>12. Scored(some)
    BY <1>6, <1>9, <1>11 DEF Scored
  <1>13. \A c \in some : c.yaw = turn /\ c.score = F(c.x - grid.ox - R, c.y - grid.oy - R)
    <2> TAKE c \in some
    <2>1. PICK p \in D : c = C(p)
      BY <1>11
    <2>2. c.score = score[p] /\ c.yaw = turn /\ c.x - grid.ox - R = p[1] - s /\ c.y - grid.oy - R = p[2] - s
      BY <1>9, <2>1
    <2> QED
      BY <1>6, <2>2
  <1>14. PICK p \in peaks : \A at \in D : score[at] <= score[p]
    BY <1>7
  <1>15. C(p) \in some /\ C(p).score = score[p] /\ p \in D
    BY <1>7, <1>8, <1>9
  <1>16. ASSUME NEW dx \in Int, NEW dy \in Int PROVE F(dx, dy) <= score[p]
    <2>1. CASE dx + s \in 0 .. a /\ dy + s \in 0 .. b
      <3> DEFINE at == <<dx + s, dy + s>>
      <3>1. at \in D /\ at[1] - s = dx /\ at[2] - s = dy
        <4> HIDE DEF a, b, s
        <4> QED
          BY <1>2, <2>1 DEF D
      <3>2. score[at] = F(dx, dy)
        BY <1>6, <3>1
      <3> HIDE DEF at
      <3> QED
        BY <1>14, <3>1, <3>2
    <2>2. CASE ~ (dx + s \in 0 .. a /\ dy + s \in 0 .. b)
      <3>1. F(dx, dy) <= F(p[1] - s, p[2] - s)
        BY <1>4, <2>2, NothingFallsOutside DEF F, R
      <3> QED
        BY <1>6, <1>15, <3>1
    <2> QED
      BY <2>1, <2>2
  <1>17. \A dx, dy \in Int : \E c \in some : F(dx, dy) <= c.score
    BY <1>15, <1>16
  <1> QED
    BY <1>10, <1>12, <1>13, <1>17 DEF F, some, R, spread

\* The candidates of all turns.
LEMMA CandidatesAre ==
  ASSUME NEW k, Configured(k), NEW cells, Celled(k, cells), NEW grid, Gridded(k, grid)
  PROVE  LET raw == UNION {Global!YawCandidates(k, grid, cells, turn) : turn \in k.turns}
             R == Global!Radius(k, cells)
         IN  /\ IsFiniteSet(raw) /\ raw # {} /\ Scored(raw)
             /\ \A c \in raw : c.yaw \in k.turns
                  /\ c.score = Falls(k, grid, Spread(k, cells, c.yaw), c.x - grid.ox - R, c.y - grid.oy - R)
             /\ \A dx, dy \in Int : \A turn \in k.turns :
                  \E c \in raw : Falls(k, grid, Spread(k, cells, turn), dx, dy) <= c.score
  <1> DEFINE f == [turn \in k.turns |-> Global!YawCandidates(k, grid, cells, turn)]
             S == {f[turn] : turn \in k.turns}
             R == Global!Radius(k, cells)
             raw == UNION {Global!YawCandidates(k, grid, cells, turn) : turn \in k.turns}
  <1>1. raw = UNION S
    OBVIOUS
  <1>2. IsFiniteSet(k.turns) /\ k.turns # {} /\ k.turns \subseteq Turns
    BY DEF Configured
  <1>3. IsFiniteSet(S)
    <2>1. f = [turn \in k.turns |-> f[turn]]
      OBVIOUS
    <2> HIDE DEF f
    <2> QED
      BY <1>2, <2>1, ImagesAreFinite
  <1>4. \A T \in S : IsFiniteSet(T)
    <2>1. ASSUME NEW turn \in k.turns PROVE IsFiniteSet(Global!YawCandidates(k, grid, cells, turn))
      <3>1. turn \in Turns
        BY <1>2
      <3> QED
        BY <3>1, YawCandidatesAre
    <2> QED
      BY <2>1
  <1>5. IsFiniteSet(raw)
    <2> HIDE DEF S, raw
    <2> QED
      BY <1>1, <1>3, <1>4, FS_UNION
  <1>6. \A c \in raw : \E turn \in k.turns : c \in Global!YawCandidates(k, grid, cells, turn)
    OBVIOUS
  <1>7. \A turn \in k.turns : \A c \in Global!YawCandidates(k, grid, cells, turn) : c \in raw
    OBVIOUS
  <1> HIDE DEF raw, R
  <1>8. ASSUME NEW turn \in k.turns
        PROVE  /\ \A c \in Global!YawCandidates(k, grid, cells, turn) :
                    /\ c.score \in Nat /\ c.x \in Int /\ c.y \in Int /\ c.yaw = turn
                    /\ c.score = Falls(k, grid, Spread(k, cells, turn), c.x - grid.ox - R, c.y - grid.oy - R)
               /\ \A dx, dy \in Int : \E c \in Global!YawCandidates(k, grid, cells, turn) :
                    Falls(k, grid, Spread(k, cells, turn), dx, dy) <= c.score
    BY <1>2, YawCandidatesAre DEF Scored, R
  <1>9. \A dx, dy \in Int : \A turn \in k.turns :
          \E c \in raw : Falls(k, grid, Spread(k, cells, turn), dx, dy) <= c.score
    BY <1>7, <1>8
  <1>10. raw # {}
    BY <1>2, <1>9
  <1>11. ASSUME NEW c \in raw
         PROVE  /\ c.score \in Nat /\ c.x \in Int /\ c.y \in Int /\ c.yaw \in k.turns /\ c.yaw \in Turns
                /\ c.score = Falls(k, grid, Spread(k, cells, c.yaw), c.x - grid.ox - R, c.y - grid.oy - R)
    <2>1. PICK turn \in k.turns : c \in Global!YawCandidates(k, grid, cells, turn)
      BY <1>6
    <2> QED
      BY <1>2, <1>8, <2>1
  <1>12. Scored(raw)
    BY <1>11 DEF Scored
  <1> QED
    BY <1>5, <1>9, <1>10, <1>11, <1>12 DEF raw, R

\* What search() returns.
LEMMA SearchFinds ==
  ASSUME NEW k, Configured(k), NEW scan, Celled(k, Global!ScanCells(k, scan)), NEW grid, Gridded(k, grid)
  PROVE  LET found == Global!Search(k, grid, scan)
             cells == Global!ScanCells(k, scan)
             count == Global!Count(k, cells)
         IN  /\ Global!ScoresAreOverlaps(k, grid, scan, found)
             /\ Global!CandidatesAreBest(k, grid, scan, found)
             /\ \A x, y \in Int : \A turn \in k.turns :
                  Falls(k, grid, Spread(k, cells, turn), x, y) = count /\ count >= k.minCells
                    => found # <<>> /\ found[1].score = count
  <1> DEFINE cells == Global!ScanCells(k, scan)
             count == Global!Count(k, cells)
             raw == UNION {Global!YawCandidates(k, grid, cells, turn) : turn \in k.turns}
             kept == Global!Kept(k, raw)
             found == Global!Search(k, grid, scan)
             scores == {c.score : c \in raw}
             top == Global!Largest(scores)
             F(turn, dx, dy) == Falls(k, grid, Spread(k, cells, turn), dx, dy)
             R == Global!Radius(k, cells)
  <1>1. found = IF count < k.minCells THEN <<>> ELSE IF 100 * top < k.threshold * count THEN <<>> ELSE kept
    BY DEF Global!Search
  <1>2. k.minCells \in Nat \ {0} /\ k.threshold \in 0 .. 100 /\ k.topK \in Nat \ {0}
    BY DEF Configured
  <1>3. /\ IsFiniteSet(raw) /\ raw # {} /\ Scored(raw)
        /\ \A c \in raw : c.yaw \in k.turns /\ c.score = F(c.yaw, c.x - grid.ox - R, c.y - grid.oy - R)
        /\ \A dx, dy \in Int : \A turn \in k.turns : \E c \in raw : F(turn, dx, dy) <= c.score
    BY CandidatesAre
  <1>4. \A dx, dy, turn : F(turn, dx, dy) \in Nat /\ count \in Nat /\ F(turn, dx, dy) <= count
    BY SpreadsAre, FallsAreCounts
  <1>5. grid.ox \in Int /\ grid.oy \in Int /\ R \in Int
    BY RadiusBounds DEF Gridded
  <1> HIDE DEF raw, F, cells, count, R
  <1>6. /\ kept \in Seq(raw) /\ kept # <<>> /\ Len(kept) <= k.topK
        /\ \A i, j \in 1 .. Len(kept) : i < j => kept[j].score <= kept[i].score /\ ~ Global!Near(k, kept[i], kept[j])
        /\ \A c \in raw : c.score <= kept[1].score
    BY <1>3, KeptIsListed
  <1>7. Len(kept) \in Nat \ {0} /\ DOMAIN kept = 1 .. Len(kept) /\ \A j \in 1 .. Len(kept) : kept[j] \in raw
    <2>1. Len(kept) \in Nat /\ DOMAIN kept = 1 .. Len(kept) /\ Len(kept) # 0
      BY <1>6, LenProperties, EmptySeq
    <2> QED
      BY <1>6, <2>1, ElementOfSeq
  <1>8. \A c \in raw : c.score \in Nat /\ c.x \in Int /\ c.y \in Int /\ c.yaw \in k.turns
    BY <1>3 DEF Scored
  <1>9. top \in scores /\ \A c \in raw : c.score <= top
    <2>1. scores \in SUBSET Int /\ scores # {}
      BY <1>3, <1>8
    <2>2. IsFiniteSet(scores)
      <3> DEFINE f == [c \in raw |-> c.score]
      <3>1. f = [c \in raw |-> f[c]] /\ scores = {f[c] : c \in raw}
        OBVIOUS
      <3> HIDE DEF f, scores
      <3> QED
        BY <1>3, <3>1, ImagesAreFinite
    <2>3. \A c \in raw : c.score \in scores
      OBVIOUS
    <2> HIDE DEF scores
    <2> QED
      BY <2>1, <2>2, <2>3, ExtremesExist
  <1>10. found = <<>> \/ found = kept
    BY <1>1
  <1> HIDE DEF kept
  <1>11. ASSUME NEW pose, pose.x \in Int, pose.y \in Int
         PROVE  Global!Overlap(k, grid, scan, pose) = F(pose.yaw, pose.x - grid.ox - R, pose.y - grid.oy - R)
    BY <1>11, OverlapsAreFalls DEF F, cells, R
  <1>12. DOMAIN <<>> = {} /\ Len(<<>>) = 0
    BY EmptySeq, LenProperties
  <1>13. ASSUME found = kept
         PROVE  /\ Global!ScoresAreOverlaps(k, grid, scan, found)
                /\ Global!CandidatesAreBest(k, grid, scan, found)
    <2>1. Global!ScoresAreOverlaps(k, grid, scan, kept)
      <3>1. \A j \in DOMAIN kept : kept[j].score = Global!Overlap(k, grid, scan, kept[j])
        BY <1>3, <1>7, <1>8, <1>11
      <3>2. \A j \in DOMAIN kept : Global!Overlap(k, grid, scan, kept[j]) <= Global!Matching(k, grid, scan, kept[j])
        BY MatchingIsMore
      <3> QED
        BY <3>1, <3>2 DEF Global!ScoresAreOverlaps
    <2>2. ASSUME NEW x \in Int, NEW y \in Int, NEW turn \in k.turns
          PROVE  Global!Overlap(k, grid, scan, [x |-> x, y |-> y, yaw |-> turn]) <= kept[1].score
      <3> DEFINE pose == [x |-> x, y |-> y, yaw |-> turn]
      <3>1. pose.x = x /\ pose.y = y /\ pose.yaw = turn
        OBVIOUS
      <3> HIDE DEF pose
      <3>2. Global!Overlap(k, grid, scan, pose) = F(turn, x - grid.ox - R, y - grid.oy - R)
        BY <1>11, <3>1
      <3>3. x - grid.ox - R \in Int /\ y - grid.oy - R \in Int
        BY <1>5
      <3>4. PICK c \in raw : F(turn, x - grid.ox - R, y - grid.oy - R) <= c.score
        BY <1>3, <3>3
      <3>5. c.score <= kept[1].score /\ c.score \in Nat /\ kept[1].score \in Nat
        BY <1>6, <1>7, <1>8
      <3>6. F(turn, x - grid.ox - R, y - grid.oy - R) <= kept[1].score
        BY <1>4, <3>4, <3>5
      <3> QED
        BY <3>2, <3>6 DEF pose
    <2> DEFINE reach == Global!Radius(k, Global!ScanCells(k, scan)) + grid.rows + grid.cols
               xs == grid.ox - reach .. grid.ox + reach
               ys == grid.oy - reach .. grid.oy + reach
    <2>3. xs \subseteq Int /\ ys \subseteq Int
      OBVIOUS
    <2>4. Global!CandidatesAreBest(k, grid, scan, kept) <=>
            /\ Len(kept) <= k.topK
            /\ \A i, j \in DOMAIN kept : i < j => kept[j].score <= kept[i].score /\ ~ Global!Near(k, kept[i], kept[j])
            /\ kept # <<>> => \A x \in xs, y \in ys, turn \in k.turns :
                 Global!Overlap(k, grid, scan, [x |-> x, y |-> y, yaw |-> turn]) <= kept[1].score
      BY DEF Global!CandidatesAreBest
    <2> HIDE DEF xs, ys
    <2>5. \A x \in xs, y \in ys, turn \in k.turns :
             Global!Overlap(k, grid, scan, [x |-> x, y |-> y, yaw |-> turn]) <= kept[1].score
      BY <2>2, <2>3
    <2>6. Global!CandidatesAreBest(k, grid, scan, kept)
      BY <1>6, <1>7, <2>4, <2>5
    <2> QED
      BY <1>13, <2>1, <2>6
  <1>14. ASSUME found = <<>>
         PROVE  /\ Global!ScoresAreOverlaps(k, grid, scan, found)
                /\ Global!CandidatesAreBest(k, grid, scan, found)
    <2>1. Global!ScoresAreOverlaps(k, grid, scan, <<>>) /\ Global!CandidatesAreBest(k, grid, scan, <<>>)
      BY <1>2, <1>12 DEF Global!ScoresAreOverlaps, Global!CandidatesAreBest
    <2> QED
      BY <1>14, <2>1
  <1>15. ASSUME NEW x \in Int, NEW y \in Int, NEW turn \in k.turns, F(turn, x, y) = count, count >= k.minCells
         PROVE  found # <<>> /\ found[1].score = count
    <2>1. PICK c \in raw : count <= c.score
      BY <1>3, <1>15
    <2>2. \A d \in raw : d.score <= count
      BY <1>3, <1>4
    <2>3. top = count
      <3>1. PICK d \in raw : top = d.score
        BY <1>9
      <3>2. c.score <= top /\ top <= count /\ count <= c.score /\ count \in Nat /\ c.score \in Nat /\ top \in Nat
        BY <1>4, <1>8, <1>9, <2>1, <2>2, <3>1
      <3> HIDE DEF top
      <3> QED
        BY <3>2
    <2>4. k.threshold * count <= 100 * count
      <3> DEFINE t == k.threshold
      <3>1. \A u \in 0 .. 100, v \in Nat : u * v <= 100 * v
        BY ProductsGrow
      <3> QED
        BY <1>2, <1>4, <3>1
    <2>5. k.threshold * count \in Int
      <3>1. \A u, v \in Int : u * v \in Int
        OBVIOUS
      <3>2. k.threshold \in Int /\ count \in Int
        BY <1>2, <1>4
      <3> QED
        BY <3>1, <3>2
    <2>6. ~ (100 * top < k.threshold * count) /\ ~ (count < k.minCells)
      <3> HIDE DEF top
      <3> QED
        BY <1>2, <1>4, <1>15, <2>3, <2>4, <2>5
    <2>7. found = kept
      <3> HIDE DEF top, found
      <3> QED
        BY <1>1, <2>6
    <2>8. kept[1] \in raw
      BY <1>7
    <2>9. kept[1].score \in Nat /\ c.score <= kept[1].score /\ kept[1].score <= count /\ c.score \in Nat
      BY <1>6, <1>8, <2>2, <2>8
    <2>10. kept[1].score = count
      BY <1>4, <2>1, <2>9
    <2> HIDE DEF found
    <2> QED
      BY <1>6, <2>7, <2>10
  <1> QED
    BY <1>10, <1>13, <1>14, <1>15 DEF F, cells, count

-----------------------------------------------------------------------------
(* A scan of points of the map.                                            *)

\* Rounding does not care which way an axis runs.
LEMMA RoundingsTurn ==
  ASSUME NEW u \in Int, NEW v \in Int, NEW heading \in Global!Headings
  PROVE  LET s == Global!Quartered(<<u, v>>, (4 - heading) % 4)
             c == <<Global!Round(s[1]), Global!Round(s[2])>>
         IN  Global!Quartered(c, heading) = <<Global!Round(u), Global!Round(v)>>
  <1>1. ASSUME NEW q \in Int PROVE Global!Round(-q) = -Global!Round(q) /\ Global!Round(q) \in Int
    <2>1. CASE q > 0
      <3>1. Global!Round(q) = (q + 2) \div 4 /\ Global!Round(-q) = -((2 - (-q)) \div 4) /\ 2 - (-q) = q + 2
        BY <2>1 DEF Global!Round, Global!Quarters
      <3> QED
        BY <3>1
    <2>2. CASE q = 0
      <3> DEFINE n == -q
                 r == Global!Round(q)
      <3>1. n \in Int /\ n + q = 0
        OBVIOUS
      <3>2. r = 0
        <4>1. (q + 2) \div 4 = 0 /\ q >= 0
          BY <2>2
        <4> QED
          BY <4>1 DEF Global!Round, Global!Quarters
      <3> HIDE DEF n, r
      <3> DEFINE m == -r
      <3>3. r \in Int
        BY <3>2
      <3>4. m \in Int /\ m + r = 0
        BY ONLY <3>3
      <3> HIDE DEF m
      <3>5. n = q /\ m = r
        BY <2>2, <3>1, <3>2, <3>4
      <3> QED
        BY <3>2, <3>5 DEF m, n, r
    <2>3. CASE q < 0
      <3>1. Global!Round(q) = -((2 - q) \div 4) /\ Global!Round(-q) = (-q + 2) \div 4 /\ -q + 2 = 2 - q
        BY <2>3 DEF Global!Round, Global!Quarters
      <3> QED
        BY <3>1
    <2> QED
      BY <2>1, <2>2, <2>3
  <1>2. - (-u) = u /\ - (-v) = v /\ -u \in Int /\ -v \in Int
    OBVIOUS
  <1> DEFINE ru == Global!Round(u)
             rv == Global!Round(v)
  <1>3. Global!Round(-u) = -ru /\ Global!Round(-v) = -rv /\ ru \in Int /\ rv \in Int
    BY <1>1
  <1>4. -(-ru) = ru /\ -(-rv) = rv
    BY <1>3
  <1> HIDE DEF ru, rv
  <1>5. Global!Round(u) = ru /\ Global!Round(v) = rv
    BY DEF ru, rv
  <1>6. CASE heading = 0
    <2>1. (4 - heading) % 4 = 0
      BY <1>6
    <2> QED
      BY <1>5, <1>6, <2>1 DEF Global!Quartered
  <1>7. CASE heading = 1
    <2>1. (4 - heading) % 4 = 3
      BY <1>7
    <2> QED
      BY <1>3, <1>4, <1>5, <1>7, <2>1 DEF Global!Quartered
  <1>8. CASE heading = 2
    <2>1. (4 - heading) % 4 = 2
      BY <1>8
    <2> QED
      BY <1>3, <1>4, <1>5, <1>8, <2>1 DEF Global!Quartered
  <1>9. CASE heading = 3
    <2>1. (4 - heading) % 4 = 1
      BY <1>9
    <2> QED
      BY <1>3, <1>4, <1>5, <1>9, <2>1 DEF Global!Quartered
  <1> QED
    BY <1>6, <1>7, <1>8, <1>9 DEF Global!Headings

\* Seen from x and laid back at the cell of x, a point is at most a cell off.
LEMMA RoundingsAreClose ==
  ASSUME NEW p \in Int, NEW x \in Int
  PROVE  LET e == Global!Round(p - x) + x \div Global!Quarters - p \div Global!Quarters IN e \in -1 .. 1
  <1> DEFINE r == Global!Round(p - x)
             a == x \div Global!Quarters
             b == p \div Global!Quarters
  <1>1. r \in Int /\ 4 * r <= (p - x) + 2 /\ (p - x) - 2 <= 4 * r
    BY Roundings
  <1>2. a \in Int /\ 4 * a <= x /\ x < 4 * a + 4 /\ b \in Int /\ 4 * b <= p /\ p < 4 * b + 4
    BY Roundings
  <1> HIDE DEF r, a, b
  <1>3. 4 * (r + a - b) <= 5 /\ -5 <= 4 * (r + a - b)
    BY <1>1, <1>2
  <1>4. r + a - b \in -1 .. 1
    BY <1>1, <1>2, <1>3
  <1> QED
    BY <1>4 DEF r, a, b

\* Laid back, every cell of the scan falls on the map.
\* Laid back, every cell of the scan falls on the map.
LEMMA OwnScansFall ==
  ASSUME NEW k, Configured(k), NEW map \in SUBSET PointSpace, IsFiniteSet(map),
         \E p \in map : Global!FindLayer(k, p.z) # {},
         NEW points \in SUBSET map, NEW x \in Int, NEW y \in Int, NEW heading \in Global!Headings,
         NEW scan, scan = Global!Seen(points, x, y, heading), Celled(k, Global!ScanCells(k, scan)),
         NEW turn \in Turns, Global!IsQuarter(turn, heading)
  PROVE  LET grid == Global!MapGrid(k, map)
             cells == Global!ScanCells(k, scan)
             R == Global!Radius(k, cells)
         IN  Falls(k, grid, Spread(k, cells, turn),
                   x \div Global!Quarters - grid.ox - R, y \div Global!Quarters - grid.oy - R)
               = Global!Count(k, cells)
  <1> DEFINE grid == Global!MapGrid(k, map)
             cells == Global!ScanCells(k, scan)
             R == Global!Radius(k, cells)
             spread == Spread(k, cells, turn)
             dx == x \div Global!Quarters - grid.ox
             dy == y \div Global!Quarters - grid.oy
             Q(v) == v \div Global!Quarters
             s(p) == Global!Quartered(<<p.x - x, p.y - y>>, (4 - heading) % 4)
  <1>1. /\ Gridded(k, grid)
        /\ \A p \in map : Global!FindLayer(k, p.z) # {} =>
             Q(p.x) - grid.ox \in 1 .. grid.rows - 2 /\ Q(p.y) - grid.oy \in 1 .. grid.cols - 2
        /\ \A i \in Global!Layers(k) : grid.layers[i] =
             Global!Dilated({<<Q(p.x) - grid.ox, Q(p.y) - grid.oy>> :
                               p \in {q \in map : i \in Global!FindLayer(k, q.z)}}, grid.rows, grid.cols)
    BY MapsAreGridded
  <1> HIDE DEF grid
  <1>2. grid.ox \in Int /\ grid.oy \in Int /\ grid.rows \in Nat \ {0} /\ grid.cols \in Nat \ {0}
    BY <1>1 DEF Gridded
  <1>3. \A p \in map : p.x \in Int /\ p.y \in Int /\ p.z \in Int
    BY PointsAre
  <1>4. scan = {[x |-> s(p)[1], y |-> s(p)[2], z |-> p.z] : p \in points}
    BY DEF Global!Seen
  <1>5. ASSUME NEW i \in Global!Layers(k), NEW c \in cells[i]
        PROVE  <<Global!Quartered(c, heading)[1] + dx, Global!Quartered(c, heading)[2] + dy>> \in grid.layers[i]
    <2>1. PICK q \in scan : i \in Global!FindLayer(k, q.z) /\ c = <<Global!Round(q.x), Global!Round(q.y)>>
      BY DEF Global!ScanCells
    <2>2. PICK p \in points : q = [x |-> s(p)[1], y |-> s(p)[2], z |-> p.z]
      BY <1>4
    <2>3. q.x = s(p)[1] /\ q.y = s(p)[2] /\ q.z = p.z
      BY <2>2
    <2> DEFINE u == p.x - x
               v == p.y - y
               mx == Q(p.x) - grid.ox
               my == Q(p.y) - grid.oy
               ex == Global!Round(u) + Q(x) - Q(p.x)
               ey == Global!Round(v) + Q(y) - Q(p.y)
    <2>4. p \in map /\ p.x \in Int /\ p.y \in Int /\ i \in Global!FindLayer(k, p.z) /\ u \in Int /\ v \in Int
      BY <1>3, <2>1, <2>3
    <2>5. Global!Quartered(c, heading) = <<Global!Round(u), Global!Round(v)>>
      <3>1. c = <<Global!Round(s(p)[1]), Global!Round(s(p)[2])>>
        BY <2>1, <2>3
      <3>2. s(p) = Global!Quartered(<<u, v>>, (4 - heading) % 4)
        OBVIOUS
      <3> HIDE DEF u, v, s
      <3> QED
        BY <2>4, <3>1, <3>2, RoundingsTurn
    <2>6. ex \in -1 .. 1 /\ ey \in -1 .. 1
      BY <2>4, RoundingsAreClose
    <2>7. /\ Global!Round(u) \in Int /\ Global!Round(v) \in Int
          /\ Q(x) \in Int /\ Q(y) \in Int /\ Q(p.x) \in Int /\ Q(p.y) \in Int
      BY <2>4, Roundings
    <2>8. mx \in 1 .. grid.rows - 2 /\ my \in 1 .. grid.cols - 2
      BY <1>1, <2>4
    <2>9. Global!Round(u) + dx = mx + ex /\ Global!Round(v) + dy = my + ey
      <3> HIDE DEF u, v, Q
      <3>1. dx = Q(x) - grid.ox /\ dy = Q(y) - grid.oy
        BY DEF Q
      <3> QED
        BY <1>2, <2>7, <3>1
    <2> DEFINE S == {<<Q(o.x) - grid.ox, Q(o.y) - grid.oy>> : o \in {q2 \in map : i \in Global!FindLayer(k, q2.z)}}
               f == Global!Round(u) + dx
               g == Global!Round(v) + dy
    <2>10. <<mx, my>> \in S
      BY <2>4
    <2>11. grid.layers[i] = Global!Dilated(S, grid.rows, grid.cols)
      BY <1>1
    <2>12. f \in 0 .. grid.rows - 1 /\ g \in 0 .. grid.cols - 1 /\ f + (-ex) = mx /\ g + (-ey) = my
           /\ -ex \in -1 .. 1 /\ -ey \in -1 .. 1
      <3>1. f = mx + ex /\ g = my + ey
        BY <2>9
      <3> HIDE DEF f, g, mx, my, ex, ey
      <3> QED
        BY <1>2, <2>6, <2>8, <3>1
    <2>13. <<f, g>> \in Global!Dilated(S, grid.rows, grid.cols)
      <3> DEFINE d == <<-ex, -ey>>
                 o == <<f, g>>
      <3>1. d \in (-1 .. 1) \X (-1 .. 1) /\ o \in (0 .. grid.rows - 1) \X (0 .. grid.cols - 1)
        <4> HIDE DEF f, g, ex, ey
        <4> QED
          BY <2>12
      <3>2. <<o[1] + d[1], o[2] + d[2]>> \in S
        <4>1. o[1] + d[1] = mx /\ o[2] + d[2] = my
          <5> HIDE DEF f, g, ex, ey, mx, my
          <5> QED
            BY <2>12
        <4> HIDE DEF S, o, d, mx, my
        <4> QED
          BY <2>10, <4>1
      <3> HIDE DEF S, o, d
      <3>3. o \in Global!Dilated(S, grid.rows, grid.cols)
        BY <3>1, <3>2 DEF Global!Dilated
      <3> QED
        BY <3>3 DEF o
    <2> HIDE DEF S, f, g
    <2>14. <<f, g>> \in grid.layers[i]
      BY <2>11, <2>13
    <2> QED
      BY <2>5, <2>14 DEF f, g
  <1> HIDE DEF dx, dy, s, Q
  <1>6. dx \in Int /\ dy \in Int
    <2>1. x \div Global!Quarters \in Int /\ y \div Global!Quarters \in Int
      BY Roundings
    <2> QED
      BY <1>2, <2>1 DEF dx, dy
  <1>7. /\ R \in Nat \ {0}
        /\ \A i \in Global!Layers(k) : \A c \in cells[i] :
              -(R - 1) <= c[1] /\ c[1] <= R - 1 /\ -(R - 1) <= c[2] /\ c[2] <= R - 1
    BY RadiusBounds
  <1>8. \A i \in Global!Layers(k) : cells[i] \subseteq Pairs /\ IsFiniteSet(cells[i])
    BY DEF Celled
  <1> HIDE DEF cells, R
  <1>9. ASSUME NEW i \in Global!Layers(k), NEW c \in cells[i]
        PROVE  /\ Global!Turned(c, turn, R) = <<Global!Quartered(c, heading)[1] + R, Global!Quartered(c, heading)[2] + R>>
               /\ Global!Turned(c, turn, R) \in Global!InSquare(R)
               /\ Global!Quartered(c, heading)[1] \in Int /\ Global!Quartered(c, heading)[2] \in Int
    <2> DEFINE u == Global!Quartered(c, heading)[1]
               v == Global!Quartered(c, heading)[2]
               b == R - 1
    <2>1. c \in Pairs /\ c[1] \in Int /\ c[2] \in Int
      BY <1>8 DEF Pairs
    <2>2. b \in Int /\ -b <= c[1] /\ c[1] <= b /\ -b <= c[2] /\ c[2] <= b
      BY <1>7
    <2>3. Global!Turned(c, turn, R) = <<u + R, v + R>>
      <3>1. -R <= c[1] /\ c[1] <= R /\ -R <= c[2] /\ c[2] <= R /\ R \in Nat
        BY <1>7, <2>1, <2>2
      <3> QED
        BY <2>1, <3>1, QuartersTurn
    <2>4. Global!Quartered(c, heading) \in Pairs /\ -b <= u /\ u <= b /\ -b <= v /\ v <= b
      <3> HIDE DEF b
      <3> QED
        BY <2>1, <2>2, QuartersAre
    <2>5. u \in Int /\ v \in Int
      BY <2>4 DEF Pairs
    <2> HIDE DEF u, v
    <2>6. u + R \in 0 .. 2 * R /\ v + R \in 0 .. 2 * R
      BY <1>7, <2>4, <2>5
    <2>7. Global!InSquare(R) = (0 .. 2 * R) \X (0 .. 2 * R)
      BY <1>7, SquaresAre
    <2>8. Global!Turned(c, turn, R) \in Global!InSquare(R)
      BY <2>3, <2>6, <2>7
    <2> QED
      BY <2>3, <2>5, <2>8 DEF u, v
  <1>10. ASSUME NEW i \in Global!Layers(k)
         PROVE  Cardinality(Falling(spread[i], grid.layers[i], dx - R, dy - R)) = Cardinality(cells[i])
    <2> DEFINE S == cells[i]
               T == spread[i]
               h == [c \in S |-> Global!Turned(c, turn, R)]
    <2>1. T = Global!Rotated(S, turn, R)
      BY DEF Spread, R
    <2>2. T = {h[c] : c \in S}
      <3>1. \A c \in S : Global!Turned(c, turn, R) \in Global!InSquare(R)
        BY <1>9
      <3> HIDE DEF S, T
      <3> QED
        BY <2>1, <3>1 DEF Global!Rotated
    <2>3. \A c \in S : h[c] = <<Global!Quartered(c, heading)[1] + R, Global!Quartered(c, heading)[2] + R>>
                       /\ Global!Quartered(c, heading)[1] \in Int /\ Global!Quartered(c, heading)[2] \in Int
      BY <1>9
    <2> HIDE DEF T
    <2>4. h \in [S -> T] /\ \A t \in T : \E c \in S : h[c] = t
      <3>1. h = [c \in S |-> h[c]]
        OBVIOUS
      <3> HIDE DEF h
      <3> QED
        BY <2>2, <3>1
    <2> HIDE DEF h
    <2>5. \A c, e \in S : h[c] = h[e] => c = e
      <3> TAKE c, e \in S
      <3> HAVE h[c] = h[e]
      <3> DEFINE c1 == Global!Quartered(c, heading)[1]
                 c2 == Global!Quartered(c, heading)[2]
                 e1 == Global!Quartered(e, heading)[1]
                 e2 == Global!Quartered(e, heading)[2]
      <3>1. h[c] = <<c1 + R, c2 + R>> /\ h[e] = <<e1 + R, e2 + R>>
            /\ c1 \in Int /\ c2 \in Int /\ e1 \in Int /\ e2 \in Int
        BY <2>3
      <3> HIDE DEF c1, c2, e1, e2
      <3>2. c1 + R = e1 + R /\ c2 + R = e2 + R
        <4>1. <<c1 + R, c2 + R>> = <<e1 + R, e2 + R>>
          BY <3>1
        <4> QED
          BY <4>1
      <3>3. c1 = e1 /\ c2 = e2
        BY <1>7, <3>1, <3>2
      <3>4. c \in Pairs /\ e \in Pairs
        BY <1>8
      <3> QED
        BY <3>3, <3>4, QuartersDiffer DEF c1, c2, e1, e2
    <2>6. Cardinality(T) = Cardinality(S)
      <3>1. IsFiniteSet(S)
        BY <1>8
      <3> HIDE DEF S
      <3> QED
        BY <2>4, <2>5, <3>1, SameSize
    <2>7. Falling(T, grid.layers[i], dx - R, dy - R) = T
      <3>1. ASSUME NEW t \in T PROVE <<t[1] + (dx - R), t[2] + (dy - R)>> \in grid.layers[i]
        <4>1. PICK c \in S : h[c] = t
          BY <2>4
        <4> DEFINE c1 == Global!Quartered(c, heading)[1]
                   c2 == Global!Quartered(c, heading)[2]
        <4>2. t = <<c1 + R, c2 + R>> /\ c1 \in Int /\ c2 \in Int
          BY <2>3, <4>1
        <4>3. <<c1 + dx, c2 + dy>> \in grid.layers[i]
          BY <1>5
        <4> HIDE DEF c1, c2
        <4>4. t[1] + (dx - R) = c1 + dx /\ t[2] + (dy - R) = c2 + dy
          BY <1>6, <1>7, <4>2
        <4> QED
          BY <4>3, <4>4
      <3> QED
        BY <3>1 DEF Falling
    <2> QED
      BY <2>6, <2>7 DEF T
  <1> HIDE DEF spread
  <1>11. [i \in Global!Layers(k) |-> Cardinality(Falling(spread[i], grid.layers[i], dx - R, dy - R))]
           = [i \in Global!Layers(k) |-> Global!Cardinality(cells[i])]
    BY <1>10, GlobalCounts
  <1>12. Falls(k, grid, spread, dx - R, dy - R) = Global!Count(k, cells)
    BY <1>11 DEF Falls, Global!Count
  <1> QED
    BY <1>12 DEF grid, cells, dx, dy, R, spread

\* A place that is searched for, for any map, scan and configuration: a score
\* is the overlap of the turned cells that are left, and not above the number of
\* scan cells that match; the best overlap of all poses comes first; and a scan
\* of points of the map, seen with a heading of quarter turns that the search
\* tries, is found with all its cells (global_search_2d.cpp).
THEOREM EveryOverlapIsFound == PlaceAsked => Overlaps
  <1> SUFFICES ASSUME answer.kind = "place", PlaceAsked
               PROVE  /\ Global!ScoresAreOverlaps(task.settings, answer.grid, task.scan, answer.found)
                      /\ Global!CandidatesAreBest(task.settings, answer.grid, task.scan, answer.found)
                      /\ Global!OwnScanIsFound(task.settings, task.map, answer.grid, task.points, task.seen, task.scan, answer.found)
    BY DEF Overlaps
  <1> DEFINE k == task.settings
             map == task.map
             points == task.points
             seen == task.seen
             scan == task.scan
             grid == Global!MapGrid(k, map)
             cells == Global!ScanCells(k, scan)
             found == Global!Search(k, grid, scan)
  <1>1. /\ Configured(k) /\ IsFiniteSet(map) /\ map \in SUBSET PointSpace
        /\ \E p \in map : Global!FindLayer(k, p.z) # {}
        /\ IsFiniteSet(scan) /\ scan \in SUBSET PointSpace
        /\ seen.x \in Int /\ seen.y \in Int /\ seen.heading \in Global!Headings
        /\ answer.grid = grid /\ answer.found = found
    BY DEF PlaceAsked
  <1> HIDE DEF k, map, points, seen, scan
  <1>2. Celled(k, cells)
    BY <1>1, ScansAreCelled
  <1>3. Gridded(k, grid)
    BY <1>1, MapsAreGridded
  <1>4. Global!ScoresAreOverlaps(k, grid, scan, found) /\ Global!CandidatesAreBest(k, grid, scan, found)
    <2> HIDE DEF grid
    <2> QED
      BY <1>1, <1>2, <1>3, SearchFinds
  <1>5. Global!OwnScanIsFound(k, map, grid, points, seen, scan, found)
    <2> DEFINE count == Global!Count(k, cells)
               R == Global!Radius(k, cells)
               dx == seen.x \div Global!Quarters - grid.ox - R
               dy == seen.y \div Global!Quarters - grid.oy - R
    <2>1. SUFFICES ASSUME points \subseteq map, scan = Global!Seen(points, seen.x, seen.y, seen.heading),
                          NEW turn \in k.turns, Global!IsQuarter(turn, seen.heading), count >= k.minCells
                   PROVE  found # <<>> /\ found[1].score = count
      <3> HIDE DEF grid, found
      <3> QED
        BY <2>1 DEF Global!OwnScanIsFound
    <2>2. turn \in Turns
      BY <1>1 DEF Configured
    <2>3. Falls(k, grid, Spread(k, cells, turn), dx, dy) = count
      <3>1. points \in SUBSET map
        BY <2>1
      <3> QED
        BY <1>1, <1>2, <2>1, <2>2, <3>1, OwnScansFall
    <2>4. dx \in Int /\ dy \in Int
      <3>1. grid.ox \in Int /\ grid.oy \in Int
        BY <1>3 DEF Gridded
      <3>2. seen.x \div Global!Quarters \in Int /\ seen.y \div Global!Quarters \in Int
        <4>1. \A q \in Int : q \div Global!Quarters \in Int
          BY Roundings
        <4> QED
          BY <1>1, <4>1
      <3>3. R \in Int
        BY <1>1, <1>2, RadiusBounds
      <3> HIDE DEF grid, R
      <3> QED
        BY <3>1, <3>2, <3>3
    <2> HIDE DEF dx, dy, grid
    <2> QED
      BY <1>1, <1>2, <1>3, <2>1, <2>3, <2>4, SearchFinds
  <1> QED
    BY <1>1, <1>4, <1>5 DEF k, map, points, seen, scan

-----------------------------------------------------------------------------
(* Preprocessing.                                                          *)

\* A list of the numbers of S up to i.
Ordered(list, S, i) ==
  /\ list \in Seq(Nat)
  /\ \A m \in 1 .. Len(list) : list[m] \in S /\ list[m] \in 1 .. i
  /\ \A x \in S : x \in 1 .. i => \E m \in 1 .. Len(list) : list[m] = x
  /\ \A m \in 1 .. Len(list) - 1 : list[m] < list[m + 1]

LEMMA OrderedGrows ==
  ASSUME NEW S, NEW i \in Nat, NEW list, Ordered(list, S, i)
  PROVE  /\ i + 1 \in S => Ordered(Append(list, i + 1), S, i + 1)
         /\ i + 1 \notin S => Ordered(list, S, i + 1)
  <1> DEFINE n == Len(list)
             j == i + 1
             new == Append(list, j)
  <1>1. list \in Seq(Nat) /\ n \in Nat /\ j \in Nat
    BY LenProperties DEF Ordered
  <1>2. /\ \A m \in 1 .. n : list[m] \in S /\ list[m] \in 1 .. i
        /\ \A x \in S : x \in 1 .. i => \E m \in 1 .. n : list[m] = x
        /\ \A m \in 1 .. n - 1 : list[m] < list[m + 1]
    BY DEF Ordered
  <1>3. \A v \in 1 .. i : v \in 1 .. j /\ v < j
    OBVIOUS
  <1>4. \A v \in 1 .. j : v = j \/ v \in 1 .. i
    OBVIOUS
  <1>5. j \notin S => Ordered(list, S, j)
    <2> HIDE DEF j
    <2> QED
      BY <1>1, <1>2, <1>3, <1>4 DEF Ordered
  <1>6. /\ new \in Seq(Nat) /\ Len(new) = n + 1 /\ new[n + 1] = j
        /\ \A m \in 1 .. n : new[m] = list[m]
    BY <1>1, AppendProperties
  <1>7. ASSUME j \in S PROVE Ordered(new, S, j)
    <2> HIDE DEF new, j
    <2>1. \A m \in 1 .. n + 1 : m \in 1 .. n \/ m = n + 1
      BY <1>1
    <2>2. \A m \in 1 .. n + 1 : new[m] \in S /\ new[m] \in 1 .. j
      <3>1. j \in 1 .. j
        BY DEF j
      <3> QED
        BY <1>2, <1>3, <1>6, <1>7, <2>1, <3>1
    <2>3. \A x \in S : x \in 1 .. j => \E m \in 1 .. n + 1 : new[m] = x
      <3> TAKE x \in S
      <3> HAVE x \in 1 .. j
      <3>1. n + 1 \in 1 .. n + 1 /\ \A m \in 1 .. n : m \in 1 .. n + 1
        BY <1>1
      <3>2. CASE x = j
        BY <1>6, <3>1, <3>2
      <3>3. CASE x \in 1 .. i
        <4>1. PICK m \in 1 .. n : list[m] = x
          BY <1>2, <3>3
        <4> QED
          BY <1>6, <3>1, <4>1
      <3> QED
        BY <1>4, <3>2, <3>3
    <2>4. \A m \in 1 .. (n + 1) - 1 : new[m] < new[m + 1]
      <3> TAKE m \in 1 .. (n + 1) - 1
      <3>1. m \in 1 .. n /\ (m = n \/ (m \in 1 .. n - 1 /\ m + 1 \in 1 .. n))
        BY <1>1
      <3>2. CASE m = n
        BY <1>2, <1>3, <1>6, <3>1, <3>2
      <3>3. CASE m \in 1 .. n - 1 /\ m + 1 \in 1 .. n
        BY <1>2, <1>6, <3>3
      <3> QED
        BY <3>1, <3>2, <3>3
    <2> QED
      BY <1>6, <2>2, <2>3, <2>4 DEF Ordered
  <1> QED
    BY <1>5, <1>7

LEMMA InOrderIs ==
  ASSUME NEW n \in Nat, NEW S
  PROVE  Ordered(Cloud!InOrder(S, n), S, n)
  <1> DEFINE V == Seq(Nat)
             Next(i, v) == IF i \in S THEN Append(v, i) ELSE v
             Loop(r) == [i \in 0 .. n |-> IF i = 0 THEN <<>> ELSE IF i \in S THEN Append(r[i - 1], i) ELSE r[i - 1]]
             h == CHOOSE r : r = Loop(r)
             step == [p \in (1 .. n) \X V |-> Next(p[1], p[2])]
  <1>1. Cloud!InOrder(S, n) = h[n]
    BY DEF Cloud!InOrder
  <1>2. <<>> \in V
    BY EmptySeq
  <1>3. step \in [(1 .. n) \X V -> V] /\ \A i \in 1 .. n : \A v \in V : step[<<i, v>>] = Next(i, v)
    <2>1. \A i \in 1 .. n : \A v \in V : Next(i, v) \in V
      <3>1. \A i \in 1 .. n : i \in Nat
        OBVIOUS
      <3> QED
        BY <3>1, AppendProperties
    <2> HIDE DEF V, Next
    <2> QED
      BY <2>1
  <1>4. Loop(h) = [i \in 0 .. n |-> IF i = 0 THEN <<>> ELSE Next(i, h[i - 1])]
    OBVIOUS
  <1> HIDE DEF step, V
  <1>5. PICK f : Loops(f, n, V, <<>>, step)
    BY <1>2, <1>3, Recursion
  <1>6. f = Loop(f)
    <2>1. f = [i \in 0 .. n |-> f[i]] /\ f[0] = <<>> /\ \A i \in 1 .. n : f[i] = step[<<i, f[i - 1]>>]
      BY <1>5 DEF Loops
    <2>2. \A i \in 1 .. n : f[i - 1] \in V
      BY <1>5 DEF Loops
    <2>3. \A i \in 1 .. n : f[i] = IF i \in S THEN Append(f[i - 1], i) ELSE f[i - 1]
      BY <1>3, <2>1, <2>2
    <2>4. \A i \in 0 .. n : i = 0 \/ i \in 1 .. n
      OBVIOUS
    <2> QED
      BY <2>1, <2>3, <2>4
  <1>7. h = Loop(h)
    <2> HIDE DEF Loop
    <2> QED
      BY <1>6
  <1> HIDE DEF h, Loop
  <1>8. h = [i \in 0 .. n |-> h[i]] /\ h[0] = <<>> /\ \A i \in 1 .. n : h[i] = Next(i, h[i - 1])
    <2> HIDE DEF Next
    <2>1. h = [i \in 0 .. n |-> IF i = 0 THEN <<>> ELSE Next(i, h[i - 1])]
      BY <1>4, <1>7
    <2>2. \A i \in 0 .. n : h[i] = IF i = 0 THEN <<>> ELSE Next(i, h[i - 1])
      BY <2>1
    <2>3. 0 \in 0 .. n /\ \A i \in 1 .. n : i \in 0 .. n /\ i # 0
      OBVIOUS
    <2>4. h[0] = <<>> /\ \A i \in 1 .. n : h[i] = Next(i, h[i - 1])
      BY <2>2, <2>3
    <2>5. h = [i \in 0 .. n |-> h[i]]
      BY <2>1
    <2> QED
      BY <2>4, <2>5
  <1> DEFINE P == {i \in 0 .. n : Ordered(h[i], S, i)}
  <1>9. 0 .. n \subseteq P
    <2>1. 0 \in P
      <3>1. Len(<<>>) = 0 /\ <<>> \in Seq(Nat)
        BY EmptySeq
      <3>2. Ordered(<<>>, S, 0)
        BY <3>1 DEF Ordered
      <3> QED
        BY <1>8, <3>2
    <2>2. ASSUME NEW i \in 0 .. n, i # n, i \in P
          PROVE  i + 1 \in P
      <3>1. i + 1 \in 1 .. n /\ (i + 1) - 1 = i /\ i + 1 \in 0 .. n /\ i \in Nat
        BY <2>2
      <3>2. h[i + 1] = IF i + 1 \in S THEN Append(h[i], i + 1) ELSE h[i]
        BY <1>8, <3>1
      <3>3. Ordered(h[i], S, i)
        BY <2>2
      <3>4. Ordered(h[i + 1], S, i + 1)
        BY <3>1, <3>2, <3>3, OrderedGrows
      <3> QED
        BY <3>1, <3>4
    <2> HIDE DEF P
    <2> QED
      BY <2>1, <2>2, Induction
  <1> QED
    BY <1>1, <1>9

\* Entries for the points of S, in order.
KeptFrom(kept, S) ==
  /\ Len(kept) \in Nat /\ DOMAIN kept = 1 .. Len(kept)
  /\ \A m \in DOMAIN kept : kept[m].index \in S
  /\ \A x \in S : \E m \in DOMAIN kept : kept[m].index = x
  /\ \A m \in 1 .. Len(kept) - 1 : kept[m].index < kept[m + 1].index

LEMMA KeptIs ==
  ASSUME NEW scan, IsSequence(scan), NEW S \in SUBSET (DOMAIN scan), NEW time
  PROVE  KeptFrom(Cloud!Kept(scan, S, time), S)
  <1> DEFINE n == Len(scan)
             list == Cloud!InOrder(S, n)
             l == Len(list)
             kept == [m \in DOMAIN list |-> [index |-> list[m], time |-> time[list[m]]]]
  <1>1. n \in Nat /\ DOMAIN scan = 1 .. n
    BY DEF IsSequence
  <1>2. Ordered(list, S, n)
    BY <1>1, InOrderIs
  <1> HIDE DEF list
  <1>3. l \in Nat /\ DOMAIN list = 1 .. l
    BY <1>2 DEF Ordered
  <1>4. /\ \A m \in 1 .. l : list[m] \in S
        /\ \A x \in S : \E m \in 1 .. l : list[m] = x
        /\ \A m \in 1 .. l - 1 : list[m] < list[m + 1]
    BY <1>1, <1>2 DEF Ordered
  <1>5. DOMAIN kept = 1 .. l /\ \A m \in 1 .. l : kept[m].index = list[m]
    BY <1>3
  <1>6. Len(kept) = l
    <2> DEFINE R == [index : {list[m] : m \in 1 .. l}, time : {time[list[m]] : m \in 1 .. l}]
    <2>1. kept \in [1 .. l -> R]
      BY <1>3
    <2> HIDE DEF kept
    <2> QED
      BY <1>3, <2>1, FunctionsAreSequences
  <1>7. \A m \in 1 .. l - 1 : m \in 1 .. l /\ m + 1 \in 1 .. l
    BY <1>3
  <1>8. KeptFrom(kept, S)
    <2> HIDE DEF kept
    <2>1. \A m \in 1 .. l - 1 : kept[m].index < kept[m + 1].index
      BY <1>4, <1>5, <1>7
    <2>2. \A x \in S : \E m \in 1 .. l : kept[m].index = x
      BY <1>4, <1>5
    <2>3. \A m \in 1 .. l : kept[m].index \in S
      BY <1>4, <1>5
    <2> QED
      BY <1>3, <1>5, <1>6, <2>1, <2>2, <2>3 DEF KeptFrom
  <1>9. Cloud!Kept(scan, S, time) = kept
    BY DEF Cloud!Kept, list
  <1> QED
    BY <1>8, <1>9

\* A number is its quotient and its remainder.
LEMMA RemaindersOf ==
  ASSUME NEW n \in Nat \ {0}, NEW d \in Int, NEW q \in Int, NEW r \in 0 .. n - 1, d = n * q + r
  PROVE  d % n = r
  <1>1. d = n * (d \div n) + (d % n) /\ d \div n \in Int /\ d % n \in 0 .. n - 1
    OBVIOUS
  <1> DEFINE p == d \div n
             s == d % n
  <1>2. p \in Int /\ s \in 0 .. n - 1 /\ d = n * p + s
    BY <1>1
  <1> HIDE DEF p, s
  <1>3. PICK e \in Int : e = q - p
    BY <1>2
  <1>4. n * q = n * p + n * e
    BY <1>2, <1>3
  <1>5. \A v \in Int : v = n * e => n * e \in Int
    OBVIOUS
  <1>6. s - r = n * e
    BY <1>2, <1>4
  <1>7. e = 0
    <2>1. CASE e >= 1
      <3>1. n * e >= n
        BY <2>1, <1>3
      <3> QED
        BY <1>2, <1>6, <3>1
    <2>2. CASE e <= -1
      <3>1. n * e <= -n
        BY <2>2, <1>3
      <3> QED
        BY <1>2, <1>6, <3>1
    <2> QED
      BY <1>3, <2>1, <2>2
  <1>8. s = r
    BY <1>2, <1>6, <1>7
  <1> QED
    BY <1>8 DEF s

\* Multiples are multiples apart.
LEMMA MultiplesDiffer ==
  ASSUME NEW n \in Nat \ {0}, NEW x \in Int, NEW y \in Int, x % n = 0, y % n = 0
  PROVE  (x - y) % n = 0
  <1>1. PICK p \in Int : x = n * p
    <2>1. x = n * (x \div n) + (x % n) /\ x \div n \in Int
      OBVIOUS
    <2> DEFINE d == x \div n
    <2>2. d \in Int /\ x = n * d + (x % n)
      BY <2>1
    <2> HIDE DEF d
    <2>3. n * d \in Int
      BY <2>2
    <2>4. x = n * d
      BY <2>2, <2>3
    <2> QED
      BY <2>2, <2>4
  <1>2. PICK q \in Int : y = n * q
    <2>1. y = n * (y \div n) + (y % n) /\ y \div n \in Int
      OBVIOUS
    <2> DEFINE d == y \div n
    <2>2. d \in Int /\ y = n * d + (y % n)
      BY <2>1
    <2> HIDE DEF d
    <2>3. n * d \in Int
      BY <2>2
    <2>4. y = n * d
      BY <2>2, <2>3
    <2> QED
      BY <2>2, <2>4
  <1>3. x - y = n * (p - q)
    BY <1>1, <1>2
  <1>4. p - q \in Int /\ x - y \in Int /\ 0 \in 0 .. n - 1 /\ x - y = n * (p - q) + 0
    BY <1>3
  <1> QED
    BY ONLY <1>4, RemaindersOf, n \in Nat \ {0}

LEMMA CloudCounts == \A S : Cloud!Cardinality(S) = Cardinality(S)
  BY DEF Cloud!Cardinality, Cardinality

LEMMA InOrderHas ==
  ASSUME NEW n \in Nat, NEW S \in SUBSET (1 .. n)
  PROVE  Cloud!Entries(Cloud!InOrder(S, n)) = S
  <1> DEFINE list == Cloud!InOrder(S, n)
  <1>1. Ordered(list, S, n)
    BY InOrderIs
  <1> HIDE DEF list
  <1>2. DOMAIN list = 1 .. Len(list)
    BY <1>1 DEF Ordered
  <1>3. Cloud!Entries(list) = S
    BY <1>1, <1>2 DEF Ordered, Cloud!Entries
  <1> QED
    BY <1>3 DEF list

\* Which points of a scan each sensor keeps.
Chosen(lidar, scan, k) ==
  CASE lidar = "avia" -> {i \in DOMAIN scan : Cloud!AviaKeeps(scan, k, i)}
    [] lidar = "oust" -> {i \in DOMAIN scan : Cloud!EveryKth(scan, k, i) /\ ~ scan[i].near}
    [] lidar = "velo" -> {i \in DOMAIN Cloud!Times(scan) : Cloud!EveryKth(scan, k, i) /\ ~ scan[i].near}
    [] lidar = "mid" -> {i \in DOMAIN Cloud!MadeUp(scan) : ~ scan[i].near}
    [] lidar = "other" -> {i \in DOMAIN scan : ~ scan[i].near}
Lidars == {"avia", "oust", "velo", "mid", "other"}

LEMMA TimedPointsAre ==
  ASSUME NEW scan
  PROVE  /\ DOMAIN Cloud!MadeUp(scan) \subseteq DOMAIN scan
         /\ DOMAIN Cloud!Times(scan) \subseteq DOMAIN scan
  <1>1. DOMAIN Cloud!MadeUp(scan) \subseteq DOMAIN scan
    BY DEF Cloud!MadeUp
  <1>2. DOMAIN Cloud!Given(scan) = DOMAIN scan
    BY DEF Cloud!Given
  <1> QED
    BY <1>1, <1>2 DEF Cloud!Times

LEMMA ProcessIs ==
  ASSUME NEW scan, IsSequence(scan), NEW k, NEW lidar \in Lidars
  PROVE  /\ KeptFrom(Cloud!Process(lidar, scan, k), Chosen(lidar, scan, k))
         /\ \A i \in Chosen(lidar, scan, k) : i \in DOMAIN scan /\ ~ scan[i].near
  <1> DEFINE S == Chosen(lidar, scan, k)
  <1>1. \A i \in S : i \in DOMAIN scan /\ ~ scan[i].near
    <2>1. CASE lidar = "avia"
      BY <2>1 DEF Chosen, Cloud!AviaKeeps
    <2>2. CASE lidar = "oust"
      BY <2>2 DEF Chosen
    <2>3. CASE lidar = "velo"
      BY <2>3, TimedPointsAre DEF Chosen
    <2>4. CASE lidar = "mid"
      BY <2>4, TimedPointsAre DEF Chosen
    <2>5. CASE lidar = "other"
      BY <2>5 DEF Chosen
    <2> QED
      BY <2>1, <2>2, <2>3, <2>4, <2>5 DEF Lidars
  <1>2. \E time : Cloud!Process(lidar, scan, k) = Cloud!Kept(scan, S, time)
    <2>1. CASE lidar = "avia"
      BY <2>1 DEF Chosen, Cloud!Process, Cloud!AviaHandler
    <2>2. CASE lidar = "oust"
      BY <2>2 DEF Chosen, Cloud!Process, Cloud!Oust64Handler
    <2>3. CASE lidar = "velo"
      BY <2>3 DEF Chosen, Cloud!Process, Cloud!VelodyneHandler
    <2>4. CASE lidar = "mid"
      BY <2>4 DEF Chosen, Cloud!Process, Cloud!Mid360Handler
    <2>5. CASE lidar = "other"
      BY <2>5 DEF Chosen, Cloud!Process, Cloud!DefaultHandler
    <2> QED
      BY <2>1, <2>2, <2>3, <2>4, <2>5 DEF Lidars
  <1> HIDE DEF S
  <1>3. PICK time : Cloud!Process(lidar, scan, k) = Cloud!Kept(scan, S, time)
    BY <1>2
  <1>4. KeptFrom(Cloud!Kept(scan, S, time), S)
    <2>1. S \in SUBSET (DOMAIN scan)
      BY <1>1
    <2> QED
      BY <2>1, KeptIs
  <1> QED
    BY <1>1, <1>3, <1>4 DEF S

\* The valid points up to a place, and between two.
LEMMA RanksCount ==
  ASSUME NEW scan, NEW a \in Nat, NEW b \in Nat, 1 < a, a < b
  PROVE  /\ Cloud!Rank(scan, a) \in Nat /\ Cloud!Rank(scan, b) \in Nat
         /\ Cloud!Cardinality({j \in a + 1 .. b : ~ scan[j].noise}) = Cloud!Rank(scan, b) - Cloud!Rank(scan, a)
  <1> DEFINE A == {j \in 2 .. a : Cloud!Valid(scan, j)}
             B == {j \in 2 .. b : Cloud!Valid(scan, j)}
             D == {j \in a + 1 .. b : ~ scan[j].noise}
  <1>1. Cloud!Rank(scan, a) = Cardinality(A) /\ Cloud!Rank(scan, b) = Cardinality(B)
        /\ Cloud!Cardinality(D) = Cardinality(D)
    BY CloudCounts DEF Cloud!Rank
  <1>2. IsFiniteSet(A) /\ IsFiniteSet(B)
    <2>1. \A x, y \in Int : IsFiniteSet(x .. y)
      BY FS_Interval
    <2>2. IsFiniteSet(2 .. a) /\ IsFiniteSet(2 .. b)
      <3>1. 2 \in Int /\ a \in Int /\ b \in Int
        OBVIOUS
      <3> QED
        BY ONLY <2>1, <3>1, Zenon
    <2>3. A \in SUBSET (2 .. a) /\ B \in SUBSET (2 .. b)
      OBVIOUS
    <2> HIDE DEF A, B
    <2> QED
      BY ONLY <2>2, <2>3, FS_Subset
  <1>3. D = B \ A /\ B \cap A = A
    BY DEF Cloud!Valid
  <1> HIDE DEF A, B, D
  <1>4. Cardinality(D) = Cardinality(B) - Cardinality(A)
    <2>1. Cardinality(B \ A) = Cardinality(B) - Cardinality(B \cap A)
      BY ONLY <1>2, FS_Difference, Zenon
    <2> QED
      BY <1>3, <2>1
  <1>5. Cardinality(A) \in Nat /\ Cardinality(B) \in Nat
    BY <1>2, FS_CardinalityType
  <1>6. Cloud!Cardinality(D) = Cloud!Rank(scan, b) - Cloud!Rank(scan, a)
    BY <1>1, <1>4
  <1> QED
    BY <1>1, <1>5, <1>6 DEF D

LEMMA IntervalsCount ==
  ASSUME NEW a \in Nat, NEW b \in Nat, a < b
  PROVE  Cloud!Cardinality(a + 1 .. b) = b - a
  <1>1. a + 1 \in Int /\ b \in Int /\ ~ (a + 1 > b) /\ b - (a + 1) + 1 = b - a
    OBVIOUS
  <1>2. Cardinality(a + 1 .. b) = b - a
    BY <1>1, FS_Interval
  <1> QED
    BY <1>2, CloudCounts

\* Of two points chosen one after the other, those passed over are k-th ones too.
LEMMA ChosenAreThinned ==
  ASSUME NEW scan, IsSequence(scan), NEW k \in Nat \ {0}, NEW lidar \in {"avia", "oust", "velo"},
         NEW a \in Chosen(lidar, scan, k), NEW b \in Chosen(lidar, scan, k), a < b
  PROVE  Cloud!Cardinality({j \in a + 1 .. b : lidar = "avia" => ~ scan[j].noise}) % k = 0
  <1>1. a \in 1 .. Len(scan) /\ b \in 1 .. Len(scan) /\ Len(scan) \in Nat
    <2>1. lidar \in Lidars
      BY DEF Lidars
    <2>2. a \in DOMAIN scan /\ b \in DOMAIN scan
      BY <2>1, ProcessIs
    <2> QED
      BY <2>2 DEF IsSequence
  <1>2. CASE lidar # "avia"
    <2>1. (a - 1) % k = 0 /\ (b - 1) % k = 0
      <3>1. CASE lidar = "oust"
        BY <3>1 DEF Chosen, Cloud!EveryKth
      <3>2. CASE lidar = "velo"
        BY <3>2 DEF Chosen, Cloud!EveryKth
      <3> QED
        BY <1>2, <3>1, <3>2
    <2>2. ((b - 1) - (a - 1)) % k = 0
      <3>1. a - 1 \in Int /\ b - 1 \in Int
        BY <1>1
      <3> QED
        BY ONLY <2>1, <3>1, MultiplesDiffer, k \in Nat \ {0}
    <2>3. (b - 1) - (a - 1) = b - a
      BY <1>1
    <2>4. {j \in a + 1 .. b : lidar = "avia" => ~ scan[j].noise} = a + 1 .. b
      BY <1>2
    <2>5. Cloud!Cardinality(a + 1 .. b) = b - a
      BY <1>1, IntervalsCount
    <2> QED
      BY <2>2, <2>3, <2>4, <2>5
  <1>3. CASE lidar = "avia"
    <2>1. /\ 1 < a /\ Cloud!Rank(scan, a) % k = 0 /\ Cloud!Rank(scan, b) % k = 0
      BY <1>3 DEF Chosen, Cloud!AviaKeeps, Cloud!Filled, Cloud!Valid
    <2> DEFINE x == Cloud!Rank(scan, a)
               y == Cloud!Rank(scan, b)
               D == {j \in a + 1 .. b : ~ scan[j].noise}
    <2>2. a \in Nat /\ b \in Nat
      BY <1>1
    <2>3. x \in Nat /\ y \in Nat /\ Cloud!Cardinality(D) = y - x
      BY <2>1, <2>2, RanksCount
    <2>4. (y - x) % k = 0
      <3>1. x \in Int /\ y \in Int /\ x % k = 0 /\ y % k = 0
        BY <2>1, <2>3
      <3> HIDE DEF x, y
      <3> QED
        BY ONLY <3>1, MultiplesDiffer, k \in Nat \ {0}
    <2>5. {j \in a + 1 .. b : lidar = "avia" => ~ scan[j].noise} = D
      BY <1>3
    <2> QED
      BY <2>3, <2>4, <2>5
  <1> QED
    BY <1>2, <1>3

\* Unthinned, what is chosen is what is far of the lines.
LEMMA ChosenAreOfLines ==
  ASSUME NEW scan, IsSequence(scan), NEW lidar \in {"avia", "oust", "velo"}
  PROVE  Chosen(lidar, scan, 1) =
           {i \in UNION {Cloud!Entries(Cloud!Line(lidar, scan, p.ring)) : p \in Cloud!Entries(scan)} : ~ scan[i].near}
  <1> DEFINE n == Len(scan)
             L(r) == Cloud!Entries(Cloud!Line(lidar, scan, r))
             U == UNION {L(p.ring) : p \in Cloud!Entries(scan)}
  <1>1. n \in Nat /\ DOMAIN scan = 1 .. n
    BY DEF IsSequence
  <1>2. \A x \in Int : x % 1 = 0
    OBVIOUS
  <1>3. \A i \in DOMAIN scan : scan[i] \in Cloud!Entries(scan)
    BY DEF Cloud!Entries
  <1>4. CASE lidar = "avia"
    <2> DEFINE T(r) == {i \in DOMAIN scan : Cloud!Valid(scan, i) /\ scan[i].ring = r
                            /\ Cloud!FullAt(scan, 1, i) # Cloud!FullAt(scan, 1, i - 1)}
    <2>1. \A r : L(r) = T(r)
      <3> TAKE r
      <3>1. Cloud!Line(lidar, scan, r) = Cloud!InOrder(T(r), n)
        BY <1>4 DEF Cloud!Line, Cloud!AviaLine
      <3>2. T(r) \in SUBSET (1 .. n)
        BY <1>1
      <3> HIDE DEF T
      <3> QED
        BY <1>1, <3>1, <3>2, InOrderHas
    <2> HIDE DEF L
    <2>2. \A i \in DOMAIN scan : Cloud!Filled(scan, 1, i) <=> Cloud!Valid(scan, i)
      <3> TAKE i \in DOMAIN scan
      <3>1. Cloud!Valid(scan, i) => Cloud!Rank(scan, i) \in Int
        <4>1. \A j \in Nat : 1 < j => Cloud!Rank(scan, j) \in Nat
          <5> TAKE j \in Nat
          <5>1. j + 1 \in Nat /\ j < j + 1
            OBVIOUS
          <5> QED
            BY <5>1, RanksCount
        <4> QED
          BY <1>1, <4>1 DEF Cloud!Valid
      <3> QED
        BY <1>2, <3>1 DEF Cloud!Filled
    <2>3. \A i : i \in Chosen(lidar, scan, 1) <=>
              i \in DOMAIN scan /\ Cloud!Valid(scan, i) /\ ~ scan[i].near
                /\ Cloud!FullAt(scan, 1, i) # Cloud!FullAt(scan, 1, i - 1)
      BY <1>4, <2>2 DEF Chosen, Cloud!AviaKeeps
    <2>4. \A i : i \in U <=> i \in DOMAIN scan /\ Cloud!Valid(scan, i)
                /\ Cloud!FullAt(scan, 1, i) # Cloud!FullAt(scan, 1, i - 1)
      BY <1>3, <2>1
    <2> HIDE DEF U
    <2>5. Chosen(lidar, scan, 1) = {i \in U : ~ scan[i].near}
      BY <2>3, <2>4
    <2> QED
      BY <2>5 DEF U, L
  <1>5. CASE lidar = "oust"
    <2> DEFINE T(r) == {i \in DOMAIN scan : scan[i].ring = r /\ ~ scan[i].near}
    <2>1. \A r : L(r) = T(r)
      <3> TAKE r
      <3>1. Cloud!Line(lidar, scan, r) = Cloud!InOrder(T(r), n)
        BY <1>5 DEF Cloud!Line, Cloud!Oust64Line
      <3>2. T(r) \in SUBSET (1 .. n)
        BY <1>1
      <3> HIDE DEF T
      <3> QED
        BY <1>1, <3>1, <3>2, InOrderHas
    <2> HIDE DEF L
    <2>2. \A i : i \in Chosen(lidar, scan, 1) <=> i \in DOMAIN scan /\ ~ scan[i].near
      <3>1. \A i \in DOMAIN scan : i - 1 \in Int
        BY <1>1
      <3> QED
        BY <1>2, <1>5, <3>1 DEF Chosen, Cloud!EveryKth
    <2>3. \A i : i \in U <=> i \in DOMAIN scan /\ ~ scan[i].near
      BY <1>3, <2>1
    <2> HIDE DEF U
    <2>4. Chosen(lidar, scan, 1) = {i \in U : ~ scan[i].near}
      BY <2>2, <2>3
    <2> QED
      BY <2>4 DEF U, L
  <1>6. CASE lidar = "velo"
    <2> DEFINE D == DOMAIN Cloud!Times(scan)
               T(r) == {i \in D : scan[i].ring = r}
    <2>1. D \subseteq DOMAIN scan
      BY TimedPointsAre
    <2>2. \A r : L(r) = T(r)
      <3> TAKE r
      <3>1. Cloud!Line(lidar, scan, r) = Cloud!InOrder(T(r), n)
        BY <1>6 DEF Cloud!Line, Cloud!VelodyneLine
      <3>2. T(r) \in SUBSET (1 .. n)
        BY <1>1, <2>1
      <3> HIDE DEF T
      <3> QED
        BY <1>1, <3>1, <3>2, InOrderHas
    <2> HIDE DEF L
    <2>3. \A i : i \in Chosen(lidar, scan, 1) <=> i \in D /\ ~ scan[i].near
      <3>1. \A i \in D : i - 1 \in Int
        BY <1>1, <2>1
      <3> QED
        BY <1>2, <1>6, <3>1 DEF Chosen, Cloud!EveryKth
    <2> HIDE DEF D
    <2>4. \A i : i \in U <=> i \in D
      BY <1>3, <2>1, <2>2
    <2> HIDE DEF U
    <2>5. Chosen(lidar, scan, 1) = {i \in U : ~ scan[i].near}
      BY <2>3, <2>4
    <2> QED
      BY <2>5 DEF U, L
  <1> QED
    BY <1>4, <1>5, <1>6

LEMMA ScansAreAlwaysThinned ==
  ASSUME NEW scan, IsSequence(scan), NEW k \in Nat \ {0}, NEW lidar \in Lidars
  PROVE  Cloud!ScanIsThinned(lidar, scan, k)
  <1> DEFINE S == Chosen(lidar, scan, k)
             kept == Cloud!Process(lidar, scan, k)
             Between(a, b) == {j \in a + 1 .. b : lidar = "avia" => ~ scan[j].noise}
  <1>1. KeptFrom(kept, S) /\ \A i \in S : i \in DOMAIN scan /\ ~ scan[i].near
    BY ProcessIs
  <1>2. \A n \in DOMAIN kept : kept[n].index \in S
    BY <1>1 DEF KeptFrom
  <1>3. \A n \in DOMAIN kept : ~ scan[kept[n].index].near
    <2> HIDE DEF kept, S
    <2> QED
      BY <1>1, <1>2
  <1>4. ASSUME NEW n \in 1 .. Len(kept) - 1
        PROVE  /\ kept[n].index < kept[n + 1].index
               /\ lidar \in {"avia", "oust", "velo"} =>
                      Cloud!Cardinality(Between(kept[n].index, kept[n + 1].index)) % k = 0
               /\ lidar = "avia" /\ k = 1 /\ kept[n + 1].index = kept[n].index + 1 =>
                      scan[kept[n].index].place # scan[kept[n + 1].index].place
    <2> DEFINE a == kept[n].index
               b == kept[n + 1].index
    <2>1. n \in DOMAIN kept /\ n + 1 \in DOMAIN kept
      BY <1>1 DEF KeptFrom
    <2>2. a \in S /\ b \in S /\ a < b
      BY <1>1, <1>2, <2>1 DEF KeptFrom
    <2> HIDE DEF a, b
    <2>3. lidar \in {"avia", "oust", "velo"} => Cloud!Cardinality(Between(a, b)) % k = 0
      BY <2>2, ChosenAreThinned
    <2>4. ASSUME lidar = "avia", b = a + 1 PROVE scan[a].place # scan[b].place
      <3>1. Cloud!AviaKeeps(scan, k, a) /\ Cloud!AviaKeeps(scan, k, b)
        BY <2>2, <2>4 DEF Chosen
      <3>2. b - 1 = a
        <4>1. a \in Int
          BY <1>1, <2>2 DEF IsSequence
        <4> QED
          BY <2>4, <4>1
      <3>3. Cloud!FullAt(scan, k, a) = scan[a].place /\ Cloud!FullAt(scan, k, b) = scan[b].place
        BY <3>1 DEF Cloud!AviaKeeps, Cloud!FullAt
      <3>4. Cloud!FullAt(scan, k, b) # Cloud!FullAt(scan, k, a)
        BY <3>1, <3>2 DEF Cloud!AviaKeeps
      <3> QED
        BY <3>3, <3>4
    <2>5. /\ a < b
          /\ lidar \in {"avia", "oust", "velo"} => Cloud!Cardinality(Between(a, b)) % k = 0
          /\ lidar = "avia" /\ k = 1 /\ b = a + 1 => scan[a].place # scan[b].place
      BY <2>2, <2>3, <2>4
    <2> QED
      BY <2>5 DEF a, b
  <1>5. lidar \in {"avia", "oust", "velo"} /\ k = 1 => {kept[n].index : n \in DOMAIN kept} =
           {i \in UNION {Cloud!Entries(Cloud!Line(lidar, scan, p.ring)) : p \in Cloud!Entries(scan)} : ~ scan[i].near}
    <2> HAVE lidar \in {"avia", "oust", "velo"} /\ k = 1
    <2>1. {kept[n].index : n \in DOMAIN kept} = S
      <3> HIDE DEF S, kept
      <3> QED
        BY <1>1 DEF KeptFrom
    <2>2. S = {i \in UNION {Cloud!Entries(Cloud!Line(lidar, scan, p.ring)) : p \in Cloud!Entries(scan)} : ~ scan[i].near}
      BY ChosenAreOfLines
    <2> QED
      BY ONLY <2>1, <2>2, Zenon
  <1> HIDE DEF S
  <1> QED
    BY <1>3, <1>4, <1>5 DEF Cloud!ScanIsThinned

\* Classifications that leave the near points of a line alone.
Kinds == {"Nor", "Poss_Plane", "Real_Plane", "Edge_Plane", "Edge_Jump", "Wire"}
Leaving(near) == {kinds \in [DOMAIN near -> Kinds] : \A j \in DOMAIN near : near[j] => kinds[j] = "Nor"}
IsLine(near) == near \in Seq(BOOLEAN) /\ \E i \in DOMAIN near : ~ near[i]

LEMMA FirstFarIs ==
  ASSUME NEW near, IsLine(near)
  PROVE  Cloud!FirstFar(near) \in 1 .. Len(near) /\ Len(near) \in Nat
  <1> DEFINE S == {i \in DOMAIN near : ~ near[i]}
  <1>1. Len(near) \in Nat /\ DOMAIN near = 1 .. Len(near)
    BY DEF IsLine
  <1>2. S \in SUBSET Nat /\ S # {}
    BY <1>1 DEF IsLine
  <1>3. PICK i \in S : \A j \in S : i <= j
    <2> HIDE DEF S
    <2> QED
      BY <1>2, LeastExists
  <1>4. i \in DOMAIN near /\ ~ near[i]
    BY <1>3
  <1>5. \A j \in 1 .. i - 1 : near[j]
    <2> TAKE j \in 1 .. i - 1
    <2>1. j \in DOMAIN near /\ ~ (i <= j) /\ near[j] \in BOOLEAN
      BY <1>1, <1>4 DEF IsLine
    <2> QED
      BY <1>3, <2>1
  <1>6. Cloud!FirstFar(near) \in DOMAIN near
    BY <1>4, <1>5 DEF Cloud!FirstFar
  <1> QED
    BY <1>1, <1>6

\* The states of the search for planes.
PlaneStates(near) == [kinds : Leaving(near), i : Int, after : BOOLEAN]

LEMMA MarkedIsFar ==
  ASSUME NEW near, IsLine(near), NEW g \in Nat \ {0}, NEW kinds \in Leaving(near), NEW i \in Int,
         NEW o \in Cloud!Judgements(near, i, g), o.plane, NEW first \in {"Poss_Plane", "Real_Plane", "Edge_Plane"}
  PROVE  Cloud!Marked(kinds, i, o.next, first) \in Leaving(near) /\ o.next \in Int
  <1>1. Len(near) \in Nat /\ DOMAIN near = 1 .. Len(near)
    BY DEF IsLine
  <1>2. /\ o.next \in i + g .. Len(near) + 1 /\ \A j \in i .. o.next - 1 : ~ near[j]
        /\ ~ (o.next <= Len(near) /\ near[o.next])
    BY DEF Cloud!Judgements
  <1> DEFINE next == o.next
             new == Cloud!Marked(kinds, i, next, first)
  <1>3. /\ next \in Int /\ i < next /\ \A j \in i .. next - 1 : ~ near[j]
        /\ ~ (next <= Len(near) /\ near[next])
    BY <1>1, <1>2
  <1> HIDE DEF next
  <1>4. DOMAIN kinds = DOMAIN near /\ \A j \in DOMAIN near : kinds[j] \in Kinds /\ (near[j] => kinds[j] = "Nor")
    BY DEF Leaving
  <1>5. new = [j \in DOMAIN near |-> IF j = i THEN first
                            ELSE IF j \in i + 1 .. next - 1 THEN "Real_Plane"
                            ELSE IF j = next THEN "Poss_Plane" ELSE kinds[j]]
    BY <1>4 DEF Cloud!Marked
  <1> HIDE DEF new
  <1>6. \A j \in DOMAIN near : new[j] \in Kinds
    BY <1>4, <1>5 DEF Kinds
  <1>7. \A j \in DOMAIN near : near[j] => new[j] = "Nor"
    <2> TAKE j \in DOMAIN near
    <2> HAVE near[j]
    <2>1. j \notin i .. next - 1 /\ j # next
      BY <1>1, <1>3
    <2>2. j # i /\ j \notin i + 1 .. next - 1
      BY <1>3, <2>1
    <2> QED
      BY <1>4, <1>5, <2>1, <2>2
  <1>8. new \in Leaving(near)
    BY <1>5, <1>6, <1>7 DEF Leaving
  <1> QED
    BY <1>3, <1>8 DEF new, next

LEMMA PlaneStepsAreFar ==
  ASSUME NEW near, IsLine(near), NEW g \in Nat \ {0}, NEW s \in PlaneStates(near)
  PROVE  Cloud!PlaneSteps(near, g, s) \subseteq PlaneStates(near)
  <1>1. s.kinds \in Leaving(near) /\ s.i \in Int /\ s.after \in BOOLEAN
    BY DEF PlaneStates
  <1> DEFINE A == {s}
             B == {[s EXCEPT !.i = s.i + 1]}
             C == {[kinds |-> s.kinds, i |-> o.next + 1, after |-> FALSE] :
                     o \in {j \in Cloud!Judgements(near, s.i, g) : ~ j.plane}}
             D == UNION {{[kinds |-> Cloud!Marked(s.kinds, s.i, o.next, first), i |-> o.next, after |-> TRUE] :
                            first \in IF s.after THEN {"Edge_Plane", "Real_Plane"} ELSE {"Poss_Plane"}} :
                         o \in {j \in Cloud!Judgements(near, s.i, g) : j.plane}}
  <1>2. Cloud!PlaneSteps(near, g, s) \subseteq A \cup B \cup C \cup D
    <2>1. Cloud!PlaneSteps(near, g, s) =
             IF s.i > Len(near) - g THEN A ELSE IF near[s.i] THEN B ELSE C \cup D
      BY Zenon DEF Cloud!PlaneSteps
    <2> HIDE DEF A, B, C, D
    <2> QED
      BY <2>1
  <1>3. A \subseteq PlaneStates(near)
    OBVIOUS
  <1>4. B \subseteq PlaneStates(near)
    BY <1>1 DEF PlaneStates
  <1>5. C \subseteq PlaneStates(near)
    <2> SUFFICES ASSUME NEW o \in Cloud!Judgements(near, s.i, g)
                 PROVE  [kinds |-> s.kinds, i |-> o.next + 1, after |-> FALSE] \in PlaneStates(near)
      OBVIOUS
    <2>1. o.next \in Int
      <3>1. o.next \in s.i .. Len(near) \/ o.next \in s.i + g .. Len(near) + 1
        BY DEF Cloud!Judgements
      <3>2. \A x \in s.i .. Len(near) : x \in Int
        OBVIOUS
      <3>3. \A x \in s.i + g .. Len(near) + 1 : x \in Int
        OBVIOUS
      <3> QED
        BY ONLY <3>1, <3>2, <3>3
    <2> QED
      BY <1>1, <2>1 DEF PlaneStates
  <1>6. D \subseteq PlaneStates(near)
    <2> SUFFICES ASSUME NEW d \in D PROVE d \in PlaneStates(near)
      OBVIOUS
    <2>4. PICK o \in {j \in Cloud!Judgements(near, s.i, g) : j.plane} :
             d \in {[kinds |-> Cloud!Marked(s.kinds, s.i, o.next, first), i |-> o.next, after |-> TRUE] :
                       first \in IF s.after THEN {"Edge_Plane", "Real_Plane"} ELSE {"Poss_Plane"}}
      BY Zenon
    <2>2. PICK first \in IF s.after THEN {"Edge_Plane", "Real_Plane"} ELSE {"Poss_Plane"} :
             d = [kinds |-> Cloud!Marked(s.kinds, s.i, o.next, first), i |-> o.next, after |-> TRUE]
      BY <2>4, Zenon
    <2>3. first \in {"Poss_Plane", "Real_Plane", "Edge_Plane"}
      OBVIOUS
    <2>1. Cloud!Marked(s.kinds, s.i, o.next, first) \in Leaving(near) /\ o.next \in Int
      BY <1>1, <2>3, MarkedIsFar
    <2> QED
      BY <2>1, <2>2 DEF PlaneStates
  <1> HIDE DEF A, B, C, D
  <1> QED
    BY <1>2, <1>3, <1>4, <1>5, <1>6

LEMMA PlanesAreFar ==
  ASSUME NEW near, IsLine(near), NEW g \in Nat \ {0}
  PROVE  Cloud!Planes(near, g) \subseteq Leaving(near)
  <1> DEFINE n == Len(near)
             V == SUBSET PlaneStates(near)
             base == {[kinds |-> Cloud!Normal(near), i |-> Cloud!FirstFar(near), after |-> FALSE]}
             Next(v) == UNION {Cloud!PlaneSteps(near, g, s) : s \in v}
             Loop(r) == [m \in 0 .. n |-> IF m = 0
                THEN {[kinds |-> Cloud!Normal(near), i |-> Cloud!FirstFar(near), after |-> FALSE]}
                ELSE UNION {Cloud!PlaneSteps(near, g, s) : s \in r[m - 1]}]
             h == CHOOSE r : r = Loop(r)
             step == [p \in (1 .. n) \X V |-> Next(p[2])]
  <1>1. Cloud!Planes(near, g) = {s.kinds : s \in h[n]}
    BY DEF Cloud!Planes
  <1>2. n \in Nat /\ base \in V
    <2>1. Cloud!FirstFar(near) \in Int /\ n \in Nat
      BY FirstFarIs
    <2>2. Cloud!Normal(near) \in Leaving(near)
      BY DEF Cloud!Normal, Leaving, Kinds
    <2> QED
      BY <2>1, <2>2 DEF PlaneStates
  <1>3. step \in [(1 .. n) \X V -> V] /\ \A i \in 1 .. n : \A v \in V : step[<<i, v>>] = Next(v)
    <2>1. \A v \in V : Next(v) \in V
      BY PlaneStepsAreFar
    <2> HIDE DEF V, Next
    <2> QED
      BY <2>1
  <1>4. \A r : Loop(r) = [m \in 0 .. n |-> IF m = 0 THEN base ELSE Next(r[m - 1])]
    OBVIOUS
  <1> HIDE DEF step, V, base, Next, n, Loop
  <1>5. PICK f : Loops(f, n, V, base, step)
    BY <1>2, <1>3, Recursion
  <1>6. f = Loop(f)
    <2>1. f = [i \in 0 .. n |-> f[i]] /\ f[0] = base /\ \A i \in 1 .. n : f[i] = step[<<i, f[i - 1]>>]
      BY <1>5 DEF Loops
    <2>2. \A i \in 1 .. n : f[i - 1] \in V
      BY <1>2, <1>5 DEF Loops
    <2>3. \A i \in 1 .. n : f[i] = Next(f[i - 1])
      BY <1>3, <2>1, <2>2
    <2>4. \A i \in 0 .. n : i = 0 \/ i \in 1 .. n
      BY <1>2
    <2>5. f = [m \in 0 .. n |-> IF m = 0 THEN base ELSE Next(f[m - 1])]
      BY <2>1, <2>3, <2>4
    <2> QED
      BY <1>4, <2>5
  <1>7. h = Loop(h)
    BY <1>6
  <1> HIDE DEF h
  <1>8. h = [i \in 0 .. n |-> h[i]] /\ h[0] = base /\ \A i \in 1 .. n : h[i] = Next(h[i - 1])
    <2>1. h = [m \in 0 .. n |-> IF m = 0 THEN base ELSE Next(h[m - 1])]
      BY <1>4, <1>7
    <2>2. \A i \in 0 .. n : h[i] = IF i = 0 THEN base ELSE Next(h[i - 1])
      BY <2>1
    <2>3. 0 \in 0 .. n /\ \A i \in 1 .. n : i \in 0 .. n /\ i # 0
      BY <1>2
    <2>4. h[0] = base /\ \A i \in 1 .. n : h[i] = Next(h[i - 1])
      BY <2>2, <2>3
    <2>5. h = [i \in 0 .. n |-> h[i]]
      BY <2>1
    <2> QED
      BY <2>4, <2>5
  <1>9. Loops(h, n, V, base, step)
    <2>1. \A i \in 1 .. n : h[i - 1] \in V => h[i] = step[<<i, h[i - 1]>>]
      BY <1>3, <1>8
    <2> QED
      BY <1>2, <1>3, <1>8, <2>1, LoopRuns
  <1>10. h[n] \in V
    BY <1>2, <1>9 DEF Loops
  <1>11. \A s \in h[n] : s.kinds \in Leaving(near)
    BY <1>10 DEF V, PlaneStates
  <1> QED
    BY <1>1, <1>11

LEMMA EdgesAreFar ==
  ASSUME NEW near, IsLine(near), NEW kinds \in Leaving(near)
  PROVE  Cloud!Edges(near, kinds) \subseteq Leaving(near)
  <1> DEFINE n == Len(near)
             V == SUBSET Leaving(near)
             base == {kinds}
             Next(i, v) == IF i \in Cloud!Examined(near, kinds) THEN Cloud!WithEdge(near, v, i) ELSE v
             Loop(r) == [i \in 0 .. n |-> IF i = 0 THEN {kinds}
                ELSE IF i \in Cloud!Examined(near, kinds) THEN Cloud!WithEdge(near, r[i - 1], i) ELSE r[i - 1]]
             h == CHOOSE r : r = Loop(r)
             step == [p \in (1 .. n) \X V |-> Next(p[1], p[2])]
  <1>1. Cloud!Edges(near, kinds) = h[n]
    BY DEF Cloud!Edges
  <1>2. n \in Nat /\ base \in V
    BY FirstFarIs
  <1>3. step \in [(1 .. n) \X V -> V] /\ \A i \in 1 .. n : \A v \in V : step[<<i, v>>] = Next(i, v)
    <2>1. ASSUME NEW i \in 1 .. n, NEW v \in V PROVE Next(i, v) \in V
      <3>1. CASE i \in Cloud!Examined(near, kinds)
        <4>1. i \in DOMAIN near /\ ~ near[i]
          <5>1. DOMAIN near = 1 .. n
            BY DEF IsLine
          <5> QED
            BY <3>1, <5>1 DEF Cloud!Examined
        <4>2. ASSUME NEW k \in v, NEW e \in Cloud!EdgeKinds(near, k[i], i)
              PROVE  [k EXCEPT ![i] = e] \in Leaving(near)
          <5>1. k \in [DOMAIN near -> Kinds] /\ \A j \in DOMAIN near : near[j] => k[j] = "Nor"
            BY DEF Leaving
          <5>2. e \in Kinds
            <6>1. \A prev, next : Cloud!EdgeKind(near, k[i], i, prev, next) \in {k[i], "Edge_Jump", "Wire"}
              BY DEF Cloud!EdgeKind
            <6>2. e \in {k[i], "Edge_Jump", "Wire"}
              BY <6>1 DEF Cloud!EdgeKinds
            <6>3. k[i] \in Kinds
              BY <4>1, <5>1
            <6> QED
              BY <6>2, <6>3 DEF Kinds
          <5> QED
            BY <4>1, <5>1, <5>2 DEF Leaving
        <4>3. Cloud!WithEdge(near, v, i) \subseteq Leaving(near)
          BY <4>2 DEF Cloud!WithEdge
        <4> QED
          BY <3>1, <4>3
      <3>2. CASE i \notin Cloud!Examined(near, kinds)
        BY <3>2
      <3> QED
        BY <3>1, <3>2
    <2> HIDE DEF V, Next
    <2> QED
      BY <2>1
  <1>4. \A r : Loop(r) = [m \in 0 .. n |-> IF m = 0 THEN base ELSE Next(m, r[m - 1])]
    OBVIOUS
  <1> HIDE DEF step, V, base, Next, n, Loop
  <1>5. PICK f : Loops(f, n, V, base, step)
    BY <1>2, <1>3, Recursion
  <1>6. f = Loop(f)
    <2>1. f = [i \in 0 .. n |-> f[i]] /\ f[0] = base /\ \A i \in 1 .. n : f[i] = step[<<i, f[i - 1]>>]
      BY <1>5 DEF Loops
    <2>2. \A i \in 1 .. n : f[i - 1] \in V
      BY <1>2, <1>5 DEF Loops
    <2>3. \A i \in 1 .. n : f[i] = Next(i, f[i - 1])
      BY <1>3, <2>1, <2>2
    <2>4. \A i \in 0 .. n : i = 0 \/ i \in 1 .. n
      BY <1>2
    <2>5. f = [m \in 0 .. n |-> IF m = 0 THEN base ELSE Next(m, f[m - 1])]
      BY <2>1, <2>3, <2>4
    <2> QED
      BY <1>4, <2>5
  <1>7. h = Loop(h)
    BY <1>6
  <1> HIDE DEF h
  <1>8. h = [i \in 0 .. n |-> h[i]] /\ h[0] = base /\ \A i \in 1 .. n : h[i] = Next(i, h[i - 1])
    <2>1. h = [m \in 0 .. n |-> IF m = 0 THEN base ELSE Next(m, h[m - 1])]
      BY <1>4, <1>7
    <2>2. \A i \in 0 .. n : h[i] = IF i = 0 THEN base ELSE Next(i, h[i - 1])
      BY <2>1
    <2>3. 0 \in 0 .. n /\ \A i \in 1 .. n : i \in 0 .. n /\ i # 0
      BY <1>2
    <2>4. h[0] = base /\ \A i \in 1 .. n : h[i] = Next(i, h[i - 1])
      BY <2>2, <2>3
    <2>5. h = [i \in 0 .. n |-> h[i]]
      BY <2>1
    <2> QED
      BY <2>4, <2>5
  <1>9. Loops(h, n, V, base, step)
    <2>1. \A i \in 1 .. n : h[i - 1] \in V => h[i] = step[<<i, h[i - 1]>>]
      BY <1>3, <1>8
    <2> QED
      BY <1>2, <1>3, <1>8, <2>1, LoopRuns
  <1>10. h[n] \in V
    BY <1>2, <1>9 DEF Loops
  <1> QED
    BY <1>1, <1>10 DEF V

LEMMA SmallPlanesAreFar ==
  ASSUME NEW near, IsLine(near), NEW kinds \in Leaving(near), NEW examined
  PROVE  Cloud!SmallPlanes(near, kinds, examined) \subseteq Leaving(near)
  <1> DEFINE n == Len(near) - 1
             V == SUBSET Leaving(near)
             base == {kinds}
             Next(i, v) == IF i <= Cloud!FirstFar(near) THEN {kinds} ELSE Cloud!WithSmallPlane(near, v, examined, i)
             Loop(r) == [i \in 0 .. n |-> IF i <= Cloud!FirstFar(near) THEN {kinds}
                ELSE Cloud!WithSmallPlane(near, r[i - 1], examined, i)]
             h == CHOOSE r : r = Loop(r)
             step == [p \in (1 .. n) \X V |-> Next(p[1], p[2])]
  <1>1. Cloud!SmallPlanes(near, kinds, examined) = h[n]
    BY DEF Cloud!SmallPlanes
  <1>2. n \in Nat /\ base \in V
    BY FirstFarIs
  <1>3. step \in [(1 .. n) \X V -> V] /\ \A i \in 1 .. n : \A v \in V : step[<<i, v>>] = Next(i, v)
    <2>1. ASSUME NEW i \in 1 .. n, NEW v \in V PROVE Next(i, v) \in V
      <3>1. ASSUME NEW k \in v, \A j \in i - 1 .. i + 1 : ~ near[j]
            PROVE  Cloud!Promoted(k, i) \in Leaving(near)
        <4>1. k \in [DOMAIN near -> Kinds] /\ \A j \in DOMAIN near : near[j] => k[j] = "Nor"
          BY DEF Leaving
        <4> DEFINE new == [j \in DOMAIN near |->
                             IF j \in i - 1 .. i + 1 /\ k[j] = "Nor" THEN "Real_Plane" ELSE k[j]]
        <4>2. Cloud!Promoted(k, i) = new
          BY <4>1 DEF Cloud!Promoted
        <4>3. new \in [DOMAIN near -> Kinds]
          BY <4>1 DEF Kinds
        <4>4. \A j \in DOMAIN near : near[j] => new[j] = "Nor"
          BY <3>1, <4>1
        <4> HIDE DEF new
        <4> QED
          BY <4>2, <4>3, <4>4 DEF Leaving
      <3>2. Cloud!WithSmallPlane(near, v, examined, i) \subseteq Leaving(near)
        BY <3>1 DEF Cloud!WithSmallPlane
      <3> QED
        BY <3>2
    <2> HIDE DEF V, Next
    <2> QED
      BY <2>1
  <1>4. \A r : Loop(r) = [m \in 0 .. n |-> IF m = 0 THEN base ELSE Next(m, r[m - 1])]
    <2> TAKE r
    <2>1. 0 <= Cloud!FirstFar(near)
      BY FirstFarIs
    <2> QED
      BY <2>1
  <1> HIDE DEF step, V, base, Next, n, Loop
  <1>5. PICK f : Loops(f, n, V, base, step)
    BY <1>2, <1>3, Recursion
  <1>6. f = Loop(f)
    <2>1. f = [i \in 0 .. n |-> f[i]] /\ f[0] = base /\ \A i \in 1 .. n : f[i] = step[<<i, f[i - 1]>>]
      BY <1>5 DEF Loops
    <2>2. \A i \in 1 .. n : f[i - 1] \in V
      BY <1>2, <1>5 DEF Loops
    <2>3. \A i \in 1 .. n : f[i] = Next(i, f[i - 1])
      BY <1>3, <2>1, <2>2
    <2>4. \A i \in 0 .. n : i = 0 \/ i \in 1 .. n
      BY <1>2
    <2>5. f = [m \in 0 .. n |-> IF m = 0 THEN base ELSE Next(m, f[m - 1])]
      BY <2>1, <2>3, <2>4
    <2> QED
      BY <1>4, <2>5
  <1>7. h = Loop(h)
    BY <1>6
  <1> HIDE DEF h
  <1>8. h = [i \in 0 .. n |-> h[i]] /\ h[0] = base /\ \A i \in 1 .. n : h[i] = Next(i, h[i - 1])
    <2>1. h = [m \in 0 .. n |-> IF m = 0 THEN base ELSE Next(m, h[m - 1])]
      BY <1>4, <1>7
    <2>2. \A i \in 0 .. n : h[i] = IF i = 0 THEN base ELSE Next(i, h[i - 1])
      BY <2>1
    <2>3. 0 \in 0 .. n /\ \A i \in 1 .. n : i \in 0 .. n /\ i # 0
      BY <1>2
    <2>4. h[0] = base /\ \A i \in 1 .. n : h[i] = Next(i, h[i - 1])
      BY <2>2, <2>3
    <2>5. h = [i \in 0 .. n |-> h[i]]
      BY <2>1
    <2> QED
      BY <2>4, <2>5
  <1>9. Loops(h, n, V, base, step)
    <2>1. \A i \in 1 .. n : h[i - 1] \in V => h[i] = step[<<i, h[i - 1]>>]
      BY <1>3, <1>8
    <2> QED
      BY <1>2, <1>3, <1>8, <2>1, LoopRuns
  <1>10. h[n] \in V
    BY <1>2, <1>9 DEF Loops
  <1> QED
    BY <1>1, <1>10 DEF V

LEMMA NearAlwaysStaysOut ==
  ASSUME NEW near, IsLine(near), NEW g \in Nat \ {0}
  PROVE  Cloud!NearStaysOut(near, g)
  <1>1. \A p \in Cloud!Planes(near, g) : p \in Leaving(near)
    BY PlanesAreFar
  <1>2. \A p \in Leaving(near) : \A e \in Cloud!Edges(near, p) : e \in Leaving(near)
    BY EdgesAreFar
  <1>3. \A examined : \A e \in Leaving(near) : Cloud!SmallPlanes(near, e, examined) \subseteq Leaving(near)
    BY SmallPlanesAreFar
  <1>4. Cloud!Classified(near, g) \subseteq Leaving(near)
    BY <1>1, <1>2, <1>3 DEF Cloud!Classified
  <1> QED
    BY <1>4 DEF Cloud!NearStaysOut, Leaving

\* Counting on, modulo k.
LEMMA CountsGoOn ==
  ASSUME NEW k \in Nat \ {0}, NEW d \in Nat
  PROVE  /\ d % k \in 0 .. k - 1 /\ d % k <= d /\ 0 % k = 0
         /\ (d + 1) % k = IF d % k = k - 1 THEN 0 ELSE (d % k) + 1
  <1> DEFINE q == d \div k
             r == d % k
  <1>1. q \in Int /\ r \in 0 .. k - 1 /\ d = k * q + r
    OBVIOUS
  <1> HIDE DEF q, r
  <1>2. k * q \in Int
    BY <1>1
  <1>3. q >= 0
    <2>1. CASE q <= -1
      <3>1. k * q <= -k
        BY <2>1, <1>1
      <3> QED
        BY <1>1, <3>1
    <2> QED
      BY <1>1, <2>1
  <1>4. r <= d
    <2>1. k * q >= 0
      BY <1>1, <1>3
    <2> QED
      BY <1>1, <1>2, <2>1
  <1>5. CASE r = k - 1
    <2>1. k * (q + 1) = k * q + k
      BY <1>1
    <2>2. d + 1 \in Int /\ q + 1 \in Int /\ 0 \in 0 .. k - 1 /\ d + 1 = k * (q + 1) + 0
      BY <1>1, <1>2, <1>5, <2>1
    <2>3. (d + 1) % k = 0
      BY ONLY <2>2, RemaindersOf, k \in Nat \ {0}
    <2> QED
      BY <1>1, <1>4, <1>5, <2>3 DEF r
  <1>6. CASE r # k - 1
    <2>1. d + 1 \in Int /\ q \in Int /\ r + 1 \in 0 .. k - 1 /\ d + 1 = k * q + (r + 1)
      BY <1>1, <1>2, <1>6
    <2>2. (d + 1) % k = r + 1
      BY ONLY <2>1, RemaindersOf, k \in Nat \ {0}
    <2> QED
      BY <1>1, <1>4, <1>6, <2>2 DEF r
  <1> QED
    BY <1>5, <1>6

\* From a on, up to j, all are surfaces; the one before a is not.  If j is
\* none, a is the place after it.
Begun(kinds, a, j) ==
  /\ a \in 1 .. j + 1 /\ \A i \in a .. j : Cloud!IsSurface(kinds[i])
  /\ a > 1 => ~ Cloud!IsSurface(kinds[a - 1])
\* How many points are open at j, and the first of them.
Left(k, a, j) == (j + 1 - a) % k
OpenAt(k, a, j) == IF Left(k, a, j) = 0 THEN 0 ELSE j + 1 - Left(k, a, j)
\* What the points up to j should give.
IsWhole(kinds, k, j, A) ==
  \E i \in 1 .. j, a \in 1 .. j : a <= i /\ Begun(kinds, a, i) /\ Left(k, a, i) = 0 /\ A = {i}
IsRest(kinds, k, j, A) ==
  \E b \in 1 .. j, a \in 1 .. j :
     /\ a <= b /\ b < j /\ Begun(kinds, a, b) /\ ~ Cloud!IsSurface(kinds[b + 1])
     /\ Left(k, a, b) # 0 /\ A = b + 1 - Left(k, a, b) .. b
Gatherings == [surf : Seq(SUBSET Nat), open : Nat]
Gathered(kinds, k, j, s) ==
  /\ s \in Gatherings
  /\ \E a \in 1 .. j + 1 : Begun(kinds, a, j) /\ s.open = OpenAt(k, a, j)
  /\ \A m \in 1 .. Len(s.surf) : IsWhole(kinds, k, j, s.surf[m]) \/ IsRest(kinds, k, j, s.surf[m])
  /\ \A A : IsWhole(kinds, k, j, A) \/ IsRest(kinds, k, j, A) => \E m \in 1 .. Len(s.surf) : s.surf[m] = A
  /\ \A m \in 1 .. Len(s.surf) : \A x \in s.surf[m] : x <= j /\ (s.open # 0 => x < s.open)
  /\ \A m \in 1 .. Len(s.surf) - 1 : \A x \in s.surf[m], y \in s.surf[m + 1] : x < y

LEMMA BegunOnce ==
  ASSUME NEW kinds, NEW j \in Nat, NEW a, NEW b, Begun(kinds, a, j), Begun(kinds, b, j)
  PROVE  a = b
  <1>1. a \in 1 .. j + 1 /\ b \in 1 .. j + 1
    BY DEF Begun
  <1>2. ~ (a < b)
    <2> SUFFICES ASSUME a < b PROVE FALSE
      OBVIOUS
    <2>1. b > 1 /\ b - 1 \in a .. j
      BY <1>1
    <2> QED
      BY <2>1 DEF Begun
  <1>3. ~ (b < a)
    <2> SUFFICES ASSUME b < a PROVE FALSE
      OBVIOUS
    <2>1. a > 1 /\ a - 1 \in b .. j
      BY <1>1
    <2> QED
      BY <2>1 DEF Begun
  <1> QED
    BY <1>1, <1>2, <1>3

\* A list of sets, each above the one before, with one more above them all.
LEMMA ListedSetsGrow ==
  ASSUME NEW list \in Seq(SUBSET Nat), NEW A \in SUBSET Nat,
         \A m \in 1 .. Len(list) - 1 : \A x \in list[m], y \in list[m + 1] : x < y,
         \A m \in 1 .. Len(list) : \A x \in list[m], y \in A : x < y
  PROVE  LET new == Append(list, A)
         IN  /\ new \in Seq(SUBSET Nat) /\ Len(new) = Len(list) + 1 /\ Len(list) \in Nat
             /\ \A m \in 1 .. Len(new) : (m \in 1 .. Len(list) /\ new[m] = list[m]) \/ new[m] = A
             /\ \A m \in 1 .. Len(list) : m \in 1 .. Len(new) /\ new[m] = list[m]
             /\ Len(new) \in 1 .. Len(new) /\ new[Len(new)] = A
             /\ \A m \in 1 .. Len(new) - 1 : \A x \in new[m], y \in new[m + 1] : x < y
  <1> DEFINE new == Append(list, A)
             n == Len(list)
  <1>1. /\ new \in Seq(SUBSET Nat) /\ Len(new) = n + 1 /\ n \in Nat /\ new[n + 1] = A
        /\ \A m \in 1 .. n : new[m] = list[m]
    BY AppendProperties, LenProperties
  <1> HIDE DEF new, n
  <1>2. /\ \A m \in 1 .. n + 1 : m \in 1 .. n \/ m = n + 1
        /\ \A m \in 1 .. n : m \in 1 .. n + 1
        /\ n + 1 \in 1 .. n + 1
        /\ \A m \in 1 .. (n + 1) - 1 : m \in 1 .. n /\ ((m \in 1 .. n - 1 /\ m + 1 \in 1 .. n) \/ m = n)
    BY <1>1
  <1>3. \A m \in 1 .. (n + 1) - 1 : \A x \in new[m], y \in new[m + 1] : x < y
    <2> TAKE m \in 1 .. (n + 1) - 1
    <2>1. CASE m = n
      BY <1>1, <1>2, <2>1 DEF n
    <2>2. CASE m \in 1 .. n - 1 /\ m + 1 \in 1 .. n
      BY <1>1, <1>2, <2>2 DEF n
    <2> QED
      BY <1>2, <2>1, <2>2
  <1>4. /\ new \in Seq(SUBSET Nat) /\ Len(new) = n + 1 /\ n \in Nat
        /\ \A m \in 1 .. n + 1 : (m \in 1 .. n /\ new[m] = list[m]) \/ new[m] = A
        /\ \A m \in 1 .. n : m \in 1 .. n + 1 /\ new[m] = list[m]
        /\ n + 1 \in 1 .. n + 1 /\ new[n + 1] = A
        /\ \A m \in 1 .. (n + 1) - 1 : \A x \in new[m], y \in new[m + 1] : x < y
    BY <1>1, <1>2, <1>3
  <1>5. Len(new) = n + 1
    BY <1>1
  <1> QED
    BY <1>4, <1>5 DEF new, n

\* What one more point adds to what is due: itself, if it ends a group, or the
\* rest of a run, if it ends that.
LEMMA DueGrows ==
  ASSUME NEW kinds, NEW k \in Nat \ {0}, NEW j \in Nat, NEW a, Begun(kinds, a, j)
  PROVE  LET i == j + 1
             r == Left(k, a, j)
             on == Cloud!IsSurface(kinds[i])
         IN  /\ r \in Nat /\ r < k /\ r <= i - a /\ a \in 1 .. i
             /\ Left(k, a, i) = IF r = k - 1 THEN 0 ELSE r + 1
             /\ on => Begun(kinds, a, i)
             /\ ~ on => Begun(kinds, i + 1, i) /\ OpenAt(k, i + 1, i) = 0
             /\ \A A : IsWhole(kinds, k, i, A) <=> IsWhole(kinds, k, j, A) \/ (on /\ r = k - 1 /\ A = {i})
             /\ \A A : IsRest(kinds, k, i, A) <=> IsRest(kinds, k, j, A) \/ (~ on /\ r # 0 /\ A = i - r .. j)
  <1> DEFINE i == j + 1
             r == Left(k, a, j)
             on == Cloud!IsSurface(kinds[i])
             d == i - a
  <1>1. a \in 1 .. i /\ d \in Nat /\ i \in Nat /\ \A x \in a .. j : Cloud!IsSurface(kinds[x])
    BY DEF Begun
  <1>2. r = d % k /\ Left(k, a, i) = (d + 1) % k
    <2>1. j + 1 - a = d /\ i + 1 - a = d + 1
      BY <1>1
    <2>2. Left(k, a, j) = (j + 1 - a) % k /\ Left(k, a, i) = (i + 1 - a) % k
      BY Zenon DEF Left
    <2> QED
      BY ONLY <2>1, <2>2, Zenon
  <1>3. /\ r \in 0 .. k - 1 /\ r <= d /\ 0 % k = 0
        /\ Left(k, a, i) = IF r = k - 1 THEN 0 ELSE r + 1
    <2> HIDE DEF d, r
    <2> QED
      BY <1>1, <1>2, CountsGoOn
  <1>4. on => Begun(kinds, a, i)
    <2> HAVE on
    <2>1. \A x \in a .. i : x \in a .. j \/ x = i
      OBVIOUS
    <2>2. \A x \in a .. i : Cloud!IsSurface(kinds[x])
      BY <1>1, <2>1
    <2>3. a \in 1 .. i + 1
      BY <1>1
    <2> QED
      BY <2>2, <2>3 DEF Begun
  <1>5. ~ on => Begun(kinds, i + 1, i) /\ OpenAt(k, i + 1, i) = 0
    <2> HAVE ~ on
    <2>1. i + 1 \in 1 .. i + 1 /\ (i + 1) - 1 = i /\ \A x : x \notin i + 1 .. i
      BY <1>1
    <2>2. Left(k, i + 1, i) = 0
      <3>1. i + 1 - (i + 1) = 0
        BY <1>1
      <3> QED
        BY <1>3, <3>1 DEF Left
    <2> QED
      BY <2>1, <2>2 DEF Begun, OpenAt
  <1> HIDE DEF d
  <1>6. \A A : IsWhole(kinds, k, i, A) <=> IsWhole(kinds, k, j, A) \/ (on /\ r = k - 1 /\ A = {i})
    <2> TAKE A
    <2>1. IsWhole(kinds, k, j, A) => IsWhole(kinds, k, i, A)
      <3> HAVE IsWhole(kinds, k, j, A)
      <3>1. PICK p \in 1 .. j, q \in 1 .. j : q <= p /\ Begun(kinds, q, p) /\ Left(k, q, p) = 0 /\ A = {p}
        BY DEF IsWhole
      <3>2. p \in 1 .. i /\ q \in 1 .. i
        BY <1>1
      <3> QED
        BY <3>1, <3>2 DEF IsWhole
    <2>2. on /\ r = k - 1 /\ A = {i} => IsWhole(kinds, k, i, A)
      <3> HAVE on /\ r = k - 1 /\ A = {i}
      <3>1. i \in 1 .. i /\ a \in 1 .. i /\ a <= i
        BY <1>1
      <3> QED
        BY <1>3, <1>4, <3>1 DEF IsWhole
    <2>3. ASSUME IsWhole(kinds, k, i, A) PROVE IsWhole(kinds, k, j, A) \/ (on /\ r = k - 1 /\ A = {i})
      <3>1. PICK p \in 1 .. i, q \in 1 .. i : q <= p /\ Begun(kinds, q, p) /\ Left(k, q, p) = 0 /\ A = {p}
        BY <2>3 DEF IsWhole
      <3>2. CASE p = i
        <4>1. on
          <5>1. i \in q .. i
            BY <1>1, <3>1, <3>2
          <5> QED
            BY <3>1, <3>2, <5>1 DEF Begun
        <4>2. q = a
          BY <1>1, <1>4, <3>1, <3>2, <4>1, BegunOnce
        <4>3. r = k - 1
          BY <1>3, <3>1, <3>2, <4>2
        <4> QED
          BY <3>1, <3>2, <4>1, <4>3
      <3>3. CASE p # i
        <4>1. p \in 1 .. j /\ q \in 1 .. j
          BY <3>1, <3>3
        <4> QED
          BY <3>1, <4>1 DEF IsWhole
      <3> QED
        BY <3>2, <3>3
    <2> QED
      BY <2>1, <2>2, <2>3
  <1>7. \A A : IsRest(kinds, k, i, A) <=> IsRest(kinds, k, j, A) \/ (~ on /\ r # 0 /\ A = i - r .. j)
    <2> TAKE A
    <2>1. IsRest(kinds, k, j, A) => IsRest(kinds, k, i, A)
      <3> HAVE IsRest(kinds, k, j, A)
      <3>1. PICK b \in 1 .. j, q \in 1 .. j :
              /\ q <= b /\ b < j /\ Begun(kinds, q, b) /\ ~ Cloud!IsSurface(kinds[b + 1])
              /\ Left(k, q, b) # 0 /\ A = b + 1 - Left(k, q, b) .. b
        BY DEF IsRest
      <3>2. b \in 1 .. i /\ q \in 1 .. i /\ b < i
        BY <1>1
      <3> QED
        BY <3>1, <3>2 DEF IsRest
    <2>2. ~ on /\ r # 0 /\ A = i - r .. j => IsRest(kinds, k, i, A)
      <3> HAVE ~ on /\ r # 0 /\ A = i - r .. j
      <3>1. j \in 1 .. i /\ a \in 1 .. i /\ a <= j /\ j < i
        BY <1>1, <1>3 DEF d
      <3>2. /\ a <= j /\ j < i /\ Begun(kinds, a, j) /\ ~ Cloud!IsSurface(kinds[j + 1])
            /\ Left(k, a, j) # 0 /\ A = j + 1 - Left(k, a, j) .. j
        <4>1. r \in Int
          BY <1>3
        <4>2. j + 1 - r = i - r
          BY <4>1
        <4> QED
          BY <3>1, <4>2
      <3> HIDE DEF i
      <3> QED
        BY <3>1, <3>2 DEF IsRest
    <2>3. ASSUME IsRest(kinds, k, i, A) PROVE IsRest(kinds, k, j, A) \/ (~ on /\ r # 0 /\ A = i - r .. j)
      <3>1. PICK b \in 1 .. i, q \in 1 .. i :
              /\ q <= b /\ b < i /\ Begun(kinds, q, b) /\ ~ Cloud!IsSurface(kinds[b + 1])
              /\ Left(k, q, b) # 0 /\ A = b + 1 - Left(k, q, b) .. b
        BY <2>3 DEF IsRest
      <3>2. CASE b = j
        <4>1. q = a
          BY <3>1, <3>2, BegunOnce
        <4>2. Left(k, q, b) = r /\ b + 1 = i /\ b = j
          BY <3>2, <4>1
        <4>3. A = i - r .. j /\ r # 0
          <5>1. r \in Int
            BY <1>3
          <5>2. j + 1 - r = i - r
            BY <5>1
          <5> HIDE DEF r, i
          <5> QED
            BY <3>1, <4>2, <5>2
        <4>4. ~ on
          BY <3>1, <4>2
        <4> QED
          BY <4>3, <4>4
      <3>3. CASE b # j
        <4>1. b \in 1 .. j /\ q \in 1 .. j /\ b < j
          BY <3>1, <3>3
        <4> QED
          BY <3>1, <4>1 DEF IsRest
      <3> QED
        BY <3>2, <3>3
    <2> QED
      BY <2>1, <2>2, <2>3
  <1>8. r \in Nat /\ r < k /\ r <= i - a
    BY <1>1, <1>3 DEF d
  <1> HIDE DEF on, r
  <1> QED
    BY <1>1, <1>3, <1>4, <1>5, <1>6, <1>7, <1>8 DEF on, r

LEMMA SurfacesGather ==
  ASSUME NEW kinds, NEW k \in Nat \ {0}, NEW j \in Nat, NEW s, Gathered(kinds, k, j, s)
  PROVE  Gathered(kinds, k, j + 1, Cloud!Surfaced(kinds, k, j + 1, s))
  <1> DEFINE i == j + 1
             on == Cloud!IsSurface(kinds[i])
             surf == s.surf
             open == s.open
             new == Cloud!Surfaced(kinds, k, i, s)
  <1> SUFFICES Gathered(kinds, k, i, new)
    OBVIOUS
  <1>1. /\ surf \in Seq(SUBSET Nat) /\ open \in Nat /\ s \in Gatherings
        /\ \A m \in 1 .. Len(surf) : IsWhole(kinds, k, j, surf[m]) \/ IsRest(kinds, k, j, surf[m])
        /\ \A A : IsWhole(kinds, k, j, A) \/ IsRest(kinds, k, j, A) => \E m \in 1 .. Len(surf) : surf[m] = A
        /\ \A m \in 1 .. Len(surf) : \A x \in surf[m] : x <= j /\ (open # 0 => x < open)
        /\ \A m \in 1 .. Len(surf) - 1 : \A x \in surf[m], y \in surf[m + 1] : x < y
    BY DEF Gathered, Gatherings
  <1>2. PICK a \in 1 .. j + 1 : Begun(kinds, a, j) /\ open = OpenAt(k, a, j)
    BY DEF Gathered
  <1> DEFINE r == Left(k, a, j)
             start == IF open = 0 THEN i ELSE open
  <1>3. /\ r \in Nat /\ r < k /\ r <= i - a /\ a \in 1 .. i /\ i \in Nat
        /\ Left(k, a, i) = IF r = k - 1 THEN 0 ELSE r + 1
        /\ on => Begun(kinds, a, i)
        /\ ~ on => Begun(kinds, i + 1, i) /\ OpenAt(k, i + 1, i) = 0
        /\ \A A : IsWhole(kinds, k, i, A) <=> IsWhole(kinds, k, j, A) \/ (on /\ r = k - 1 /\ A = {i})
        /\ \A A : IsRest(kinds, k, i, A) <=> IsRest(kinds, k, j, A) \/ (~ on /\ r # 0 /\ A = i - r .. j)
    <2>1. /\ r \in Nat /\ r < k /\ r <= i - a /\ a \in 1 .. i
          /\ Left(k, a, i) = IF r = k - 1 THEN 0 ELSE r + 1
          /\ on => Begun(kinds, a, i)
          /\ ~ on => Begun(kinds, i + 1, i) /\ OpenAt(k, i + 1, i) = 0
          /\ \A A : IsWhole(kinds, k, i, A) <=> IsWhole(kinds, k, j, A) \/ (on /\ r = k - 1 /\ A = {i})
          /\ \A A : IsRest(kinds, k, i, A) <=> IsRest(kinds, k, j, A) \/ (~ on /\ r # 0 /\ A = i - r .. j)
      BY <1>2, DueGrows, Zenon
    <2>2. i \in Nat
      OBVIOUS
    <2> HIDE DEF i, r, on
    <2> QED
      BY <2>1, <2>2
  <1>4. open = (IF r = 0 THEN 0 ELSE i - r) /\ start = i - r
    <2>1. open = IF r = 0 THEN 0 ELSE j + 1 - r
      BY <1>2 DEF OpenAt
    <2>2. j + 1 - r = i - r /\ i - r >= 1 /\ i - 0 = i
      BY <1>3
    <2> HIDE DEF r, i
    <2> QED
      BY <2>1, <2>2
  <1>5. new = IF ~ on
              THEN [surf |-> IF open = 0 THEN surf ELSE Append(surf, open .. i - 1), open |-> 0]
              ELSE IF i = start + k - 1 THEN [surf |-> Append(surf, {i}), open |-> 0]
              ELSE [surf |-> surf, open |-> start]
    BY Zenon DEF Cloud!Surfaced
  <1>6. i - 1 = j /\ (i = start + k - 1 <=> r = k - 1)
    <2> HIDE DEF r, i, start
    <2>1. i = j + 1
      BY DEF i
    <2> QED
      BY <1>3, <1>4, <2>1
  <1>7. i = j + 1
    OBVIOUS
  <1> DEFINE Due(A) == IsWhole(kinds, k, i, A) \/ IsRest(kinds, k, i, A)
             Was(A) == IsWhole(kinds, k, j, A) \/ IsRest(kinds, k, j, A)
  <1> HIDE DEF on, r, start, surf, open, new, i
  <1>8. \A b, list, o : b \in 1 .. i + 1 /\ Begun(kinds, b, i) /\ o = OpenAt(k, b, i) /\ o \in Nat
                     /\ list \in Seq(SUBSET Nat)
                     /\ (\A m \in 1 .. Len(list) : Due(list[m]))
                     /\ (\A A : Due(A) => \E m \in 1 .. Len(list) : list[m] = A)
                     /\ (\A m \in 1 .. Len(list) : \A x \in list[m] : x <= i /\ (o # 0 => x < o))
                     /\ (\A m \in 1 .. Len(list) - 1 : \A x \in list[m], y \in list[m + 1] : x < y)
                   => Gathered(kinds, k, i, [surf |-> list, open |-> o])
    BY DEF Gathered, Gatherings
  <1>9. \A m \in 1 .. Len(surf) : \A x \in surf[m] : x \in Nat /\ x <= j /\ x <= i
    <2> TAKE m \in 1 .. Len(surf)
    <2>1. surf[m] \in SUBSET Nat
      BY <1>1, ElementOfSeq
    <2> QED
      BY <1>1, <1>7, <2>1
  <1>10. ASSUME \A A : Due(A) <=> Was(A), NEW b \in 1 .. i + 1, NEW o \in Nat,
                Begun(kinds, b, i), o = OpenAt(k, b, i), o = 0 \/ o = i - r,
                new = [surf |-> surf, open |-> o]
         PROVE  Gathered(kinds, k, i, new)
    <2>1. \A m \in 1 .. Len(surf) : \A x \in surf[m] : x <= i /\ (o # 0 => x < o)
      <3> TAKE m \in 1 .. Len(surf)
      <3> TAKE x \in surf[m]
      <3>1. x \in Nat /\ x <= j /\ (open # 0 => x < open)
        BY <1>1, <1>9
      <3>2. o # 0 => x < o
        BY <1>3, <1>4, <1>7, <1>10, <3>1
      <3> QED
        BY <1>9, <3>2
    <2>2. \A m \in 1 .. Len(surf) : Due(surf[m])
      BY <1>1, <1>10
    <2>3. \A A : Due(A) => \E m \in 1 .. Len(surf) : surf[m] = A
      BY <1>1, <1>10
    <2> HIDE DEF Due, Was
    <2>4. Gathered(kinds, k, i, [surf |-> surf, open |-> o])
      BY <1>1, <1>8, <1>10, <2>1, <2>2, <2>3
    <2> QED
      BY <1>10, <2>4
  <1>11. ASSUME NEW B \in SUBSET Nat, \A A : Due(A) <=> Was(A) \/ A = B, NEW b \in 1 .. i + 1,
                Begun(kinds, b, i), OpenAt(k, b, i) = 0,
                \A m \in 1 .. Len(surf) : \A x \in surf[m], y \in B : x < y, \A y \in B : y <= i,
                new = [surf |-> Append(surf, B), open |-> 0]
         PROVE  Gathered(kinds, k, i, new)
    <2> DEFINE list == Append(surf, B)
    <2>1. /\ list \in Seq(SUBSET Nat) /\ Len(list) = Len(surf) + 1 /\ Len(surf) \in Nat
          /\ \A m \in 1 .. Len(list) : (m \in 1 .. Len(surf) /\ list[m] = surf[m]) \/ list[m] = B
          /\ \A m \in 1 .. Len(surf) : m \in 1 .. Len(list) /\ list[m] = surf[m]
          /\ Len(list) \in 1 .. Len(list) /\ list[Len(list)] = B
          /\ \A m \in 1 .. Len(list) - 1 : \A x \in list[m], y \in list[m + 1] : x < y
      BY <1>1, <1>11, ListedSetsGrow
    <2> HIDE DEF list
    <2>6. PICK o \in Nat : o = 0
      OBVIOUS
    <2>2. \A m \in 1 .. Len(list) : \A x \in list[m] : x <= i /\ (o # 0 => x < o)
      BY <1>9, <1>11, <2>1, <2>6
    <2>3. \A m \in 1 .. Len(list) : Due(list[m])
      BY <1>1, <1>11, <2>1
    <2>4. \A A : Due(A) => \E m \in 1 .. Len(list) : list[m] = A
      <3> TAKE A
      <3> HAVE Due(A)
      <3>1. CASE A = B
        BY <2>1, <3>1
      <3>2. CASE Was(A)
        <4>1. PICK m \in 1 .. Len(surf) : surf[m] = A
          BY <1>1, <3>2
        <4> QED
          BY <2>1, <4>1
      <3> QED
        BY <1>11, <3>1, <3>2
    <2> HIDE DEF Due, Was
    <2>7. b \in 1 .. i + 1 /\ Begun(kinds, b, i) /\ o = OpenAt(k, b, i)
      BY <1>11, <2>6
    <2>5. Gathered(kinds, k, i, [surf |-> list, open |-> o])
      BY ONLY <1>8, <2>1, <2>2, <2>3, <2>4, <2>7
    <2> QED
      BY <1>11, <2>5, <2>6 DEF list
  <1>12. CASE ~ on
    <2>1. Begun(kinds, i + 1, i) /\ OpenAt(k, i + 1, i) = 0 /\ i + 1 \in 1 .. i + 1
      BY <1>3, <1>12
    <2>2. CASE r = 0
      <3>1. new = [surf |-> surf, open |-> 0]
        BY <1>4, <1>5, <1>12, <2>2
      <3>2. \A A : Due(A) <=> Was(A)
        BY <1>3, <1>12, <2>2
      <3> HIDE DEF Due, Was
      <3> QED
        BY <1>10, <2>1, <3>1, <3>2
    <2>3. CASE r # 0
      <3> DEFINE B == i - r .. j
      <3>1. open = i - r /\ open # 0 /\ i - r \in Nat
        BY <1>3, <1>4, <2>3
      <3>2. new = [surf |-> Append(surf, B), open |-> 0]
        BY <1>5, <1>6, <1>12, <3>1
      <3>3. \A A : Due(A) <=> Was(A) \/ A = B
        BY <1>3, <1>12, <2>3
      <3>4. B \in SUBSET Nat /\ \A y \in B : y <= i /\ i - r <= y
        BY <1>7, <3>1
      <3>5. \A m \in 1 .. Len(surf) : \A x \in surf[m], y \in B : x < y
        <4> HIDE DEF B
        <4> TAKE m \in 1 .. Len(surf)
        <4> TAKE x \in surf[m], y \in B
        <4>1. x \in Nat /\ x < i - r
          BY <1>1, <1>9, <3>1
        <4>2. y \in Nat /\ i - r <= y
          BY <3>4
        <4> QED
          BY <3>1, <4>1, <4>2
      <3> HIDE DEF Due, Was, B
      <3> QED
        BY <1>11, <2>1, <3>2, <3>3, <3>4, <3>5
    <2> QED
      BY <2>2, <2>3
  <1>13. CASE on
    <2>1. Begun(kinds, a, i) /\ a \in 1 .. i + 1
      BY <1>3, <1>13
    <2>2. CASE r = k - 1
      <3> DEFINE B == {i}
      <3>1. new = [surf |-> Append(surf, B), open |-> 0]
        BY <1>5, <1>6, <1>13, <2>2
      <3>2. \A A : Due(A) <=> Was(A) \/ A = B
        BY <1>3, <1>13, <2>2
      <3>3. OpenAt(k, a, i) = 0
        BY <1>3, <2>2 DEF OpenAt
      <3>4. B \in SUBSET Nat /\ \A y \in B : y <= i
        BY <1>3
      <3>5. \A m \in 1 .. Len(surf) : \A x \in surf[m], y \in B : x < y
        BY <1>7, <1>9
      <3> HIDE DEF Due, Was, B
      <3> QED
        BY <1>11, <2>1, <3>1, <3>2, <3>3, <3>4, <3>5
    <2>3. CASE r # k - 1
      <3>1. new = [surf |-> surf, open |-> i - r]
        BY <1>4, <1>5, <1>6, <1>13, <2>3
      <3>2. \A A : Due(A) <=> Was(A)
        BY <1>3, <1>13, <2>3
      <3>3. OpenAt(k, a, i) = i - r /\ i - r \in Nat
        <4>1. Left(k, a, i) = r + 1 /\ r + 1 # 0 /\ i + 1 - (r + 1) = i - r /\ i - r \in Nat
          BY <1>3, <2>3
        <4> QED
          BY <4>1 DEF OpenAt
      <3> HIDE DEF Due, Was
      <3> QED
        BY <1>10, <2>1, <3>1, <3>2, <3>3
    <2> QED
      BY <2>2, <2>3
  <1> QED
    BY <1>12, <1>13

LEMMA SurfaceIs ==
  ASSUME NEW kinds, IsSequence(kinds), NEW k \in Nat \ {0}
  PROVE  \E s : Gathered(kinds, k, Len(kinds), s) /\ Cloud!Surf(kinds, k) = s.surf
  <1> DEFINE n == Len(kinds)
             V == Gatherings
             base == [surf |-> <<>>, open |-> 0]
             Next(i, v) == Cloud!Surfaced(kinds, k, i, v)
             Loop(r) == [i \in 0 .. n |-> IF i = 0 THEN [surf |-> <<>>, open |-> 0]
                                           ELSE Cloud!Surfaced(kinds, k, i, r[i - 1])]
             h == CHOOSE r : r = Loop(r)
             step == [p \in (1 .. n) \X V |-> Next(p[1], p[2])]
  <1>1. Cloud!Surf(kinds, k) = h[n].surf
    BY DEF Cloud!Surf
  <1>2. n \in Nat /\ base \in V
    <2>1. n \in Nat
      BY DEF IsSequence
    <2>2. <<>> \in Seq(SUBSET Nat)
      BY EmptySeq
    <2> QED
      BY <2>1, <2>2 DEF Gatherings
  <1>3. step \in [(1 .. n) \X V -> V] /\ \A i \in 1 .. n : \A v \in V : step[<<i, v>>] = Next(i, v)
    <2>1. ASSUME NEW i \in 1 .. n, NEW v \in V PROVE Next(i, v) \in V
      <3>1. v.surf \in Seq(SUBSET Nat) /\ v.open \in Nat /\ i \in Nat
        BY DEF Gatherings
      <3>2. v.open .. i - 1 \in SUBSET Nat /\ {i} \in SUBSET Nat
        BY <3>1
      <3>3. Append(v.surf, v.open .. i - 1) \in Seq(SUBSET Nat) /\ Append(v.surf, {i}) \in Seq(SUBSET Nat)
        BY <3>1, <3>2, AppendProperties
      <3> QED
        BY <3>1, <3>3 DEF Cloud!Surfaced, Gatherings
    <2> HIDE DEF V, Next
    <2> QED
      BY <2>1
  <1>4. \A r : Loop(r) = [m \in 0 .. n |-> IF m = 0 THEN base ELSE Next(m, r[m - 1])]
    OBVIOUS
  <1>0. base = [surf |-> <<>>, open |-> 0] /\ \A i, v : Next(i, v) = Cloud!Surfaced(kinds, k, i, v)
    OBVIOUS
  <1> HIDE DEF step, V, base, Next, n, Loop
  <1>5. PICK f : Loops(f, n, V, base, step)
    BY <1>2, <1>3, Recursion
  <1>6. f = Loop(f)
    <2>1. f = [i \in 0 .. n |-> f[i]] /\ f[0] = base /\ \A i \in 1 .. n : f[i] = step[<<i, f[i - 1]>>]
      BY <1>5 DEF Loops
    <2>2. \A i \in 1 .. n : f[i - 1] \in V
      BY <1>2, <1>5 DEF Loops
    <2>3. \A i \in 1 .. n : f[i] = Next(i, f[i - 1])
      BY <1>3, <2>1, <2>2
    <2>4. \A i \in 0 .. n : i = 0 \/ i \in 1 .. n
      BY <1>2
    <2>5. f = [m \in 0 .. n |-> IF m = 0 THEN base ELSE Next(m, f[m - 1])]
      BY <2>1, <2>3, <2>4
    <2> QED
      BY <1>4, <2>5
  <1>7. h = Loop(h)
    BY <1>6
  <1> HIDE DEF h
  <1>8. h = [i \in 0 .. n |-> h[i]] /\ h[0] = base /\ \A i \in 1 .. n : h[i] = Next(i, h[i - 1])
    <2>1. h = [m \in 0 .. n |-> IF m = 0 THEN base ELSE Next(m, h[m - 1])]
      BY <1>4, <1>7
    <2>2. \A i \in 0 .. n : h[i] = IF i = 0 THEN base ELSE Next(i, h[i - 1])
      BY <2>1
    <2>3. 0 \in 0 .. n /\ \A i \in 1 .. n : i \in 0 .. n /\ i # 0
      BY <1>2
    <2>4. h[0] = base /\ \A i \in 1 .. n : h[i] = Next(i, h[i - 1])
      BY <2>2, <2>3
    <2>5. h = [i \in 0 .. n |-> h[i]]
      BY <2>1
    <2> QED
      BY <2>4, <2>5
  <1>9. Loops(h, n, V, base, step)
    <2>1. \A i \in 1 .. n : h[i - 1] \in V => h[i] = step[<<i, h[i - 1]>>]
      BY <1>3, <1>8
    <2> QED
      BY <1>2, <1>3, <1>8, <2>1, LoopRuns
  <1> DEFINE P == {i \in 0 .. n : Gathered(kinds, k, i, h[i])}
  <1>10. 0 .. n \subseteq P
    <2>1. 0 \in P
      <3>1. base.surf = <<>> /\ base.open = 0 /\ base \in Gatherings /\ Len(<<>>) = 0
        BY <1>0, <1>2, EmptySeq DEF V
      <3>2. Begun(kinds, 1, 0) /\ 1 \in 1 .. 0 + 1
        BY DEF Begun
      <3>3. OpenAt(k, 1, 0) = 0
        <4>1. 0 + 1 - 1 = 0 /\ 0 % k = 0
          BY CountsGoOn
        <4> QED
          BY <4>1 DEF OpenAt, Left
      <3>4. \A A : ~ IsWhole(kinds, k, 0, A) /\ ~ IsRest(kinds, k, 0, A)
        BY DEF IsWhole, IsRest
      <3>5. Gathered(kinds, k, 0, base)
        BY <3>1, <3>2, <3>3, <3>4 DEF Gathered
      <3> QED
        BY <1>2, <1>8, <3>5
    <2>2. ASSUME NEW i \in 0 .. n, i # n, i \in P
          PROVE  i + 1 \in P
      <3>1. i + 1 \in 1 .. n /\ (i + 1) - 1 = i /\ i + 1 \in 0 .. n /\ i \in Nat
        BY <1>2, <2>2
      <3>2. h[i + 1] = Cloud!Surfaced(kinds, k, i + 1, h[i])
        BY <1>0, <1>8, <3>1
      <3>3. Gathered(kinds, k, i, h[i])
        BY <2>2
      <3>4. Gathered(kinds, k, i + 1, h[i + 1])
        BY <3>1, <3>2, <3>3, SurfacesGather
      <3> QED
        BY <3>1, <3>4
    <2> HIDE DEF P
    <2> QED
      BY <1>2, <2>1, <2>2, Induction
  <1>11. Gathered(kinds, k, n, h[n])
    BY <1>2, <1>10
  <1> QED
    BY <1>1, <1>11 DEF n

LEMMA SurfacesAreAlwaysThinned ==
  ASSUME NEW kinds, IsSequence(kinds), NEW k \in Nat \ {0}
  PROVE  Cloud!SurfacesAreThinned(kinds, k)
  <1> DEFINE n == Len(kinds)
             on(i) == Cloud!IsSurface(kinds[i])
             runs == {r \in (1 .. n) \X (1 .. n) :
                        /\ r[1] <= r[2] /\ \A j \in r[1] .. r[2] : on(j)
                        /\ r[1] > 1 => ~ on(r[1] - 1)
                        /\ r[2] < n => ~ on(r[2] + 1)}
             wholes(r) == {{j} : j \in {i \in r[1] .. r[2] : (i - r[1] + 1) % k = 0}}
             rest(r) == {j \in r[1] .. r[2] : j > r[2] - ((r[2] - r[1] + 1) % k)}
             whole == UNION {wholes(r) : r \in runs}
             rests == {rest(r) : r \in {q \in runs : q[2] < n}}
             surf == Cloud!Surf(kinds, k)
  <1>1. n \in Nat
    BY DEF IsSequence
  <1>2. PICK s : Gathered(kinds, k, n, s) /\ surf = s.surf
    BY SurfaceIs
  <1> DEFINE Due(A) == IsWhole(kinds, k, n, A) \/ IsRest(kinds, k, n, A)
  <1> HIDE DEF surf
  <1>3. /\ surf \in Seq(SUBSET Nat)
        /\ \A m \in 1 .. Len(surf) : Due(surf[m])
        /\ \A A : Due(A) => \E m \in 1 .. Len(surf) : surf[m] = A
        /\ \A m \in 1 .. Len(surf) - 1 : \A x \in surf[m], y \in surf[m + 1] : x < y
    BY <1>2 DEF Gathered, Gatherings
  <1>4. \A A : A \in Cloud!Entries(surf) <=> Due(A)
    <2>1. DOMAIN surf = 1 .. Len(surf)
      BY <1>3
    <2> HIDE DEF Due
    <2> QED
      BY <1>3, <2>1 DEF Cloud!Entries
  <1>5. \A a, b : <<a, b>> \in runs <=>
           a \in 1 .. n /\ b \in 1 .. n /\ a <= b /\ Begun(kinds, a, b) /\ (b < n => ~ on(b + 1))
    <2> TAKE a, b
    <2>1. a \in 1 .. n /\ b \in 1 .. n /\ a <= b => a \in 1 .. b + 1
      OBVIOUS
    <2>2. <<a, b>> \in runs <=>
            /\ a \in 1 .. n /\ b \in 1 .. n /\ a <= b /\ \A j \in a .. b : on(j)
            /\ a > 1 => ~ on(a - 1)
            /\ b < n => ~ on(b + 1)
      OBVIOUS
    <2> QED
      BY <2>1, <2>2 DEF Begun
  <1>6. \A r \in runs : r = <<r[1], r[2]>> /\ r[1] \in 1 .. n /\ r[2] \in 1 .. n
    OBVIOUS
  <1>7. \A a, i \in 1 .. n : Left(k, a, i) = (i - a + 1) % k
    <2> TAKE a, i \in 1 .. n
    <2>1. i + 1 - a = i - a + 1
      OBVIOUS
    <2> QED
      BY <2>1, Zenon DEF Left
  <1> HIDE DEF runs, on, n
  <1>8. \A A : A \in whole <=> IsWhole(kinds, k, n, A)
    <2> TAKE A
    <2>1. ASSUME A \in whole PROVE IsWhole(kinds, k, n, A)
      <3>1. PICK r \in runs : A \in wholes(r)
        BY <2>1
      <3>2. PICK i \in r[1] .. r[2] : (i - r[1] + 1) % k = 0 /\ A = {i}
        BY <3>1
      <3> DEFINE a == r[1]
                 b == r[2]
      <3>3. a \in 1 .. n /\ b \in 1 .. n /\ Begun(kinds, a, b) /\ i \in a .. b
        BY <1>5, <1>6, <3>2
      <3>4. i \in 1 .. n /\ a <= i /\ Left(k, a, i) = 0
        <4>1. i \in 1 .. n /\ a <= i
          BY <1>1, <3>3
        <4> QED
          BY <1>7, <3>2, <3>3, <4>1
      <3>5. Begun(kinds, a, i)
        <4> HIDE DEF a, b
        <4>1. a \in 1 .. i + 1 /\ \A x \in a .. i : x \in a .. b
          BY <1>1, <3>3, <3>4
        <4> QED
          BY <3>3, <4>1 DEF Begun
      <3> HIDE DEF a, b
      <3> QED
        BY <3>2, <3>3, <3>4, <3>5 DEF IsWhole
    <2>2. ASSUME IsWhole(kinds, k, n, A) PROVE A \in whole
      <3>1. PICK i \in 1 .. n, a \in 1 .. n : a <= i /\ Begun(kinds, a, i) /\ Left(k, a, i) = 0 /\ A = {i}
        BY <2>2 DEF IsWhole
      <3> DEFINE E == {e \in i .. n : e = n \/ ~ on(e + 1)}
      <3>2. n \in E /\ E \in SUBSET Nat
        BY <1>1, <3>1
      <3>3. PICK b \in E : \A e \in E : b <= e
        <4> HIDE DEF E
        <4> QED
          BY <3>2, LeastExists
      <3>4. b \in i .. n /\ (b = n \/ ~ on(b + 1)) /\ b \in 1 .. n /\ a <= b
        BY <1>1, <3>1, <3>3
      <3>5. \A x \in a .. b : on(x)
        <4> TAKE x \in a .. b
        <4>1. CASE x <= i
          <5>1. x \in a .. i
            BY <1>1, <3>1, <3>4, <4>1
          <5> QED
            BY <3>1, <5>1 DEF Begun, on
        <4>2. CASE i < x
          <5>1. x - 1 \in i .. n /\ x - 1 # n /\ ~ (b <= x - 1) /\ (x - 1) + 1 = x
            BY <1>1, <3>1, <3>4, <4>2
          <5>2. x - 1 \notin E
            BY <3>3, <5>1
          <5> QED
            BY <5>1, <5>2
        <4> QED
          BY <1>1, <3>1, <3>4, <4>1, <4>2
      <3>6. <<a, b>> \in runs
        <4>1. Begun(kinds, a, b)
          <5>1. a \in 1 .. b + 1
            BY <1>1, <3>1, <3>4
          <5> QED
            BY <3>1, <3>5, <5>1 DEF Begun, on
        <4>2. b < n => ~ on(b + 1)
          BY <1>1, <3>4
        <4> QED
          BY <1>5, <3>1, <3>4, <4>1, <4>2
      <3>7. A \in wholes(<<a, b>>)
        <4>1. i \in a .. b /\ (i - a + 1) % k = 0
          <5>1. i \in a .. b
            BY <1>1, <3>1, <3>4
          <5>2. (i - a + 1) % k = 0
            BY <1>7, <3>1
          <5> QED
            BY <5>1, <5>2
        <4> QED
          BY <3>1, <4>1
      <3> HIDE DEF wholes
      <3> QED
        BY <3>6, <3>7
    <2> QED
      BY <2>1, <2>2
  <1>9. \A a, b \in 1 .. n : a <= b => rest(<<a, b>>) = b + 1 - Left(k, a, b) .. b
    <2> SUFFICES ASSUME NEW a \in 1 .. n, NEW b \in 1 .. n, a <= b
                 PROVE  {j \in a .. b : j > b - ((b - a + 1) % k)} = b + 1 - Left(k, a, b) .. b
      OBVIOUS
    <2> DEFINE l == Left(k, a, b)
    <2>1. l = (b - a + 1) % k
      BY <1>7
    <2>2. l \in Nat /\ l <= b - a + 1 /\ a \in Nat /\ b \in Nat
      <3>1. a \in Nat /\ b \in Nat /\ b - a + 1 \in Nat
        BY <1>1
      <3> DEFINE d == b - a + 1
      <3>2. d % k \in 0 .. k - 1 /\ d % k <= d
        BY <3>1, CountsGoOn
      <3> HIDE DEF l
      <3> QED
        BY <2>1, <3>1, <3>2
    <2> HIDE DEF l
    <2>3. {j \in a .. b : j > b - l} = b + 1 - l .. b
      BY <2>2
    <2> QED
      BY <2>1, <2>3 DEF l
  <1>10. \A A : A \in rests \ {{}} <=> IsRest(kinds, k, n, A)
    <2> TAKE A
    <2>0. \A a, b \in 1 .. n : a <= b => Left(k, a, b) \in Nat
      <3> TAKE a, b \in 1 .. n
      <3> HAVE a <= b
      <3> DEFINE d == b - a + 1
      <3>1. d \in Nat
        BY <1>1
      <3> HIDE DEF d
      <3>2. d % k \in 0 .. k - 1
        BY <3>1, CountsGoOn
      <3> QED
        BY <1>7, <3>2 DEF d
    <2>1. ASSUME A \in rests, A # {} PROVE IsRest(kinds, k, n, A)
      <3>1. PICK r \in runs : r[2] < n /\ A = rest(r)
        BY <2>1
      <3> DEFINE a == r[1]
                 b == r[2]
      <3>2. r = <<a, b>> /\ a \in 1 .. n /\ b \in 1 .. n /\ a <= b /\ Begun(kinds, a, b) /\ ~ on(b + 1) /\ b < n
        BY <1>5, <1>6, <3>1
      <3>3. A = b + 1 - Left(k, a, b) .. b
        BY <1>9, <3>1, <3>2
      <3> HIDE DEF a, b
      <3>4. Left(k, a, b) # 0
        <4> SUFFICES ASSUME Left(k, a, b) = 0 PROVE FALSE
          OBVIOUS
        <4>1. A = b + 1 - 0 .. b
          BY <3>3
        <4>2. b + 1 - 0 .. b = {}
          BY <1>1, <3>2
        <4> QED
          BY <2>1, <4>1, <4>2
      <3> QED
        BY <3>2, <3>3, <3>4 DEF IsRest, on
    <2>2. ASSUME IsRest(kinds, k, n, A) PROVE A \in rests /\ A # {}
      <3>1. PICK b \in 1 .. n, a \in 1 .. n :
              /\ a <= b /\ b < n /\ Begun(kinds, a, b) /\ ~ Cloud!IsSurface(kinds[b + 1])
              /\ Left(k, a, b) # 0 /\ A = b + 1 - Left(k, a, b) .. b
        BY <2>2 DEF IsRest
      <3> DEFINE r == <<a, b>>
      <3>2. r \in runs /\ r[2] < n
        BY <1>5, <3>1 DEF on
      <3>3. A = rest(r)
        BY <1>9, <3>1
      <3>4. A # {}
        <4> DEFINE l == Left(k, a, b)
        <4>1. l \in Nat /\ l # 0 /\ A = b + 1 - l .. b
          BY <2>0, <3>1
        <4> HIDE DEF l
        <4>2. b \in b + 1 - l .. b
          BY <1>1, <4>1
        <4> QED
          BY <4>1, <4>2
      <3> HIDE DEF rest, r
      <3> QED
        BY <3>2, <3>3, <3>4
    <2> HIDE DEF rests
    <2> QED
      BY <2>1, <2>2
  <1>11. Cloud!Entries(surf) = (whole \cup rests) \ {{}}
    <2>1. \A A : A \in whole => A # {}
      BY <1>8 DEF IsWhole
    <2> HIDE DEF whole, rests
    <2> QED
      BY <1>4, <1>8, <1>10, <2>1
  <1>12. \A m \in 1 .. Len(surf) - 1 : \A x \in surf[m], y \in surf[m + 1] : x < y
    BY <1>3
  <1> QED
    BY <1>11, <1>12, Zenon DEF Cloud!SurfacesAreThinned, surf, runs, on, n

\* What is remembered of the rings of a scan.
Rings(scan) == {scan[j].ring : j \in DOMAIN scan}
Remembered(scan) == [Rings(scan) -> [seen : BOOLEAN, first : Int, last : Int]]

LEMMA SweptIs ==
  ASSUME NEW m, m.first \in Int, m.last \in Int, NEW yaw \in Int
  PROVE  Cloud!Swept(m, yaw) \in Int
  BY DEF Cloud!Swept, Cloud!Turn

LEMMA PassedIs ==
  ASSUME NEW scan, IsScan(scan), NEW i \in DOMAIN scan, NEW memory \in Remembered(scan)
  PROVE  LET r == scan[i].ring
             new == Cloud!Passed(memory, scan[i])
         IN  /\ new \in Remembered(scan) /\ r \in Rings(scan)
             /\ \A q \in Rings(scan) : q # r => new[q] = memory[q]
             /\ new[r].seen
             /\ ~ memory[r].seen => new[r].first = scan[i].yaw /\ new[r].last = 0
             /\ memory[r].seen => /\ new[r].first = memory[r].first
                                  /\ new[r].last = Cloud!Swept(memory[r], scan[i].yaw)
  <1> DEFINE r == scan[i].ring
             p == scan[i]
             M == [seen : BOOLEAN, first : Int, last : Int]
             new == Cloud!Passed(memory, p)
             t == Cloud!Swept(memory[r], p.yaw)
  <1>1. r \in Rings(scan) /\ p.yaw \in Int /\ memory \in [Rings(scan) -> M]
    BY DEF Rings, IsScan, Remembered
  <1>2. memory[r] \in M
    BY <1>1
  <1>3. t \in Int
    BY <1>1, <1>2, SweptIs
  <1>4. new = IF ~ memory[r].seen
              THEN [memory EXCEPT ![r] = [seen |-> TRUE, first |-> p.yaw, last |-> 0]]
              ELSE [memory EXCEPT ![r].last = t]
    BY Zenon DEF Cloud!Passed
  <1> HIDE DEF new, t, r, p
  <1>5. CASE ~ memory[r].seen
    <2> DEFINE one == [seen |-> TRUE, first |-> p.yaw, last |-> 0]
    <2>1. one \in M
      BY <1>1
    <2>2. new = [memory EXCEPT ![r] = one]
      BY <1>4, <1>5
    <2>3. one.seen /\ one.first = p.yaw /\ one.last = 0
      OBVIOUS
    <2> HIDE DEF one, M
    <2>4. /\ new \in [Rings(scan) -> M] /\ new[r] = one
          /\ \A q \in Rings(scan) : q # r => new[q] = memory[q]
      BY <1>1, <2>1, <2>2
    <2> QED
      BY <1>1, <1>5, <2>3, <2>4 DEF r, p, new, t, Remembered, M
  <1>6. CASE memory[r].seen
    <2> DEFINE one == [memory[r] EXCEPT !.last = t]
    <2>1. one \in M /\ one.seen = memory[r].seen /\ one.first = memory[r].first /\ one.last = t
      BY <1>2, <1>3
    <2>2. new = [memory EXCEPT ![r] = one]
      BY <1>4, <1>6
    <2> HIDE DEF one, M
    <2>4. /\ new \in [Rings(scan) -> M] /\ new[r] = one
          /\ \A q \in Rings(scan) : q # r => new[q] = memory[q]
      BY <1>1, <2>1, <2>2
    <2> QED
      BY <1>1, <1>6, <2>1, <2>4 DEF r, p, new, t, Remembered, M
  <1>7. memory[r].seen \in BOOLEAN
    BY <1>2
  <1> QED
    BY <1>5, <1>6, <1>7 DEF r

LEMMA MemoriesAre ==
  ASSUME NEW scan, IsScan(scan)
  PROVE  LET h == Cloud!Memories(scan)
         IN  /\ \A i \in 0 .. Len(scan) : h[i] \in Remembered(scan)
             /\ \A r \in Rings(scan) : ~ h[0][r].seen
             /\ \A i \in 1 .. Len(scan) : h[i] = Cloud!Passed(h[i - 1], scan[i])
  <1> DEFINE n == Len(scan)
             V == Remembered(scan)
             base == [r \in Rings(scan) |-> Cloud!NoMemory]
             Next(i, v) == Cloud!Passed(v, scan[i])
             Loop(r) == [i \in 0 .. n |->
                IF i = 0 THEN [q \in {scan[j].ring : j \in DOMAIN scan} |-> Cloud!NoMemory]
                ELSE Cloud!Passed(r[i - 1], scan[i])]
             h == CHOOSE r : r = Loop(r)
             step == [p \in (1 .. n) \X V |-> Next(p[1], p[2])]
  <1>1. Cloud!Memories(scan) = h
    BY DEF Cloud!Memories
  <1>2. n \in Nat /\ base \in V
    <2>1. n \in Nat
      BY DEF IsScan, IsSequence
    <2>2. Cloud!NoMemory \in [seen : BOOLEAN, first : Int, last : Int]
      BY DEF Cloud!NoMemory
    <2> QED
      BY <2>1, <2>2 DEF Remembered
  <1>3. step \in [(1 .. n) \X V -> V] /\ \A i \in 1 .. n : \A v \in V : step[<<i, v>>] = Next(i, v)
    <2>1. ASSUME NEW i \in 1 .. n, NEW v \in V PROVE Next(i, v) \in V
      <3>1. i \in DOMAIN scan
        BY DEF IsScan, IsSequence
      <3> QED
        BY <3>1, PassedIs
    <2> HIDE DEF V, Next
    <2> QED
      BY <2>1
  <1>4. \A r : Loop(r) = [m \in 0 .. n |-> IF m = 0 THEN base ELSE Next(m, r[m - 1])]
    BY DEF Rings
  <1>0. /\ \A i, v : Next(i, v) = Cloud!Passed(v, scan[i])
        /\ \A r \in Rings(scan) : ~ base[r].seen
    BY DEF Cloud!NoMemory
  <1> HIDE DEF step, V, base, Next, n, Loop
  <1>5. PICK f : Loops(f, n, V, base, step)
    BY <1>2, <1>3, Recursion
  <1>6. f = Loop(f)
    <2>1. f = [i \in 0 .. n |-> f[i]] /\ f[0] = base /\ \A i \in 1 .. n : f[i] = step[<<i, f[i - 1]>>]
      BY <1>5 DEF Loops
    <2>2. \A i \in 1 .. n : f[i - 1] \in V
      BY <1>2, <1>5 DEF Loops
    <2>3. \A i \in 1 .. n : f[i] = Next(i, f[i - 1])
      BY <1>3, <2>1, <2>2
    <2>4. \A i \in 0 .. n : i = 0 \/ i \in 1 .. n
      BY <1>2
    <2>5. f = [m \in 0 .. n |-> IF m = 0 THEN base ELSE Next(m, f[m - 1])]
      BY <2>1, <2>3, <2>4
    <2> QED
      BY <1>4, <2>5
  <1>7. h = Loop(h)
    BY <1>6
  <1> HIDE DEF h
  <1>8. h = [i \in 0 .. n |-> h[i]] /\ h[0] = base /\ \A i \in 1 .. n : h[i] = Next(i, h[i - 1])
    <2>1. h = [m \in 0 .. n |-> IF m = 0 THEN base ELSE Next(m, h[m - 1])]
      BY <1>4, <1>7
    <2>2. \A i \in 0 .. n : h[i] = IF i = 0 THEN base ELSE Next(i, h[i - 1])
      BY <2>1
    <2>3. 0 \in 0 .. n /\ \A i \in 1 .. n : i \in 0 .. n /\ i # 0
      BY <1>2
    <2>4. h[0] = base /\ \A i \in 1 .. n : h[i] = Next(i, h[i - 1])
      BY <2>2, <2>3
    <2>5. h = [i \in 0 .. n |-> h[i]]
      BY <2>1
    <2> QED
      BY <2>4, <2>5
  <1>9. Loops(h, n, V, base, step)
    <2>1. \A i \in 1 .. n : h[i - 1] \in V => h[i] = step[<<i, h[i - 1]>>]
      BY <1>3, <1>8
    <2> QED
      BY <1>2, <1>3, <1>8, <2>1, LoopRuns
  <1>10. \A i \in 0 .. n : h[i] \in V
    BY <1>9 DEF Loops
  <1>11. \A i \in 1 .. n : h[i] = Cloud!Passed(h[i - 1], scan[i])
    BY <1>0, <1>8
  <1>12. \A r \in Rings(scan) : ~ h[0][r].seen
    BY <1>0, <1>8
  <1> QED
    BY <1>1, <1>10, <1>11, <1>12 DEF V, n

\* The first point of a ring, and the last of it so far.
FirstOf(scan, r) == CHOOSE f \in DOMAIN scan : scan[f].ring = r /\ \A j \in 1 .. f - 1 : scan[j].ring # scan[f].ring
Unseen(scan, r, n) == \A j \in 1 .. n : scan[j].ring # r
Latest(scan, r, j, n) == j \in 1 .. n /\ scan[j].ring = r /\ \A l \in j + 1 .. n : scan[l].ring # r
Angled(scan, angles) ==
  /\ IsScan(scan) /\ angles \in [DOMAIN scan -> Int]
  /\ \A i \in DOMAIN scan : scan[i].yaw \in 1 - Cloud!Turn \div 2 .. Cloud!Turn \div 2
  /\ \A i, j \in DOMAIN scan : (scan[i].yaw + angles[i] - scan[j].yaw - angles[j]) % Cloud!Turn = 0
Turned(scan, angles, i) == angles[i] - angles[FirstOf(scan, scan[i].ring)]
Steady(scan, angles) ==
  \A i \in DOMAIN scan :
    /\ Turned(scan, angles, i) < 2 * Cloud!Turn
    /\ \A j \in 1 .. i - 1 : (scan[j].ring = scan[i].ring /\ \A l \in j + 1 .. i - 1 : scan[l].ring # scan[i].ring)
           => Turned(scan, angles, i) - Turned(scan, angles, j) \in 0 .. Cloud!Turn - 1
Remembers(scan, angles, n, m, r) ==
  \/ ~ m.seen /\ Unseen(scan, r, n)
  \/ /\ m.seen /\ m.first = scan[FirstOf(scan, r)].yaw /\ m.last >= 0
     /\ \E j \in 1 .. n : Latest(scan, r, j, n) /\ m.last = Turned(scan, angles, j)

LEMMA FirstsAre ==
  ASSUME NEW scan, IsScan(scan), NEW i \in DOMAIN scan
  PROVE  /\ FirstOf(scan, scan[i].ring) \in DOMAIN scan
         /\ Unseen(scan, scan[i].ring, i - 1) => FirstOf(scan, scan[i].ring) = i
  <1> DEFINE r == scan[i].ring
             n == Len(scan)
             S == {j \in 1 .. n : scan[j].ring = r}
  <1>1. n \in Nat /\ DOMAIN scan = 1 .. n
    BY DEF IsScan, IsSequence
  <1>2. S # {} /\ S \in SUBSET Nat
    BY <1>1
  <1>3. PICK f \in S : \A x \in S : f <= x
    <2> HIDE DEF S
    <2> QED
      BY <1>2, LeastExists
  <1> DEFINE Is(g) == scan[g].ring = r /\ \A j \in 1 .. g - 1 : scan[j].ring # r
  <1>4. f \in DOMAIN scan /\ Is(f)
    <2>1. ASSUME NEW j \in 1 .. f - 1 PROVE scan[j].ring # r
      <3>1. j \in 1 .. n /\ ~ (f <= j)
        BY <1>1, <1>3
      <3> QED
        BY <1>3, <3>1
    <2> QED
      BY <1>1, <1>3, <2>1
  <1> DEFINE F == FirstOf(scan, r)
  <1>5. F \in DOMAIN scan /\ Is(F)
    BY <1>4 DEF FirstOf
  <1>6. ASSUME Unseen(scan, r, i - 1) PROVE F = i
    <2> HIDE DEF F, r
    <2>1. \A j \in 1 .. i - 1 : scan[j].ring # r
      BY <1>6 DEF Unseen
    <2>2. ~ (F < i)
      <3> SUFFICES ASSUME F < i PROVE FALSE
        OBVIOUS
      <3>1. F \in 1 .. i - 1
        BY <1>1, <1>5
      <3> QED
        BY <1>5, <2>1, <3>1
    <2>3. ~ (i < F)
      <3> SUFFICES ASSUME i < F PROVE FALSE
        OBVIOUS
      <3>1. i \in 1 .. F - 1 /\ scan[i].ring = r
        BY <1>1, <1>5 DEF r
      <3> QED
        BY <1>5, <3>1
    <2> QED
      BY <1>1, <1>5, <2>2, <2>3
  <1> QED
    BY <1>5, <1>6

\* A sweep of less than two turns is told from the yaws, if it has not gone on
\* by a turn since the last point.
LEMMA SweepsAreTold ==
  ASSUME NEW m, m.first \in -5 .. 6, m.last \in Int, NEW y \in -5 .. 6, NEW d \in Int,
         (y - m.first + d) % 12 = 0, 0 <= m.last, d - m.last \in 0 .. 11, d < 24
  PROVE  Cloud!Swept(m, y) = d
  <1>0. PICK y0 \in -5 .. 6, last \in Int : y0 = m.first /\ last = m.last
    OBVIOUS
  <1>a. PICK e \in Int : e = y - y0 + d /\ e % 12 = 0 /\ 0 <= last /\ d - last \in 0 .. 11
    BY <1>0
  <1> DEFINE q == e \div 12
  <1>1. q \in Int /\ e = 12 * q
    BY <1>a
  <1> HIDE DEF q
  <1>2. e \in -11 .. 34
    BY <1>a
  <1>3. q = 0 \/ q = 1 \/ q = 2
    BY <1>1, <1>2
  <1>4. e = 0 \/ e = 12 \/ e = 24
    BY <1>1, <1>3
  <1>5. Cloud!Swept(m, y) = LET time == IF y <= y0 THEN y0 - y ELSE y0 - y + 12
                            IN  IF time < last THEN time + 12 ELSE time
    BY <1>0 DEF Cloud!Swept, Cloud!Turn
  <1> DEFINE time == IF y <= y0 THEN y0 - y ELSE y0 - y + 12
  <1>6. time \in 0 .. 11 /\ (d = time \/ d = time + 12)
    BY <1>4, <1>a
  <1> HIDE DEF time
  <1>7. (IF time < last THEN time + 12 ELSE time) = d
    BY <1>6, <1>a
  <1> QED
    BY <1>5, <1>7 DEF time

\* What is remembered before a point tells how far its ring has turned, and is
\* passed on.
LEMMA SweepGoesOn ==
  ASSUME NEW scan, NEW angles, Angled(scan, angles), Steady(scan, angles), NEW i \in DOMAIN scan,
         NEW memory \in Remembered(scan),
         \A r \in Rings(scan) : Remembers(scan, angles, i - 1, memory[r], r)
  PROVE  /\ memory[scan[i].ring].seen => Cloud!Swept(memory[scan[i].ring], scan[i].yaw) = Turned(scan, angles, i)
         /\ \A r \in Rings(scan) : Remembers(scan, angles, i, Cloud!Passed(memory, scan[i])[r], r)
  <1> DEFINE s == scan[i].ring
             y == scan[i].yaw
             n == Len(scan)
             new == Cloud!Passed(memory, scan[i])
             F == FirstOf(scan, s)
  <1>1. n \in Nat /\ DOMAIN scan = 1 .. n /\ i \in 1 .. n /\ IsScan(scan)
    BY DEF Angled, IsScan, IsSequence
  <1>2. F \in DOMAIN scan /\ (Unseen(scan, s, i - 1) => F = i)
    BY <1>1, FirstsAre
  <1>3. /\ new \in Remembered(scan) /\ s \in Rings(scan)
        /\ \A q \in Rings(scan) : q # s => new[q] = memory[q]
        /\ new[s].seen
        /\ ~ memory[s].seen => new[s].first = y /\ new[s].last = 0
        /\ memory[s].seen => new[s].first = memory[s].first /\ new[s].last = Cloud!Swept(memory[s], y)
    BY <1>1, PassedIs
  <1> HIDE DEF F, new
  <1>4. ASSUME memory[s].seen
        PROVE  Cloud!Swept(memory[s], y) = Turned(scan, angles, i) /\ Turned(scan, angles, i) >= 0
    <2> DEFINE m == memory[s]
               d == angles[i] - angles[F]
               y0 == scan[F].yaw
    <2>1. /\ m.first = y0 /\ m.last >= 0
          /\ \E j \in 1 .. i - 1 : Latest(scan, s, j, i - 1) /\ m.last = Turned(scan, angles, j)
      BY <1>3, <1>4 DEF Remembers, F
    <2>2. PICK j \in 1 .. i - 1 : Latest(scan, s, j, i - 1) /\ m.last = Turned(scan, angles, j)
      BY <2>1
    <2>3. Turned(scan, angles, i) = d
      BY DEF Turned, F
    <2>4. Turned(scan, angles, i) - Turned(scan, angles, j) \in 0 .. Cloud!Turn - 1
          /\ Turned(scan, angles, i) < 2 * Cloud!Turn
      BY <2>2 DEF Steady, Latest
    <2>5. m.last \in Int
      <3>1. m \in [seen : BOOLEAN, first : Int, last : Int]
        BY <1>3 DEF Remembered
      <3> QED
        BY <3>1
    <2>6. angles[i] \in Int /\ angles[F] \in Int /\ d \in Int
      BY <1>2 DEF Angled
    <2>7. y \in -5 .. 6 /\ y0 \in -5 .. 6
      <3>1. 1 - Cloud!Turn \div 2 = -5 /\ Cloud!Turn \div 2 = 6
        BY DEF Cloud!Turn
      <3> QED
        BY <1>2, <3>1 DEF Angled
    <2> DEFINE e == scan[i].yaw + angles[i] - scan[F].yaw - angles[F]
    <2>8. e % 12 = 0
      BY <1>2 DEF Angled, Cloud!Turn
    <2>9. e \in Int /\ e = y - y0 + d
      BY <2>6, <2>7
    <2>10. d - m.last \in 0 .. 11 /\ d < 24
      BY <2>2, <2>3, <2>4 DEF Cloud!Turn
    <2> HIDE DEF e, d, y0, m
    <2>11. /\ m.first \in -5 .. 6 /\ m.last \in Int /\ d \in Int /\ y \in -5 .. 6
           /\ (y - m.first + d) % 12 = 0 /\ 0 <= m.last
      BY <2>1, <2>5, <2>6, <2>7, <2>8, <2>9
    <2>12. Cloud!Swept(m, y) = d
      <3> HIDE DEF y
      <3> QED
        BY ONLY <2>10, <2>11, SweepsAreTold
    <2>13. d >= 0
      <3>1. \A u, v \in Int : 0 <= u /\ v - u \in 0 .. 11 => v >= 0
        OBVIOUS
      <3> HIDE DEF y
      <3> QED
        BY ONLY <2>10, <2>11, <3>1
    <2> QED
      BY <2>3, <2>12, <2>13 DEF m
  <1>5. ASSUME NEW r \in Rings(scan)
        PROVE  Remembers(scan, angles, i, new[r], r)
    <2>1. Remembers(scan, angles, i - 1, memory[r], r)
      OBVIOUS
    <2>2. \A l \in 1 .. i : l \in 1 .. i - 1 \/ l = i
      BY <1>1
    <2>3. \A l \in 1 .. i - 1 : l \in 1 .. i
      BY <1>1
    <2>4. CASE r # s
      <3>1. new[r] = memory[r]
        BY <1>3, <2>4
      <3>2. Unseen(scan, r, i - 1) => Unseen(scan, r, i)
        BY <2>2, <2>4 DEF Unseen
      <3>3. \A j \in 1 .. i - 1 : Latest(scan, r, j, i - 1) => Latest(scan, r, j, i)
        <4> TAKE j \in 1 .. i - 1
        <4>1. \A l \in j + 1 .. i : l \in j + 1 .. i - 1 \/ l = i
          BY <1>1
        <4> QED
          BY <2>3, <2>4, <4>1 DEF Latest
      <3> QED
        BY <2>1, <2>3, <3>1, <3>2, <3>3 DEF Remembers
    <2>5. CASE r = s
      <3>1. Latest(scan, s, i, i) /\ i \in 1 .. i
        <4>1. i \in 1 .. i /\ \A l : l \notin i + 1 .. i
          BY <1>1
        <4> QED
          BY <4>1 DEF Latest
      <3>2. CASE memory[s].seen
        <4>1. new[s].last = Turned(scan, angles, i) /\ new[s].last >= 0
          BY <1>3, <1>4, <3>2
        <4>2. new[s].first = scan[FirstOf(scan, s)].yaw
          BY <1>3, <2>1, <2>5, <3>2 DEF Remembers
        <4> QED
          BY <1>3, <2>5, <3>1, <4>1, <4>2 DEF Remembers
      <3>3. CASE ~ memory[s].seen
        <4>1. Unseen(scan, s, i - 1)
          BY <2>1, <2>5, <3>3 DEF Remembers
        <4>2. F = i
          BY <1>2, <4>1
        <4>3. Turned(scan, angles, i) = 0
          <5>1. angles[i] \in Int
            BY DEF Angled
          <5> QED
            BY <4>2, <5>1 DEF Turned, F
        <4>4. new[s].first = scan[FirstOf(scan, s)].yaw /\ new[s].last = 0
          BY <1>3, <3>3, <4>2 DEF F
        <4>5. new[s].last >= 0 /\ new[s].last = Turned(scan, angles, i)
          BY <4>3, <4>4
        <4> QED
          BY <1>3, <2>5, <3>1, <4>4, <4>5 DEF Remembers
      <3> QED
        BY <3>2, <3>3
    <2> QED
      BY <2>4, <2>5
  <1> QED
    BY <1>4, <1>5 DEF new

LEMMA TimesAlwaysFollowSweep ==
  ASSUME NEW scan, NEW angles, Angled(scan, angles)
  PROVE  Cloud!TimesFollowSweep(scan, angles)
  <1> DEFINE n == Len(scan)
             h == Cloud!Memories(scan)
             times == Cloud!MadeUp(scan)
  <1>1. n \in Nat /\ DOMAIN scan = 1 .. n /\ IsScan(scan)
    BY DEF Angled, IsScan, IsSequence
  <1>2. /\ \A i \in 0 .. n : h[i] \in Remembered(scan)
        /\ \A r \in Rings(scan) : ~ h[0][r].seen
        /\ \A i \in 1 .. n : h[i] = Cloud!Passed(h[i - 1], scan[i])
    BY <1>1, MemoriesAre
  <1> HIDE DEF h
  <1>3. ASSUME Steady(scan, angles)
        PROVE  \A i \in DOMAIN times : times[i] = Turned(scan, angles, i)
    <2> DEFINE P == {i \in 0 .. n : \A r \in Rings(scan) : Remembers(scan, angles, i, h[i][r], r)}
    <2>1. 0 .. n \subseteq P
      <3>1. 0 \in P
        <4>1. \A r : Unseen(scan, r, 0)
          BY DEF Unseen
        <4> QED
          BY <1>1, <1>2, <4>1 DEF Remembers
      <3>2. ASSUME NEW i \in 0 .. n, i # n, i \in P
            PROVE  i + 1 \in P
        <4>1. i + 1 \in 1 .. n /\ (i + 1) - 1 = i /\ i + 1 \in 0 .. n /\ i + 1 \in DOMAIN scan
          <5>1. i \in 0 .. n /\ i # n
            BY <3>2
          <5> HIDE DEF n
          <5> QED
            BY ONLY <1>1, <5>1
        <4>2. h[i] \in Remembered(scan) /\ h[i + 1] = Cloud!Passed(h[i], scan[i + 1])
          BY <1>2, <4>1
        <4>3. \A r \in Rings(scan) : Remembers(scan, angles, (i + 1) - 1, h[i][r], r)
          BY <3>2, <4>1
        <4>4. \A r \in Rings(scan) : Remembers(scan, angles, i + 1, h[i + 1][r], r)
          BY <1>3, <4>1, <4>2, <4>3, SweepGoesOn
        <4> QED
          BY <4>1, <4>4
      <3> HIDE DEF P
      <3> QED
        BY <1>1, <3>1, <3>2, Induction
    <2>2. times = [i \in {j \in DOMAIN scan : h[j - 1][scan[j].ring].seen} |->
                     Cloud!Swept(h[i - 1][scan[i].ring], scan[i].yaw)]
      BY Zenon DEF Cloud!MadeUp, h
    <2> HIDE DEF times
    <2> TAKE i \in DOMAIN times
    <2>3. i \in DOMAIN scan /\ h[i - 1][scan[i].ring].seen
          /\ times[i] = Cloud!Swept(h[i - 1][scan[i].ring], scan[i].yaw)
      BY <2>2
    <2>4. i - 1 \in 0 .. n
      BY <1>1, <2>3
    <2>5. h[i - 1] \in Remembered(scan) /\ \A r \in Rings(scan) : Remembers(scan, angles, i - 1, h[i - 1][r], r)
      BY <1>2, <2>1, <2>4
    <2> QED
      BY <1>3, <2>3, <2>5, SweepGoesOn
  <1> DEFINE first(i) == CHOOSE f \in DOMAIN scan : scan[f].ring = scan[i].ring
                          /\ \A j \in 1 .. f - 1 : scan[j].ring # scan[f].ring
             turned(i) == angles[i] - angles[first(i)]
             steady == \A i \in DOMAIN scan : turned(i) < 2 * Cloud!Turn /\ \A j \in 1 .. i - 1 :
                      (scan[j].ring = scan[i].ring /\ \A l \in j + 1 .. i - 1 : scan[l].ring # scan[i].ring)
                          => turned(i) - turned(j) \in 0 .. Cloud!Turn - 1
  <1>4. \A i : turned(i) = Turned(scan, angles, i)
    BY Zenon DEF Turned, FirstOf
  <1> HIDE DEF turned, times
  <1>5. steady => Steady(scan, angles)
    BY <1>4 DEF Steady
  <1> HIDE DEF steady
  <1>6. steady => \A i \in DOMAIN times : times[i] = turned(i)
    BY <1>3, <1>4, <1>5
  <1> QED
    BY <1>6, Zenon DEF Cloud!TimesFollowSweep, times, steady, turned

\* Every scan, of any sensor and size, is thinned in order, without what is near
\* or noise; made-up times follow the sweep; near points are no features,
\* whatever the geometry; and surfaces are thinned run by run (preprocess.cpp).
THEOREM EveryScanIsPrepared == ScanAsked => Scans
  <1> SUFFICES ASSUME ScanAsked PROVE Scans
    OBVIOUS
  <1>1. answer.kind = "thin" => Cloud!ScanIsThinned(task.lidar, task.scan, task.k)
    BY ScansAreAlwaysThinned DEF ScanAsked, IsScan, Lidars
  <1>2. answer.kind = "sweep" => Cloud!TimesFollowSweep(task.scan, task.angles)
    BY TimesAlwaysFollowSweep DEF ScanAsked, Angled
  <1>3. answer.kind = "near" => Cloud!NearStaysOut(task.near, 3)
    BY NearAlwaysStaysOut DEF ScanAsked, IsLine
  <1>4. answer.kind = "surfaces" => Cloud!SurfacesAreThinned(task.kinds, task.k)
    BY SurfacesAreAlwaysThinned DEF ScanAsked
  <1> QED
    BY <1>1, <1>2, <1>3, <1>4 DEF Scans
=============================================================================
