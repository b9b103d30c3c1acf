----------------------------- MODULE GridProofs -----------------------------
(***************************************************************************)
(* Proofs about DistanceField and AStar, for maps of any size: what        *)
(* Promises says of the two fields, of the collision checks and of plans.  *)
(*                                                                         *)
(* Fields and search are loops that go on until nothing is left to do,     *)
(* written as functions of their state.  Such a function exists, and a     *)
(* loop whose steps keep an invariant and make something smaller ends in   *)
(* it (WhilesExist, WhilesEnd); for the fields and for what the search     *)
(* knows that is the part below the field together with what waits.        *)
(*                                                                         *)
(* The fields: the octile distance falls by just the length of one step    *)
(* towards a cell, and samples less than a cell apart cannot pass an       *)
(* obstacle unseen.  The search: what it knows is never less than the      *)
(* shortest way and no more than it where it arrives, since every cell on  *)
(* that way has told its neighbours or waits with no greater f; the        *)
(* parents lead back over steps that cost just that.  The path: Bresenham  *)
(* never strays more than half a cell from the line.                       *)
(***************************************************************************)
EXTENDS AlgorithmProofs

-----------------------------------------------------------------------------
(* Loops that go on until they are done.                                   *)

\* What is paired with each state by the least relation that pairs a state that
\* is done with itself and any other one with what its successor is paired with.
Follows(R, S, done, step) ==
  /\ \A x \in S : x \in done => <<x, x>> \in R
  /\ \A x \in S, y \in S : x \notin done /\ <<step[x], y>> \in R => <<x, y>> \in R
EndsOf(x, S, done, step) == {y \in S : \A R \in SUBSET (S \X S) : Follows(R, S, done, step) => <<x, y>> \in R}
One(X) == CHOOSE y \in X : TRUE

\* A loop is a function of the state that it starts in, whether it ends or not.
LEMMA WhilesExist ==
  ASSUME NEW S, NEW done, NEW step \in [S -> S]
  PROVE  \E f : f = [s \in S |-> IF s \in done THEN s ELSE f[step[s]]]
  <1> DEFINE E(x) == EndsOf(x, S, done, step)
             C(R) == Follows(R, S, done, step)
  <1>1. ASSUME NEW x \in S, x \in done PROVE E(x) = {x}
    <2>1. x \in E(x)
      BY <1>1 DEF EndsOf, Follows
    <2> DEFINE R == {p \in S \X S : p[1] \in done => p[2] = p[1]}
    <2>2. C(R)
      <3>1. \A u, v \in S : <<u, v>> \in R <=> (u \in done => v = u)
        OBVIOUS
      <3> HIDE DEF R
      <3> QED
        BY <3>1 DEF Follows
    <2>3. \A y \in E(x) : <<x, y>> \in R
      BY <2>2 DEF EndsOf
    <2>4. \A y \in E(x) : y = x
      BY <1>1, <2>3
    <2> QED
      BY <2>1, <2>4
  <1>2. ASSUME NEW x \in S, x \notin done PROVE E(x) = E(step[x])
    <2>1. \A u \in S : u \notin done => E(step[u]) \subseteq E(u)
      <3> SUFFICES ASSUME NEW u \in S, u \notin done, NEW y \in E(step[u]),
                          NEW R \in SUBSET (S \X S), C(R)
                   PROVE  <<u, y>> \in R
        BY DEF EndsOf
      <3>1. y \in S /\ <<step[u], y>> \in R
        BY DEF EndsOf
      <3> QED
        BY <3>1 DEF Follows
    <2> DEFINE R == {p \in S \X S : p[2] \in E(p[1]) /\ (p[1] \notin done => p[2] \in E(step[p[1]]))}
    <2>2. \A u, v \in S : <<u, v>> \in R <=> (v \in E(u) /\ (u \notin done => v \in E(step[u])))
      OBVIOUS
    <2>3. \A u \in S : u \in done => <<u, u>> \in R
      BY <1>1, <2>2
    <2>4. ASSUME NEW u \in S, NEW v \in S, u \notin done, <<step[u], v>> \in R PROVE <<u, v>> \in R
      <3>1. step[u] \in S
        OBVIOUS
      <3>2. v \in E(step[u])
        BY <2>2, <2>4, <3>1
      <3> QED
        BY <2>1, <2>2, <2>4, <3>2
    <2>5. C(R) /\ R \in SUBSET (S \X S)
      <3> HIDE DEF R, E
      <3>1. C(R)
        BY <2>3, <2>4 DEF Follows
      <3> USE DEF R
      <3> QED
        BY <3>1
    <2>6. \A y \in E(x) : y \in S /\ <<x, y>> \in R
      BY <2>5 DEF EndsOf
    <2>7. E(x) \subseteq E(step[x])
      BY <1>2, <2>2, <2>6
    <2> QED
      BY <1>2, <2>1, <2>7
  <1> DEFINE f == [s \in S |-> One(E(s))]
  <1>3. ASSUME NEW s \in S PROVE f[s] = IF s \in done THEN s ELSE f[step[s]]
    <2>1. f[s] = One(E(s)) /\ step[s] \in S
      OBVIOUS
    <2>2. f[step[s]] = One(E(step[s]))
      BY <2>1
    <2>3. CASE s \in done
      <3>1. E(s) = {s}
        BY <1>1, <2>3
      <3>2. One({s}) = s
        BY DEF One
      <3> QED
        BY <2>1, <2>3, <3>1, <3>2
    <2>4. CASE s \notin done
      BY <1>2, <2>1, <2>2, <2>4
    <2> QED
      BY <2>3, <2>4
  <1>4. f = [s \in S |-> IF s \in done THEN s ELSE f[step[s]]]
    <2>1. f = [s \in S |-> f[s]]
      OBVIOUS
    <2> HIDE DEF f
    <2> QED
      BY <1>3, <2>1
  <1> QED
    BY <1>4

\* A loop whose steps keep to I and make mu smaller ends, in I.
LEMMA WhilesEnd ==
  ASSUME NEW S, NEW done, NEW step \in [S -> S],
         NEW f, f = [s \in S |-> IF s \in done THEN s ELSE f[step[s]]],
         NEW I \in SUBSET S, NEW mu \in [I -> Nat],
         \A s \in I : s \notin done => step[s] \in I /\ mu[step[s]] < mu[s]
  PROVE  \A s \in I : f[s] \in I /\ f[s] \in done
  <1> DEFINE Arrives(s) == f[s] \in I /\ f[s] \in done
             Bad == {s \in I : ~ Arrives(s)}
             Sizes == {mu[s] : s \in Bad}
  <1> SUFFICES ASSUME Bad # {} PROVE FALSE
    OBVIOUS
  <1>1. PICK n \in Sizes : \A k \in Sizes : n <= k
    <2>1. Sizes \in SUBSET Nat /\ Sizes # {}
      OBVIOUS
    <2> HIDE DEF Sizes
    <2> QED
      BY <2>1, LeastExists
  <1>2. PICK s \in Bad : n = mu[s]
    BY <1>1
  <1>3. \A x \in S : f[x] = IF x \in done THEN x ELSE f[step[x]]
    OBVIOUS
  <1> HIDE DEF Sizes
  <1>4. s \notin done
    BY <1>2, <1>3
  <1>5. step[s] \in I /\ mu[step[s]] < mu[s] /\ f[s] = f[step[s]]
    BY <1>2, <1>3, <1>4
  <1>6. step[s] \in Bad
    BY <1>2, <1>5
  <1>7. mu[step[s]] \in Sizes /\ mu[step[s]] \in Nat /\ mu[s] \in Nat
    BY <1>2, <1>5, <1>6 DEF Sizes
  <1> QED
    BY <1>1, <1>2, <1>5, <1>7

-----------------------------------------------------------------------------
(* Steps on the grid and the octile distance.                              *)

\* The eight directions are those of Order; the way back has the same length.
LEMMA DirectionsAre ==
  /\ \A k \in 1 .. 8 : Field!Order[k] \in Field!Around
  /\ \A d \in Field!Around : \E k \in 1 .. 8 : d = Field!Order[k]
  /\ \A d \in Field!Around : /\ d \in Int \X Int /\ Field!StepCost(d) \in {1000, 1414}
                             /\ d[1] \in -1 .. 1 /\ d[2] \in -1 .. 1 /\ (d[1] # 0 \/ d[2] # 0)
                             /\ <<-d[1], -d[2]>> \in Field!Around
                             /\ Field!StepCost(<<-d[1], -d[2]>>) = Field!StepCost(d)
  <1>1. \A k \in 1 .. 8 : Field!Order[k] \in Field!Around
    BY DEF Field!Order, Field!Around
  <1>2. ASSUME NEW d \in Field!Around
        PROVE  /\ d \in Int \X Int /\ Field!StepCost(d) \in {1000, 1414}
               /\ d[1] \in -1 .. 1 /\ d[2] \in -1 .. 1 /\ (d[1] # 0 \/ d[2] # 0)
               /\ d = <<d[1], d[2]>>
    BY DEF Field!Around, Field!StepCost, Field!Diagonal, Field!Straight
  <1>3. ASSUME NEW d \in Field!Around
        PROVE  \E k \in 1 .. 8 : d = Field!Order[k]
    <2>1. \A x, y : d = <<x, y>> =>
             (x = -1 /\ y = 0 => d = Field!Order[1]) /\ (x = 1 /\ y = 0 => d = Field!Order[2])
             /\ (x = 0 /\ y = -1 => d = Field!Order[3]) /\ (x = 0 /\ y = 1 => d = Field!Order[4])
             /\ (x = -1 /\ y = -1 => d = Field!Order[5]) /\ (x = -1 /\ y = 1 => d = Field!Order[6])
             /\ (x = 1 /\ y = -1 => d = Field!Order[7]) /\ (x = 1 /\ y = 1 => d = Field!Order[8])
      BY DEF Field!Order
    <2>2. d[1] \in {-1, 0, 1} /\ d[2] \in {-1, 0, 1} /\ (d[1] # 0 \/ d[2] # 0) /\ d = <<d[1], d[2]>>
      BY <1>2
    <2> QED
      BY <2>1, <2>2
  <1>4. ASSUME NEW d \in Field!Around
        PROVE  <<-d[1], -d[2]>> \in Field!Around /\ Field!StepCost(<<-d[1], -d[2]>>) = Field!StepCost(d)
    <2>1. -d[1] \in -1 .. 1 /\ -d[2] \in -1 .. 1 /\ <<-d[1], -d[2]>> # <<0, 0>>
      BY <1>2
    <2>2. <<-d[1], -d[2]>> \in Field!Around
      BY <2>1 DEF Field!Around
    <2>3. Field!IsDiagonal(<<-d[1], -d[2]>>) = Field!IsDiagonal(d)
      BY <1>2 DEF Field!IsDiagonal
    <2> QED
      BY <2>2, <2>3 DEF Field!StepCost
  <1> QED
    BY <1>1, <1>2, <1>3, <1>4

LEMMA StepCosts ==
  ASSUME NEW d \in Field!Around
  PROVE  Field!StepCost(d) \in {1000, 1414} /\ Field!StepCost(d) \in Nat
  BY DEF Field!StepCost, Field!Diagonal, Field!Straight

\* A neighbour is another cell, from which the way back leads to this one.
LEMMA NeighboursAre ==
  ASSUME NEW c \in Int \X Int, NEW d \in Field!Around
  PROVE  /\ Field!Shift(c, d) \in Int \X Int /\ Field!Shift(c, d) # c
         /\ Field!Shift(Field!Shift(c, d), <<-d[1], -d[2]>>) = c
  <1>1. PICK x, y \in Int : c = <<x, y>>
    OBVIOUS
  <1>2. PICK a, b \in Int : d = <<a, b>> /\ (a # 0 \/ b # 0)
    BY DEF Field!Around
  <1>3. Field!Shift(c, d) = <<x + a, y + b>>
    BY <1>1, <1>2 DEF Field!Shift
  <1>4. Field!Shift(<<x + a, y + b>>, <<-a, -b>>) = <<x, y>>
    BY DEF Field!Shift
  <1>5. x + a # x \/ y + b # y
    BY <1>2
  <1> QED
    BY <1>1, <1>2, <1>3, <1>4, <1>5

LEMMA NeighboursDiffer ==
  ASSUME NEW c \in Int \X Int, NEW d \in Field!Around
  PROVE  Field!Shift(c, d) # c
  BY NeighboursAre

\* The octile distance is that of the coordinates' differences.
Apart(s, t) == IF s < t THEN t - s ELSE s - t
Octile(a, b) == IF a < b THEN 1414 * a + 1000 * (b - a) ELSE 1414 * b + 1000 * (a - b)
LEMMA OctileIs ==
  ASSUME NEW c \in Int \X Int, NEW o \in Int \X Int
  PROVE  Field!Heuristic(c, o) = Octile(Apart(c[1], o[1]), Apart(c[2], o[2]))
  <1> DEFINE a == Apart(c[1], o[1])
             b == Apart(c[2], o[2])
  <1>1. a \in Nat /\ b \in Nat /\ Field!Abs(c[1] - o[1]) = a /\ Field!Abs(c[2] - o[2]) = b
    BY DEF Field!Abs, Apart
  <1> HIDE DEF a, b
  <1>2. Field!Least(a, b) = (IF a < b THEN a ELSE b) /\ Field!Abs(a - b) = IF a < b THEN b - a ELSE a - b
    BY <1>1 DEF Field!Least, Field!Abs
  <1>3. Field!Heuristic(c, o) = Field!Diagonal * Field!Least(a, b) + Field!Straight * Field!Abs(a - b)
    BY <1>1 DEF Field!Heuristic
  <1>4. Field!Heuristic(c, o) = Octile(a, b)
    BY <1>1, <1>2, <1>3 DEF Field!Diagonal, Field!Straight, Octile
  <1> QED
    BY <1>4 DEF a, b

\* A step changes the octile distance by no more than its length, and one of
\* the eight by just that, towards the other cell.
LEMMA OctileSteps ==
  ASSUME NEW c \in Int \X Int, NEW o \in Int \X Int
  PROVE  /\ Field!Heuristic(c, o) \in Nat
         /\ Field!Heuristic(c, o) = 0 => c = o
         /\ Field!Heuristic(c, o) <= 1000 <=> \/ c[2] = o[2] /\ c[1] - o[1] \in -1 .. 1
                                              \/ c[1] = o[1] /\ c[2] - o[2] \in -1 .. 1
         /\ \A d \in Field!Around : Field!Heuristic(Field!Shift(c, d), o) <= Field!Heuristic(c, o) + Field!StepCost(d)
  <1>1. PICK x, y \in Int : c = <<x, y>>
    OBVIOUS
  <1>2. PICK u, v \in Int : o = <<u, v>>
    OBVIOUS
  <1>3. \A s, t \in Int : Field!Heuristic(<<s, t>>, o) = Octile(Apart(s, u), Apart(t, v))
    <2> SUFFICES ASSUME NEW s \in Int, NEW t \in Int
                 PROVE  Field!Heuristic(<<s, t>>, o) = Octile(Apart(s, u), Apart(t, v))
      OBVIOUS
    <2>1. <<s, t>> \in Int \X Int /\ <<s, t>>[1] = s /\ <<s, t>>[2] = t /\ o[1] = u /\ o[2] = v
      BY <1>2
    <2>2. Field!Heuristic(<<s, t>>, o) = Octile(Apart(<<s, t>>[1], o[1]), Apart(<<s, t>>[2], o[2]))
      BY <2>1, OctileIs
    <2> QED
      BY <2>1, <2>2
  <1>4. ASSUME NEW d \in Field!Around
        PROVE  Field!Heuristic(Field!Shift(c, d), o) <= Field!Heuristic(c, o) + Field!StepCost(d)
    <2>1. PICK a, b \in {-1, 0, 1} : d = <<a, b>>
      BY DEF Field!Around
    <2>2. Field!StepCost(d) = IF a # 0 /\ b # 0 THEN 1414 ELSE 1000
      BY <2>1 DEF Field!StepCost, Field!IsDiagonal, Field!Diagonal, Field!Straight
    <2>3. Field!Shift(c, d) = <<x + a, y + b>>
      BY <1>1, <2>1 DEF Field!Shift
    <2>4. a # 0 \/ b # 0
      BY <2>1 DEF Field!Around
    <2> QED
      BY <1>1, <1>3, <2>1, <2>2, <2>3, <2>4 DEF Octile, Apart
  <1>5. Field!Heuristic(c, o) \in Nat /\ (Field!Heuristic(c, o) = 0 => c = o)
    BY <1>1, <1>2, <1>3 DEF Octile, Apart
  <1>6. Field!Heuristic(c, o) <= 1000 <=> \/ y = v /\ x - u \in -1 .. 1
                                          \/ x = u /\ y - v \in -1 .. 1
    BY <1>1, <1>3 DEF Octile, Apart
  <1> QED
    BY <1>1, <1>2, <1>4, <1>5, <1>6

-----------------------------------------------------------------------------
(* The distance field: what is spread from the obstacles.                  *)

Eased(m, dist, c, d) ==
  Field!IsInside(m, Field!Shift(c, d)) => dist[Field!Shift(c, d)] <= dist[c] + Field!StepCost(d)

\* One step towards a place takes just its length off the octile distance.
Towards(p, u) == IF p < u THEN 1 ELSE IF p = u THEN 0 ELSE -1
LEMMA OctileFalls ==
  ASSUME NEW p \in Int, NEW q \in Int, NEW u \in Int, NEW v \in Int, p # u \/ q # v
  PROVE  Octile(Apart(p, u), Apart(q, v))
           = Octile(Apart(p + Towards(p, u), u), Apart(q + Towards(q, v), v))
               + (IF Towards(p, u) # 0 /\ Towards(q, v) # 0 THEN 1414 ELSE 1000)
  <1> DEFINE e == Apart(p, u)
             f == Apart(q, v)
  <1>1. e \in Nat /\ f \in Nat /\ (e # 0 \/ f # 0)
    BY DEF Apart
  <1>2. Apart(p + Towards(p, u), u) = (IF e = 0 THEN 0 ELSE e - 1) /\ (Towards(p, u) # 0 <=> e # 0)
    BY DEF Apart, Towards
  <1>3. Apart(q + Towards(q, v), v) = (IF f = 0 THEN 0 ELSE f - 1) /\ (Towards(q, v) # 0 <=> f # 0)
    BY DEF Apart, Towards
  <1> HIDE DEF e, f
  <1>4. Octile(e, f) = Octile(IF e = 0 THEN 0 ELSE e - 1, IF f = 0 THEN 0 ELSE f - 1)
                         + (IF e # 0 /\ f # 0 THEN 1414 ELSE 1000)
    <2>1. CASE e = 0
      BY <1>1, <2>1 DEF Octile
    <2>2. CASE f = 0
      BY <1>1, <2>2 DEF Octile
    <2>3. CASE e # 0 /\ f # 0
      BY <1>1, <2>3 DEF Octile
    <2> QED
      BY <2>1, <2>2, <2>3
  <1> QED
    BY <1>2, <1>3, <1>4 DEF e, f

\* A field in which no step is longer than it should be, and 0 at o, is nowhere
\* more than the octile distance to o.
LEMMA EasedIsNear ==
  ASSUME NEW m, IsMap(m), NEW dist \in Field!Distances(m), NEW o \in Field!Cells(m), dist[o] = 0,
         \A c \in Field!Cells(m), d \in Field!Around : Eased(m, dist, c, d)
  PROVE  \A c \in Field!Cells(m) : dist[c] <= Field!Heuristic(c, o)
  <1> DEFINE w == m.width
             h == m.height
             N == w + h
             Near(c, n) == Apart(c[1], o[1]) <= n /\ Apart(c[2], o[2]) <= n
             P == {n \in 0 .. N : \A c \in Field!Cells(m) : Near(c, n) => dist[c] <= Field!Heuristic(c, o)}
  <1>1. w \in Nat /\ h \in Nat /\ N \in Nat
    BY DEF IsMap
  <1>2. Field!Cells(m) \subseteq Int \X Int /\ o[1] \in 0 .. w - 1 /\ o[2] \in 0 .. h - 1
        /\ \A c \in Field!Cells(m) : c[1] \in 0 .. w - 1 /\ c[2] \in 0 .. h - 1 /\ dist[c] \in Nat /\ c = <<c[1], c[2]>>
    BY <1>1 DEF Field!Cells, Field!Distances
  <1>3. \A x \in 0 .. w - 1, y \in 0 .. h - 1 : <<x, y>> \in Field!Cells(m)
    BY DEF Field!Cells
  <1> HIDE DEF w, h
  <1>4. 0 \in P
    <2>1. ASSUME NEW c \in Field!Cells(m), Near(c, 0) PROVE dist[c] <= Field!Heuristic(c, o)
      <3>1. c[1] = o[1] /\ c[2] = o[2]
        BY <1>1, <1>2, <2>1 DEF Apart
      <3>2. c = o
        BY <1>2, <3>1
      <3> QED
        BY <1>2, <3>2, OctileSteps
    <2> QED
      BY <1>1, <2>1
  <1>5. ASSUME NEW n \in 0 .. N, n # N, n \in P PROVE n + 1 \in P
    <2>1. ASSUME NEW c \in Field!Cells(m), Near(c, n + 1) PROVE dist[c] <= Field!Heuristic(c, o)
      <3> DEFINE a == Towards(c[1], o[1])
                 b == Towards(c[2], o[2])
                 d == <<a, b>>
                 x == <<c[1] + a, c[2] + b>>
      <3>1. CASE c = o
        BY <1>2, <3>1, OctileSteps
      <3>2. CASE c # o
        <4>1. c[1] # o[1] \/ c[2] # o[2]
          BY <1>2, <3>2
        <4>2. d \in Field!Around
          BY <1>2, <4>1 DEF Field!Around, Towards
        <4>3. x \in Field!Cells(m) /\ Near(x, n)
          <5>1. c[1] + a \in 0 .. w - 1 /\ c[2] + b \in 0 .. h - 1
            BY <1>1, <1>2 DEF Towards
          <5>2. Apart(c[1] + a, o[1]) <= n /\ Apart(c[2] + b, o[2]) <= n
            BY <1>1, <1>2, <2>1 DEF Apart, Towards
          <5> QED
            BY <1>3, <5>1, <5>2
        <4>4. dist[x] <= Field!Heuristic(x, o)
          BY <1>5, <4>3
        <4> DEFINE back == <<-a, -b>>
        <4>5. back \in Field!Around /\ Field!StepCost(back) = Field!StepCost(d)
          BY <4>2, DirectionsAre
        <4>6. Field!Shift(x, back) = c
          BY <1>2 DEF Field!Shift, Towards
        <4>7. dist[c] <= dist[x] + Field!StepCost(d)
          BY <4>3, <4>5, <4>6 DEF Eased, Field!IsInside
        <4>8. Field!StepCost(d) = IF a # 0 /\ b # 0 THEN 1414 ELSE 1000
          BY DEF Field!StepCost, Field!IsDiagonal, Field!Diagonal, Field!Straight
        <4>9. Field!Heuristic(c, o) = Octile(Apart(c[1], o[1]), Apart(c[2], o[2]))
              /\ Field!Heuristic(x, o) = Octile(Apart(c[1] + a, o[1]), Apart(c[2] + b, o[2]))
          BY <1>2, <4>3, OctileIs
        <4>10. Field!Heuristic(c, o) = Field!Heuristic(x, o) + Field!StepCost(d)
          <5>1. Octile(Apart(c[1], o[1]), Apart(c[2], o[2]))
                  = Octile(Apart(c[1] + a, o[1]), Apart(c[2] + b, o[2])) + (IF a # 0 /\ b # 0 THEN 1414 ELSE 1000)
            BY <1>2, <4>1, OctileFalls
          <5> QED
            BY <4>8, <4>9, <5>1
        <4>11. dist[c] \in Nat /\ dist[x] \in Nat /\ Field!Heuristic(x, o) \in Nat /\ Field!StepCost(d) \in Nat
          <5>1. x \in Int \X Int /\ o \in Int \X Int
            BY <1>2, <4>3
          <5> QED
            <6>1. Field!StepCost(d) \in {1000, 1414} /\ dist[c] \in Nat /\ dist[x] \in Nat
              BY <1>2, <4>2, <4>3, StepCosts
            <6>2. Field!Heuristic(x, o) \in Nat
              BY <5>1, OctileSteps
            <6> QED
              BY <6>1, <6>2
        <4> HIDE DEF x, d
        <4> QED
          BY <4>4, <4>7, <4>10, <4>11
      <3> QED
        BY <3>1, <3>2
    <2> QED
      BY <1>1, <1>5, <2>1
  <1>6. N \in P
    <2> HIDE DEF P
    <2> QED
      BY <1>1, <1>4, <1>5, Induction
  <1>7. ASSUME NEW c \in Field!Cells(m) PROVE Near(c, N)
    BY <1>1, <1>2 DEF Apart
  <1> QED
    BY <1>6, <1>7

\* What is below a field; lowering the field at a cell leaves less of it.
Below(m, dist) == {p \in Field!Cells(m) \X (0 .. Field!Infinity) : p[2] < dist[p[1]]}
LEMMA BelowIsFinite ==
  ASSUME NEW m, IsMap(m), NEW dist
  PROVE  IsFiniteSet(Below(m, dist)) /\ Cardinality(Below(m, dist)) \in Nat
  <1>1. m.width - 1 \in Int /\ m.height - 1 \in Int /\ Field!Infinity \in Nat
    BY SMT DEF IsMap, Field!Infinity
  <1>2. IsFiniteSet(0 .. m.width - 1) /\ IsFiniteSet(0 .. m.height - 1) /\ IsFiniteSet(0 .. Field!Infinity)
    BY <1>1, FS_Interval
  <1>3. IsFiniteSet(Field!Cells(m))
    BY <1>2, FS_Product DEF Field!Cells
  <1>4. IsFiniteSet(Field!Cells(m) \X (0 .. Field!Infinity))
    BY <1>2, <1>3, FS_Product
  <1>5. Below(m, dist) \in SUBSET (Field!Cells(m) \X (0 .. Field!Infinity))
    BY DEF Below
  <1> QED
    BY <1>4, <1>5, FS_Subset, FS_CardinalityType
LEMMA LoweredIsLess ==
  ASSUME NEW m, IsMap(m), NEW dist \in Field!Distances(m), NEW c \in Field!Cells(m), NEW n \in Nat, n < dist[c]
  PROVE  LET g == [dist EXCEPT ![c] = n]
         IN  /\ g \in Field!Distances(m) /\ g[c] = n
             /\ \A x \in Field!Cells(m) : g[x] <= dist[x] /\ (x # c => g[x] = dist[x])
             /\ Cardinality(Below(m, g)) + 1 <= Cardinality(Below(m, dist))
  <1> DEFINE g == [dist EXCEPT ![c] = n]
  <1>1. \A x \in Field!Cells(m) : dist[x] \in 0 .. Field!Infinity
    BY DEF Field!Distances
  <1>2. Field!Infinity \in Nat
    BY SMT DEF Field!Infinity
  <1>3. g \in Field!Distances(m)
    BY <1>1, <1>2 DEF Field!Distances
  <1>4. g[c] = n /\ \A x \in Field!Cells(m) : x # c => g[x] = dist[x]
    BY DEF Field!Distances
  <1>5. \A x \in Field!Cells(m) : g[x] <= dist[x] /\ (x # c => g[x] = dist[x])
    BY <1>1, <1>2, <1>4
  <1>6. IsFiniteSet(Below(m, dist))
    BY BelowIsFinite
  <1> HIDE DEF g
  <1>7. Below(m, g) \subseteq Below(m, dist) /\ <<c, n>> \in Below(m, dist) /\ <<c, n>> \notin Below(m, g)
    <2>1. \A p \in Field!Cells(m) \X (0 .. Field!Infinity) : p[1] \in Field!Cells(m) /\ p[2] \in 0 .. Field!Infinity
      OBVIOUS
    <2>2. \A x \in Field!Cells(m) : g[x] \in 0 .. Field!Infinity
      BY <1>3 DEF Field!Distances
    <2>3. Below(m, g) \subseteq Below(m, dist)
      BY <1>1, <1>2, <1>5, <2>1, <2>2 DEF Below
    <2>4. n \in 0 .. Field!Infinity
      BY <1>1, <1>2
    <2> QED
      BY <1>4, <2>3, <2>4 DEF Below
  <1>8. /\ IsFiniteSet(Below(m, g)) /\ Cardinality(Below(m, g)) <= Cardinality(Below(m, dist))
        /\ Cardinality(Below(m, g)) # Cardinality(Below(m, dist))
    BY <1>6, <1>7, FS_Subset
  <1>9. Cardinality(Below(m, g)) \in Nat /\ Cardinality(Below(m, dist)) \in Nat
    BY <1>6, <1>8, FS_CardinalityType
  <1> QED
    BY <1>3, <1>4, <1>5, <1>8, <1>9 DEF g

\* Spreading: the cells that are lower than their neighbours allow wait in the
\* queue, and what is known of a cell or waits for it is the way to an obstacle.
Blocked(m) == {c \in Field!Cells(m) : Field!Blocked(m, c)}
Spreads(m) == [dist : Field!Distances(m), queue : Seq(Field!Entries(m))]
Leads(m, c, n) == \E o \in Blocked(m) : Field!Heuristic(c, o) <= n
Queued(q, c, n) == \E i \in 1 .. Len(q) : q[i] = Field!Entry(c, n)
EasedAll(m, dist, c) == \A d \in Field!Around : Eased(m, dist, c, d)
EasedUpto(m, dist, c, k) == \A j \in 1 .. k : Eased(m, dist, c, Field!Order[j])
Tended(m, s, c) == s.dist[c] = Field!Infinity \/ Queued(s.queue, c, s.dist[c]) \/ EasedAll(m, s.dist, c)
SpreadInv(m, s) ==
  /\ s \in Spreads(m)
  /\ \A c \in Blocked(m) : s.dist[c] = 0
  /\ \A c \in Field!Cells(m) : s.dist[c] < Field!Infinity => Leads(m, c, s.dist[c])
  /\ \A i \in 1 .. Len(s.queue) : Leads(m, s.queue[i].cell, s.queue[i].dist)
\* In the middle of the work on e, when k of its neighbours are done.
SpreadAt(m, s, e, k) ==
  /\ SpreadInv(m, s)
  /\ \A c \in Field!Cells(m) : Tended(m, s, c) \/ (c = e.cell /\ s.dist[c] = e.dist /\ EasedUpto(m, s.dist, c, k))
SpreadSize(m, s) == 2 * Cardinality(Below(m, s.dist)) + Len(s.queue)

LEMMA EntriesAre ==
  ASSUME NEW m, IsMap(m)
  PROVE  /\ Field!Infinity \in Nat /\ 1000 < Field!Infinity
         /\ \A c \in Field!Cells(m) : c \in Int \X Int
         /\ \A dist \in Field!Distances(m), c \in Field!Cells(m) : dist[c] \in 0 .. Field!Infinity
         /\ \A e \in Field!Entries(m) : e.cell \in Field!Cells(m) /\ e.dist \in 0 .. Field!Infinity /\ e = Field!Entry(e.cell, e.dist)
         /\ \A c \in Field!Cells(m), n \in 0 .. Field!Infinity : 
               Field!Entry(c, n) \in Field!Entries(m) /\ Field!Entry(c, n).cell = c /\ Field!Entry(c, n).dist = n
  <1>1. Field!Infinity \in Nat /\ 1000 < Field!Infinity
    BY SMT DEF Field!Infinity
  <1> QED
    BY <1>1 DEF Field!Cells, Field!Distances, Field!Entries, Field!Entry, IsMap

LEMMA ReachKeeps ==
  ASSUME NEW m, IsMap(m), NEW s, NEW e \in Field!Entries(m), Leads(m, e.cell, e.dist),
         NEW k \in 0 .. 7, SpreadAt(m, s, e, k)
  PROVE  LET t == Field!Reach(m, s, e, Field!Order[k + 1])
         IN  SpreadAt(m, t, e, k + 1) /\ SpreadSize(m, t) <= SpreadSize(m, s)
  <1> DEFINE d == Field!Order[k + 1]
             c == Field!Shift(e.cell, d)
             n == e.dist + Field!StepCost(d)
             t == Field!Reach(m, s, e, d)
  <1>1. d \in Field!Around /\ k + 1 \in 1 .. 8 /\ Field!StepCost(d) \in {1000, 1414}
    <2>1. k + 1 \in 1 .. 8
      OBVIOUS
    <2>2. d \in Field!Around
      BY <2>1, DirectionsAre
    <2> HIDE DEF d
    <2> QED
      BY <2>1, <2>2, StepCosts
  <1>2. /\ s \in Spreads(m) /\ s.dist \in Field!Distances(m) /\ s.queue \in Seq(Field!Entries(m))
        /\ e.cell \in Field!Cells(m) /\ e.dist \in 0 .. Field!Infinity /\ Field!Infinity \in Nat
        /\ \A x \in Field!Cells(m) : x \in Int \X Int /\ s.dist[x] \in 0 .. Field!Infinity
        /\ e.cell \in Int \X Int
    BY EntriesAre DEF SpreadAt, SpreadInv, Spreads
  <1>3. n \in Nat
    BY <1>1, <1>2
  <1> HIDE DEF d
  <1>4. \A j \in 1 .. k + 1 : j \in 1 .. k \/ j = k + 1
    OBVIOUS
  <1>5. CASE ~ Field!Closer(m, s.dist, e, d)
    <2>1. t = s
      BY <1>5 DEF Field!Reach
    <2>2. s.dist[e.cell] = e.dist => Eased(m, s.dist, e.cell, d)
      <3>1. Field!IsInside(m, c) => s.dist[c] \in Nat /\ ~(n < s.dist[c])
        BY <1>2, <1>5 DEF Field!Closer, Field!IsInside
      <3> QED
        BY <1>3, <3>1 DEF Eased
    <2>3. EasedUpto(m, s.dist, e.cell, k) /\ Eased(m, s.dist, e.cell, d) => EasedUpto(m, s.dist, e.cell, k + 1)
      BY <1>4 DEF EasedUpto, d
    <2>4. SpreadAt(m, s, e, k + 1)
      BY <2>2, <2>3 DEF SpreadAt
    <2>5. SpreadSize(m, s) \in Nat
      BY <1>2, BelowIsFinite DEF SpreadSize
    <2> QED
      BY <2>1, <2>4, <2>5 DEF d
  <1>6. CASE Field!Closer(m, s.dist, e, d)
    <2> DEFINE g == [s.dist EXCEPT ![c] = n]
               q == Append(s.queue, Field!Entry(c, n))
    <2>1. c \in Field!Cells(m) /\ n < s.dist[c] /\ n \in 0 .. Field!Infinity
      <3>1. c \in Field!Cells(m) /\ n < s.dist[c]
        BY <1>6 DEF Field!Closer, Field!IsInside
      <3> QED
        BY <1>2, <1>3, <3>1
    <2>2. t = [dist |-> g, queue |-> q]
      BY <1>6 DEF Field!Reach
    <2>3. /\ g \in Field!Distances(m) /\ g[c] = n
          /\ \A x \in Field!Cells(m) : g[x] <= s.dist[x] /\ (x # c => g[x] = s.dist[x])
          /\ Cardinality(Below(m, g)) + 1 <= Cardinality(Below(m, s.dist))
      BY <1>2, <1>3, <2>1, LoweredIsLess
    <2>4. Field!Entry(c, n) \in Field!Entries(m) /\ Field!Entry(c, n).cell = c /\ Field!Entry(c, n).dist = n
      BY <2>1, EntriesAre
    <2>5. /\ q \in Seq(Field!Entries(m)) /\ Len(q) = Len(s.queue) + 1 /\ Len(s.queue) \in Nat
          /\ q[Len(q)] = Field!Entry(c, n) /\ \A i \in 1 .. Len(s.queue) : q[i] = s.queue[i]
      BY <1>2, <2>4
    <2>6. Leads(m, c, n)
      <3>1. PICK o \in Blocked(m) : Field!Heuristic(e.cell, o) <= e.dist
        BY DEF Leads
      <3>2. o \in Int \X Int
        BY <1>2, <3>1 DEF Blocked
      <3>3. Field!Heuristic(c, o) <= Field!Heuristic(e.cell, o) + Field!StepCost(d) /\ Field!Heuristic(e.cell, o) \in Nat
        BY <1>1, <1>2, <3>2, OctileSteps
      <3>4. c \in Int \X Int
        BY <1>2, <2>1
      <3>5. Field!Heuristic(c, o) \in Nat
        BY <3>2, <3>4, OctileSteps
      <3>6. Field!Heuristic(c, o) <= n
        BY <1>1, <1>2, <3>1, <3>3, <3>5
      <3> QED
        BY <3>6 DEF Leads
    <2>7. c # e.cell
      BY <1>1, <1>2, NeighboursDiffer
    <2>8. c \notin Blocked(m)
      BY <1>2, <1>3, <2>1 DEF SpreadAt, SpreadInv
    <2> HIDE DEF g, q, c, n, t
    <2>9. t.dist = g /\ t.queue = q
      BY <2>2
    <2>10. SpreadInv(m, t)
      <3>1. t \in Spreads(m)
        BY <2>2, <2>3, <2>5 DEF Spreads
      <3>2. \A x \in Blocked(m) : g[x] = 0
        BY <2>3, <2>8 DEF SpreadAt, SpreadInv, Blocked
      <3>3. ASSUME NEW x \in Field!Cells(m), g[x] < Field!Infinity PROVE Leads(m, x, g[x])
        <4>1. CASE x = c
          BY <2>3, <2>6, <4>1
        <4>2. CASE x # c
          BY <2>3, <3>3, <4>2 DEF SpreadAt, SpreadInv
        <4> QED
          BY <4>1, <4>2
      <3>4. ASSUME NEW i \in 1 .. Len(q) PROVE Leads(m, q[i].cell, q[i].dist)
        <4>1. i \in 1 .. Len(s.queue) \/ i = Len(q)
          BY <2>5
        <4>2. CASE i \in 1 .. Len(s.queue)
          BY <2>5, <4>2 DEF SpreadAt, SpreadInv
        <4>3. CASE i = Len(q)
          BY <2>4, <2>5, <2>6, <4>3
        <4> QED
          BY <4>1, <4>2, <4>3
      <3> QED
        BY <2>9, <3>1, <3>2, <3>3, <3>4 DEF SpreadInv
    <2>11. ASSUME NEW x \in Field!Cells(m), x # c, NEW b \in Field!Around, Eased(m, s.dist, x, b) PROVE Eased(m, g, x, b)
      <3> DEFINE y == Field!Shift(x, b)
      <3>1. y \in Field!Cells(m) => g[y] <= s.dist[y] /\ s.dist[y] \in Nat /\ g[y] \in Nat
        <4>1. \A z \in Field!Cells(m) : g[z] \in Nat
          BY <2>3, EntriesAre
        <4> QED
          BY <1>2, <2>3, <4>1
      <3>2. Field!StepCost(b) \in Nat /\ g[x] = s.dist[x] /\ s.dist[x] \in Nat
        <4>1. Field!StepCost(b) \in {1000, 1414}
          BY StepCosts
        <4> QED
          BY <1>2, <2>3, <2>11, <4>1
      <3> QED
        BY <2>11, <3>1, <3>2 DEF Eased, Field!IsInside
    <2>12. ASSUME NEW x \in Field!Cells(m)
           PROVE  Tended(m, t, x) \/ (x = e.cell /\ t.dist[x] = e.dist /\ EasedUpto(m, t.dist, x, k + 1))
      <3>1. CASE x = c
        <4>1. Len(q) \in 1 .. Len(q)
          BY <2>5
        <4>2. Queued(q, x, g[x])
          BY <2>3, <2>5, <3>1, <4>1 DEF Queued
        <4> QED
          BY <2>9, <4>2 DEF Tended
      <3>2. CASE x # c /\ s.dist[x] = Field!Infinity
        BY <2>3, <2>9, <3>2 DEF Tended
      <3>3. CASE x # c /\ Queued(s.queue, x, s.dist[x])
        <4>1. PICK i \in 1 .. Len(s.queue) : s.queue[i] = Field!Entry(x, s.dist[x])
          BY <3>3 DEF Queued
        <4>2. i \in 1 .. Len(q) /\ q[i] = Field!Entry(x, g[x])
          BY <2>3, <2>5, <3>3, <4>1
        <4>3. Queued(q, x, g[x])
          BY <4>2 DEF Queued
        <4> QED
          BY <2>9, <4>3 DEF Tended
      <3>4. CASE x # c /\ EasedAll(m, s.dist, x)
        BY <2>9, <2>11, <3>4 DEF Tended, EasedAll
      <3>5. CASE x = e.cell /\ s.dist[x] = e.dist /\ EasedUpto(m, s.dist, x, k)
        <4>1. x # c /\ g[x] = e.dist
          BY <2>3, <2>7, <3>5
        <4>2. ASSUME NEW j \in 1 .. k + 1 PROVE Eased(m, g, x, Field!Order[j])
          <5>1. CASE j = k + 1
            <6>1. Field!Shift(x, Field!Order[j]) = c /\ n = e.dist + Field!StepCost(Field!Order[j])
              BY <3>5, <5>1 DEF c, n, d
            <6> QED
              BY <1>3, <2>3, <4>1, <6>1 DEF Eased
          <5>2. CASE j \in 1 .. k
            <6>1. Field!Order[j] \in Field!Around /\ Eased(m, s.dist, x, Field!Order[j])
              BY <3>5, <5>2, DirectionsAre DEF EasedUpto
            <6> QED
              BY <2>11, <4>1, <6>1
          <5> QED
            BY <1>4, <5>1, <5>2
        <4> QED
          BY <2>9, <3>5, <4>1, <4>2 DEF EasedUpto
      <3>6. Tended(m, s, x) \/ (x = e.cell /\ s.dist[x] = e.dist /\ EasedUpto(m, s.dist, x, k))
        BY DEF SpreadAt
      <3> QED
        BY <3>1, <3>2, <3>3, <3>4, <3>5, <3>6 DEF Tended
    <2>13. SpreadSize(m, t) <= SpreadSize(m, s)
      <3>1. Cardinality(Below(m, g)) \in Nat /\ Cardinality(Below(m, s.dist)) \in Nat
        BY BelowIsFinite
      <3> QED
        BY <2>3, <2>5, <2>9, <3>1, SMTT(30) DEF SpreadSize
    <2> QED
      BY <2>10, <2>12, <2>13 DEF SpreadAt, t, d
  <1> QED
    BY <1>5, <1>6

LEMMA ReachIs ==
  ASSUME NEW m, IsMap(m), NEW s \in Spreads(m), NEW e \in Field!Entries(m), NEW d \in Field!Around
  PROVE  Field!Reach(m, s, e, d) \in Spreads(m)
  <1> DEFINE c == Field!Shift(e.cell, d)
             n == e.dist + Field!StepCost(d)
  <1>1. CASE ~ Field!Closer(m, s.dist, e, d)
    BY <1>1 DEF Field!Reach
  <1>2. CASE Field!Closer(m, s.dist, e, d)
    <2>1. c \in Field!Cells(m) /\ n < s.dist[c]
      BY <1>2 DEF Field!Closer, Field!IsInside
    <2>2. s.dist \in Field!Distances(m) /\ s.queue \in Seq(Field!Entries(m))
      BY DEF Spreads
    <2>3. n \in 0 .. Field!Infinity
      <3>1. e.dist \in 0 .. Field!Infinity /\ s.dist[c] \in 0 .. Field!Infinity /\ Field!Infinity \in Nat
        BY <2>1, <2>2, EntriesAre
      <3>2. Field!StepCost(d) \in Nat
        BY StepCosts
      <3> QED
        BY <2>1, <3>1, <3>2
    <2>4. [s.dist EXCEPT ![c] = n] \in Field!Distances(m)
      BY <2>2, <2>3 DEF Field!Distances
    <2>5. Field!Entry(c, n) \in Field!Entries(m)
      BY <2>1, <2>3, EntriesAre
    <2>6. Append(s.queue, Field!Entry(c, n)) \in Seq(Field!Entries(m))
      BY <2>2, <2>5
    <2>7. Field!Reach(m, s, e, d) = [dist |-> [s.dist EXCEPT ![c] = n], queue |-> Append(s.queue, Field!Entry(c, n))]
      BY <1>2 DEF Field!Reach
    <2> HIDE DEF c, n
    <2> QED
      BY <2>4, <2>6, <2>7 DEF Spreads
  <1> QED
    BY <1>1, <1>2

\* The work on one entry of the queue.
LEMMA PopKeeps ==
  ASSUME NEW m, IsMap(m), NEW s \in Spreads(m), s.queue # <<>>
  PROVE  LET t == Field!Pop(m, s)
         IN  /\ t \in Spreads(m)
             /\ SpreadInv(m, s) /\ (\A c \in Field!Cells(m) : Tended(m, s, c)) =>
                   /\ SpreadInv(m, t) /\ \A c \in Field!Cells(m) : Tended(m, t, c)
                   /\ SpreadSize(m, t) < SpreadSize(m, s)
  <1> DEFINE e == Head(s.queue)
             n == 8
             V == Spreads(m)
             base == [s EXCEPT !.queue = Tail(@)]
             Next(i, x) == Field!Reach(m, x, e, Field!Order[i])
             h == CHOOSE r : r = [i \in 0 .. 8 |-> IF i = 0 THEN base ELSE Field!Reach(m, r[i - 1], e, Field!Order[i])]
             step == [p \in (1 .. n) \X V |-> Next(p[1], p[2])]
  <1>1. /\ s.dist \in Field!Distances(m) /\ s.queue \in Seq(Field!Entries(m)) /\ Len(s.queue) \in Nat \ {0}
        /\ e \in Field!Entries(m) /\ Tail(s.queue) \in Seq(Field!Entries(m))
        /\ Len(Tail(s.queue)) = Len(s.queue) - 1 /\ e = s.queue[1]
        /\ \A i \in 1 .. Len(s.queue) - 1 : Tail(s.queue)[i] = s.queue[i + 1]
    BY DEF Spreads
  <1>2. n \in Nat /\ base \in V /\ base.dist = s.dist /\ base.queue = Tail(s.queue)
    BY <1>1 DEF Spreads
  <1>3. step \in [(1 .. n) \X V -> V] /\ \A i \in 1 .. n, x \in V : step[<<i, x>>] = Next(i, x)
    <2>1. ASSUME NEW i \in 1 .. n, NEW x \in V PROVE Next(i, x) \in V
      <3>1. Field!Order[i] \in Field!Around
        BY DirectionsAre
      <3> QED
        BY <1>1, <3>1, ReachIs
    <2> HIDE DEF V, Next
    <2> QED
      BY <2>1
  <1> DEFINE Body(r) == [i \in 0 .. n |-> IF i = 0 THEN base ELSE Next(i, r[i - 1])]
  <1>4. h = CHOOSE r : r = Body(r)
    OBVIOUS
  <1>5. Field!Pop(m, s) = h[8]
    BY DEF Field!Pop
  <1> HIDE DEF h, step, V, base, Next, n, e
  <1>6. PICK f : Loops(f, n, V, base, step)
    BY <1>2, <1>3, Recursion
  <1>7. f = Body(f)
    <2>1. f = [i \in 0 .. n |-> f[i]] /\ f[0] = base /\ \A i \in 1 .. n : f[i] = step[<<i, f[i - 1]>>] /\ f[i - 1] \in V
      BY <1>2, <1>6 DEF Loops
    <2>2. \A i \in 0 .. n : f[i] = IF i = 0 THEN base ELSE Next(i, f[i - 1])
      <3>1. \A i \in 0 .. n : i = 0 \/ i \in 1 .. n
        BY <1>2
      <3> QED
        BY <1>3, <2>1, <3>1
    <2> QED
      BY <2>1, <2>2
  <1>8. h = Body(h)
    BY <1>4, <1>7
  <1>9. h[0] = base /\ \A i \in 1 .. n : h[i] = Next(i, h[i - 1])
    <2>1. \A i \in 0 .. n : h[i] = IF i = 0 THEN base ELSE Next(i, h[i - 1])
      BY <1>8
    <2>2. 0 \in 0 .. n /\ \A i \in 1 .. n : i \in 0 .. n /\ i # 0
      BY <1>2
    <2> QED
      BY <2>1, <2>2
  <1>10. Loops(h, n, V, base, step)
    <2>1. \A i \in 1 .. n : h[i - 1] \in V => h[i] = step[<<i, h[i - 1]>>]
      BY <1>3, <1>9
    <2>2. h = [i \in 0 .. n |-> h[i]]
      BY <1>8
    <2> QED
      BY <1>2, <1>3, <1>9, <2>1, <2>2, LoopRuns
  <1>11. h[8] \in Spreads(m)
    BY <1>10 DEF Loops, n, V
  <1>12. ASSUME SpreadInv(m, s), \A c \in Field!Cells(m) : Tended(m, s, c)
         PROVE  /\ SpreadInv(m, h[8]) /\ \A c \in Field!Cells(m) : Tended(m, h[8], c)
                /\ SpreadSize(m, h[8]) < SpreadSize(m, s)
    <2> DEFINE P == {i \in 0 .. n : SpreadAt(m, h[i], e, i) /\ SpreadSize(m, h[i]) < SpreadSize(m, s)}
    <2>1. Leads(m, e.cell, e.dist)
      <3>1. 1 \in 1 .. Len(s.queue)
        BY <1>1
      <3> QED
        BY <1>1, <1>12, <3>1 DEF SpreadInv
    <2>2. SpreadInv(m, base)
      <3>1. ASSUME NEW i \in 1 .. Len(base.queue) PROVE Leads(m, base.queue[i].cell, base.queue[i].dist)
        <4>1. i + 1 \in 1 .. Len(s.queue) /\ base.queue[i] = s.queue[i + 1]
          BY <1>1, <1>2
        <4> QED
          BY <1>12, <4>1 DEF SpreadInv
      <3> QED
        BY <1>2, <1>12, <3>1 DEF SpreadInv, V
    <2>3. ASSUME NEW c \in Field!Cells(m)
          PROVE  Tended(m, base, c) \/ (c = e.cell /\ base.dist[c] = e.dist /\ EasedUpto(m, base.dist, c, 0))
      <3>1. CASE Queued(s.queue, c, s.dist[c])
        <4>1. PICK i \in 1 .. Len(s.queue) : s.queue[i] = Field!Entry(c, s.dist[c])
          BY <3>1 DEF Queued
        <4>2. CASE i = 1
          <5>1. s.dist[c] \in 0 .. Field!Infinity
            BY <1>1, EntriesAre
          <5>2. c = e.cell /\ s.dist[c] = e.dist
            BY <1>1, <4>1, <4>2, <5>1, EntriesAre
          <5>3. EasedUpto(m, base.dist, c, 0)
            BY DEF EasedUpto
          <5> QED
            BY <1>2, <5>2, <5>3
        <4>3. CASE i # 1
          <5>1. i - 1 \in 1 .. Len(s.queue) - 1 /\ (i - 1) + 1 = i
            BY <1>1, <4>3
          <5>2. i - 1 \in 1 .. Len(base.queue) /\ base.queue[i - 1] = Field!Entry(c, s.dist[c])
            BY <1>1, <1>2, <4>1, <5>1
          <5> QED
            BY <1>2, <5>2 DEF Tended, Queued
        <4> QED
          BY <4>2, <4>3
      <3> QED
        BY <1>2, <1>12, <3>1 DEF Tended
    <2>4. SpreadSize(m, base) < SpreadSize(m, s)
      BY <1>1, <1>2, BelowIsFinite DEF SpreadSize
    <2>5. 0 \in P
      <3>1. 0 \in 0 .. n
        BY <1>2
      <3> QED
        BY <1>9, <2>2, <2>3, <2>4, <3>1 DEF SpreadAt
    <2>6. ASSUME NEW i \in 0 .. n, i # n, i \in P PROVE i + 1 \in P
      <3>1. i \in 0 .. 7 /\ i + 1 \in 0 .. n /\ i + 1 \in 1 .. n /\ (i + 1) - 1 = i
        BY <2>6 DEF n
      <3>2. h[i + 1] = Field!Reach(m, h[i], e, Field!Order[i + 1])
        BY <1>9, <3>1 DEF Next
      <3>3. SpreadAt(m, h[i], e, i) /\ SpreadSize(m, h[i]) < SpreadSize(m, s)
        BY <2>6
      <3>4. SpreadAt(m, h[i + 1], e, i + 1) /\ SpreadSize(m, h[i + 1]) <= SpreadSize(m, h[i])
        BY <1>1, <2>1, <3>1, <3>2, <3>3, ReachKeeps
      <3>5. \A x \in Spreads(m) : SpreadSize(m, x) \in Nat
        BY BelowIsFinite DEF SpreadSize, Spreads
      <3>6. h[i] \in Spreads(m) /\ h[i + 1] \in Spreads(m)
        BY <3>3, <3>4 DEF SpreadAt, SpreadInv
      <3>7. SpreadSize(m, h[i + 1]) < SpreadSize(m, s)
        BY <3>3, <3>4, <3>5, <3>6
      <3> QED
        BY <3>1, <3>4, <3>7
    <2>7. 8 \in P
      <3>1. 0 .. n \subseteq P
        <4> HIDE DEF P
        <4> QED
          BY <1>2, <2>5, <2>6, Induction
      <3>2. 8 \in 0 .. n
        BY DEF n
      <3> HIDE DEF P
      <3> QED
        BY <3>1, <3>2
    <2>8. SpreadAt(m, h[8], e, 8) /\ SpreadSize(m, h[8]) < SpreadSize(m, s)
      BY <2>7
    <2>9. ASSUME NEW c \in Field!Cells(m), EasedUpto(m, h[8].dist, c, 8) PROVE EasedAll(m, h[8].dist, c)
      <3> SUFFICES ASSUME NEW d \in Field!Around PROVE Eased(m, h[8].dist, c, d)
        BY DEF EasedAll
      <3>1. PICK k \in 1 .. 8 : d = Field!Order[k]
        BY DirectionsAre
      <3> QED
        BY <2>9, <3>1 DEF EasedUpto
    <2> QED
      BY <2>8, <2>9 DEF SpreadAt, Tended
  <1> QED
    BY <1>5, <1>11, <1>12

\* A number has one quotient, and it grows with the number.
LEMMA QuotientsOf ==
  ASSUME NEW n \in Nat \ {0}, NEW d \in Int, NEW q \in Int, n * q <= d, d < n * (q + 1)
  PROVE  d \div n = q /\ d % n = d - n * q
  <1> DEFINE a == n * q
             r == d - a
  <1>1. a \in Int /\ n * (q + 1) = a + n
    OBVIOUS
  <1>2. r \in 0 .. n - 1 /\ d = n * q + r
    BY <1>1
  <1>3. d % n = r
    BY <1>2, RemaindersOf
  <1>4. d = n * (d \div n) + (d % n) /\ d \div n \in Int
    OBVIOUS
  <1> DEFINE p == d \div n
  <1>5. p \in Int /\ n * p = n * q
    BY <1>1, <1>2, <1>3, <1>4
  <1> HIDE DEF p, a, r
  <1>6. p = q
    <2>1. CASE p > q
      <3>1. p >= q + 1 /\ n * p >= n * (q + 1)
        BY <1>5, <2>1
      <3> QED
        BY <1>1, <1>5, <3>1 DEF a
    <2>2. CASE p < q
      <3>1. q >= p + 1 /\ n * q >= n * (p + 1) /\ n * (p + 1) = n * p + n
        BY <1>5, <2>2
      <3> QED
        BY <1>5, <3>1
    <2> QED
      BY <1>5, <2>1, <2>2
  <1> QED
    BY <1>3, <1>6 DEF p, r, a

\* The rows one after another are the cells.
LEMMA CellsAreNumbered ==
  ASSUME NEW m, IsMap(m)
  PROVE  /\ m.width * m.height \in Nat
         /\ \A i \in 1 .. m.width * m.height : /\ Field!CellAt(m, i - 1) \in Field!Cells(m)
                                              /\ Field!Index(m, Field!CellAt(m, i - 1)) = i - 1
         /\ \A c \in Field!Cells(m) : \E i \in 1 .. m.width * m.height : Field!CellAt(m, i - 1) = c
  <1> DEFINE w == m.width
             h == m.height
             n == w * h
  <1>1. w \in Nat /\ h \in Nat /\ n \in Nat
    BY DEF IsMap
  <1>2. ASSUME NEW i \in 1 .. n
        PROVE  Field!CellAt(m, i - 1) \in Field!Cells(m) /\ Field!Index(m, Field!CellAt(m, i - 1)) = i - 1
    <2> DEFINE d == i - 1
               q == d \div w
               r == d % w
    <2>1. w # 0
      BY <1>1
    <2>2. d \in Nat /\ d = w * q + r /\ q \in Int /\ r \in 0 .. w - 1 /\ d < n
      <3>1. d \in Nat /\ d < n /\ w \in Nat \ {0}
        BY <1>1, <2>1
      <3> HIDE DEF d, w
      <3> QED
        BY <3>1
    <2> HIDE DEF d, q, r
    <2>3. q >= 0
      <3> SUFFICES ASSUME q <= -1 PROVE FALSE
        BY <2>2
      <3>1. w * q <= -w
        BY <1>1, <2>2
      <3> QED
        BY <1>1, <2>2, <3>1
    <2>4. q < h
      <3> SUFFICES ASSUME q >= h PROVE FALSE
        BY <1>1, <2>2
      <3>1. w * q >= w * h
        BY <1>1, <2>2
      <3> QED
        BY <1>1, <2>2, <3>1
    <2>5. q \in 0 .. h - 1
      BY <1>1, <2>2, <2>3, <2>4
    <2>6. q * w + r = d
      BY <1>1, <2>2
    <2>7. Field!CellAt(m, i - 1) = <<r, q>>
      BY DEF Field!CellAt, d, q, r
    <2>8. Field!Index(m, <<r, q>>) = i - 1
      BY <2>6 DEF Field!Index, d
    <2> QED
      BY <2>2, <2>5, <2>7, <2>8 DEF Field!Cells
  <1>3. ASSUME NEW c \in Field!Cells(m) PROVE \E i \in 1 .. n : Field!CellAt(m, i - 1) = c
    <2>1. PICK x \in 0 .. w - 1, y \in 0 .. h - 1 : c = <<x, y>>
      BY DEF Field!Cells
    <2> DEFINE d == w * y + x
    <2>2. w \in Nat \ {0} /\ y \in Nat /\ x \in Nat /\ w * y \in Nat /\ d \in Nat
      BY <1>1, <2>1
    <2>3. w * (y + 1) = w * y + w
      <3> HIDE DEF w, d
      <3> QED
        BY <2>2
    <2>4. d \div w = y /\ d % w = d - w * y
      <3>1. w * y <= d /\ d < w * (y + 1) /\ d \in Int /\ y \in Int /\ w \in Nat \ {0}
        <4> HIDE DEF w
        <4> QED
          BY <2>1, <2>2, <2>3
      <3> HIDE DEF w, d
      <3> QED
        BY <3>1, QuotientsOf
    <2>5. d < n
      <3>1. w * (y + 1) <= w * h
        BY <1>1, <2>1, <2>2
      <3> QED
        BY <1>1, <2>1, <2>2, <2>3, <3>1
    <2>6. d + 1 \in 1 .. n /\ (d + 1) - 1 = d /\ d - w * y = x
      BY <1>1, <2>1, <2>2, <2>5
    <2>7. Field!CellAt(m, d) = c
      BY <2>1, <2>4, <2>6 DEF Field!CellAt
    <2> HIDE DEF d
    <2> QED
      BY <2>6, <2>7
  <1> QED
    BY <1>1, <1>2, <1>3

\* Every obstacle waits in the queue from the start, and nothing else.
LEMMA SeedsAre ==
  ASSUME NEW m, IsMap(m)
  PROVE  /\ Field!Seeds(m) \in Seq({Field!Entry(c, 0) : c \in Blocked(m)})
         /\ \A c \in Blocked(m) : Queued(Field!Seeds(m), c, 0)
  <1> DEFINE n == m.width * m.height
             V == Seq({Field!Entry(c, 0) : c \in Blocked(m)})
             base == <<>>
             At(i) == Field!CellAt(m, i - 1)
             Next(i, x) == IF m.data[i - 1] = Field!Obstacle THEN Append(x, Field!Entry(At(i), 0)) ELSE x
             Body(r) == [i \in 0 .. n |-> IF i = 0 THEN base ELSE Next(i, r[i - 1])]
             h == CHOOSE r : r = Body(r)
             step == [p \in (1 .. n) \X V |-> Next(p[1], p[2])]
  <1>1. Field!Seeds(m) = h[n]
    BY DEF Field!Seeds
  <1>2. n \in Nat /\ base \in V /\ \A i \in 1 .. n : At(i) \in Field!Cells(m)
    BY CellsAreNumbered
  <1>20. \A i \in 1 .. n : m.data[i - 1] = Field!Obstacle <=> Field!Blocked(m, At(i))
    BY CellsAreNumbered DEF Field!Blocked
  <1>3. step \in [(1 .. n) \X V -> V] /\ \A i \in 1 .. n, x \in V : step[<<i, x>>] = Next(i, x)
    <2>1. ASSUME NEW i \in 1 .. n, NEW x \in V PROVE Next(i, x) \in V
      <3>1. CASE Field!Blocked(m, At(i))
        <4>1. At(i) \in Blocked(m)
          BY <1>2, <3>1 DEF Blocked
        <4>2. Field!Entry(At(i), 0) \in {Field!Entry(c, 0) : c \in Blocked(m)}
          BY <4>1
        <4> QED
          BY <1>20, <3>1, <4>2
      <3>2. CASE ~ Field!Blocked(m, At(i))
        BY <1>20, <3>2
      <3> QED
        BY <3>1, <3>2
    <2> HIDE DEF V, Next
    <2> QED
      BY <2>1
  <1> HIDE DEF h, step, V, base, Next, n
  <1>6. PICK f : Loops(f, n, V, base, step)
    BY <1>2, <1>3, Recursion
  <1>7. f = Body(f)
    <2>1. f = [i \in 0 .. n |-> f[i]] /\ f[0] = base /\ \A i \in 1 .. n : f[i] = step[<<i, f[i - 1]>>] /\ f[i - 1] \in V
      BY <1>2, <1>6 DEF Loops
    <2>2. \A i \in 0 .. n : f[i] = IF i = 0 THEN base ELSE Next(i, f[i - 1])
      <3>1. \A i \in 0 .. n : i = 0 \/ i \in 1 .. n
        BY <1>2
      <3> QED
        BY <1>3, <2>1, <3>1
    <2> QED
      BY <2>1, <2>2
  <1>8. h = Body(h)
    BY <1>7 DEF h
  <1>9. h[0] = base /\ \A i \in 1 .. n : h[i] = Next(i, h[i - 1])
    <2>1. \A i \in 0 .. n : h[i] = IF i = 0 THEN base ELSE Next(i, h[i - 1])
      BY <1>8
    <2>2. 0 \in 0 .. n /\ \A i \in 1 .. n : i \in 0 .. n /\ i # 0
      BY <1>2
    <2> QED
      BY <2>1, <2>2
  <1>10. Loops(h, n, V, base, step)
    <2>1. \A i \in 1 .. n : h[i - 1] \in V => h[i] = step[<<i, h[i - 1]>>]
      BY <1>3, <1>9
    <2>2. h = [i \in 0 .. n |-> h[i]]
      BY <1>8
    <2> QED
      BY <1>2, <1>3, <1>9, <2>1, <2>2, LoopRuns
  <1>11. \A i \in 0 .. n : h[i] \in V
    BY <1>10 DEF Loops
  <1> DEFINE Has(i) == \A j \in 1 .. i : Field!Blocked(m, At(j)) => Queued(h[i], At(j), 0)
             P == {i \in 0 .. n : Has(i)}
  <1>12. 0 \in P
    BY <1>2
  <1>13. ASSUME NEW i \in 0 .. n, i # n, i \in P PROVE i + 1 \in P
    <2>1. i + 1 \in 1 .. n /\ i + 1 \in 0 .. n /\ (i + 1) - 1 = i /\ \A j \in 1 .. i + 1 : j \in 1 .. i \/ j = i + 1
      BY <1>2, <1>13
    <2>2. h[i + 1] = Next(i + 1, h[i])
      BY <1>9, <2>1
    <2>3. h[i] \in Seq({Field!Entry(c, 0) : c \in Blocked(m)})
      BY <1>11 DEF V
    <2>4. Has(i)
      BY <1>13
    <2> HIDE DEF At
    <2>5. ASSUME NEW j \in 1 .. i + 1, Field!Blocked(m, At(j)) PROVE Queued(h[i + 1], At(j), 0)
      <3>1. CASE ~ Field!Blocked(m, At(i + 1))
        <4>1. h[i + 1] = h[i]
          BY <1>20, <2>1, <2>2, <3>1 DEF Next
        <4> QED
          BY <2>1, <2>4, <2>5, <3>1, <4>1
      <3>2. CASE Field!Blocked(m, At(i + 1))
        <4>1. h[i + 1] = Append(h[i], Field!Entry(At(i + 1), 0))
          BY <1>20, <2>1, <2>2, <3>2 DEF Next
        <4>2. At(i + 1) \in Blocked(m)
          BY <1>2, <2>1, <3>2 DEF Blocked, At
        <4>3. Field!Entry(At(i + 1), 0) \in {Field!Entry(c, 0) : c \in Blocked(m)}
          BY <4>2
        <4>4. /\ Len(h[i + 1]) = Len(h[i]) + 1 /\ Len(h[i]) \in Nat
              /\ h[i + 1][Len(h[i]) + 1] = Field!Entry(At(i + 1), 0)
              /\ \A k \in 1 .. Len(h[i]) : h[i + 1][k] = h[i][k]
          BY <2>3, <4>1, <4>3
        <4>5. CASE j = i + 1
          <5>1. Len(h[i]) + 1 \in 1 .. Len(h[i + 1])
            BY <4>4
          <5> QED
            BY <4>4, <4>5, <5>1 DEF Queued
        <4>6. CASE j \in 1 .. i
          <5>1. PICK k \in 1 .. Len(h[i]) : h[i][k] = Field!Entry(At(j), 0)
            BY <2>4, <2>5, <4>6 DEF Queued
          <5>2. k \in 1 .. Len(h[i + 1]) /\ h[i + 1][k] = Field!Entry(At(j), 0)
            BY <4>4, <5>1
          <5> QED
            BY <5>2 DEF Queued
        <4> QED
          BY <2>1, <4>5, <4>6
      <3> QED
        BY <3>1, <3>2
    <2> QED
      BY <2>1, <2>5
  <1>14. 0 .. n \subseteq P
    <2> HIDE DEF P
    <2> QED
      BY <1>2, <1>12, <1>13, Induction
  <1>15. Has(n) /\ h[n] \in V
    BY <1>2, <1>11, <1>14
  <1>16. ASSUME NEW c \in Blocked(m) PROVE Queued(h[n], c, 0)
    <2>1. PICK i \in 1 .. n : At(i) = c
      BY CellsAreNumbered DEF Blocked, n
    <2> QED
      BY <1>15, <2>1 DEF Blocked
  <1> QED
    BY <1>1, <1>15, <1>16 DEF V

\* When nothing waits any more the field is the octile distance to the nearest
\* obstacle.
LEMMA SpreadStarts ==
  ASSUME NEW m, IsMap(m)
  PROVE  LET s == [dist |-> [c \in Field!Cells(m) |-> IF Field!Blocked(m, c) THEN 0 ELSE Field!Infinity],
                   queue |-> Field!Seeds(m)]
         IN  SpreadInv(m, s) /\ \A c \in Field!Cells(m) : Tended(m, s, c)
  <1> DEFINE g == [c \in Field!Cells(m) |-> IF Field!Blocked(m, c) THEN 0 ELSE Field!Infinity]
             s == [dist |-> g, queue |-> Field!Seeds(m)]
             E == {Field!Entry(c, 0) : c \in Blocked(m)}
  <1>1. Field!Infinity \in Nat /\ \A c \in Field!Cells(m) : c \in Int \X Int
    BY EntriesAre
  <1>2. g \in Field!Distances(m)
    BY <1>1 DEF Field!Distances
  <1>3. Field!Seeds(m) \in Seq(E) /\ \A c \in Blocked(m) : Queued(Field!Seeds(m), c, 0)
    BY SeedsAre
  <1>4. E \subseteq Field!Entries(m)
    BY <1>1, EntriesAre DEF Blocked
  <1>5. Field!Seeds(m) \in Seq(Field!Entries(m))
    <2> HIDE DEF E
    <2> QED
      BY <1>3, <1>4
  <1>6. \A c \in Blocked(m) : Leads(m, c, 0)
    <2> SUFFICES ASSUME NEW c \in Blocked(m) PROVE Leads(m, c, 0)
      OBVIOUS
    <2>1. c \in Int \X Int
      BY <1>1 DEF Blocked
    <2>2. Field!Heuristic(c, c) = Octile(Apart(c[1], c[1]), Apart(c[2], c[2]))
      BY <2>1, OctileIs
    <2>3. Field!Heuristic(c, c) = 0
      BY <2>1, <2>2 DEF Octile, Apart
    <2> QED
      BY <2>3 DEF Leads
  <1>7. ASSUME NEW i \in 1 .. Len(Field!Seeds(m)) PROVE Leads(m, Field!Seeds(m)[i].cell, Field!Seeds(m)[i].dist)
    <2>1. Field!Seeds(m)[i] \in E
      <3> HIDE DEF E
      <3> QED
        BY <1>3
    <2>2. PICK c \in Blocked(m) : Field!Seeds(m)[i] = Field!Entry(c, 0)
      BY <2>1
    <2>3. c \in Field!Cells(m) /\ 0 \in 0 .. Field!Infinity
      BY <1>1 DEF Blocked
    <2>4. Field!Seeds(m)[i].cell = c /\ Field!Seeds(m)[i].dist = 0
      BY <2>2, <2>3, EntriesAre
    <2> QED
      BY <1>6, <2>4
  <1> HIDE DEF E
  <1>8. s.dist = g /\ s.queue = Field!Seeds(m) /\ s \in Spreads(m)
    BY <1>2, <1>5 DEF Spreads
  <1>9. \A c \in Field!Cells(m) : g[c] = IF c \in Blocked(m) THEN 0 ELSE Field!Infinity
    BY DEF Blocked
  <1>10. \A c \in Blocked(m) : c \in Field!Cells(m)
    BY DEF Blocked
  <1> HIDE DEF g, s
  <1>11. SpreadInv(m, s)
    BY <1>1, <1>6, <1>7, <1>8, <1>9, <1>10 DEF SpreadInv
  <1>12. ASSUME NEW c \in Field!Cells(m) PROVE Tended(m, s, c)
    BY <1>3, <1>8, <1>9 DEF Tended
  <1> QED
    BY <1>11, <1>12 DEF s, g

LEMMA BuildEnds ==
  ASSUME NEW m, IsMap(m)
  PROVE  \E s \in Spreads(m) :
            /\ Field!Build(m) = s.dist
            /\ SpreadInv(m, s) /\ s.queue = <<>> /\ \A c \in Field!Cells(m) : Tended(m, s, c)
  <1> DEFINE S == Spreads(m)
             done == {s \in S : s.queue = <<>>}
             step == [s \in S |-> IF s.queue = <<>> THEN s ELSE Field!Pop(m, s)]
             Body(r) == [s \in S |-> IF s.queue = <<>> THEN s ELSE r[Field!Pop(m, s)]]
             spread == CHOOSE r : r = Body(r)
             start == [dist |-> [c \in Field!Cells(m) |-> IF Field!Blocked(m, c) THEN 0 ELSE Field!Infinity],
                       queue |-> Field!Seeds(m)]
             I == {s \in S : SpreadInv(m, s) /\ \A c \in Field!Cells(m) : Tended(m, s, c)}
             mu == [s \in I |-> SpreadSize(m, s)]
  <1>1. Field!Build(m) = spread[start].dist
    BY DEF Field!Build, Spreads
  <1>2. \A s \in S : s.queue # <<>> => Field!Pop(m, s) \in S
    BY PopKeeps
  <1>3. step \in [S -> S] /\ \A s \in S : step[s] = IF s \in done THEN s ELSE Field!Pop(m, s)
    <2> HIDE DEF S
    <2> QED
      BY <1>2
  <1>4. PICK f : f = [s \in S |-> IF s \in done THEN s ELSE f[step[s]]]
    <2> HIDE DEF S, done, step
    <2> QED
      BY <1>3, WhilesExist
  <1>5. \A r : Body(r) = [s \in S |-> IF s \in done THEN s ELSE r[step[s]]]
    <2> SUFFICES ASSUME NEW r PROVE Body(r) = [s \in S |-> IF s \in done THEN s ELSE r[step[s]]]
      OBVIOUS
    <2>1. \A s \in S : (s \in done <=> s.queue = <<>>) /\ (s \notin done => step[s] = Field!Pop(m, s))
      BY <1>3
    <2> HIDE DEF S, done, step
    <2> QED
      BY <2>1
  <1> HIDE DEF step, Body
  <1>6. spread = Body(spread)
    BY <1>4, <1>5
  <1>7. spread = [s \in S |-> IF s \in done THEN s ELSE spread[step[s]]]
    <2> HIDE DEF spread, S, done
    <2> QED
      BY <1>5, <1>6
  <1>8. start \in I
    <2>1. SpreadInv(m, start) /\ \A c \in Field!Cells(m) : Tended(m, start, c)
      BY SpreadStarts
    <2> HIDE DEF start
    <2> QED
      BY <2>1 DEF SpreadInv
  <1> HIDE DEF spread, start
  <1>9. mu \in [I -> Nat]
    <2>1. \A s \in S : SpreadSize(m, s) \in Nat
      BY BelowIsFinite DEF SpreadSize, Spreads
    <2> QED
      BY <2>1
  <1>10. ASSUME NEW s \in I, s \notin done PROVE step[s] \in I /\ mu[step[s]] < mu[s]
    <2>1. s \in S /\ s.queue # <<>> /\ step[s] = Field!Pop(m, s)
      BY <1>3, <1>10
    <2>2. /\ Field!Pop(m, s) \in S /\ SpreadInv(m, Field!Pop(m, s))
          /\ \A c \in Field!Cells(m) : Tended(m, Field!Pop(m, s), c)
          /\ SpreadSize(m, Field!Pop(m, s)) < SpreadSize(m, s)
      BY <1>10, <2>1, PopKeeps
    <2>3. step[s] \in I
      BY <2>1, <2>2
    <2> QED
      BY <2>1, <2>2, <2>3
  <1>11. \A s \in I : spread[s] \in I /\ spread[s] \in done
    <2>1. I \in SUBSET S
      OBVIOUS
    <2> HIDE DEF I, mu, S, done
    <2> QED
      BY <1>3, <1>7, <1>9, <1>10, <2>1, WhilesEnd, SMTT(30)
  <1> QED
    BY <1>1, <1>8, <1>11

LEMMA BuildIsNearest ==
  ASSUME NEW m, IsMap(m)
  PROVE  /\ Field!Build(m) \in Field!Distances(m)
         /\ Field!DistanceIsNearest(m, Field!Build(m))
         /\ \A c \in Field!Cells(m) : Field!Build(m)[c] = 0 <=> Field!Blocked(m, c)
         /\ \A c \in Field!Cells(m), d \in Field!Around : Eased(m, Field!Build(m), c, d)
  <1> DEFINE dist == Field!Build(m)
  <1>1. PICK s \in Spreads(m) : /\ dist = s.dist /\ SpreadInv(m, s) /\ s.queue = <<>>
                                /\ \A c \in Field!Cells(m) : Tended(m, s, c)
    BY BuildEnds
  <1> HIDE DEF dist
  <1>2. /\ dist \in Field!Distances(m) /\ Field!Infinity \in Nat
        /\ \A c \in Field!Cells(m) : c \in Int \X Int /\ dist[c] \in 0 .. Field!Infinity
    BY <1>1, EntriesAre DEF Spreads
  <1>3. ASSUME NEW c \in Field!Cells(m), NEW d \in Field!Around PROVE Eased(m, dist, c, d)
    <2>1. dist[c] = Field!Infinity \/ EasedAll(m, dist, c)
      <3>1. ~ Queued(s.queue, c, dist[c])
        BY <1>1 DEF Queued
      <3> QED
        BY <1>1, <3>1 DEF Tended
    <2>2. CASE EasedAll(m, dist, c)
      BY <2>2 DEF EasedAll
    <2>3. CASE dist[c] = Field!Infinity
      <3>1. Field!StepCost(d) \in Nat
        BY StepCosts
      <3> QED
        BY <1>2, <2>3, <3>1 DEF Eased, Field!IsInside
    <2> QED
      BY <2>1, <2>2, <2>3
  <1>4. \A c \in Field!Cells(m), o \in Blocked(m) : dist[c] <= Field!Heuristic(c, o)
    <2> SUFFICES ASSUME NEW o \in Blocked(m) PROVE \A c \in Field!Cells(m) : dist[c] <= Field!Heuristic(c, o)
      OBVIOUS
    <2>1. o \in Field!Cells(m) /\ dist[o] = 0
      BY <1>1 DEF SpreadInv, Blocked
    <2> QED
      BY <1>2, <1>3, <2>1, EasedIsNear
  <1>5. \A c \in Field!Cells(m), o \in Blocked(m) : Field!Heuristic(c, o) \in Nat /\ (Field!Heuristic(c, o) = 0 => c = o)
    <2>1. \A o \in Blocked(m) : o \in Int \X Int
      BY <1>2 DEF Blocked
    <2> QED
      BY <1>2, <2>1, OctileSteps
  <1>6. ASSUME NEW c \in Field!Cells(m), dist[c] < Field!Infinity
        PROVE  \E o \in Blocked(m) : dist[c] = Field!Heuristic(c, o)
    <2>1. PICK o \in Blocked(m) : Field!Heuristic(c, o) <= dist[c]
      BY <1>1, <1>6 DEF SpreadInv, Leads
    <2>2. dist[c] = Field!Heuristic(c, o)
      BY <1>2, <1>4, <1>5, <2>1
    <2> QED
      BY <2>2
  <1>7. Field!DistanceIsNearest(m, dist)
    <2> SUFFICES ASSUME NEW c \in Field!Cells(m)
                 PROVE  LET ds == {Field!Heuristic(c, o) : o \in {x \in Field!Cells(m) : Field!Blocked(m, x)}} \cup {Field!Infinity}
                        IN  dist[c] = CHOOSE n \in ds : \A k \in ds : n <= k
      BY DEF Field!DistanceIsNearest
    <2> DEFINE ds == {Field!Heuristic(c, o) : o \in Blocked(m)} \cup {Field!Infinity}
    <2>1. {x \in Field!Cells(m) : Field!Blocked(m, x)} = Blocked(m)
      BY DEF Blocked
    <2>2. dist[c] \in ds
      BY <1>2, <1>6
    <2>3. \A k \in ds : dist[c] <= k /\ k \in Nat
      BY <1>2, <1>4, <1>5
    <2> HIDE DEF ds
    <2>4. \A n \in ds : (\A k \in ds : n <= k) => n = dist[c]
      BY <2>2, <2>3
    <2>5. dist[c] = CHOOSE n \in ds : \A k \in ds : n <= k
      BY <2>2, <2>3, <2>4
    <2> QED
      BY <2>1, <2>5 DEF ds
  <1>8. ASSUME NEW c \in Field!Cells(m) PROVE dist[c] = 0 <=> Field!Blocked(m, c)
    <2>1. CASE Field!Blocked(m, c)
      BY <1>1, <2>1 DEF SpreadInv, Blocked
    <2>2. CASE dist[c] = 0
      <3>1. dist[c] < Field!Infinity
        BY <2>2, EntriesAre
      <3>2. PICK o \in Blocked(m) : dist[c] = Field!Heuristic(c, o)
        BY <1>6, <3>1
      <3> QED
        BY <1>5, <2>2, <3>2 DEF Blocked
    <2> QED
      BY <2>1, <2>2
  <1> QED
    BY <1>2, <1>3, <1>7, <1>8 DEF dist

-----------------------------------------------------------------------------
(* The heuristic field: Dijkstra from the cell g of the goal.              *)

\* What a cell that is not at the goal has, it has from a neighbour; what a
\* cell has, its neighbours know of or it waits to tell them.
Ahead(m, field, c, d) ==
  Field!IsInside(m, Field!Shift(c, d)) /\ ~ Field!Blocked(m, Field!Shift(c, d)) =>
    field[Field!Shift(c, d)] <= field[c] + Field!StepCost(d)
AheadAll(m, field, c) == \A d \in Field!Around : Ahead(m, field, c, d)
AheadUpto(m, field, c, k) == \A j \in 1 .. k : Ahead(m, field, c, Field!Order[j])
Behind(m, field, c, d) ==
  Field!IsInside(m, Field!Shift(c, d)) /\ field[Field!Shift(c, d)] + Field!StepCost(d) <= field[c]
Reached(m, g, field, c) ==
  \/ c = g
  \/ field[c] = Field!Infinity
  \/ ~ Field!Blocked(m, c) /\ \E d \in Field!Around : Behind(m, field, c, d)
Fields(m) == [field : Field!Distances(m), open : SUBSET Field!Entries(m)]
Settled(m, s, c) == s.field[c] = Field!Infinity \/ Field!Entry(c, s.field[c]) \in s.open \/ AheadAll(m, s.field, c)
FieldInv(m, g, s) ==
  /\ s \in Fields(m) /\ s.field[g] = 0
  /\ \A c \in Field!Cells(m) : Reached(m, g, s.field, c)
  /\ \A e \in s.open : s.field[e.cell] <= e.dist
\* In the middle of the work on e, when k of its neighbours are done.
FieldAt(m, g, s, e, k) ==
  /\ FieldInv(m, g, s) /\ s.field[e.cell] = e.dist /\ AheadUpto(m, s.field, e.cell, k)
  /\ \A c \in Field!Cells(m) : c = e.cell \/ Settled(m, s, c)
FieldSize(m, s) == 2 * Cardinality(Below(m, s.field)) + Cardinality(s.open)
\* A distance field with which the obstacles are at distance 0 and nothing else.
Tells(m, dist) == \A c \in Field!Cells(m) : dist[c] > 0 <=> ~ Field!Blocked(m, c)

LEMMA EntriesAreFinite ==
  ASSUME NEW m, IsMap(m), NEW X \in SUBSET Field!Entries(m)
  PROVE  IsFiniteSet(X) /\ Cardinality(X) \in Nat
  <1>1. m.width - 1 \in Int /\ m.height - 1 \in Int /\ Field!Infinity \in Nat
    BY SMT DEF IsMap, Field!Infinity
  <1>2. IsFiniteSet(0 .. m.width - 1) /\ IsFiniteSet(0 .. m.height - 1) /\ IsFiniteSet(0 .. Field!Infinity)
    BY <1>1, FS_Interval
  <1>3. IsFiniteSet(Field!Cells(m))
    BY <1>2, FS_Product DEF Field!Cells
  <1> DEFINE P == Field!Cells(m) \X (0 .. Field!Infinity)
             f == [p \in P |-> Field!Entry(p[1], p[2])]
             R == {f[p] : p \in P}
  <1>4. IsFiniteSet(P)
    BY <1>2, <1>3, FS_Product
  <1>5. f \in Surjection(P, R)
    BY DEF Surjection
  <1>6. IsFiniteSet(R)
    <2> HIDE DEF P, f, R
    <2> QED
      BY <1>4, <1>5, FS_Surjection
  <1>7. ASSUME NEW e \in X PROVE e \in R
    <2>1. e.cell \in Field!Cells(m) /\ e.dist \in 0 .. Field!Infinity /\ e = Field!Entry(e.cell, e.dist)
      BY EntriesAre
    <2>2. <<e.cell, e.dist>> \in P /\ f[<<e.cell, e.dist>>] = e
      BY <2>1
    <2> HIDE DEF P, f
    <2> QED
      BY <2>2
  <1>8. X \subseteq R
    BY <1>7
  <1> HIDE DEF R
  <1>9. IsFiniteSet(X)
    BY <1>6, <1>8, FS_Subset
  <1> QED
    BY <1>9, FS_CardinalityType

LEMMA ShortenKeeps ==
  ASSUME NEW m, IsMap(m), NEW dist, Tells(m, dist), NEW g \in Field!Cells(m), NEW s, NEW e \in Field!Entries(m),
         NEW k \in 0 .. 7, FieldAt(m, g, s, e, k)
  PROVE  LET t == Field!Shorten(m, dist, s, e, Field!Order[k + 1])
         IN  FieldAt(m, g, t, e, k + 1) /\ FieldSize(m, t) <= FieldSize(m, s)
  <1> DEFINE d == Field!Order[k + 1]
             c == Field!Shift(e.cell, d)
             n == e.dist + Field!StepCost(d)
             t == Field!Shorten(m, dist, s, e, d)
             Goes == c \in Field!Cells(m) /\ ~ Field!Blocked(m, c) /\ n < s.field[c]
  <1>1. d \in Field!Around /\ k + 1 \in 1 .. 8 /\ Field!StepCost(d) \in {1000, 1414}
    <2>1. k + 1 \in 1 .. 8
      OBVIOUS
    <2>2. d \in Field!Around
      BY <2>1, DirectionsAre
    <2> HIDE DEF d
    <2> QED
      BY <2>1, <2>2, StepCosts
  <1>2. /\ s \in Fields(m) /\ s.field \in Field!Distances(m) /\ s.open \in SUBSET Field!Entries(m)
        /\ e.cell \in Field!Cells(m) /\ e.dist \in 0 .. Field!Infinity /\ Field!Infinity \in Nat
        /\ \A x \in Field!Cells(m) : x \in Int \X Int /\ s.field[x] \in 0 .. Field!Infinity
        /\ e.cell \in Int \X Int
    BY EntriesAre DEF FieldAt, FieldInv, Fields
  <1>3. n \in Nat
    BY <1>1, <1>2
  <1> HIDE DEF d
  <1>4. \A j \in 1 .. k + 1 : j \in 1 .. k \/ j = k + 1
    OBVIOUS
  <1>5. t = IF Goes THEN [field |-> [s.field EXCEPT ![c] = n], open |-> s.open \cup {Field!Entry(c, n)}] ELSE s
    <2>1. Field!GetDistance(m, dist, c) > 0 <=> c \in Field!Cells(m) /\ ~ Field!Blocked(m, c)
      BY DEF Tells, Field!GetDistance, Field!IsInside
    <2> QED
      BY <2>1 DEF Field!Shorten
  <1> HIDE DEF t
  <1>6. CASE ~ Goes
    <2>1. t = s
      BY <1>5, <1>6
    <2>2. Ahead(m, s.field, e.cell, d)
      <3>1. c \in Field!Cells(m) /\ ~ Field!Blocked(m, c) => s.field[c] \in Nat /\ ~(n < s.field[c])
        BY <1>2, <1>6
      <3>2. s.field[e.cell] = e.dist
        BY DEF FieldAt
      <3> QED
        BY <1>3, <3>1, <3>2 DEF Ahead, Field!IsInside
    <2>3. AheadUpto(m, s.field, e.cell, k) /\ Ahead(m, s.field, e.cell, d) => AheadUpto(m, s.field, e.cell, k + 1)
      BY <1>4 DEF AheadUpto, d
    <2>4. FieldAt(m, g, s, e, k + 1)
      BY <2>2, <2>3 DEF FieldAt
    <2>5. FieldSize(m, s) \in Nat
      BY <1>2, BelowIsFinite, EntriesAreFinite DEF FieldSize
    <2> QED
      BY <2>1, <2>4, <2>5 DEF d, t
  <1>7. CASE Goes
    <2> DEFINE f == [s.field EXCEPT ![c] = n]
               q == s.open \cup {Field!Entry(c, n)}
               b == <<-d[1], -d[2]>>
    <2>1. c \in Field!Cells(m) /\ n < s.field[c] /\ n \in 0 .. Field!Infinity /\ ~ Field!Blocked(m, c)
      BY <1>2, <1>3, <1>7
    <2>2. t = [field |-> f, open |-> q]
      BY <1>5, <1>7
    <2>3. /\ f \in Field!Distances(m) /\ f[c] = n
          /\ \A x \in Field!Cells(m) : f[x] <= s.field[x] /\ (x # c => f[x] = s.field[x])
          /\ Cardinality(Below(m, f)) + 1 <= Cardinality(Below(m, s.field))
      BY <1>2, <1>3, <2>1, LoweredIsLess
    <2>4. Field!Entry(c, n) \in Field!Entries(m) /\ Field!Entry(c, n).cell = c /\ Field!Entry(c, n).dist = n
      BY <2>1, EntriesAre
    <2>5. c # e.cell /\ b \in Field!Around /\ Field!StepCost(b) = Field!StepCost(d) /\ Field!Shift(c, b) = e.cell
      <3>1. b \in Field!Around /\ Field!StepCost(b) = Field!StepCost(d)
        BY <1>1, DirectionsAre
      <3>2. c # e.cell /\ Field!Shift(c, b) = e.cell
        <4> HIDE DEF b
        <4>1. c # e.cell /\ Field!Shift(c, <<-d[1], -d[2]>>) = e.cell
          BY <1>1, <1>2, NeighboursAre
        <4> QED
          BY <4>1 DEF b
      <3> QED
        BY <3>1, <3>2
    <2>6. c # g
      BY <1>3, <2>1 DEF FieldAt, FieldInv
    <2>7. \A x \in Field!Cells(m) : f[x] \in 0 .. Field!Infinity
      BY <2>3, EntriesAre
    <2> HIDE DEF f, q, b
    <2>8. t.field = f /\ t.open = q
      BY <2>2
    <2>9. f[e.cell] = e.dist
      BY <1>2, <2>3, <2>5 DEF FieldAt
    <2>10. FieldInv(m, g, t)
      <3>1. t \in Fields(m)
        <4>1. q \in SUBSET Field!Entries(m)
          BY <1>2, <2>4 DEF q
        <4> HIDE DEF c, n
        <4> QED
          BY <2>2, <2>3, <4>1 DEF Fields
      <3>2. f[g] = 0
        BY <2>3, <2>6 DEF FieldAt, FieldInv
      <3>3. ASSUME NEW x \in Field!Cells(m) PROVE Reached(m, g, f, x)
        <4>1. CASE x = c
          <5>1. Behind(m, f, c, b)
            BY <1>2, <1>3, <2>3, <2>5, <2>9 DEF Behind, Field!IsInside
          <5> QED
            BY <2>1, <2>5, <4>1, <5>1 DEF Reached
        <4>2. CASE x # c
          <5>1. Reached(m, g, s.field, x) /\ f[x] = s.field[x]
            BY <2>3, <4>2 DEF FieldAt, FieldInv
          <5>2. ASSUME NEW a \in Field!Around, Behind(m, s.field, x, a) PROVE Behind(m, f, x, a)
            <6>1. Field!StepCost(a) \in Nat /\ Field!Shift(x, a) \in Field!Cells(m)
              BY <5>2, StepCosts DEF Behind, Field!IsInside
            <6>2. f[Field!Shift(x, a)] <= s.field[Field!Shift(x, a)]
              BY <2>3, <6>1
            <6>3. f[Field!Shift(x, a)] \in Nat /\ s.field[Field!Shift(x, a)] \in Nat /\ f[x] \in Nat
              BY <1>2, <2>7, <6>1
            <6> QED
              BY <5>1, <5>2, <6>1, <6>2, <6>3 DEF Behind
          <5> QED
            BY <5>1, <5>2 DEF Reached
        <4> QED
          BY <4>1, <4>2
      <3>4. ASSUME NEW x \in q PROVE f[x.cell] <= x.dist
        <4>1. CASE x = Field!Entry(c, n)
          BY <1>3, <2>3, <2>4, <4>1
        <4>2. CASE x \in s.open
          <5>1. x.cell \in Field!Cells(m) /\ x.dist \in Nat
            <6>1. x \in Field!Entries(m)
              BY <1>2, <4>2
            <6> QED
              BY <1>2, <6>1, EntriesAre
          <5>2. s.field[x.cell] <= x.dist
            BY <4>2 DEF FieldAt, FieldInv
          <5>3. f[x.cell] <= s.field[x.cell] /\ f[x.cell] \in Nat /\ s.field[x.cell] \in Nat
            BY <1>2, <2>3, <2>7, <5>1
          <5> QED
            BY <5>1, <5>2, <5>3
        <4> QED
          BY <4>1, <4>2 DEF q
      <3> QED
        BY <2>8, <3>1, <3>2, <3>3, <3>4 DEF FieldInv
    <2>11. ASSUME NEW x \in Field!Cells(m), x # c, NEW a \in Field!Around, Ahead(m, s.field, x, a) PROVE Ahead(m, f, x, a)
      <3> DEFINE y == Field!Shift(x, a)
      <3>1. y \in Field!Cells(m) => f[y] <= s.field[y] /\ s.field[y] \in Nat /\ f[y] \in Nat
        BY <1>2, <2>3, <2>7
      <3>2. Field!StepCost(a) \in Nat /\ f[x] = s.field[x] /\ s.field[x] \in Nat
        <4>1. Field!StepCost(a) \in {1000, 1414}
          BY StepCosts
        <4> QED
          BY <1>2, <2>3, <2>11, <4>1
      <3> QED
        BY <2>11, <3>1, <3>2 DEF Ahead, Field!IsInside
    <2>12. ASSUME NEW x \in Field!Cells(m), x # e.cell PROVE Settled(m, t, x)
      <3>1. CASE x = c
        <4>1. Field!Entry(x, f[x]) \in q
          BY <2>3, <3>1 DEF q
        <4> QED
          BY <2>8, <4>1 DEF Settled
      <3>2. CASE x # c
        <4>1. Settled(m, s, x) /\ f[x] = s.field[x]
          BY <2>3, <2>12, <3>2 DEF FieldAt
        <4>2. AheadAll(m, s.field, x) => AheadAll(m, f, x)
          BY <2>11, <3>2 DEF AheadAll
        <4> QED
          BY <2>8, <4>1, <4>2 DEF Settled, q
      <3> QED
        BY <3>1, <3>2
    <2>13. AheadUpto(m, f, e.cell, k + 1)
      <3> SUFFICES ASSUME NEW j \in 1 .. k + 1 PROVE Ahead(m, f, e.cell, Field!Order[j])
        BY DEF AheadUpto
      <3>1. CASE j = k + 1
        <4>1. Field!Shift(e.cell, Field!Order[j]) = c /\ n = e.dist + Field!StepCost(Field!Order[j])
          BY <3>1 DEF d
        <4> QED
          BY <1>3, <2>3, <2>9, <4>1 DEF Ahead
      <3>2. CASE j \in 1 .. k
        <4>1. Field!Order[j] \in Field!Around /\ Ahead(m, s.field, e.cell, Field!Order[j])
          BY <3>2, DirectionsAre DEF AheadUpto, FieldAt
        <4> QED
          BY <1>2, <2>5, <2>11, <4>1
      <3> QED
        BY <1>4, <3>1, <3>2
    <2>14. FieldSize(m, t) <= FieldSize(m, s)
      <3>1. Cardinality(Below(m, f)) \in Nat /\ Cardinality(Below(m, s.field)) \in Nat
        BY BelowIsFinite
      <3>2. IsFiniteSet(s.open) /\ Cardinality(s.open) \in Nat
        BY <1>2, EntriesAreFinite
      <3>3. Cardinality(q) = (IF Field!Entry(c, n) \in s.open THEN Cardinality(s.open) ELSE Cardinality(s.open) + 1)
        BY <3>2, FS_AddElement DEF q
      <3>4. Cardinality(q) <= Cardinality(s.open) + 1 /\ Cardinality(q) \in Nat
        BY <3>2, <3>3
      <3> QED
        BY <2>3, <2>8, <3>1, <3>2, <3>4 DEF FieldSize
    <2> QED
      BY <2>8, <2>9, <2>10, <2>12, <2>13, <2>14 DEF FieldAt, t, d
  <1> QED
    BY <1>6, <1>7

LEMMA ShortenIs ==
  ASSUME NEW m, IsMap(m), NEW dist, NEW s \in Fields(m), NEW e \in Field!Entries(m), NEW d \in Field!Around
  PROVE  Field!Shorten(m, dist, s, e, d) \in Fields(m)
  <1> DEFINE c == Field!Shift(e.cell, d)
             n == e.dist + Field!StepCost(d)
             Goes == Field!GetDistance(m, dist, c) > 0 /\ n < s.field[c]
  <1>1. CASE ~ Goes
    BY <1>1 DEF Field!Shorten
  <1>2. CASE Goes
    <2>1. c \in Field!Cells(m) /\ n < s.field[c]
      BY <1>2 DEF Field!GetDistance, Field!IsInside
    <2>2. s.field \in Field!Distances(m) /\ s.open \in SUBSET Field!Entries(m)
      BY DEF Fields
    <2>3. n \in 0 .. Field!Infinity
      <3>1. e.dist \in 0 .. Field!Infinity /\ s.field[c] \in 0 .. Field!Infinity /\ Field!Infinity \in Nat
        BY <2>1, <2>2, EntriesAre
      <3>2. Field!StepCost(d) \in Nat
        BY StepCosts
      <3> QED
        BY <2>1, <3>1, <3>2
    <2>4. [s.field EXCEPT ![c] = n] \in Field!Distances(m)
      BY <2>2, <2>3 DEF Field!Distances
    <2>5. Field!Entry(c, n) \in Field!Entries(m)
      BY <2>1, <2>3, EntriesAre
    <2>6. s.open \cup {Field!Entry(c, n)} \in SUBSET Field!Entries(m)
      BY <2>2, <2>5
    <2>7. Field!Shorten(m, dist, s, e, d) = [field |-> [s.field EXCEPT ![c] = n], open |-> s.open \cup {Field!Entry(c, n)}]
      BY <1>2 DEF Field!Shorten
    <2> HIDE DEF c, n
    <2> QED
      BY <2>4, <2>6, <2>7 DEF Fields
  <1> QED
    BY <1>1, <1>2

\* The work on the entry with the least distance.
LEMMA SettleKeeps ==
  ASSUME NEW m, IsMap(m), NEW dist, Tells(m, dist), NEW g \in Field!Cells(m), NEW s \in Fields(m), s.open # {}
  PROVE  LET t == Field!Settle(m, dist, s)
         IN  /\ t \in Fields(m)
             /\ FieldInv(m, g, s) /\ (\A c \in Field!Cells(m) : Settled(m, s, c)) =>
                   /\ FieldInv(m, g, t) /\ \A c \in Field!Cells(m) : Settled(m, t, c)
                   /\ FieldSize(m, t) < FieldSize(m, s)
  <1> DEFINE e == CHOOSE x \in s.open : \A y \in s.open : x.dist <= y.dist
             n == 8
             V == Fields(m)
             base == [s EXCEPT !.open = @ \ {e}]
             Next(i, x) == Field!Shorten(m, dist, x, e, Field!Order[i])
             h == CHOOSE r : r = [i \in 0 .. 8 |-> IF i = 0 THEN base ELSE Field!Shorten(m, dist, r[i - 1], e, Field!Order[i])]
             step == [p \in (1 .. n) \X V |-> Next(p[1], p[2])]
  <1>1. /\ s.field \in Field!Distances(m) /\ s.open \in SUBSET Field!Entries(m)
        /\ \A x \in s.open : x.cell \in Field!Cells(m) /\ x.dist \in Nat /\ x = Field!Entry(x.cell, x.dist)
        /\ \A c \in Field!Cells(m) : s.field[c] \in 0 .. Field!Infinity
        /\ Field!Infinity \in Nat
    BY EntriesAre DEF Fields
  <1>2. e \in s.open
    <2>1. \E x \in s.open : \A y \in s.open : x.dist <= y.dist
      <3> DEFINE D == {x.dist : x \in s.open}
      <3>1. D \in SUBSET Nat /\ D # {}
        BY <1>1
      <3>2. PICK k \in D : \A l \in D : k <= l
        <4> HIDE DEF D
        <4> QED
          BY <3>1, LeastExists
      <3> QED
        BY <3>2
    <2> QED
      BY <2>1
  <1> HIDE DEF e
  <1>3. /\ base \in V /\ base.field = s.field /\ base.open = s.open \ {e} /\ n \in Nat
        /\ e \in Field!Entries(m) /\ e.cell \in Field!Cells(m) /\ e.dist \in Nat
    BY <1>1, <1>2 DEF Fields
  <1>4. step \in [(1 .. n) \X V -> V] /\ \A i \in 1 .. n, x \in V : step[<<i, x>>] = Next(i, x)
    <2>1. ASSUME NEW i \in 1 .. n, NEW x \in V PROVE Next(i, x) \in V
      <3>1. Field!Order[i] \in Field!Around
        BY DirectionsAre
      <3> QED
        BY <1>3, <3>1, ShortenIs
    <2> HIDE DEF V, Next
    <2> QED
      BY <2>1
  <1> DEFINE Body(r) == [i \in 0 .. n |-> IF i = 0 THEN base ELSE Next(i, r[i - 1])]
  <1>5. h = CHOOSE r : r = Body(r)
    OBVIOUS
  <1>6. Field!Settle(m, dist, s) = IF e.dist > s.field[e.cell] THEN base ELSE h[8]
    BY DEF Field!Settle, e
  <1> HIDE DEF h, step, V, base, Next, n
  <1>7. PICK f : Loops(f, n, V, base, step)
    BY <1>3, <1>4, Recursion
  <1>8. f = Body(f)
    <2>1. f = [i \in 0 .. n |-> f[i]] /\ f[0] = base /\ \A i \in 1 .. n : f[i] = step[<<i, f[i - 1]>>] /\ f[i - 1] \in V
      BY <1>3, <1>7 DEF Loops
    <2>2. \A i \in 0 .. n : f[i] = IF i = 0 THEN base ELSE Next(i, f[i - 1])
      <3>1. \A i \in 0 .. n : i = 0 \/ i \in 1 .. n
        BY <1>3
      <3> QED
        BY <1>4, <2>1, <3>1
    <2> QED
      BY <2>1, <2>2
  <1>9. h = Body(h)
    BY <1>5, <1>8
  <1>10. h[0] = base /\ \A i \in 1 .. n : h[i] = Next(i, h[i - 1])
    <2>1. \A i \in 0 .. n : h[i] = IF i = 0 THEN base ELSE Next(i, h[i - 1])
      BY <1>9
    <2>2. 0 \in 0 .. n /\ \A i \in 1 .. n : i \in 0 .. n /\ i # 0
      BY <1>3
    <2> QED
      BY <2>1, <2>2
  <1>11. Loops(h, n, V, base, step)
    <2>1. \A i \in 1 .. n : h[i - 1] \in V => h[i] = step[<<i, h[i - 1]>>]
      BY <1>4, <1>10
    <2>2. h = [i \in 0 .. n |-> h[i]]
      BY <1>9
    <2> QED
      BY <1>3, <1>4, <1>10, <2>1, <2>2, LoopRuns
  <1>12. h[8] \in Fields(m) /\ base \in Fields(m)
    BY <1>3, <1>11 DEF Loops, n, V
  <1>13. ASSUME FieldInv(m, g, s), \A c \in Field!Cells(m) : Settled(m, s, c)
         PROVE  LET t == Field!Settle(m, dist, s)
                IN  /\ FieldInv(m, g, t) /\ \A c \in Field!Cells(m) : Settled(m, t, c)
                    /\ FieldSize(m, t) < FieldSize(m, s)
    <2>1. FieldInv(m, g, base) /\ FieldSize(m, base) < FieldSize(m, s)
      <3>1. FieldInv(m, g, base)
        BY <1>3, <1>12, <1>13 DEF FieldInv
      <3>2. IsFiniteSet(s.open) /\ Cardinality(s.open) \in Nat /\ IsFiniteSet(base.open) /\ Cardinality(base.open) \in Nat
        <4>1. base.open \in SUBSET Field!Entries(m)
          BY <1>1, <1>3
        <4> QED
          BY <1>1, <4>1, EntriesAreFinite
      <3>3. Cardinality(base.open) = Cardinality(s.open) - 1
        BY <1>2, <1>3, <3>2, FS_RemoveElement
      <3>4. Cardinality(Below(m, s.field)) \in Nat
        BY BelowIsFinite
      <3> QED
        BY <1>3, <3>1, <3>2, <3>3, <3>4 DEF FieldSize
    <2>2. ASSUME NEW c \in Field!Cells(m), c # e.cell \/ e.dist # s.field[c] PROVE Settled(m, base, c)
      <3>1. Field!Entry(c, s.field[c]) # e
        BY <1>1, <2>2, EntriesAre
      <3> QED
        BY <1>3, <1>13, <3>1 DEF Settled
    <2>3. CASE e.dist > s.field[e.cell]
      <3>1. s.field[e.cell] # e.dist
        BY <1>1, <1>3, <2>3
      <3> QED
        BY <1>6, <2>1, <2>2, <2>3, <3>1
    <2>4. CASE ~ (e.dist > s.field[e.cell])
      <3>1. s.field[e.cell] = e.dist
        BY <1>1, <1>2, <1>3, <1>13, <2>4 DEF FieldInv
      <3> DEFINE P == {i \in 0 .. n : FieldAt(m, g, h[i], e, i) /\ FieldSize(m, h[i]) < FieldSize(m, s)}
      <3>2. 0 \in P
        <4>1. AheadUpto(m, base.field, e.cell, 0)
          BY DEF AheadUpto
        <4>2. FieldAt(m, g, base, e, 0)
          BY <1>3, <2>1, <2>2, <3>1, <4>1 DEF FieldAt
        <4>3. 0 \in 0 .. n
          BY <1>3
        <4> QED
          BY <1>10, <2>1, <4>2, <4>3
      <3>3. ASSUME NEW i \in 0 .. n, i # n, i \in P PROVE i + 1 \in P
        <4>1. i \in 0 .. 7 /\ i + 1 \in 0 .. n /\ i + 1 \in 1 .. n /\ (i + 1) - 1 = i
          BY <3>3 DEF n
        <4>2. h[i + 1] = Field!Shorten(m, dist, h[i], e, Field!Order[i + 1])
          BY <1>10, <4>1 DEF Next
        <4>3. FieldAt(m, g, h[i], e, i) /\ FieldSize(m, h[i]) < FieldSize(m, s)
          BY <3>3
        <4>4. FieldAt(m, g, h[i + 1], e, i + 1) /\ FieldSize(m, h[i + 1]) <= FieldSize(m, h[i])
          BY <1>3, <4>1, <4>2, <4>3, ShortenKeeps
        <4>5. \A x \in Fields(m) : FieldSize(m, x) \in Nat
          BY BelowIsFinite, EntriesAreFinite DEF FieldSize, Fields
        <4>6. h[i] \in Fields(m) /\ h[i + 1] \in Fields(m)
          BY <4>3, <4>4 DEF FieldAt, FieldInv
        <4>7. FieldSize(m, h[i + 1]) < FieldSize(m, s)
          BY <4>3, <4>4, <4>5, <4>6
        <4> QED
          BY <4>1, <4>4, <4>7
      <3>4. 8 \in P
        <4>1. 0 .. n \subseteq P
          <5> HIDE DEF P
          <5> QED
            BY <1>3, <3>2, <3>3, Induction
        <4>2. 8 \in 0 .. n
          BY DEF n
        <4> HIDE DEF P
        <4> QED
          BY <4>1, <4>2
      <3>5. FieldAt(m, g, h[8], e, 8) /\ FieldSize(m, h[8]) < FieldSize(m, s)
        BY <3>4
      <3>6. AheadAll(m, h[8].field, e.cell)
        <4> SUFFICES ASSUME NEW d \in Field!Around PROVE Ahead(m, h[8].field, e.cell, d)
          BY DEF AheadAll
        <4>1. PICK k \in 1 .. 8 : d = Field!Order[k]
          BY DirectionsAre
        <4> QED
          BY <3>5, <4>1 DEF AheadUpto, FieldAt
      <3>7. FieldInv(m, g, h[8]) /\ \A c \in Field!Cells(m) : Settled(m, h[8], c)
        BY <3>5, <3>6 DEF FieldAt, Settled
      <3> QED
        BY <1>6, <2>4, <3>5, <3>7
    <2> QED
      BY <2>3, <2>4
  <1>14. Field!Settle(m, dist, s) \in Fields(m)
    BY <1>6, <1>12
  <1> QED
    BY <1>13, <1>14

\* When nothing is open any more every cell has told its neighbours.
LEMMA FieldEnds ==
  ASSUME NEW m, IsMap(m), NEW dist, Tells(m, dist), NEW goal, Field!CellOf(goal, 1) \in Field!Cells(m)
  PROVE  \E s \in Fields(m) :
            /\ Field!HeuristicField(m, dist, goal) = s.field
            /\ FieldInv(m, Field!CellOf(goal, 1), s) /\ s.open = {} /\ \A c \in Field!Cells(m) : Settled(m, s, c)
  <1> DEFINE g == Field!CellOf(goal, 1)
             S == Fields(m)
             done == {s \in S : s.open = {}}
             step == [s \in S |-> IF s.open = {} THEN s ELSE Field!Settle(m, dist, s)]
             Body(r) == [s \in S |-> IF s.open = {} THEN s ELSE r[Field!Settle(m, dist, s)]]
             settled == CHOOSE r : r = Body(r)
             blank == [c \in Field!Cells(m) |-> Field!Infinity]
             start == [field |-> [blank EXCEPT ![g] = 0], open |-> {Field!Entry(g, 0)}]
             I == {s \in S : FieldInv(m, g, s) /\ \A c \in Field!Cells(m) : Settled(m, s, c)}
             mu == [s \in I |-> FieldSize(m, s)]
  <1>1. Field!HeuristicField(m, dist, goal) = settled[start].field
    BY DEF Field!HeuristicField, Field!IsInside, Fields
  <1> HIDE DEF g
  <1>2. \A s \in S : s.open # {} => Field!Settle(m, dist, s) \in S
    BY SettleKeeps
  <1>3. step \in [S -> S] /\ \A s \in S : step[s] = IF s \in done THEN s ELSE Field!Settle(m, dist, s)
    <2> HIDE DEF S
    <2> QED
      BY <1>2
  <1>4. PICK w : w = [s \in S |-> IF s \in done THEN s ELSE w[step[s]]]
    <2> HIDE DEF S, done, step
    <2> QED
      BY <1>3, WhilesExist
  <1>5. \A r : Body(r) = [s \in S |-> IF s \in done THEN s ELSE r[step[s]]]
    <2> SUFFICES ASSUME NEW r PROVE Body(r) = [s \in S |-> IF s \in done THEN s ELSE r[step[s]]]
      OBVIOUS
    <2>1. \A s \in S : (s \in done <=> s.open = {}) /\ (s \notin done => step[s] = Field!Settle(m, dist, s))
      BY <1>3
    <2> HIDE DEF S, done, step
    <2> QED
      BY <2>1
  <1> HIDE DEF step, Body
  <1>6. settled = Body(settled)
    BY <1>4, <1>5
  <1>7. settled = [s \in S |-> IF s \in done THEN s ELSE settled[step[s]]]
    <2> HIDE DEF settled, S, done
    <2> QED
      BY <1>5, <1>6
  <1>8. start \in I
    <2> DEFINE f == [blank EXCEPT ![g] = 0]
    <2>1. g \in Field!Cells(m) /\ Field!Infinity \in Nat /\ 0 \in 0 .. Field!Infinity
      BY EntriesAre DEF g
    <2>2. Field!Entry(g, 0) \in Field!Entries(m) /\ Field!Entry(g, 0).cell = g /\ Field!Entry(g, 0).dist = 0
      BY <2>1, EntriesAre
    <2>3. f \in Field!Distances(m) /\ f[g] = 0 /\ \A c \in Field!Cells(m) : c # g => f[c] = Field!Infinity
      BY <2>1 DEF Field!Distances
    <2> HIDE DEF f
    <2>4. start.field = f /\ start.open = {Field!Entry(g, 0)}
      BY DEF f
    <2>5. start = [field |-> f, open |-> {Field!Entry(g, 0)}]
      BY DEF f
    <2>6. start \in S
      <3>1. {Field!Entry(g, 0)} \in SUBSET Field!Entries(m)
        BY <2>2
      <3> HIDE DEF start
      <3> QED
        BY <2>3, <2>5, <3>1 DEF Fields
    <2> HIDE DEF start
    <2>7. FieldInv(m, g, start)
      BY <2>2, <2>3, <2>4, <2>6 DEF FieldInv, Reached
    <2>8. \A c \in Field!Cells(m) : Settled(m, start, c)
      BY <2>3, <2>4 DEF Settled
    <2> QED
      BY <2>6, <2>7, <2>8
  <1> HIDE DEF settled, start
  <1>9. mu \in [I -> Nat]
    <2>1. \A s \in S : FieldSize(m, s) \in Nat
      BY BelowIsFinite, EntriesAreFinite DEF FieldSize, Fields
    <2> QED
      BY <2>1
  <1>10. ASSUME NEW s \in I, s \notin done PROVE step[s] \in I /\ mu[step[s]] < mu[s]
    <2>1. s \in S /\ s.open # {} /\ step[s] = Field!Settle(m, dist, s)
      BY <1>3, <1>10
    <2>2. /\ Field!Settle(m, dist, s) \in S /\ FieldInv(m, g, Field!Settle(m, dist, s))
          /\ \A c \in Field!Cells(m) : Settled(m, Field!Settle(m, dist, s), c)
          /\ FieldSize(m, Field!Settle(m, dist, s)) < FieldSize(m, s)
      <3>1. g \in Field!Cells(m)
        BY DEF g
      <3> QED
        BY <1>10, <2>1, <3>1, SettleKeeps
    <2>3. step[s] \in I
      BY <2>1, <2>2
    <2> QED
      BY <2>1, <2>2, <2>3
  <1>11. \A s \in I : settled[s] \in I /\ settled[s] \in done
    <2>1. I \in SUBSET S
      OBVIOUS
    <2>2. \A s \in I : s \notin done => step[s] \in I /\ mu[step[s]] < mu[s]
      <3> HIDE DEF I, mu, S, done
      <3> QED
        BY <1>10
    <2>3. step \in [S -> S]
      BY <1>3
    <2> HIDE DEF I, mu, S, done, blank
    <2> QED
      BY <1>7, <1>9, <2>1, <2>2, <2>3, WhilesEnd, SMTT(60)
  <1>12. settled[start] \in I /\ settled[start] \in done
    BY <1>8, <1>11
  <1> QED
    BY <1>1, <1>12 DEF g

\* A position a quarter and three quarters into a cell lies in that cell.
LEMMA PositionsAreIn ==
  ASSUME NEW c \in Nat \X Nat
  PROVE  Field!CellOf(<<4 * c[1] + 1, 4 * c[2] + 3>>, 1) = c
  <1>1. ASSUME NEW x \in Nat, NEW r \in {1, 3} PROVE Field!Truncated(4 * x + r, 1) = x
    <2> DEFINE q == 4 * x + r
    <2>1. q \in Int /\ q >= 0 /\ 4 * x <= q /\ q < 4 * (x + 1)
      OBVIOUS
    <2>2. Field!Truncated(q, 1) = q \div 4
      <3> HIDE DEF q
      <3>1. 1 * Field!Quarters = 4
        BY DEF Field!Quarters
      <3> QED
        BY <2>1, <3>1 DEF Field!Truncated
    <2> HIDE DEF q
    <2>3. q \div 4 = x
      BY <2>1, QuotientsOf
    <2> QED
      BY <2>2, <2>3 DEF q
  <1>2. c[1] \in Nat /\ c[2] \in Nat /\ c = <<c[1], c[2]>>
    OBVIOUS
  <1>3. Field!Truncated(4 * c[1] + 1, 1) = c[1] /\ Field!Truncated(4 * c[2] + 3, 1) = c[2]
    BY <1>1, <1>2
  <1> DEFINE p == <<4 * c[1] + 1, 4 * c[2] + 3>>
  <1>4. p[1] = 4 * c[1] + 1 /\ p[2] = 4 * c[2] + 3
    OBVIOUS
  <1> HIDE DEF p
  <1>5. Field!CellOf(p, 1) = c
    BY <1>2, <1>3, <1>4 DEF Field!CellOf
  <1> QED
    BY <1>5 DEF p

\* The least of the ways to g by a neighbour, or none.
WaysOf(m, h, c) ==
  {h[Field!Shift(c, d)] + Field!StepCost(d) : d \in {e \in Field!Around : Field!IsInside(m, Field!Shift(c, e))}} \cup {Field!Infinity}
LEMMA BestWay ==
  ASSUME NEW m, IsMap(m), NEW h \in Field!Distances(m), NEW c \in Field!Cells(m),
         \A d \in Field!Around : Field!IsInside(m, Field!Shift(c, d)) => h[c] <= h[Field!Shift(c, d)] + Field!StepCost(d),
         h[c] = Field!Infinity \/ \E d \in Field!Around : Behind(m, h, c, d)
  PROVE  h[c] = CHOOSE n \in WaysOf(m, h, c) : \A k \in WaysOf(m, h, c) : n <= k
  <1> DEFINE W == WaysOf(m, h, c)
  <1>1. Field!Infinity \in Nat /\ \A x \in Field!Cells(m) : h[x] \in 0 .. Field!Infinity
    BY EntriesAre
  <1>2. \A d \in Field!Around : Field!IsInside(m, Field!Shift(c, d)) => h[Field!Shift(c, d)] + Field!StepCost(d) \in Nat
    BY <1>1, StepCosts DEF Field!IsInside
  <1>3. \A k \in W : h[c] <= k /\ k \in Nat
    BY <1>1, <1>2 DEF WaysOf
  <1>4. h[c] \in W
    <2>1. CASE h[c] = Field!Infinity
      BY <2>1 DEF WaysOf
    <2>2. ASSUME NEW d \in Field!Around, Behind(m, h, c, d) PROVE h[c] \in W
      <3>1. Field!IsInside(m, Field!Shift(c, d)) /\ h[Field!Shift(c, d)] + Field!StepCost(d) <= h[c]
        BY <2>2 DEF Behind
      <3>2. h[Field!Shift(c, d)] + Field!StepCost(d) = h[c]
        BY <1>1, <1>2, <3>1
      <3> QED
        BY <3>1, <3>2 DEF WaysOf
    <2> QED
      BY <2>1, <2>2
  <1> HIDE DEF W
  <1>5. \A n \in W : (\A k \in W : n <= k) => n = h[c]
    BY <1>1, <1>3, <1>4
  <1>6. h[c] = CHOOSE n \in W : \A k \in W : n <= k
    BY <1>3, <1>4, <1>5
  <1> QED
    BY <1>6 DEF W

LEMMA HeuristicIsShortest ==
  ASSUME NEW m, IsMap(m), NEW dist, Tells(m, dist), NEW goal
  PROVE  Field!FieldIsShortest(m, Field!HeuristicField(m, dist, goal), goal)
  <1> DEFINE g == Field!CellOf(goal, 1)
             h == Field!HeuristicField(m, dist, goal)
             Way(c) == IF c = g THEN 0 ELSE IF Field!Blocked(m, c) THEN Field!Infinity
                       ELSE CHOOSE n \in WaysOf(m, h, c) : \A k \in WaysOf(m, h, c) : n <= k
  <1>1. Field!Infinity \in Nat /\ 1000 < Field!Infinity /\ \A c \in Field!Cells(m) : c \in Int \X Int /\ c \in Nat \X Nat
    <2>1. \A c \in Field!Cells(m) : c \in Nat \X Nat
      BY DEF Field!Cells, IsMap
    <2> QED
      BY <2>1, EntriesAre
  <1>2. h \in Field!Distances(m) /\ \A c \in Field!Cells(m) : h[c] = Way(c)
    <2>1. CASE g \in Field!Cells(m)
      <3>1. PICK s \in Fields(m) : /\ h = s.field /\ FieldInv(m, g, s) /\ s.open = {}
                                   /\ \A c \in Field!Cells(m) : Settled(m, s, c)
        BY <2>1, FieldEnds
      <3> HIDE DEF h, g
      <3>2. h \in Field!Distances(m) /\ \A c \in Field!Cells(m) : h[c] \in 0 .. Field!Infinity
        BY <3>1, EntriesAre DEF Fields
      <3>3. ASSUME NEW c \in Field!Cells(m) PROVE h[c] = Way(c)
        <4>1. CASE c = g
          BY <3>1, <4>1 DEF FieldInv
        <4>2. CASE c # g /\ Field!Blocked(m, c)
          BY <3>1, <4>2 DEF FieldInv, Reached
        <4>3. CASE c # g /\ ~ Field!Blocked(m, c)
          <5>1. ASSUME NEW d \in Field!Around, Field!IsInside(m, Field!Shift(c, d))
                PROVE  h[c] <= h[Field!Shift(c, d)] + Field!StepCost(d)
            <6> DEFINE x == Field!Shift(c, d)
                       b == <<-d[1], -d[2]>>
            <6>1. b \in Field!Around /\ Field!StepCost(b) = Field!StepCost(d)
              BY DirectionsAre
            <6>2. Field!Shift(x, b) = c
              BY <1>1, NeighboursAre
            <6>3. Field!StepCost(d) \in Nat
              BY StepCosts
            <6>4. x \in Field!Cells(m)
              BY <5>1 DEF Field!IsInside
            <6> HIDE DEF x, b
            <6>5. h[x] = Field!Infinity \/ AheadAll(m, h, x)
              BY <3>1, <6>4 DEF Settled
            <6>6. h[c] <= h[x] + Field!StepCost(d)
              <7>1. CASE h[x] = Field!Infinity
                BY <1>1, <3>2, <6>3, <7>1
              <7>2. CASE AheadAll(m, h, x)
                <8>1. Ahead(m, h, x, b)
                  BY <6>1, <7>2 DEF AheadAll
                <8> QED
                  BY <4>3, <6>1, <6>2, <8>1 DEF Ahead, Field!IsInside
              <7> QED
                BY <6>5, <7>1, <7>2
            <6> QED
              BY <6>6 DEF x
          <5>2. h[c] = Field!Infinity \/ \E d \in Field!Around : Behind(m, h, c, d)
            BY <3>1, <4>3 DEF FieldInv, Reached
          <5>3. h[c] = CHOOSE n \in WaysOf(m, h, c) : \A k \in WaysOf(m, h, c) : n <= k
            BY <3>2, <5>1, <5>2, BestWay
          <5> QED
            BY <4>3, <5>3
        <4> QED
          BY <4>1, <4>2, <4>3
      <3> QED
        BY <3>2, <3>3
    <2>2. CASE g \notin Field!Cells(m)
      <3>1. h = [c \in Field!Cells(m) |-> Field!Infinity]
        BY <2>2 DEF Field!HeuristicField, Field!IsInside
      <3> HIDE DEF h, g
      <3>2. h \in Field!Distances(m) /\ \A c \in Field!Cells(m) : h[c] = Field!Infinity
        BY <1>1, <3>1 DEF Field!Distances
      <3>3. ASSUME NEW c \in Field!Cells(m) PROVE h[c] = Way(c)
        <4>1. \A d \in Field!Around : Field!IsInside(m, Field!Shift(c, d)) => h[c] <= h[Field!Shift(c, d)] + Field!StepCost(d)
          BY <1>1, <3>2, StepCosts DEF Field!IsInside
        <4>2. h[c] = CHOOSE n \in WaysOf(m, h, c) : \A k \in WaysOf(m, h, c) : n <= k
          BY <3>2, <4>1, BestWay
        <4> QED
          BY <2>2, <3>2, <4>2
      <3> QED
        BY <3>2, <3>3
    <2> QED
      BY <2>1, <2>2
  <1> HIDE DEF h, g
  <1>3. ASSUME NEW c \in Field!Cells(m)
        PROVE  Field!HeuristicAt(m, h, <<Field!Quarters * c[1] + 1, Field!Quarters * c[2] + 3>>)
                 = IF h[c] = Field!Infinity THEN 0 ELSE h[c]
    <2>1. Field!CellOf(<<4 * c[1] + 1, 4 * c[2] + 3>>, 1) = c /\ Field!Quarters = 4
      BY <1>1, PositionsAreIn DEF Field!Quarters
    <2>2. h[c] \in 0 .. Field!Infinity
      BY <1>2, EntriesAre
    <2>3. h[c] < Field!Infinity <=> h[c] # Field!Infinity
      BY <1>1, <2>2
    <2> QED
      BY <2>1, <2>3 DEF Field!HeuristicAt, Field!IsInside
  <1>4. Field!FieldIsShortest(m, h, goal)
    <2> SUFFICES ASSUME NEW c \in Field!Cells(m)
                 PROVE  /\ h[c] = Way(c)
                        /\ Field!HeuristicAt(m, h, <<Field!Quarters * c[1] + 1, Field!Quarters * c[2] + 3>>)
                              = IF Way(c) = Field!Infinity THEN 0 ELSE Way(c)
      BY DEF Field!FieldIsShortest, WaysOf, g
    <2>1. h[c] = Way(c)
      BY <1>2
    <2> HIDE DEF Way
    <2> QED
      BY <1>3, <2>1
  <1> QED
    BY <1>4 DEF h

-----------------------------------------------------------------------------
(* Segments that are found safe.                                           *)

\* What moves by less than L at a time cannot leap over L numbers.
LEMMA NoLeaps ==
  ASSUME NEW n \in Nat, NEW f \in [0 .. n -> Int], NEW L \in Nat \ {0}, NEW A \in Int,
         \A i \in 0 .. n - 1 : f[i + 1] - f[i] < L /\ f[i] - f[i + 1] < L
  PROVE  \/ \E i \in 0 .. n : A <= f[i] /\ f[i] < A + L
         \/ \A i \in 0 .. n : f[i] < A
         \/ \A i \in 0 .. n : f[i] >= A + L
  <1> SUFFICES ASSUME ~ \E i \in 0 .. n : A <= f[i] /\ f[i] < A + L
               PROVE  (\A i \in 0 .. n : f[i] < A) \/ (\A i \in 0 .. n : f[i] >= A + L)
    OBVIOUS
  <1>4. \A i \in 0 .. n : f[i] \in Int /\ (f[i] < A \/ f[i] >= A + L)
    OBVIOUS
  <1> DEFINE P == {i \in 0 .. n : f[i] < A <=> f[0] < A}
  <1>1. 0 \in P
    OBVIOUS
  <1>2. ASSUME NEW i \in 0 .. n, i # n, i \in P PROVE i + 1 \in P
    <2>1. i \in 0 .. n - 1 /\ i + 1 \in 0 .. n
      BY <1>2
    <2>2. f[i] \in Int /\ f[i + 1] \in Int /\ (f[i] < A \/ f[i] >= A + L) /\ (f[i + 1] < A \/ f[i + 1] >= A + L)
      BY <1>4, <2>1
    <2>3. f[i] < A <=> f[i + 1] < A
      BY <2>1, <2>2
    <2> QED
      BY <1>2, <2>1, <2>3
  <1>3. 0 .. n \subseteq P
    <2> HIDE DEF P
    <2> QED
      BY <1>1, <1>2, Induction
  <1> QED
    BY <1>3, <1>4

\* The near corner of a square with sides L, seen from two points on either
\* side of it that are both at least L past the square in one direction.
LEMMA CornerAside ==
  ASSUME NEW L \in Nat, NEW a \in Int, NEW b \in Int, NEW u \in 0 .. L, NEW v \in 0 .. L,
         NEW r \in Int, NEW s \in Int, a >= L, b >= L, r <= 0, s <= 0
  PROVE  (a + u) * (s - b) + (b + v) * (r + u) <= 0
  <1>1. (a + u) * (s - b) + (b + v) * (r + u) = (a + u) * s + (b + v) * r + (u * v - a * b)
    OBVIOUS
  <1>2. (a + u) * s <= 0 /\ (b + v) * r <= 0
    <2>1. \A x, y \in Int : x >= 0 /\ y <= 0 => x * y <= 0
      OBVIOUS
    <2> QED
      BY <2>1
  <1>3. u * v <= a * b
    <2>1. \A x, y, z, w \in Nat : x <= z /\ y <= w => x * y <= z * w
      <3> SUFFICES ASSUME NEW x \in Nat, NEW y \in Nat, NEW z \in Nat, NEW w \in Nat, x <= z, y <= w
                   PROVE  x * y <= z * w
        OBVIOUS
      <3>1. x * y <= z * y
        OBVIOUS
      <3>2. z * y <= z * w
        OBVIOUS
      <3> QED
        BY <3>1, <3>2
    <2>2. u \in Nat /\ v \in Nat /\ a \in Nat /\ b \in Nat /\ u <= a /\ v <= b
      OBVIOUS
    <2> QED
      BY <2>1, <2>2
  <1> DEFINE X == (a + u) * s
             Y == (b + v) * r
             Z == u * v
             W == a * b
  <1>4. X \in Int /\ Y \in Int /\ Z \in Int /\ W \in Int
    OBVIOUS
  <1>5. X + Y + (Z - W) <= 0
    <2> HIDE DEF X, Y, Z, W
    <2>1. X <= 0 /\ Y <= 0 /\ Z <= W
      BY <1>2, <1>3 DEF X, Y, Z, W
    <2> QED
      BY <1>4, <2>1
  <1> QED
    BY <1>1, <1>5

\* A line through a point above or below a square, at least L away, and one to
\* its left or right has all corners of the square on one side.
Aside(L, A, B, x, y, u, v) ==
  /\ L \in Nat \ {0} /\ A \in Int /\ B \in Int /\ x \in Int /\ y \in Int /\ u \in Int /\ v \in Int
  /\ A <= x /\ x < A + L /\ (y < B - L \/ y >= B + 2 * L)
  /\ B <= v /\ v < B + L /\ (u < A - L \/ u >= A + 2 * L)
LEMMA CornersAside ==
  ASSUME NEW L, NEW A, NEW B, NEW x, NEW y, NEW u, NEW v, Aside(L, A, B, x, y, u, v)
  PROVE  \/ \A R \in {A, A + L}, S \in {B, B + L} : (u - x) * (S - y) + (y - v) * (R - x) <= 0
         \/ \A R \in {A, A + L}, S \in {B, B + L} : (u - x) * (S - y) + (y - v) * (R - x) >= 0
  <1> USE DEF Aside
  <1>1. CASE u >= A + 2 * L /\ y >= B + 2 * L
    <2> SUFFICES ASSUME NEW R \in {A, A + L}, NEW S \in {B, B + L}
                 PROVE  (u - x) * (S - y) + (y - v) * (R - x) <= 0
      OBVIOUS
    <2> DEFINE a == u - (A + L)
               b == y - (B + L)
               p == A + L - x
               q == B + L - v
               r == R - (A + L)
               s == S - (B + L)
    <2>1. a \in Int /\ b \in Int /\ p \in 0 .. L /\ q \in 0 .. L /\ r \in Int /\ s \in Int /\ a >= L /\ b >= L /\ r <= 0 /\ s <= 0
      BY <1>1
    <2>2. u - x = a + p /\ S - y = s - b /\ y - v = b + q /\ R - x = r + p
      OBVIOUS
    <2> HIDE DEF a, b, p, q, r, s
    <2>3. (a + p) * (s - b) + (b + q) * (r + p) <= 0
      BY <2>1, CornerAside
    <2> QED
      BY <2>2, <2>3
  <1>2. CASE u < A - L /\ y >= B + 2 * L
    <2> SUFFICES ASSUME NEW R \in {A, A + L}, NEW S \in {B, B + L}
                 PROVE  (u - x) * (S - y) + (y - v) * (R - x) >= 0
      OBVIOUS
    <2> DEFINE a == A - u
               b == y - (B + L)
               p == x - A
               q == B + L - v
               r == A - R
               s == S - (B + L)
    <2>1. a \in Int /\ b \in Int /\ p \in 0 .. L /\ q \in 0 .. L /\ r \in Int /\ s \in Int /\ a >= L /\ b >= L /\ r <= 0 /\ s <= 0
      BY <1>2
    <2>2. u - x = -(a + p) /\ S - y = s - b /\ y - v = b + q /\ R - x = -(r + p)
      OBVIOUS
    <2> HIDE DEF a, b, p, q, r, s
    <2>3. (a + p) * (s - b) + (b + q) * (r + p) <= 0
      BY <2>1, CornerAside
    <2>4. (-(a + p)) * (s - b) + (b + q) * (-(r + p)) = -((a + p) * (s - b) + (b + q) * (r + p))
      BY <2>1
    <2>5. (a + p) * (s - b) + (b + q) * (r + p) \in Int
      BY <2>1
    <2> QED
      BY <2>2, <2>3, <2>4, <2>5
  <1>3. CASE u >= A + 2 * L /\ y < B - L
    <2> SUFFICES ASSUME NEW R \in {A, A + L}, NEW S \in {B, B + L}
                 PROVE  (u - x) * (S - y) + (y - v) * (R - x) >= 0
      OBVIOUS
    <2> DEFINE a == u - (A + L)
               b == B - y
               p == A + L - x
               q == v - B
               r == R - (A + L)
               s == B - S
    <2>1. a \in Int /\ b \in Int /\ p \in 0 .. L /\ q \in 0 .. L /\ r \in Int /\ s \in Int /\ a >= L /\ b >= L /\ r <= 0 /\ s <= 0
      BY <1>3
    <2>2. u - x = a + p /\ S - y = -(s - b) /\ y - v = -(b + q) /\ R - x = r + p
      OBVIOUS
    <2> HIDE DEF a, b, p, q, r, s
    <2>3. (a + p) * (s - b) + (b + q) * (r + p) <= 0
      BY <2>1, CornerAside
    <2>4. (a + p) * (-(s - b)) + (-(b + q)) * (r + p) = -((a + p) * (s - b) + (b + q) * (r + p))
      BY <2>1
    <2>5. (a + p) * (s - b) + (b + q) * (r + p) \in Int
      BY <2>1
    <2> QED
      BY <2>2, <2>3, <2>4, <2>5
  <1>4. CASE u < A - L /\ y < B - L
    <2> SUFFICES ASSUME NEW R \in {A, A + L}, NEW S \in {B, B + L}
                 PROVE  (u - x) * (S - y) + (y - v) * (R - x) <= 0
      OBVIOUS
    <2> DEFINE a == A - u
               b == B - y
               p == x - A
               q == v - B
               r == A - R
               s == B - S
    <2>1. a \in Int /\ b \in Int /\ p \in 0 .. L /\ q \in 0 .. L /\ r \in Int /\ s \in Int /\ a >= L /\ b >= L /\ r <= 0 /\ s <= 0
      BY <1>4
    <2>2. u - x = -(a + p) /\ S - y = -(s - b) /\ y - v = -(b + q) /\ R - x = -(r + p)
      OBVIOUS
    <2> HIDE DEF a, b, p, q, r, s
    <2>3. (a + p) * (s - b) + (b + q) * (r + p) <= 0
      BY <2>1, CornerAside
    <2>4. (-(a + p)) * (-(s - b)) + (-(b + q)) * (-(r + p)) = (a + p) * (s - b) + (b + q) * (r + p)
      BY <2>1
    <2> QED
      BY <2>2, <2>3, <2>4
  <1> QED
    BY <1>1, <1>2, <1>3, <1>4

\* The samples are less than a cell apart.
LEMMA FitsIs ==
  ASSUME NEW p \in Int \X Int, NEW q \in Int \X Int, NEW s \in Nat \ {0}
  PROVE  LET k == Field!Fits(p, q, s)
         IN  /\ k \in Nat /\ Field!SquaredLength(p, q) \in Nat
             /\ k * k * s * s <= Field!SquaredLength(p, q)
             /\ (k + 1) * (k + 1) * s * s > Field!SquaredLength(p, q)
  <1> DEFINE N == Field!SquaredLength(p, q)
             S == {k \in Nat : (k + 1) * (k + 1) * s * s > N}
  <1>1. N \in Nat
    <2>1. \A x \in Int : x * x \in Nat
      OBVIOUS
    <2>2. (q[1] - p[1]) * (q[1] - p[1]) \in Nat /\ (q[2] - p[2]) * (q[2] - p[2]) \in Nat
      BY <2>1
    <2> QED
      BY <2>2 DEF Field!SquaredLength
  <1> HIDE DEF N
  <1>2. N \in S
    <2>1. (N + 1) * (N + 1) >= N + 1
      BY <1>1
    <2> DEFINE M == (N + 1) * (N + 1)
    <2>2. M \in Nat /\ M > N
      BY <1>1, <2>1
    <2> HIDE DEF M
    <2>3. M * s \in Nat /\ M * s >= M
      BY <2>2
    <2> DEFINE K == M * s
    <2>4. K \in Nat /\ K >= M
      BY <2>3
    <2> HIDE DEF K
    <2>5. K * s >= K /\ K * s \in Nat
      BY <2>4
    <2>6. K * s > N
      BY <1>1, <2>2, <2>4, <2>5
    <2> QED
      BY <1>1, <2>6 DEF K, M
  <1>3. S \in SUBSET Nat /\ S # {}
    BY <1>2
  <1>4. PICK k \in S : \A j \in S : k <= j
    <2> HIDE DEF S
    <2> QED
      BY <1>3, LeastExists
  <1>5. k \in 0 .. N /\ (k + 1) * (k + 1) * s * s > N
    BY <1>1, <1>2, <1>4
  <1>6. k * k * s * s <= N
    <2>1. CASE k = 0
      BY <1>1, <2>1
    <2>2. CASE k # 0
      <3>1. k - 1 \in Nat /\ ~(k <= k - 1) /\ (k - 1) + 1 = k
        BY <1>4, <2>2
      <3>2. k - 1 \notin S
        BY <1>4, <3>1
      <3>3. ~(k * k * s * s > N)
        BY <3>1, <3>2
      <3>4. k * k * s * s \in Int
        BY <1>4
      <3> QED
        BY <1>1, <3>3, <3>4
    <2> QED
      BY <2>1, <2>2
  <1> DEFINE Is(j) == j * j * s * s <= N /\ (j + 1) * (j + 1) * s * s > N
  <1>7. Field!Fits(p, q, s) = CHOOSE j \in 0 .. N : Is(j)
    BY DEF Field!Fits, N
  <1>8. \E j \in 0 .. N : Is(j)
    BY <1>5, <1>6
  <1> HIDE DEF Is
  <1>9. Field!Fits(p, q, s) \in 0 .. N /\ Is(Field!Fits(p, q, s))
    BY <1>7, <1>8
  <1> QED
    BY <1>1, <1>9 DEF Is, N

\* A number of samples for which the squared length is below that many cells'.
Enough(p, q, n) == n \in Nat \ {0} /\ Field!SquaredLength(p, q) < 16 * (n * n)
LEMMA SamplesAreEnough ==
  ASSUME NEW p \in Int \X Int, NEW q \in Int \X Int
  PROVE  /\ Enough(p, q, Field!Fits(p, q, Field!Quarters) + 1)
         /\ Enough(p, q, IF Field!Covers(p, q, 2) > 1 THEN Field!Covers(p, q, 2) ELSE 1)
  <1> DEFINE N == Field!SquaredLength(p, q)
  <1>1. Enough(p, q, Field!Fits(p, q, Field!Quarters) + 1)
    <2> DEFINE k == Field!Fits(p, q, 4)
    <2>1. k \in Nat /\ N \in Nat /\ (k + 1) * (k + 1) * 4 * 4 > N
      BY FitsIs
    <2> HIDE DEF k, N
    <2>2. (k + 1) * (k + 1) * 4 * 4 = 16 * ((k + 1) * (k + 1))
      BY <2>1
    <2>3. N < 16 * ((k + 1) * (k + 1)) /\ k + 1 \in Nat \ {0}
      BY <2>1, <2>2
    <2> QED
      BY <2>3 DEF Enough, k, N, Field!Quarters
  <1>2. Enough(p, q, IF Field!Covers(p, q, 2) > 1 THEN Field!Covers(p, q, 2) ELSE 1)
    <2> DEFINE k == Field!Fits(p, q, 2)
               c == Field!Covers(p, q, 2)
               n == IF c > 1 THEN c ELSE 1
    <2>1. k \in Nat /\ N \in Nat /\ k * k * 2 * 2 <= N /\ (k + 1) * (k + 1) * 2 * 2 > N
      BY FitsIs
    <2>2. c = k + (IF k * k * 2 * 2 = N THEN 0 ELSE 1)
      BY DEF Field!Covers
    <2> HIDE DEF k, N, c
    <2>3. n \in Nat \ {0} /\ n >= c
      BY <2>1, <2>2
    <2>4. N < 16 * (n * n)
      <3>1. CASE k * k * 2 * 2 = N
        <4>1. k <= n /\ c = k
          BY <2>1, <2>2, <2>3, <3>1
        <4>2. k * k <= n * n /\ n * n >= 1 /\ n * n \in Nat /\ k * k \in Nat
          <5>1. k * k <= n * k /\ n * k <= n * n
            BY <2>1, <2>3, <4>1
          <5>2. k * k \in Nat /\ n * k \in Nat /\ n * n \in Nat /\ n * n >= 1
            BY <2>1, <2>3
          <5> QED
            BY <5>1, <5>2
        <4>3. k * k * 2 * 2 = 4 * (k * k)
          BY <2>1
        <4> DEFINE K == k * k
                   M == n * n
        <4>4. K <= M /\ M >= 1 /\ M \in Nat /\ K \in Nat /\ N = 4 * K
          BY <3>1, <4>2, <4>3
        <4> HIDE DEF K, M
        <4>5. N < 16 * M
          BY <4>4
        <4> QED
          BY <4>5 DEF M
      <3>2. CASE k * k * 2 * 2 # N
        <4>1. k + 1 <= n
          BY <2>1, <2>2, <2>3, <3>2
        <4> DEFINE j == k + 1
        <4>2. j \in Nat /\ j <= n
          BY <2>1, <4>1
        <4>3. j * j * 2 * 2 > N
          BY <2>1
        <4> HIDE DEF j
        <4>4. j * j <= n * j /\ n * j <= n * n /\ j * j \in Nat /\ n * j \in Nat /\ n * n \in Nat
          BY <2>3, <4>2
        <4>5. j * j * 2 * 2 = 4 * (j * j)
          BY <4>2
        <4> DEFINE K == j * j
                   M == n * n
        <4>6. K \in Nat /\ M \in Nat /\ K <= M /\ N < 4 * K
          BY <2>1, <4>3, <4>4, <4>5
        <4> HIDE DEF K, M
        <4>7. N < 16 * M
          BY <2>1, <4>6
        <4> QED
          BY <4>7 DEF M
      <3> QED
        BY <3>1, <3>2
    <2> QED
      BY <2>3, <2>4 DEF Enough, n, c, N
  <1> QED
    BY <1>1, <1>2

\* The cell of a position in a cell's column, and of one up to a cell beside it.
LEMMA TruncatedIs ==
  ASSUME NEW n \in Nat \ {0}, NEW x \in Int, NEW k \in Nat, NEW L \in Nat \ {0}, L = n * 4
  PROVE  /\ L * k <= x /\ x < L * k + L => Field!Truncated(x, n) = k
         /\ L * k - L <= x /\ x < L * k + 2 * L => Field!Truncated(x, n) \in k - 1 .. k + 1
  <1>1. Field!Truncated(x, n) = IF x >= 0 THEN x \div L ELSE -((-x) \div L)
    BY DEF Field!Truncated, Field!Quarters
  <1>2. ASSUME NEW y \in Int, NEW j \in Int, L * j <= y, y < L * j + L PROVE y \div L = j
    <2>1. L * (j + 1) = L * j + L
      OBVIOUS
    <2> QED
      BY <1>2, <2>1, QuotientsOf
  <1>3. L * (k - 1) = L * k - L /\ L * (k + 1) = L * k + L /\ L * k \in Nat
    OBVIOUS
  <1>4. CASE x >= 0
    <2>1. L * k <= x /\ x < L * k + L => x \div L = k
      BY <1>2
    <2>2. L * (k - 1) <= x /\ x < L * (k - 1) + L => x \div L = k - 1
      BY <1>2
    <2>3. L * (k + 1) <= x /\ x < L * (k + 1) + L => x \div L = k + 1
      BY <1>2
    <2> DEFINE b == L * k
    <2>4. L * k - L <= x /\ x < L * k + 2 * L =>
            \/ L * (k - 1) <= x /\ x < L * (k - 1) + L
            \/ L * k <= x /\ x < L * k + L
            \/ L * (k + 1) <= x /\ x < L * (k + 1) + L
      <3>1. b \in Nat /\ L * (k - 1) = b - L /\ L * (k + 1) = b + L
        BY <1>3
      <3>2. b - L <= x /\ x < b + 2 * L => \/ b - L <= x /\ x < b - L + L
                                           \/ b <= x /\ x < b + L
                                           \/ b + L <= x /\ x < b + L + L
        <4> HIDE DEF b
        <4> QED
          BY <3>1
      <3> QED
        BY <3>1, <3>2
    <2>5. Field!Truncated(x, n) = x \div L
      BY <1>1, <1>4
    <2> QED
      BY <2>1, <2>2, <2>3, <2>4, <2>5
  <1>5. CASE x < 0
    <2>1. Field!Truncated(x, n) = -((-x) \div L)
      BY <1>1, <1>5
    <2>2. ~ (L * k <= x)
      BY <1>3, <1>5
    <2>3. ASSUME L * k - L <= x PROVE k = 0 /\ Field!Truncated(x, n) \in {-1, 0}
      <3>1. k = 0
        <4> SUFFICES ASSUME k >= 1 PROVE FALSE
          OBVIOUS
        <4>1. L * k >= L
          OBVIOUS
        <4> QED
          BY <1>3, <1>5, <2>3, <4>1
      <3>2. -x > 0 /\ -x <= L /\ L * 0 = 0 /\ L * 1 = L
        BY <1>5, <2>3, <3>1
      <3>3. (-x) \div L \in {0, 1}
        <4>1. CASE -x = L
          <5>1. (-x) \div L = 1
            BY <1>2, <3>2, <4>1
          <5> QED
            BY <5>1
        <4>2. CASE -x < L
          <5>1. (-x) \div L = 0
            BY <1>2, <3>2, <4>2
          <5> QED
            BY <5>1
        <4> QED
          BY <3>2, <4>1, <4>2
      <3> QED
        BY <2>1, <3>1, <3>3
    <2> QED
      BY <2>2, <2>3
  <1> QED
    BY <1>4, <1>5

\* No safe position is in the column or the row of a cell within a cell of it, if
\* that is a straight step or more too near to an obstacle.
LEMMA SafeIsAside ==
  ASSUME NEW m, IsMap(m), NEW c \in Field!Cells(m), NEW n \in Nat \ {0}, NEW L \in Nat \ {0}, L = n * 4,
         NEW x \in Int, NEW y \in Int, NEW radius \in Nat, Field!Build(m)[c] + 1000 <= radius,
         Field!IsSafe(m, Field!Build(m), <<x, y>>, n, radius)
  PROVE  /\ L * c[1] <= x /\ x < L * c[1] + L => y < L * c[2] - L \/ y >= L * c[2] + 2 * L
         /\ L * c[2] <= y /\ y < L * c[2] + L => x < L * c[1] - L \/ x >= L * c[1] + 2 * L
  <1> DEFINE a == Field!Truncated(x, n)
             b == Field!Truncated(y, n)
             w == <<a, b>>
             dist == Field!Build(m)
  <1>1. c[1] \in Nat /\ c[2] \in Nat /\ c = <<c[1], c[2]>>
    BY DEF Field!Cells, IsMap
  <1>2. Field!GetDistance(m, dist, w) > radius
    BY DEF Field!IsSafe, Field!CellOf
  <1> HIDE DEF a, b
  <1>3. w \in Field!Cells(m) /\ dist[w] > radius
    BY <1>2 DEF Field!GetDistance, Field!IsInside
  <1>4. dist \in Field!Distances(m) /\ \A d \in Field!Around : Eased(m, dist, c, d)
    BY BuildIsNearest
  <1>5. a \in Int /\ b \in Int /\ dist[w] \in Nat /\ dist[c] \in Nat /\ dist[c] + 1000 <= radius
    <2>1. dist[w] \in Nat /\ dist[c] \in Nat /\ w \in Int \X Int
      BY <1>3, <1>4, EntriesAre
    <2> QED
      BY <2>1
  <1> HIDE DEF dist
  <1>6. ASSUME NEW d \in {<<1, 0>>, <<-1, 0>>, <<0, 1>>, <<0, -1>>} PROVE w # <<c[1] + d[1], c[2] + d[2]>>
    <2>1. d \in Field!Around /\ Field!StepCost(d) = 1000
      BY DEF Field!Around, Field!StepCost, Field!IsDiagonal, Field!Straight
    <2> SUFFICES ASSUME w = Field!Shift(c, d) PROVE FALSE
      BY DEF Field!Shift
    <2>2. dist[w] <= dist[c] + 1000
      BY <1>3, <1>4, <2>1 DEF Eased, Field!IsInside
    <2> QED
      BY <1>3, <1>5, <2>2
  <1>7. ~ (b = c[2] /\ a - c[1] \in -1 .. 1) /\ ~ (a = c[1] /\ b - c[2] \in -1 .. 1)
    <2>1. w # c
      BY <1>3, <1>5
    <2>2. ~ (a = c[1] /\ b = c[2])
      BY <1>1, <2>1
    <2>3. ~ (b = c[2] /\ a = c[1] + 1) /\ ~ (b = c[2] /\ a = c[1] - 1)
      <3>1. w # <<c[1] + 1, c[2] + 0>> /\ w # <<c[1] + -1, c[2] + 0>>
        BY <1>6
      <3> QED
        BY <1>1, <1>5, <3>1
    <2>4. ~ (a = c[1] /\ b = c[2] + 1) /\ ~ (a = c[1] /\ b = c[2] - 1)
      <3>1. w # <<c[1] + 0, c[2] + 1>> /\ w # <<c[1] + 0, c[2] + -1>>
        BY <1>6
      <3> QED
        BY <1>1, <1>5, <3>1
    <2> HIDE DEF w
    <2> QED
      BY <1>1, <1>5, <2>2, <2>3, <2>4
  <1> HIDE DEF w
  <1>8. /\ L * c[1] <= x /\ x < L * c[1] + L => a = c[1]
        /\ L * c[1] - L <= x /\ x < L * c[1] + 2 * L => a \in c[1] - 1 .. c[1] + 1
    BY <1>1, TruncatedIs DEF a
  <1>9. /\ L * c[2] <= y /\ y < L * c[2] + L => b = c[2]
        /\ L * c[2] - L <= y /\ y < L * c[2] + 2 * L => b \in c[2] - 1 .. c[2] + 1
    BY <1>1, TruncatedIs DEF b
  <1>10. L * c[1] \in Nat /\ L * c[2] \in Nat
    BY <1>1
  <1>11. \A i, j \in Int : i \in j - 1 .. j + 1 => i - j \in -1 .. 1
    OBVIOUS
  <1> DEFINE s == L * c[1]
             t == L * c[2]
  <1>12. s <= x /\ x < s + L => y < t - L \/ y >= t + 2 * L
    <2> SUFFICES ASSUME s <= x, x < s + L, ~(y < t - L), ~(y >= t + 2 * L) PROVE FALSE
      OBVIOUS
    <2>1. t - L <= y /\ y < t + 2 * L
      <3> HIDE DEF s, t
      <3>1. s \in Nat /\ t \in Nat
        BY <1>10 DEF s, t
      <3> QED
        BY <3>1
    <2>2. a = c[1] /\ b \in c[2] - 1 .. c[2] + 1
      BY <1>8, <1>9, <2>1
    <2>3. b - c[2] \in -1 .. 1
      <3> HIDE DEF s, t
      <3> QED
        BY <1>1, <1>5, <1>11, <2>2
    <2> QED
      BY <1>7, <2>2, <2>3
  <1>13. t <= y /\ y < t + L => x < s - L \/ x >= s + 2 * L
    <2> SUFFICES ASSUME t <= y, y < t + L, ~(x < s - L), ~(x >= s + 2 * L) PROVE FALSE
      OBVIOUS
    <2>1. s - L <= x /\ x < s + 2 * L
      <3> HIDE DEF s, t
      <3>1. s \in Nat /\ t \in Nat
        BY <1>10 DEF s, t
      <3> QED
        BY <3>1
    <2>2. b = c[2] /\ a \in c[1] - 1 .. c[1] + 1
      BY <1>8, <1>9, <2>1
    <2>3. a - c[1] \in -1 .. 1
      <3> HIDE DEF s, t
      <3> QED
        BY <1>1, <1>5, <1>11, <2>2
    <2> QED
      BY <1>7, <2>2, <2>3
  <1> QED
    BY <1>12, <1>13

\* Of the samples between s and t, one lies in a cell that they reach between.
LEMMA SomeSampleIsIn ==
  ASSUME NEW n \in Nat \ {0}, NEW L \in Nat \ {0}, L = n * 4, NEW s \in Int, NEW t \in Int, t - s < L, s - t < L,
         NEW k \in Int, s < 4 * (k + 1) \/ t < 4 * (k + 1), s > 4 * k \/ t > 4 * k
  PROVE  \E i \in 0 .. n : L * k <= n * s + i * (t - s) /\ n * s + i * (t - s) < L * k + L
  <1> DEFINE d == t - s
             f == [i \in 0 .. n |-> n * s + i * d]
             A == L * k
  <1>1. A \in Int /\ d \in Int /\ n * s \in Int
    OBVIOUS
  <1>2. ASSUME NEW i \in 0 .. n - 1 PROVE f[i + 1] - f[i] = d
    <2>1. i + 1 \in 0 .. n /\ i \in 0 .. n
      OBVIOUS
    <2>2. (i + 1) * d = i * d + d /\ i * d \in Int
      <3> HIDE DEF d
      <3> QED
        BY <1>1
    <2>3. f[i + 1] = n * s + (i + 1) * d /\ f[i] = n * s + i * d
      BY <2>1
    <2> HIDE DEF d, f
    <2> QED
      BY <1>1, <2>2, <2>3
  <1>3. f \in [0 .. n -> Int]
    <2> HIDE DEF d
    <2> QED
      BY <1>1
  <1>4. f[0] = n * s /\ f[n] = n * t
    <2>1. f[0] = n * s + 0 * d /\ f[n] = n * s + n * d
      OBVIOUS
    <2>2. n * s + n * d = n * t
      OBVIOUS
    <2> HIDE DEF f
    <2> QED
      BY <2>1, <2>2
  <1>5. \A r \in Int : (r < 4 * (k + 1) => n * r < A + L) /\ (r > 4 * k => n * r > A)
    <2> SUFFICES ASSUME NEW r \in Int PROVE (r < 4 * (k + 1) => n * r < A + L) /\ (r > 4 * k => n * r > A)
      OBVIOUS
    <2>1. \A x, y \in Int : x < y => n * x < n * y
      OBVIOUS
    <2>2. n * (4 * (k + 1)) = A + L /\ n * (4 * k) = A
      OBVIOUS
    <2>3. 4 * (k + 1) \in Int /\ 4 * k \in Int
      OBVIOUS
    <2>4. r < 4 * (k + 1) => n * r < n * (4 * (k + 1))
      BY <2>1, <2>3
    <2>5. 4 * k < r => n * (4 * k) < n * r
      BY <2>1, <2>3
    <2> HIDE DEF A
    <2> QED
      BY <2>2, <2>4, <2>5
  <1>6. \A i \in 0 .. n - 1 : f[i + 1] - f[i] < L /\ f[i] - f[i + 1] < L
    <2> SUFFICES ASSUME NEW i \in 0 .. n - 1 PROVE f[i + 1] - f[i] < L /\ f[i] - f[i + 1] < L
      OBVIOUS
    <2>1. f[i + 1] \in Int /\ f[i] \in Int /\ f[i + 1] - f[i] = d
      BY <1>2, <1>3
    <2>2. d < L /\ -d < L
      OBVIOUS
    <2> HIDE DEF f, d
    <2> QED
      BY <1>1, <2>1, <2>2
  <1> HIDE DEF f, A
  <1>7. \/ \E i \in 0 .. n : A <= f[i] /\ f[i] < A + L
        \/ \A i \in 0 .. n : f[i] < A
        \/ \A i \in 0 .. n : f[i] >= A + L
    BY <1>1, <1>3, <1>6, NoLeaps
  <1>8. 0 \in 0 .. n /\ n \in 0 .. n /\ f[0] \in Int /\ f[n] \in Int
    BY <1>3
  <1>9. (f[0] < A + L \/ f[n] < A + L) /\ (f[0] > A \/ f[n] > A)
    BY <1>4, <1>5
  <1>10. PICK i \in 0 .. n : A <= f[i] /\ f[i] < A + L
    BY <1>1, <1>7, <1>8, <1>9
  <1> QED
    BY <1>10 DEF f, A

\* A segment that is found safe does not cross a cell that is a straight step or
\* more too near to an obstacle.
LEMMA SafeSegmentsAreClear ==
  ASSUME NEW m, IsMap(m), NEW c \in Field!Cells(m), NEW p \in Int \X Int, NEW q \in Int \X Int, NEW n, Enough(p, q, n),
         NEW radius \in Nat, Field!Build(m)[c] + 1000 <= radius, Field!SafeAt(m, Field!Build(m), p, q, n, radius), Field!Crosses(p, q, c)
  PROVE  FALSE
  <1> DEFINE L == n * 4
             dx == q[1] - p[1]
             dy == q[2] - p[2]
             X(i) == n * p[1] + i * dx
             Y(i) == n * p[2] + i * dy
             A == L * c[1]
             B == L * c[2]
             Turn(r) == dx * (r[2] - p[2]) - dy * (r[1] - p[1])
             corners == {<<4 * (c[1] + i), 4 * (c[2] + j)>> : i, j \in {0, 1}}
  <1>1. /\ n \in Nat \ {0} /\ L \in Nat \ {0} /\ dx \in Int /\ dy \in Int
        /\ p[1] \in Int /\ p[2] \in Int /\ q[1] \in Int /\ q[2] \in Int
    BY DEF Enough
  <1>2. c[1] \in Int /\ c[2] \in Int /\ A \in Int /\ B \in Int
    <2>1. c[1] \in Int /\ c[2] \in Int
      BY DEF Field!Cells, IsMap
    <2> QED
      BY <1>1, <2>1
  <1>3. dx < L /\ -dx < L /\ dy < L /\ -dy < L
    <2>1. dx * dx + dy * dy < 16 * (n * n)
      BY DEF Enough, Field!SquaredLength
    <2>2. ASSUME NEW x \in Int, NEW y \in Int, x * x + y * y < 16 * (n * n) PROVE x < L
      <3> SUFFICES ASSUME x >= L PROVE FALSE
        BY <1>1
      <3>1. x * x >= L * x /\ L * x >= L * L
        BY <1>1
      <3>2. L * L = 16 * (n * n)
        BY <1>1
      <3>3. y * y >= 0 /\ y * y \in Int /\ x * x \in Int /\ L * x \in Int /\ L * L \in Int
        BY <1>1
      <3> QED
        BY <2>2, <3>1, <3>2, <3>3
    <2>3. (-dx) * (-dx) + dy * dy < 16 * (n * n) /\ (-dy) * (-dy) + dx * dx < 16 * (n * n) /\ dy * dy + dx * dx < 16 * (n * n)
      <3> HIDE DEF dx, dy
      <3>1. (-dx) * (-dx) = dx * dx /\ (-dy) * (-dy) = dy * dy /\ dx * dx \in Int /\ dy * dy \in Int
        BY <1>1
      <3> QED
        BY <2>1, <3>1
    <2>4. -dx \in Int /\ -dy \in Int
      BY <1>1
    <2> HIDE DEF dx, dy, L
    <2> QED
      BY <1>1, <2>1, <2>2, <2>3, <2>4
  <1>4. \A i \in 0 .. n :
           /\ A <= X(i) /\ X(i) < A + L => Y(i) < B - L \/ Y(i) >= B + 2 * L
           /\ B <= Y(i) /\ Y(i) < B + L => X(i) < A - L \/ X(i) >= A + 2 * L
           /\ X(i) \in Int /\ Y(i) \in Int
    <2> SUFFICES ASSUME NEW i \in 0 .. n
                 PROVE  /\ A <= X(i) /\ X(i) < A + L => Y(i) < B - L \/ Y(i) >= B + 2 * L
                        /\ B <= Y(i) /\ Y(i) < B + L => X(i) < A - L \/ X(i) >= A + 2 * L
                        /\ X(i) \in Int /\ Y(i) \in Int
      OBVIOUS
    <2>1. X(i) \in Int /\ Y(i) \in Int
      <3> HIDE DEF dx, dy
      <3> QED
        BY <1>1
    <2>2. Field!IsSafe(m, Field!Build(m), <<X(i), Y(i)>>, n, radius)
      BY DEF Field!SafeAt
    <2> HIDE DEF X, Y, dx, dy
    <2> QED
      BY <1>1, <2>1, <2>2, SafeIsAside
  <1>5. /\ p[1] < 4 * (c[1] + 1) \/ q[1] < 4 * (c[1] + 1)
        /\ p[1] > 4 * c[1] \/ q[1] > 4 * c[1]
        /\ p[2] < 4 * (c[2] + 1) \/ q[2] < 4 * (c[2] + 1)
        /\ p[2] > 4 * c[2] \/ q[2] > 4 * c[2]
    <2>1. \A x \in 1 .. 2 : /\ \E r \in {p, q} : r[x] < 4 * (c[x] + 1)
                            /\ \E r \in {p, q} : r[x] > 4 * c[x]
      BY DEF Field!Crosses, Field!Quarters
    <2>2. 1 \in 1 .. 2 /\ 2 \in 1 .. 2
      OBVIOUS
    <2> QED
      BY <2>1, <2>2
  <1>6. p = q \/ ((\E r \in corners : Turn(r) > 0) /\ (\E r \in corners : Turn(r) < 0))
    BY DEF Field!Crosses, Field!Quarters
  <1>7. PICK i \in 0 .. n : A <= X(i) /\ X(i) < A + L
    <2>1. q[1] - p[1] < L /\ p[1] - q[1] < L /\ L = n * 4
      BY <1>1, <1>3
    <2> HIDE DEF L
    <2>2. \E i \in 0 .. n : L * c[1] <= n * p[1] + i * (q[1] - p[1]) /\ n * p[1] + i * (q[1] - p[1]) < L * c[1] + L
      BY <1>1, <1>2, <1>5, <2>1, SomeSampleIsIn
    <2> QED
      BY <2>2
  <1>8. PICK j \in 0 .. n : B <= Y(j) /\ Y(j) < B + L
    <2>1. q[2] - p[2] < L /\ p[2] - q[2] < L /\ L = n * 4
      BY <1>1, <1>3
    <2> HIDE DEF L
    <2>2. \E e \in 0 .. n : L * c[2] <= n * p[2] + e * (q[2] - p[2]) /\ n * p[2] + e * (q[2] - p[2]) < L * c[2] + L
      BY <1>1, <1>2, <1>5, <2>1, SomeSampleIsIn
    <2> QED
      BY <2>2
  <1> DEFINE x == X(i)
             y == Y(i)
             u == X(j)
             v == Y(j)
  <1>9. /\ x \in Int /\ y \in Int /\ u \in Int /\ v \in Int
        /\ A <= x /\ x < A + L /\ (y < B - L \/ y >= B + 2 * L)
        /\ B <= v /\ v < B + L /\ (u < A - L \/ u >= A + 2 * L)
    <2> HIDE DEF X, Y, A, B, L
    <2> QED
      BY <1>4, <1>7, <1>8
  <1> DEFINE k == j - i
  <1>10. u - x = k * dx /\ y - v = -(k * dy) /\ k \in Int
    <2> HIDE DEF dx, dy
    <2> QED
      BY <1>1
  <1>11. CASE p = q
    <2>1. dx = 0 /\ dy = 0
      BY <1>1, <1>11
    <2>2. y = v
      <3> HIDE DEF dx, dy
      <3> QED
        BY <1>1, <2>1
    <2> HIDE DEF x, y, u, v, A, B, L
    <2> QED
      BY <1>1, <1>2, <1>9, <2>2
  <1>12. CASE p # q
    <2> DEFINE W(R, S) == (u - x) * (S - y) + (y - v) * (R - x)
               K == k * n
    <2>1. PICK r1 \in corners, r2 \in corners : Turn(r1) > 0 /\ Turn(r2) < 0
      BY <1>6, <1>12
    <2>2. \/ \A R \in {A, A + L}, S \in {B, B + L} : W(R, S) <= 0
          \/ \A R \in {A, A + L}, S \in {B, B + L} : W(R, S) >= 0
      <3> HIDE DEF x, y, u, v, A, B, L
      <3> QED
        <4>1. L \in Nat \ {0} /\ A \in Int /\ B \in Int
          BY <1>1, <1>2
        <4>2. Aside(L, A, B, x, y, u, v)
          BY <1>9, <4>1 DEF Aside
        <4> QED
          BY <4>2, CornersAside
    <2>3. K \in Int /\ K # 0
      <3>1. k # 0
        <4>1. u # x
          <5> HIDE DEF x, y, u, v, A, B, L
          <5> QED
            BY <1>1, <1>2, <1>9
        <4> HIDE DEF x, u, dx, k
        <4> QED
          BY <1>1, <1>9, <1>10, <4>1
      <3> HIDE DEF k
      <3> QED
        BY <1>1, <1>10, <3>1
    <2>4. ASSUME NEW r \in corners
          PROVE  /\ Turn(r) \in Int /\ K * Turn(r) = W(n * r[1], n * r[2])
                 /\ n * r[1] \in {A, A + L} /\ n * r[2] \in {B, B + L}
      <3>1. PICK a \in {0, 1}, b \in {0, 1} : r = <<4 * (c[1] + a), 4 * (c[2] + b)>>
        OBVIOUS
      <3>2. r[1] = 4 * (c[1] + a) /\ r[2] = 4 * (c[2] + b) /\ r[1] \in Int /\ r[2] \in Int
        BY <1>2, <3>1
      <3>3. n * r[1] \in {A, A + L} /\ n * r[2] \in {B, B + L}
        <4>1. n * (4 * c[1]) = A /\ n * (4 * (c[1] + 1)) = A + L /\ n * (4 * c[2]) = B /\ n * (4 * (c[2] + 1)) = B + L
          BY <1>1, <1>2
        <4>2. r[1] \in {4 * c[1], 4 * (c[1] + 1)} /\ r[2] \in {4 * c[2], 4 * (c[2] + 1)}
          BY <1>2, <3>2
        <4> HIDE DEF A, B, L
        <4> QED
          BY <4>1, <4>2
      <3> DEFINE e == r[2] - p[2]
                 f == r[1] - p[1]
      <3>4. e \in Int /\ f \in Int
        BY <1>1, <3>2
      <3>5. Turn(r) = dx * e - dy * f
        OBVIOUS
      <3>6. n * r[2] - y = n * e - i * dy /\ n * r[1] - x = n * f - i * dx
        <4>1. n * r[2] = n * e + n * p[2] /\ n * r[1] = n * f + n * p[1]
          BY <1>1, <3>2
        <4>2. n * e \in Int /\ n * f \in Int /\ i * dy \in Int /\ i * dx \in Int /\ n * p[1] \in Int /\ n * p[2] \in Int
          <5> HIDE DEF dx, dy, e, f
          <5> QED
            BY <1>1, <3>4
        <4> HIDE DEF dx, dy, e, f
        <4> QED
          BY <4>1, <4>2
      <3> HIDE DEF e, f, dx, dy, x, y, u, v, k
      <3>7. W(n * r[1], n * r[2]) = (k * dx) * (n * e - i * dy) + (-(k * dy)) * (n * f - i * dx)
        BY <1>10, <3>6
      <3>8. (k * dx) * (n * e - i * dy) + (-(k * dy)) * (n * f - i * dx) = (k * n) * (dx * e - dy * f)
        <4>1. i \in Int /\ n \in Int
          BY <1>1
        <4> QED
          BY <1>1, <1>10, <3>4, <4>1
      <3>9. Turn(r) \in Int
        BY <1>1, <3>4, <3>5
      <3> HIDE DEF W
      <3> QED
        BY <3>3, <3>5, <3>7, <3>8, <3>9
    <2> HIDE DEF W, K, Turn, corners, A, B, L
    <2>5. (K * Turn(r1) <= 0 /\ K * Turn(r2) <= 0) \/ (K * Turn(r1) >= 0 /\ K * Turn(r2) >= 0)
      <3>1. /\ K * Turn(r1) = W(n * r1[1], n * r1[2]) /\ n * r1[1] \in {A, A + L} /\ n * r1[2] \in {B, B + L}
            /\ K * Turn(r2) = W(n * r2[1], n * r2[2]) /\ n * r2[1] \in {A, A + L} /\ n * r2[2] \in {B, B + L}
        BY <2>4
      <3>2. CASE \A R \in {A, A + L}, S \in {B, B + L} : W(R, S) <= 0
        <4>1. W(n * r1[1], n * r1[2]) <= 0 /\ W(n * r2[1], n * r2[2]) <= 0
          BY <3>1, <3>2
        <4> QED
          BY <3>1, <4>1
      <3>3. CASE \A R \in {A, A + L}, S \in {B, B + L} : W(R, S) >= 0
        <4>1. W(n * r1[1], n * r1[2]) >= 0 /\ W(n * r2[1], n * r2[2]) >= 0
          BY <3>1, <3>3
        <4> QED
          BY <3>1, <4>1
      <3> QED
        BY <2>2, <3>2, <3>3
    <2> DEFINE s == Turn(r1)
               t == Turn(r2)
    <2>6. s \in Int /\ t \in Int /\ s > 0 /\ t < 0
      BY <2>1, <2>4
    <2> HIDE DEF s, t
    <2>7. K > 0 => K * s > 0 /\ K * t < 0
      BY <2>3, <2>6
    <2>8. K < 0 => K * s < 0 /\ K * t > 0
      BY <2>3, <2>6
    <2>9. K * s \in Int /\ K * t \in Int
      BY <2>3, <2>6
    <2> QED
      BY <2>3, <2>5, <2>7, <2>8, <2>9 DEF s, t
  <1> QED
    BY <1>11, <1>12

\* Both checks take samples enough.
LEMMA SafeSegments ==
  ASSUME NEW m, IsMap(m), NEW p \in Int \X Int, NEW q \in Int \X Int, NEW radius \in Nat
  PROVE  Field!SafeIsClear(m, Field!Build(m), p, q, radius)
  <1> SUFFICES ASSUME NEW c \in Field!Cells(m), Field!Build(m)[c] + 1000 <= radius, Field!Crosses(p, q, c)
               PROVE  /\ ~ Field!IsSegmentSafe(m, Field!Build(m), p, q, radius)
                      /\ Field!InCollision(m, Field!Build(m), p, q, radius)
    BY DEF Field!SafeIsClear, Field!Straight
  <1>2. \A n : Enough(p, q, n) => ~ Field!SafeAt(m, Field!Build(m), p, q, n, radius)
    BY SafeSegmentsAreClear
  <1>3. /\ Enough(p, q, Field!Fits(p, q, Field!Quarters) + 1)
        /\ Enough(p, q, IF Field!Covers(p, q, 2) > 1 THEN Field!Covers(p, q, 2) ELSE 1)
    BY SamplesAreEnough
  <1> QED
    BY <1>2, <1>3 DEF Field!IsSegmentSafe, Field!InCollision

\* The distance field of any map is the distance to the nearest obstacle, the
\* heuristic field the length of the shortest way to the goal round the obstacles
\* alone, and a segment that is found safe crosses only cells that are less than
\* a straight step too near (esdf_map.hpp, collision_checker.hpp,
\* kino_astar.cpp).
THEOREM EveryFieldIsClear == ClearanceAsked => Clearance
  <1> SUFFICES ASSUME answer.kind = "clearance", ClearanceAsked PROVE Clearance
    BY DEF Clearance
  <1> DEFINE m == task.map
  <1>1. /\ IsMap(m) /\ task.segments \subseteq Pairs \X Pairs
        /\ task.radius \in Nat
        /\ answer.dist = Field!Build(m)
        /\ answer.field = Field!HeuristicField(m, answer.dist, task.goal)
    BY DEF ClearanceAsked
  <1> HIDE DEF m
  <1>2. Tells(m, answer.dist) /\ Field!DistanceIsNearest(m, answer.dist)
    <2>1. \A c \in Field!Cells(m) : answer.dist[c] \in Nat /\ (answer.dist[c] = 0 <=> Field!Blocked(m, c))
      BY <1>1, BuildIsNearest, EntriesAre
    <2> QED
      BY <1>1, <2>1, BuildIsNearest DEF Tells
  <1>3. Field!FieldIsShortest(m, answer.field, task.goal)
    BY <1>1, <1>2, HeuristicIsShortest
  <1>4. ASSUME NEW s \in task.segments PROVE Field!SafeIsClear(m, answer.dist, s[1], s[2], task.radius)
    <2>1. s[1] \in Int \X Int /\ s[2] \in Int \X Int
      BY <1>1 DEF Pairs
    <2> QED
      BY <1>1, <2>1, SafeSegments
  <1> QED
    BY <1>2, <1>3, <1>4 DEF Clearance, m

-----------------------------------------------------------------------------
(* The grid search: loops, steps and what is below a field.                *)

\* The loop that is written as a function ends where its steps lead.
Loop(S, done, step) == CHOOSE r : r = [s \in S |-> IF s \in done THEN s ELSE r[step[s]]]

\* It is the function of the state that a recursive definition stands for.
LEMMA LoopIs ==
  ASSUME NEW S, NEW done, NEW step \in [S -> S]
  PROVE  Loop(S, done, step) = [s \in S |-> IF s \in done THEN s ELSE Loop(S, done, step)[step[s]]]
  <1>1. PICK w : w = [s \in S |-> IF s \in done THEN s ELSE w[step[s]]]
    BY WhilesExist
  <1> DEFINE f == Loop(S, done, step)
             Body(r) == [s \in S |-> IF s \in done THEN s ELSE r[step[s]]]
  <1>2. w = Body(w)
    BY <1>1
  <1>3. f = CHOOSE r : r = Body(r)
    BY DEF Loop
  <1> HIDE DEF Body, f
  <1>4. f = Body(f)
    BY <1>2, <1>3
  <1> QED
    BY <1>4 DEF Body, f

\* A loop whose steps keep I and lower mu ends, in I and done.
LEMMA LoopEnds ==
  ASSUME NEW S, NEW done, NEW step \in [S -> S], NEW I \in SUBSET S, NEW mu \in [I -> Nat],
         \A s \in I : s \notin done => step[s] \in I /\ mu[step[s]] < mu[s]
  PROVE  \A s \in I : Loop(S, done, step)[s] \in I /\ Loop(S, done, step)[s] \in done
  <1> DEFINE f == Loop(S, done, step)
  <1>1. f = [s \in S |-> IF s \in done THEN s ELSE f[step[s]]]
    BY LoopIs
  <1> HIDE DEF f
  <1>2. \A s \in I : f[s] \in I /\ f[s] \in done
    BY <1>1, WhilesEnd, SMTT(60)
  <1> QED
    BY <1>2 DEF f

\* Both searches are over the same grid.
LEMMA SameSteps ==
  /\ Route!Around = Field!Around /\ Route!Infinity = Field!Infinity
  /\ \A c, d : Route!Shift(c, d) = Field!Shift(c, d)
  /\ \A d : Route!StepCost(d) = Field!StepCost(d)
  /\ \A c, o : Route!Heuristic(c, o) = Field!Heuristic(c, o)
  <1>1. Route!Around = Field!Around /\ Route!Infinity = Field!Infinity
    BY DEF Route!Around, Field!Around, Route!Infinity, Field!Infinity
  <1>2. \A c, d : Route!Shift(c, d) = Field!Shift(c, d)
    BY DEF Route!Shift, Field!Shift
  <1>3. \A d : Route!StepCost(d) = Field!StepCost(d)
    BY DEF Route!StepCost, Field!StepCost, Route!IsDiagonal, Field!IsDiagonal,
           Route!Straight, Field!Straight, Route!Diagonal, Field!Diagonal
  <1>4. \A c, o : Route!Heuristic(c, o) = Field!Heuristic(c, o)
    BY DEF Route!Heuristic, Field!Heuristic, Route!Abs, Field!Abs, Route!Least, Field!Least,
           Route!Straight, Field!Straight, Route!Diagonal, Field!Diagonal
  <1> QED
    BY <1>1, <1>2, <1>3, <1>4

\* They have the same cells, and what is inside is a cell.
LEMMA SameCells ==
  ASSUME NEW m
  PROVE  Route!Cells(m) = Field!Cells(m) /\ \A c : Route!IsInside(m, c) <=> c \in Route!Cells(m)
  BY DEF Route!Cells, Field!Cells, Route!IsInside

\* What the proofs below use of cells, steps and the octile distance.
StepFrom(c, x) == <<x[1] - c[1], x[2] - c[2]>>

\* A step has a cost and a way back that costs the same.
LEMMA RouteCosts ==
  ASSUME NEW d \in Route!Around
  PROVE  /\ d \in Int \X Int /\ Route!StepCost(d) \in {1000, 1414} /\ Route!StepCost(d) \in Nat
         /\ <<-d[1], -d[2]>> \in Route!Around /\ Route!StepCost(<<-d[1], -d[2]>>) = Route!StepCost(d)
  <1>1. d \in Field!Around
    BY SameSteps
  <1>2. /\ d \in Int \X Int /\ Field!StepCost(d) \in {1000, 1414}
        /\ <<-d[1], -d[2]>> \in Field!Around /\ Field!StepCost(<<-d[1], -d[2]>>) = Field!StepCost(d)
    BY <1>1, DirectionsAre
  <1> QED
    BY <1>2, SameSteps

\* Every step costs a cell or its diagonal.
LEMMA StepsCost ==
  ASSUME NEW d \in Route!Around
  PROVE  Route!StepCost(d) \in {1000, 1414} /\ Route!StepCost(d) \in Nat
  BY RouteCosts, SMTT(30) DEF Route!StepCost, Route!Straight, Route!Diagonal

\* A step leads to another cell, and its way back leads home.
LEMMA NextCells ==
  ASSUME NEW c \in Int \X Int, NEW d \in Route!Around
  PROVE  /\ Route!Shift(c, d) \in Int \X Int /\ Route!Shift(c, d) # c
         /\ Route!Shift(Route!Shift(c, d), <<-d[1], -d[2]>>) = c
         /\ StepFrom(c, Route!Shift(c, d)) = d
  <1>1. PICK x, y \in Int : c = <<x, y>>
    OBVIOUS
  <1>2. PICK a, b \in Int : d = <<a, b>>
    BY DEF Route!Around
  <1>3. Route!Shift(c, d) = <<x + a, y + b>>
    BY <1>1, <1>2 DEF Route!Shift
  <1>4. StepFrom(c, <<x + a, y + b>>) = <<a, b>>
    BY <1>1 DEF StepFrom
  <1> QED
    BY <1>2, <1>3, <1>4, SameSteps, NeighboursAre

\* The step from one cell to another leads there.
LEMMA StepsLead ==
  ASSUME NEW c \in Int \X Int, NEW x \in Int \X Int
  PROVE  Route!Shift(c, StepFrom(c, x)) = x
  <1>1. PICK p, q, r, s \in Int : c = <<p, q>> /\ x = <<r, s>>
    OBVIOUS
  <1>2. StepFrom(c, x) = <<r - p, s - q>>
    BY <1>1 DEF StepFrom
  <1>3. Route!Shift(<<p, q>>, <<r - p, s - q>>) = <<r, s>>
    BY DEF Route!Shift
  <1> QED
    BY <1>1, <1>2, <1>3

\* The octile distance is a natural number and nothing at the goal.
LEMMA HeuristicIs ==
  ASSUME NEW c \in Int \X Int, NEW o \in Int \X Int
  PROVE  Route!Heuristic(c, o) \in Nat /\ Route!Heuristic(c, c) = 0
  <1>1. Field!Heuristic(c, c) = 0
    <2>1. PICK p, q \in Int : c = <<p, q>>
      OBVIOUS
    <2>2. Field!Abs(p - p) = 0 /\ Field!Abs(q - q) = 0 /\ Field!Least(0, 0) = 0 /\ Field!Abs(0 - 0) = 0
      BY DEF Field!Abs, Field!Least
    <2> QED
      BY <2>1, <2>2 DEF Field!Heuristic, Field!Straight, Field!Diagonal
  <1> QED
    BY <1>1, SameSteps, OctileSteps

\* It falls by no more than a step costs: it is consistent.
LEMMA HeuristicFalls ==
  ASSUME NEW c \in Int \X Int, NEW o \in Int \X Int, NEW d \in Route!Around
  PROVE  Route!Heuristic(c, o) <= Route!Heuristic(Route!Shift(c, d), o) + Route!StepCost(d)
  <1> DEFINE x == Route!Shift(c, d)
             b == <<-d[1], -d[2]>>
  <1>1. x \in Int \X Int /\ b \in Field!Around /\ Field!StepCost(b) = Route!StepCost(d) /\ Field!Shift(x, b) = c
    BY RouteCosts, NextCells, SameSteps
  <1> HIDE DEF x, b
  <1>2. Field!Heuristic(Field!Shift(x, b), o) <= Field!Heuristic(x, o) + Field!StepCost(b)
    BY <1>1, OctileSteps
  <1> QED
    BY <1>1, <1>2, SameSteps DEF x

\* The cells of a map are finitely many pairs of numbers.
LEMMA CellsAre ==
  ASSUME NEW m, IsMap(m)
  PROVE  /\ Route!Infinity \in Nat /\ Route!Infinity > 0
         /\ Route!Cells(m) \subseteq Int \X Int /\ Route!None \notin Route!Cells(m)
         /\ IsFiniteSet(Route!Cells(m))
  <1>1. Route!Infinity \in Nat /\ Route!Infinity > 0
    BY SMT DEF Route!Infinity
  <1>2. \A c \in Route!Cells(m) : c \in Int \X Int /\ c[1] >= 0
    BY DEF Route!Cells, IsMap
  <1>3. Route!None \notin Route!Cells(m)
    BY <1>2 DEF Route!None
  <1>4. m.width - 1 \in Int /\ m.height - 1 \in Int
    BY DEF IsMap
  <1>5. IsFiniteSet(Route!Cells(m))
    <2>1. IsFiniteSet(0 .. m.width - 1) /\ IsFiniteSet(0 .. m.height - 1)
      BY <1>4, FS_Interval
    <2> QED
      BY <2>1, FS_Product DEF Route!Cells
  <1> QED
    BY <1>1, <1>2, <1>3, <1>5

\* Of two fields the one that is nowhere higher and somewhere lower has less
\* below it.
LEMMA LowerIsLess ==
  ASSUME NEW m, IsMap(m), NEW dist \in Field!Distances(m), NEW g \in Field!Distances(m),
         \A x \in Field!Cells(m) : g[x] <= dist[x],
         NEW c \in Field!Cells(m), g[c] < dist[c]
  PROVE  Cardinality(Below(m, g)) < Cardinality(Below(m, dist))
  <1>1. \A x \in Field!Cells(m) : dist[x] \in 0 .. Field!Infinity /\ g[x] \in 0 .. Field!Infinity
    BY DEF Field!Distances
  <1>2. IsFiniteSet(Below(m, dist))
    BY BelowIsFinite
  <1>3. Below(m, g) \subseteq Below(m, dist) /\ <<c, g[c]>> \in Below(m, dist) /\ <<c, g[c]>> \notin Below(m, g)
    <2>1. \A p \in Field!Cells(m) \X (0 .. Field!Infinity) : p[1] \in Field!Cells(m) /\ p[2] \in 0 .. Field!Infinity
      OBVIOUS
    <2>2. Field!Infinity \in Nat
      BY SMT DEF Field!Infinity
    <2>3. Below(m, g) \subseteq Below(m, dist)
      BY <1>1, <2>1, <2>2 DEF Below
    <2>4. g[c] \in 0 .. Field!Infinity /\ ~ (g[c] < g[c])
      BY <1>1, <2>2
    <2> QED
      BY <2>3, <2>4 DEF Below
  <1>4. /\ IsFiniteSet(Below(m, g)) /\ Cardinality(Below(m, g)) <= Cardinality(Below(m, dist))
        /\ Cardinality(Below(m, g)) # Cardinality(Below(m, dist))
    BY <1>2, <1>3, FS_Subset
  <1>5. Cardinality(Below(m, g)) \in Nat /\ Cardinality(Below(m, dist)) \in Nat
    BY <1>2, <1>4, FS_CardinalityType
  <1> QED
    BY <1>4, <1>5

-----------------------------------------------------------------------------
(* The shortest ways.                                                      *)

\* No step leads below the field, and every cell that has a way has it through
\* a neighbour.
RouteFields(m) == [Route!Cells(m) -> 0 .. Route!Infinity]
ComesFrom(m, dist, c, p) ==
  /\ p \in Route!Cells(m) /\ StepFrom(p, c) \in Route!Around /\ Route!MayStep(m, p, StepFrom(p, c))
  /\ dist[p] + Route!StepCost(StepFrom(p, c)) <= dist[c]
HasWays(m, start, dist) ==
  /\ dist \in RouteFields(m) /\ dist[start] = 0
  /\ \A c \in Route!Cells(m) : dist[c] < Route!Infinity /\ c # start => \E p \in Route!Cells(m) : ComesFrom(m, dist, c, p)
AllowsSteps(m, dist, p) ==
  \A d \in Route!Around : Route!MayStep(m, p, d) => dist[Route!Shift(p, d)] <= dist[p] + Route!StepCost(d)

Entering(m, c) ==
  {e \in Route!Around : Route!IsInside(m, Route!Shift(c, e)) /\ Route!MayStep(m, Route!Shift(c, e), <<-e[1], -e[2]>>)}
WaysTo(m, dist, c) == {dist[Route!Shift(c, d)] + Route!StepCost(d) : d \in Entering(m, c)} \cup {dist[c]}
Relaxed(m, dist) == [c \in Route!Cells(m) |-> CHOOSE n \in WaysTo(m, dist, c) : \A k \in WaysTo(m, dist, c) : n <= k]

\* Relaxing lowers every cell to the least way into it.
LEMMA RelaxedIs ==
  ASSUME NEW m, IsMap(m), NEW dist \in RouteFields(m)
  PROVE  /\ Relaxed(m, dist) \in RouteFields(m)
         /\ \A c \in Route!Cells(m) :
               /\ Relaxed(m, dist)[c] <= dist[c]
               /\ \A d \in Entering(m, c) : Relaxed(m, dist)[c] <= dist[Route!Shift(c, d)] + Route!StepCost(d)
               /\ \/ Relaxed(m, dist)[c] = dist[c]
                  \/ \E d \in Entering(m, c) : Relaxed(m, dist)[c] = dist[Route!Shift(c, d)] + Route!StepCost(d)
  <1> DEFINE g == Relaxed(m, dist)
  <1>1. Route!Infinity \in Nat /\ \A c \in Route!Cells(m) : dist[c] \in 0 .. Route!Infinity
    BY CellsAre DEF RouteFields
  <1>2. ASSUME NEW c \in Route!Cells(m)
        PROVE  g[c] \in Nat /\ g[c] \in WaysTo(m, dist, c) /\ \A k \in WaysTo(m, dist, c) : g[c] <= k
    <2> DEFINE W == WaysTo(m, dist, c)
    <2>1. g[c] = CHOOSE n \in W : \A k \in W : n <= k
      BY DEF Relaxed
    <2>2. W \in SUBSET Nat /\ W # {}
      <3>1. ASSUME NEW d \in Entering(m, c) PROVE dist[Route!Shift(c, d)] + Route!StepCost(d) \in Nat
        <4>1. d \in Route!Around /\ Route!Shift(c, d) \in Route!Cells(m)
          BY SameCells DEF Entering
        <4>2. Route!StepCost(d) \in {1000, 1414}
          BY <4>1, StepsCost
        <4> QED
          BY <1>1, <4>1, <4>2
      <3> QED
        BY <1>1, <3>1 DEF WaysTo
    <2> HIDE DEF W, g
    <2>3. \E n \in W : \A k \in W : n <= k
      BY <2>2, LeastExists
    <2> QED
      BY <2>1, <2>2, <2>3 DEF W
  <1>3. g = [c \in Route!Cells(m) |-> g[c]]
    BY DEF Relaxed
  <1> HIDE DEF g
  <1>4. \A c \in Route!Cells(m) : g[c] <= dist[c]
    BY <1>2 DEF WaysTo
  <1>5. g \in RouteFields(m)
    BY <1>1, <1>2, <1>3, <1>4 DEF RouteFields
  <1> QED
    BY <1>2, <1>4, <1>5 DEF WaysTo, g

\* A step into a cell is a step from the neighbour on the other side.
LEMMA EnteringIs ==
  ASSUME NEW m, IsMap(m), NEW c \in Route!Cells(m)
  PROVE  /\ \A e \in Entering(m, c) :
               LET p == Route!Shift(c, e)
               IN  /\ p \in Route!Cells(m) /\ StepFrom(p, c) \in Route!Around /\ Route!MayStep(m, p, StepFrom(p, c))
                   /\ Route!StepCost(StepFrom(p, c)) = Route!StepCost(e)
         /\ \A p \in Route!Cells(m) : \A d \in Route!Around :
               Route!MayStep(m, p, d) /\ Route!Shift(p, d) = c =>
                  \E e \in Entering(m, c) : Route!Shift(c, e) = p /\ Route!StepCost(e) = Route!StepCost(d)
  <1>1. Route!Cells(m) \subseteq Int \X Int
    BY CellsAre
  <1>2. ASSUME NEW e \in Entering(m, c)
        PROVE  LET p == Route!Shift(c, e)
               IN  /\ p \in Route!Cells(m) /\ StepFrom(p, c) \in Route!Around /\ Route!MayStep(m, p, StepFrom(p, c))
                   /\ Route!StepCost(StepFrom(p, c)) = Route!StepCost(e)
    <2> DEFINE p == Route!Shift(c, e)
               b == <<-e[1], -e[2]>>
    <2>1. e \in Route!Around /\ p \in Route!Cells(m) /\ Route!MayStep(m, p, b)
      BY SameCells DEF Entering
    <2>2. b \in Route!Around /\ Route!StepCost(b) = Route!StepCost(e) /\ Route!Shift(p, b) = c /\ p \in Int \X Int
      BY <1>1, <2>1, RouteCosts, NextCells
    <2> HIDE DEF p, b
    <2>3. StepFrom(p, c) = b
      BY <2>2, NextCells
    <2> QED
      BY <2>1, <2>2, <2>3 DEF p
  <1>3. ASSUME NEW p \in Route!Cells(m), NEW d \in Route!Around, Route!MayStep(m, p, d), Route!Shift(p, d) = c
        PROVE  \E e \in Entering(m, c) : Route!Shift(c, e) = p /\ Route!StepCost(e) = Route!StepCost(d)
    <2> DEFINE e == <<-d[1], -d[2]>>
    <2>1. e \in Route!Around /\ Route!StepCost(e) = Route!StepCost(d) /\ Route!Shift(c, e) = p
      BY <1>1, <1>3, RouteCosts, NextCells
    <2>2. <<-e[1], -e[2]>> = d
      BY DEF Route!Around
    <2> HIDE DEF e
    <2>3. e \in Entering(m, c)
      BY <1>3, <2>1, <2>2, SameCells DEF Entering
    <2> QED
      BY <2>1, <2>3
  <1> QED
    BY <1>2, <1>3

\* The reference distances have a way to every cell they reach, and no step
\* leads below them.
LEMMA ShortestIs ==
  ASSUME NEW m, IsMap(m), NEW start \in Route!Cells(m)
  PROVE  /\ HasWays(m, start, Route!Shortest(m, start))
         /\ \A c \in Route!Cells(m) : AllowsSteps(m, Route!Shortest(m, start), c)
  <1> DEFINE S == RouteFields(m)
             done == {x \in S : Relaxed(m, x) = x}
             step == [x \in S |-> Relaxed(m, x)]
             f == Loop(S, done, step)
             first == [c \in Route!Cells(m) |-> IF c = start THEN 0 ELSE Route!Infinity]
             I == {x \in S : HasWays(m, start, x)}
             mu == [x \in I |-> Cardinality(Below(m, x))]
  <1>1. Route!Shortest(m, start) = f[first]
    <2> DEFINE E(x) == [c \in Route!Cells(m) |->
                 LET ways == {x[Route!Shift(c, d)] + Route!StepCost(d) : d \in {e \in Route!Around :
                                 Route!IsInside(m, Route!Shift(c, e)) /\ Route!MayStep(m, Route!Shift(c, e), <<-e[1], -e[2]>>)}} \cup {x[c]}
                 IN  CHOOSE n \in ways : \A k \in ways : n <= k]
               Body(r) == [x \in S |-> IF E(x) = x THEN x ELSE r[E(x)]]
    <2>1. Route!Shortest(m, start) = (CHOOSE r : r = Body(r))[first]
      BY DEF Route!Shortest, RouteFields
    <2>2. \A x : E(x) = Relaxed(m, x)
      BY DEF Relaxed, WaysTo, Entering
    <2> HIDE DEF E
    <2>3. \A r : Body(r) = [x \in S |-> IF x \in done THEN x ELSE r[step[x]]]
      <3> SUFFICES ASSUME NEW r PROVE Body(r) = [x \in S |-> IF x \in done THEN x ELSE r[step[x]]]
        OBVIOUS
      <3>1. \A x \in S : (x \in done <=> E(x) = x) /\ step[x] = E(x)
        BY <2>2
      <3> HIDE DEF S, done, step
      <3> QED
        BY <3>1
    <2> HIDE DEF Body, S, done, step
    <2>4. (CHOOSE r : r = Body(r)) = f
      BY <2>3 DEF Loop
    <2> QED
      BY <2>1, <2>4
  <1>2. step \in [S -> S]
    BY RelaxedIs
  <1>3. Route!Infinity \in Nat /\ Route!Infinity > 0 /\ Route!Cells(m) \subseteq Int \X Int
        /\ \A x \in S, c \in Route!Cells(m) : x[c] \in 0 .. Route!Infinity
    BY CellsAre DEF RouteFields
  <1>4. first \in I
    <2>1. first \in S
      BY <1>3 DEF RouteFields
    <2>2. \A c \in Route!Cells(m) : c # start => first[c] = Route!Infinity
      OBVIOUS
    <2>3. first[start] = 0
      OBVIOUS
    <2> HIDE DEF first
    <2> QED
      BY <1>3, <2>1, <2>2, <2>3 DEF HasWays
  <1>5. mu \in [I -> Nat]
    <2>1. \A x \in S : Cardinality(Below(m, x)) \in Nat
      BY BelowIsFinite
    <2> QED
      BY <2>1
  <1>6. ASSUME NEW x \in I, x \notin done PROVE step[x] \in I /\ mu[step[x]] < mu[x]
    <2> DEFINE g == Relaxed(m, x)
    <2>1. x \in S /\ g # x /\ step[x] = g /\ HasWays(m, start, x)
      BY <1>6
    <2>2. /\ g \in S
          /\ \A c \in Route!Cells(m) :
               /\ g[c] <= x[c]
               /\ \/ g[c] = x[c]
                  \/ \E d \in Entering(m, c) : g[c] = x[Route!Shift(c, d)] + Route!StepCost(d)
      BY <2>1, RelaxedIs
    <2> HIDE DEF g
    <2>3. PICK c \in Route!Cells(m) : g[c] # x[c]
      BY <2>1, <2>2 DEF RouteFields
    <2>4. Cardinality(Below(m, g)) < Cardinality(Below(m, x))
      <3>1. Field!Distances(m) = S /\ Field!Cells(m) = Route!Cells(m)
        BY SameCells, SameSteps DEF Field!Distances, RouteFields
      <3>2. g[c] < x[c]
        BY <1>3, <2>1, <2>2, <2>3
      <3> HIDE DEF S
      <3> QED
        BY <2>1, <2>2, <3>1, <3>2, LowerIsLess
    <2>5. g[start] = 0
      BY <1>3, <2>1, <2>2 DEF HasWays
    <2>6. ASSUME NEW y \in Route!Cells(m), g[y] < Route!Infinity, y # start
          PROVE  \E p \in Route!Cells(m) : ComesFrom(m, g, y, p)
      <3>1. CASE g[y] = x[y]
        <4>1. PICK p \in Route!Cells(m) : ComesFrom(m, x, y, p)
          BY <2>1, <2>6, <3>1 DEF HasWays
        <4>2. Route!StepCost(StepFrom(p, y)) \in {1000, 1414}
          BY <4>1, StepsCost DEF ComesFrom
        <4>3. ComesFrom(m, g, y, p)
          BY <1>3, <2>1, <2>2, <3>1, <4>1, <4>2 DEF ComesFrom
        <4> QED
          BY <4>3
      <3>2. CASE g[y] # x[y]
        <4>1. PICK d \in Entering(m, y) : g[y] = x[Route!Shift(y, d)] + Route!StepCost(d)
          BY <2>2, <3>2
        <4> DEFINE p == Route!Shift(y, d)
        <4>2. p \in Route!Cells(m) /\ StepFrom(p, y) \in Route!Around /\ Route!MayStep(m, p, StepFrom(p, y))
              /\ Route!StepCost(StepFrom(p, y)) = Route!StepCost(d) /\ Route!StepCost(d) \in {1000, 1414}
          BY EnteringIs, StepsCost DEF Entering
        <4> HIDE DEF p
        <4>3. ComesFrom(m, g, y, p)
          BY <1>3, <2>1, <2>2, <4>1, <4>2 DEF ComesFrom, p
        <4> QED
          BY <4>2, <4>3
      <3> QED
        BY <3>1, <3>2
    <2>7. g \in I
      BY <2>2, <2>5, <2>6 DEF HasWays
    <2> QED
      BY <1>6, <2>1, <2>4, <2>7
  <1>7. \A x \in I : f[x] \in I /\ f[x] \in done
    <2>1. I \in SUBSET S
      OBVIOUS
    <2>2. f = Loop(S, done, step)
      OBVIOUS
    <2>3. \A x \in I : x \notin done => step[x] \in I /\ mu[step[x]] < mu[x]
      BY <1>6
    <2> HIDE DEF S, done, step, f, I, mu
    <2> QED
      BY <1>2, <1>5, <2>1, <2>2, <2>3, LoopEnds
  <1> DEFINE dist == Route!Shortest(m, start)
  <1>8. HasWays(m, start, dist) /\ Relaxed(m, dist) = dist /\ dist \in RouteFields(m)
    BY <1>1, <1>4, <1>7
  <1> HIDE DEF dist
  <1>9. ASSUME NEW p \in Route!Cells(m), NEW d \in Route!Around, Route!MayStep(m, p, d)
        PROVE  dist[Route!Shift(p, d)] <= dist[p] + Route!StepCost(d)
    <2>1. Route!Shift(p, d) \in Route!Cells(m)
      BY <1>9, SameCells DEF Route!MayStep
    <2>2. PICK e \in Entering(m, Route!Shift(p, d)) : Route!Shift(Route!Shift(p, d), e) = p /\ Route!StepCost(e) = Route!StepCost(d)
      BY <1>9, <2>1, EnteringIs
    <2> QED
      BY <1>8, <2>1, <2>2, RelaxedIs
  <1> QED
    BY <1>8, <1>9 DEF dist, AllowsSteps

-----------------------------------------------------------------------------
(* The exploration.                                                        *)

\* What the search knows of the cells.
Known(m, n, s) == [c \in Route!Cells(m) |-> Route!Visited(n, s.cells, c).g]
KnownIs(m, n, s) ==
  /\ Known(m, n, s) \in RouteFields(m)
  /\ \A c \in Route!Cells(m) :
        /\ s.cells[c] \in Route!Marks(m)
        /\ Known(m, n, s)[c] = Route!Visited(n, s.cells, c).g /\ Known(m, n, s)[c] \in 0 .. Route!Infinity
        /\ Route!Visited(n, s.cells, c).f \in Nat
        /\ s.cells[c].generation = n => Known(m, n, s)[c] = s.cells[c].g /\ Route!Visited(n, s.cells, c).f = s.cells[c].f
        /\ Known(m, n, s)[c] < Route!Infinity => s.cells[c].generation = n

\* The states of the search, and what it knows in them.
LEMMA StatesAre ==
  ASSUME NEW m, IsMap(m), NEW n \in Nat, NEW s \in Route!States(m)
  PROVE  /\ KnownIs(m, n, s)
         /\ \A e \in s.open : e.f \in Nat /\ e.cell \in Route!Cells(m) /\ e = [f |-> e.f, cell |-> e.cell]
  <1>1. s.cells \in [Route!Cells(m) -> Route!Marks(m)] /\ s.open \in SUBSET [f : Nat, cell : Route!Cells(m)]
    BY DEF Route!States
  <1>2. Route!Infinity \in Nat
    BY CellsAre
  <1>3. ASSUME NEW c \in Route!Cells(m)
        PROVE  LET v == Route!Visited(n, s.cells, c)
               IN  /\ s.cells[c] \in Route!Marks(m) /\ v.g \in 0 .. Route!Infinity /\ v.f \in Nat
                   /\ s.cells[c].generation = n => v.g = s.cells[c].g /\ v.f = s.cells[c].f
                   /\ v.g < Route!Infinity => s.cells[c].generation = n
    <2>1. s.cells[c] \in Route!Marks(m)
      BY <1>1
    <2>2. s.cells[c].g \in 0 .. Route!Infinity /\ s.cells[c].f \in Nat
      BY <2>1 DEF Route!Marks
    <2> DEFINE v == Route!Visited(n, s.cells, c)
    <2>3. CASE s.cells[c].generation = n
      <3>1. v = s.cells[c]
        BY <2>3 DEF Route!Visited
      <3> HIDE DEF v
      <3> QED
        BY <2>1, <2>2, <2>3, <3>1 DEF v
    <2>4. CASE s.cells[c].generation # n
      <3>1. v = Route!Unvisited(n)
        BY <2>4 DEF Route!Visited
      <3>2. v.g = Route!Infinity /\ v.f = Route!Infinity
        BY <3>1 DEF Route!Unvisited
      <3> HIDE DEF v
      <3> QED
        BY <1>2, <2>1, <2>4, <3>2 DEF v
    <2> QED
      BY <2>3, <2>4
  <1>4. Known(m, n, s) \in RouteFields(m) /\ \A c \in Route!Cells(m) : Known(m, n, s)[c] = Route!Visited(n, s.cells, c).g
    BY <1>3 DEF Known, RouteFields
  <1> QED
    BY <1>1, <1>3, <1>4 DEF KnownIs

\* A step of the search: the cells that it improves are those that it may step
\* to and that were farther before.
Better(m, n, s, c) == {x \in Route!Cells(m) : StepFrom(c, x) \in Route!Improved(m, n, s.cells, c)}
Found(m, n, goal, s, x) == [f |-> Known(m, n, s)[x] + Route!Heuristic(x, goal), cell |-> x]
News(m, n, goal, s, c, t) == {Found(m, n, goal, t, x) : x \in Better(m, n, s, c)}
Expands(m, n, goal, s, c, t) ==
  /\ t \in Route!States(m)
  /\ \A x \in Better(m, n, s, c) :
        /\ StepFrom(c, x) \in Route!Around /\ Route!MayStep(m, c, StepFrom(c, x))
        /\ Known(m, n, t)[x] = Known(m, n, s)[c] + Route!StepCost(StepFrom(c, x))
        /\ Known(m, n, t)[x] < Known(m, n, s)[x]
        /\ Route!Visited(n, t.cells, x).f = Known(m, n, t)[x] + Route!Heuristic(x, goal)
        /\ t.cells[x].parent = c
  /\ \A x \in Route!Cells(m) \ Better(m, n, s, c) : t.cells[x] = s.cells[x]
  /\ t.open = s.open \cup News(m, n, goal, s, c, t)
  /\ \A d \in Route!Around : Route!MayStep(m, c, d) =>
        Known(m, n, t)[Route!Shift(c, d)] <= Known(m, n, s)[c] + Route!StepCost(d)

\* Expand is such a step.
LEMMA ExpandIs ==
  ASSUME NEW m, IsMap(m), NEW n \in Nat, NEW goal \in Route!Cells(m), NEW s \in Route!States(m), NEW c \in Route!Cells(m)
  PROVE  Expands(m, n, goal, s, c, Route!Expand(m, n, goal, s, c))
  <1> DEFINE t == Route!Expand(m, n, goal, s, c)
             g == Known(m, n, s)
             h == Known(m, n, t)
             D == Route!Improved(m, n, s.cells, c)
             B == Better(m, n, s, c)
             k == Route!Visited(n, s.cells, c).g
             New(x) == Route!Reached(n, x, goal, k + Route!StepCost(StepFrom(c, x)), c)
             cells == [x \in Route!Cells(m) |-> IF StepFrom(c, x) \notin D THEN s.cells[x] ELSE New(x)]
             open == s.open \cup {[f |-> cells[Route!Shift(c, d)].f, cell |-> Route!Shift(c, d)] : d \in D}
  <1>1. t = [cells |-> cells, open |-> open]
    BY DEF Route!Expand, StepFrom
  <1>2. t.cells = cells /\ t.open = open
    BY <1>1
  <1>3. /\ Route!Cells(m) \subseteq Int \X Int /\ Route!Infinity \in Nat
        /\ k = g[c] /\ k \in Nat
        /\ \A x \in Route!Cells(m) : Route!Visited(n, s.cells, x).g = g[x] /\ g[x] \in 0 .. Route!Infinity /\ s.cells[x] \in Route!Marks(m)
        /\ \A e \in s.open : e.f \in Nat /\ e.cell \in Route!Cells(m) /\ e = [f |-> e.f, cell |-> e.cell]
    BY StatesAre, CellsAre DEF KnownIs
  <1>4. ASSUME NEW d \in D
        PROVE  /\ d \in Route!Around /\ Route!MayStep(m, c, d) /\ Route!Shift(c, d) \in B /\ StepFrom(c, Route!Shift(c, d)) = d
               /\ k + Route!StepCost(d) < g[Route!Shift(c, d)]
    <2>1. d \in Route!Around /\ Route!MayStep(m, c, d) /\ k + Route!StepCost(d) < Route!Visited(n, s.cells, Route!Shift(c, d)).g
      BY DEF Route!Improved
    <2>2. Route!Shift(c, d) \in Route!Cells(m)
      BY <2>1, SameCells DEF Route!MayStep
    <2>3. StepFrom(c, Route!Shift(c, d)) = d
      BY <1>3, <2>1, NextCells
    <2> HIDE DEF D, k
    <2> QED
      BY <1>3, <2>1, <2>2, <2>3 DEF B, Better, D
  <1>5. ASSUME NEW x \in B
        PROVE  x \in Route!Cells(m) /\ StepFrom(c, x) \in D /\ Route!Shift(c, StepFrom(c, x)) = x
    <2>1. x \in Route!Cells(m) /\ StepFrom(c, x) \in D
      BY DEF Better
    <2> QED
      BY <1>3, <2>1, StepsLead
  <1> HIDE DEF D, B, k
  <1>6. ASSUME NEW x \in B
        PROVE  /\ k + Route!StepCost(StepFrom(c, x)) \in 0 .. Route!Infinity
               /\ k + Route!StepCost(StepFrom(c, x)) < g[x]
               /\ cells[x] = New(x) /\ New(x) \in Route!Marks(m)
               /\ New(x).generation = n /\ New(x).g = k + Route!StepCost(StepFrom(c, x)) /\ New(x).parent = c
               /\ New(x).f = New(x).g + Route!Heuristic(x, goal)
    <2> DEFINE d == StepFrom(c, x)
               v == k + Route!StepCost(d)
    <2>1. d \in Route!Around /\ x \in Route!Cells(m) /\ v < g[x] /\ d \in D
      BY <1>4, <1>5
    <2>2. Route!StepCost(d) \in Nat
      BY <2>1, StepsCost
    <2>3. v \in 0 .. Route!Infinity
      <3> HIDE DEF d, g
      <3> QED
        BY <1>3, <2>1, <2>2
    <2>4. Route!Heuristic(x, goal) \in Nat
      BY <1>3, <2>1, HeuristicIs
    <2>5. New(x) = [generation |-> n, g |-> v, f |-> v + Route!Heuristic(x, goal), parent |-> c]
      BY DEF Route!Reached
    <2>6. cells[x] = New(x)
      BY <2>1
    <2> HIDE DEF cells, New, v, d
    <2>7. v + Route!Heuristic(x, goal) \in Nat
      BY <2>3, <2>4
    <2>8. New(x) \in Route!Marks(m)
      BY <2>3, <2>5, <2>7 DEF Route!Marks
    <2> QED
      BY <2>1, <2>3, <2>5, <2>6, <2>8 DEF v, d
  <1>7. \A x \in Route!Cells(m) \ B : cells[x] = s.cells[x]
    BY DEF B, Better, D
  <1>8. cells \in [Route!Cells(m) -> Route!Marks(m)]
    <2>1. \A x \in Route!Cells(m) : cells[x] \in Route!Marks(m)
      <3> HIDE DEF cells, New
      <3> QED
        BY <1>3, <1>6, <1>7
    <2>2. cells = [x \in Route!Cells(m) |-> cells[x]]
      OBVIOUS
    <2> HIDE DEF cells
    <2> QED
      BY <2>1, <2>2
  <1> HIDE DEF cells, New
  <1>9. ASSUME NEW x \in B PROVE cells[x].f \in Nat
    BY <1>6 DEF Route!Marks
  <1>10. t \in Route!States(m)
    <2>1. open \in SUBSET [f : Nat, cell : Route!Cells(m)]
      <3>1. ASSUME NEW d \in D PROVE [f |-> cells[Route!Shift(c, d)].f, cell |-> Route!Shift(c, d)] \in [f : Nat, cell : Route!Cells(m)]
        BY <1>4, <1>5, <1>9
      <3>2. s.open \in SUBSET [f : Nat, cell : Route!Cells(m)]
        BY DEF Route!States
      <3> QED
        BY <3>1, <3>2
    <2> HIDE DEF t, open
    <2> QED
      BY <1>1, <1>8, <2>1 DEF Route!States
  <1> HIDE DEF t
  <1>11. ASSUME NEW x \in B
         PROVE  h[x] = k + Route!StepCost(StepFrom(c, x)) /\ Route!Visited(n, t.cells, x).f = h[x] + Route!Heuristic(x, goal)
    <2>1. t.cells[x].generation = n /\ t.cells[x].g = k + Route!StepCost(StepFrom(c, x))
          /\ t.cells[x].f = t.cells[x].g + Route!Heuristic(x, goal)
      BY <1>2, <1>6
    <2>2. h[x] = t.cells[x].g /\ Route!Visited(n, t.cells, x).f = t.cells[x].f
      BY <1>5, <1>10, <2>1, StatesAre DEF KnownIs
    <2> QED
      BY <2>1, <2>2
  <1>12. t.open = s.open \cup {Found(m, n, goal, t, x) : x \in B}
    <2>1. ASSUME NEW x \in B PROVE Found(m, n, goal, t, x) = [f |-> cells[x].f, cell |-> x]
      <3>1. cells[x].f = h[x] + Route!Heuristic(x, goal)
        BY <1>6, <1>11
      <3> QED
        BY <3>1 DEF Found
    <2>2. {[f |-> cells[Route!Shift(c, d)].f, cell |-> Route!Shift(c, d)] : d \in D} = {Found(m, n, goal, t, x) : x \in B}
      <3>1. ASSUME NEW d \in D PROVE [f |-> cells[Route!Shift(c, d)].f, cell |-> Route!Shift(c, d)] \in {Found(m, n, goal, t, x) : x \in B}
        BY <1>4, <2>1
      <3>2. ASSUME NEW x \in B PROVE Found(m, n, goal, t, x) \in {[f |-> cells[Route!Shift(c, d)].f, cell |-> Route!Shift(c, d)] : d \in D}
        <4>1. StepFrom(c, x) \in D /\ Route!Shift(c, StepFrom(c, x)) = x
          BY <1>5
        <4> QED
          BY <2>1, <4>1
      <3> QED
        BY <3>1, <3>2
    <2> QED
      BY <1>2, <2>2
  <1>13. ASSUME NEW d \in Route!Around, Route!MayStep(m, c, d) PROVE h[Route!Shift(c, d)] <= g[c] + Route!StepCost(d)
    <2> DEFINE x == Route!Shift(c, d)
    <2>1. x \in Route!Cells(m) /\ StepFrom(c, x) = d
      BY <1>3, <1>13, SameCells, NextCells DEF Route!MayStep
    <2>2. Route!StepCost(d) \in Nat
      BY StepsCost
    <2>3. CASE d \in D
      <3>1. x \in B
        BY <1>4, <2>3
      <3> HIDE DEF x
      <3>2. h[x] = k + Route!StepCost(d)
        BY <1>11, <2>1, <3>1
      <3> QED
        BY <1>3, <2>2, <3>2 DEF x
    <2>4. CASE d \notin D
      <3>1. x \notin B
        BY <1>5, <2>1, <2>4
      <3>2. ~ (k + Route!StepCost(d) < g[x])
        <4>1. ~ (k + Route!StepCost(d) < Route!Visited(n, s.cells, x).g)
          BY <1>13, <2>4 DEF D, Route!Improved, k
        <4> QED
          BY <1>3, <2>1, <4>1
      <3>3. h[x] = g[x]
        <4>1. t.cells[x] = s.cells[x]
          BY <1>2, <1>7, <2>1, <3>1
        <4>2. Route!Visited(n, t.cells, x) = Route!Visited(n, s.cells, x)
          BY <4>1 DEF Route!Visited
        <4> QED
          BY <2>1, <4>2 DEF Known
      <3> HIDE DEF x, g, h
      <3> QED
        BY <1>3, <2>1, <2>2, <3>2, <3>3 DEF x
    <2> QED
      BY <2>3, <2>4
  <1>14. ASSUME NEW x \in B
         PROVE  /\ StepFrom(c, x) \in Route!Around /\ Route!MayStep(m, c, StepFrom(c, x))
                /\ h[x] = g[c] + Route!StepCost(StepFrom(c, x)) /\ h[x] < g[x]
                /\ Route!Visited(n, t.cells, x).f = h[x] + Route!Heuristic(x, goal)
                /\ t.cells[x].parent = c
    <2>1. StepFrom(c, x) \in Route!Around /\ Route!MayStep(m, c, StepFrom(c, x))
      BY <1>4, <1>5
    <2>2. t.cells[x].parent = c
      BY <1>2, <1>6
    <2> QED
      BY <1>3, <1>6, <1>11, <2>1, <2>2
  <1>15. \A x \in Route!Cells(m) \ B : t.cells[x] = s.cells[x]
    BY <1>2, <1>7
  <1> QED
    BY <1>10, <1>12, <1>13, <1>14, <1>15 DEF t, B, News, Expands

\* Every cell that is known was reached over its parent, and it waits to be
\* popped or has told its neighbours, the goal waits.
Seen(m, n, start, goal, s, c) ==
  Known(m, n, s)[c] < Route!Infinity =>
    /\ Route!Visited(n, s.cells, c).f = Known(m, n, s)[c] + Route!Heuristic(c, goal)
    /\ c = start => s.cells[c].parent = Route!None
    /\ c # start => ComesFrom(m, Known(m, n, s), c, s.cells[c].parent)
Cleared(m, n, goal, s, c) ==
  \/ Known(m, n, s)[c] = Route!Infinity
  \/ Found(m, n, goal, s, c) \in s.open
  \/ c # goal /\ AllowsSteps(m, Known(m, n, s), c)
SearchInv(m, n, start, goal, s) ==
  /\ s \in Route!States(m) /\ IsFiniteSet(s.open)
  /\ Known(m, n, s)[start] = 0
  /\ \A c \in Route!Cells(m) :
        s.cells[c].generation <= n /\ Seen(m, n, start, goal, s, c) /\ Cleared(m, n, goal, s, c)
  /\ \A e \in s.open : /\ Known(m, n, s)[e.cell] < Route!Infinity
                       /\ e.f >= Known(m, n, s)[e.cell] + Route!Heuristic(e.cell, goal)
SearchSize(m, n, s) == (Cardinality(Route!Cells(m)) + 1) * Cardinality(Below(m, Known(m, n, s))) + Cardinality(s.open)

\* The top of the heap is there and is least.
LEMMA TopIs ==
  ASSUME NEW m, IsMap(m), NEW s \in Route!States(m), s.open # {}
  PROVE  Route!Top(s) \in s.open /\ \A e \in s.open : Route!Top(s).f <= e.f
  <1> DEFINE F == {e.f : e \in s.open}
  <1>1. F \in SUBSET Nat /\ F # {}
    BY StatesAre
  <1>2. PICK k \in F : \A l \in F : k <= l
    <2> HIDE DEF F
    <2> QED
      BY <1>1, LeastExists
  <1>3. \E e \in s.open : \A o \in s.open : e.f <= o.f
    BY <1>2
  <1> QED
    BY <1>3 DEF Route!Top

\* A pop that expands its cell.
LEMMA ExpandKeeps ==
  ASSUME NEW m, IsMap(m), NEW n \in Nat, NEW start \in Route!Cells(m), NEW goal \in Route!Cells(m),
         NEW s, SearchInv(m, n, start, goal, s), NEW e \in s.open, e.cell # goal, e = Found(m, n, goal, s, e.cell)
  PROVE  LET t == Route!Expand(m, n, goal, [s EXCEPT !.open = @ \ {e}], e.cell)
         IN  SearchInv(m, n, start, goal, t) /\ SearchSize(m, n, t) < SearchSize(m, n, s)
  <1> DEFINE r == [s EXCEPT !.open = @ \ {e}]
             c == e.cell
             t == Route!Expand(m, n, goal, r, c)
             g == Known(m, n, s)
             h == Known(m, n, t)
             B == Better(m, n, r, c)
             N == {Found(m, n, goal, t, x) : x \in B}
  <1>1. r \in Route!States(m) /\ r.cells = s.cells /\ r.open = s.open \ {e} /\ c \in Route!Cells(m) /\ s \in Route!States(m)
    <2>1. s \in Route!States(m)
      BY DEF SearchInv
    <2>2. c \in Route!Cells(m)
      BY <2>1, StatesAre
    <2> QED
      BY <2>1, <2>2 DEF Route!States
  <1>2. Known(m, n, r) = g
    BY <1>1 DEF Known
  <1> HIDE DEF r
  <1>3. /\ t \in Route!States(m)
        /\ \A x \in B : /\ StepFrom(c, x) \in Route!Around /\ Route!MayStep(m, c, StepFrom(c, x))
                        /\ h[x] = g[c] + Route!StepCost(StepFrom(c, x)) /\ h[x] < g[x]
                        /\ Route!Visited(n, t.cells, x).f = h[x] + Route!Heuristic(x, goal)
                        /\ t.cells[x].parent = c
        /\ \A x \in Route!Cells(m) \ B : t.cells[x] = s.cells[x]
        /\ t.open = r.open \cup N
        /\ \A d \in Route!Around : Route!MayStep(m, c, d) => h[Route!Shift(c, d)] <= g[c] + Route!StepCost(d)
    <2>1. Expands(m, n, goal, r, c, t)
      BY <1>1, ExpandIs
    <2>2. N = News(m, n, goal, r, c, t)
      BY DEF News
    <2> HIDE DEF t, c, N
    <2> QED
      BY <1>1, <1>2, <2>1, <2>2 DEF Expands
  <1>4. B \subseteq Route!Cells(m)
    BY DEF Better
  <1> HIDE DEF t, B
  <1>5. /\ Route!Infinity \in Nat /\ Route!Cells(m) \subseteq Int \X Int
        /\ g \in RouteFields(m) /\ h \in RouteFields(m)
        /\ \A x \in Route!Cells(m) : g[x] \in 0 .. Route!Infinity /\ h[x] \in 0 .. Route!Infinity
        /\ \A x \in Route!Cells(m) : Route!Heuristic(x, goal) \in Nat
    <2>1. Route!Infinity \in Nat /\ Route!Cells(m) \subseteq Int \X Int
      BY CellsAre
    <2>2. KnownIs(m, n, s) /\ KnownIs(m, n, t)
      BY <1>1, <1>3, StatesAre
    <2>3. \A x \in Route!Cells(m) : Route!Heuristic(x, goal) \in Nat
      BY <2>1, HeuristicIs
    <2> QED
      BY <2>1, <2>2, <2>3 DEF KnownIs
  <1>6. ASSUME NEW x \in Route!Cells(m) \ B
        PROVE  h[x] = g[x] /\ Route!Visited(n, t.cells, x) = Route!Visited(n, s.cells, x)
    <2>1. t.cells[x] = s.cells[x]
      BY <1>3
    <2> QED
      BY <2>1 DEF Known, Route!Visited
  <1> HIDE DEF g, h
  <1>7. \A x \in Route!Cells(m) : h[x] <= g[x]
    BY <1>3, <1>5, <1>6
  <1>8. c \notin B /\ h[c] = g[c]
    <2>1. StepFrom(c, c) \notin Route!Around
      BY <1>1, <1>5 DEF StepFrom, Route!Around
    <2>2. c \notin B
      BY <1>3, <2>1
    <2> QED
      BY <1>1, <1>6, <2>2
  <1>9. g[start] = 0 /\ start \notin B /\ h[start] = 0
    <2>1. g[start] = 0
      BY DEF SearchInv, g
    <2>2. start \notin B
      <3>1. start \in B => h[start] < 0
        BY <1>3, <2>1
      <3> QED
        BY <1>5, <3>1
    <2> QED
      BY <1>6, <2>1, <2>2
  <1>10. ASSUME NEW x \in Route!Cells(m), NEW p, ComesFrom(m, g, x, p), h[x] = g[x] PROVE ComesFrom(m, h, x, p)
    <2>1. p \in Route!Cells(m) /\ StepFrom(p, x) \in Route!Around /\ g[p] + Route!StepCost(StepFrom(p, x)) <= g[x]
      BY <1>10 DEF ComesFrom
    <2>2. Route!StepCost(StepFrom(p, x)) \in Nat
      BY <2>1, StepsCost
    <2>3. h[p] + Route!StepCost(StepFrom(p, x)) <= h[x]
      BY <1>5, <1>7, <1>10, <2>1, <2>2
    <2> QED
      BY <1>10, <2>3 DEF ComesFrom
  <1>11. ASSUME NEW x \in Route!Cells(m) PROVE Seen(m, n, start, goal, t, x)
    <2>1. CASE x \in B
      <3>1. x # start /\ t.cells[x].parent = c
        BY <1>3, <1>9, <2>1
      <3>2. Route!StepCost(StepFrom(c, x)) \in Nat
        BY <1>3, <2>1, StepsCost
      <3>3. h[c] + Route!StepCost(StepFrom(c, x)) <= h[x]
        BY <1>1, <1>3, <1>5, <1>8, <2>1, <3>2
      <3>4. ComesFrom(m, h, x, c)
        BY <1>1, <1>3, <2>1, <3>3 DEF ComesFrom
      <3> QED
        BY <1>3, <2>1, <3>1, <3>4 DEF Seen, h
    <2>2. CASE x \notin B
      <3>1. h[x] = g[x] /\ t.cells[x] = s.cells[x] /\ Route!Visited(n, t.cells, x) = Route!Visited(n, s.cells, x)
        BY <1>3, <1>6, <2>2
      <3>2. Seen(m, n, start, goal, s, x)
        BY DEF SearchInv
      <3>3. x # start /\ h[x] < Route!Infinity => ComesFrom(m, h, x, t.cells[x].parent)
        BY <1>10, <3>1, <3>2 DEF Seen, g
      <3> QED
        BY <3>1, <3>2, <3>3 DEF Seen, g, h
    <2> QED
      BY <2>1, <2>2
  <1>12. \A x \in Route!Cells(m) : Found(m, n, goal, t, x) = [f |-> h[x] + Route!Heuristic(x, goal), cell |-> x]
                                   /\ Found(m, n, goal, s, x) = [f |-> g[x] + Route!Heuristic(x, goal), cell |-> x]
    BY DEF Found, g, h
  <1>13. ASSUME NEW x \in Route!Cells(m) PROVE Cleared(m, n, goal, t, x)
    <2>1. CASE x \in B
      BY <1>3, <2>1 DEF Cleared
    <2>2. CASE x = c
      <3>1. AllowsSteps(m, h, c)
        BY <1>3, <1>8 DEF AllowsSteps
      <3> QED
        BY <2>2, <3>1 DEF Cleared, h
    <2>3. CASE x \notin B /\ x # c
      <3>1. h[x] = g[x] /\ Found(m, n, goal, t, x) = Found(m, n, goal, s, x)
        BY <1>6, <1>12, <2>3
      <3>2. Cleared(m, n, goal, s, x)
        BY DEF SearchInv
      <3>3. CASE g[x] = Route!Infinity
        BY <3>1, <3>3 DEF Cleared, h
      <3>4. CASE Found(m, n, goal, s, x) \in s.open
        <4>1. Found(m, n, goal, s, x) # e
          BY <1>12, <2>3
        <4> QED
          BY <1>1, <1>3, <3>1, <3>4, <4>1 DEF Cleared
      <3>5. CASE x # goal /\ AllowsSteps(m, g, x)
        <4>1. ASSUME NEW d \in Route!Around, Route!MayStep(m, x, d) PROVE h[Route!Shift(x, d)] <= h[x] + Route!StepCost(d)
          <5>1. Route!Shift(x, d) \in Route!Cells(m)
            BY <4>1, SameCells DEF Route!MayStep
          <5>2. g[Route!Shift(x, d)] <= g[x] + Route!StepCost(d) /\ Route!StepCost(d) \in Nat
            BY <3>5, <4>1, StepsCost DEF AllowsSteps
          <5> QED
            BY <1>5, <1>7, <3>1, <5>1, <5>2
        <4>2. AllowsSteps(m, h, x)
          BY <4>1 DEF AllowsSteps
        <4> QED
          BY <3>5, <4>2 DEF Cleared, h
      <3> QED
        BY <3>2, <3>3, <3>4, <3>5 DEF Cleared, g
    <2> QED
      BY <2>1, <2>2, <2>3
  <1>14. ASSUME NEW o \in t.open PROVE h[o.cell] < Route!Infinity /\ o.f >= h[o.cell] + Route!Heuristic(o.cell, goal)
    <2>1. CASE o \in r.open
      <3>1. o \in s.open /\ o.f \in Nat /\ o.cell \in Route!Cells(m)
        BY <1>1, <2>1, StatesAre
      <3>2. g[o.cell] < Route!Infinity /\ o.f >= g[o.cell] + Route!Heuristic(o.cell, goal)
        BY <3>1 DEF SearchInv, g
      <3> QED
        BY <1>5, <1>7, <3>1, <3>2
    <2>2. CASE o \in N
      <3>1. PICK x \in B : o = Found(m, n, goal, t, x)
        BY <2>2
      <3>2. x \in Route!Cells(m) /\ o.cell = x /\ o.f = h[x] + Route!Heuristic(x, goal) /\ h[x] < g[x]
        BY <1>3, <1>4, <1>12, <3>1
      <3> QED
        BY <1>5, <3>2
    <2> QED
      BY <1>3, <2>1, <2>2
  <1>15. /\ IsFiniteSet(s.open) /\ IsFiniteSet(r.open) /\ Cardinality(r.open) = Cardinality(s.open) - 1
         /\ Cardinality(s.open) \in Nat /\ Cardinality(r.open) \in Nat
    <2>1. IsFiniteSet(s.open)
      BY DEF SearchInv
    <2>2. IsFiniteSet(r.open) /\ Cardinality(r.open) = Cardinality(s.open) - 1
      BY <1>1, <2>1, FS_RemoveElement
    <2> QED
      BY <2>1, <2>2, FS_CardinalityType
  <1>16. /\ IsFiniteSet(N) /\ Cardinality(N) \in Nat /\ Cardinality(N) <= Cardinality(Route!Cells(m))
         /\ Cardinality(Route!Cells(m)) \in Nat
    <2>1. IsFiniteSet(Route!Cells(m)) /\ Cardinality(Route!Cells(m)) \in Nat
      BY CellsAre, FS_CardinalityType
    <2>2. IsFiniteSet(B) /\ Cardinality(B) <= Cardinality(Route!Cells(m)) /\ Cardinality(B) \in Nat
      BY <1>4, <2>1, FS_Subset, FS_CardinalityType
    <2> DEFINE f == [x \in B |-> Found(m, n, goal, t, x)]
    <2>3. f \in Surjection(B, N)
      <3>1. f \in [B -> N] /\ \A y \in N : \E x \in B : f[x] = y
        OBVIOUS
      <3> HIDE DEF f, N
      <3> QED
        BY <3>1 DEF Surjection
    <2> HIDE DEF f, N
    <2>4. IsFiniteSet(N) /\ Cardinality(N) <= Cardinality(B)
      BY <2>2, <2>3, FS_Surjection
    <2> QED
      BY <2>1, <2>2, <2>4, FS_CardinalityType
  <1>17. /\ IsFiniteSet(t.open) /\ Cardinality(t.open) \in Nat
         /\ Cardinality(t.open) <= Cardinality(s.open) - 1 + Cardinality(N)
    <2> HIDE DEF N
    <2>1. IsFiniteSet(r.open \cup N) /\ Cardinality(r.open \cup N) = Cardinality(r.open) + Cardinality(N) - Cardinality(r.open \cap N)
      BY <1>15, <1>16, FS_Union
    <2>2. Cardinality(r.open \cap N) \in Nat
      <3>1. IsFiniteSet(r.open \cap N)
        BY <1>15, FS_Subset
      <3> QED
        BY <3>1, FS_CardinalityType
    <2>3. Cardinality(r.open \cup N) \in Nat
      BY <2>1, FS_CardinalityType
    <2> QED
      BY <1>3, <1>15, <1>16, <2>1, <2>2, <2>3
  <1>18. SearchSize(m, n, t) < SearchSize(m, n, s)
    <2> DEFINE K == Cardinality(Route!Cells(m)) + 1
               a == Cardinality(Below(m, g))
               b == Cardinality(Below(m, h))
    <2>1. a \in Nat /\ b \in Nat /\ K \in Nat
      BY <1>16, BelowIsFinite
    <2>2. SearchSize(m, n, t) = K * b + Cardinality(t.open) /\ SearchSize(m, n, s) = K * a + Cardinality(s.open)
      BY DEF SearchSize, g, h
    <2>3. CASE B = {}
      <3>1. \A x \in Route!Cells(m) : h[x] = g[x]
        BY <1>6, <2>3
      <3>2. h = g
        BY <1>5, <3>1 DEF RouteFields
      <3>3. N = {}
        BY <2>3
      <3>4. Cardinality(N) = 0
        BY <3>3, FS_EmptySet
      <3> HIDE DEF K, a, b, N
      <3>5. a = b
        BY <3>2 DEF a, b
      <3>6. K * b = K * a /\ K * a \in Nat
        BY <2>1, <3>5
      <3> QED
        BY <1>15, <1>17, <2>2, <3>4, <3>6
    <2>4. CASE B # {}
      <3>1. PICK x : x \in B
        BY <2>4
      <3>2. x \in Route!Cells(m) /\ h[x] < g[x]
        BY <1>3, <1>4, <3>1
      <3>3. Field!Distances(m) = RouteFields(m) /\ Field!Cells(m) = Route!Cells(m)
        BY SameCells, SameSteps DEF Field!Distances, RouteFields
      <3>4. b < a
        BY <1>5, <1>7, <3>2, <3>3, LowerIsLess
      <3> HIDE DEF a, b, N, K
      <3>5. \A i, j, k \in Nat : i < j => k * i + k <= k * j /\ k * i \in Nat /\ k * j \in Nat
        <4> SUFFICES ASSUME NEW i \in Nat, NEW j \in Nat, NEW k \in Nat, i < j
                     PROVE  k * i + k <= k * j /\ k * i \in Nat /\ k * j \in Nat
          OBVIOUS
        <4>1. j - i - 1 \in Nat /\ k * (j - i - 1) \in Nat
          OBVIOUS
        <4>2. k * j = k * i + k + k * (j - i - 1)
          OBVIOUS
        <4>3. k * i \in Nat /\ k * j \in Nat
          OBVIOUS
        <4> QED
          BY <4>1, <4>2, <4>3
      <3>6. K * b + K <= K * a /\ K * b \in Nat /\ K * a \in Nat
        BY <2>1, <3>4, <3>5
      <3>7. Cardinality(N) <= K - 1 /\ K \in Nat
        BY <1>16 DEF K
      <3> QED
        BY <1>15, <1>16, <1>17, <2>2, <3>6, <3>7
    <2> QED
      BY <2>3, <2>4
  <1>19. \A x \in Route!Cells(m) : t.cells[x].generation <= n
    <2>1. ASSUME NEW x \in B PROVE t.cells[x].generation = n
      <3>1. h[x] < Route!Infinity
        BY <1>3, <1>4, <1>5
      <3> QED
        BY <1>3, <1>4, <3>1, StatesAre DEF KnownIs, h
    <2>2. ASSUME NEW x \in Route!Cells(m) \ B PROVE t.cells[x].generation <= n
      BY <1>3 DEF SearchInv
    <2> QED
      BY <2>1, <2>2
  <1>20. SearchInv(m, n, start, goal, t)
    BY <1>3, <1>9, <1>11, <1>13, <1>14, <1>17, <1>19 DEF SearchInv, h
  <1> QED
    BY <1>18, <1>20 DEF t, r

\* A turn of the main loop.
LEMMA TurnKeeps ==
  ASSUME NEW m, IsMap(m), NEW n \in Nat, NEW start \in Route!Cells(m), NEW goal \in Route!Cells(m),
         NEW s \in Route!States(m), s.open # {}
  PROVE  LET t == Route!Turn(m, n, goal, s)
         IN  /\ t \in Route!States(m)
             /\ SearchInv(m, n, start, goal, s) /\ ~ Route!Arrives(n, goal, s) =>
                   SearchInv(m, n, start, goal, t) /\ SearchSize(m, n, t) < SearchSize(m, n, s)
  <1> DEFINE e == Route!Top(s)
             c == e.cell
             r == [s EXCEPT !.open = @ \ {e}]
             t == Route!Turn(m, n, goal, s)
             g == Known(m, n, s)
  <1>1. t = IF Route!IsStale(n, s) THEN r ELSE Route!Expand(m, n, goal, r, c)
    BY DEF Route!Turn
  <1>2. e \in s.open /\ e.f \in Nat /\ c \in Route!Cells(m)
    BY TopIs, StatesAre
  <1>3. r \in Route!States(m) /\ r.cells = s.cells /\ r.open = s.open \ {e} /\ s.cells = s.cells
    BY DEF Route!States
  <1>4. t \in Route!States(m)
    <2>1. Expands(m, n, goal, r, c, Route!Expand(m, n, goal, r, c))
      <3> HIDE DEF r, c
      <3> QED
        BY <1>2, <1>3, ExpandIs
    <2>2. Route!Expand(m, n, goal, r, c) \in Route!States(m)
      BY <2>1 DEF Expands
    <2> HIDE DEF t, r
    <2> QED
      BY <1>1, <1>3, <2>2
  <1>5. ASSUME SearchInv(m, n, start, goal, s), ~ Route!Arrives(n, goal, s)
        PROVE  SearchInv(m, n, start, goal, t) /\ SearchSize(m, n, t) < SearchSize(m, n, s)
    <2>1. g[c] < Route!Infinity /\ e.f >= g[c] + Route!Heuristic(c, goal)
      BY <1>2, <1>5 DEF SearchInv
    <2>2. Route!Visited(n, s.cells, c).f = g[c] + Route!Heuristic(c, goal)
      BY <1>2, <1>5, <2>1 DEF SearchInv, Seen
    <2>3. g[c] + Route!Heuristic(c, goal) \in Nat
      <3>1. KnownIs(m, n, s)
        BY StatesAre
      <3> QED
        BY <1>2, <2>2, <3>1 DEF KnownIs
    <2>4. Found(m, n, goal, s, c) = [f |-> g[c] + Route!Heuristic(c, goal), cell |-> c] /\ e = [f |-> e.f, cell |-> c]
      BY <1>2, StatesAre DEF Found
    <2> HIDE DEF e, g
    <2>5. CASE Route!IsStale(n, s)
      <3>1. e.f > g[c] + Route!Heuristic(c, goal)
        BY <2>2, <2>5 DEF Route!IsStale, e
      <3>2. \A x \in Route!Cells(m) : Found(m, n, goal, s, x) # e
        <4> SUFFICES ASSUME NEW x \in Route!Cells(m), Found(m, n, goal, s, x) = e PROVE FALSE
          OBVIOUS
        <4>1. Found(m, n, goal, s, x).cell = x
          BY DEF Found
        <4>2. x = c
          BY <4>1
        <4>3. Found(m, n, goal, s, c).f = g[c] + Route!Heuristic(c, goal)
          BY <2>4
        <4>4. e.f = g[c] + Route!Heuristic(c, goal)
          BY <4>2, <4>3
        <4> QED
          BY <1>2, <2>3, <3>1, <4>4
      <3> HIDE DEF r, t
      <3>3. Known(m, n, r) = Known(m, n, s) /\ (\A x : Found(m, n, goal, r, x) = Found(m, n, goal, s, x))
            /\ \A x : Route!Visited(n, r.cells, x) = Route!Visited(n, s.cells, x)
        BY <1>3 DEF Known, Found
      <3>4. /\ IsFiniteSet(s.open) /\ IsFiniteSet(r.open) /\ Cardinality(r.open) = Cardinality(s.open) - 1
            /\ Cardinality(s.open) \in Nat /\ Cardinality(r.open) \in Nat
        <4>1. IsFiniteSet(s.open)
          BY <1>5 DEF SearchInv
        <4>2. IsFiniteSet(s.open \ {e}) /\ Cardinality(s.open \ {e}) = Cardinality(s.open) - 1
          BY <1>2, <4>1, FS_RemoveElement
        <4>3. r.open = s.open \ {e}
          BY <1>3
        <4> QED
          BY <4>1, <4>2, <4>3, FS_CardinalityType
      <3>5. \A x \in Route!Cells(m) : Seen(m, n, start, goal, r, x)
        BY <1>3, <1>5, <3>3 DEF SearchInv, Seen
      <3>6. \A x \in Route!Cells(m) : Cleared(m, n, goal, r, x)
        BY <1>3, <1>5, <3>2, <3>3 DEF SearchInv, Cleared
      <3>7. SearchInv(m, n, start, goal, r)
        BY <1>3, <1>5, <3>3, <3>4, <3>5, <3>6 DEF SearchInv
      <3>8. SearchSize(m, n, r) < SearchSize(m, n, s)
        <4> DEFINE w == (Cardinality(Route!Cells(m)) + 1) * Cardinality(Below(m, Known(m, n, s)))
        <4>1. Cardinality(Route!Cells(m)) \in Nat /\ Cardinality(Below(m, Known(m, n, s))) \in Nat
          BY CellsAre, FS_CardinalityType, BelowIsFinite
        <4>2. w \in Nat
          BY <4>1
        <4>3. SearchSize(m, n, r) = w + Cardinality(r.open) /\ SearchSize(m, n, s) = w + Cardinality(s.open)
          BY <3>3 DEF SearchSize
        <4> HIDE DEF w
        <4> QED
          BY <3>4, <4>2, <4>3
      <3>9. t = r
        BY <1>1, <2>5
      <3> QED
        BY <3>7, <3>8, <3>9
    <2>6. CASE ~ Route!IsStale(n, s)
      <3>1. ~ (e.f > g[c] + Route!Heuristic(c, goal))
        BY <2>2, <2>6 DEF Route!IsStale, e
      <3>2. e.f = g[c] + Route!Heuristic(c, goal)
        BY <1>2, <2>1, <2>3, <3>1
      <3>3. e = Found(m, n, goal, s, e.cell)
        BY <2>4, <3>2
      <3>4. e.cell # goal
        BY <1>5, <2>6 DEF Route!Arrives, e
      <3>5. LET u == Route!Expand(m, n, goal, [s EXCEPT !.open = @ \ {e}], e.cell)
            IN  SearchInv(m, n, start, goal, u) /\ SearchSize(m, n, u) < SearchSize(m, n, s)
        BY <1>2, <1>5, <3>3, <3>4, ExpandKeeps
      <3>6. t = Route!Expand(m, n, goal, r, c)
        BY <1>1, <2>6
      <3> QED
        BY <3>5, <3>6
    <2> QED
      BY <2>5, <2>6
  <1> QED
    BY <1>4, <1>5

\* The main loop ends, with nothing left to pop or at the goal.
LEMMA ExploreEnds ==
  ASSUME NEW m, IsMap(m), NEW n \in Nat, NEW start \in Route!Cells(m), NEW goal \in Route!Cells(m),
         NEW first, SearchInv(m, n, start, goal, first)
  PROVE  LET t == Route!Explore(m, n, goal, first)
         IN  SearchInv(m, n, start, goal, t) /\ (t.open = {} \/ Route!Arrives(n, goal, t))
  <1> DEFINE S == Route!States(m)
             done == {s \in S : s.open = {} \/ Route!Arrives(n, goal, s)}
             step == [s \in S |-> IF s.open = {} THEN s ELSE Route!Turn(m, n, goal, s)]
             f == Loop(S, done, step)
             I == {s \in S : SearchInv(m, n, start, goal, s)}
             mu == [s \in I |-> SearchSize(m, n, s)]
  <1>1. Route!Explore(m, n, goal, first) = f[first]
    <2> DEFINE Body(r) == [s \in S |-> IF s.open = {} \/ Route!Arrives(n, goal, s) THEN s ELSE r[Route!Turn(m, n, goal, s)]]
    <2>1. Route!Explore(m, n, goal, first) = (CHOOSE r : r = Body(r))[first]
      BY DEF Route!Explore
    <2>2. \A r : Body(r) = [s \in S |-> IF s \in done THEN s ELSE r[step[s]]]
      <3> SUFFICES ASSUME NEW r PROVE Body(r) = [s \in S |-> IF s \in done THEN s ELSE r[step[s]]]
        OBVIOUS
      <3>1. \A s \in S : /\ s \in done <=> s.open = {} \/ Route!Arrives(n, goal, s)
                         /\ s.open # {} => step[s] = Route!Turn(m, n, goal, s)
        OBVIOUS
      <3> HIDE DEF S, done, step
      <3> QED
        BY <3>1
    <2> HIDE DEF Body, S, done, step
    <2>3. (CHOOSE r : r = Body(r)) = f
      BY <2>2 DEF Loop
    <2> QED
      BY <2>1, <2>3
  <1>2. step \in [S -> S]
    BY TurnKeeps
  <1>3. first \in I
    BY DEF SearchInv
  <1>4. mu \in [I -> Nat]
    <2> SUFFICES ASSUME NEW s \in I PROVE SearchSize(m, n, s) \in Nat
      OBVIOUS
    <2>1. Cardinality(Route!Cells(m)) \in Nat /\ Cardinality(Below(m, Known(m, n, s))) \in Nat
      BY CellsAre, FS_CardinalityType, BelowIsFinite
    <2>2. Cardinality(s.open) \in Nat
      BY FS_CardinalityType DEF SearchInv
    <2> QED
      BY <2>1, <2>2 DEF SearchSize
  <1>5. ASSUME NEW s \in I, s \notin done PROVE step[s] \in I /\ mu[step[s]] < mu[s]
    <2>1. s \in S /\ s.open # {} /\ ~ Route!Arrives(n, goal, s) /\ step[s] = Route!Turn(m, n, goal, s) /\ SearchInv(m, n, start, goal, s)
      BY <1>5
    <2>2. /\ Route!Turn(m, n, goal, s) \in S /\ SearchInv(m, n, start, goal, Route!Turn(m, n, goal, s))
          /\ SearchSize(m, n, Route!Turn(m, n, goal, s)) < SearchSize(m, n, s)
      BY <2>1, TurnKeeps
    <2> QED
      BY <1>5, <2>1, <2>2
  <1>6. \A s \in I : f[s] \in I /\ f[s] \in done
    <2>1. I \in SUBSET S
      OBVIOUS
    <2>2. f = Loop(S, done, step)
      OBVIOUS
    <2>3. \A s \in I : s \notin done => step[s] \in I /\ mu[step[s]] < mu[s]
      BY <1>5
    <2> HIDE DEF S, done, step, f, I, mu
    <2> QED
      BY <1>2, <1>4, <2>1, <2>2, <2>3, LoopEnds
  <1>7. f[first] \in I /\ f[first] \in done
    BY <1>3, <1>6
  <1> HIDE DEF f
  <1> QED
    BY <1>1, <1>7

\* What the search knows is never less than the shortest way.
LEMMA KnownIsWay ==
  ASSUME NEW m, IsMap(m), NEW n \in Nat, NEW start \in Route!Cells(m), NEW goal \in Route!Cells(m),
         NEW s, SearchInv(m, n, start, goal, s)
  PROVE  \A c \in Route!Cells(m) : Route!Shortest(m, start)[c] <= Known(m, n, s)[c]
  <1> DEFINE dist == Route!Shortest(m, start)
             g == Known(m, n, s)
             Bad == {c \in Route!Cells(m) : g[c] < dist[c]}
             F == {g[c] : c \in Bad}
  <1>1. HasWays(m, start, dist) /\ \A c \in Route!Cells(m) : AllowsSteps(m, dist, c)
    BY ShortestIs
  <1>2. KnownIs(m, n, s)
    BY StatesAre DEF SearchInv
  <1>3. /\ Route!Infinity \in Nat /\ Route!Cells(m) \subseteq Int \X Int
        /\ \A c \in Route!Cells(m) : g[c] \in 0 .. Route!Infinity /\ dist[c] \in 0 .. Route!Infinity
    BY <1>1, <1>2, CellsAre DEF HasWays, RouteFields, KnownIs
  <1>4. \A c \in Route!Cells(m) : Seen(m, n, start, goal, s, c)
    BY DEF SearchInv
  <1> HIDE DEF dist
  <1> SUFFICES ASSUME Bad # {} PROVE FALSE
    BY <1>3 DEF dist
  <1>5. F \in SUBSET Nat /\ F # {}
    BY <1>3
  <1>6. PICK c \in Bad : \A x \in Bad : g[c] <= g[x]
    <2> HIDE DEF F
    <2>1. PICK k \in F : \A l \in F : k <= l
      BY <1>5, LeastExists
    <2> QED
      BY <2>1 DEF F
  <1>7. c \in Route!Cells(m) /\ g[c] < dist[c] /\ c # start /\ g[c] < Route!Infinity
    BY <1>1, <1>3 DEF HasWays
  <1>8. PICK p : ComesFrom(m, g, c, p)
    BY <1>4, <1>7 DEF Seen
  <1> HIDE DEF g
  <1>9. p \in Route!Cells(m) /\ StepFrom(p, c) \in Route!Around /\ Route!MayStep(m, p, StepFrom(p, c))
        /\ g[p] + Route!StepCost(StepFrom(p, c)) <= g[c]
    BY <1>8 DEF ComesFrom
  <1>10. Route!StepCost(StepFrom(p, c)) \in {1000, 1414} /\ Route!Shift(p, StepFrom(p, c)) = c
    BY <1>3, <1>7, <1>9, StepsCost, StepsLead
  <1>11. dist[p] <= g[p]
    BY <1>3, <1>6, <1>7, <1>9, <1>10
  <1>12. dist[c] <= dist[p] + Route!StepCost(StepFrom(p, c))
    BY <1>1, <1>9, <1>10 DEF AllowsSteps
  <1> QED
    BY <1>3, <1>7, <1>9, <1>10, <1>11, <1>12

\* A cell whose shortest way is not known yet has an estimate that something
\* that waits bounds from below.
LEMMA UnknownIsFarther ==
  ASSUME NEW m, IsMap(m), NEW n \in Nat, NEW start \in Route!Cells(m), NEW goal \in Route!Cells(m),
         NEW s, SearchInv(m, n, start, goal, s), NEW k \in Nat, \A e \in s.open : k <= e.f
  PROVE  \A c \in Route!Cells(m) :
            Known(m, n, s)[c] > Route!Shortest(m, start)[c] =>
               k <= Route!Shortest(m, start)[c] + Route!Heuristic(c, goal)
  <1> DEFINE dist == Route!Shortest(m, start)
             g == Known(m, n, s)
             Bad == {c \in Route!Cells(m) : g[c] > dist[c] /\ dist[c] + Route!Heuristic(c, goal) < k}
             F == {dist[c] : c \in Bad}
  <1>1. HasWays(m, start, dist)
    BY ShortestIs
  <1>2. KnownIs(m, n, s)
    BY StatesAre DEF SearchInv
  <1>3. /\ Route!Infinity \in Nat /\ Route!Cells(m) \subseteq Int \X Int
        /\ \A c \in Route!Cells(m) : g[c] \in 0 .. Route!Infinity /\ dist[c] \in 0 .. Route!Infinity
    BY <1>1, <1>2, CellsAre DEF HasWays, RouteFields, KnownIs
  <1>4. \A c \in Route!Cells(m) : Route!Heuristic(c, goal) \in Nat
    BY <1>3, HeuristicIs
  <1>5. g[start] = 0 /\ \A c \in Route!Cells(m) : Cleared(m, n, goal, s, c)
    BY DEF SearchInv
  <1> HIDE DEF dist
  <1> SUFFICES ASSUME Bad # {} PROVE FALSE
    BY <1>3, <1>4 DEF dist
  <1>6. F \in SUBSET Nat /\ F # {}
    BY <1>3
  <1>7. PICK c \in Bad : \A x \in Bad : dist[c] <= dist[x]
    <2> HIDE DEF F
    <2>1. PICK l \in F : \A o \in F : l <= o
      BY <1>6, LeastExists
    <2> QED
      BY <2>1 DEF F
  <1>8. c \in Route!Cells(m) /\ g[c] > dist[c] /\ dist[c] + Route!Heuristic(c, goal) < k
    OBVIOUS
  <1>9. c # start /\ dist[c] < Route!Infinity
    BY <1>1, <1>3, <1>5, <1>8 DEF HasWays
  <1>10. PICK p \in Route!Cells(m) : ComesFrom(m, dist, c, p)
    BY <1>1, <1>8, <1>9 DEF HasWays
  <1> DEFINE d == StepFrom(p, c)
  <1>11. d \in Route!Around /\ Route!MayStep(m, p, d) /\ dist[p] + Route!StepCost(d) <= dist[c]
    BY <1>10 DEF ComesFrom
  <1>12. Route!StepCost(d) \in {1000, 1414} /\ Route!Shift(p, d) = c
    BY <1>3, <1>8, <1>11, StepsCost, StepsLead
  <1> HIDE DEF d
  <1>13. Route!Heuristic(p, goal) <= Route!Heuristic(c, goal) + Route!StepCost(d)
    BY <1>3, <1>11, <1>12, HeuristicFalls
  <1>14. dist[p] < dist[c] /\ dist[p] + Route!Heuristic(p, goal) < k
    BY <1>3, <1>4, <1>8, <1>11, <1>12, <1>13
  <1>15. ~ (g[p] > dist[p])
    BY <1>3, <1>7, <1>8, <1>14
  <1>16. CASE g[p] = Route!Infinity
    BY <1>3, <1>8, <1>14, <1>15, <1>16
  <1>17. CASE Found(m, n, goal, s, p) \in s.open
    <2>1. k <= g[p] + Route!Heuristic(p, goal)
      BY <1>17 DEF Found
    <2> QED
      BY <1>3, <1>4, <1>14, <1>15, <2>1
  <1>18. CASE AllowsSteps(m, g, p)
    <2>1. g[c] <= g[p] + Route!StepCost(d)
      BY <1>11, <1>12, <1>18 DEF AllowsSteps
    <2> HIDE DEF g
    <2> QED
      BY <1>3, <1>8, <1>11, <1>12, <1>15, <2>1
  <1> QED
    BY <1>5, <1>16, <1>17, <1>18 DEF Cleared

\* Where the search ends it knows the shortest way to the goal, and something
\* is left exactly if there is a way.
LEMMA SearchIsShortest ==
  ASSUME NEW m, IsMap(m), NEW n \in Nat, NEW start \in Route!Cells(m), NEW goal \in Route!Cells(m),
         NEW s, SearchInv(m, n, start, goal, s), s.open = {} \/ Route!Arrives(n, goal, s)
  PROVE  /\ Known(m, n, s)[goal] = Route!Shortest(m, start)[goal]
         /\ s.open # {} <=> Route!Shortest(m, start)[goal] < Route!Infinity
  <1> DEFINE dist == Route!Shortest(m, start)
             g == Known(m, n, s)
  <1>1. dist[goal] <= g[goal]
    BY KnownIsWay
  <1>2. KnownIs(m, n, s) /\ s \in Route!States(m)
    BY StatesAre DEF SearchInv
  <1>3. dist[goal] \in 0 .. Route!Infinity /\ g[goal] \in 0 .. Route!Infinity /\ Route!Infinity \in Nat
    BY <1>2, CellsAre, ShortestIs DEF HasWays, RouteFields, KnownIs
  <1>4. Route!Heuristic(goal, goal) = 0
    BY HeuristicIs, CellsAre
  <1>5. Cleared(m, n, goal, s, goal) /\ Seen(m, n, start, goal, s, goal)
    BY DEF SearchInv
  <1>6. CASE s.open = {}
    <2>1. g[goal] = Route!Infinity
      BY <1>5, <1>6 DEF Cleared
    <2>2. dist[goal] + 1 \in Nat /\ \A e \in s.open : dist[goal] + 1 <= e.f
      BY <1>3, <1>6
    <2>3. g[goal] > dist[goal] => dist[goal] + 1 <= dist[goal] + Route!Heuristic(goal, goal)
      BY <2>2, UnknownIsFarther
    <2> HIDE DEF dist, g
    <2>4. g[goal] = dist[goal]
      BY <1>1, <1>3, <1>4, <2>3
    <2> QED
      BY <1>3, <1>6, <2>1, <2>4 DEF dist, g
  <1>7. CASE s.open # {}
    <2> DEFINE e == Route!Top(s)
    <2>1. e \in s.open /\ \A o \in s.open : e.f <= o.f
      BY <1>2, <1>7, TopIs
    <2>2. e.f \in Nat
      BY <1>2, <2>1, StatesAre
    <2>3. e.cell = goal /\ ~ (e.f > Route!Visited(n, s.cells, goal).f)
      BY <1>7 DEF Route!Arrives, Route!IsStale
    <2>4. g[goal] < Route!Infinity
      BY <2>1, <2>3 DEF SearchInv
    <2>5. Route!Visited(n, s.cells, goal).f = g[goal] + Route!Heuristic(goal, goal)
      BY <1>5, <2>4 DEF Seen
    <2>6. g[goal] > dist[goal] => e.f <= dist[goal] + Route!Heuristic(goal, goal)
      BY <2>1, <2>2, UnknownIsFarther
    <2>7. e.f >= g[goal] + Route!Heuristic(goal, goal)
      BY <2>1, <2>3 DEF SearchInv
    <2> HIDE DEF dist, g, e
    <2>8. g[goal] = dist[goal]
      BY <1>1, <1>3, <1>4, <2>2, <2>6, <2>7
    <2> QED
      BY <1>7, <2>4, <2>8 DEF dist, g
  <1> QED
    BY <1>6, <1>7

-----------------------------------------------------------------------------
(* The way back.                                                           *)

\* The search starts with what its invariant says, whatever the planner has
\* searched before.
First(m, a, start, goal) ==
  LET ready == Route!Prepare(a, m)
      first == Route!Reached(ready.generation, start, goal, 0, Route!None)
  IN  [cells |-> [ready.cells EXCEPT ![start] = first], open |-> {[f |-> first.f, cell |-> start]}]

\* Prepare makes a planner for the map, all of whose cells are unvisited.
LEMMA PrepareIs ==
  ASSUME NEW m, IsMap(m), NEW a, IsPlanner(a)
  PROVE  LET r == Route!Prepare(a, m)
         IN  /\ r = [width |-> m.width, height |-> m.height, generation |-> a.generation + 1, cells |-> r.cells,
                     gridPath |-> a.gridPath, path |-> a.path]
             /\ r.generation = a.generation + 1 /\ r.generation \in Nat
             /\ r.cells \in [Route!Cells(m) -> Route!Marks(m)]
             /\ \A c \in Route!Cells(m) : r.cells[c].generation < r.generation
  <1> DEFINE r == Route!Prepare(a, m)
             fits == a.width = m.width /\ a.height = m.height
             fresh == [c \in Route!Cells(m) |-> Route!Unvisited(0)]
             cells == IF fits THEN a.cells ELSE fresh
  <1>1. /\ a.width \in Nat /\ a.height \in Nat /\ a.generation \in Nat
        /\ a.cells \in [Route!Cells(a) -> Route!Marks(a)]
        /\ a = [width |-> a.width, height |-> a.height, generation |-> a.generation, cells |-> a.cells,
                gridPath |-> a.gridPath, path |-> a.path]
        /\ \A c \in Route!Cells(a) : a.cells[c].generation <= a.generation
    BY DEF IsPlanner
  <1>2. r = [width |-> m.width, height |-> m.height, generation |-> a.generation + 1, cells |-> cells,
             gridPath |-> a.gridPath, path |-> a.path]
    <2>1. r = [a EXCEPT !.width = m.width, !.height = m.height, !.generation = a.generation + 1, !.cells = cells]
      BY DEF Route!Prepare
    <2> HIDE DEF r, cells
    <2> QED
      BY <1>1, <2>1
  <1>3. cells \in [Route!Cells(m) -> Route!Marks(m)] /\ \A c \in Route!Cells(m) : cells[c].generation < a.generation + 1
    <2>1. CASE fits
      <3>1. Route!Cells(a) = Route!Cells(m)
        BY <2>1 DEF Route!Cells
      <3>2. Route!Marks(a) = Route!Marks(m)
        BY <3>1 DEF Route!Marks
      <3>3. \A c \in Route!Cells(m) : a.cells[c].generation \in Nat
        BY <1>1, <3>1 DEF Route!Marks
      <3>4. cells = a.cells
        BY <2>1
      <3> HIDE DEF cells, fits
      <3> QED
        BY <1>1, <3>1, <3>2, <3>3, <3>4
    <2>2. CASE ~ fits
      <3>1. Route!Infinity \in Nat
        BY CellsAre
      <3>2. Route!Unvisited(0) \in Route!Marks(m) /\ Route!Unvisited(0).generation = 0
        BY <3>1 DEF Route!Unvisited, Route!Marks
      <3>3. cells = fresh
        BY <2>2
      <3> HIDE DEF cells, fits
      <3> QED
        BY <1>1, <3>2, <3>3
    <2> QED
      BY <2>1, <2>2
  <1> HIDE DEF r, cells
  <1>4. r.cells = cells /\ r.generation = a.generation + 1
    BY <1>2
  <1> QED
    BY <1>1, <1>2, <1>3, <1>4 DEF r

\* So the invariant of the search holds of what it starts from.
LEMMA FirstIs ==
  ASSUME NEW m, IsMap(m), NEW a, IsPlanner(a), NEW start \in Route!Cells(m), NEW goal \in Route!Cells(m)
  PROVE  SearchInv(m, Route!Prepare(a, m).generation, start, goal, First(m, a, start, goal))
  <1> DEFINE old == Route!Prepare(a, m).cells
             n == Route!Prepare(a, m).generation
             s == First(m, a, start, goal)
             first == Route!Reached(n, start, goal, 0, Route!None)
             h == Known(m, n, s)
  <1>1. n \in Nat /\ old \in [Route!Cells(m) -> Route!Marks(m)] /\ \A c \in Route!Cells(m) : old[c].generation < n
    BY PrepareIs
  <1>2. s = [cells |-> [old EXCEPT ![start] = first], open |-> {[f |-> first.f, cell |-> start]}]
    BY DEF First
  <1>3. /\ Route!Infinity \in Nat /\ Route!Infinity > 0 /\ Route!Cells(m) \subseteq Int \X Int
        /\ Route!Heuristic(start, goal) \in Nat
    BY CellsAre, HeuristicIs
  <1>4. first = [generation |-> n, g |-> 0, f |-> Route!Heuristic(start, goal), parent |-> Route!None]
    <2>1. 0 + Route!Heuristic(start, goal) = Route!Heuristic(start, goal)
      BY <1>3
    <2> QED
      BY <2>1 DEF Route!Reached
  <1> HIDE DEF old, n, s, first
  <1>5. /\ first.generation = n /\ first.g = 0 /\ first.f = Route!Heuristic(start, goal) /\ first.parent = Route!None
        /\ first \in Route!Marks(m)
    BY <1>1, <1>3, <1>4 DEF Route!Marks
  <1>6. /\ s.open = {[f |-> first.f, cell |-> start]}
        /\ s.cells[start] = first /\ \A c \in Route!Cells(m) : c # start => s.cells[c] = old[c]
    BY <1>1, <1>2
  <1>7. s \in Route!States(m)
    BY <1>1, <1>2, <1>3, <1>5 DEF Route!States
  <1>8. Route!Visited(n, s.cells, start) = first
    BY <1>5, <1>6 DEF Route!Visited
  <1>9. h[start] = 0
    BY <1>5, <1>8 DEF Known
  <1>10. ASSUME NEW c \in Route!Cells(m), c # start PROVE h[c] = Route!Infinity
    <2>1. s.cells[c].generation < n /\ s.cells[c].generation \in Nat
      BY <1>1, <1>6, <1>10 DEF Route!Marks
    <2>2. Route!Visited(n, s.cells, c) = Route!Unvisited(n)
      BY <1>1, <2>1 DEF Route!Visited
    <2>3. Route!Unvisited(n).g = Route!Infinity
      BY DEF Route!Unvisited
    <2> QED
      BY <2>2, <2>3 DEF Known
  <1>11. Found(m, n, goal, s, start) = [f |-> first.f, cell |-> start]
    <2>1. h[start] + Route!Heuristic(start, goal) = first.f
      BY <1>3, <1>5, <1>9
    <2> QED
      BY <2>1 DEF Found
  <1> HIDE DEF h
  <1>12. \A c \in Route!Cells(m) : Cleared(m, n, goal, s, c)
    BY <1>6, <1>10, <1>11 DEF Cleared, h
  <1>13. \A c \in Route!Cells(m) : Seen(m, n, start, goal, s, c)
    <2>1. \A c \in Route!Cells(m) : c # start => Seen(m, n, start, goal, s, c)
      BY <1>3, <1>10 DEF Seen, h
    <2>2. first.f = h[start] + Route!Heuristic(start, goal)
      BY <1>3, <1>5, <1>9
    <2>3. Seen(m, n, start, goal, s, start)
      BY <1>5, <1>6, <1>8, <2>2 DEF Seen, h
    <2> QED
      BY <2>1, <2>3
  <1>14. \A e \in s.open : h[e.cell] < Route!Infinity /\ e.f >= h[e.cell] + Route!Heuristic(e.cell, goal)
    <2> SUFFICES ASSUME NEW e \in s.open
                 PROVE  h[e.cell] < Route!Infinity /\ e.f >= h[e.cell] + Route!Heuristic(e.cell, goal)
      OBVIOUS
    <2>1. e.cell = start /\ e.f = first.f
      BY <1>6
    <2> QED
      BY <1>3, <1>5, <1>9, <2>1
  <1>15. IsFiniteSet(s.open)
    BY <1>6, FS_Singleton
  <1>16. \A c \in Route!Cells(m) : s.cells[c].generation <= n
    <2>1. \A c \in Route!Cells(m) : old[c].generation \in Nat
      BY <1>1 DEF Route!Marks
    <2> QED
      BY <1>1, <1>5, <1>6, <2>1
  <1>17. SearchInv(m, n, start, goal, s)
    BY <1>7, <1>9, <1>12, <1>13, <1>14, <1>15, <1>16 DEF SearchInv, h
  <1> QED
    BY <1>17 DEF n, s

\* A route of steps that a field comes from.
IsTrail(m, g, start, goal, route) ==
  /\ route \in Seq(Route!Cells(m)) /\ route # <<>> /\ route[1] = start /\ route[Len(route)] = goal
  /\ \A k \in 1 .. Len(route) - 1 : ComesFrom(m, g, route[k + 1], route[k])

\* The parents lead from the goal back to the start.
LEMMA BacktrackIs ==
  ASSUME NEW m, IsMap(m), NEW n \in Nat, NEW start \in Route!Cells(m), NEW goal \in Route!Cells(m),
         NEW s, SearchInv(m, n, start, goal, s), Known(m, n, s)[goal] < Route!Infinity
  PROVE  IsTrail(m, Known(m, n, s), start, goal, Route!Backtrack(m, n, s.cells, goal))
  <1> DEFINE g == Known(m, n, s)
             S == [route : Seq(Route!Cells(m)), at : Route!Cells(m) \cup {Route!None}]
             done == {t \in S : t.at = Route!None}
             Up(t) == [route |-> <<t.at>> \o t.route,
                       at |-> IF s.cells[t.at].generation = n THEN s.cells[t.at].parent ELSE Route!None]
             step == [t \in S |-> IF t.at = Route!None THEN t ELSE Up(t)]
             f == Loop(S, done, step)
             first == [route |-> <<>>, at |-> goal]
             Part(t) ==
               /\ t.at # Route!None => g[t.at] < Route!Infinity
               /\ t.route = <<>> => t.at = goal
               /\ t.route # <<>> =>
                     /\ t.route[Len(t.route)] = goal
                     /\ t.at = Route!None => t.route[1] = start
                     /\ t.at # Route!None => ComesFrom(m, g, t.route[1], t.at)
                     /\ \A k \in 1 .. Len(t.route) - 1 : ComesFrom(m, g, t.route[k + 1], t.route[k])
             I == {t \in S : Part(t)}
             mu == [t \in I |-> IF t.at = Route!None THEN 0 ELSE g[t.at] + 1]
  <1>1. Route!Backtrack(m, n, s.cells, goal) = f[first].route
    <2> DEFINE Body(r) == [t \in S |-> IF t.at = Route!None THEN t ELSE r[Up(t)]]
    <2>1. Route!Backtrack(m, n, s.cells, goal) = (CHOOSE r : r = Body(r))[first].route
      BY DEF Route!Backtrack
    <2>2. \A r : Body(r) = [t \in S |-> IF t \in done THEN t ELSE r[step[t]]]
      <3> SUFFICES ASSUME NEW r PROVE Body(r) = [t \in S |-> IF t \in done THEN t ELSE r[step[t]]]
        OBVIOUS
      <3>1. \A t \in S : (t \in done <=> t.at = Route!None) /\ (t.at # Route!None => step[t] = Up(t))
        OBVIOUS
      <3> HIDE DEF S, done, step, Up
      <3> QED
        BY <3>1
    <2> HIDE DEF Body, S, done, step
    <2>3. (CHOOSE r : r = Body(r)) = f
      BY <2>2 DEF Loop
    <2> QED
      BY <2>1, <2>3
  <1>2. KnownIs(m, n, s)
    BY StatesAre DEF SearchInv
  <1>3. /\ Route!Infinity \in Nat /\ Route!None \notin Route!Cells(m)
        /\ \A c \in Route!Cells(m) :
              /\ g[c] \in 0 .. Route!Infinity
              /\ g[c] < Route!Infinity => s.cells[c].generation = n
              /\ s.cells[c].parent \in Route!Cells(m) \cup {Route!None}
    BY <1>2, CellsAre DEF KnownIs, Route!Marks
  <1>4. \A c \in Route!Cells(m) : Seen(m, n, start, goal, s, c)
    BY DEF SearchInv
  <1>5. ASSUME NEW t \in S, t.at # Route!None
        PROVE  LET u == Up(t)
               IN  /\ u \in S /\ u.route \in Seq(Route!Cells(m)) /\ u.route # <<>> /\ u.route[1] = t.at
                   /\ Len(u.route) = Len(t.route) + 1 /\ \A k \in 1 .. Len(t.route) : u.route[k + 1] = t.route[k]
                   /\ u.at = IF s.cells[t.at].generation = n THEN s.cells[t.at].parent ELSE Route!None
    <2>1. t.at \in Route!Cells(m) /\ t.route \in Seq(Route!Cells(m))
      BY <1>5
    <2> DEFINE q == <<t.at>> \o t.route
    <2>2. /\ q \in Seq(Route!Cells(m)) /\ Len(q) = Len(t.route) + 1 /\ q[1] = t.at
          /\ \A k \in 1 .. Len(t.route) : q[k + 1] = t.route[k]
      BY <2>1
    <2>3. Len(t.route) \in Nat
      BY <2>1
    <2> HIDE DEF q
    <2>4. q # <<>>
      BY <2>2, <2>3
    <2>5. Up(t).route = q /\ Up(t).at = IF s.cells[t.at].generation = n THEN s.cells[t.at].parent ELSE Route!None
      BY DEF q
    <2>6. Up(t) \in S
      BY <1>3, <2>1, <2>2 DEF q
    <2> HIDE DEF Up
    <2> QED
      BY <2>2, <2>4, <2>5, <2>6
  <1>6. step \in [S -> S]
    <2> HIDE DEF Up
    <2> QED
      BY <1>5
  <1> HIDE DEF g
  <1>7. first \in I
    <2>1. first \in S /\ first.route = <<>> /\ first.at = goal /\ g[goal] < Route!Infinity
      BY DEF g
    <2> HIDE DEF first
    <2> QED
      BY <2>1
  <1>8. mu \in [I -> Nat]
    BY <1>3
  <1>9. ASSUME NEW t \in I, t \notin done PROVE step[t] \in I /\ mu[step[t]] < mu[t]
    <2> DEFINE u == Up(t)
    <2>1. t \in S /\ t.at # Route!None /\ Part(t) /\ step[t] = u /\ t.at \in Route!Cells(m) /\ t.route \in Seq(Route!Cells(m))
      BY <1>9
    <2>2. g[t.at] < Route!Infinity
      BY <2>1
    <2>3. /\ u \in S /\ u.route \in Seq(Route!Cells(m)) /\ u.route # <<>> /\ u.route[1] = t.at
          /\ Len(u.route) = Len(t.route) + 1 /\ \A k \in 1 .. Len(t.route) : u.route[k + 1] = t.route[k]
          /\ u.at = s.cells[t.at].parent
      <3> HIDE DEF S, Up
      <3> QED
        BY <1>3, <1>5, <2>1, <2>2
    <2>4. Seen(m, n, start, goal, s, t.at)
      BY <1>4, <2>1
    <2>5. /\ t.at = start => u.at = Route!None
          /\ t.at # start => ComesFrom(m, g, t.at, u.at)
      BY <2>2, <2>3, <2>4 DEF Seen, g
    <2>6. t.at # start =>
            u.at \in Route!Cells(m) /\ u.at # Route!None /\ g[u.at] < g[t.at] /\ g[u.at] < Route!Infinity
      <3> SUFFICES ASSUME t.at # start
                   PROVE  u.at \in Route!Cells(m) /\ u.at # Route!None /\ g[u.at] < g[t.at] /\ g[u.at] < Route!Infinity
        OBVIOUS
      <3> HIDE DEF u, S, I, done
      <3>1. u.at \in Route!Cells(m) /\ StepFrom(u.at, t.at) \in Route!Around
            /\ g[u.at] + Route!StepCost(StepFrom(u.at, t.at)) <= g[t.at]
        BY <2>5 DEF ComesFrom
      <3>2. Route!StepCost(StepFrom(u.at, t.at)) \in {1000, 1414}
        BY <3>1, StepsCost
      <3> QED
        BY <1>3, <2>1, <2>2, <3>1, <3>2
    <2> HIDE DEF u
    <2>7. u.route[Len(u.route)] = goal
      <3>1. CASE t.route = <<>>
        BY <2>1, <2>3, <3>1
      <3>2. CASE t.route # <<>>
        <4>1. Len(t.route) \in 1 .. Len(t.route) /\ t.route[Len(t.route)] = goal
          BY <2>1, <3>2
        <4> HIDE DEF I, S, done, Part
        <4> QED
          BY <2>3, <4>1
      <3> QED
        BY <3>1, <3>2
    <2>8. ASSUME NEW k \in 1 .. Len(u.route) - 1 PROVE ComesFrom(m, g, u.route[k + 1], u.route[k])
      <3>1. Len(t.route) \in Nat /\ k \in 1 .. Len(t.route) /\ u.route[k + 1] = t.route[k]
        BY <2>1, <2>3
      <3>2. CASE k = 1
        <4>1. t.route # <<>>
          BY <3>1
        <4>2. ComesFrom(m, g, t.route[1], t.at)
          BY <2>1, <4>1
        <4> QED
          BY <2>3, <3>1, <3>2, <4>2
      <3>3. CASE k # 1
        <4>1. t.route # <<>> /\ k - 1 \in 1 .. Len(t.route) - 1 /\ k - 1 \in 1 .. Len(t.route) /\ (k - 1) + 1 = k
          BY <3>1, <3>3
        <4>2. ComesFrom(m, g, t.route[(k - 1) + 1], t.route[k - 1])
          BY <2>1, <4>1
        <4>3. u.route[(k - 1) + 1] = t.route[k - 1]
          BY <2>3, <4>1
        <4> QED
          BY <3>1, <4>1, <4>2, <4>3
      <3> QED
        BY <3>2, <3>3
    <2>9. Part(u)
      <3>1. t.at = start => u.route[1] = start
        BY <2>3
      <3> HIDE DEF I, S, done
      <3> QED
        BY <2>3, <2>5, <2>6, <2>7, <2>8, <3>1
    <2>10. u \in I
      BY <2>3, <2>9
    <2>11. mu[u] < mu[t]
      <3>1. mu[t] = g[t.at] + 1 /\ mu[u] = IF u.at = Route!None THEN 0 ELSE g[u.at] + 1
        BY <2>1, <2>10
      <3> HIDE DEF mu, I, S, done, Part
      <3>2. CASE t.at = start
        BY <1>3, <2>1, <2>5, <3>1, <3>2
      <3>3. CASE t.at # start
        BY <1>3, <2>1, <2>6, <3>1, <3>3
      <3> QED
        BY <3>2, <3>3
    <2> QED
      BY <2>1, <2>10, <2>11
  <1>10. \A t \in I : f[t] \in I /\ f[t] \in done
    <2>1. I \in SUBSET S
      OBVIOUS
    <2>2. f = Loop(S, done, step)
      OBVIOUS
    <2>3. \A t \in I : t \notin done => step[t] \in I /\ mu[step[t]] < mu[t]
      BY <1>9
    <2> HIDE DEF S, done, step, f, I, mu
    <2> QED
      BY <1>6, <1>8, <2>1, <2>2, <2>3, LoopEnds
  <1> DEFINE t == f[first]
  <1>11. t \in I /\ t \in done
    BY <1>7, <1>10
  <1> HIDE DEF f, t
  <1>12. /\ t.route \in Seq(Route!Cells(m)) /\ t.route # <<>> /\ t.route[1] = start /\ t.route[Len(t.route)] = goal
         /\ \A k \in 1 .. Len(t.route) - 1 : ComesFrom(m, g, t.route[k + 1], t.route[k])
    BY <1>3, <1>11
  <1> QED
    BY <1>1, <1>12 DEF IsTrail, t, g

\* What a route of such steps costs lies between what its steps allow and what
\* they come from.
LEMMA CostIs ==
  ASSUME NEW m, IsMap(m), NEW start \in Route!Cells(m), NEW goal \in Route!Cells(m),
         NEW g \in RouteFields(m), g[start] = 0, NEW dist \in RouteFields(m), dist[start] = 0,
         \A c \in Route!Cells(m) : AllowsSteps(m, dist, c),
         NEW route, IsTrail(m, g, start, goal, route), g[goal] = dist[goal]
  PROVE  Route!IsLegal(m, route) /\ Route!CostOf(route) = dist[goal]
  <1> DEFINE n == Len(route) - 1
             step == [x \in (1 .. n) \X Nat |-> x[2] + Route!StepCost(Route!StepAt(route, x[1]))]
             Body(h) == [k \in 0 .. n |-> IF k = 0 THEN 0 ELSE h[k - 1] + Route!StepCost(Route!StepAt(route, k))]
  <1>1. /\ route \in Seq(Route!Cells(m)) /\ route # <<>> /\ route[1] = start /\ route[Len(route)] = goal
        /\ n \in Nat /\ \A k \in 0 .. n : route[k + 1] \in Route!Cells(m)
    BY DEF IsTrail
  <1>2. /\ Route!Cells(m) \subseteq Int \X Int /\ Route!Infinity \in Nat
        /\ \A c \in Route!Cells(m) : g[c] \in 0 .. Route!Infinity /\ dist[c] \in 0 .. Route!Infinity
    BY CellsAre DEF RouteFields
  <1>3. ASSUME NEW k \in 1 .. n
        PROVE  /\ Route!StepAt(route, k) \in Route!Around /\ Route!MayStep(m, route[k], Route!StepAt(route, k))
               /\ Route!StepCost(Route!StepAt(route, k)) \in Nat
               /\ g[route[k]] + Route!StepCost(Route!StepAt(route, k)) <= g[route[k + 1]]
               /\ dist[route[k + 1]] <= dist[route[k]] + Route!StepCost(Route!StepAt(route, k))
    <2> DEFINE c == route[k]
               x == route[k + 1]
    <2>1. c \in Route!Cells(m) /\ x \in Route!Cells(m)
      BY <1>1
    <2>2. ComesFrom(m, g, x, c)
      BY DEF IsTrail
    <2>3. Route!StepAt(route, k) = StepFrom(c, x)
      BY DEF Route!StepAt, StepFrom
    <2> HIDE DEF c, x
    <2>4. Route!StepCost(StepFrom(c, x)) \in Nat /\ Route!Shift(c, StepFrom(c, x)) = x
      BY <1>2, <2>1, <2>2, StepsCost, StepsLead DEF ComesFrom
    <2>5. dist[x] <= dist[c] + Route!StepCost(StepFrom(c, x))
      BY <2>1, <2>2, <2>4 DEF ComesFrom, AllowsSteps
    <2> QED
      BY <2>2, <2>3, <2>4, <2>5 DEF ComesFrom, c, x
  <1> HIDE DEF n
  <1>4. step \in [(1 .. n) \X Nat -> Nat]
    <2>1. \A x \in (1 .. n) \X Nat : x[1] \in 1 .. n /\ x[2] \in Nat
      OBVIOUS
    <2>2. \A x \in (1 .. n) \X Nat : x[2] + Route!StepCost(Route!StepAt(route, x[1])) \in Nat
      BY <1>3, <2>1
    <2> QED
      BY <2>2
  <1>5. \E h : h = Body(h)
    <2>1. PICK h : Loops(h, n, Nat, 0, step)
      BY <1>1, <1>4, Recursion
    <2>2. h \in [0 .. n -> Nat] /\ h[0] = 0 /\ \A i \in 1 .. n : h[i] = step[<<i, h[i - 1]>>]
      BY <2>1 DEF Loops
    <2>3. \A i \in 0 .. n : h[i] = IF i = 0 THEN 0 ELSE h[i - 1] + Route!StepCost(Route!StepAt(route, i))
      <3> SUFFICES ASSUME NEW i \in 0 .. n, i # 0 PROVE h[i] = h[i - 1] + Route!StepCost(Route!StepAt(route, i))
        BY <2>2
      <3>1. i \in 1 .. n /\ i - 1 \in 0 .. n
        BY <1>1
      <3>2. <<i, h[i - 1]>> \in (1 .. n) \X Nat
        BY <2>2, <3>1
      <3>3. step[<<i, h[i - 1]>>] = h[i - 1] + Route!StepCost(Route!StepAt(route, i))
        BY <3>2
      <3> QED
        BY <2>2, <3>1, <3>3
    <2>4. h = Body(h)
      BY <2>2, <2>3
    <2> QED
      BY <2>4
  <1> DEFINE cost == CHOOSE h : h = Body(h)
  <1>6. Route!CostOf(route) = cost[n]
    BY DEF Route!CostOf, n
  <1>7. cost = Body(cost)
    <2> HIDE DEF Body
    <2> QED
      BY <1>5
  <1> HIDE DEF cost
  <1>8. cost[0] = 0 /\ \A k \in 1 .. n : cost[k] = cost[k - 1] + Route!StepCost(Route!StepAt(route, k))
    <2>1. 0 \in 0 .. n /\ \A k \in 1 .. n : k \in 0 .. n /\ k # 0
      BY <1>1
    <2>2. \A k \in 0 .. n : cost[k] = IF k = 0 THEN 0 ELSE cost[k - 1] + Route!StepCost(Route!StepAt(route, k))
      BY <1>7
    <2> HIDE DEF Body
    <2> QED
      BY <2>1, <2>2
  <1> DEFINE P == {k \in 0 .. n : cost[k] \in Nat /\ dist[route[k + 1]] <= cost[k] /\ cost[k] <= g[route[k + 1]]}
  <1>9. 0 .. n \subseteq P
    <2>1. 0 \in P
      <3>1. route[0 + 1] = start
        BY <1>1
      <3> QED
        BY <1>1, <1>8, <3>1
    <2>2. ASSUME NEW i \in 0 .. n, i # n, i \in P PROVE i + 1 \in P
      <3> DEFINE j == i + 1
                 w == Route!StepCost(Route!StepAt(route, j))
      <3>1. j \in 1 .. n /\ j \in 0 .. n /\ j - 1 = i
        BY <1>1, <2>2
      <3>2. cost[i] \in Nat /\ dist[route[j]] <= cost[i] /\ cost[i] <= g[route[j]]
        BY <2>2
      <3>3. cost[j] = cost[i] + w
        BY <1>8, <3>1
      <3>4. w \in Nat /\ g[route[j]] + w <= g[route[j + 1]] /\ dist[route[j + 1]] <= dist[route[j]] + w
        BY <1>3, <3>1
      <3>5. route[j] \in Route!Cells(m) /\ route[j + 1] \in Route!Cells(m)
        BY <1>1, <3>1
      <3> HIDE DEF j, w
      <3>6. cost[j] \in Nat /\ dist[route[j + 1]] <= cost[j] /\ cost[j] <= g[route[j + 1]]
        BY <1>2, <3>2, <3>3, <3>4, <3>5
      <3>7. j \in P
        BY <3>1, <3>6
      <3> QED
        BY <3>7 DEF j
    <2> HIDE DEF P
    <2> QED
      BY <1>1, <2>1, <2>2, Induction
  <1>10. n \in P /\ n + 1 = Len(route)
    BY <1>1, <1>9 DEF n
  <1>11. cost[n] = dist[goal]
    BY <1>1, <1>2, <1>10, SMTT(30)
  <1>12. Route!IsLegal(m, route)
    BY <1>3 DEF Route!IsLegal, n
  <1> QED
    BY <1>6, <1>11, <1>12

\* What the search finds, for a goal that is free.
EndOf(m, a, start, aim) == Route!Explore(m, Route!Prepare(a, m).generation, aim, First(m, a, start, aim))
RouteTo(m, a, start, aim) ==
  Route!Backtrack(m, Route!Prepare(a, m).generation, EndOf(m, a, start, aim).cells, aim)

\* It ends at the aim exactly if there is a way, over a shortest one.
LEMMA SearchLeads ==
  ASSUME NEW m, IsMap(m), NEW a, IsPlanner(a), NEW start \in Route!Cells(m), NEW aim \in Route!Cells(m)
  PROVE  /\ EndOf(m, a, start, aim).cells \in [Route!Cells(m) -> Route!Marks(m)]
         /\ \A c \in Route!Cells(m) : EndOf(m, a, start, aim).cells[c].generation <= Route!Prepare(a, m).generation
         /\ EndOf(m, a, start, aim).open # {} <=> Route!Shortest(m, start)[aim] < Route!Infinity
         /\ EndOf(m, a, start, aim).open # {} =>
               LET route == RouteTo(m, a, start, aim)
               IN  /\ route \in Seq(Route!Cells(m)) /\ route # <<>> /\ route[1] = start /\ route[Len(route)] = aim
                   /\ Route!IsLegal(m, route) /\ Route!CostOf(route) = Route!Shortest(m, start)[aim]
  <1> DEFINE n == Route!Prepare(a, m).generation
             first == First(m, a, start, aim)
             done == EndOf(m, a, start, aim)
             route == RouteTo(m, a, start, aim)
             dist == Route!Shortest(m, start)
             g == Known(m, n, done)
  <1>1. n \in Nat /\ done = Route!Explore(m, n, aim, first) /\ route = Route!Backtrack(m, n, done.cells, aim)
    BY PrepareIs DEF EndOf, RouteTo
  <1>2. SearchInv(m, n, start, aim, first)
    BY FirstIs
  <1> HIDE DEF n, first, done, route
  <1>3. SearchInv(m, n, start, aim, done) /\ (done.open = {} \/ Route!Arrives(n, aim, done))
    BY <1>1, <1>2, ExploreEnds
  <1>4. g[aim] = dist[aim] /\ (done.open # {} <=> dist[aim] < Route!Infinity)
    BY <1>1, <1>3, SearchIsShortest
  <1>5. done \in Route!States(m) /\ g[start] = 0 /\ g \in RouteFields(m)
    <2>1. done \in Route!States(m) /\ g[start] = 0
      BY <1>3 DEF SearchInv
    <2>2. KnownIs(m, n, done)
      BY <1>1, <2>1, StatesAre
    <2> QED
      BY <2>1, <2>2 DEF KnownIs
  <1>6. dist \in RouteFields(m) /\ dist[start] = 0 /\ \A c \in Route!Cells(m) : AllowsSteps(m, dist, c)
    BY ShortestIs DEF HasWays
  <1>7. ASSUME done.open # {}
        PROVE  /\ route \in Seq(Route!Cells(m)) /\ route # <<>> /\ route[1] = start /\ route[Len(route)] = aim
               /\ Route!IsLegal(m, route) /\ Route!CostOf(route) = dist[aim]
    <2>1. g[aim] < Route!Infinity
      BY <1>4, <1>7
    <2>2. IsTrail(m, g, start, aim, route)
      BY <1>1, <1>3, <2>1, BacktrackIs
    <2> HIDE DEF dist, g
    <2>3. Route!IsLegal(m, route) /\ Route!CostOf(route) = dist[aim]
      BY <1>4, <1>5, <1>6, <2>2, CostIs
    <2> QED
      BY <2>2, <2>3 DEF IsTrail
  <1> QED
    <2>1. /\ EndOf(m, a, start, aim).cells \in [Route!Cells(m) -> Route!Marks(m)]
          /\ \A c \in Route!Cells(m) : EndOf(m, a, start, aim).cells[c].generation <= Route!Prepare(a, m).generation
      BY <1>3, <1>5 DEF SearchInv, Route!States, done, n
    <2>2. EndOf(m, a, start, aim).open # {} <=> Route!Shortest(m, start)[aim] < Route!Infinity
      BY <1>4 DEF done
    <2>3. EndOf(m, a, start, aim).open # {} =>
               LET r == RouteTo(m, a, start, aim)
               IN  /\ r \in Seq(Route!Cells(m)) /\ r # <<>> /\ r[1] = start /\ r[Len(r)] = aim
                   /\ Route!IsLegal(m, r) /\ Route!CostOf(r) = Route!Shortest(m, start)[aim]
      BY <1>7 DEF done, route
    <2> QED
      BY <2>1, <2>2, <2>3

-----------------------------------------------------------------------------
(* The simplification of a route.                                          *)

\* The cell i and j steps along the axes towards to, and how far it is off the
\* line, in parts of the longer axis.
Along(a, b, i) == IF a < b THEN a + i ELSE a - i
Gap(a, b) == Route!Abs(b - a)
On(from, to, i, j) == <<Along(from[1], to[1], i), Along(from[2], to[2], j)>>
Wide(from, to) == Gap(from[1], to[1])
High(from, to) == Gap(from[2], to[2])
Length(from, to) == IF Wide(from, to) > High(from, to) THEN Wide(from, to) ELSE High(from, to)
Touches(m, from, to, k) ==
  \E c \in Route!Cells(m) :
     /\ ~ Route!Occupied(m, c)
     /\ 2 * Route!Abs(Length(from, to) * (c[1] - from[1]) - k * (to[1] - from[1])) <= Length(from, to)
     /\ 2 * Route!Abs(Length(from, to) * (c[2] - from[2]) - k * (to[2] - from[2])) <= Length(from, to)

\* Steps along an axis and the distance they cover.
LEMMA GapIs ==
  ASSUME NEW a \in Int, NEW b \in Int
  PROVE  /\ Gap(a, b) \in Nat /\ Along(a, b, Gap(a, b)) = b /\ Along(a, b, 0) = a
         /\ Route!Abs(Gap(a, b)) = Gap(a, b)
         /\ \A i \in Nat : Along(a, b, i) \in Int /\ (Along(a, b, i) = b => i = Gap(a, b)) /\ Gap(a, Along(a, b, i)) = i
  BY SMT DEF Gap, Along, Route!Abs

\* A step along an axis covers as many cells as it counts.
LEMMA AlongIs ==
  ASSUME NEW a \in Int, NEW b \in Int, NEW i \in Nat
  PROVE  Along(a, b, i) \in Int /\ Gap(a, Along(a, b, i)) = i
  BY GapIs

\* How far along and off the line a cell is does not depend on the direction.
Deviation(a, b, n, k, x) == Route!Abs(n * (x - a) - k * (b - a))

\* It is the same for a line that runs down as for one that runs up.
LEMMA DeviationIs ==
  ASSUME NEW a \in Int, NEW b \in Int, NEW i \in Nat, NEW n \in Nat, NEW k \in Nat
  PROVE  Deviation(a, b, n, k, Along(a, b, i)) = Route!Abs(n * i - k * Gap(a, b))
  <1> SUFFICES Route!Abs(n * (Along(a, b, i) - a) - k * (b - a)) = Route!Abs(n * i - k * Gap(a, b))
    BY DEF Deviation
  <1>1. CASE a < b
    <2>1. Along(a, b, i) - a = i /\ Gap(a, b) = b - a
      BY <1>1 DEF Along, Gap, Route!Abs
    <2> QED
      BY <2>1
  <1>2. CASE ~ (a < b)
    <2>1. Along(a, b, i) - a = -i /\ Gap(a, b) = a - b /\ b - a = -(a - b) /\ a - b \in Nat
      BY <1>2 DEF Along, Gap, Route!Abs
    <2>2. \A g \in Nat : n * (-i) - k * (-g) = -(n * i - k * g) /\ n * i - k * g \in Int
      OBVIOUS
    <2>3. n * (-i) - k * (-(a - b)) = -(n * i - k * (a - b)) /\ n * i - k * (a - b) \in Int
      BY <2>1, <2>2
    <2>4. \A x \in Int : Route!Abs(-x) = Route!Abs(x)
      BY DEF Route!Abs
    <2> QED
      BY <2>1, <2>3, <2>4
  <1> QED
    BY <1>1, <1>2

\* A leg is clear if the line touches an unoccupied cell at every step.
LEMMA ClearIs ==
  ASSUME NEW m, NEW from \in Int \X Int, NEW to \in Int \X Int
  PROVE  Length(from, to) \in Nat /\ (Route!IsClear(m, from, to) <=> \A k \in 0 .. Length(from, to) : Touches(m, from, to, k))
  <1>1. Route!Abs(to[1] - from[1]) = Wide(from, to) /\ Route!Abs(to[2] - from[2]) = High(from, to)
    BY DEF Wide, High, Gap
  <1>2. Wide(from, to) \in Nat /\ High(from, to) \in Nat
    BY GapIs DEF Wide, High
  <1> QED
    BY <1>1, <1>2 DEF Route!IsClear, Touches, Length

\* A cell of the line that is no more than half a cell off it.
Off(from, to, i, j) == j * Wide(from, to) - i * High(from, to)
Count(from, to, i, j) == IF Wide(from, to) >= High(from, to) THEN i ELSE j

\* It is one the line touches.
LEMMA NearTouches ==
  ASSUME NEW m, NEW from \in Int \X Int, NEW to \in Int \X Int, NEW i \in Nat, NEW j \in Nat,
         On(from, to, i, j) \in Route!Cells(m), ~ Route!Occupied(m, On(from, to, i, j)),
         2 * Off(from, to, i, j) <= Length(from, to), -Length(from, to) <= 2 * Off(from, to, i, j)
  PROVE  Touches(m, from, to, Count(from, to, i, j))
  <1> DEFINE w == Wide(from, to)
             h == High(from, to)
             n == Length(from, to)
             c == On(from, to, i, j)
             k == Count(from, to, i, j)
             o == Off(from, to, i, j)
  <1>1. w \in Nat /\ h \in Nat /\ n \in Nat /\ k \in Nat
    BY GapIs DEF Wide, High, Length, Count
  <1>2. /\ Route!Abs(n * (c[1] - from[1]) - k * (to[1] - from[1])) = Route!Abs(n * i - k * w)
        /\ Route!Abs(n * (c[2] - from[2]) - k * (to[2] - from[2])) = Route!Abs(n * j - k * h)
    <2>1. c[1] = Along(from[1], to[1], i) /\ c[2] = Along(from[2], to[2], j)
      BY DEF On
    <2>2. w = Gap(from[1], to[1]) /\ h = Gap(from[2], to[2])
      BY DEF Wide, High
    <2>3. from[1] \in Int /\ from[2] \in Int /\ to[1] \in Int /\ to[2] \in Int
      OBVIOUS
    <2> HIDE DEF w, h, n, k, c
    <2>4. Deviation(from[1], to[1], n, k, Along(from[1], to[1], i)) = Route!Abs(n * i - k * Gap(from[1], to[1]))
      <3>1. PICK x \in Int, y \in Int : from[1] = x /\ to[1] = y
        BY <2>3
      <3>2. Deviation(x, y, n, k, Along(x, y, i)) = Route!Abs(n * i - k * Gap(x, y))
        BY <1>1, DeviationIs
      <3> QED
        BY <3>1, <3>2
    <2>5. Deviation(from[2], to[2], n, k, Along(from[2], to[2], j)) = Route!Abs(n * j - k * Gap(from[2], to[2]))
      <3>1. PICK x \in Int, y \in Int : from[2] = x /\ to[2] = y
        BY <2>3
      <3>2. Deviation(x, y, n, k, Along(x, y, j)) = Route!Abs(n * j - k * Gap(x, y))
        BY <1>1, DeviationIs
      <3> QED
        BY <3>1, <3>2
    <2> QED
      BY <2>1, <2>2, <2>4, <2>5 DEF Deviation
  <1>3. o = j * w - i * h /\ o \in Int
    BY <1>1 DEF Off
  <1>4. \A x \in Int : Route!Abs(-x) = Route!Abs(x) /\ (2 * x <= n /\ -n <= 2 * x => 2 * Route!Abs(x) <= n)
    <2> HIDE DEF n
    <2> QED
      BY <1>1 DEF Route!Abs
  <1>5. Route!Abs(0) = 0
    BY DEF Route!Abs
  <1>6. 2 * Route!Abs(n * i - k * w) <= n /\ 2 * Route!Abs(n * j - k * h) <= n
    <2>1. CASE w >= h
      <3>1. n = w /\ k = i
        BY <1>1, <2>1 DEF Length, Count
      <3>2. 2 * Route!Abs(o) <= n
        BY <1>3, <1>4
      <3> HIDE DEF n, k, w, h, o
      <3>3. n * i - k * w = 0 /\ n * j - k * h = o
        BY <1>1, <1>3, <3>1
      <3> QED
        BY <1>1, <1>5, <3>2, <3>3
    <2>2. CASE ~ (w >= h)
      <3>1. n = h /\ k = j
        BY <1>1, <2>2 DEF Length, Count
      <3>2. 2 * Route!Abs(-o) <= n
        BY <1>3, <1>4
      <3> HIDE DEF n, k, w, h, o
      <3>3. n * j - k * h = 0 /\ n * i - k * w = -o
        BY <1>1, <1>3, <3>1
      <3> QED
        BY <1>1, <1>5, <3>2, <3>3
    <2> QED
      BY <2>1, <2>2
  <1> QED
    BY <1>2, <1>6 DEF Touches

\* A step of Bresenham's line stays within half a cell and always goes along
\* the longer axis.
LEMMA BresenhamIs ==
  ASSUME NEW w \in Nat, NEW h \in Nat, NEW n \in Nat, n = IF w > h THEN w ELSE h, n > 0,
         NEW i \in Nat, NEW j \in Nat,
         2 * (j * w - i * h) <= n, -n <= 2 * (j * w - i * h), w = h => i = j
  PROVE  LET err == j * w - i * h + w - h
             onX == 2 * err > -h
             onY == 2 * err < w
             p == IF onX THEN i + 1 ELSE i
             q == IF onY THEN j + 1 ELSE j
         IN  /\ w >= h => onX
             /\ w < h => onY
             /\ 2 * (q * w - p * h) <= n /\ -n <= 2 * (q * w - p * h) /\ (w = h => p = q)
             /\ err - (IF onX THEN h ELSE 0) + (IF onY THEN w ELSE 0) = q * w - p * h + w - h
  <1> DEFINE a == j * w
             b == i * h
             o == a - b
             err == o + w - h
             onX == 2 * err > -h
             onY == 2 * err < w
             p == IF onX THEN i + 1 ELSE i
             q == IF onY THEN j + 1 ELSE j
  <1>1. a \in Nat /\ b \in Nat /\ (j + 1) * w = a + w /\ (i + 1) * h = b + h
    OBVIOUS
  <1>2. q * w = (IF onY THEN a + w ELSE a) /\ p * h = (IF onX THEN b + h ELSE b)
    BY <1>1
  <1>3. w = h /\ i = j => a = b
    OBVIOUS
  <1>4. 2 * (a - b) <= n /\ -n <= 2 * (a - b)
    OBVIOUS
  <1>5. /\ w >= h => onX
        /\ w < h => onY
        /\ w = h => onX /\ onY
    <2> HIDE DEF a, b
    <2> QED
      BY <1>1, <1>3, <1>4
  <1> DEFINE A == IF onY THEN a + w ELSE a
             B == IF onX THEN b + h ELSE b
  <1>6. 2 * (A - B) <= n /\ -n <= 2 * (A - B)
        /\ err - (IF onX THEN h ELSE 0) + (IF onY THEN w ELSE 0) = A - B + w - h
    <2> HIDE DEF a, b
    <2> QED
      BY <1>1, <1>3, <1>4, <1>5
  <1>7. w = h => p = q
    BY <1>5
  <1> QED
    BY <1>2, <1>5, <1>6, <1>7

\* A factor that is greater makes a product that is greater by the other.
LEMMA TimesGrows ==
  ASSUME NEW x \in Nat, NEW y \in Nat, NEW z \in Nat, x > y
  PROVE  x * z >= z * y + z
  <1>1. x - y - 1 \in Nat /\ (x - y - 1) * z \in Nat
    OBVIOUS
  <1>2. x * z = z * y + z + (x - y - 1) * z /\ z * y + z \in Nat
    OBVIOUS
  <1> QED
    BY <1>1, <1>2

\* A line of sight passes over unoccupied cells only.
LEMMA SightIsClear ==
  ASSUME NEW m, IsMap(m), NEW from \in Route!Cells(m), NEW to \in Route!Cells(m), Route!HasLineOfSight(m, from, to)
  PROVE  Route!IsClear(m, from, to)
  <1> DEFINE w == Wide(from, to)
             h == High(from, to)
             n == Length(from, to)
             S == [at : Int \X Int, err : Int]
             done == {s \in S : Route!Closed(m, s.at) \/ s.at = to}
             sx == IF from[1] < to[1] THEN 1 ELSE -1
             sy == IF from[2] < to[2] THEN 1 ELSE -1
             OnX(s) == 2 * s.err > -h
             OnY(s) == 2 * s.err < w
             Go(s) == [at |-> Route!Shift(s.at, <<IF OnX(s) THEN sx ELSE 0, IF OnY(s) THEN sy ELSE 0>>),
                       err |-> s.err - (IF OnX(s) THEN h ELSE 0) + (IF OnY(s) THEN w ELSE 0)]
             step == [s \in S |-> Go(s)]
             f == Loop(S, done, step)
             first == [at |-> from, err |-> w - h]
             At(s, i, j) ==
               /\ s.at = On(from, to, i, j) /\ s.err = Off(from, to, i, j) + w - h
               /\ 2 * Off(from, to, i, j) <= n /\ -n <= 2 * Off(from, to, i, j) /\ (w = h => i = j)
               /\ Count(from, to, i, j) <= n
               /\ \A k \in Nat : k < Count(from, to, i, j) => Touches(m, from, to, k)
             I == {s \in S : \E i, j \in Nat : At(s, i, j)}
             Done(s) == IF w >= h THEN Gap(from[1], s.at[1]) ELSE Gap(from[2], s.at[2])
             mu == [s \in I |-> n - Done(s)]
  <1>1. /\ Route!Cells(m) \subseteq Int \X Int /\ from \in Int \X Int /\ to \in Int \X Int
        /\ from[1] \in Int /\ from[2] \in Int /\ to[1] \in Int /\ to[2] \in Int
    BY CellsAre
  <1>2. w \in Nat /\ h \in Nat /\ n \in Nat /\ n = IF w > h THEN w ELSE h
    BY <1>1, GapIs DEF Wide, High, Length
  <1>3. /\ Route!Abs(to[1] - from[1]) = w /\ Route!Abs(to[2] - from[2]) = h
    BY DEF Wide, High, Gap
  <1>4. ~ Route!Closed(m, f[first].at)
    <2> DEFINE X(s) == 2 * s.err > -Route!Abs(to[2] - from[2])
               Y(s) == 2 * s.err < Route!Abs(to[1] - from[1])
               Next(s) == [at |-> Route!Shift(s.at, <<IF X(s) THEN sx ELSE 0, IF Y(s) THEN sy ELSE 0>>),
                           err |-> s.err - (IF X(s) THEN Route!Abs(to[2] - from[2]) ELSE 0)
                                         + (IF Y(s) THEN Route!Abs(to[1] - from[1]) ELSE 0)]
               Body(r) == [s \in S |-> IF Route!Closed(m, s.at) \/ s.at = to THEN s ELSE r[Next(s)]]
               begin == [at |-> from, err |-> Route!Abs(to[1] - from[1]) - Route!Abs(to[2] - from[2])]
    <2>1. ~ Route!Closed(m, (CHOOSE r : r = Body(r))[begin].at)
      BY DEF Route!HasLineOfSight
    <2>4. begin = first /\ \A s : Next(s) = Go(s)
      BY <1>3
    <2> HIDE DEF Next, begin
    <2>2. \A r : Body(r) = [s \in S |-> IF s \in done THEN s ELSE r[step[s]]]
      <3> SUFFICES ASSUME NEW r PROVE Body(r) = [s \in S |-> IF s \in done THEN s ELSE r[step[s]]]
        OBVIOUS
      <3>1. \A s \in S : (s \in done <=> Route!Closed(m, s.at) \/ s.at = to) /\ step[s] = Next(s)
        BY <2>4
      <3> HIDE DEF S, done, step, Go
      <3> QED
        BY <3>1
    <2> HIDE DEF Body, S, done, step
    <2>3. (CHOOSE r : r = Body(r)) = f
      BY <2>2 DEF Loop
    <2> QED
      BY <2>1, <2>3, <2>4
  <1> HIDE DEF w, h, n
  <1>5. step \in [S -> S]
    <2> SUFFICES ASSUME NEW s \in S PROVE Go(s) \in S
      OBVIOUS
    <2>1. s.at \in Int \X Int /\ s.err \in Int
      OBVIOUS
    <2> HIDE DEF S
    <2>2. Route!Shift(s.at, <<IF OnX(s) THEN sx ELSE 0, IF OnY(s) THEN sy ELSE 0>>) \in Int \X Int
      <3>1. s.at[1] \in Int /\ s.at[2] \in Int /\ (IF OnX(s) THEN sx ELSE 0) \in Int /\ (IF OnY(s) THEN sy ELSE 0) \in Int
        BY <2>1
      <3> QED
        BY <3>1 DEF Route!Shift
    <2>3. s.err - (IF OnX(s) THEN h ELSE 0) + (IF OnY(s) THEN w ELSE 0) \in Int
      BY <1>2, <2>1
    <2> QED
      BY <2>2, <2>3 DEF S
  <1>6. \A i, j \in Nat : Off(from, to, i, j) = j * w - i * h /\ Off(from, to, i, j) \in Int
                          /\ Count(from, to, i, j) = IF w >= h THEN i ELSE j
    BY <1>2 DEF Off, Count, w, h
  <1>7. \A i, j \in Nat : On(from, to, i, j) = <<Along(from[1], to[1], i), Along(from[2], to[2], j)>>
                          /\ Gap(from[1], On(from, to, i, j)[1]) = i /\ Gap(from[2], On(from, to, i, j)[2]) = j
    <2> SUFFICES ASSUME NEW i \in Nat, NEW j \in Nat
                 PROVE  /\ Gap(from[1], Along(from[1], to[1], i)) = i
                        /\ Gap(from[2], Along(from[2], to[2], j)) = j
      BY DEF On
    <2> QED
      BY <1>1, AlongIs
  <1>8. On(from, to, w, h) = to /\ \A i, j \in Nat : On(from, to, i, j) = to => i = w /\ j = h
    <2>1. to = <<to[1], to[2]>>
      BY <1>1
    <2>2. w = Gap(from[1], to[1]) /\ h = Gap(from[2], to[2])
      BY DEF w, h, Wide, High
    <2>3. On(from, to, w, h) = to
      <3>1. Along(from[1], to[1], w) = to[1] /\ Along(from[2], to[2], h) = to[2]
        BY <1>1, <2>2, GapIs
      <3> QED
        BY <2>1, <3>1 DEF On
    <2>4. ASSUME NEW i \in Nat, NEW j \in Nat, On(from, to, i, j) = to PROVE i = w /\ j = h
      <3>1. Along(from[1], to[1], i) = to[1] /\ Along(from[2], to[2], j) = to[2]
        BY <2>1, <2>4 DEF On
      <3> QED
        BY <1>1, <2>2, <3>1, GapIs, SMTT(30)
    <2> QED
      BY <2>3, <2>4
  <1>9. first \in I
    <2>1. first \in S
      BY <1>1, <1>2
    <2>2. first.at = On(from, to, 0, 0)
      <3>1. Along(from[1], to[1], 0) = from[1] /\ Along(from[2], to[2], 0) = from[2]
        BY <1>1, GapIs
      <3>2. from = <<from[1], from[2]>>
        BY <1>1
      <3> QED
        BY <3>1, <3>2 DEF On
    <2>3. Off(from, to, 0, 0) = 0 /\ Count(from, to, 0, 0) = 0
      BY <1>2, <1>6
    <2>4. first.err = w - h
      OBVIOUS
    <2> HIDE DEF first
    <2>5. At(first, 0, 0)
      BY <1>2, <2>2, <2>3, <2>4
    <2> QED
      BY <2>1, <2>5
  <1>10. ASSUME NEW s \in I, s \notin done PROVE step[s] \in I /\ mu[s] \in Nat /\ mu[step[s]] < mu[s]
    <2>1. s \in S /\ ~ Route!Closed(m, s.at) /\ s.at # to
      BY <1>10
    <2>2. PICK i \in Nat, j \in Nat : At(s, i, j)
      BY <1>10
    <2> DEFINE t == Go(s)
               onX == 2 * (j * w - i * h + w - h) > -h
               onY == 2 * (j * w - i * h + w - h) < w
               p == IF onX THEN i + 1 ELSE i
               q == IF onY THEN j + 1 ELSE j
               o == Off(from, to, i, j)
    <2> HIDE DEF S, I, done, mu, step, Go
    <2>3. /\ s.at = On(from, to, i, j) /\ s.err = o + w - h /\ o = j * w - i * h
          /\ 2 * o <= n /\ -n <= 2 * o /\ (w = h => i = j) /\ Count(from, to, i, j) <= n
          /\ \A k \in Nat : k < Count(from, to, i, j) => Touches(m, from, to, k)
      BY <1>6, <2>2
    <2>4. n > 0 /\ Count(from, to, i, j) < n
      <3>1. ~ (i = w /\ j = h)
        BY <1>8, <2>1, <2>3
      <3> DEFINE a == j * w
                 b == i * h
      <3>2. w >= h /\ i = w /\ w > 0 => j = h
        <4> SUFFICES ASSUME w >= h, i = w, w > 0 PROVE j = h
          OBVIOUS
        <4>1. n = w /\ 2 * (j * w - w * h) <= w /\ -w <= 2 * (j * w - w * h)
          BY <1>2, <2>3
        <4>2. j > h => j * w >= w * h + w
          BY <1>2, TimesGrows
        <4>3. j < h => w * h >= j * w + w
          BY <1>2, TimesGrows
        <4>4. j * w \in Nat /\ w * h \in Nat
          BY <1>2
        <4> QED
          BY <1>2, <4>1, <4>2, <4>3, <4>4
      <3>3. w < h /\ j = h => i = w
        <4> SUFFICES ASSUME w < h, j = h PROVE i = w
          OBVIOUS
        <4>1. n = h /\ 2 * (h * w - i * h) <= h /\ -h <= 2 * (h * w - i * h)
          BY <1>2, <2>3
        <4>2. i > w => i * h >= h * w + h
          BY <1>2, TimesGrows
        <4>3. i < w => h * w >= i * h + h
          BY <1>2, TimesGrows
        <4>4. i * h \in Nat /\ h * w \in Nat
          BY <1>2
        <4> QED
          BY <1>2, <4>1, <4>2, <4>3, <4>4
      <3>4. w = 0 /\ h = 0 => Count(from, to, i, j) # 0 \/ i = w
        BY <1>6
      <3>5. w = 0 /\ h = 0 => i = j
        BY <2>3
      <3> QED
        BY <1>2, <1>6, <2>3, <3>1, <3>2, <3>3, <3>5
    <2>5. /\ w >= h => onX
          /\ w < h => onY
          /\ 2 * (q * w - p * h) <= n /\ -n <= 2 * (q * w - p * h) /\ (w = h => p = q)
          /\ j * w - i * h + w - h - (IF onX THEN h ELSE 0) + (IF onY THEN w ELSE 0) = q * w - p * h + w - h
      BY <1>2, <2>3, <2>4, BresenhamIs
    <2>6. p \in Nat /\ q \in Nat /\ Count(from, to, p, q) = Count(from, to, i, j) + 1
      <3> HIDE DEF onX, onY
      <3>1. p \in Nat /\ q \in Nat /\ (w >= h => p = i + 1) /\ (w < h => q = j + 1)
        BY <2>5
      <3> HIDE DEF p, q
      <3> QED
        BY <1>2, <1>6, <3>1
    <2>7. (OnX(s) <=> onX) /\ (OnY(s) <=> onY)
      BY <2>3
    <2>8. t.at = On(from, to, p, q) /\ t.err = Off(from, to, p, q) + w - h
      <3>1. t.err = s.err - (IF OnX(s) THEN h ELSE 0) + (IF OnY(s) THEN w ELSE 0)
            /\ t.at = Route!Shift(s.at, <<IF OnX(s) THEN sx ELSE 0, IF OnY(s) THEN sy ELSE 0>>)
        BY DEF Go
      <3>2. t.err = q * w - p * h + w - h
        <4>1. s.err = j * w - i * h + w - h
          BY <2>3
        <4>2. /\ (IF OnX(s) THEN h ELSE 0) = IF onX THEN h ELSE 0
              /\ (IF OnY(s) THEN w ELSE 0) = IF onY THEN w ELSE 0
          BY <2>7
        <4> HIDE DEF onX, onY, OnX, OnY, t
        <4>3. t.err = s.err - (IF onX THEN h ELSE 0) + (IF onY THEN w ELSE 0)
          BY <3>1, <4>2
        <4>4. s.err - (IF onX THEN h ELSE 0) + (IF onY THEN w ELSE 0)
                 = j * w - i * h + w - h - (IF onX THEN h ELSE 0) + (IF onY THEN w ELSE 0)
          <5>1. j * w \in Int /\ i * h \in Int /\ (IF onX THEN h ELSE 0) \in Int /\ (IF onY THEN w ELSE 0) \in Int
            BY <1>2
          <5> QED
            BY <1>2, <4>1, <5>1
        <4>5. j * w - i * h + w - h - (IF onX THEN h ELSE 0) + (IF onY THEN w ELSE 0) = q * w - p * h + w - h
          BY <2>5
        <4> QED
          BY <4>3, <4>4, <4>5
      <3>3. s.at[1] = Along(from[1], to[1], i) /\ s.at[2] = Along(from[2], to[2], j)
        BY <2>3 DEF On
      <3> HIDE DEF onX, onY, OnX, OnY, t
      <3>4. t.at = <<s.at[1] + (IF onX THEN sx ELSE 0), s.at[2] + (IF onY THEN sy ELSE 0)>>
        BY <2>7, <3>1 DEF Route!Shift
      <3>5. Along(from[1], to[1], p) = s.at[1] + (IF onX THEN sx ELSE 0)
        BY <1>1, <3>3 DEF Along
      <3>6. Along(from[2], to[2], q) = s.at[2] + (IF onY THEN sy ELSE 0)
        BY <1>1, <3>3 DEF Along
      <3> QED
        BY <1>6, <1>7, <2>6, <3>2, <3>4, <3>5, <3>6
    <2>9. Touches(m, from, to, Count(from, to, i, j))
      <3>1. On(from, to, i, j) \in Route!Cells(m) /\ ~ Route!Occupied(m, On(from, to, i, j))
        BY <2>1, <2>3, SameCells DEF Route!Closed
      <3> QED
        BY <1>1, <2>3, <3>1, NearTouches DEF n
    <2> HIDE DEF t, p, q, onX, onY
    <2>10. At(t, p, q)
      <3>1. Off(from, to, p, q) = q * w - p * h
        BY <1>6, <2>6
      <3>2. \A k \in Nat : k < Count(from, to, p, q) => Touches(m, from, to, k)
        <4>1. Count(from, to, i, j) \in Nat
          BY <1>6
        <4> QED
          BY <2>3, <2>6, <2>9, <4>1
      <3>3. Count(from, to, p, q) <= n
        <4>1. Count(from, to, i, j) \in Nat
          BY <1>6
        <4> QED
          BY <1>2, <2>4, <2>6, <4>1
      <3> QED
        BY <2>5, <2>8, <3>1, <3>2, <3>3
    <2>11. step[s] = t /\ t \in S
      <3>1. step[s] = t
        BY <2>1 DEF step, t
      <3> QED
        BY <1>5, <2>1, <3>1
    <2>12. t \in I
      BY <2>6, <2>10, <2>11 DEF I
    <2>13. Done(s) = Count(from, to, i, j) /\ Done(t) = Count(from, to, p, q)
      BY <1>6, <1>7, <2>3, <2>6, <2>8
    <2>14. mu[s] = n - Count(from, to, i, j) /\ mu[t] = n - Count(from, to, p, q)
      BY <1>10, <2>12, <2>13 DEF mu
    <2>15. Count(from, to, i, j) \in Nat
      BY <1>6
    <2> QED
      BY <1>2, <2>4, <2>6, <2>11, <2>12, <2>14, <2>15
  <1>11. mu \in [I -> Nat]
    <2> SUFFICES ASSUME NEW s \in I PROVE n - Done(s) \in Nat
      OBVIOUS
    <2>1. PICK i \in Nat, j \in Nat : At(s, i, j)
      OBVIOUS
    <2>2. s.at = On(from, to, i, j) /\ Count(from, to, i, j) <= n
      BY <2>1
    <2> HIDE DEF I, S
    <2>3. Done(s) = Count(from, to, i, j) /\ Count(from, to, i, j) \in Nat
      BY <1>6, <1>7, <2>2
    <2> QED
      BY <1>2, <2>2, <2>3
  <1>12. \A s \in I : f[s] \in I /\ f[s] \in done
    <2>1. I \in SUBSET S
      OBVIOUS
    <2>2. f = Loop(S, done, step)
      OBVIOUS
    <2>3. \A s \in I : s \notin done => step[s] \in I /\ mu[step[s]] < mu[s]
      BY <1>10
    <2> HIDE DEF S, done, step, f, I, mu
    <2> QED
      BY <1>5, <1>11, <2>1, <2>2, <2>3, LoopEnds
  <1> DEFINE e == f[first]
  <1>13. e \in I /\ e \in done /\ ~ Route!Closed(m, e.at)
    BY <1>4, <1>9, <1>12
  <1> HIDE DEF e, f
  <1>14. e.at = to
    BY <1>13
  <1>15. PICK i \in Nat, j \in Nat : At(e, i, j)
    BY <1>13
  <1> HIDE DEF S, I, done
  <1>16. /\ to = On(from, to, i, j) /\ 2 * Off(from, to, i, j) <= n /\ -n <= 2 * Off(from, to, i, j)
         /\ \A k \in Nat : k < Count(from, to, i, j) => Touches(m, from, to, k)
    BY <1>14, <1>15
  <1>17. Count(from, to, i, j) = n
    <2>1. i = w /\ j = h
      BY <1>8, <1>16
    <2> QED
      BY <1>2, <1>6, <2>1
  <1>18. Touches(m, from, to, n)
    <2>1. to \in Route!Cells(m) /\ ~ Route!Occupied(m, to)
      BY <1>13, <1>14 DEF Route!Closed
    <2>2. Touches(m, from, to, Count(from, to, i, j))
      BY <1>1, <1>16, <2>1, NearTouches DEF n
    <2> QED
      BY <1>17, <2>2
  <1>19. \A k \in 0 .. n : Touches(m, from, to, k)
    BY <1>2, <1>16, <1>17, <1>18
  <1> QED
    BY <1>1, <1>19, ClearIs DEF n

\* So does a single step.
LEMMA StepIsClear ==
  ASSUME NEW m, IsMap(m), NEW from \in Route!Cells(m), NEW to \in Route!Cells(m),
         ~ Route!Occupied(m, from), ~ Route!Occupied(m, to), StepFrom(from, to) \in Route!Around
  PROVE  Route!IsClear(m, from, to)
  <1> DEFINE w == Wide(from, to)
             h == High(from, to)
             n == Length(from, to)
  <1>1. /\ from \in Int \X Int /\ to \in Int \X Int
        /\ from[1] \in Int /\ from[2] \in Int /\ to[1] \in Int /\ to[2] \in Int
        /\ from = <<from[1], from[2]>> /\ to = <<to[1], to[2]>>
    BY CellsAre
  <1>2. w = Gap(from[1], to[1]) /\ h = Gap(from[2], to[2])
    BY DEF Wide, High
  <1>3. w \in 0 .. 1 /\ h \in 0 .. 1 /\ ~ (w = 0 /\ h = 0)
    <2>1. <<to[1] - from[1], to[2] - from[2]>> \in Route!Around
      BY DEF StepFrom
    <2>2. to[1] - from[1] \in -1 .. 1 /\ to[2] - from[2] \in -1 .. 1 /\ ~ (to[1] - from[1] = 0 /\ to[2] - from[2] = 0)
      BY <2>1 DEF Route!Around
    <2> HIDE DEF w, h
    <2> QED
      BY <1>1, <1>2, <2>2 DEF Gap, Route!Abs
  <1>4. n = 1
    <2> HIDE DEF w, h
    <2>1. n = IF w > h THEN w ELSE h
      BY DEF Length, w, h
    <2> QED
      BY <1>3, <2>1
  <1>5. On(from, to, 0, 0) = from /\ On(from, to, w, h) = to
    <2>1. Along(from[1], to[1], 0) = from[1] /\ Along(from[2], to[2], 0) = from[2]
          /\ Along(from[1], to[1], w) = to[1] /\ Along(from[2], to[2], h) = to[2]
      BY <1>1, <1>2, GapIs
    <2> QED
      BY <1>1, <2>1 DEF On
  <1>6. Off(from, to, 0, 0) = 0 /\ Off(from, to, w, h) = 0 /\ Count(from, to, 0, 0) = 0 /\ Count(from, to, w, h) = 1
    <2>1. Off(from, to, 0, 0) = 0 * w - 0 * h /\ Off(from, to, w, h) = h * w - w * h
      BY DEF Off
    <2>2. Count(from, to, w, h) = (IF w >= h THEN w ELSE h) /\ Count(from, to, 0, 0) = 0
      BY DEF Count
    <2> HIDE DEF w, h
    <2> QED
      BY <1>3, <2>1, <2>2
  <1> HIDE DEF w, h, n
  <1>7. Touches(m, from, to, 0)
    <2>1. 0 \in Nat /\ 2 * Off(from, to, 0, 0) <= Length(from, to) /\ -Length(from, to) <= 2 * Off(from, to, 0, 0)
      BY <1>4, <1>6 DEF n
    <2> QED
      BY <1>1, <1>5, <1>6, <2>1, NearTouches
  <1>8. Touches(m, from, to, 1)
    <2>1. w \in Nat /\ h \in Nat /\ 2 * Off(from, to, w, h) <= Length(from, to) /\ -Length(from, to) <= 2 * Off(from, to, w, h)
      BY <1>3, <1>4, <1>6 DEF n
    <2> QED
      BY <1>1, <1>5, <1>6, <2>1, NearTouches
  <1>9. \A k \in 0 .. n : Touches(m, from, to, k)
    BY <1>4, <1>7, <1>8
  <1> QED
    BY <1>1, <1>9, ClearIs DEF n

\* The next point kept is the next of the route or one in line of sight.
LEMMA FarthestIs ==
  ASSUME NEW m, NEW p \in Seq(Route!Cells(m)), NEW anchor \in 1 .. Len(p) - 1
  PROVE  /\ Route!Farthest(m, p, anchor) \in anchor + 1 .. Len(p)
         /\ \/ Route!Farthest(m, p, anchor) = anchor + 1
            \/ Route!HasLineOfSight(m, p[anchor], p[Route!Farthest(m, p, anchor)])
  <1> DEFINE seen == {k \in anchor + 2 .. Len(p) : Route!HasLineOfSight(m, p[anchor], p[k])} \cup {anchor + 1}
             F == {Len(p) - k : k \in seen}
  <1>1. Len(p) \in Nat /\ anchor \in Nat /\ anchor + 1 <= Len(p)
    OBVIOUS
  <1>2. \A k \in seen : k \in anchor + 1 .. Len(p)
    BY <1>1
  <1>3. F \in SUBSET Nat /\ F # {}
    <2>1. anchor + 1 \in seen
      OBVIOUS
    <2> HIDE DEF seen
    <2> QED
      BY <1>1, <1>2, <2>1
  <1>4. \E k \in seen : \A l \in seen : l <= k
    <2>1. PICK x \in F : \A y \in F : x <= y
      <3> HIDE DEF F
      <3> QED
        BY <1>3, LeastExists
    <2>2. PICK k \in seen : x = Len(p) - k
      OBVIOUS
    <2>3. ASSUME NEW l \in seen PROVE l <= k
      <3>1. Len(p) - k <= Len(p) - l
        BY <2>1, <2>2
      <3> HIDE DEF seen, F
      <3> QED
        BY <1>1, <1>2, <3>1
    <2> QED
      BY <2>3
  <1> DEFINE far == Route!Farthest(m, p, anchor)
  <1>5. far = CHOOSE k \in seen : \A l \in seen : l <= k
    BY DEF Route!Farthest
  <1> HIDE DEF far
  <1>6. far \in seen
    <2> HIDE DEF seen
    <2> QED
      BY <1>4, <1>5
  <1> QED
    BY <1>2, <1>6 DEF far

\* The simplified path keeps the ends, and its legs lie in order along the route
\* and pass no obstacle.
IsLegOf(m, p, c, x) ==
  (\E i, j \in DOMAIN p : i < j /\ c = p[i] /\ x = p[j]) /\ Route!IsClear(m, c, x)
IsRoute(m, p) == p \in Seq(Route!Cells(m)) /\ p # <<>> /\ Route!IsLegal(m, p) /\ ~ Route!Occupied(m, p[1])

\* Every leg of the simplified path is such a leg.
LEMMA SimplifyIs ==
  ASSUME NEW m, IsMap(m), NEW p, IsRoute(m, p)
  PROVE  LET path == Route!SimplifyPath(m, p)
         IN  /\ path \in Seq(Route!Cells(m)) /\ path # <<>> /\ path[1] = p[1] /\ path[Len(path)] = p[Len(p)]
             /\ \A k \in 1 .. Len(path) - 1 : IsLegOf(m, p, path[k], path[k + 1])
  <1> DEFINE S == [kept : Seq(Route!Cells(m)), anchor : DOMAIN p]
             done == {s \in S : s.anchor = Len(p)}
             Next(s) == [kept |-> Append(s.kept, p[Route!Farthest(m, p, s.anchor)]), anchor |-> Route!Farthest(m, p, s.anchor)]
             step == [s \in S |-> IF s.anchor = Len(p) THEN s ELSE Next(s)]
             f == Loop(S, done, step)
             first == [kept |-> <<p[1]>>, anchor |-> 1]
             Linked(q) == \A k \in 1 .. Len(q) - 1 : IsLegOf(m, p, q[k], q[k + 1])
             I == {s \in S : /\ s.kept # <<>> /\ s.kept[1] = p[1] /\ s.kept[Len(s.kept)] = p[s.anchor]
                             /\ Linked(s.kept)}
             mu == [s \in I |-> Len(p) - s.anchor]
             path == Route!SimplifyPath(m, p)
  <1>1. /\ Len(p) \in Nat /\ Len(p) >= 1 /\ DOMAIN p = 1 .. Len(p) /\ \A i \in 1 .. Len(p) : p[i] \in Route!Cells(m)
        /\ p \in Seq(Route!Cells(m)) /\ p # <<>> /\ Route!IsLegal(m, p) /\ ~ Route!Occupied(m, p[1])
    BY DEF IsRoute
  <1>2. ASSUME NEW i \in 1 .. Len(p) - 1
        PROVE  ~ Route!Occupied(m, p[i + 1]) /\ StepFrom(p[i], p[i + 1]) \in Route!Around
    <2>1. p[i] \in Int \X Int /\ p[i + 1] \in Int \X Int
      <3>1. p[i] \in Route!Cells(m) /\ p[i + 1] \in Route!Cells(m)
        BY <1>1
      <3> QED
        BY <3>1, CellsAre
    <2>2. Route!StepAt(p, i) = StepFrom(p[i], p[i + 1])
      BY DEF Route!StepAt, StepFrom
    <2>3. StepFrom(p[i], p[i + 1]) \in Route!Around /\ Route!MayStep(m, p[i], StepFrom(p[i], p[i + 1]))
      BY <1>1, <2>2 DEF Route!IsLegal
    <2>4. Route!Shift(p[i], StepFrom(p[i], p[i + 1])) = p[i + 1]
      BY <2>1, StepsLead
    <2> QED
      BY <2>3, <2>4 DEF Route!MayStep
  <1>3. ASSUME NEW i \in 1 .. Len(p) - 1 PROVE ~ Route!Occupied(m, p[i])
    <2>1. CASE i = 1
      BY <1>1, <2>1
    <2>2. CASE i # 1
      <3>1. i - 1 \in 1 .. Len(p) - 1 /\ (i - 1) + 1 = i
        BY <1>1, <2>2
      <3>2. ~ Route!Occupied(m, p[(i - 1) + 1])
        BY <1>2, <3>1
      <3> QED
        BY <3>1, <3>2
    <2> QED
      BY <2>1, <2>2
  <1>4. ASSUME NEW i \in 1 .. Len(p) - 1 PROVE IsLegOf(m, p, p[i], p[i + 1])
    <2>1. i \in DOMAIN p /\ i + 1 \in DOMAIN p /\ i < i + 1 /\ p[i] \in Route!Cells(m) /\ p[i + 1] \in Route!Cells(m)
      BY <1>1
    <2>2. Route!IsClear(m, p[i], p[i + 1])
      BY <1>2, <1>3, <2>1, StepIsClear
    <2> QED
      BY <2>1, <2>2 DEF IsLegOf
  <1>5. ASSUME NEW i \in 1 .. Len(p) - 1
        PROVE  /\ Route!Farthest(m, p, i) \in i + 1 .. Len(p) /\ Route!Farthest(m, p, i) \in DOMAIN p
               /\ p[Route!Farthest(m, p, i)] \in Route!Cells(m)
               /\ IsLegOf(m, p, p[i], p[Route!Farthest(m, p, i)])
    <2> DEFINE k == Route!Farthest(m, p, i)
    <2>1. k \in i + 1 .. Len(p) /\ (k = i + 1 \/ Route!HasLineOfSight(m, p[i], p[k]))
      BY <1>1, FarthestIs
    <2> HIDE DEF k
    <2>2. k \in DOMAIN p /\ i \in DOMAIN p /\ i < k /\ p[i] \in Route!Cells(m) /\ p[k] \in Route!Cells(m)
      BY <1>1, <2>1
    <2>3. CASE k = i + 1
      BY <1>4, <2>1, <2>2, <2>3 DEF k
    <2>4. CASE Route!HasLineOfSight(m, p[i], p[k])
      <3>1. Route!IsClear(m, p[i], p[k])
        BY <2>2, <2>4, SightIsClear
      <3>2. IsLegOf(m, p, p[i], p[k])
        BY <2>2, <3>1 DEF IsLegOf
      <3> QED
        BY <2>1, <2>2, <3>2 DEF k
    <2> QED
      BY <2>1, <2>3, <2>4
  <1>6. path = IF Len(p) <= 2 THEN p ELSE f[first].kept
    <2> DEFINE E(s) == LET next == Route!Farthest(m, p, s.anchor)
                       IN  [kept |-> Append(s.kept, p[next]), anchor |-> next]
               Body(r) == [s \in S |-> IF s.anchor = Len(p) THEN s ELSE r[E(s)]]
               c == CHOOSE r : r = Body(r)
    <2>1. path = IF Len(p) <= 2 THEN p ELSE c[first].kept
      BY DEF Route!SimplifyPath
    <2>2. \A r : Body(r) = [s \in S |-> IF s \in done THEN s ELSE r[step[s]]]
      <3> SUFFICES ASSUME NEW r PROVE Body(r) = [s \in S |-> IF s \in done THEN s ELSE r[step[s]]]
        OBVIOUS
      <3>1. \A s \in S : (s \in done <=> s.anchor = Len(p)) /\ (s.anchor # Len(p) => step[s] = E(s))
        OBVIOUS
      <3> HIDE DEF S, done, step, E
      <3> QED
        BY <3>1
    <2> HIDE DEF Body, S, done, step
    <2>3. c = f
      BY <2>2 DEF Loop
    <2> HIDE DEF path, f, first, c
    <2> QED
      BY <2>1, <2>3
  <1>7. ASSUME NEW s \in S, s.anchor # Len(p)
        PROVE  /\ s.anchor \in 1 .. Len(p) - 1 /\ Next(s) \in S
               /\ Next(s).kept = Append(s.kept, p[Next(s).anchor]) /\ Next(s).anchor \in s.anchor + 1 .. Len(p)
               /\ IsLegOf(m, p, p[s.anchor], p[Next(s).anchor])
    <2>1. s.anchor \in 1 .. Len(p) - 1 /\ s.kept \in Seq(Route!Cells(m))
      BY <1>1, <1>7
    <2> DEFINE k == Route!Farthest(m, p, s.anchor)
    <2>2. k \in s.anchor + 1 .. Len(p) /\ k \in DOMAIN p /\ p[k] \in Route!Cells(m) /\ IsLegOf(m, p, p[s.anchor], p[k])
      BY <1>5, <2>1
    <2> HIDE DEF k
    <2>3. Next(s) = [kept |-> Append(s.kept, p[k]), anchor |-> k]
      BY DEF k
    <2>4. Append(s.kept, p[k]) \in Seq(Route!Cells(m))
      BY <2>1, <2>2
    <2> HIDE DEF Next
    <2> QED
      BY <2>1, <2>2, <2>3, <2>4
  <1>8. step \in [S -> S]
    <2> HIDE DEF Next
    <2> QED
      BY <1>7
  <1>9. first \in I
    <2>1. first \in S /\ first.kept = <<p[1]>> /\ first.anchor = 1
      BY <1>1
    <2>2. <<p[1]>> # <<>> /\ Len(<<p[1]>>) = 1 /\ <<p[1]>>[1] = p[1]
      OBVIOUS
    <2>3. Linked(<<p[1]>>)
      BY <2>2
    <2> HIDE DEF first, S, Linked
    <2> QED
      BY <2>1, <2>2, <2>3
  <1>10. mu \in [I -> Nat]
    <2> SUFFICES ASSUME NEW s \in I PROVE Len(p) - s.anchor \in Nat
      OBVIOUS
    <2>1. s.anchor \in 1 .. Len(p)
      BY <1>1
    <2> QED
      BY <1>1, <2>1
  <1>11. ASSUME NEW s \in I, s \notin done PROVE step[s] \in I /\ mu[step[s]] < mu[s]
    <2>1. s \in S /\ s.anchor # Len(p) /\ step[s] = Next(s) /\ s.kept \in Seq(Route!Cells(m))
          /\ s.kept # <<>> /\ s.kept[1] = p[1] /\ s.kept[Len(s.kept)] = p[s.anchor] /\ Linked(s.kept)
      BY <1>11
    <2> DEFINE t == Next(s)
    <2>2. /\ s.anchor \in 1 .. Len(p) - 1 /\ t \in S
          /\ t.kept = Append(s.kept, p[t.anchor]) /\ t.anchor \in s.anchor + 1 .. Len(p)
          /\ IsLegOf(m, p, p[s.anchor], p[t.anchor])
      BY <1>7, <2>1
    <2> HIDE DEF t, S, I, done, Next
    <2>3. /\ Len(t.kept) = Len(s.kept) + 1 /\ Len(s.kept) \in Nat /\ Len(s.kept) >= 1 /\ t.kept # <<>>
          /\ t.kept[Len(s.kept) + 1] = p[t.anchor] /\ \A k \in 1 .. Len(s.kept) : t.kept[k] = s.kept[k]
      <3>1. p[t.anchor] \in Route!Cells(m)
        BY <1>1, <2>2
      <3> QED
        <4> DEFINE x == p[t.anchor]
                   q == Append(s.kept, x)
        <4>1. /\ q # <<>> /\ Len(q) = Len(s.kept) + 1 /\ q[Len(s.kept) + 1] = x
              /\ \A k \in 1 .. Len(s.kept) : q[k] = s.kept[k]
          BY <2>1, <3>1, AppendProperties
        <4>2. t.kept = q
          BY <2>2
        <4>3. Len(s.kept) \in Nat /\ Len(s.kept) >= 1
          BY <2>1
        <4> HIDE DEF q, x
        <4> QED
          BY <4>1, <4>2, <4>3 DEF x
    <2>4. Linked(t.kept)
      <3> SUFFICES ASSUME NEW k \in 1 .. Len(t.kept) - 1 PROVE IsLegOf(m, p, t.kept[k], t.kept[k + 1])
        OBVIOUS
      <3>1. CASE k = Len(s.kept)
        BY <2>1, <2>2, <2>3, <3>1
      <3>2. CASE k # Len(s.kept)
        <4>1. k \in 1 .. Len(s.kept) - 1 /\ k \in 1 .. Len(s.kept) /\ k + 1 \in 1 .. Len(s.kept)
          BY <2>3, <3>2
        <4> QED
          BY <2>1, <2>3, <4>1
      <3> QED
        BY <3>1, <3>2
    <2>5. t.kept[1] = p[1] /\ t.kept[Len(t.kept)] = p[t.anchor]
      <3>1. 1 \in 1 .. Len(s.kept)
        BY <2>3
      <3> QED
        BY <2>1, <2>3, <3>1
    <2>6. t \in I
      BY <2>2, <2>3, <2>4, <2>5 DEF I
    <2>7. mu[t] < mu[s]
      <3>1. mu[t] = Len(p) - t.anchor /\ mu[s] = Len(p) - s.anchor
        BY <1>11, <2>6
      <3> HIDE DEF mu
      <3> QED
        BY <1>1, <2>2, <3>1
    <2> QED
      BY <2>1, <2>6, <2>7 DEF t
  <1>12. \A s \in I : f[s] \in I /\ f[s] \in done
    <2>1. I \in SUBSET S
      OBVIOUS
    <2>2. f = Loop(S, done, step)
      OBVIOUS
    <2>3. \A s \in I : s \notin done => step[s] \in I /\ mu[step[s]] < mu[s]
      BY <1>11
    <2> HIDE DEF S, done, step, f, I, mu
    <2> QED
      BY <1>8, <1>10, <2>1, <2>2, <2>3, LoopEnds
  <1>13. /\ path \in Seq(Route!Cells(m)) /\ path # <<>> /\ path[1] = p[1] /\ path[Len(path)] = p[Len(p)]
         /\ \A k \in 1 .. Len(path) - 1 : IsLegOf(m, p, path[k], path[k + 1])
    <2>1. CASE Len(p) <= 2
      <3>1. path = p
        BY <1>6, <2>1
      <3> HIDE DEF path
      <3> QED
        BY <1>1, <1>4, <3>1
    <2>2. CASE ~ (Len(p) <= 2)
      <3>1. path = f[first].kept
        BY <1>6, <2>2
      <3>2. f[first] \in I /\ f[first] \in done
        BY <1>9, <1>12
      <3> DEFINE t == f[first]
      <3> HIDE DEF f, path, t
      <3>3. t \in I /\ t \in done
        BY <3>2 DEF t
      <3>4. t.kept \in Seq(Route!Cells(m)) /\ t.kept # <<>> /\ t.kept[1] = p[1] /\ t.kept[Len(t.kept)] = p[Len(p)] /\ Linked(t.kept)
        BY <3>3
      <3> QED
        BY <3>1, <3>4 DEF t
    <2> QED
      BY <2>1, <2>2
  <1> HIDE DEF path
  <1> QED
    BY <1>13 DEF path

-----------------------------------------------------------------------------
(* The plans.                                                              *)

\* What the search aims at is one cell of the map, if there is one.
LEMMA AimsAre ==
  ASSUME NEW m, IsMap(m), NEW goal \in Route!Cells(m)
  PROVE  Route!Aims(m, goal) \subseteq Route!Cells(m) /\ \A c, x \in Route!Aims(m, goal) : c = x
  <1> DEFINE FreeIn(r) == {d \in (-r .. r) \X (-r .. r) :
                             Route!IsInside(m, Route!Shift(goal, d)) /\ Route!GetCell(m, Route!Shift(goal, d)) = Route!Free}
             radii == {r \in 1 .. 5 : FreeIn(r) # {}}
             near == CHOOSE r \in radii : \A q \in radii : r <= q
             nearest == FreeIn(near)
             chosen == CHOOSE d \in nearest : \A e \in nearest : d[1] < e[1] \/ (d[1] = e[1] /\ d[2] <= e[2])
  <1>1. Route!Aims(m, goal) = IF ~ Route!Occupied(m, goal) THEN {goal}
                              ELSE IF radii = {} THEN {} ELSE {Route!Shift(goal, chosen)}
    BY DEF Route!Aims
  <1>2. ASSUME radii # {} PROVE Route!Shift(goal, chosen) \in Route!Cells(m)
    <2>1. radii \in SUBSET Nat
      OBVIOUS
    <2>2. \E r \in radii : \A q \in radii : r <= q
      <3> HIDE DEF radii
      <3> QED
        BY <1>2, <2>1, LeastExists
    <2>3. near \in radii
      <3> HIDE DEF radii
      <3> QED
        BY <2>2
    <2> HIDE DEF near
    <2>4. near \in Nat /\ nearest # {}
      BY <2>3
    <2>5. \A d \in nearest : d[1] \in Int /\ d[2] \in Int /\ d[1] + near \in Nat /\ d[2] + near \in Nat
                             /\ Route!IsInside(m, Route!Shift(goal, d))
      BY <2>4
    <2> HIDE DEF nearest
    <2> DEFINE X == {d[1] + near : d \in nearest}
    <2>6. PICK d \in nearest : \A e \in nearest : d[1] <= e[1]
      <3>1. X \in SUBSET Nat /\ X # {}
        BY <2>4, <2>5
      <3>2. PICK x \in X : \A y \in X : x <= y
        <4> HIDE DEF X
        <4> QED
          BY <3>1, LeastExists
      <3>3. PICK d \in nearest : x = d[1] + near
        OBVIOUS
      <3>4. ASSUME NEW e \in nearest PROVE d[1] <= e[1]
        <4>1. d[1] + near <= e[1] + near
          BY <3>2, <3>3
        <4> QED
          BY <2>4, <2>5, <4>1
      <3> QED
        BY <3>4
    <2> DEFINE column == {e \in nearest : e[1] = d[1]}
               Y == {e[2] + near : e \in column}
    <2>7. PICK b \in column : \A e \in column : b[2] <= e[2]
      <3>1. Y \in SUBSET Nat /\ Y # {}
        <4>1. d \in column
          BY <2>6
        <4> QED
          BY <2>5, <4>1
      <3>2. PICK y \in Y : \A z \in Y : y <= z
        <4> HIDE DEF Y
        <4> QED
          BY <3>1, LeastExists
      <3>3. PICK b \in column : y = b[2] + near
        OBVIOUS
      <3>4. ASSUME NEW e \in column PROVE b[2] <= e[2]
        <4>1. b[2] + near <= e[2] + near
          BY <3>2, <3>3
        <4> QED
          BY <2>4, <2>5, <4>1
      <3> QED
        BY <3>4
    <2>8. ASSUME NEW e \in nearest PROVE b[1] < e[1] \/ (b[1] = e[1] /\ b[2] <= e[2])
      <3>1. CASE e \in column
        BY <2>7, <3>1
      <3>2. CASE e \notin column
        BY <2>5, <2>6, <2>7, <3>2
      <3> QED
        BY <3>1, <3>2
    <2>9. chosen \in nearest
      BY <2>7, <2>8
    <2> QED
      BY <2>5, <2>9, SameCells
  <1> HIDE DEF chosen, radii
  <1> QED
    BY <1>1, <1>2

\* A search that fails and one that succeeds.
IsResult(r) == r = [planner |-> r.planner, found |-> r.found, route |-> r.route]

\* One that fails leaves the paths as they were.
LEMMA FailsIs ==
  ASSUME NEW m, NEW a, NEW b, b.gridPath = a.gridPath, b.path = a.path
  PROVE  LET r == Route!Fails(b)
         IN  IsResult(r) /\ r.found = FALSE /\ r.planner = b /\ Route!PathIsClear(m, a, r)
  <1> DEFINE r == Route!Fails(b)
  <1>1. r = [planner |-> b, found |-> FALSE, route |-> <<>>]
    BY DEF Route!Fails
  <1> HIDE DEF r
  <1>2. r.planner = b /\ r.found = FALSE /\ r.route = <<>>
    BY <1>1
  <1>3. Route!PathIsClear(m, a, r)
    BY <1>2 DEF Route!PathIsClear
  <1> QED
    BY <1>1, <1>2, <1>3 DEF r, IsResult

Serves(m, a, route, r) ==
  /\ IsResult(r) /\ r.found = TRUE /\ r.route = route /\ Route!PathIsClear(m, a, r)
  /\ IsPlanner(r.planner) /\ r.planner.gridPath \in Seq(Pairs)

\* One that succeeds has the simplified route as its path.
LEMMA SucceedsIs ==
  ASSUME NEW m, IsMap(m), NEW a, NEW b, IsPlanner(b), NEW route, IsRoute(m, route)
  PROVE  Serves(m, a, route, Route!Succeeds(b, m, route))
  <1> DEFINE r == Route!Succeeds(b, m, route)
             path == Route!SimplifyPath(m, route)
  <1>1. /\ path \in Seq(Route!Cells(m)) /\ path # <<>> /\ path[1] = route[1] /\ path[Len(path)] = route[Len(route)]
        /\ \A k \in 1 .. Len(path) - 1 : IsLegOf(m, route, path[k], path[k + 1])
    BY SimplifyIs
  <1> HIDE DEF path
  <1>2. r = [planner |-> [b EXCEPT !.gridPath = path], found |-> TRUE, route |-> route]
    BY DEF Route!Succeeds, path
  <1>3. path \in Seq(Pairs)
    <2>1. Route!Cells(m) \subseteq Pairs
      BY CellsAre DEF Pairs
    <2> QED
      BY <1>1, <2>1
  <1>4. r.found = TRUE /\ r.route = route /\ r.planner = [b EXCEPT !.gridPath = path]
    BY <1>2
  <1> HIDE DEF r
  <1> DEFINE c == r.planner
  <1>5. /\ b.width \in Nat /\ b.height \in Nat /\ b.generation \in Nat
        /\ b.cells \in [Route!Cells(b) -> Route!Marks(b)] /\ b.path \in Seq(Pairs)
        /\ b = [width |-> b.width, height |-> b.height, generation |-> b.generation, cells |-> b.cells,
                gridPath |-> b.gridPath, path |-> b.path]
        /\ \A x \in Route!Cells(b) : b.cells[x].generation <= b.generation
    BY DEF IsPlanner
  <1>6. c = [width |-> b.width, height |-> b.height, generation |-> b.generation, cells |-> b.cells,
             gridPath |-> path, path |-> b.path]
    BY <1>4, <1>5
  <1> HIDE DEF c
  <1>7. c.width = b.width /\ c.height = b.height /\ c.cells = b.cells /\ c.generation = b.generation /\ c.gridPath = path
    BY <1>6
  <1>8. Route!Cells(c) = Route!Cells(b)
    BY <1>7 DEF Route!Cells
  <1>9. Route!Marks(c) = Route!Marks(b)
    BY <1>8 DEF Route!Marks
  <1>10. IsPlanner(c)
    BY <1>3, <1>5, <1>6, <1>7, <1>8, <1>9 DEF IsPlanner
  <1>11. Route!PathIsClear(m, a, r)
    <2>1. \A k \in 1 .. Len(path) - 1 :
             /\ \E i, j \in DOMAIN route : i < j /\ path[k] = route[i] /\ path[k + 1] = route[j]
             /\ Route!IsClear(m, path[k], path[k + 1])
      BY <1>1 DEF IsLegOf
    <2>2. r.planner.gridPath = path
      BY <1>7 DEF c
    <2> QED
      BY <1>1, <1>4, <2>1, <2>2 DEF Route!PathIsClear
  <1> QED
    BY <1>2, <1>3, <1>4, <1>7, <1>10, <1>11 DEF c, r, IsResult, Serves

\* A search finds a shortest way exactly if there is one, and leaves a planner
\* that can search again.
LEMMA SearchIs ==
  ASSUME NEW m, IsMap(m), NEW a, IsPlanner(a), NEW start, NEW goal
  PROVE  LET r == Route!Search(a, m, start, goal)
         IN  /\ IsResult(r) /\ IsPlanner(r.planner)
             /\ Route!PlanIsShortest(m, start, goal, r) /\ Route!PathIsClear(m, a, r)
             /\ r.found = TRUE => r.planner.gridPath \in Seq(Pairs)
  <1> DEFINE r == Route!Search(a, m, start, goal)
             valid == Route!IsInside(m, start) /\ Route!IsInside(m, goal) /\ ~ Route!Occupied(m, start)
             dist == Route!Shortest(m, start)
             aims == IF start = goal THEN {goal} ELSE Route!Aims(m, goal)
             Shortly == /\ r.found <=> valid /\ \E c \in aims : dist[c] < Route!Infinity
                        /\ r.found => /\ r.route[1] = start /\ r.route[Len(r.route)] \in aims
                                      /\ Route!IsLegal(m, r.route)
                                      /\ Route!CostOf(r.route) = dist[r.route[Len(r.route)]]
             Goal == /\ IsResult(r) /\ IsPlanner(r.planner)
                     /\ Route!PlanIsShortest(m, start, goal, r) /\ Route!PathIsClear(m, a, r)
                     /\ r.found = TRUE => r.planner.gridPath \in Seq(Pairs)
  <1>1. Route!PlanIsShortest(m, start, goal, r) <=> Shortly
    BY DEF Route!PlanIsShortest
  <1>2. Route!Infinity \in Nat /\ Route!Infinity > 0
    BY CellsAre
  <1> HIDE DEF dist
  <1>3. CASE ~ valid
    <2>1. r = Route!Fails(a)
      BY <1>3 DEF Route!Search
    <2> HIDE DEF r, valid, aims
    <2>2. IsResult(r) /\ r.found = FALSE /\ r.planner = a /\ Route!PathIsClear(m, a, r)
      BY <2>1, FailsIs
    <2>3. Shortly
      BY <1>3, <2>2
    <2> HIDE DEF Shortly
    <2> QED
      BY <1>1, <2>2, <2>3 DEF r
  <1>4. CASE valid /\ start = goal
    <2> DEFINE route == <<start>>
    <2>1. r = Route!Succeeds(a, m, route)
      BY <1>4 DEF Route!Search
    <2>2. start \in Route!Cells(m)
      BY <1>4, SameCells
    <2>3. dist \in RouteFields(m) /\ dist[start] = 0 /\ \A c \in Route!Cells(m) : AllowsSteps(m, dist, c)
      BY <2>2, ShortestIs DEF HasWays, dist
    <2>4. route \in Seq(Route!Cells(m)) /\ route # <<>> /\ Len(route) = 1 /\ route[1] = start /\ 1 .. Len(route) - 1 = {}
      BY <2>2
    <2> HIDE DEF route
    <2>5. IsTrail(m, dist, start, start, route)
      BY <2>4 DEF IsTrail
    <2>6. Route!IsLegal(m, route) /\ Route!CostOf(route) = dist[start]
      BY <2>2, <2>3, <2>5, CostIs
    <2>7. IsRoute(m, route)
      BY <1>4, <2>4, <2>6 DEF IsRoute
    <2> HIDE DEF r
    <2>8. /\ IsResult(r) /\ r.found = TRUE /\ r.route = route /\ Route!PathIsClear(m, a, r)
          /\ IsPlanner(r.planner) /\ r.planner.gridPath \in Seq(Pairs)
      <3>1. Serves(m, a, route, r)
        BY <2>1, <2>7, SucceedsIs
      <3> QED
        BY <3>1 DEF Serves
    <2>9. start \in aims /\ dist[start] < Route!Infinity
      BY <1>2, <1>4, <2>3
    <2> HIDE DEF valid, aims
    <2>10. Shortly
      BY <1>4, <2>4, <2>6, <2>8, <2>9
    <2> HIDE DEF Shortly
    <2> QED
      BY <1>1, <2>8, <2>10 DEF r
  <1>5. CASE valid /\ start # goal /\ Route!Aims(m, goal) = {}
    <2>1. r = Route!Fails(a)
      BY <1>5 DEF Route!Search
    <2>2. aims = {}
      BY <1>5
    <2> HIDE DEF r, valid, aims
    <2>3. IsResult(r) /\ r.found = FALSE /\ r.planner = a /\ Route!PathIsClear(m, a, r)
      BY <2>1, FailsIs
    <2>4. Shortly
      BY <2>2, <2>3
    <2> HIDE DEF Shortly
    <2> QED
      BY <1>1, <2>3, <2>4 DEF r
  <1>6. CASE valid /\ start # goal /\ Route!Aims(m, goal) # {}
    <2> DEFINE aim == CHOOSE c \in Route!Aims(m, goal) : TRUE
               ready == Route!Prepare(a, m)
               n == ready.generation
               done == EndOf(m, a, start, aim)
               route == RouteTo(m, a, start, aim)
               after == [ready EXCEPT !.cells = done.cells]
    <2>1. start \in Route!Cells(m) /\ goal \in Route!Cells(m) /\ ~ Route!Occupied(m, start)
      BY <1>6, SameCells
    <2>2. aims = Route!Aims(m, goal) /\ aim \in Route!Aims(m, goal)
      BY <1>6
    <2>3. aims = {aim} /\ aim \in Route!Cells(m)
      BY <2>1, <2>2, AimsAre
    <2>4. r = IF done.open # {} THEN Route!Succeeds(after, m, route) ELSE Route!Fails(after)
      <3>1. r = LET first == Route!Reached(n, start, aim, 0, Route!None)
                    end == Route!Explore(m, n, aim, [cells |-> [ready.cells EXCEPT ![start] = first],
                                                     open |-> {[f |-> first.f, cell |-> start]}])
                    then == [ready EXCEPT !.cells = end.cells]
                IN  IF end.open # {} THEN Route!Succeeds(then, m, Route!Backtrack(m, n, end.cells, aim)) ELSE Route!Fails(then)
        BY <1>6 DEF Route!Search
      <3>2. done = Route!Explore(m, n, aim, First(m, a, start, aim)) /\ route = Route!Backtrack(m, n, done.cells, aim)
        BY DEF EndOf, RouteTo
      <3>3. First(m, a, start, aim) =
               LET first == Route!Reached(n, start, aim, 0, Route!None)
               IN  [cells |-> [ready.cells EXCEPT ![start] = first], open |-> {[f |-> first.f, cell |-> start]}]
        BY DEF First
      <3> HIDE DEF r, aim, ready, n, done, route
      <3> QED
        BY <3>1, <3>2, <3>3
    <2>5. /\ ready = [width |-> m.width, height |-> m.height, generation |-> a.generation + 1, cells |-> ready.cells,
                      gridPath |-> a.gridPath, path |-> a.path]
          /\ n = a.generation + 1 /\ n \in Nat
      BY PrepareIs
    <2> HIDE DEF r, aim, ready, n, valid, aims
    <2>6. /\ done.cells \in [Route!Cells(m) -> Route!Marks(m)]
          /\ \A c \in Route!Cells(m) : done.cells[c].generation <= n
          /\ done.open # {} <=> dist[aim] < Route!Infinity
          /\ done.open # {} =>
                /\ route \in Seq(Route!Cells(m)) /\ route # <<>> /\ route[1] = start /\ route[Len(route)] = aim
                /\ Route!IsLegal(m, route) /\ Route!CostOf(route) = dist[aim]
      BY <2>1, <2>3, SearchLeads DEF dist, n, ready
    <2> HIDE DEF done, route
    <2>7. after = [width |-> m.width, height |-> m.height, generation |-> n, cells |-> done.cells,
                   gridPath |-> a.gridPath, path |-> a.path]
      BY <2>5
    <2> HIDE DEF after
    <2>8. /\ after.width = m.width /\ after.height = m.height /\ after.generation = n /\ after.cells = done.cells
          /\ after.gridPath = a.gridPath /\ after.path = a.path
      BY <2>7
    <2>9. IsPlanner(after)
      <3>1. Route!Cells(after) = Route!Cells(m)
        BY <2>8 DEF Route!Cells
      <3>2. Route!Marks(after) = Route!Marks(m)
        BY <3>1 DEF Route!Marks
      <3>3. m.width \in Nat /\ m.height \in Nat
        BY DEF IsMap
      <3>4. a.gridPath \in Seq(Pairs) /\ a.path \in Seq(Pairs)
        BY DEF IsPlanner
      <3> QED
        BY <2>5, <2>6, <2>7, <2>8, <3>1, <3>2, <3>3, <3>4 DEF IsPlanner
    <2>10. CASE done.open # {}
      <3>1. IsRoute(m, route)
        BY <2>1, <2>6, <2>10 DEF IsRoute
      <3>2. /\ IsResult(r) /\ r.found = TRUE /\ r.route = route /\ Route!PathIsClear(m, a, r)
            /\ IsPlanner(r.planner) /\ r.planner.gridPath \in Seq(Pairs)
        <4>1. r = Route!Succeeds(after, m, route)
          BY <2>4, <2>10
        <4>2. Serves(m, after, route, r)
          BY <2>9, <3>1, <4>1, SucceedsIs
        <4>3. Route!PathIsClear(m, a, r)
          BY <4>2 DEF Serves, Route!PathIsClear
        <4> QED
          BY <4>2, <4>3 DEF Serves
      <3>3. Shortly
        BY <1>6, <2>3, <2>6, <2>10, <3>2
      <3> HIDE DEF Shortly
      <3> QED
        BY <1>1, <3>2, <3>3 DEF r
    <2>11. CASE done.open = {}
      <3>1. IsResult(r) /\ r.found = FALSE /\ r.planner = after /\ Route!PathIsClear(m, a, r)
        BY <2>4, <2>8, <2>11, FailsIs
      <3>2. Shortly
        BY <2>3, <2>6, <2>11, <3>1
      <3> HIDE DEF Shortly
      <3> QED
        BY <1>1, <2>9, <3>1, <3>2 DEF r
    <2> QED
      BY <2>10, <2>11
  <1> HIDE DEF r, valid, aims, Shortly
  <1> QED
    BY <1>3, <1>4, <1>5, <1>6 DEF r

\* A plan is its search, with the path of the grid moved to the world if there
\* is one.
LEMMA PlanIs ==
  ASSUME NEW m, IsMap(m), NEW a, IsPlanner(a), NEW start, NEW goal
  PROVE  LET r == Route!Plan(a, m, start, goal)
         IN  /\ Route!PlanIsShortest(m, Route!WorldToGrid(start), Route!WorldToGrid(goal), r)
             /\ Route!PathIsClear(m, a, r)
             /\ IsPlanner(r.planner)
  <1> DEFINE from == Route!WorldToGrid(start)
             to == Route!WorldToGrid(goal)
             s == Route!Search(a, m, from, to)
             r == Route!Plan(a, m, start, goal)
             path == [k \in DOMAIN s.planner.gridPath |-> Route!GridToWorld(s.planner.gridPath[k])]
  <1>1. r = IF s.found THEN [s EXCEPT !.planner.path = path] ELSE s
    BY DEF Route!Plan
  <1> HIDE DEF from, to, r
  <1>2. /\ IsResult(s) /\ IsPlanner(s.planner)
        /\ Route!PlanIsShortest(m, from, to, s) /\ Route!PathIsClear(m, a, s)
        /\ s.found = TRUE => s.planner.gridPath \in Seq(Pairs)
    BY SearchIs
  <1> HIDE DEF s
  <1>3. CASE s.found
    <2> DEFINE b == s.planner
               c == r.planner
    <2>1. b.gridPath \in Seq(Pairs)
      BY <1>2, <1>3
    <2>2. path \in Seq(Pairs)
      <3>1. \A k \in DOMAIN b.gridPath : b.gridPath[k] \in Pairs
        BY <2>1
      <3>2. \A k \in DOMAIN b.gridPath : Route!GridToWorld(b.gridPath[k]) \in Pairs
        BY <3>1 DEF Pairs, Route!GridToWorld
      <3>3. DOMAIN b.gridPath = 1 .. Len(b.gridPath) /\ Len(b.gridPath) \in Nat
        BY <2>1
      <3> QED
        BY <3>2, <3>3
    <2> HIDE DEF path
    <2>3. s = [planner |-> s.planner, found |-> s.found, route |-> s.route]
      BY <1>2 DEF IsResult
    <2>4. /\ b.width \in Nat /\ b.height \in Nat /\ b.generation \in Nat
          /\ b.cells \in [Route!Cells(b) -> Route!Marks(b)] /\ b.gridPath \in Seq(Pairs)
          /\ b = [width |-> b.width, height |-> b.height, generation |-> b.generation, cells |-> b.cells,
                  gridPath |-> b.gridPath, path |-> b.path]
          /\ \A x \in Route!Cells(b) : b.cells[x].generation <= b.generation
      BY <1>2 DEF IsPlanner
    <2>5. r = [planner |-> [b EXCEPT !.path = path], found |-> s.found, route |-> s.route]
      BY <1>1, <1>3, <2>3
    <2>6. r.found = s.found /\ r.route = s.route /\ c = [b EXCEPT !.path = path]
      BY <2>5
    <2> HIDE DEF b, c
    <2>7. c = [width |-> b.width, height |-> b.height, generation |-> b.generation, cells |-> b.cells,
               gridPath |-> b.gridPath, path |-> path]
      BY <2>4, <2>6
    <2>8. c.width = b.width /\ c.height = b.height /\ c.cells = b.cells /\ c.generation = b.generation
          /\ c.gridPath = b.gridPath
      BY <2>7
    <2>9. Route!Cells(c) = Route!Cells(b)
      BY <2>8 DEF Route!Cells
    <2>10. Route!Marks(c) = Route!Marks(b)
      BY <2>9 DEF Route!Marks
    <2>11. IsPlanner(c)
      BY <2>2, <2>4, <2>7, <2>8, <2>9, <2>10 DEF IsPlanner
    <2>12. Route!PlanIsShortest(m, from, to, r)
      BY <1>2, <2>6 DEF Route!PlanIsShortest
    <2>13. Route!PathIsClear(m, a, r)
      BY <1>2, <1>3, <2>6, <2>8 DEF Route!PathIsClear, b, c
    <2> QED
      BY <2>11, <2>12, <2>13 DEF c, r, from, to
  <1>4. CASE ~ s.found
    <2>1. r = s
      BY <1>1, <1>4
    <2> QED
      BY <1>2, <2>1 DEF r, from, to
  <1> QED
    BY <1>3, <1>4

\* A planner that has searched any maps before finds a way exactly if there is
\* one, the way is legal and a shortest one, and the path it is simplified to
\* has the ends of the way, keeps its order and passes no obstacle, for every
\* map, start and goal (AStar::plan and all it calls, astar.cpp).
THEOREM EveryRouteIsShortest == RouteAsked => Routes
  <1> SUFFICES ASSUME RouteAsked, answer.kind = "route"
               PROVE  /\ Route!PlanIsShortest(task.map, Route!WorldToGrid(task.start), Route!WorldToGrid(task.goal), answer.plan)
                      /\ Route!PathIsClear(task.map, task.planner, answer.plan)
    BY DEF Routes
  <1>1. IsMap(task.map) /\ IsPlanner(task.planner)
        /\ answer.plan = Route!Plan(task.planner, task.map, task.start, task.goal)
    BY DEF RouteAsked
  <1> QED
    BY <1>1, PlanIs

\* A new planner is one that can search, and every plan leaves one: the stamps
\* of its cells are never ahead of its generation, whatever maps it was given
\* (AStar::plan, astar.cpp).
THEOREM EveryPlanLeavesAPlanner ==
  /\ IsPlanner(Route!NewPlanner)
  /\ \A a, m, start, goal : IsPlanner(a) /\ IsMap(m) => IsPlanner(Route!Plan(a, m, start, goal).planner)
  <1> DEFINE new == Route!NewPlanner
  <1>1. /\ new = [width |-> 0, height |-> 0, cells |-> <<>>, generation |-> 0, gridPath |-> <<>>, path |-> <<>>]
        /\ new.width = 0 /\ new.height = 0 /\ new.cells = <<>>
    BY DEF Route!NewPlanner
  <1> HIDE DEF new
  <1>2. Route!Cells(new) = {}
    <2>1. 0 .. new.width - 1 = {}
      BY <1>1
    <2> QED
      BY <2>1 DEF Route!Cells
  <1>3. <<>> \in [Route!Cells(new) -> Route!Marks(new)]
    BY <1>2
  <1>4. <<>> \in Seq(Pairs)
    OBVIOUS
  <1>5. IsPlanner(new)
    BY <1>1, <1>2, <1>3, <1>4 DEF IsPlanner
  <1> QED
    BY <1>5, PlanIs DEF new
==============================================================================
