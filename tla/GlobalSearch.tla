---------------------------- MODULE GlobalSearch ----------------------------
(***************************************************************************)
(* The global search of the relocalization node (global_search_2d.cpp):    *)
(* the scan is laid over the map in every rotation and at every offset,    *)
(* per layer of height, by a product of spectra, and the offsets with the  *)
(* most scan cells on map cells become candidates.                         *)
(*                                                                         *)
(* Positions are in quarters of a cell (resolution_), so that what floor() *)
(* and llround() do to them shows; grids are sets of occupied cells.  A    *)
(* turn, one yaw of the search, has its cosine and sine as fractions of    *)
(* turn.unit and its angle in degrees.  Eigen's FFT is taken for what it   *)
(* computes: the inverse transform of a product is the cyclic convolution. *)
(* k is the configuration of the search.                                   *)
(***************************************************************************)
EXTENDS Integers, Sequences, FiniteSets

Quarters == 4

Abs(n) == IF n < 0 THEN -n ELSE n
Largest(S) == CHOOSE n \in S : \A o \in S : o <= n
Smallest(S) == CHOOSE n \in S : \A o \in S : n <= o
Ceil(q) == -((-q) \div Quarters)
\* std::llround of a / n: halves away from zero.
RoundTo(a, n) == IF a >= 0 THEN (2 * a + n) \div (2 * n) ELSE -((n - 2 * a) \div (2 * n))
Round(q) == IF q >= 0 THEN (q + 2) \div Quarters ELSE -((2 - q) \div Quarters)

\* Doubled until it is not less than value, which it is after so many rounds.
NextPowerOfTwo(value) ==
    LET result[i \in 0 .. value] ==
            IF i = 0 THEN 1
            ELSE LET last == result[i - 1] IN IF last < value THEN 2 * last ELSE last
    IN  result[value]

\* The sum of a value per layer.
Total(f, n) == LET sum[i \in 0 .. n] == IF i = 0 THEN 0 ELSE f[i] + sum[i - 1] IN sum[n]

\* A point belongs to a layer if it is above its lower and not above its
\* upper bound; at most one layer.
LayerCount(k) == Len(k.zLayers) - 1
Layers(k) == 1 .. LayerCount(k)
FindLayer(k, z) == {i \in Layers(k) : z > k.zLayers[i] /\ z <= k.zLayers[i + 1]}

----------------------------------------------------------------------------
(* The constructor: the map's grids, one per layer, every occupied cell    *)
(* widened by one in all directions.                                       *)

Dilated(S, rows, cols) ==
    {c \in (0 .. rows - 1) \X (0 .. cols - 1) :
        \E d \in (-1 .. 1) \X (-1 .. 1) : <<c[1] + d[1], c[2] + d[2]>> \in S}

\* Grid origin, size and layers; the map has points in the layers.
MapGrid(k, map) ==
    LET used == {p \in map : FindLayer(k, p.z) # {}}
        ox   == Smallest({p.x : p \in used}) \div Quarters - k.margin
        oy   == Smallest({p.y : p \in used}) \div Quarters - k.margin
        rows == Ceil(Largest({p.x : p \in used}) - Quarters * ox) + k.margin + 1
        cols == Ceil(Largest({p.y : p \in used}) - Quarters * oy) + k.margin + 1
        CellsOf(i) == {c \in {<<p.x \div Quarters - ox, p.y \div Quarters - oy>> : p \in {q \in used : i \in FindLayer(k, q.z)}} :
                           c[1] \in 0 .. rows - 1 /\ c[2] \in 0 .. cols - 1}
    IN  [ox |-> ox, oy |-> oy, rows |-> rows, cols |-> cols,
         layers |-> [i \in Layers(k) |-> Dilated(CellsOf(i), rows, cols)]]

----------------------------------------------------------------------------
(* search(): the scan's cells, and how they are laid over the map.         *)

ScanCells(k, scan) ==
    [i \in Layers(k) |-> {<<Round(p.x), Round(p.y)>> : p \in {q \in scan : i \in FindLayer(k, q.z)}}]
AllCells(k, cells) == UNION {cells[i] : i \in Layers(k)}
Count(k, cells) == Total([i \in Layers(k) |-> Cardinality(cells[i])], LayerCount(k))

\* In cells: half the side of the square that holds the scan as it is; a turned
\* scan may have cells outside.
Radius(k, cells) == Largest({1} \cup {Abs(c[x]) : c \in AllCells(k, cells), x \in 1 .. 2}) + 1
ScanSide(radius) == 2 * radius + 1
InSquare(radius) == (0 .. ScanSide(radius) - 1) \X (0 .. ScanSide(radius) - 1)

\* Row and column of a cell after a turn about the middle of the square.
Turned(c, turn, radius) ==
    <<RoundTo(turn.cos * c[1] - turn.sin * c[2] + radius * turn.unit, turn.unit),
      RoundTo(turn.sin * c[1] + turn.cos * c[2] + radius * turn.unit, turn.unit)>>
\* What comes to lie outside is dropped, what comes to lie together is one.
Rotated(S, turn, radius) == {Turned(c, turn, radius) : c \in S} \cap InSquare(radius)
\* Both index axes of the scan run backwards, so that convolving correlates.
Reversed(S, radius) == {<<ScanSide(radius) - 1 - c[1], ScanSide(radius) - 1 - c[2]>> : c \in S}

\* Mutant: the padding is for the map alone.
Padded_Map(length, side) == NextPowerOfTwo(length)
\* The side of the transform; the sum of both sides fits in without wrapping.
Padded(length, side) == NextPowerOfTwo(length + side - 1)

\* One entry of the cyclic convolution, all layers summed.
Correlation(k, grid, reversed, at, n, m) ==
    Total([i \in Layers(k) |->
              Cardinality({c \in reversed[i] : <<(at[1] - c[1]) % n, (at[2] - c[2]) % m>> \in grid.layers[i]})],
          LayerCount(k))
Scores(k, grid, cells, turn) ==
    LET radius   == Radius(k, cells)
        side     == ScanSide(radius)
        reversed == [i \in Layers(k) |-> Reversed(Rotated(cells[i], turn, radius), radius)]
        n        == Padded(grid.rows, side)
        m        == Padded(grid.cols, side)
    IN  [at \in (0 .. grid.rows + side - 2) \X (0 .. grid.cols + side - 2) |->
            Correlation(k, grid, reversed, at, n, m)]

\* Peaks of one yaw: again and again the best offset that is not near a
\* selected one, rows first.
Unsuppressed(k, score, selected) ==
    LET radius == IF k.window \div 2 > 1 THEN k.window \div 2 ELSE 1
    IN  {at \in DOMAIN score : \A p \in selected :
            Abs(at[1] - p[1]) > radius \/ Abs(at[2] - p[2]) > radius}
BestOffset(score, open) ==
    LET top  == Largest({score[at] : at \in open})
        best == {at \in open : score[at] = top}
    IN  CHOOSE at \in best : \A b \in best : at[1] < b[1] \/ (at[1] = b[1] /\ at[2] <= b[2])
WithNextPeak(k, score, selected) ==
    LET open == Unsuppressed(k, score, selected)
    IN  IF open = {} THEN selected ELSE selected \cup {BestOffset(score, open)}
Peaks(k, score) ==
    LET selected[i \in 0 .. k.peaksPerYaw] == IF i = 0 THEN {} ELSE WithNextPeak(k, score, selected[i - 1])
    IN  selected[k.peaksPerYaw]

\* A peak as a pose.
Candidate(k, grid, cells, turn, score, p) ==
    LET radius == Radius(k, cells)
    IN  [score |-> score[p], yaw |-> turn,
         x |-> grid.ox + p[1] - (ScanSide(radius) - 1) + radius,
         y |-> grid.oy + p[2] - (ScanSide(radius) - 1) + radius]
YawCandidates(k, grid, cells, turn) ==
    LET score == Scores(k, grid, cells, turn)
    IN  {Candidate(k, grid, cells, turn, score, p) : p \in Peaks(k, score)}

\* The candidates by falling score, without those near a better one in place
\* and yaw, at most topK.  std::sort leaves equal ones in any order.
NormalizedYawDistance(t, u) ==
    LET d == (t.deg - u.deg) % 360 IN IF d <= 180 THEN d ELSE 360 - d
Near(k, a, b) ==
    /\ (a.x - b.x) * (a.x - b.x) + (a.y - b.y) * (a.y - b.y) < k.minTranslation * k.minTranslation
    /\ NormalizedYawDistance(a.yaw, b.yaw) < k.minYaw
Considered(k, s) ==
    LET best == CHOOSE c \in s.left : \A o \in s.left : o.score <= c.score
        near == \E j \in DOMAIN s.kept : Near(k, best, s.kept[j])
    IN  IF s.left = {} \/ Len(s.kept) >= k.topK THEN s
        ELSE [left |-> s.left \ {best}, kept |-> IF near THEN s.kept ELSE Append(s.kept, best)]
Kept(k, raw) ==
    LET after[i \in 0 .. Cardinality(raw)] ==
            IF i = 0 THEN [left |-> raw, kept |-> <<>>] ELSE Considered(k, after[i - 1])
    IN  after[Cardinality(raw)].kept

Search(k, grid, scan) ==
    LET cells == ScanCells(k, scan)
        count == Count(k, cells)
        raw   == UNION {YawCandidates(k, grid, cells, turn) : turn \in k.turns}
    IN  IF count < k.minCells THEN <<>>
        ELSE IF 100 * Largest({c.score : c \in raw}) < k.threshold * count THEN <<>>
        ELSE Kept(k, raw)

----------------------------------------------------------------------------
(* What the candidates promise.                                            *)

\* The scan laid over the map at a pose: how many of the turned cells that are
\* left fall on map cells, and how many cells of the scan do, each for itself.
Overlap(k, grid, scan, pose) ==
    LET cells  == ScanCells(k, scan)
        radius == Radius(k, cells)
    IN  Total([i \in Layers(k) |->
                  Cardinality({c \in Rotated(cells[i], pose.yaw, radius) :
                                  <<c[1] - radius + pose.x - grid.ox, c[2] - radius + pose.y - grid.oy>> \in grid.layers[i]})],
              LayerCount(k))
Matching(k, grid, scan, pose) ==
    LET cells  == ScanCells(k, scan)
        radius == Radius(k, cells)
        at(c)  == Turned(c, pose.yaw, radius)
    IN  Total([i \in Layers(k) |->
                  Cardinality({c \in cells[i] :
                                  <<at(c)[1] - radius + pose.x - grid.ox, at(c)[2] - radius + pose.y - grid.oy>> \in grid.layers[i]})],
              LayerCount(k))

\* A quarter turn, of a cell, and a turn of the search that is one.
Headings == 0 .. 3
Quartered(c, q) ==
    CASE q = 0 -> c
      [] q = 1 -> <<-c[2], c[1]>>
      [] q = 2 -> <<-c[1], -c[2]>>
      [] q = 3 -> <<c[2], -c[1]>>
IsQuarter(turn, q) ==
    LET e == Quartered(<<1, 0>>, q) IN turn.cos = turn.unit * e[1] /\ turn.sin = turn.unit * e[2]
\* Points as they are seen from (x, y) with a heading of quarter turns.
Seen(points, x, y, q) ==
    {LET r == Quartered(<<p.x - x, p.y - y>>, (4 - q) % 4) IN [x |-> r[1], y |-> r[2], z |-> p.z] : p \in points}

\* The score of a candidate is the overlap of what the square holds at its pose:
\* nothing has wrapped round, and the index arithmetic leads back to the pose.
\* It is never above the number of scan cells that match.
ScoresAreOverlaps(k, grid, scan, result) ==
    \A j \in DOMAIN result :
        /\ result[j].score = Overlap(k, grid, scan, result[j])
        /\ result[j].score <= Matching(k, grid, scan, result[j])

\* A scan of points of the map, whatever the rounding, seen with a heading that
\* is a quarter turn and one of the search's, is found with every cell on the
\* map.  At other headings cells may be dropped or fall together, while the
\* score is divided by the number of them all.
OwnScanIsFound(k, map, grid, points, seen, scan, result) ==
    LET count == Count(k, ScanCells(k, scan))
        own   == points \subseteq map /\ scan = Seen(points, seen.x, seen.y, seen.heading)
        tried == \E turn \in k.turns : IsQuarter(turn, seen.heading)
    IN  own /\ tried /\ count >= k.minCells => result # <<>> /\ result[1].score = count

\* The list is sorted, short, free of doubles, and led by the best overlap of
\* all poses that the search compares.
CandidatesAreBest(k, grid, scan, result) ==
    LET reach == Radius(k, ScanCells(k, scan)) + grid.rows + grid.cols
        xs == grid.ox - reach .. grid.ox + reach
        ys == grid.oy - reach .. grid.oy + reach
    IN  /\ Len(result) <= k.topK
        /\ \A i, j \in DOMAIN result : i < j => result[j].score <= result[i].score /\ ~ Near(k, result[i], result[j])
        /\ result # <<>> => \A x \in xs, y \in ys, turn \in k.turns :
               Overlap(k, grid, scan, [x |-> x, y |-> y, yaw |-> turn]) <= result[1].score
============================================================================
