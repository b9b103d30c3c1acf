------------------------------ MODULE Tracking ------------------------------
(***************************************************************************)
(* The trajectory followers of the planner library (trajectory_tracker.cpp *)
(* and mppi_controller.cpp) and its path smoother (minco_optimizer.cpp).   *)
(* What the costs say of a control is abstracted: a descent step or a      *)
(* weighted mean of noise is any of the moves a set offers.  What the code *)
(* then makes of it (shifting, limiting, remembering) is exact.  A control *)
(* is a pair of linear and angular velocity.                               *)
(***************************************************************************)
EXTENDS Integers, Sequences

Smaller(a, b) == IF a < b THEN a ELSE b
Larger(a, b) == IF a > b THEN a ELSE b
Clamp(x, lo, hi) == IF x < lo THEN lo ELSE IF x > hi THEN hi ELSE x
Magnitude(x) == IF x < 0 THEN -x ELSE x

----------------------------------------------------------------------------
(* extractReference(), the same in both controllers: the points of the     *)
(* path from the nearest one on, the last one repeated, with the velocity  *)
(* of the leg that follows as a squared length over a time.                *)

SquaredGap(p, q) == (p[1] - q[1]) * (p[1] - q[1]) + (p[2] - q[2]) * (p[2] - q[2])
Standing == [gap |-> 0, time |-> 1]

Closest(path, robot) ==
    CHOOSE i \in DOMAIN path : \A j \in DOMAIN path :
        \/ SquaredGap(path[i].pos, robot) < SquaredGap(path[j].pos, robot)
        \/ SquaredGap(path[i].pos, robot) = SquaredGap(path[j].pos, robot) /\ i <= j

\* A leg that takes no time is given one unit.
LegVelocity(path, i) ==
    IF i = Len(path) THEN Standing
    ELSE [gap |-> SquaredGap(path[i].pos, path[i + 1].pos), time |-> Larger(1, path[i + 1].t - path[i].t)]
ExtractReference(path, robot, horizon) ==
    [k \in 1 .. horizon + 1 |->
        LET i == Smaller(Closest(path, robot) + k - 1, Len(path))
        IN  [index |-> i, velocity |-> LegVelocity(path, i)]]

----------------------------------------------------------------------------
(* The headings of a prediction, in units of HalfTurn to the half turn.    *)

HalfTurn == 4
\* Turns are taken off or added until the angle is within half a turn.
WrapAngle(a) ==
    IF a > HalfTurn THEN HalfTurn - ((HalfTurn - a) % (2 * HalfTurn))
    ELSE IF a < -HalfTurn THEN ((a + HalfTurn) % (2 * HalfTurn)) - HalfTurn ELSE a
Headings(theta, controls) ==
    LET heading[k \in 1 .. Len(controls) + 1] ==
            IF k = 1 THEN theta ELSE WrapAngle(heading[k - 1] + controls[k - 1][2])
    IN  heading

----------------------------------------------------------------------------
(* The limits.  p.step is the largest change of a control in one period.   *)

Limited(p, u) ==
    <<Clamp(u[1], IF p.allowBackward THEN -p.maxVel ELSE 0, p.maxVel), Clamp(u[2], -p.maxOmega, p.maxOmega)>>
Slewed(p, u, prev) ==
    LET Change(x) == Clamp(u[x] - prev[x], -p.step[x], p.step[x])
    IN  <<prev[1] + Change(1), prev[2] + Change(2)>>

\* Mutant: the change is limited first, the range last.
Feasible_RangeLast(p, u, prev) == Limited(p, Slewed(p, u, prev))
\* The first control of a sequence is held to the acceleration, after its
\* range; the later ones only to their range.
Feasible(p, u, prev) == Slewed(p, Limited(p, u), prev)
ProjectToFeasible(p, controls, prev) ==
    [k \in DOMAIN controls |-> IF k = 1 THEN Feasible(p, controls[k], prev) ELSE Limited(p, controls[k])]

----------------------------------------------------------------------------
(* The controllers: prev is the last command, nominal MPPI's warm start.   *)
(* computeCommand() gives every state it may leave.                        *)

Reset == [prev |-> <<0, 0>>, nominal |-> <<>>]

\* MPC: the previous command, then some rounds of descent and projection.
\* The loss may have converged before any round but the first.
Shifted(u, d) == <<u[1] + d[1], u[2] + d[2]>>
Descents(p, controls, prev, moves, rounds) ==
    LET after[r \in 0 .. rounds] ==
            IF r = 0 THEN {controls}
            ELSE {ProjectToFeasible(p, [k \in DOMAIN q |-> Shifted(q[k], d)], prev) : q \in after[r - 1], d \in moves}
    IN  IF rounds = 0 THEN {controls} ELSE UNION {after[r] : r \in 1 .. rounds}
MpcCommand(c, p, moves) ==
    {[c EXCEPT !.prev = controls[1]] :
        controls \in Descents(p, [k \in 1 .. p.horizon |-> c.prev], c.prev, moves, p.maxIters)}

\* MPPI: the last nominal sequence moved up by one, unless its length is not
\* the horizon; the mean of the noise; the limits on the first control only,
\* and only in what is sent.
WarmStart(c, p) ==
    IF Len(c.nominal) # p.horizon THEN [k \in 1 .. p.horizon |-> c.prev]
    ELSE [k \in 1 .. p.horizon |-> c.nominal[Smaller(k + 1, p.horizon)]]
MppiCommand(c, p, moves) ==
    {LET nominal == [k \in 1 .. p.horizon |-> Shifted(WarmStart(c, p)[k], d)]
     IN  [prev |-> Feasible(p, nominal[1], c.prev), nominal |-> nominal] : d \in moves}
\* An empty reference leaves all as it was and gives no command.
ComputeCommand(kind, c, p, moves) ==
    CASE p.path = <<>> -> {c}
      [] p.path # <<>> /\ kind = "mpc" -> MpcCommand(c, p, moves)
      [] p.path # <<>> /\ kind = "mppi" -> MppiCommand(c, p, moves)

----------------------------------------------------------------------------
(* The smoother.  A point of the path is its distance along it; arc holds  *)
(* those of the given points.  Distances are scaled by n - 1, so that the  *)
(* n samples fall on integers.                                             *)

SampleCount(arc) == Larger(20, Smaller(200, 3 * Len(arc)))

\* The leg a target falls on: legs that end before it are passed, and none is
\* taken back.
Passed(arc, j, target) == j + 1 <= Len(arc) /\ arc[j + 1] < target
LegOf(arc, target) ==
    CHOOSE j \in DOMAIN arc : ~Passed(arc, j, target) /\ \A i \in 1 .. j - 1 : Passed(arc, i, target)
SampleAt(arc, target) ==
    LET j == LegOf(arc, target)
    IN  IF j + 1 > Len(arc) THEN [leg |-> Len(arc), ahead |-> 0]
        ELSE [leg |-> j, ahead |-> IF arc[j + 1] > arc[j] THEN target - arc[j] ELSE 0]
ResamplePath(arc, n) ==
    IF arc = <<>> THEN <<>>
    ELSE IF arc[Len(arc)] = 0 THEN <<[leg |-> 1, ahead |-> 0]>>
    ELSE [i \in 1 .. n |->
             IF i = 1 THEN [leg |-> 1, ahead |-> 0]
             ELSE IF i = n THEN [leg |-> Len(arc), ahead |-> 0]
             ELSE SampleAt(arc, (arc[Len(arc)] * (i - 1)) \div (n - 1))]

\* Losses of points on a line, and what the code adds to their gradients.
Jerk(pts, i) == pts[i + 3] - 3 * pts[i + 2] + 3 * pts[i + 1] - pts[i]
SumUpTo(f, n) == LET sum[i \in 0 .. n] == IF i = 0 THEN 0 ELSE f[i] + sum[i - 1] IN sum[n]
SmoothnessLoss(pts) ==
    SumUpTo([i \in 1 .. Len(pts) - 3 |-> Jerk(pts, i) * Jerk(pts, i)], Len(pts) - 3)
LengthLoss(pts) == SumUpTo([i \in 1 .. Len(pts) - 1 |-> Magnitude(pts[i + 1] - pts[i])], Len(pts) - 1)

SmoothnessGradient(pts, k) ==
    LET Share(i) == IF k - i \in 0 .. 3 THEN <<2, -6, 6, -2>>[k - i + 1] * Jerk(pts, i) ELSE 0
    IN  SumUpTo([i \in 1 .. Len(pts) - 3 |-> Share(i)], Len(pts) - 3)
Unit(x) == IF x > 0 THEN 1 ELSE IF x < 0 THEN -1 ELSE 0
LengthGradient(pts, k) ==
    (IF k > 1 THEN Unit(pts[k] - pts[k - 1]) ELSE 0) - (IF k < Len(pts) THEN Unit(pts[k + 1] - pts[k]) ELSE 0)

\* A descent step moves all points but the ends.
Descended(pts, move) == [i \in DOMAIN pts |-> IF i \in {1, Len(pts)} THEN pts[i] ELSE pts[i] - move[i]]
Smoothings(pts, moves, rounds) ==
    LET after[r \in 0 .. rounds] ==
            IF r = 0 THEN {pts} ELSE {Descended(q, m) : q \in after[r - 1], m \in moves}
    IN  UNION {after[r] : r \in 0 .. rounds}

\* The time of a point is the length up to it, at one unit per unit of time.
Timed(pts) ==
    [i \in DOMAIN pts |-> [pos |-> <<pts[i], 0>>, t |-> LengthLoss(SubSeq(pts, 1, i))]]

\* optimize(): the paths it may leave, none if it fails.
Optimize(arc, moves, rounds) ==
    LET samples == ResamplePath(arc, SampleCount(arc))
        pts == [i \in DOMAIN samples |-> arc[samples[i].leg] + samples[i].ahead]
    IN  IF Len(arc) < 2 \/ Len(pts) < 3 THEN {} ELSE {Timed(q) : q \in Smoothings(pts, moves, rounds)}

----------------------------------------------------------------------------
(* What the followers promise.                                             *)

\* The reference starts at the first of the nearest points, goes on point by
\* point, and stands at the end of the path and only there.
ReferenceFollowsPath(path, robot, horizon) ==
    LET ref == ExtractReference(path, robot, horizon)
    IN  /\ \A j \in DOMAIN path :
              LET gap == SquaredGap(path[j].pos, robot)
                  own == SquaredGap(path[ref[1].index].pos, robot)
              IN  IF j < ref[1].index THEN own < gap ELSE own <= gap
        /\ \A k \in 1 .. horizon : ref[k + 1].index = IF ref[k].velocity = Standing /\ ref[k].index = Len(path)
                                                      THEN Len(path) ELSE ref[k].index + 1

\* No command is farther from the one before than the acceleration allows,
\* even when setParams() has just changed the limits; inside its range it stays there, and from
\* outside it does not move away.
InRange(p, u) == Limited(p, u) = u
CommandIsFeasible(p, before, after) ==
    /\ \A x \in 1 .. 2 : Magnitude(after.prev[x] - before.prev[x]) <= p.step[x]
    /\ InRange(p, before.prev) => InRange(p, after.prev)
    /\ \A x \in 1 .. 2 : Magnitude(after.prev[x] - Limited(p, after.prev)[x])
                             <= Magnitude(before.prev[x] - Limited(p, before.prev)[x])
CommandsAreFeasible(kind, c, ps, moves) ==
    LET after[i \in 0 .. Len(ps)] ==
            IF i = 0 THEN {c} ELSE UNION {ComputeCommand(kind, b, ps[i], moves) : b \in after[i - 1]}
    IN  \A i \in 1 .. Len(ps) : \A b \in after[i - 1] : \A d \in ComputeCommand(kind, b, ps[i], moves) :
            CommandIsFeasible(ps[i], b, d)

\* A predicted heading is within half a turn and off by whole turns only.
HeadingsAreWrapped(theta, controls) ==
    LET h == Headings(theta, controls)
        Turned(k) == SumUpTo([i \in DOMAIN controls |-> controls[i][2]], k)
    IN  \A k \in 1 .. Len(controls) : /\ Magnitude(h[k + 1]) <= HalfTurn
                                      /\ (h[k + 1] - theta - Turned(k)) % (2 * HalfTurn) = 0

\* The samples are equally far apart along the path, each on the leg that
\* holds it, and the ends are the ends of the path.
SamplesAreEven(arc, n) ==
    LET samples == ResamplePath(arc, n)
    IN  Len(arc) >= 1 /\ arc[Len(arc)] > 0 =>
            \A i \in 1 .. n :
                LET s == samples[i]
                IN  /\ arc[s.leg] + s.ahead = (arc[Len(arc)] * (i - 1)) \div (n - 1)
                    /\ s.ahead > 0 => arc[s.leg] + s.ahead <= arc[s.leg + 1]

\* A smoothed path has the ends of the given one, and whoever follows it from
\* its start is never asked for more than the top speed nor, on a leg that
\* goes somewhere, for less.
SmoothedIsFollowed(arc, moves, rounds) ==
    \A path \in Optimize(arc, moves, rounds) :
        LET ref == ExtractReference(path, <<0, 0>>, Len(path))
        IN  /\ path[1].pos = <<0, 0>> /\ path[Len(path)].pos = <<arc[Len(arc)], 0>>
            /\ \A k \in DOMAIN ref : LET v == ref[k].velocity IN v.gap \in {0, v.time * v.time}

\* What is added for a point is the slope of the loss there.  For length it is;
\* for smoothness its sign is wrong.
LengthFalls(pts, e) == \A k \in DOMAIN pts :
    LengthLoss([pts EXCEPT ![k] = @ + e]) - LengthLoss([pts EXCEPT ![k] = @ - e]) = 2 * e * LengthGradient(pts, k)
SmoothnessFalls(pts, e) == \A k \in DOMAIN pts :
    SmoothnessLoss([pts EXCEPT ![k] = @ + e]) - SmoothnessLoss([pts EXCEPT ![k] = @ - e])
        = 2 * e * SmoothnessGradient(pts, k)
============================================================================
