---------------------------- MODULE MCAlgorithms ----------------------------
(***************************************************************************)
(* The sequential parts of the system against what they promise.  A client *)
(* asks one of them a question and gets the answer of the modelled code;   *)
(* each invariant speaks of the answers of one part.  The questions are    *)
(* all those of the small sets below.                                      *)
(***************************************************************************)
EXTENDS Promises, Sequences, FiniteSets, FiniteSetsExt, Functions

CONSTANTS DeletePercent, BalancePercent, MinimalUnbalanced, CellSize

Map == INSTANCE LocalMap

vars == <<task, answer>>

Upto(S, n) == UNION {kSubset(k, S) : k \in 0 .. n}
Tuples(S, ns) == UNION {[1 .. n -> S] : n \in ns}
Pick(kind) == [kind |-> kind]
Waiting == Pick("none")

----------------------------------------------------------------------------
(* A* and the distance field: maps of 4 x 3 cells, given by the numbers of *)
(* the cells that are not free; Promises says what they give.              *)

Wide == 0 .. 11
Grid(blocked, unknown) ==
    [width |-> 4, height |-> 3,
     data |-> [i \in Wide |-> IF i \in blocked THEN Route!Obstacle
                              ELSE IF i \in unknown THEN Route!Unknown ELSE Route!Free]]
Goals == {<<12, 8>>, <<9, 3>>}
\* The planner may have searched an empty map before.
New == Route!NewPlanner
Used == Route!Plan(New, Grid({}, {}), <<0, 0>>, <<12, 0>>).planner
AskRoute ==
    \/ \E b \in Upto(Wide, 4), g \in Goals, a \in {New, Used} :
          task' = [kind |-> "route", map |-> Grid(b, {}), start |-> <<0, 0>>, goal |-> g, planner |-> a]
    \/ \E b \in Upto(Wide, 1), u \in Upto(Wide, 1), g \in Goals \cup {<<16, 0>>}, s \in {<<4, 4>>, <<-3, 0>>} :
          task' = [kind |-> "route", map |-> Grid(b, u \ b), start |-> s, goal |-> g, planner |-> Used]

\* A segment is asked about with every map.
Segments == {<<2, 2>>, <<1, 5>>, <<7, 11>>} \X ((0 .. 15) \X (0 .. 11))
AskClearance == \E b \in Upto(Wide, 3), r \in {900, Field!Straight, 2000} :
    task' = [kind |-> "clearance", map |-> Grid(b, {}), goal |-> <<13, 9>>, segments |-> Segments, radius |-> r]

----------------------------------------------------------------------------
(* The global search: scans that see part of a map of five points, and a   *)
(* point that is not on it.  Promises says what it finds.                  *)

\* Quarter turns, and one whose cosine is 15 / 17.
Turn(cos, sin, unit, deg) == [cos |-> cos, sin |-> sin, unit |-> unit, deg |-> deg]
Settings ==
    [zLayers |-> <<0, 1, 2>>, margin |-> 1, window |-> 2, peaksPerYaw |-> 2, threshold |-> 70, topK |-> 3,
     minTranslation |-> 2, minYaw |-> 20, minCells |-> 2,
     turns |-> {Turn(1, 0, 1, 0), Turn(15, 8, 17, 28), Turn(0, 1, 1, 90), Turn(-1, 0, 1, 180), Turn(0, -1, 1, 270)}]
Point(x, y, z) == [x |-> x, y |-> y, z |-> z]
Hall == {Point(0, 1, 1), Point(5, 2, 1), Point(6, 7, 2), Point(11, 7, 2), Point(2, 9, 3)}
Stranger == Point(8, -3, 1)
Places == [x : {-1, 3}, y : {2}, heading : {0, 1}] \cup {[x |-> -9, y |-> -13, heading |-> 0]}
AskPlace == \E points \in SUBSET (Hall \cup {Stranger}), p \in Places :
    task' = [kind |-> "place", settings |-> Settings, map |-> Hall, points |-> points, seen |-> p,
             scan |-> Global!Seen(points, p.x, p.y, p.heading)]

----------------------------------------------------------------------------
(* The followers and the smoother; Promises says what they do.             *)

Params == [allowBackward : BOOLEAN, maxVel : {1, 3}, maxOmega : {0, 2}, step : {<<1, 1>>, <<2, 1>>},
           horizon : {2}, maxIters : {2}, path : {<<1>>}]
             \cup {[allowBackward |-> TRUE, maxVel |-> 1, maxOmega |-> 1, step |-> <<1, 1>>, horizon |-> 1,
                    maxIters |-> 1, path |-> q] : q \in {<<>>, <<1>>}}
Moves == {<<-4, 3>>, <<1, -1>>, <<5, -5>>}
Ends == {<<0, 0>>, <<1, 0>>, <<1, 1>>, <<3, 1>>}
Arcs(lengths, ns) == {<<0>> \o [k \in DOMAIN q |-> 19 * Follow!SumUpTo(q, k)] : q \in Tuples(lengths, ns)}
Waves == {[i \in 1 .. 20 |-> d[1 + (i % 3)]] : d \in [1 .. 3 -> -1 .. 1]}
AskFollow ==
    \/ \E ps \in [1 .. 2 -> Params], c \in {"mpc", "mppi"} : 
          task' = [kind |-> "commands", controller |-> c, params |-> ps, moves |-> Moves]
    \/ \E q \in Tuples(Ends, 1 .. 4), r \in {<<0, 1>>, <<2, 0>>} :
          task' = [kind |-> "reference", robot |-> r, horizon |-> 3, path |-> [i \in DOMAIN q |-> [pos |-> q[i], t |-> i \div 2]]]
    \/ \E t \in -4 .. 4, c \in [1 .. 2 -> {0} \X (-9 .. 9)] : task' = [kind |-> "headings", theta |-> t, controls |-> c]
    \/ \E a \in Arcs(0 .. 3, 0 .. 4) : task' = [kind |-> "samples", arc |-> a, count |-> 20]
    \/ \E a \in Arcs(0 .. 1, 0 .. 3) : task' = [kind |-> "smooth", arc |-> a, moves |-> Waves, rounds |-> 1]
    \/ \E q \in [1 .. 4 -> -2 .. 2] \cup [1 .. 5 -> 0 .. 2] : task' = [kind |-> "slope", points |-> q]

----------------------------------------------------------------------------
(* Preprocessing: scans of four or five points, lines of seven; Promises   *)
(* says what becomes of them.                                              *)

Shot(ring, place, noise, yaw) ==
    [ring |-> ring, place |-> place, noise |-> noise, near |-> place = Cloud!Origin, yaw |-> yaw, time |-> 0]
\* The yaw after a turn by a, between half a turn either way.
YawAfter(yaw, a) ==
    LET x == (yaw - a) % Cloud!Turn IN IF x > Cloud!Turn \div 2 THEN x - Cloud!Turn ELSE x
AngleAt(steps, i) == Follow!SumUpTo(<<0>> \o steps, i)
SurfaceKinds == {"Nor", "Poss_Plane", "Edge_Plane"}
AskScan ==
    \/ \E l \in {"avia", "oust", "velo", "mid", "other"}, k \in 1 .. 2, r \in 1 .. 2,
         q \in [1 .. 4 -> {Cloud!Origin, "a", "b"} \X BOOLEAN] :
          task' = [kind |-> "thin", lidar |-> l, k |-> k, scan |-> [i \in 1 .. 4 |-> Shot(1 + (i % r), q[i][1], q[i][2], 0)]]
    \/ \E r \in [1 .. 5 -> 1 .. 2], s \in [1 .. 4 -> {0, 5, 7, 11}], y \in {-5, 0, 6} :
          task' = [kind |-> "sweep", angles |-> [i \in 1 .. 5 |-> AngleAt(s, i)],
                   scan |-> [i \in 1 .. 5 |-> Shot(r[i], "a", FALSE, YawAfter(y, AngleAt(s, i)))]]
    \/ \E n \in [1 .. 7 -> BOOLEAN] : (\E i \in 1 .. 7 : ~ n[i]) /\ task' = [kind |-> "near", near |-> n]
    \/ \E q \in Tuples(SurfaceKinds, 0 .. 6), k \in 1 .. 3 : task' = [kind |-> "surfaces", kinds |-> q, k |-> k]

----------------------------------------------------------------------------
(* The driver's frames: a few packets of one or two lidars; Promises says  *)
(* what becomes of them.                                                   *)

Lidars == {"l1", "l2"}
Sent(steps) == [kind |-> "frames", lidars |-> Lidars, ext |-> Frames!NoExtrinsics, steps |-> steps]
Packet(l, time, n) ==
    [lidar |-> l, time |-> time, interval |-> 1, lines |-> 2, kind |-> "high", raw |-> [i \in 1 .. n |-> <<i, 0, 0>>]]
\* One packet after another, gaps[i] ticks before the i-th; its flag and lidar.
Packets(start, gaps, ls, flags, n) ==
    [i \in DOMAIN gaps |-> LET time == start + Follow!SumUpTo(gaps, i)
                           IN  [pkt |-> Packet(ls[i], time, n[i]), synced |-> flags[i], now |-> time]]
Same(x, n) == [i \in 1 .. n |-> x]
Angles == [roll : 0 .. 3, pitch : 0 .. 3, yaw : 0 .. 3, trans : {<<7, 0, -4>>}]
AskFrames ==
    \/ \E g \in [1 .. 6 -> {1, 2}], start \in 0 .. 3, f \in BOOLEAN, n \in {<<1, 2>>, <<2, 1>>} :
          task' = Sent(Packets(start, g, Same("l1", 6), Same(f, 6), n \o n \o n))
    \/ \E g \in [1 .. 4 -> {-3, 2, 5, 35}], f \in BOOLEAN :
          task' = Sent(Packets(12, g, Same("l1", 4), Same(f, 4), Same(2, 4)))
    \/ \E g \in [1 .. 4 -> {1, 6}], ls \in [1 .. 4 -> Lidars], f \in [1 .. 4 -> BOOLEAN] :
          task' = Sent(Packets(0, g, ls, f, Same(1, 4)))
    \/ \E e \in Angles, p \in {<<1, 2, 3>>, <<-5, 0, 8>>} :
          task' = [kind |-> "placed", pose |-> e, raw |-> p, mm |-> p, data |-> "high"]
    \/ \E e \in Angles, a, b \in 0 .. 3 : LET p == [depth |-> 6, theta |-> a, phi |-> b] IN
          task' = [kind |-> "placed", pose |-> e, raw |-> p, mm |-> Frames!Spherical(p), data |-> "spherical"]

----------------------------------------------------------------------------
(* The filter's update with up to two points, and the odometry of up to    *)
(* four scans; Promises says what becomes of them.                         *)

AskUpdate ==
    \/ \E n \in 0 .. 2, m \in 0 .. 4 : task' = [kind |-> "update", points |-> n, maximum |-> m]
    \/ \E q \in Tuples((0 .. 2) \X {-1, 1, 2}, 0 .. 4) :
          task' = [kind |-> "odometry",
                   odom |-> [i \in DOMAIN q |-> [pose |-> q[i][1], time |-> Follow!SumUpTo([j \in DOMAIN q |-> q[j][2]], i)]]]

----------------------------------------------------------------------------
(* The local map: cells of three units, subtrees of four and more are      *)
(* rebuilt when unbalanced or half deleted.                                *)

Box(min, max) == [min |-> min, max |-> max]
Boxes == {Box(0, 5), Box(3, 7), Box(6, 12), Box(0, 12)}
Call(kind, args) == {[kind |-> kind, arg |-> a] : a \in args}
Calls == Call("sample", {3, 7, 8}) \cup Call("add", {5}) \cup Call("strike", {4, 9}) \cup Call("box", Boxes)
First == <<1, 4, 6, 9, 11>>
\* Where points of a scan and of the map may be, and the neighbours it takes
\* (NUM_MATCH_POINTS, 5 in the code).
Spots == {<<0, 0, 0>>, <<1, 1, 1>>, <<3, 1, 1>>, <<2, 4, 1>>, <<9, 1, 1>>, <<4, 4, 4>>, <<-1, 2, 2>>}
Enough == 2
AskMap ==
    \/ \E q \in Tuples(Calls, 0 .. 3) : task' = [kind |-> "calls", calls |-> q]
    \/ \E q \in Tuples(Calls, 0 .. 2), b \in Boxes : task' = [kind |-> "revive", calls |-> q, box |-> b]
    \/ \E S \in Upto(Spots, 3), s \in [1 .. 2 -> Spots], d \in {<<0, 0, 0>>, <<2, -1, 3>>} :
          LET Found(i) == Map!NearLists(S, [x \in 1 .. 3 |-> s[i][x] + d[x]], Enough)
          IN  \E near \in {<<a, b>> : a \in Found(1), b \in Found(2)} \cup {<< <<>>, <<>> >>} :
                  task' = [kind |-> "scan", points |-> S, scan |-> s, near |-> near]
    \/ \E x \in {10 * i : i \in -7 .. 7}, y \in {-49, -20, 0, 20, 35}, r \in {20, 32} :
          task' = [kind |-> "cube", pos |-> <<x, y>>, r |-> r]

AfterCalls == Map!AllCalled(Map!BuildTree(1, First), task.calls)
Kept ==
    /\ answer.kind = "calls" => Map!MapIsItsPoints(First, task.calls, answer.tree, {0, 5, 9})
    /\ answer.kind = "revive" => Map!RevivalIsSafe(First, task.calls, answer.tree, answer.revived)
    /\ answer.kind = "scan" => Map!ScanIsCovered(task.points, task.scan, answer.after)
    /\ answer.kind = "cube" => Map!CubeFollows(Map!CubeAt(<<0, 0>>, 100), task.pos, 100, task.r,
                                               {<<6 * i, 7 * j>> : i, j \in -8 .. 8})

----------------------------------------------------------------------------
(* The client.                                                             *)

Init == task = Waiting /\ answer = Waiting
Ask == task = Waiting /\ UNCHANGED answer
    /\ (AskRoute \/ AskClearance \/ AskPlace \/ AskFollow \/ AskScan \/ AskFrames \/ AskUpdate \/ AskMap)
Answer ==
    /\ task # Waiting /\ answer = Waiting /\ UNCHANGED task
    /\ answer' = CASE task.kind = "route" ->
                        [kind |-> "route", plan |-> Route!Plan(task.planner, task.map, task.start, task.goal)]
                   [] task.kind = "clearance" ->
                        LET dist == Field!Build(task.map)
                        IN  [kind |-> "clearance", dist |-> dist, field |-> Field!HeuristicField(task.map, dist, task.goal)]
                   [] task.kind = "place" ->
                        LET grid == Global!MapGrid(task.settings, task.map)
                        IN  [kind |-> "place", grid |-> grid, found |-> Global!Search(task.settings, grid, task.scan)]
                   [] task.kind = "calls" -> [kind |-> "calls", tree |-> AfterCalls]
                   [] task.kind = "revive" ->
                        [kind |-> "revive", tree |-> AfterCalls, revived |-> Map!AddBox(AfterCalls, 1, task.box)]
                   [] task.kind = "scan" ->
                        [kind |-> "scan",
                         after |-> Map!MapIncremental(task.points, task.scan, task.near, Enough)]
                   [] OTHER -> Pick(task.kind)
Next == Ask \/ Answer
Spec == Init /\ [][Next]_vars
=============================================================================
