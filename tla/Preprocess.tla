----------------------------- MODULE Preprocess -----------------------------
(***************************************************************************)
(* The preprocessing of a scan in FAST-LIO (preprocess.cpp).  A scan is a  *)
(* sequence of points with a ring, a place, a yaw in units of Turn to the  *)
(* full turn, a time in ms (0 if the sensor gives none), and whether it is *)
(* near (inside the blind range) or marked as noise.  What geometry says   *)
(* of neighbouring points is a set of the answers it may give.  Points are *)
(* counted from 1.                                                         *)
(***************************************************************************)
EXTENDS Integers, Sequences, FiniteSets

Turn == 12
Origin == "origin"

----------------------------------------------------------------------------
(* avia_handler() without features.  Place i of pl_full is filled for every*)
(* k-th valid point and the origin otherwise; the first point of a message *)
(* is never looked at.                                                     *)

Valid(scan, i) == i > 1 /\ ~ scan[i].noise
Rank(scan, i) == Cardinality({j \in 2 .. i : Valid(scan, j)})
Filled(scan, k, i) == Valid(scan, i) /\ Rank(scan, i) % k = 0
FullAt(scan, k, i) == IF Filled(scan, k, i) THEN scan[i].place ELSE Origin

Entries(s) == {s[n] : n \in DOMAIN s}
\* The numbers of S up to n, in order.
InOrder(S, n) ==
    LET list[i \in 0 .. n] ==
            IF i = 0 THEN <<>> ELSE IF i \in S THEN Append(list[i - 1], i) ELSE list[i - 1]
    IN  list[n]
\* The points of a scan that are kept, each with its time.
Kept(scan, S, time) ==
    LET list == InOrder(S, Len(scan))
    IN  [n \in DOMAIN list |-> [index |-> list[n], time |-> time[list[n]]]]
Given(scan) == [i \in DOMAIN scan |-> scan[i].time]

AviaKeeps(scan, k, i) ==
    Filled(scan, k, i) /\ FullAt(scan, k, i) # FullAt(scan, k, i - 1) /\ ~ scan[i].near
AviaHandler(scan, k) == Kept(scan, {i \in DOMAIN scan : AviaKeeps(scan, k, i)}, Given(scan))

----------------------------------------------------------------------------
(* The other sensors.  If none is given, velodyne_handler() and            *)
(* mid360_handler() make a time up from the yaw swept since the first      *)
(* point of the ring, one unit of yaw taking one unit of time; the first   *)
(* point of a ring is dropped.                                             *)

NoMemory == [seen |-> FALSE, first |-> 0, last |-> 0]
\* Mutant: the second turn is not told from the first.
Swept_NoSecondTurn(m, yaw) == IF yaw <= m.first THEN m.first - yaw ELSE m.first - yaw + Turn
Swept(m, yaw) ==
    LET time == IF yaw <= m.first THEN m.first - yaw ELSE m.first - yaw + Turn
    IN  IF time < m.last THEN time + Turn ELSE time

\* What is known of the rings before and after a point.
Passed(memory, p) ==
    IF ~ memory[p.ring].seen
    THEN [memory EXCEPT ![p.ring] = [seen |-> TRUE, first |-> p.yaw, last |-> 0]]
    ELSE [memory EXCEPT ![p.ring].last = Swept(memory[p.ring], p.yaw)]
Memories(scan) ==
    LET memory[i \in 0 .. Len(scan)] ==
            IF i = 0 THEN [r \in {scan[j].ring : j \in DOMAIN scan} |-> NoMemory]
            ELSE Passed(memory[i - 1], scan[i])
    IN  memory
\* Every point that has a time, and its time.
MadeUp(scan) ==
    LET memory == Memories(scan)
    IN  [i \in {j \in DOMAIN scan : memory[j - 1][scan[j].ring].seen} |->
            Swept(memory[i - 1][scan[i].ring], scan[i].yaw)]

\* The last point of a scan tells whether its times are given.
Times(scan) == IF scan # <<>> /\ scan[Len(scan)].time > 0 THEN Given(scan) ELSE MadeUp(scan)
EveryKth(scan, k, i) == (i - 1) % k = 0

VelodyneHandler(scan, k) ==
    LET times == Times(scan)
    IN  Kept(scan, {i \in DOMAIN times : EveryKth(scan, k, i) /\ ~ scan[i].near}, times)
Mid360Handler(scan) ==
    LET times == MadeUp(scan)
    IN  Kept(scan, {i \in DOMAIN times : ~ scan[i].near}, times)
Oust64Handler(scan, k) ==
    Kept(scan, {i \in DOMAIN scan : EveryKth(scan, k, i) /\ ~ scan[i].near}, Given(scan))
DefaultHandler(scan) ==
    Kept(scan, {i \in DOMAIN scan : ~ scan[i].near}, [i \in DOMAIN scan |-> 0])

\* With features the points go to lines by their ring instead, unthinned; of
\* Livox points only those that differ from the one before.
AviaLine(scan, ring) == InOrder(
    {i \in DOMAIN scan : Valid(scan, i) /\ scan[i].ring = ring /\ FullAt(scan, 1, i) # FullAt(scan, 1, i - 1)},
    Len(scan))
VelodyneLine(scan, ring) == InOrder({i \in DOMAIN Times(scan) : scan[i].ring = ring}, Len(scan))
Oust64Line(scan, ring) == InOrder({i \in DOMAIN scan : scan[i].ring = ring /\ ~ scan[i].near}, Len(scan))
Line(lidar, scan, ring) ==
    CASE lidar = "avia" -> AviaLine(scan, ring)
      [] lidar = "velo" -> VelodyneLine(scan, ring)
      [] lidar = "oust" -> Oust64Line(scan, ring)

\* process(): the message type and lidar_type choose the handler.
Process(lidar, scan, k) ==
    CASE lidar = "avia"  -> AviaHandler(scan, k)
      [] lidar = "oust"  -> Oust64Handler(scan, k)
      [] lidar = "velo"  -> VelodyneHandler(scan, k)
      [] lidar = "mid"   -> Mid360Handler(scan)
      [] lidar = "other" -> DefaultHandler(scan)

----------------------------------------------------------------------------
(* give_feature(): near is a line of points, g the group size, kinds the   *)
(* classification so far.  First, planes.                                  *)

Normal(near) == [i \in DOMAIN near |-> "Nor"]
FirstFar(near) == CHOOSE i \in DOMAIN near : ~ near[i] /\ \A j \in 1 .. i - 1 : near[j]

\* What plane_judge() may return at i: a group of g points is taken and then
\* all that are no farther than the group's distance, up to the end of the
\* line.  It meets a near point, or it ends and is a plane or not.
Judgements(near, i, g) ==
    LET reached(n) == \A j \in i .. n - 1 : ~ near[j]
        isNear(n) == n <= Len(near) /\ near[n]
    IN  [plane : {FALSE}, next : {n \in i .. Len(near) : reached(n) /\ near[n]}]
        \cup [plane : BOOLEAN, next : {n \in i + g .. Len(near) + 1 : reached(n) /\ ~ isNear(n)}]

\* A plane's inner points are sure, its ends possible.  Its first point is an
\* edge or sure if the last group was a plane too, which ends where this one
\* starts.  A plane up to the last point also marks the place after the line.
Marked(kinds, i, next, first) ==
    [j \in DOMAIN kinds |-> IF j = i THEN first
                            ELSE IF j \in i + 1 .. next - 1 THEN "Real_Plane"
                            ELSE IF j = next THEN "Poss_Plane" ELSE kinds[j]]
\* One round of the loop over the line at i, after a plane or not.
PlaneSteps(near, g, s) ==
    IF s.i > Len(near) - g THEN {s}
    ELSE IF near[s.i] THEN {[s EXCEPT !.i = s.i + 1]}
    ELSE {[kinds |-> s.kinds, i |-> o.next + 1, after |-> FALSE] : o \in {j \in Judgements(near, s.i, g) : ~ j.plane}}
         \cup UNION {{[kinds |-> Marked(s.kinds, s.i, o.next, first), i |-> o.next, after |-> TRUE] :
                         first \in IF s.after THEN {"Edge_Plane", "Real_Plane"} ELSE {"Poss_Plane"}} :
                      o \in {j \in Judgements(near, s.i, g) : j.plane}}
\* Every round goes on along the line, so it takes no more than its points.
Planes(near, g) ==
    LET states[n \in 0 .. Len(near)] ==
            IF n = 0 THEN {[kinds |-> Normal(near), i |-> FirstFar(near), after |-> FALSE]}
            ELSE UNION {PlaneSteps(near, g, s) : s \in states[n - 1]}
    IN  {s.kinds : s \in states[Len(near)]}

----------------------------------------------------------------------------
(* Then edges and wires.  A side of a point is near (and the point then at *)
(* infinity or in front of a blind spot), ordinary, or jumps.              *)

Sides(near, i, gap) == IF near[i] THEN {gap} ELSE {"nor", "zero", "180"}
\* edge_jump_judge() wants two points that are not near on the ordinary side.
Jumps(near, i, side) == ~ near[i + side] /\ ~ near[i + 2 * side]
EdgeKind(near, kind, i, prev, next) ==
    IF prev = "nor" /\ next \in {"zero", "inf"} /\ Jumps(near, i, -1) THEN "Edge_Jump"
    ELSE IF prev \in {"zero", "inf"} /\ next = "nor" /\ Jumps(near, i, 1) THEN "Edge_Jump"
    ELSE IF prev # "nor" /\ next # "nor" /\ kind = "Nor" THEN "Wire" ELSE kind
EdgeKinds(near, kind, i) ==
    {kind} \cup UNION {UNION {
        {EdgeKind(near, kind, i, prev, next) : next \in Sides(near, i + 1, gap)} :
            prev \in Sides(near, i - 1, gap)} : gap \in {"inf", "blind"}}
Examined(near, kinds) ==
    {i \in FirstFar(near) + 3 .. Len(near) - 3 : ~ near[i] /\ kinds[i] \in {"Nor", "Poss_Plane"}}
WithEdge(near, S, i) == UNION {{[kinds EXCEPT ![i] = e] : e \in EdgeKinds(near, kinds[i], i)} : kinds \in S}
Edges(near, kinds) ==
    LET edges[i \in 0 .. Len(near)] ==
            IF i = 0 THEN {kinds}
            ELSE IF i \in Examined(near, kinds) THEN WithEdge(near, edges[i - 1], i) ELSE edges[i - 1]
    IN  edges[Len(near)]

\* Last, small planes: an ordinary point of a flat place takes its ordinary
\* neighbours with it.  Only points examined for edges have the angle it needs.
Promoted(kinds, i) ==
    [j \in DOMAIN kinds |-> IF j \in i - 1 .. i + 1 /\ kinds[j] = "Nor" THEN "Real_Plane" ELSE kinds[j]]
WithSmallPlane(near, S, examined, i) ==
    S \cup {Promoted(kinds, i) : kinds \in {s \in S :
                i \in examined /\ s[i] = "Nor" /\ \A j \in i - 1 .. i + 1 : ~ near[j]}}
SmallPlanes(near, kinds, examined) ==
    LET small[i \in 0 .. Len(near) - 1] ==
            IF i <= FirstFar(near) THEN {kinds} ELSE WithSmallPlane(near, small[i - 1], examined, i)
    IN  small[Len(near) - 1]

Classified(near, g) ==
    UNION {UNION {SmallPlanes(near, e, Examined(near, p)) : e \in Edges(near, p)} : p \in Planes(near, g)}

----------------------------------------------------------------------------
(* What is kept of the classified line: of the surface points every k-th,  *)
(* and the mean of a group that breaks off.  An entry of surf is the set   *)
(* of the points it stands for.                                            *)

IsSurface(kind) == kind \in {"Poss_Plane", "Real_Plane"}

\* open is the first point of the group that is open, 0 if none is.
Surfaced(kinds, k, j, s) ==
    LET start == IF s.open = 0 THEN j ELSE s.open
    IN  IF ~ IsSurface(kinds[j])
        THEN [surf |-> IF s.open = 0 THEN s.surf ELSE Append(s.surf, s.open .. j - 1), open |-> 0]
        ELSE IF j = start + k - 1 THEN [surf |-> Append(s.surf, {j}), open |-> 0]
        ELSE [surf |-> s.surf, open |-> start]
Surf(kinds, k) ==
    LET after[j \in 0 .. Len(kinds)] ==
            IF j = 0 THEN [surf |-> <<>>, open |-> 0] ELSE Surfaced(kinds, k, j, after[j - 1])
    IN  after[Len(kinds)].surf
Corners(kinds) == InOrder({i \in DOMAIN kinds : kinds[i] \in {"Edge_Jump", "Edge_Plane"}}, Len(kinds))

----------------------------------------------------------------------------
(* What preprocessing promises.                                            *)

\* What is kept is in the order of the scan, not near, and thinned to one in
\* k; of unthinned Livox points none repeats the one before it.  Unthinned, they are
\* the points of the lines that features would be looked for in.
ScanIsThinned(lidar, scan, k) ==
    LET kept == Process(lidar, scan, k)
        Between(a, b) == {j \in a + 1 .. b : lidar = "avia" => ~ scan[j].noise}
    IN  /\ \A n \in DOMAIN kept : ~ scan[kept[n].index].near
        /\ \A n \in 1 .. Len(kept) - 1 :
              /\ kept[n].index < kept[n + 1].index
              /\ lidar \in {"avia", "oust", "velo"} =>
                     Cardinality(Between(kept[n].index, kept[n + 1].index)) % k = 0
              /\ lidar = "avia" /\ k = 1 /\ kept[n + 1].index = kept[n].index + 1 =>
                     scan[kept[n].index].place # scan[kept[n + 1].index].place
        /\ lidar \in {"avia", "oust", "velo"} /\ k = 1 => {kept[n].index : n \in DOMAIN kept} =
               {i \in UNION {Entries(Line(lidar, scan, p.ring)) : p \in Entries(scan)} : ~ scan[i].near}

\* If every ring turns steadily, in steps of less than a turn and for less than
\* two turns, a made-up time is the angle swept since the ring's first point.
\* angle[i] is the true angle at point i.
TimesFollowSweep(scan, angle) ==
    LET first(i) == CHOOSE f \in DOMAIN scan : scan[f].ring = scan[i].ring
                         /\ \A j \in 1 .. f - 1 : scan[j].ring # scan[f].ring
        turned(i) == angle[i] - angle[first(i)]
        steady == \A i \in DOMAIN scan : turned(i) < 2 * Turn /\ \A j \in 1 .. i - 1 :
                      (scan[j].ring = scan[i].ring /\ \A l \in j + 1 .. i - 1 : scan[l].ring # scan[i].ring)
                          => turned(i) - turned(j) \in 0 .. Turn - 1
        times == MadeUp(scan)
    IN  steady => \A i \in DOMAIN times : times[i] = turned(i)

\* No point inside the blind range is ever classified, whatever the geometry.
NearStaysOut(near, g) == \A kinds \in Classified(near, g) : \A i \in DOMAIN near : near[i] => kinds[i] = "Nor"

\* A run of surface points gives each k-th of its points and, if the line goes
\* on after it, the mean of the rest, in order.
SurfacesAreThinned(kinds, k) ==
    LET runs == {r \in (1 .. Len(kinds)) \X (1 .. Len(kinds)) :
                    /\ r[1] <= r[2] /\ \A j \in r[1] .. r[2] : IsSurface(kinds[j])
                    /\ r[1] > 1 => ~ IsSurface(kinds[r[1] - 1])
                    /\ r[2] < Len(kinds) => ~ IsSurface(kinds[r[2] + 1])}
        whole == UNION {{{j} : j \in {i \in r[1] .. r[2] : (i - r[1] + 1) % k = 0}} : r \in runs}
        rests == {{j \in r[1] .. r[2] : j > r[2] - ((r[2] - r[1] + 1) % k)} : r \in {q \in runs : q[2] < Len(kinds)}}
        surf == Surf(kinds, k)
    IN  /\ Entries(surf) = (whole \cup rests) \ {{}}
        /\ \A n \in 1 .. Len(surf) - 1 : \A a \in surf[n], b \in surf[n + 1] : a < b
============================================================================
