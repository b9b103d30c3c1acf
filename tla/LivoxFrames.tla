----------------------------- MODULE LivoxFrames -----------------------------
(***************************************************************************)
(* What the Livox driver makes of the packets (pub_handler.cpp) and what   *)
(* it publishes of them (lddc.cpp), one packet at a time; LivoxDriver has  *)
(* the threads.  Times are in ticks, and so are the driver's constants.    *)
(* Places are in millimetres, angles in quarter turns, where sine and      *)
(* cosine are exact.                                                       *)
(***************************************************************************)
EXTENDS Integers, Sequences, FiniteSets

Ms == 2
IntervalMs == 2
Interval == IntervalMs * Ms
Tolerance == Interval - Ms
\* Offsets within a message have 32 bits.
Word == 32

----------------------------------------------------------------------------
(* Where a point is: SetLidarsExtParam() and the three Process functions.  *)

Cos(q) == <<1, 0, -1, 0>>[1 + (q % 4)]
Sin(q) == <<0, 1, 0, -1>>[1 + (q % 4)]
\* Of a lidar without parameters; its second row is not the identity's.
NoExtrinsics == [trans |-> <<0, 0, 0>>, rotation |-> << <<1, 0, 0>>, <<0, 1, 1>>, <<0, 0, 1>> >>]

MiddleRow(r, p, y) ==
    <<Cos(p) * Sin(y), Sin(r) * Sin(p) * Sin(y) + Cos(r) * Cos(y), Cos(r) * Sin(p) * Sin(y) - Sin(r) * Cos(y)>>
ExtParam(e) ==
    LET r == e.roll
        p == e.pitch
        y == e.yaw
    IN  [trans |-> e.trans,
         rotation |-> << <<Cos(p) * Cos(y), Sin(r) * Sin(p) * Cos(y) - Cos(r) * Sin(y),
                           Cos(r) * Sin(p) * Cos(y) + Sin(r) * Sin(y)>>,
                         MiddleRow(r, p, y),
                         <<-Sin(p), Sin(r) * Cos(p), Cos(r) * Cos(p)>> >>]

Turned(rotation, v) ==
    [i \in 1 .. 3 |-> rotation[i][1] * v[1] + rotation[i][2] * v[2] + rotation[i][3] * v[3]]
Plus(v, w) == [i \in 1 .. 3 |-> v[i] + w[i]]
\* A high point comes in millimetres, a low one in centimetres, a spherical one
\* as its depth in millimetres and two angles.
Spherical(raw) ==
    <<raw.depth * Sin(raw.theta) * Cos(raw.phi), raw.depth * Sin(raw.theta) * Sin(raw.phi), raw.depth * Cos(raw.theta)>>
Placed(kind, ext, raw) ==
    CASE kind = "high" -> Plus(Turned(ext.rotation, raw), ext.trans)
      [] kind = "low" -> [i \in 1 .. 3 |-> 10 * Plus(Turned(ext.rotation, raw), ext.trans)[i]]
      [] kind = "spherical" -> Plus(Turned(ext.rotation, Spherical(raw)), ext.trans)

\* The points of a packet, with the packet's time and interval, and its lines in turn.
Unpacked(ext, pkt) ==
    [i \in DOMAIN pkt.raw |-> [time |-> pkt.time + (i - 1) * pkt.interval,
                               line |-> (i - 1) % pkt.lines,
                               place |-> Placed(pkt.kind, ext, pkt.raw[i])]]

----------------------------------------------------------------------------
(* Frames.  clouds holds the points of each lidar since its last frame.    *)
(* synced is the flag that the packets set as they come in, for all        *)
(* lidars; the packet that is processed may be an older one.               *)

Started(lidars) == [clouds |-> [l \in lidars |-> <<>>], first |-> TRUE, last |-> 0]

BaseTime(cloud) == IF cloud = <<>> THEN 0 ELSE cloud[1].time
Recent(cloud) == IF cloud = <<>> THEN 0 ELSE cloud[Len(cloud)].time
FrameOf(h, l) == [lidar |-> l, base |-> BaseTime(h.clouds[l]), points |-> h.clouds[l]]
\* Mutant: a frame takes the points of all lidars.
Emptied_All(h, ls) == [h EXCEPT !.clouds = [l \in DOMAIN @ |-> <<>>]]
Emptied(h, ls) == [h EXCEPT !.clouds = [l \in DOMAIN @ |-> IF l \in ls THEN <<>> ELSE @[l]]]

\* With synchronised clocks the lidar's frame ends in the millisecond of a
\* multiple of the interval, unless it has just begun.
Due(cloud) ==
    LET ms == Recent(cloud) \div Ms
    IN  ms % IntervalMs = 0 /\ ms # 0 /\ Recent(cloud) - BaseTime(cloud) >= Tolerance
CheckSynced(h, l) ==
    IF Due(h.clouds[l]) /\ h.clouds[l] # <<>>
    THEN [handler |-> Emptied(h, {l}), frames |-> {FrameOf(h, l)}]
    ELSE [handler |-> h, frames |-> {}]

\* Without, the frames of all lidars end when an interval has passed on the
\* host's clock since they should have ended last.
CheckUnsynced(h, now) ==
    LET filled == {l \in DOMAIN h.clouds : h.clouds[l] # <<>>}
    IN  IF h.first THEN [handler |-> [clouds |-> h.clouds, first |-> FALSE, last |-> now], frames |-> {}]
        ELSE IF now - h.last < Interval THEN [handler |-> h, frames |-> {}]
        ELSE [handler |-> [Emptied(h, filled) EXCEPT !.last = @ + Interval], frames |-> {FrameOf(h, l) : l \in filled}]

CheckTimer(h, l, synced, now) == IF synced THEN CheckSynced(h, l) ELSE CheckUnsynced(h, now)
\* One round of RawDataProcess().
Processed(h, ext, pkt, synced, now) ==
    CheckTimer([h EXCEPT !.clouds[pkt.lidar] = @ \o Unpacked(ext, pkt)], pkt.lidar, synced, now)

\* The custom message of a frame: offsets from its time base, in 32 bits.
CustomMsg(frame) ==
    [lidar |-> frame.lidar, timebase |-> frame.base,
     points |-> [i \in DOMAIN frame.points |->
                    [offset |-> (frame.points[i].time - frame.base) % Word,
                     line |-> frame.points[i].line, place |-> frame.points[i].place]]]
\* The PointCloud2 has every point's own time instead.
PointCloud2(frame) == [lidar |-> frame.lidar, stamp |-> frame.base, points |-> frame.points]

----------------------------------------------------------------------------
(* What the driver promises.                                               *)

\* Every packet with the flag and the host's time, in order; the frames of a
\* lidar in the order they ended.
AllProcessed(h, ext, steps) ==
    LET after[i \in 0 .. Len(steps)] ==
            IF i = 0 THEN [handler |-> h, frames |-> {}]
            ELSE Processed(after[i - 1].handler, ext, steps[i].pkt, steps[i].synced, steps[i].now)
    IN  [handler |-> after[Len(steps)].handler, frames |-> [i \in DOMAIN steps |-> after[i].frames]]
Joined(seqs) ==
    LET joined[i \in 0 .. Len(seqs)] == IF i = 0 THEN <<>> ELSE joined[i - 1] \o seqs[i]
    IN  joined[Len(seqs)]

\* The points of a lidar that came in, and those of its frames.
Came(ext, steps, l) == Joined([i \in DOMAIN steps |-> IF steps[i].pkt.lidar = l THEN Unpacked(ext, steps[i].pkt) ELSE <<>>])
Went(frames, l) ==
    Joined([i \in DOMAIN frames |-> IF \E f \in frames[i] : f.lidar = l
                                    THEN (CHOOSE f \in frames[i] : f.lidar = l).points ELSE <<>>])
Forward(points) ==
    /\ \A i \in 1 .. Len(points) - 1 : points[i].time <= points[i + 1].time
    /\ points # <<>> => points[Len(points)].time - points[1].time < Word

\* Every point goes into exactly one frame or waits for it, in order; and the
\* message gives its time, as long as the lidar's clock goes forward and a
\* frame is not longer than the offsets reach.
FramesKeepPoints(lidars, ext, steps) ==
    LET done == AllProcessed(Started(lidars), ext, steps)
    IN  \A l \in lidars :
            LET came == Came(ext, steps, l)
            IN  /\ Went(done.frames, l) \o done.handler.clouds[l] = came
                /\ Forward(came) => \A i \in DOMAIN done.frames : \A f \in done.frames[i] : f.lidar = l =>
                      LET m == CustomMsg(f)
                      IN  \A k \in DOMAIN f.points : m.timebase + m.points[k].offset = PointCloud2(f).points[k].time

\* If one of a lidar's packets ends in every millisecond and none is longer than
\* an interval, its synchronised frames are about one interval long and never as
\* long as two.
Ending(ext, step) == LET u == Unpacked(ext, step.pkt) IN u[Len(u)].time
Follows(steps, i, j) ==
    /\ i < j /\ steps[i].pkt.lidar = steps[j].pkt.lidar
    /\ \A k \in i + 1 .. j - 1 : steps[k].pkt.lidar # steps[i].pkt.lidar
Dense(ext, steps, l) ==
    /\ \A i \in DOMAIN steps : steps[i].pkt.lidar = l =>
          steps[i].pkt.raw # <<>> /\ Ending(ext, steps[i]) - steps[i].pkt.time <= Interval
    /\ \A i, j \in DOMAIN steps : Follows(steps, i, j) /\ steps[i].pkt.lidar = l =>
          Ending(ext, steps[j]) - Ending(ext, steps[i]) \in 0 .. Ms
FramesAreRegular(lidars, ext, steps) ==
    LET frames == AllProcessed(Started(lidars), ext, steps).frames
    IN  \A l \in lidars : Dense(ext, steps, l) =>
            \A i \in DOMAIN frames : \A f \in frames[i] : f.lidar = l =>
                Recent(f.points) - f.base \in Tolerance .. 2 * Interval - 1

\* The host's clock ends no more frames than intervals have passed, and none
\* late if a packet comes in every interval.
FramesKeepRate(lidars, ext, steps) ==
    LET done == AllProcessed(Started(lidars), ext, steps)
        now == steps[Len(steps)].now
        ended == Cardinality({i \in DOMAIN done.frames : done.frames[i] # {}})
        often == \A i \in 1 .. Len(steps) - 1 : steps[i + 1].now - steps[i].now \in 0 .. Interval
    IN  often => /\ ended * Interval <= now - steps[1].now
                 /\ now - done.handler.last < Interval

\* A point of a lidar with parameters is where roll, pitch and yaw in this
\* order and then the translation take it.  Low points are not: their
\* translation counts ten times.
Rolled(v, q) == <<v[1], Cos(q) * v[2] - Sin(q) * v[3], Sin(q) * v[2] + Cos(q) * v[3]>>
Pitched(v, q) == <<Cos(q) * v[1] + Sin(q) * v[3], v[2], Cos(q) * v[3] - Sin(q) * v[1]>>
Yawed(v, q) == <<Cos(q) * v[1] - Sin(q) * v[2], Sin(q) * v[1] + Cos(q) * v[2], v[3]>>
PointIsPlaced(kind, e, raw, mm) ==
    Placed(kind, ExtParam(e), raw) = Plus(Yawed(Pitched(Rolled(mm, e.roll), e.pitch), e.yaw), e.trans)
============================================================================
