------------------------------ MODULE Promises ------------------------------
(***************************************************************************)
(* A question to one of the sequential parts and its answer, and what is   *)
(* promised of the answers for questions of any size.  MCAlgorithms asks   *)
(* small ones; AlgorithmProofs and GridProofs have the others.             *)
(***************************************************************************)
EXTENDS Integers, Sequences, FiniteSets

Follow == INSTANCE Tracking
Frames == INSTANCE LivoxFrames
Filter == INSTANCE IteratedUpdate
Global == INSTANCE GlobalSearch
Cloud == INSTANCE Preprocess
Field == INSTANCE DistanceField
Route == INSTANCE AStar

VARIABLES task, answer

----------------------------------------------------------------------------
(* The followers and the smoother.                                         *)

Pairs == Int \X Int
Limits == [allowBackward : BOOLEAN, maxVel : Nat, maxOmega : Nat, step : Nat \X Nat,
           horizon : Nat \ {0}, maxIters : Nat, path : Seq(Nat)]
\* The distances along a path, from its start.
IsArc(arc) == arc \in Seq(Nat) /\ arc # <<>> /\ arc[1] = 0 /\ \A i \in 1 .. Len(arc) - 1 : arc[i] <= arc[i + 1]
FollowAsked ==
    /\ answer.kind = "commands" =>
          task.controller \in {"mpc", "mppi"} /\ task.params \in Seq(Limits) /\ task.moves \subseteq Pairs
    /\ answer.kind = "reference" =>
          /\ task.path \in Seq([pos : Pairs, t : Int]) /\ task.path # <<>>
          /\ task.robot \in Pairs /\ task.horizon \in Nat
    /\ answer.kind = "headings" => task.theta \in Int /\ task.controls \in Seq(Pairs)
    /\ answer.kind = "samples" => IsArc(task.arc) /\ task.count \in Nat \ {0, 1}
    /\ answer.kind = "smooth" =>
          /\ IsArc(task.arc) /\ task.rounds \in Nat
          /\ \A m \in task.moves : \A i \in 1 .. Follow!SampleCount(task.arc) : m[i] \in Int
    /\ answer.kind = "slope" => task.points \in Seq(Int)

\* The commands stay within the limits, the reference follows the path, the
\* headings are wrapped, and a smoothed path can be followed
\* (trajectory_tracker.cpp, mppi_controller.cpp, minco_optimizer.cpp).
Followed ==
    /\ answer.kind = "commands" => Follow!CommandsAreFeasible(task.controller, Follow!Reset, task.params, task.moves)
    /\ answer.kind = "reference" => Follow!ReferenceFollowsPath(task.path, task.robot, task.horizon)
    /\ answer.kind = "headings" => Follow!HeadingsAreWrapped(task.theta, task.controls)
    /\ answer.kind = "samples" => Follow!SamplesAreEven(task.arc, task.count)
    /\ answer.kind = "smooth" => Follow!SmoothedIsFollowed(task.arc, task.moves, task.rounds)
    /\ answer.kind = "slope" => Follow!LengthFalls(task.points, 1)

----------------------------------------------------------------------------
(* The driver's frames.                                                    *)

IsSequence(s) == s \in Seq({s[i] : i \in DOMAIN s})

\* Packets one after another, and a point with the pose of its lidar.
StepsAsked(lidars, steps) ==
    /\ steps # <<>> /\ IsSequence(steps)
    /\ \A i \in DOMAIN steps :
          /\ steps[i].synced \in BOOLEAN /\ steps[i].now \in Int
          /\ steps[i].pkt.lidar \in lidars /\ steps[i].pkt.time \in Nat /\ steps[i].pkt.interval \in Nat
          /\ IsSequence(steps[i].pkt.raw)
Place(v) == v \in Int \X Int \X Int
FramesAsked ==
    /\ answer.kind = "frames" => StepsAsked(task.lidars, task.steps)
    /\ answer.kind = "placed" =>
          /\ task.pose.roll \in Int /\ task.pose.pitch \in Int /\ task.pose.yaw \in Int
          /\ Place(task.pose.trans) /\ Place(task.mm)
          /\ \/ task.data = "high" /\ task.raw = task.mm
             \/ task.data = "spherical" /\ Frames!Spherical(task.raw) = task.mm

\* Every point of a packet goes into one frame, in order and with its time, the
\* frames are of the length that is asked for, and a point is where its lidar's
\* pose takes it (pub_handler.cpp, lddc.cpp).
Framed ==
    /\ answer.kind = "frames" =>
          /\ Frames!FramesKeepPoints(task.lidars, task.ext, task.steps)
          /\ (\A i \in DOMAIN task.steps : task.steps[i].synced) =>
                Frames!FramesAreRegular(task.lidars, task.ext, task.steps)
          /\ (\A i \in DOMAIN task.steps : ~ task.steps[i].synced) =>
                Frames!FramesKeepRate(task.lidars, task.ext, task.steps)
    /\ answer.kind = "placed" => Frames!PointIsPlaced(task.data, task.pose, task.raw, task.mm)

----------------------------------------------------------------------------
(* The filter's update and the odometry.                                   *)

\* The questions: an update of the filter with a number of points and of
\* iterations, and a sequence of poses with their times.
UpdateAsked ==
    /\ answer.kind = "update" => task.points \in Nat /\ task.maximum \in Nat
    /\ answer.kind = "odometry" => task.odom \in Seq([pose : Int, time : Int])

\* An update whose last look found surfaces is finished, with neighbours that
\* were searched for in time, and the odometry's velocities lead to its poses
\* (update_iterated_dyn_share_modified, h_share_model, publish_odometry).
Updated ==
    /\ answer.kind = "update" => \A f \in Filter!Update(task.points, task.maximum) :
          Filter!UpdateIsFinished(f, task.maximum) /\ Filter!NeighboursAreLate(f, task.maximum)
    /\ answer.kind = "odometry" => Filter!VelocitiesAddUp(task.odom)

----------------------------------------------------------------------------
(* The global search.                                                      *)

PointSpace == [x : Int, y : Int, z : Int]
\* The yaws of the search are any turns.
Turns == {t \in [cos : Int, sin : Int, unit : Nat \ {0}, deg : Int] :
             t.cos * t.cos + t.sin * t.sin = t.unit * t.unit}
Configured(k) ==
    /\ k.zLayers \in Seq(Int) /\ Len(k.zLayers) > 1
    /\ {k.margin, k.peaksPerYaw, k.topK, k.minCells} \subseteq Nat \ {0}
    /\ {k.window, k.minTranslation, k.minYaw} \subseteq Nat /\ k.threshold \in 0 .. 100
    /\ k.turns # {} /\ IsFiniteSet(k.turns) /\ k.turns \subseteq Turns
\* A map with points in the layers, and any scan; the points and the place
\* that it may have been seen from.
PlaceAsked == answer.kind = "place" =>
    /\ Configured(task.settings)
    /\ IsFiniteSet(task.map) /\ task.map \subseteq PointSpace
    /\ \E p \in task.map : Global!FindLayer(task.settings, p.z) # {}
    /\ IsFiniteSet(task.scan) /\ task.scan \subseteq PointSpace
    /\ task.seen \in [x : Int, y : Int, heading : Global!Headings]
    /\ answer.grid = Global!MapGrid(task.settings, task.map)
    /\ answer.found = Global!Search(task.settings, answer.grid, task.scan)

\* The scores of the candidates are the overlaps of their turned cells with the
\* map, the best overlap of all comes first, and a scan of points of the map is
\* found with all its cells at a heading of quarter turns (global_search_2d.cpp).
Overlaps == answer.kind = "place" =>
    /\ Global!ScoresAreOverlaps(task.settings, answer.grid, task.scan, answer.found)
    /\ Global!CandidatesAreBest(task.settings, answer.grid, task.scan, answer.found)
    /\ Global!OwnScanIsFound(task.settings, task.map, answer.grid, task.points, task.seen, task.scan, answer.found)

----------------------------------------------------------------------------
(* Preprocessing.                                                          *)

IsScan(scan) ==
    /\ IsSequence(scan)
    /\ \A i \in DOMAIN scan : {scan[i].near, scan[i].noise} \subseteq BOOLEAN /\ {scan[i].yaw, scan[i].time} \subseteq Int
\* The yaws of a sweep are its angles, backwards and between half a turn
\* either way.
ScanAsked ==
    /\ answer.kind = "thin" =>
          IsScan(task.scan) /\ task.lidar \in {"avia", "oust", "velo", "mid", "other"} /\ task.k \in Nat \ {0}
    /\ answer.kind = "sweep" =>
          /\ IsScan(task.scan) /\ task.angles \in [DOMAIN task.scan -> Int]
          /\ \A i \in DOMAIN task.scan : task.scan[i].yaw \in 1 - Cloud!Turn \div 2 .. Cloud!Turn \div 2
          /\ \A i, j \in DOMAIN task.scan :
                (task.scan[i].yaw + task.angles[i] - task.scan[j].yaw - task.angles[j]) % Cloud!Turn = 0
    /\ answer.kind = "near" => task.near \in Seq(BOOLEAN) /\ \E i \in DOMAIN task.near : ~ task.near[i]
    /\ answer.kind = "surfaces" => IsSequence(task.kinds) /\ task.k \in Nat \ {0}

\* A scan is thinned in order, without what is near or noise; made-up times
\* follow the sweep; near points are no features; and surfaces are thinned run
\* by run (preprocess.cpp).
Scans ==
    /\ answer.kind = "thin" => Cloud!ScanIsThinned(task.lidar, task.scan, task.k)
    /\ answer.kind = "sweep" => Cloud!TimesFollowSweep(task.scan, task.angles)
    /\ answer.kind = "near" => Cloud!NearStaysOut(task.near, 3)
    /\ answer.kind = "surfaces" => Cloud!SurfacesAreThinned(task.kinds, task.k)

----------------------------------------------------------------------------
(* The distance field.                                                     *)

\* A map of any size with obstacles anywhere; goal and segments may lie off it.
IsMap(m) == m.width \in Nat /\ m.height \in Nat /\ m.data \in [0 .. m.width * m.height - 1 -> 0 .. 255]
ClearanceAsked == answer.kind = "clearance" =>
    /\ IsMap(task.map) /\ task.goal \in Pairs /\ task.segments \subseteq Pairs \X Pairs
    /\ task.radius \in Nat
    /\ answer.dist = Field!Build(task.map)
    /\ answer.field = Field!HeuristicField(task.map, answer.dist, task.goal)

\* The distance field has the nearest obstacle, the heuristic field the
\* shortest way round the obstacles alone, and a segment that is found safe
\* crosses no cell that is a cell or more too near (esdf_map.hpp,
\* collision_checker.hpp, kino_astar.cpp).
Clearance == answer.kind = "clearance" =>
    /\ Field!DistanceIsNearest(task.map, answer.dist)
    /\ Field!FieldIsShortest(task.map, answer.field, task.goal)
    /\ \A s \in task.segments : Field!SafeIsClear(task.map, answer.dist, s[1], s[2], task.radius)

----------------------------------------------------------------------------
(* The grid search.                                                        *)

\* A planner that has searched maps of any sizes before.
IsPlanner(a) ==
    /\ a \in [width : Nat, height : Nat, generation : Nat, cells : [Route!Cells(a) -> Route!Marks(a)],
              gridPath : Seq(Pairs), path : Seq(Pairs)]
    /\ \A c \in Route!Cells(a) : a.cells[c].generation <= a.generation
RouteAsked == answer.kind = "route" =>
    /\ IsMap(task.map) /\ IsPlanner(task.planner)
    /\ answer.plan = Route!Plan(task.planner, task.map, task.start, task.goal)

\* A plan is a shortest legal way and is found if there is one; its
\* simplification passes no obstacle (astar.cpp).
Routes == answer.kind = "route" =>
    /\ Route!PlanIsShortest(task.map, Route!WorldToGrid(task.start), Route!WorldToGrid(task.goal), answer.plan)
    /\ Route!PathIsClear(task.map, task.planner, answer.plan)
=============================================================================
