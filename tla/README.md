# Verification of nav_ws

TLA+ models, model-checking runs and machine-checked proofs of the control logic of
`nav_ws`, a ROS 2 (Humble) workspace that maps, localises and drives a chassis with four
omni wheels. Paths below are relative to the repository, `src/src/` being its packages.

1. [The system](#1-the-system) – inventory, state, interactions, what is hard
2. [Modules and code](#2-modules-and-code)
3. [Runs](#3-runs) – what is checked, bounds, fairness
4. [Proofs](#4-proofs)
5. [Where the code and its comments disagree](#5-where-the-code-and-its-comments-disagree)
6. [What is external, abstracted or left out](#6-what-is-external-abstracted-or-left-out)
7. [Plan](#7-plan)

To repeat a check: `tlc -config X.cfg M` for a row of section 3, `tlapm M.tla` for a module of
section 4.

## 1. The system

    Livox driver --packets--> FAST-LIO --odom->base_link TF, /cloud_registered--+
                                                                                |
    /initialpose ------------------------------> gicp_relocalization <----------+
                                                        | map->odom TF
                                                        v
    motors <--CAN-- CAN driver <-- hardware plugin <-- wheel controller <-- omni_kinematics
                                                                              ^ /cmd_vel
                                                                       Nav2, keyboard

| component | state it keeps | operations | threads | status |
|---|---|---|---|---|
| Robstride CAN driver (`hardware/src/robstride_can_driver.cpp`) | socket, consecutive failures, time of the last reconnect, feedback cache | init, sendFrame with retry and reconnect, receive loop, destructor | caller and receive thread | modelled |
| Hardware plugin (`hardware/src/hardware.cpp`) | driver, targets, measured states, timer of an outage | lifecycle callbacks, read, write | controller manager | modelled |
| Relocalization node (`gicp_relocalization/src/gicp_relocalization.cpp`) | WAIT_INIT / TRACKING / LOST, result, failure count, accumulated cloud, three clocks, odometry base | scan, initial pose and timer callbacks, global search, publishing | one, plus a clock and a robot that do not wait | modelled |
| Global search (`global_search_2d.cpp`) | layers of the map | search | – | modelled |
| FAST-LIO synchronisation (`FAST_LIO_ROS2/src/laserMapping.cpp`, `IMU_Processing.hpp`) | lidar, time and IMU buffers, `lidar_pushed`, initialisation flags | lidar and IMU callbacks, 100 Hz timer | one executor | modelled |
| FAST-LIO preprocessing and estimation (`preprocess.cpp`, `laserMapping.cpp`, `esekfom.hpp`) | selected points, neighbours, estimate and covariance | one handler per lidar, features, iterated update, odometry | as above | partly: geometry and linear algebra are any result |
| Incremental kd-tree (`ikd_Tree.cpp`) | tree, rebuild pointer, operation log, counter of readers | add, delete, search, background rebuild | main and rebuild thread | partly |
| Livox queues and publishers (`lds.cpp`, `lddc.cpp`, `ldq.cpp`) | ring of frames per lidar, semaphore, exit flags | push, publish, shut down | processing and polling thread | partly: not the IMU data's list |
| Livox packets and configuration (`pub_handler.cpp`, `livox_lidar_callback.cpp`, `lds_lidar.cpp`) | device slots, bits of missing options, packet queue, points of the running frame | reports and answers of the SDK, unpacking, frames | SDK threads, processing thread | partly: not work mode, attitude, parsing |
| Wheel kinematics (`omni_base_control/scripts/omni_kinematics.py`) | last command, its time, stopped flag | command and timer callbacks, exit | one | modelled |
| Keyboard teleoperation (`nav_bringup/scripts/teleop_keyboard.py`) | direction, time of the last key, moving flag | both keyboard modes, exit | one | modelled |
| Planner library (`omni_motion_planner`) | cells of A\*, distance field, last command, warm start | plan, check, follow, smooth | none runs it | partly: not the main loop of the kinodynamic search |
| `motor_cfg.cpp`, map scripts, launch files, vendored packages | – | – | – | left out, section 6 |

What is hard in this code:

* **CAN driver.** `sendFrame()` may close and replace the descriptor the receive thread is
  polling; a dongle disappears and comes back at any moment; three error paths count failures
  differently. *Correct* means: who asks `isCanHealthy()` is told about a lost socket, the
  cache holds only what was heard in this session, every call returns.
* **Hardware plugin.** `on_activate` never looks at a send result, `write()` decides once per
  cycle from a health that changes between its frames, its timer outlives the outage.
  *Correct* means: active implies that every motor has answered, an outage never speeds a motor
  up, a lost connection takes the component out of service.
* **Relocalization.** Scans accumulate while the robot drives, the search runs for seconds on a
  cloud that ages, three callbacks change one state machine, skipping and failing interact.
  *Correct* means: the published transform jumps only when a search or an operator localises the
  robot anew, a cloud from before a loss does not reach the next search, an ambiguous place is not
  accepted, a loss leads to a new search.
* **FAST-LIO synchronisation.** Two parallel deques for scans and their stamps, messages that
  jump back in time, packages without IMU samples. *Correct*: a scan is paired with its own
  stamp, every IMU sample is used once and in order, the filter is advanced by the time that has
  passed, and no scan waits for ever.
* **FAST-LIO estimation.** A loop that searches neighbours only sometimes, may find no surface in
  any of its rounds, and leaves state behind for the map. *Correct*: an update that ends where it should
  leaves a covariance about its estimate, the last correction rests on neighbours near the corrected place,
  the map covers what was scanned.
* **kd-tree.** Operations that arrive while a subtree is rebuilt are logged and replayed; marks wait
  at the nodes to be pushed down. *Correct*: no operation is lost or applied twice, a search
  finds what is there, a reader never sees a half-built tree.
* **Livox driver.** A ring with plain indices between two threads, a semaphore signalled only
  when its count is zero, a shutdown that joins a waiting thread, options accepted while others
  are still asked for, frames cut by either of two clocks. *Correct*: every point of a lidar goes into
  one frame, a frame is published once and in order, only a configured lidar is published,
  shutdown terminates.
* **Keyboard and wheels.** Both nodes send a zero only once. *Correct*: after the keys are up, or a
  node is gone, the wheels stand.
* **Planner, global search.** Reused memory, padded transforms, sampling between cells.
  *Correct*: what the textbook algorithm gives.

`PROJECT.json` lists the single hazards at their lines, with the properties that cover them.

## 2. Modules and code

| module | role |
|---|---|
| `CanSession` | abstract: what one driver promises of its connection (none, open, failing, lost; who was heard) |
| `CanDriver` | the driver: sender, receive thread, interface, clock |
| `MCCanDriver` | the driver under a caller that sends anything |
| `OmniHardware` | the plugin on top of `CanDriver` (EXTENDS it: same variables, plus its own) |
| `MCOmniHardware` | chassis of one and two motors, commands |
| `OutageClock` | `OmniHardware` with a clock that measures the real outage |
| `HardwareProofs` | theorems about the driver, and about the plugin resting on them |
| `MapFrame` | abstract: what users of map->odom may rely on |
| `Relocalization` | the relocalization node |
| `TurnInPlace` | `Relocalization` with the rotation of the robot |
| `RelocalizationProofs` | theorems about the node |
| `LioSync` | FAST-LIO's subscriptions, `sync_packages()` and the pipeline of a scan |
| `LioSyncProofs` | theorems about them |
| `PointMap` | abstract: a set of points that changes by whole calls |
| `IkdTree` | the kd-tree's operations on nodes, as operators |
| `IkdRebuild` | main thread, searches and rebuild thread on that tree |
| `MCIkdRebuild` | nine points and the calls of the mapping |
| `IkdRebuildProofs` | theorems about the locks of the rebuild |
| `LivoxConfig` | device slots and configuration of the lidars |
| `LivoxDriver` | packets, frames, rings, semaphore and shutdown; EXTENDS `LivoxConfig` |
| `MCLivoxDriver` | two lidars |
| `LivoxProofs` | theorems about both |
| `WheelCommands` | keyboard, `cmd_vel`, kinematics, wheels |
| `WheelProofs` | theorems about them |
| `LivoxFrames` | unpacking of points, frames and messages with their times |
| `Preprocess` | the handlers of the lidars and the features |
| `IteratedUpdate` | measurement model, iterated update, odometry message |
| `LocalMap` | the recursive operations of the kd-tree, the map's growth, the cube round the robot; EXTENDS `IkdTree` |
| `GridMap` | the occupancy grid and the lengths of steps on it |
| `AStar`, `DistanceField` | path search and simplification; distance field, collision checks, heuristic field; both EXTEND `GridMap` |
| `Tracking` | MPC, MPPI, the smoother |
| `GlobalSearch` | the matching of a scan with the layers of the map |
| `Promises` | what `LivoxFrames`, `Preprocess`, `IteratedUpdate`, `Tracking`, `GlobalSearch`, `DistanceField` and `AStar` promise, for questions of any size |
| `MCAlgorithms` | a client that puts small questions to these nine modules |
| `AlgorithmProofs` | theorems about the first five in `Promises` |
| `GridProofs` | theorems about the other two, `DistanceField` and `AStar`; EXTENDS `AlgorithmProofs` |

**CanDriver.** `sock` is `socket_fd_` ("none" is -1, "stale" a descriptor whose interface was
unplugged), `fails` is `consecutive_fail_count_`, `cooldown` the static `last_reconnect`, `valid`
the `is_valid` flags of `feedbacks_`. A `sendFrame()` is a sequence of actions, because others
run between its system calls: `Send`, then per attempt `WriteFrame`, `WriteBusy` (queue full),
`WriteNoSocket` (`socket_fd_ < 0`) or `WriteError` (any other errno), then for a reconnect
`ResetInterface`, `SetupSocket` or `SetupFails`, and `Resend`. The receive thread is `RxPoll`
followed by `RxRead` or `RxMiss`: the descriptor is read again between the two. `Create` and
`Destroy` are constructor with `init()` and destructor. `Unplug`, `LinkChanges` and `Tick` are
the world.

**OmniHardware.** `op` is the control thread's place in a callback, `call` (of `CanDriver`) its
place in the `sendFrame()` made from there; the callbacks' loops over the motors are
`ActivateSend`/`ActivateVerify`, `DisableNext` and `WriteNext`. `FrameOut` and `FrameFails` are
the steps of `CanDriver` seen from above, together with what the frame does to its motor, or the
loss of the frame. The history variable `clean` says that the present driver has lost no frame.
read() and write() run on inactive components too, as the manager of Humble calls them, as
long as there is a driver: without one either would dereference null, and process and behaviour
end.

**Relocalization.** A pose is a number on a line, a score a natural number; GICP may return any
pose, the global search any list of candidates. A scan comes into the queue of its subscription with
`Arrive` and is taken out by its callback, `Scan`; a full queue drops its oldest. A message on /initialpose
comes with `AskPose` and is taken by `InitialPose`, or `IgnorePose` if the scans' frame cannot be
transformed yet. `Search` starts the search on the cloud, `SearchFails` and `SearchAccepts` end it, and
scans, messages, `Drive` and `Tick` happen in between, callbacks do not. A registration in TRACKING is one step
(`TrackSkips`, `TrackAccepts`, `TrackRejects`): what comes while it blocks the executor only
waits, as if it had come just before. LOST is `Restart`. `old`, `late` and `skipped` are history variables. In `MapFrame` a search (`Find`) ends a
silence, a correction (`Correct`) is bounded by `MaxJump`, and a farther move (`Place`) uses up a message of the operator.

**LioSync.** Everything runs on one executor, so a callback is one action: `LidarCallback` stands for
both lidar callbacks, `ImuCallback` for the IMU's, and a firing of the timer is `TimerWaits`
(`sync_packages()` pushes a scan but the IMU has not reached its end) or `TimerPairs`, which is
`sync_packages()` and, in the same step, the whole pipeline behind it: `HandlePackage`, `Process`
(`InitImu` or `UndistortPcl`), `Register`. A scan is its stamp and whether enough of its points are
left ("few": at most one, the branch that warns). Times are ticks; `Advance` adds up the very time
steps that `UndistortPcl` gives to the filter. `last_lidar_end_time_` is set by no constructor and
starts with any value. The clocks may jump back (`ScanArrives`, `ImuJumps`).

**IkdTree, PointMap, IkdRebuild.** A tree is a function from positions (1 the root, 2n and 2n+1 the
sons of n) to nodes with point, marks and range; `IkdTree` has the operators on it (`PushDown`,
`Update`, `CriterionCheck`, `BuildTree`, searches). What the code does recursively, on the way down and again on
the way up, is a fold over the positions in rising and then in falling order (`Down`, `Up`): a father has a smaller number than his sons. In `IkdRebuild` the main thread visits a subtree node
by node (`EnterNode`, `LeaveNode`), because the other thread runs in between; what it does under
`working_flag_mutex` is one step (`LockedOperation`). A subtree that fails the criterion is rebuilt
on the spot (`RebuildInline`), handed over (`RebuildOrdered`) or left for later (`RebuildLater`). A search is
`SearchBegins` and `SearchEnds` with the counter in between. The thread is `ThreadTakes`,
`ThreadLocksSearch`, `ThreadCopies`, `ThreadReplays`, `ThreadDrained`, `ThreadSwaps`, `ThreadClimbs`,
`ThreadReleases`, `ThreadClears`. `PointMap` is the abstract set of points. The history variable `spoiled`
is raised where the code leaves its own protocol; the properties speak of what comes before, and
section 5 says what comes after:

1. `rebuild_flag` is lowered after the lock is released (`ikd_Tree.cpp:351`), so an operation in
   between is logged and never replayed;
2. a snapshot without points builds nothing, does not look at the log, and dereferences the null
   root (`:332`);
3. `Add_Points` and `Delete_Point_Boxes` compare the root with the target once per call
   (`:513`, `:637`), so a target ordered during the call is entered unlocked and unlogged;
4. an inline rebuild of an ancestor frees the node that holds `Rebuild_Ptr` (`:750`).

**LivoxConfig, LivoxDriver.** `LivoxConfig` is the life of a lidar up to sampling: a report of the
SDK takes a device slot (`known`), options of the configuration file are requested, every acceptance
clears its bit, a timeout sends the request again, a refusal is given up. `LivoxDriver` adds the processing thread (`Collects`, `FrameEnds`,
then per lidar `Store`, `Bump`, `Signal`: slot, index and semaphore are written one after the other) and
the polling thread (`PollTop`, `Wait`, `Scan`, `PrePop`, `PopUpdate`). The indices wrap round at `IndexSpace`
(2^32 in the code). `exit` is the destructor's progress, `silence` the lidars being switched off; `late` is a history
variable.

**WheelCommands.** `Teleop` is one turn of `run_evdev` or `run_termios`, `TeleopEnds` its end with or
without the last zero; `OnCmd` and `OnTimer` are the callbacks of `omni_kinematics`, `KinEnds` its end,
`Deliver` a message to the wheel controller. `Tick` is a timer period; it waits until the timer
of the period before has run. A wheel speed is a fraction, so that the scaling of `mix()` is exact.

**LivoxFrames, Preprocess, IteratedUpdate, LocalMap, GridMap, AStar, DistanceField, Tracking, GlobalSearch** are
sequential code, written as operators next to the reference definition of what they compute. Their data are
integers: quarter cells, ticks, and for a turn a fraction each for cosine and sine. Each header says what is abstracted; where
geometry or a cost decides (whether points are a plane, which move a weighted mean is, how large a correction
gets), it is any of the answers it could give. `MCAlgorithms` asks all questions of a finite set, `Ask`, and
gets the modelled answer, `Answer`. The loops of those with theorems are functions of the number of the round or of the loop's state;
only `LocalMap` has recursive operators; its trees have points with one coordinate, its scans points with three. A map of `DistanceField`
is an array numbered row by row, as `esdf_map.hpp` reads it, one of `AStar` a `GridMap`, numbered column by column (`GetCell`). The planner of `AStar` is part of a question, new or used, so
that a search meets the cells of an earlier one; its generation does not wrap (the code's does after 2^32 searches), and
a way that costs `Infinity` (a thousand cells in a row) or more counts as none, for the code's search and for the reference alike.

Refinements checked: `CanDriver` implements `CanSession` (`ImplementsSession`, proved),
`OmniHardware` implements `CanDriver` (`UsesDriver`, proved, and so `CanSession` too), `Relocalization`
implements `MapFrame` (`ImplementsMapFrame`, proved), `IkdRebuild` implements `PointMap`
(`ImplementsPointMap`, model-checked, up to `spoiled`).

## 3. Runs

| run | module, cfg | asks |
|---|---|---|
| `can_driver` | `MCCanDriver`, `MCCanDriver.cfg` | does every interleaving of sender, receive thread and interface implement `CanSession`, is a lost socket reported and final? |
| `can_reconnect` | `MCCanDriver`, `MCCanReconnect.cfg` | *violated*: does sending on an unhealthy bus trigger a reconnect? |
| `omni_hardware` | `MCOmniHardware`, `MCOmniHardware.cfg` | two motors: activation, deactivation, shutdown, clean-up on a lossy bus; a socket that returns between the frames of one write() |
| `omni_outage` | `MCOmniHardware`, `MCOmniOutage.cfg` | one motor: does the plugin use the driver as the driver allows; liveness in an outage |
| `outage_clock` | `OutageClock`, `OutageClock.cfg` | *violated*: does write() give up only after 30 s of outage? |
| `relocalization` | `Relocalization`, `Relocalization.cfg` | search, tracking, loss, manual poses in every order; liveness |
| `turn_in_place` | `TurnInPlace`, `TurnInPlace.cfg` | *violated*: is a registration skipped only when the robot has not turned? |
| `lio_sync` | `LioSync`, `LioSync.cfg` | which scans, samples and times reach the filter, with gaps and a clock that jumps back; liveness |
| `ikd_rebuild` | `MCIkdRebuild`, `MCIkdRebuild.cfg` | does the tree with its rebuild thread implement `PointMap`, are searches exact; liveness |
| `livox_driver` | `MCLivoxDriver`, `MCLivoxDriver.cfg` | configuration, rings, wake-ups and shutdown interleaved; liveness |
| `wheel_commands` | `WheelCommands`, `WheelCommands.cfg` | do the wheels stand when they should; liveness |
| `algorithms` | `MCAlgorithms`, `MCAlgorithms.cfg` | do the sequential parts compute what their reference definitions say? |

Three more configurations are kept beside them: `LioTypes.cfg` (with `LioSync`) and `MCIkdTypes.cfg` (with
`MCIkdRebuild`) check the type invariants that are not proved and the two properties of the rebuild that only section 4 names, and `MCIkdLoss.cfg` (with `MCIkdRebuild`) shows the
lost operations of section 5 as a violation of `RebuildKeepsPoints`.

What the properties say:

* `LostSocketIsUnhealthy`, `LostUntilReplaced`: a running driver without a socket is unhealthy,
  and stays without one until it is replaced. `ImplementsSession`: `CanSession`, in particular
  that nothing is heard in a lost session.
* `ActiveMeansHeard`: on an active component the driver exists, its thread runs, every motor has
  answered it. `ObeyedOnCleanBus`: if nothing was lost, active means all motors
  enabled, shut down means none, disabling goes joint by joint.
* `NoSpeedUpInOutage`: a write() that found the bus unhealthy makes no motor faster, also when
  the socket returns between its frames. `LostEndsInError`: a lost session ends the active state.
  `ActivationEnds`: on_activate returns.
* `OldScansAreFew`: a loss clears the cloud, so that of the scans from before it only those still
  waiting in the subscription come to the next search. These do: rclcpp delivers up to ten of them after a
  registration that has blocked the executor, and the node does not look at their stamps.
  `AcceptedIsClear`: comparing the best candidate with the first rival only is enough.
  `ImplementsMapFrame`: while tracking, the transform moves farther than `MaxJump` only for a message of the
  operator, and exactly `gicp_max_consecutive_failures` misses in a row silence it. `AlignsAgain`: after a skipped registration comes one that is not.
  `LossLeadsToSearch`: LOST leads to a search unless an operator is faster.
* `PairedUntilLoopBack`: a scan is paired with its own stamp until the lidar's clock jumps back, and no
  pop ever finds an empty deque. `SamplesOnceInOrder`: no IMU sample is used twice or for a scan that ended
  before it. `FilterKeepsTime`: the steps given to the filter add up to the time between two scans' ends, over
  gaps and packages without samples. `OdometryOfItsScan`: an odometry is of the scan just paired, unless the
  package had no samples. `EveryScanIsTaken`: neither buffer blocks the other for good.
* `SearchExcludesRebuild`: no search is among nodes that are flattened or swapped. `SearchesFindAll`: a
  search finds what the tree holds, whatever marks are still on their way down. `ImplementsPointMap`: calls
  change the map as `PointMap` says and rebuilding not at all. `EveryRebuildEnds`.
* `RingIsFifo`: the ring is a queue although nothing locks it and its indices wrap. `NoLostWakeup`: the
  polling thread does not sleep on a frame it should publish. `SamplingMeansConfigured`: data are let through
  only of a lidar that has accepted all it was asked. `FramesPublished`: a stored frame is published.
  `ExitEnds`: the destructor's join returns, given that a known lidar still sends.
* `WatchdogStops`: a period after commands have ceased the wheels stand. `StoppedIsTold`: the flag that
  suppresses zeros is up exactly when the last message was a zero. `ReleaseStops`, `GoneStops`: released keys
  and an ended teleoperation stop the wheels.
* `Routes`: the path of A\* is shortest, also on reused memory, and no leg of the simplified path runs through
  an obstacle. `Clearance`: the distance field is the nearest obstacle's octile distance, the heuristic field
  is the shortest way round obstacles alone, a segment called safe crosses no cell nearer than the radius by a straight step or more (no
  obstacle, if the radius is a cell). `Overlaps`: the scores of padded
  convolutions are the overlaps of the turned cells that are left with the map, a scan seen at a quarter turn is found with all its
  cells, the list is sorted and led by the best overlap of all.
* `Followed`: commands respect limits of speed and acceleration, the reference follows the path in time, angles stay in
  half a turn, samples are even, smoothing keeps the ends, what is added for a point is the slope of the length. `Scans`: thinning
  keeps each k-th point, made-up times follow the sweep, near points stay out.
* `Framed`: every point goes into exactly one message, with its time, frames are of one length (synchronised)
  or one rate (not), a place is the rigid transform of what was measured. `Updated`: an update whose
  last look found surfaces is finished, with the updated covariance about its last estimate, the last correction rests on neighbours
  near the estimate, velocities add up to the way. `Kept`: the map is
  the points its calls leave, a revival brings back only what was deleted, every point of a scan has one of the map in its cell or
  one that touches it and no cell loses its last point, the
  cube follows the robot (if it is wide enough) and loses nothing inside.

The type invariants of the other modules are theorems of section 4. `HardwareTypeOK` includes that no frame carries a
command that is not finite, `RelocTypeOK` bounds the failure count, `WheelTypeOK` the wheels' speeds.

**Bounds.** They are constants of the cfg files.

* Counters that the code only compares with a limit saturate there, so no behaviour is cut off:
  `fails` at `FailThreshold` (20 in the code, 1 to 3 in the runs), `cooldown` counts down to 0,
  the ages `elapsed`, `accum`, `searched`, `tracked`, `age`, `keyAge` stop at the limit they are compared with.
  The thresholds need only be large enough for a partial count (3 in `can_driver`), and the
  outage threshold small enough to be crossed in the middle of a cycle.
* Two motors show what one motor's answer may do for another and a failed activation with
  motors left on; every motor is treated alike. Two attempts: a first, a middle and a last
  try coincide in the limit of three of the code. `can_driver` uses the retry limit of the code;
  `omni_hardware` needs no retries, since those are `can_driver`'s question.
* Two velocities (stopped, fast) and a command that is not finite are all that write() tells
  apart. `omni_hardware` has two motors and a controller that drives both, since its question is what happens
  between the frames of one write(); one motor is enough in `omni_outage`, whose properties are about the
  decision of a cycle and about callbacks that end.
* Three poses with `MaxJump` 1 give near and far; candidates on them are equal, near or apart
  (`DedupDistance` 2); scores 20 and 30 at a ratio of 95 % tie or differ clearly; three candidates
  are a best, a duplicate and a rival in every order. `MaxFailures` 2 has a failure that is not
  the last. `CloudLimit` 1 makes the cloud overflow. `QueueDepth` 2 (10 in the code) lets a
  queue be empty, full and in between, with old and new scans side by side.
* `lio_sync`: scans last two ticks and a sample comes every tick, so that a scan has none (in a gap), some, or one on
  its very end; nine ticks are four scans; `MaxJumps` 1 is one jump of either clock, `MaxBacklog` 2 one scan
  behind another.
* `ikd_rebuild`: nine points with subtrees of four and more for the thread (`MultiThreadPoints`; 1500 in the code),
  so that the root's sons qualify and their sons are rebuilt on the spot; three calls
  are one that orders the rebuild and two during it.
* `livox_driver`: two lidars of which one is not in the configuration file; a ring of two and indices that wrap at four,
  a multiple of the ring's size as 2^32 is; `MaxRaw` 1 packet behind, `MaxReports` 1 report per lidar.
* `wheel_commands`: two opposite keys press, cancel and release; a speed of 2 above a limit of 1 is scaled; timeouts of
  one period and a queue of two (10 in the code) can be full and late.
* `algorithms`: grids of 4 x 3 cells with up to four obstacles, a hall of five points in two of three layers, paths of up to
  four legs, scans of up to seven points, up to six packets, two points in the filter, maps of up to five points and two
  calls, three neighbours' distances from a cell's middle and scans of two points in space with two neighbours each (`NUM_MATCH_POINTS`, 5
  in the code), radii below, at and above a cell, turns by quarters and one of 28 degrees. They contain the boundary cases of the code: the first and last element, ties, one
  element, none.

The state spaces have 32 184 (`can_driver`), 10.7 million (`omni_hardware`), 577 416
(`omni_outage`), 452 502 (`relocalization`), 232 271 (`lio_sync`), 211 616 (`ikd_rebuild`), 123 270 (`livox_driver`),
116 304 (`wheel_commands`) and 177 565 (`algorithms`) states.

**Fairness.** `HardwareSpec` assumes that the control thread takes its next step (the manager
runs its loop, system calls return: sends have a 10 ms timeout) and that time passes. Nothing
is assumed of the receive thread, the interface or the bus. `RelocSpec` assumes that scans
arrive and are delivered, that the timer fires, that a search ends, and that time passes; not that the robot moves, that
an operator helps or that a search succeeds. `LioSpec` assumes that the executor serves the timer
and that the IMU sends on (the code waits for it without a limit); nothing of the lidar. `IkdRebuild`
assumes of both threads and a running search that they go on, written out as conditions on their state; the wait for a moment
without searches (`ThreadLocksSearch`) is strongly fair, because the mapping searches once per scan and there are
none between scans. `LivoxDriver` assumes that both threads run, that frame periods end while the lidars
send, and that the polling thread gets back to its semaphore (it publishes faster than the lidars fill rings); nothing
of configuration, exit or silence. `WheelCommands` assumes that both nodes run, messages arrive and time passes; nothing of the
person at the keyboard.

Every checked property is sensitive to the code: `PROJECT.json` pairs it with a plausible bug of
one definition (the `..._...` definitions marked "Mutant") that makes TLC find it violated.

## 4. Proofs

All theorems hold for every value of the constants that satisfies `DriverAssumption`,
`HardwareAssumption`, `RelocAssumption`, `LioAssumption`, `ConfigAssumption` with the `DriverAssumption` of
`LivoxDriver` (and `RingAssumption` for `RingsAreQueues`), or `WheelAssumption` (any number of motors, lidars, attempts, candidates; any
thresholds, speeds and ring sizes), and use only the safety part of the specification.

**HardwareProofs.** Of the driver, `DriverTypes`, `LostSocketTheorem`, `DriverImplementsSession` and
`LostUntilReplacedTheorem` rest on the invariant `DriverInv`. `LostSocketIsUnhealthy` alone is
not inductive: while `reconnect()` runs there is no socket, and only the facts that a reconnect
starts at the threshold and that the socket exists again before the counter is reset keep it
true. `DriverInv` adds that a reconnect in progress means an
unhealthy bus.

Of the plugin, `UsesDriverTheorem` shows that every step of the plugin is a step or a
stutter of `CanDriver`; with it the driver's theorems hold inside the plugin
(`HardwareLostSocket`). `HardwareTypes` follows. `ActiveMeansHeardTheorem` needs `ActiveInv`: an
activation in progress has heard the joints it has passed, and its driver stays in place.
`ActiveReadsAllTheorem` follows from it: on an active component read() never leaves a mixture of measured and
initial values (on an inactive one, after a failed activation, it does). `ObeyedTheorem` needs `CleanInv`:
`InFlight` ties the frame in the driver to the place in the callback, `EnabledSoFar` and `DisabledSoFar` say
how far the motors are. `NoSpeedUpTheorem` needs that the frame in flight carries zero (`ZeroInv`).

**RelocalizationProofs.** `RelocTypes` and `ImplementsMapFrameTheorem` need `RelocInv`: while
tracking, the count is below its limit and there is a pose, neither of which follows from the
types, and no more scans are old than there are scans (`HistoryInv`). `OldScansAreFewTheorem` holds step by step on top of it: a loss clears
the cloud and makes what waits old, a delivery moves an old scan from the queue to the cloud, and
every way out of silence clears the cloud again.
`AcceptedIsClearTheorem` needs `BusyInv` (a search runs in WAIT_INIT only) and that a non-empty
set of indices has a least one, from well-founded induction of the library.
`ImplementsMapFrameTheorem` shows for each action which step of `MapFrame` it is; the interesting
cases are the ways into TRACKING, which must set the count to zero, a manual pose while
tracking, which uses up a message, and an accepted registration, which must be near.

**LioSyncProofs.** `PairedAlways` and `SamplesAlwaysInOrder` rest on `SyncInv`, the conjunction of
the types of the buffers (`BufferInv`), the pairing itself and the order of the samples (`OrderInv`). The latter
adds to the property that no sample, buffered or in the last package, is newer than the last one received:
without it a new sample might not fit behind the others. `FilterAlwaysKeepsTime` needs `TimeInv`: once
the filter has been advanced to the end of a scan, every sample still to come lies behind it, so that the steps cut at both ends leave neither hole nor
overlap; their sum is followed from sample to sample, over any number of them. `OdometryAlwaysOfItsScan` needs `NoPointsYet`: before the IMU
is initialised there are no points to register, which is why the package that completes the
initialisation publishes nothing.

**LivoxProofs.** `ConfiguredBeforeData` needs `ConfigInv`: of a lidar that has been asked for anything, every option
is accepted, or its bit is set, or it is about to be by the report that holds the mutex. `TypeCorrect` includes that the semaphore
never counts past one. `WakeupsArrive` needs `WakeInv`: unless a signal is due or given, every ring that the
polling thread has passed in this round is empty. That is the argument why `Signal` may leave a count of one
alone. `RingsAreQueues` needs `RingInv`: write index minus read index, modulo `IndexSpace`, is
at most the ring's size, the slots between them hold the frames in order, and between the two steps of a push or a pop the frame is in its slot and not
yet, or still, counted. `RingAssumption` says that `IndexSpace` is a multiple of the
ring's size, as 2^32 is of the sizes `CalculatePacketQueueSize` gives (powers of two); without it the slot after the wrap would be the wrong one.

**IkdRebuildProofs.** The theorems hold for any points, calls and `MultiThreadPoints`. `ThreadsAgree` is the invariant, `RebuildInv`:
the counter of searches is -1 exactly while the rebuild thread owns the nodes and 1 exactly during a search, `working_flag_mutex` is the
thread's while it copies and from the last replay to its release, operations are logged from the order to the very end. `SearchAlwaysExcludesRebuild`
and `SwapNeverMisses` (the log is empty and stays so from the last look at it to the swap) follow; `TargetAlwaysStays` needs that the main thread takes
the target away only where it leaves the protocol.

**AlgorithmProofs.** Each theorem says that an answer keeps its promise if the question is one that the code can be asked, of any size:
`EveryUpdateIsKept == UpdateAsked => Updated`, `EveryPacketIsFramed == FramesAsked => Framed`, `EveryPathIsFollowed == FollowAsked =>
Followed`, `EveryOverlapIsFound == PlaceAsked => Overlaps`, `EveryScanIsPrepared == ScanAsked => Scans`. The hypotheses in `Promises` are
types and what the caller sees to (distances along a path do not fall and start at 0, at least one control in the
horizon, the map has a point in some layer, a turn has a cosine and a sine whose squares add up to one, the yaws of a sweep are its angles modulo a turn), and every question of `algorithms`
satisfies them. Two lemmas carry the proofs: a function defined along 0 .. n exists
(`Recursion`), and what holds at 0 and is passed on holds up to n (`Induction`, over a set of places). The arguments are

* for an update (`UpdateInv`): while it is under way the covariance has been carried along to the estimate before the last correction, and where the
  loop may end, the next look searches or the last one did so after a correction (`Fresh`); it ends only where a look has found surfaces, and an update that
  is not finished has lost them, or never had any;
* for frames (`RunMeans`, `JoinedGrows`): a packet's points are appended to the open frame of its lidar, and what has left,
  followed by what is open, is always what has come; for their length (`ShortStays`): the open frame of a lidar is
  always so short that a packet in time cannot make it two intervals long;
* for commands (`ChangesAreLimited`): a change clamped to a step, towards a value clamped to a range, stays in the range or comes no farther
  from it, whatever range and step were set since the last command;
* for headings: a wrapped angle differs by whole turns, and so does the sum; for samples: the least leg that is not passed holds the
  target, as the shares of the length lie within it; for smoothing: the length up to a point is the sum of the legs before it, so a leg's time is
  its length; for the slope: the two lengths differ in the two legs at the point only;
* for the global search: turned cells that lie in the square, once each, are what is laid over the map (`SquaresAre`, `ImagesAreFewer`); the padding covers the map and the reversed scan (`PowersCover`), so that the remainder by which the transform
  wraps is the index itself (`NearRemainders`, `NothingWraps`), and a sum over the reversed scan counts the cells that fall on the map
  (`SpreadsAre`, `LayerCounts`). A cell counts as often in `Matching` as its image does or more (`MatchingIsMore`). The peaks of a yaw contain its best offset, offsets outside the searched square score
  nothing, and the selection keeps its list sorted and free of doubles with the best in front (`Listed`). At a quarter turn the square loses
  no cell and different cells stay different (`NothingFallsOutside`, `QuartersDiffer`), so a scan of the map's own points is
  found with all its cells, as rounding is odd and at most a cell off, and the map is dilated by a cell (`OwnScansFall`);
* for thinning: the loop keeps the list ordered (`Ordered`), and two points that are kept are multiples of k valid ones apart
  (`MultiplesDiffer`, `RanksCount`); for made-up times: what is remembered of a ring is the yaw of its first point and the angle turned at
  its latest one (`Remembers`), which the yaws tell modulo a turn only (`SweepsAreTold`);
* for features: no state of the loop turns a near point into anything (`Leaving`); for surfaces: what has been given is the
  complete groups and the rests of the runs so far, and the open run starts where the loop says (`Gathered`).

**GridProofs.** `EveryFieldIsClear == ClearanceAsked => Clearance` is about any map (of any size, with obstacles anywhere, even
without cells), any goal and segments, on the map or off it, and any radius. The loops of both fields go on until nothing
waits. `WhilesExist` shows that such a loop is a function of the state that it starts in, `WhilesEnd` that it ends if its steps
make something smaller: here twice the number of values below the field, plus what waits. Nothing is used of `Infinity` but that it exceeds 1000. The arguments are

* for the distance field (`SpreadInv`, `Tended`): what a cell has is at least the octile distance to some obstacle; and a cell that its neighbours have not
  heard from waits in the queue with the distance it has. When nothing waits, no step is longer than its length, and as the
  octile distance falls by just the length of one step towards the obstacle (`OctileFalls`), no cell has more than that distance (`EasedIsNear`).
  The code's queue is not sorted and an old entry spreads its old distance; neither matters;
* for the heuristic field (`FieldInv`, `Settled`): what a cell other than the goal's has is at least what a neighbour has and the step from there, and a cell that
  its neighbours have not heard from is open. When nothing is open, both are equal for the best neighbour (`BestWay`). That the nearest
  entry comes first is not needed for the result, only for the time it takes;
* for segments: samples are less than a cell apart in both coordinates (`SamplesAreEnough`), so one of them lies in the column of a cell that the
  segment crosses and one in its row (`NoLeaps`). If that cell is nearer than the radius by a straight step, a safe one lies at least a cell past it (`SafeIsAside`; that casts cut towards
  zero does no harm to this: a position just outside the map counts as in a cell that is as near). Then all corners of the cell lie on one side of the line (`CornersAside`), and
  the segment does not cross it.

`EveryRouteIsShortest == RouteAsked => Routes` is about any map, any start and goal, and any planner that `IsPlanner` allows: of the size of
another map, with whatever earlier searches left in the cells, so long as no stamp is ahead of the generation. `EveryPlanLeavesAPlanner` shows that a new planner is
such a one and that every plan leaves one. The arguments are

* for the search (`SearchInv`): what is known of a cell is at least what its parent has and the step from there (`Seen`), and a cell that is known waits in the
  heap with its present f or has told its neighbours (`Cleared`). The first makes what is known the length of some way, so it is never below `Shortest`
  (`KnownIsWay`). The second says that some cell on a shortest way waits with no greater f than that way has, as the octile distance falls by no more than
  a step costs (`HeuristicFalls`), so the goal, popped first, cannot be farther (`UnknownIsFarther`, `SearchIsShortest`). Neither depends on
  the order among equal f. A pop lowers what is known somewhere or takes an entry away, so the loop ends (`SearchSize`);
* for the way back (`BacktrackIs`): a parent is nearer to the start by a whole step, so the parents lead there, over steps that are legal, and the
  cost of the route lies between what its steps allow and what they come from, which are the same (`CostIs`);
* for goals: an occupied one gives way to one cell or none (`AimsAre`); for cells kept from earlier searches (`FirstIs`): with the generation raised none of
  their stamps is this search's;
* for the path: Bresenham's error is the distance from the line, and each turn of the loop keeps it within half a cell and goes along the longer axis
  (`BresenhamIs`), so a line of sight has an unoccupied cell next to the exact line at every step (`SightIsClear`); the anchors only grow (`SimplifyIs`).

**WheelProofs.** `TypeCorrect` needs `MixIsLimited`, that scaling by the largest speed brings every wheel within the limit.
`StoppedIsToldAlways` and `WatchdogAlways` rest on `StopInv`: the flag is truthful; once commands are
too old it is up or the timer has still to run in this period; and a period later nothing is on its way either.

Model-checked only:

* liveness (`LostEndsInError`, `ActivationEnds`, `AlignsAgain`, `LossLeadsToSearch`, `EveryScanIsTaken`,
  `EveryRebuildEnds`, `FramesPublished`, `ExitEnds`, `ReleaseStops`, `GoneStops`), which is out of the prover's reach;
* `LioTypeOK` and `RebuildTypeOK`, of which the theorems use the parts they need;
* `SearchesFindAll` and `ImplementsPointMap`: that the operations of the kd-tree keep its points is an induction over trees;
* `Kept`: its definitions are recursive operators over trees, which the prover does not take;
* the refuted claims of section 5.

## 5. Where the code and its comments disagree

* **`can_reconnect`.** `hardware.cpp:224` and `:254` say that `sendFrame()` reconnects by itself
  on an unhealthy bus. After one `reconnect()` that found no interface `socket_fd_` is -1, and
  `robstride_can_driver.cpp:191` leaves the loop before the reconnect can be reached: there is
  exactly one chance of about 3 s. `LostUntilReplaced` is the positive form.
* **`outage_clock`.** `hardware.cpp:228` and `:247` say that write() gives up after more than
  30 s without recovery. Its timer is static, started by the first outage of the process and
  never reset, so that a later outage is given up in its first cycle.
* **`turn_in_place`.** `gicp_relocalization.cpp:405` and `TRACK_MIN_YAW_DEG` say that a rotation of
  5 degrees forces a registration. Only distance and time are compared.
* **`MCIkdLoss.cfg`.** `ikd_Tree.cpp:279` says "Rebuild and update missed operations". A call that lasts while
  its subtree is ordered works on the old nodes without lock or log (cases 1 and 3 of `spoiled`), and what
  it does there is missed when the new subtree is swapped in.

Noted while reading, with the model that shows it where there is one:

* *kd-tree.* The updates of the ancestors after a swap recompute `tree_deleted` (`:336-347`) and may take back a deletion
  that waits above. `Add_by_range` misses deleted points outside the shrunken ranges and may revive points
  outside its box, and `Delete_by_point` may miss one of equal coordinates; neither is called by the mapping. A downsampling deletion that
  empties the tree leaves a null root for the insertion after it (`:511-517`).
* *Local map.* A point is added without downsampling only if its nearest neighbour is off along all three axes (`laserMapping.cpp:536`), and left
  out if a neighbour, in whichever cell, is nearer to the middle of its cell (`:540-548`): an empty cell may stay empty beside a full one.
  With `cube_len` at most 3 `det_range` (`avia.yaml`: 1000 and 450; defaults
  `laserMapping.cpp:933-934`: 200 and 300) the cube shifts back and forth. `CubeFollows` is about wider cubes.
* *Relocalization.* Up to ten scans from before a loss come to the search after it (`OldScansAreFew`): the
  clear in `gicp_relocalization.cpp:472` drops only those accumulated by then.
* *Global search.* The square that holds the scan is sized before turning (`global_search_2d.cpp:156`, `:164`), so at turns between
  quarters, all but four of the 180 or so that the default step of 2 degrees makes, cells in its corners are dropped (`:214-216`); others round to the same place
  (`:217-219`). `scan_cell_count` counts all (`:227`), so that a scan at its right pose may score below 1.
* *Estimation.* If the last look at the map finds no surface, the corrected estimate is left with the predicted
  covariance (`esekfom.hpp:1638-1641`); no property speaks of that case. The published velocity stays as it was when time does not rise. A point once rejected is not looked at before
  the next search of neighbours.
* *Preprocessing.* `disB` is never set (`preprocess.cpp:15-16` assign `disA` twice); `while (types[head].range < blind)`
  may run past the end, and `types[plsize]` is out of bounds (632-641); times that are made up of angles are wrong
  beyond two turns; with `point_filter_num` of 2 and more repeated points of a Livox stay in.
* *Livox driver.* The default rotation of a lidar without extrinsics has the second row `{0, 1, 1}`
  (`pub_handler.h:66`) and adds z to y; points in low precision get their translation ten times (`pub_handler.cpp:405`);
  a packet without points divides by zero (`:142`); offsets in a message have 32 bits, and wrap when the
  clock goes back (`lddc.cpp:395`); when the clock of the frames steps back the difference in `pub_handler.cpp:173`, unsigned, ends the frame,
  which the model's signed one (`Due`) does not, no promise being about such a clock; `cache_index.cpp:81` searches a map without the lock of its writers.
* *Planner.* The term for smoothness has the wrong sign (`minco_optimizer.cpp:166-174`; `SmoothnessFalls` of `Tracking` fails
  on `<<-2, -2, -2, -1>>`). `simplifyPath` accepts legs past corners that the search may not cut (`astar.cpp:109`, `:169`).
  Positions up to a cell outside the map count as inside the distance field.
  `collision_checker.hpp:34` and `:46` promise that sampling at the resolution misses nothing; a segment can still cut the corner of a cell nearer than
  the radius between two samples, though of no cell nearer by a straight step (`SafeIsClear`).
  `kino_astar.cpp:277` says that cells too near an obstacle must not be crossed; the code after it refuses distances up to 0 alone, which only obstacles
  have (`FieldIsShortest` states what the code does). `GridMap` keeps its cells column by column (`grid_map.hpp:28`), `ESDFMap` row by row
  (`esdf_map.hpp:71`): the data of one given to the other would be another map. Nothing calls `buildFromOccupancyGrid()`. Its octile distances exceed the real ones by up to 8 %.
  The kinodynamic search keeps `Node& cur` (`kino_astar.cpp:83`) over a `push_back` (`:150`), compares metres with seconds, and has no Euclidean
  fallback where its comment says so.

## 6. What is external, abstracted or left out

* **Controller manager, motors, interface** are modelled from how the code uses them: one
  callback at a time, read() and write() on inactive and active components, an ERROR makes the
  component unconfigured through `on_error()`, which succeeds. A motor obeys a frame that reaches
  it, motion frames only while enabled; answers are late, lost or repeated at will.
* **CAN frames** are addressee, kind and velocity; bit layout and scaling are left out. `SO_SNDTIMEO`
  appears as `WriteBusy`. The wrap of the 32-bit failure counter is out of reach, as write() gives
  up long before.
* **The data race** on `socket_fd_` between sender and receive thread appears as the choice of
  old, closed or new descriptor in `RxPoll` and `RxRead`.
* **Relocalization:** yaw, planar projection, inlier and error thresholds are folded into "GICP gives any
  pose, accepted or not". There is no way to switch the search off: the member `auto_global_search_`
  (`gicp_relocalization.hpp:102`) is neither set from a parameter nor read.
  `GlobalSearch` is the search in between, with the FFT as the sum that defines it; `Relocalization` lets it find anything.
* **FAST-LIO:** the path with `time_sync_en` (off by default), `flg_EKF_inited` and `INIT_TIME`, publishing of clouds
  and saving of the map, scans of two to five points. The algebra of the filter (`IKFoM_toolkit`) is any correction of the estimate.
* **kd-tree:** cached sizes, the record of removed points, termination of the thread.
* **Livox driver:** IMU data (a list with a lock instead of the ring), work mode, attitude and IMU-enable
  requests, LVX files, the sleep at the start, `xfer_format` 2 (whose loop only spins, `lddc.cpp:168-177`, `:234-244`).
  A second report of an unknown lidar is beyond the bound of the run but within the theorems.
* **Keyboard and wheels:** the search for a keyboard device, a node clock that is set back. The wheel controller
  and its limits belong to vendored packages; `WheelCommands` ends with what they are told.
* **Planner:** no node runs it, so there are no threads to interleave. Costs of the controllers only choose among moves. The main loop
  of the kinodynamic search is not modelled: after its first reallocation it reads freed memory, and what it
  returns is not determined by the code.
* **Not modelled:** map scripts (file conversion), launch files and parameters, `motor_cfg.cpp` (an earlier motor class the
  plugin does not use), vendored packages (`matplotlibcpp.h`, the geometry of `IKFoM_toolkit`, SDKs).

## 7. Plan

What is left, in this order:

1. **IMU data of the Livox driver**: `lidar_imu_data_queue`, its semaphore and thread, which share the exit with the other one.
2. **A deeper tree for `IkdRebuild`**, so that a target lies two levels below a marked ancestor; nine points have one level.
3. **Composition of `WheelCommands` with the plugin**: from the released key to the frame that stops the motor, through an outage of the bus.
4. **The kinodynamic search**, once `cur` is read before the nodes move.
