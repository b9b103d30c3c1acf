------------------------------ MODULE LioSync ------------------------------
(***************************************************************************)
(* FAST-LIO's node: two subscriptions fill buffers, a timer pairs a lidar  *)
(* scan with the IMU samples up to its end (sync_packages) and runs the    *)
(* pipeline of the scan.  One executor thread runs every callback, so each *)
(* one is an action; how the messages of the two sensors interleave, how   *)
(* late they come and whether a clock jumps back is open.                  *)
(*                                                                         *)
(* Stamps are ticks.  A full scan has its last point Span ticks after its  *)
(* first, so lidar_mean_scantime is 0 before the first full scan and Span  *)
(* after it.  time_sync_en is false, as in every configuration file.       *)
(***************************************************************************)
EXTENDS Integers, Sequences

CONSTANTS
  Span,         \* ticks between the first and the last point of a full scan
  MaxIniCount,  \* MAX_INI_COUNT: samples that IMU_init averages
  Horizon,      \* bound: last stamp of a sensor
  MaxJumps,     \* bound: how often a clock jumps back
  MaxBacklog    \* bound: scans that wait for the timer

ASSUME LioAssumption ==
  /\ Span \in Nat \ {0}
  /\ MaxIniCount \in Nat
  /\ Horizon \in Nat /\ Horizon > Span
  /\ MaxJumps \in Nat /\ MaxBacklog \in Nat \ {0}

VARIABLES
  lidarBuffer,   \* lidar_buffer: scans
  timeBuffer,    \* time_buffer: their stamps
  imuBuffer,     \* imu_buffer: stamps of the samples
  lastLidar,     \* last_timestamp_lidar, None before the first scan
  lastImu,       \* last_timestamp_imu, -1 before the first sample
  pushed,        \* lidar_pushed: Measures already holds the front scan
  measures,      \* Measures: the scan, its begin and end, its samples
  meanScan,      \* lidar_mean_scantime
  firstScan,     \* flg_first_scan
  imuInit,       \* init_iter_num and imu_need_init_ of the IMU processor
  lastEnd,       \* last_lidar_end_time_
  lastSample,    \* stamp of last_imu_
  advance,       \* sum of the dt the last scan advanced the Kalman filter by
  feats,         \* feats_undistort: the scan it was made of, or NoScan
  mapped,        \* ikdtree.Root_Node is not null
  odom,          \* the last odometry: its stamp and the scan behind it
  jumps          \* clock jumps so far, per sensor

buffers == <<lidarBuffer, timeBuffer, imuBuffer, lastLidar, lastImu, jumps>>
pipeline == <<firstScan, imuInit, lastEnd, lastSample, advance, feats, mapped, odom>>
vars == <<lidarBuffer, timeBuffer, imuBuffer, lastLidar, lastImu, jumps,
          pushed, measures, meanScan, firstScan, imuInit, lastEnd, lastSample,
          advance, feats, mapped, odom>>

None == -1

\* How many points are left of a scan after preprocessing: enough to be
\* registered, or at most one ("Too few input point cloud").
Sizes == {"full", "few"}
Scans == [stamp : 0 .. Horizon, size : Sizes]
NoScan == [stamp |-> None, size |-> "few"]

NoMeasures == [lidar |-> NoScan, beg |-> None, end |-> None, imu |-> <<>>]
NoOdom == [stamp |-> None, scan |-> NoScan]

Last(s) == s[Len(s)]

LioInit ==
  /\ lidarBuffer = <<>> /\ timeBuffer = <<>> /\ imuBuffer = <<>>
  /\ lastLidar = None /\ lastImu = None
  /\ jumps = [lidar |-> 0, imu |-> 0]
  /\ pushed = FALSE /\ measures = NoMeasures /\ meanScan = 0
  /\ firstScan = TRUE
  /\ imuInit = [count |-> 1, need |-> TRUE, first |-> TRUE]
  \* No constructor sets last_lidar_end_time_: it may hold anything.
  /\ lastEnd \in {0, Horizon + 1}
  /\ lastSample = 0 /\ advance = 0
  /\ feats = NoScan /\ mapped = FALSE /\ odom = NoOdom

-----------------------------------------------------------------------------
(* The subscriptions.                                                      *)

\* Mutant: a jump back empties the wrong deque.
LidarCallback_ClearsStamps(scan) ==
  LET back == lastLidar # None /\ scan.stamp < lastLidar
  IN /\ lidarBuffer' = Append(lidarBuffer, scan)
     /\ timeBuffer' = Append(IF back THEN <<>> ELSE timeBuffer, scan.stamp)
     /\ lastLidar' = scan.stamp
     /\ jumps' = IF back THEN [jumps EXCEPT !.lidar = @ + 1] ELSE jumps
     /\ UNCHANGED <<imuBuffer, lastImu, pushed, measures, meanScan, pipeline>>

\* standard_pcl_cbk and livox_pcl_cbk: a scan older than the last one empties
\* lidar_buffer, and only that one.
LidarCallback(scan) ==
  LET back == lastLidar # None /\ scan.stamp < lastLidar
      kept == IF back THEN <<>> ELSE lidarBuffer
  IN /\ lidarBuffer' = Append(kept, scan)
     /\ timeBuffer' = Append(timeBuffer, scan.stamp)
     /\ lastLidar' = scan.stamp
     /\ jumps' = IF back THEN [jumps EXCEPT !.lidar = @ + 1] ELSE jumps
     /\ UNCHANGED <<imuBuffer, lastImu, pushed, measures, meanScan, pipeline>>

\* Mutant: a jump back leaves the old samples in the buffer.
ImuCallback_KeepsOld(stamp) ==
  /\ imuBuffer' = Append(imuBuffer, stamp)
  /\ lastImu' = stamp
  /\ jumps' = IF stamp < lastImu THEN [jumps EXCEPT !.imu = @ + 1] ELSE jumps
  /\ UNCHANGED <<lidarBuffer, timeBuffer, lastLidar, pushed, measures, meanScan, pipeline>>

\* imu_cbk: a sample older than the last one empties imu_buffer.
ImuCallback(stamp) ==
  LET back == stamp < lastImu
      kept == IF back THEN <<>> ELSE imuBuffer
  IN /\ imuBuffer' = Append(kept, stamp)
     /\ lastImu' = stamp
     /\ jumps' = IF back THEN [jumps EXCEPT !.imu = @ + 1] ELSE jumps
     /\ UNCHANGED <<lidarBuffer, timeBuffer, lastLidar, pushed, measures, meanScan, pipeline>>

Jumps == jumps.lidar + jumps.imu

\* The lidar starts a scan after the end of the one before, at once or with
\* one scan lost; or its clock jumps back, by a tick or by two scans.
ScanArrives ==
  \E size \in Sizes, stamp \in 0 .. Horizon - Span - 1 :
    /\ Len(lidarBuffer) < MaxBacklog
    /\ \/ lastLidar = None /\ stamp = 0
       \/ lastLidar # None /\ stamp - lastLidar \in {Span, 2 * Span}
       \/ lastLidar - stamp \in {1, 2 * Span} /\ Jumps < MaxJumps
    /\ LidarCallback([stamp |-> stamp, size |-> size])

\* Samples come one tick apart; a gap may be longer than a scan.
ImuAdvances ==
  \E stamp \in 0 .. Horizon :
    /\ stamp - lastImu \in {1, Span + 2}
    /\ ImuCallback(stamp)

ImuJumps ==
  \E stamp \in 0 .. Horizon :
    /\ lastImu - stamp \in {1, Span + 2} /\ Jumps < MaxJumps
    /\ ImuCallback(stamp)

-----------------------------------------------------------------------------
(* sync_packages.                                                          *)

\* Measures once the front scan has been pushed.
Pushed ==
  IF pushed THEN measures
  ELSE LET scan == Head(lidarBuffer)
           beg == Head(timeBuffer)
       IN [measures EXCEPT !.lidar = scan, !.beg = beg,
             !.end = beg + (IF scan.size = "full" THEN Span ELSE meanScan)]

MeanAfter == IF ~pushed /\ Head(lidarBuffer).size = "full" THEN Span ELSE meanScan

\* How many samples the loop takes.  It compares the sample before the one it
\* takes, so a sample stamped exactly at the end is taken unless it comes first.
Taken(end) ==
  IF imuBuffer[1] >= end THEN 0
  ELSE CHOOSE k \in 1 .. Len(imuBuffer) :
         /\ \A i \in 1 .. k : imuBuffer[i] <= end
         /\ k < Len(imuBuffer) => imuBuffer[k + 1] > end \/ imuBuffer[k] = end
         /\ \A i \in 1 .. k - 1 : imuBuffer[i] < end

\* Mutant: waits for samples inside the scan.
Complete_NeedsSamples == lastImu >= Pushed.end /\ Taken(Pushed.end) > 0

\* The IMU has reached the end of the scan.
Complete == lastImu >= Pushed.end

-----------------------------------------------------------------------------
(* The pipeline of a scan.                                                 *)

\* IMU_init: the samples are averaged until there are enough of them.
InitImu(m) ==
  LET count == (IF imuInit.first THEN 1 ELSE imuInit.count) + Len(m.imu)
      capped == IF count > MaxIniCount THEN MaxIniCount + 1 ELSE count
  IN /\ imuInit' = [count |-> capped, need |-> count <= MaxIniCount, first |-> FALSE]
     /\ lastSample' = Last(m.imu)
     /\ UNCHANGED <<lastEnd, advance, feats>>

\* Mutant: the step that straddles the last scan's end counts in full.
Advance_Uncut(m) ==
  LET stamps == <<lastSample>> \o m.imu
      Step(i) == IF stamps[i + 1] < lastEnd THEN 0 ELSE stamps[i + 1] - stamps[i]
      sum[i \in 0 .. Len(m.imu)] == IF i = 0 THEN 0 ELSE sum[i - 1] + Step(i)
      rest == m.end - Last(stamps)
  IN sum[Len(m.imu)] + (IF rest > 0 THEN rest ELSE -rest)

\* What UndistortPcl advances the filter by: from sample to sample, leaving out
\* what lies before the last scan's end, then to this scan's end.
Advance(m) ==
  LET stamps == <<lastSample>> \o m.imu
      Step(i) == LET head == stamps[i]
                     tail == stamps[i + 1]
                 IN IF tail < lastEnd THEN 0
                    ELSE IF head < lastEnd THEN tail - lastEnd ELSE tail - head
      sum[i \in 0 .. Len(m.imu)] == IF i = 0 THEN 0 ELSE sum[i - 1] + Step(i)
      rest == m.end - Last(stamps)
  IN sum[Len(m.imu)] + (IF rest > 0 THEN rest ELSE -rest)

UndistortPcl(m) ==
  /\ advance' = Advance(m)
  /\ lastSample' = Last(m.imu)
  /\ lastEnd' = m.end
  /\ feats' = m.lidar
  /\ UNCHANGED imuInit

\* ImuProcess::Process: without samples it returns at once.
Process(m) ==
  \/ m.imu = <<>> /\ UNCHANGED <<imuInit, lastEnd, lastSample, advance, feats>>
  \/ m.imu # <<>> /\ imuInit.need /\ InitImu(m)
  \/ m.imu # <<>> /\ ~imuInit.need /\ UndistortPcl(m)

\* Mutant: registers the points of the package before.
Register_Before(m) ==
  \/ feats.size = "full" /\ ~mapped /\ mapped' = TRUE /\ UNCHANGED odom
  \/ feats.size = "full" /\ mapped /\ odom' = [stamp |-> m.end, scan |-> feats] /\ UNCHANGED mapped
  \/ feats.size # "full" /\ UNCHANGED <<mapped, odom>>

\* The rest of timer_callback: the first usable scan builds the map, every later
\* one updates the filter, publishes the odometry and goes into the map.
Register(m) ==
  \/ /\ feats'.size = "full" /\ ~mapped
     /\ mapped' = TRUE /\ UNCHANGED odom
  \/ /\ feats'.size = "full" /\ mapped
     /\ odom' = [stamp |-> m.end, scan |-> feats'] /\ UNCHANGED mapped
  \/ /\ feats'.size # "full"
     /\ UNCHANGED <<mapped, odom>>

HandlePackage(m) ==
  \/ /\ firstScan /\ firstScan' = FALSE
     /\ UNCHANGED <<imuInit, lastEnd, lastSample, advance, feats, mapped, odom>>
  \/ /\ ~firstScan
     /\ Process(m) /\ Register(m)
     /\ UNCHANGED firstScan

\* timer_callback when sync_packages has to wait for the IMU, and when it pairs.
TimerWaits ==
  /\ lidarBuffer # <<>> /\ imuBuffer # <<>>
  /\ ~pushed /\ ~Complete
  /\ pushed' = TRUE /\ measures' = Pushed /\ meanScan' = MeanAfter
  /\ UNCHANGED <<buffers, pipeline>>

TimerPairs ==
  /\ lidarBuffer # <<>> /\ imuBuffer # <<>>
  /\ Complete
  /\ LET k == Taken(Pushed.end)
         m == [Pushed EXCEPT !.imu = SubSeq(imuBuffer, 1, k)]
     IN /\ measures' = m
        /\ imuBuffer' = SubSeq(imuBuffer, k + 1, Len(imuBuffer))
        /\ lidarBuffer' = Tail(lidarBuffer)
        /\ timeBuffer' = Tail(timeBuffer)
        /\ pushed' = FALSE
        /\ meanScan' = MeanAfter
        /\ HandlePackage(m)
  /\ UNCHANGED <<lastLidar, lastImu, jumps>>

TimerCallback == TimerWaits \/ TimerPairs

LioNext == ScanArrives \/ ImuAdvances \/ ImuJumps \/ TimerCallback

LioSafety == LioInit /\ [][LioNext]_vars

\* The executor keeps serving the timer and the IMU keeps sending.
LioSpec == LioSafety /\ WF_vars(TimerCallback) /\ WF_vars(ImuAdvances)
-----------------------------------------------------------------------------
(* What the synchronisation guarantees.                                    *)

\* Every variable keeps its type, for every order of callbacks and every jump of
\* a clock: lidar_mean_scantime stays a scan time, the stamps those received.
\* After a jump back the filter may even be advanced by a negative time.
LioTypeOK ==
  /\ lidarBuffer \in Seq(Scans)
  /\ timeBuffer \in Seq(0 .. Horizon) /\ imuBuffer \in Seq(0 .. Horizon)
  /\ lastLidar \in None .. Horizon /\ lastImu \in None .. Horizon
  /\ pushed \in BOOLEAN
  /\ measures.lidar \in Scans \cup {NoScan} /\ measures.beg \in None .. Horizon
  /\ measures.end \in None .. Horizon /\ measures.imu \in Seq(0 .. Horizon)
  /\ meanScan \in {0, Span}
  /\ imuInit \in [count : 1 .. MaxIniCount + 1, need : BOOLEAN, first : BOOLEAN]
  /\ lastEnd \in 0 .. Horizon + 1 /\ lastSample \in 0 .. Horizon
  /\ advance \in -Horizon .. 2 * Horizon
  /\ feats \in Scans \cup {NoScan}
  /\ firstScan \in BOOLEAN /\ mapped \in BOOLEAN
  /\ odom.stamp \in None .. Horizon /\ odom.scan \in Scans \cup {NoScan}
  /\ jumps \in [lidar : 0 .. MaxJumps, imu : 0 .. MaxJumps]

\* lidar_buffer and time_buffer are two deques popped together and never emptied
\* together.  Until the lidar clock jumps back each scan has its own stamp and
\* Measures holds the front scan; afterwards there are more stamps than scans,
\* never fewer, so that no pop hits an empty deque.
PairedUntilLoopBack ==
  /\ Len(timeBuffer) >= Len(lidarBuffer)
  /\ pushed => lidarBuffer # <<>>
  /\ jumps.lidar = 0 =>
       /\ timeBuffer = [i \in 1 .. Len(lidarBuffer) |-> lidarBuffer[i].stamp]
       /\ pushed => measures.lidar = lidarBuffer[1]
       /\ measures.beg = measures.lidar.stamp

\* Whatever the IMU clock does, the buffered samples are in order and end with
\* the last one received; without a jump back no sample is used twice and none
\* goes to a scan that ended before it.
SamplesOnceInOrder ==
  /\ \A i \in 1 .. Len(imuBuffer) - 1 : imuBuffer[i] < imuBuffer[i + 1]
  /\ imuBuffer # <<>> => Last(imuBuffer) = lastImu
  /\ jumps.imu = 0 /\ measures.imu # <<>> =>
       /\ imuBuffer # <<>> => Last(measures.imu) < imuBuffer[1]
       /\ ~pushed => Last(measures.imu) <= measures.end

\* UndistortPcl adds up time steps from three different stamps.  As long as no
\* clock jumps back they add up, over packages without samples and gaps of the
\* IMU too, to the time from one scan's end to the next one's.
FilterKeepsTime ==
  [][lastEnd' # lastEnd /\ feats # NoScan /\ Jumps = 0
       => advance' = lastEnd' - lastEnd]_vars

\* A published odometry carries the end of the package just paired and comes
\* from its scan; only a package without samples lets an older scan through.
OdometryOfItsScan ==
  [][odom' # odom =>
       /\ odom'.stamp = measures'.end
       /\ odom'.scan = measures'.lidar \/ measures'.imu = <<>>]_vars

\* However the clocks jump and samples get lost, the two buffers never block
\* each other for good: once the IMU has passed the scans, all are taken.
EveryScanIsTaken == <>[](lidarBuffer = <<>>)
=============================================================================
