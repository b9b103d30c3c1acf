--------------------------- MODULE Relocalization ---------------------------
(***************************************************************************)
(* GicpRelocalizationNode: finds the robot in the prior map by a global    *)
(* search over the scans it has accumulated, then tracks it by registering *)
(* scans against the map, and starts over when the tracking fails.         *)
(*                                                                         *)
(* The node is single-threaded: the callbacks of scans, of /initialpose    *)
(* and of the 500 ms timer never overlap.  The global search takes seconds,*)
(* so it is two steps between which time passes and the robot moves.  What *)
(* comes while a callback runs waits in the queue of its subscription,     *)
(* which gives up its oldest message when it is full.  The other callbacks *)
(* are one step, and what comes during one comes before it.                *)
(*                                                                         *)
(* A pose (x, y, yaw) is a point on a line; GICP is external and may give  *)
(* any pose; clocks are ages that stop at the limit the code compares with.*)
(***************************************************************************)
EXTENDS Integers, Sequences

CONSTANTS
  Poses,             \* candidates for the transform from map to odom
  Scores,            \* rmse / inlier_ratio of a candidate, the lower the better
  TopK,              \* global.top_k
  DedupDistance,     \* candidate_dedup_distance
  AmbiguityPercent,  \* candidate_ambiguity_ratio, in percent
  MaxJump,           \* tracking_max_jump_translation
  MaxFailures,       \* gicp_max_consecutive_failures
  CloudLimit,        \* kMaxAccumPoints, in scans
  MinAccum,          \* global.min_accum_sec
  RetryPeriod,       \* global.retry_period_sec
  ForceInterval,     \* TRACK_FORCE_INTERVAL_SEC
  QueueDepth,        \* the depth of both subscriptions, 10
  Nothing            \* no transform

ASSUME RelocAssumption ==
  /\ Poses \subseteq Int /\ Nothing \notin Poses
  /\ Scores \subseteq Nat
  /\ TopK \in Nat /\ DedupDistance \in Nat /\ AmbiguityPercent \in Nat /\ MaxJump \in Nat
  /\ MaxFailures \in Nat \ {0} /\ CloudLimit \in Nat
  /\ MinAccum \in Nat /\ RetryPeriod \in Nat /\ ForceInterval \in Nat
  /\ QueueDepth \in Nat \ {0}

VARIABLES
  state,     \* reloc_state_
  pose,      \* result_t_, which previous_result_t_ always equals
  fails,     \* gicp_fail_count_
  cloud,     \* number of scans in accumulated_cloud_
  scanned,   \* a scan has come: last_scan_time_ and current_scan_frame_id_ are set
  accum,     \* age of first_accumulation_time_, Never if it is zero
  searched,  \* age of last_global_search_time_, Never if it is zero
  base,      \* last_track_odom_valid_
  tracked,   \* age of last_successful_track_time_, Never if it is zero
  moved,     \* the robot is TRACK_MIN_TRANSLATION or more from last_track_odom_pos_
  busy,      \* a global search is running
  found,     \* valid_results of that search, sorted
  waiting,   \* number of scans in the queue of their subscription
  asked,     \* number of messages of /initialpose in theirs
  late,      \* history: how many of the waiting scans, the first ones, are from
             \* before the last loss
  old,       \* history: how many scans of the cloud are
  skipped    \* history: the latest registration was skipped

vars == <<state, pose, fails, cloud, scanned, accum, searched, base, tracked,
          moved, busy, found, waiting, asked, late, old, skipped>>

queues == <<waiting, asked, late>>

Never == -1

Results == [pose : Poses, score : Scores]

Sorted(s) == \A i, j \in DOMAIN s : i < j => s[i].score <= s[j].score

\* Mutant: the candidates are taken in the order they were found.
Rankings_Unsorted == UNION {[1 .. n -> Results] : n \in 0 .. TopK}

\* What searching and validating can leave: at most TopK results, best first.
\* std::sort may leave equals in any order.
Rankings == {s \in UNION {[1 .. n -> Results] : n \in 0 .. TopK} : Sorted(s)}

RelocTypeOK ==
  /\ state \in {"WAIT_INIT", "TRACKING", "LOST"}
  /\ pose \in Poses \cup {Nothing}
  /\ fails \in 0 .. MaxFailures
  /\ cloud \in 0 .. CloudLimit + 1
  /\ scanned \in BOOLEAN /\ base \in BOOLEAN /\ moved \in BOOLEAN
  /\ busy \in BOOLEAN /\ skipped \in BOOLEAN
  /\ {waiting, asked, late} \subseteq 0 .. QueueDepth
  /\ old \in 0 .. CloudLimit + 1
  /\ accum \in Never .. MinAccum
  /\ searched \in Never .. RetryPeriod
  /\ tracked \in Never .. ForceInterval
  /\ found \in Rankings

RelocInit ==
  /\ state = "WAIT_INIT" /\ pose = Nothing /\ fails = 0
  /\ cloud = 0 /\ scanned = FALSE
  /\ accum = Never /\ searched = Never
  /\ base = FALSE /\ tracked = Never /\ moved = FALSE
  /\ busy = FALSE /\ found = <<>> /\ skipped = FALSE
  /\ waiting = 0 /\ asked = 0 /\ late = 0 /\ old = 0

Clear == cloud' = 0 /\ old' = 0

\* A loss makes the scans that still wait old ones.
Ages == late' = IF state' = "LOST" THEN waiting ELSE late

-----------------------------------------------------------------------------
(* The subscriptions.                                                      *)

\* The lidar's driver publishes (external); a full queue drops its first scan.
Arrive ==
  /\ IF waiting < QueueDepth
       THEN waiting' = waiting + 1 /\ UNCHANGED late
       ELSE late' = (IF late > 0 THEN late - 1 ELSE late) /\ UNCHANGED waiting
  /\ UNCHANGED <<state, pose, fails, cloud, scanned, accum, searched, base, tracked, moved, busy,
                 found, asked, old, skipped>>

\* The first scan that waits is taken out, and is it a late one?
Takes == ~busy /\ waiting > 0 /\ waiting' = waiting - 1
Lates == IF late > 0 THEN 1 ELSE 0

\* Mutant: the accumulation counts from the latest scan.
Scan_Restarts ==
  /\ Takes
  /\ scanned' = TRUE
  /\ accum' = 0
  /\ cloud' = IF cloud > CloudLimit THEN 1 ELSE cloud + 1
  /\ old' = (IF cloud > CloudLimit THEN 0 ELSE old) + Lates
  /\ late' = late - Lates
  /\ UNCHANGED <<state, pose, fails, searched, base, tracked, moved, busy, found, asked, skipped>>

\* registeredPcdCallback: past the limit the cloud starts again with this scan,
\* first_accumulation_time_ does not.
Scan ==
  /\ Takes
  /\ scanned' = TRUE
  /\ accum' = IF accum = Never THEN 0 ELSE accum
  /\ cloud' = IF cloud > CloudLimit THEN 1 ELSE cloud + 1
  /\ old' = (IF cloud > CloudLimit THEN 0 ELSE old) + Lates
  /\ late' = late - Lates
  /\ UNCHANGED <<state, pose, fails, searched, base, tracked, moved, busy, found, asked, skipped>>

\* The operator sends a pose (external).
AskPose ==
  /\ asked < QueueDepth
  /\ asked' = asked + 1
  /\ UNCHANGED <<state, pose, fails, cloud, scanned, accum, searched, base, tracked, moved, busy,
                 found, waiting, late, old, skipped>>

\* initialPoseCallback, when the frame of the scans can be transformed; which
\* transform it makes of the message depends on the odometry.  What the tracking
\* remembers of the odometry stays as it was.
InitialPose(p) ==
  /\ ~busy /\ scanned
  /\ asked > 0 /\ asked' = asked - 1
  /\ pose' = p
  /\ state' = "TRACKING"
  /\ fails' = 0
  /\ skipped' = FALSE
  /\ UNCHANGED <<scanned, accum, searched, base, tracked, moved, busy, found, waiting, late>>
  /\ Clear

\* initialPoseCallback, when it cannot.
IgnorePose ==
  /\ ~busy
  /\ asked > 0 /\ asked' = asked - 1
  /\ UNCHANGED <<state, pose, fails, cloud, scanned, accum, searched, base, tracked, moved, busy,
                 found, waiting, late, old, skipped>>

-----------------------------------------------------------------------------
(* performRegistration(), which returns at once on an empty cloud.         *)

Registers(s) == ~busy /\ cloud > 0 /\ state = s

\* WAIT_INIT: enough accumulated, and not too soon after the last search.
Search ==
  /\ Registers("WAIT_INIT")
  /\ accum >= MinAccum
  /\ searched \in {Never, RetryPeriod}
  /\ searched' = 0
  /\ busy' = TRUE
  /\ found' \in Rankings
  /\ UNCHANGED <<state, pose, fails, cloud, scanned, accum, base, tracked, moved, queues, old, skipped>>

SamePlace(r, k) == r.pose - k.pose < DedupDistance /\ k.pose - r.pose < DedupDistance

\* Results GICP did not pull into the place of the best one.  Of distinct_results
\* only the first two are ever used: the best, and the first of these.
Rivals == {i \in DOMAIN found : ~SamePlace(found[i], found[1])}

Ambiguous ==
  \E i \in Rivals :
    /\ \A j \in Rivals : i <= j
    /\ found[1].score * 100 > found[i].score * AmbiguityPercent

SearchFails ==
  /\ busy
  /\ found = <<>> \/ Ambiguous
  /\ busy' = FALSE /\ found' = <<>>
  /\ UNCHANGED <<state, pose, fails, cloud, scanned, accum, searched, base, tracked, moved, queues, old, skipped>>

\* The best result is taken over; base' is whether the odometry can be read.
SearchAccepts ==
  /\ busy /\ found # <<>> /\ ~Ambiguous
  /\ busy' = FALSE /\ found' = <<>>
  /\ pose' = found[1].pose
  /\ state' = "TRACKING"
  /\ fails' = 0
  /\ \/ base' = TRUE /\ tracked' = 0 /\ moved' = FALSE
     \/ base' = FALSE /\ UNCHANGED <<tracked, moved>>
  /\ skipped' = FALSE
  /\ UNCHANGED <<scanned, accum, searched, queues>>
  /\ Clear

Since == IF tracked = Never THEN ForceInterval ELSE tracked

\* TRACKING: the odometry (got: it can be read) shows next to no translation
\* since the last good registration, which is not long ago.
StandsStill(got) == got /\ base /\ ~moved /\ Since < ForceInterval

\* Mutant: a skipped registration counts as a good one.
TrackSkips_Restarts ==
  /\ Registers("TRACKING") /\ StandsStill(TRUE)
  /\ tracked' = 0
  /\ skipped' = TRUE
  /\ UNCHANGED <<state, pose, fails, scanned, accum, searched, base, moved, busy, found, queues>>
  /\ Clear

TrackSkips ==
  /\ Registers("TRACKING") /\ StandsStill(TRUE)
  /\ skipped' = TRUE
  /\ UNCHANGED <<state, pose, fails, scanned, accum, searched, base, tracked, moved, busy, found,
                 queues>>
  /\ Clear

\* Mutant: the distance to the previous result is not looked at.
TrackAccepts_AnyJump(p) ==
  /\ Registers("TRACKING")
  /\ pose' = p
  /\ fails' = 0
  /\ tracked' = 0 /\ base' = TRUE
  /\ skipped' = FALSE
  /\ UNCHANGED <<state, scanned, accum, searched, moved, busy, found, queues>>
  /\ Clear

\* Converged, good enough, and near the previous result.  The odometry was read
\* before the registration, so the robot may have moved on.
TrackAccepts(p) ==
  /\ Registers("TRACKING")
  /\ p - pose <= MaxJump /\ pose - p <= MaxJump
  /\ pose' = p
  /\ fails' = 0
  /\ \E got \in BOOLEAN :
       /\ ~StandsStill(got)
       /\ IF got
            THEN base' = TRUE /\ tracked' = 0 /\ moved' \in BOOLEAN
            ELSE UNCHANGED <<base, tracked, moved>>
  /\ skipped' = FALSE
  /\ UNCHANGED <<state, scanned, accum, searched, busy, found, queues>>
  /\ Clear

\* Mutant: the scans that could not be registered are kept.
TrackRejects_KeepsCloud ==
  /\ Registers("TRACKING")
  /\ \E got \in BOOLEAN : ~StandsStill(got)
  /\ fails' = fails + 1
  /\ state' = IF fails' >= MaxFailures THEN "LOST" ELSE "TRACKING"
  /\ skipped' = FALSE
  /\ old' = IF state' = "LOST" THEN cloud ELSE old
  /\ Ages
  /\ UNCHANGED <<pose, cloud, scanned, accum, searched, base, tracked, moved, busy, found,
                 waiting, asked>>

\* Not converged, too bad, or too far: the scans are dropped, the failure counts.
TrackRejects ==
  /\ Registers("TRACKING")
  /\ \E got \in BOOLEAN : ~StandsStill(got)
  /\ fails' = fails + 1
  /\ state' = IF fails' >= MaxFailures THEN "LOST" ELSE "TRACKING"
  /\ skipped' = FALSE
  /\ Ages
  /\ UNCHANGED <<pose, scanned, accum, searched, base, tracked, moved, busy, found, waiting, asked>>
  /\ Clear

\* LOST lasts until the first registration with a scan.
Restart ==
  /\ Registers("LOST")
  /\ state' = "WAIT_INIT"
  /\ accum' = 0
  /\ searched' = Never
  /\ UNCHANGED <<pose, fails, cloud, scanned, base, tracked, moved, busy, found, queues, old, skipped>>

-----------------------------------------------------------------------------
(* The robot and the clock (external).                                     *)

Drive ==
  /\ moved' = ~moved
  /\ UNCHANGED <<state, pose, fails, cloud, scanned, accum, searched, base, tracked, busy, found, queues, old, skipped>>

Older(age, limit) == IF age \in 0 .. limit - 1 THEN age + 1 ELSE age

Tick ==
  /\ accum' = Older(accum, MinAccum)
  /\ searched' = Older(searched, RetryPeriod)
  /\ tracked' = Older(tracked, ForceInterval)
  /\ <<accum, searched, tracked>>' # <<accum, searched, tracked>>
  /\ UNCHANGED <<state, pose, fails, cloud, scanned, base, moved, busy, found, queues, old, skipped>>

-----------------------------------------------------------------------------
Manual == \E p \in Poses : InitialPose(p)

Align == TrackRejects \/ \E p \in Poses : TrackAccepts(p)

Registration ==
  \/ Search \/ SearchFails \/ SearchAccepts
  \/ TrackSkips \/ Align
  \/ Restart

RelocNext ==
  \/ Arrive \/ Scan
  \/ AskPose \/ Manual \/ IgnorePose
  \/ Registration
  \/ Drive \/ Tick

RelocSafety == RelocInit /\ [][RelocNext]_vars

\* The lidar keeps scanning, what waits is delivered, the timer keeps firing and
\* time passes.
RelocSpec ==
  /\ RelocSafety
  /\ WF_vars(Arrive) /\ WF_vars(Scan) /\ WF_vars(Registration) /\ WF_vars(Tick)
-----------------------------------------------------------------------------
(* What the node guarantees.                                               *)

\* publishTransform() sends result_t_ in TRACKING and is silent otherwise.
Frame ==
  INSTANCE MapFrame WITH
    held   <- IF state = "TRACKING" THEN pose ELSE Nothing,
    misses <- IF state = "TRACKING" THEN fails ELSE 0,
    Depth  <- QueueDepth

\* However searches, manual poses, skips and failures follow each other, the
\* published transform behaves as MapFrame says: every way into TRACKING starts
\* the count of failures anew, and out of the tracking itself nothing but a
\* message of the operator moves it far.
ImplementsMapFrame == Frame!FrameSpec

\* Of the scans from before a loss, in the drifted odometry that made the
\* tracking fail, no more come to the searches after it than the subscription
\* held when it was noticed, however full the cloud was.
OldScansAreFew == state # "TRACKING" => old + late <= QueueDepth

\* An automatic localisation is accepted only if every result in another place
\* is clearly worse, though only the first of them is compared with the best.
AcceptedIsClear ==
  [][busy /\ state' = "TRACKING" =>
       \A i \in DOMAIN found :
         \/ found[i].pose - pose' < DedupDistance /\ pose' - found[i].pose < DedupDistance
         \/ found[1].score * 100 <= found[i].score * AmbiguityPercent]_vars

\* Standing still postpones the registration only so long: after every skip the
\* robot is aligned with the map, or placed by an operator, again.
AlignsAgain == skipped ~> ~skipped

\* A loss leads to a global search unless an operator was faster.
LossLeadsToSearch == state = "LOST" ~> busy \/ state = "TRACKING"
=============================================================================
