------------------------ MODULE RelocalizationProofs ------------------------
(***************************************************************************)
(* Proofs about Relocalization for every map, every limit and every        *)
(* number of candidates.                                                   *)
(***************************************************************************)
EXTENDS Relocalization, WellFoundedInduction, TLAPS

\* What TRACKING adds to the types: the node has a pose, and the tracking has
\* failed less often than it may.
TrackingInv == state = "TRACKING" => pose \in Poses /\ fails < MaxFailures

\* And of the scans that wait and those in the cloud, how many may be late or old.
HistoryInv == late <= waiting /\ old <= cloud

RelocInv == RelocTypeOK /\ TrackingInv /\ HistoryInv

\* An empty list of results is a possible outcome of a search.
LEMMA NoResults == <<>> \in Rankings
<1>1. <<>> \in [1 .. 0 -> Results]
  OBVIOUS
<1>2. 0 \in 0 .. TopK
  BY RelocAssumption DEF RelocAssumption
<1>3. Sorted(<<>>)
  BY DEF Sorted
<1> QED
  BY <1>1, <1>2, <1>3 DEF Rankings

\* A list of results that is not empty has a first one, with a pose of the map.
LEMMA FirstResult ==
  ASSUME NEW f \in Rankings, f # <<>>
  PROVE  1 \in DOMAIN f /\ f[1] \in Results /\ f[1].pose \in Poses
<1>1. PICK n \in 0 .. TopK : f \in [1 .. n -> Results]
  BY DEF Rankings
<1>2. n # 0
  <2>1. SUFFICES ASSUME n = 0 PROVE FALSE
    OBVIOUS
  <2>2. f \in [1 .. 0 -> Results]
    BY <1>1, <2>1
  <2>3. f = <<>>
    BY <2>2
  <2> QED
    BY <2>3
<1>3. 1 \in 1 .. n
  BY <1>2, RelocAssumption DEF RelocAssumption
<1>4. f[1] \in Results
  BY <1>1, <1>3
<1> QED
  BY <1>1, <1>3, <1>4 DEF Results

\* One step of a clock that stops at its limit.
LEMMA OlderType ==
  ASSUME NEW limit \in Nat, NEW age \in Never .. limit
  PROVE  Older(age, limit) \in Never .. limit
  BY DEF Older, Never

-----------------------------------------------------------------------------
FlagsOK ==
  /\ scanned \in BOOLEAN /\ base \in BOOLEAN /\ moved \in BOOLEAN
  /\ busy \in BOOLEAN /\ skipped \in BOOLEAN

ClocksOK ==
  /\ accum \in Never .. MinAccum
  /\ searched \in Never .. RetryPeriod
  /\ tracked \in Never .. ForceInterval

TrackingOK ==
  /\ state \in {"WAIT_INIT", "TRACKING", "LOST"}
  /\ pose \in Poses \cup {Nothing}
  /\ fails \in 0 .. MaxFailures
  /\ TrackingInv

CloudOK == cloud \in 0 .. CloudLimit + 1 /\ old \in 0 .. cloud

\* The late scans are among the waiting ones.
QueuesOK == waiting \in 0 .. QueueDepth /\ late \in 0 .. waiting /\ asked \in 0 .. QueueDepth

\* The parts of the invariant, each with the provers it is fit for.
LEMMA Parts ==
  RelocInv <=> FlagsOK /\ ClocksOK /\ TrackingOK /\ CloudOK /\ QueuesOK /\ found \in Rankings
<1> USE RelocAssumption DEF RelocAssumption
<1>1. ASSUME RelocInv PROVE CloudOK /\ QueuesOK
  BY <1>1 DEF RelocInv, RelocTypeOK, HistoryInv, CloudOK, QueuesOK
<1>2. ASSUME CloudOK, QueuesOK
      PROVE  /\ cloud \in 0 .. CloudLimit + 1 /\ old \in 0 .. CloudLimit + 1
             /\ {waiting, asked, late} \subseteq 0 .. QueueDepth /\ HistoryInv
  BY <1>2 DEF CloudOK, QueuesOK, HistoryInv
<1> QED
  BY <1>1, <1>2 DEF RelocInv, RelocTypeOK, FlagsOK, ClocksOK, TrackingOK

LEMMA InitInv == RelocInit => RelocInv
<1> SUFFICES ASSUME RelocInit PROVE RelocInv
  OBVIOUS
<1>1. FlagsOK
  BY Zenon DEF RelocInit, FlagsOK
<1>2. ClocksOK
  BY RelocAssumption DEF RelocInit, ClocksOK, Never, RelocAssumption
<1>3. TrackingOK
  BY RelocAssumption DEF RelocInit, TrackingOK, TrackingInv, RelocAssumption
<1>4. CloudOK
  BY RelocAssumption DEF RelocInit, CloudOK, RelocAssumption
<1>5. found \in Rankings
  BY NoResults DEF RelocInit
<1>6. QueuesOK
  BY RelocAssumption DEF RelocInit, QueuesOK, RelocAssumption
<1> QED
  BY <1>1, <1>2, <1>3, <1>4, <1>5, <1>6, Parts

LEMMA FlagsStep ==
  ASSUME FlagsOK, [RelocNext]_vars
  PROVE  FlagsOK'
<1> USE DEF FlagsOK
<1>1. CASE Scan
  BY <1>1 DEF Scan
<1>2. CASE Manual
  BY <1>2 DEF Manual, InitialPose
<1>3. CASE Search
  BY <1>3 DEF Search
<1>4. CASE SearchFails
  BY <1>4 DEF SearchFails
<1>5. CASE SearchAccepts
  BY <1>5 DEF SearchAccepts
<1>6. CASE TrackSkips
  BY <1>6 DEF TrackSkips
<1>7. CASE Align
  <2>1. CASE TrackRejects
    BY <2>1 DEF TrackRejects
  <2>2. CASE \E p \in Poses : TrackAccepts(p)
    <3>1. PICK p \in Poses : TrackAccepts(p)
      BY <2>2
    <3>2. base' \in BOOLEAN /\ moved' \in BOOLEAN
      BY <3>1 DEF TrackAccepts
    <3> QED
      BY <3>1, <3>2 DEF TrackAccepts
  <2> QED
    BY <1>7, <2>1, <2>2 DEF Align
<1>8. CASE Restart
  BY <1>8 DEF Restart
<1>9. CASE Drive
  BY <1>9 DEF Drive
<1>10. CASE Tick
  BY <1>10 DEF Tick
<1>11. CASE Arrive \/ AskPose \/ IgnorePose \/ UNCHANGED vars
  BY <1>11 DEF Arrive, AskPose, IgnorePose, vars
<1> QED
  BY <1>1, <1>2, <1>3, <1>4, <1>5, <1>6, <1>7, <1>8, <1>9, <1>10, <1>11
     DEF RelocNext, Registration

LEMMA ClocksStep ==
  ASSUME ClocksOK, [RelocNext]_vars
  PROVE  ClocksOK'
<1> USE RelocAssumption DEF RelocAssumption, ClocksOK, Never
<1>1. CASE Scan
  BY <1>1 DEF Scan
<1>2. CASE SearchAccepts
  BY <1>2 DEF SearchAccepts
<1>3. CASE \E p \in Poses : TrackAccepts(p)
  <2>1. tracked' \in {0, tracked} /\ UNCHANGED <<accum, searched>>
    BY <1>3 DEF TrackAccepts
  <2> QED
    BY <2>1
<1>4. CASE Tick
  BY <1>4, OlderType DEF Tick
<1>5. CASE Search \/ Restart
  BY <1>5 DEF Search, Restart
<1>6. CASE \/ Arrive \/ AskPose \/ IgnorePose \/ Manual \/ SearchFails \/ TrackSkips
           \/ TrackRejects \/ Drive \/ UNCHANGED vars
  <2>1. UNCHANGED <<accum, searched, tracked>>
    BY <1>6 DEF Arrive, AskPose, IgnorePose, Manual, InitialPose, SearchFails, TrackSkips, TrackRejects, Drive, vars
  <2> QED
    BY <2>1
<1> QED
  BY <1>1, <1>2, <1>3, <1>4, <1>5, <1>6 DEF RelocNext, Registration, Align

\* Every step comes to or stays in TRACKING only with a pose of the map and
\* with failures to spare: LOST is where the last one leads.
LEMMA TrackingStep ==
  ASSUME TrackingOK, found \in Rankings, [RelocNext]_vars
  PROVE  TrackingOK'
<1> USE RelocAssumption DEF RelocAssumption, TrackingOK, TrackingInv
<1>1. CASE Manual
  BY <1>1 DEF Manual, InitialPose
<1>2. CASE SearchAccepts
  <2>1. pose' \in Poses
    BY <1>2, FirstResult DEF SearchAccepts
  <2> QED
    BY <1>2, <2>1 DEF SearchAccepts
<1>3. CASE \E p \in Poses : TrackAccepts(p)
  BY <1>3 DEF TrackAccepts, Registers
<1>4. CASE TrackRejects
  <2>1. /\ state = "TRACKING" /\ fails' = fails + 1 /\ pose' = pose
        /\ state' = IF fails' >= MaxFailures THEN "LOST" ELSE "TRACKING"
    BY <1>4 DEF TrackRejects, Registers
  <2>2. pose \in Poses /\ fails < MaxFailures
    BY <2>1
  <2> QED
    BY <2>1, <2>2
<1>5. CASE Restart
  BY <1>5 DEF Restart
<1>6. CASE \/ Arrive \/ AskPose \/ IgnorePose \/ Scan \/ Search \/ SearchFails \/ TrackSkips
           \/ Drive \/ Tick \/ UNCHANGED vars
  <2>1. UNCHANGED <<state, pose, fails>>
    BY <1>6 DEF Arrive, AskPose, IgnorePose, Scan, Search, SearchFails, TrackSkips, Drive, Tick, vars
  <2> QED
    BY <2>1
<1> QED
  BY <1>1, <1>2, <1>3, <1>4, <1>5, <1>6 DEF RelocNext, Registration, Align

LEMMA CloudStep ==
  ASSUME CloudOK, QueuesOK, [RelocNext]_vars
  PROVE  CloudOK'
<1> USE RelocAssumption DEF RelocAssumption, CloudOK
<1>1. CASE Scan
  <2>1. Lates \in 0 .. 1
    BY DEF Lates
  <2>2. /\ cloud' = IF cloud > CloudLimit THEN 1 ELSE cloud + 1
        /\ old' = (IF cloud > CloudLimit THEN 0 ELSE old) + Lates
    BY <1>1 DEF Scan
  <2> QED
    BY <2>1, <2>2
<1>2. CASE Manual \/ SearchAccepts \/ TrackSkips \/ Align
  <2>1. cloud' = 0 /\ old' = 0
    BY <1>2 DEF Manual, InitialPose, SearchAccepts, TrackSkips, Align, TrackAccepts,
                TrackRejects, Clear
  <2> QED
    BY <2>1
<1>3. CASE \/ Arrive \/ AskPose \/ IgnorePose \/ Search \/ SearchFails \/ Restart \/ Drive \/ Tick
           \/ UNCHANGED vars
  <2>1. UNCHANGED <<cloud, old>>
    BY <1>3 DEF Arrive, AskPose, IgnorePose, Search, SearchFails, Restart, Drive, Tick, vars
  <2> QED
    BY <2>1
<1> QED
  BY <1>1, <1>2, <1>3 DEF RelocNext, Registration

\* A full queue drops a late scan first, and the callback takes one first.
LEMMA QueuesStep ==
  ASSUME QueuesOK, [RelocNext]_vars
  PROVE  QueuesOK'
<1> USE RelocAssumption DEF RelocAssumption, QueuesOK
<1>1. CASE Arrive
  BY <1>1 DEF Arrive
<1>2. CASE Scan
  BY <1>2 DEF Scan, Takes, Lates
<1>3. CASE AskPose \/ IgnorePose \/ Manual
  <2>1. asked' \in 0 .. QueueDepth /\ UNCHANGED <<waiting, late>>
    BY <1>3 DEF AskPose, IgnorePose, Manual, InitialPose
  <2> QED
    BY <2>1
<1>4. CASE TrackRejects
  <2>1. late' \in {waiting, late} /\ UNCHANGED <<waiting, asked>>
    BY <1>4 DEF TrackRejects, Ages
  <2> QED
    BY <2>1
<1>5. CASE \/ Search \/ SearchFails \/ SearchAccepts \/ TrackSkips \/ (\E p \in Poses : TrackAccepts(p))
           \/ Restart \/ Drive \/ Tick \/ UNCHANGED vars
  <2>1. UNCHANGED queues
    BY <1>5 DEF Search, SearchFails, SearchAccepts, TrackSkips, TrackAccepts, Restart, Drive, Tick,
                vars, queues
  <2> QED
    BY <2>1 DEF queues
<1> QED
  BY <1>1, <1>2, <1>3, <1>4, <1>5 DEF RelocNext, Registration, Align

LEMMA FoundStep ==
  ASSUME found \in Rankings, [RelocNext]_vars
  PROVE  found' \in Rankings
<1>1. CASE Search
  BY <1>1 DEF Search
<1>2. CASE SearchFails \/ SearchAccepts
  BY <1>2, NoResults DEF SearchFails, SearchAccepts
<1>3. CASE \/ Arrive \/ AskPose \/ IgnorePose \/ Scan \/ Manual \/ TrackSkips \/ Align \/ Restart
           \/ Drive \/ Tick \/ UNCHANGED vars
  <2>1. found' = found
    BY <1>3 DEF Arrive, AskPose, IgnorePose, Scan, Manual, InitialPose, TrackSkips, Align, TrackAccepts, TrackRejects,
                Restart, Drive, Tick, vars
  <2> QED
    BY <2>1
<1> QED
  BY <1>1, <1>2, <1>3 DEF RelocNext, Registration

LEMMA StepInv == RelocInv /\ [RelocNext]_vars => RelocInv'
<1> SUFFICES ASSUME RelocInv, [RelocNext]_vars PROVE RelocInv'
  OBVIOUS
<1>1. FlagsOK /\ ClocksOK /\ TrackingOK /\ CloudOK /\ QueuesOK /\ found \in Rankings
  BY Parts
<1>2. FlagsOK' /\ ClocksOK' /\ TrackingOK' /\ CloudOK' /\ QueuesOK' /\ (found \in Rankings)'
  BY <1>1, FlagsStep, ClocksStep, TrackingStep, CloudStep, QueuesStep, FoundStep
<1> QED
  BY <1>2, Parts, PTL

LEMMA InvAlways == RelocSafety => []RelocInv
<1> QED
  BY InitInv, StepInv, PTL DEF RelocSafety

LEMMA SpecSafety == RelocSpec => RelocSafety
  BY PTL DEF RelocSpec

\* The state of GicpRelocalizationNode is of its types: in particular
\* gicp_fail_count_ never passes gicp_max_consecutive_failures.
THEOREM RelocTypes == RelocSpec => []RelocTypeOK
<1>1. RelocInv => RelocTypeOK
  BY DEF RelocInv
<1> QED
  BY <1>1, InvAlways, SpecSafety, PTL

-----------------------------------------------------------------------------
\* After a loss the old scans only get fewer: they come out of the queue into
\* the cloud, or are dropped.
OldInv == state # "TRACKING" => old + late <= QueueDepth

LEMMA OldStep ==
  ASSUME RelocInv, OldInv, [RelocNext]_vars
  PROVE  OldInv'
<1> USE RelocAssumption DEF RelocAssumption, OldInv
<1>1. CloudOK /\ QueuesOK
  BY Parts
<1>2. old \in Nat /\ late \in Nat /\ waiting \in 0 .. QueueDepth /\ late <= waiting
  BY <1>1 DEF CloudOK, QueuesOK
<1>3. CASE Arrive
  <2>1. state' = state /\ old' = old /\ late' \in {late, late - 1}
    BY <1>3 DEF Arrive
  <2>2. SUFFICES ASSUME state # "TRACKING" PROVE old + late' <= QueueDepth
    BY <2>1
  <2>3. old + late <= QueueDepth
    BY <2>2
  <2>4. CASE late' = late
    BY <2>3, <2>4
  <2>5. CASE late' = late - 1
    BY <1>2, <2>3, <2>5
  <2> QED
    BY <2>1, <2>4, <2>5
<1>4. CASE Scan
  <2>1. /\ state' = state /\ late' = late - Lates
        /\ old' = (IF cloud > CloudLimit THEN 0 ELSE old) + Lates
    BY <1>4 DEF Scan
  <2>2. Lates \in 0 .. 1
    BY DEF Lates
  <2>3. CASE cloud > CloudLimit
    <3>1. old' + late' = late
      BY <1>2, <2>1, <2>2, <2>3
    <3> QED
      BY <1>2, <3>1
  <2>4. CASE ~(cloud > CloudLimit)
    <3>1. old' + late' = old + late
      BY <1>2, <2>1, <2>2, <2>4
    <3> QED
      BY <2>1, <3>1
  <2> QED
    BY <2>3, <2>4
<1>5. CASE Manual \/ SearchAccepts \/ TrackSkips \/ \E p \in Poses : TrackAccepts(p)
  <2>1. state' = "TRACKING"
    BY <1>5 DEF Manual, InitialPose, SearchAccepts, TrackSkips, TrackAccepts, Registers
  <2> QED
    BY <2>1
<1>6. CASE TrackRejects
  <2>1. old' = 0 /\ (state' # "TRACKING" => late' = waiting)
    BY <1>6 DEF TrackRejects, Clear, Ages
  <2> QED
    BY <1>2, <2>1
<1>7. CASE Restart
  <2>1. state = "LOST" /\ UNCHANGED <<old, late>>
    BY <1>7 DEF Restart, Registers, queues
  <2> QED
    BY <2>1
<1>8. CASE AskPose \/ IgnorePose \/ Search \/ SearchFails \/ Drive \/ Tick \/ UNCHANGED vars
  <2>1. UNCHANGED <<state, old, late>>
    BY <1>8 DEF AskPose, IgnorePose, Search, SearchFails, Drive, Tick, vars, queues
  <2> QED
    BY <2>1
<1> QED
  BY <1>3, <1>4, <1>5, <1>6, <1>7, <1>8 DEF RelocNext, Registration, Align

\* Of the scans from before a loss no more reach accumulated_cloud_, and the
\* searches after it, than the subscription held when the loss was noticed.
THEOREM OldScansAreFewTheorem == RelocSpec => []OldScansAreFew
<1>1. RelocInit => OldInv
  BY RelocAssumption DEF RelocInit, OldInv, RelocAssumption
<1>2. OldInv => OldScansAreFew
  BY DEF OldInv, OldScansAreFew
<1> QED
  BY <1>1, <1>2, OldStep, InvAlways, SpecSafety, PTL DEF RelocSafety
-----------------------------------------------------------------------------
\* Nothing interrupts a search, so it ends in the state it began in.
BusyInv == busy => state = "WAIT_INIT"

LEMMA BusyStep == BusyInv /\ [RelocNext]_vars => BusyInv'
<1> SUFFICES ASSUME BusyInv, [RelocNext]_vars PROVE BusyInv'
  OBVIOUS
<1> USE DEF BusyInv
<1>1. CASE Search
  BY <1>1 DEF Search, Registers
<1>2. CASE SearchFails \/ SearchAccepts
  BY <1>2 DEF SearchFails, SearchAccepts
<1>3. CASE Arrive \/ AskPose \/ IgnorePose \/ Scan \/ Drive \/ Tick \/ UNCHANGED vars
  BY <1>3 DEF Arrive, AskPose, IgnorePose, Scan, Drive, Tick, vars
<1>4. CASE Manual \/ TrackSkips \/ Align \/ Restart
  <2>1. ~busy'
    BY <1>4 DEF Manual, InitialPose, TrackSkips, Align, TrackAccepts, TrackRejects,
                Restart, Registers
  <2> QED
    BY <2>1
<1> QED
  BY <1>1, <1>2, <1>3, <1>4 DEF RelocNext, Registration

\* The transform as MapFrame sees it.
Held == IF state = "TRACKING" THEN pose ELSE Nothing
Misses == IF state = "TRACKING" THEN fails ELSE 0

LEMMA FrameStart == RelocInit => Frame!FrameInit
  BY DEF RelocInit, Frame!FrameInit

\* What the callbacks do to the published transform: a search finds the robot out
\* of silence, a message of the operator places it, a good registration corrects, a bad one misses or gives up.
LEMMA FrameStep ==
  ASSUME RelocInv, BusyInv, [RelocNext]_vars
  PROVE  [Frame!FrameNext]_<<Held, Misses, asked>>
<1> USE RelocAssumption
    DEF RelocAssumption, Held, Misses, Frame!FrameNext
<1>1. TrackingOK /\ found \in Rankings
  BY Parts
<1>2. CASE Manual
  <2>1. PICK p \in Poses : InitialPose(p)
    BY <1>2 DEF Manual
  <2>2. Frame!Place(p)
    BY <2>1 DEF InitialPose, Frame!Place
  <2> QED
    BY <2>2
<1>3. CASE SearchAccepts
  <2>1. found[1].pose \in Poses
    BY <1>1, <1>3, FirstResult DEF SearchAccepts
  <2>2. Frame!Find(found[1].pose)
    BY <1>3 DEF SearchAccepts, Frame!Find, BusyInv, queues
  <2> QED
    BY <2>1, <2>2
<1>4. CASE \E p \in Poses : TrackAccepts(p)
  <2>1. PICK p \in Poses : TrackAccepts(p)
    BY <1>4
  <2>2. state = "TRACKING" /\ state' = "TRACKING" /\ pose \in Poses /\ pose' = p /\ fails' = 0
        /\ asked' = asked
    BY <1>1, <2>1 DEF TrackAccepts, Registers, TrackingOK, TrackingInv, queues
  <2>3. p - pose <= MaxJump /\ pose - p <= MaxJump
    BY <2>1 DEF TrackAccepts
  <2>4. Frame!Correct(p)
    BY <2>2, <2>3 DEF Frame!Correct, Frame!Near
  <2> QED
    BY <2>4
<1>5. CASE TrackRejects
  <2>1. /\ state = "TRACKING" /\ fails' = fails + 1 /\ pose' = pose
        /\ state' = IF fails' >= MaxFailures THEN "LOST" ELSE "TRACKING"
        /\ asked' = asked
    BY <1>5 DEF TrackRejects, Registers
  <2>2. pose \in Poses /\ fails < MaxFailures /\ fails \in Nat
    BY <1>1, <2>1 DEF TrackingOK, TrackingInv
  <2>3. CASE fails + 1 = MaxFailures
    BY <2>1, <2>2, <2>3 DEF Frame!GiveUp
  <2>4. CASE fails + 1 < MaxFailures
    BY <2>1, <2>2, <2>4 DEF Frame!Miss
  <2> QED
    BY <2>2, <2>3, <2>4
<1>6. CASE Restart
  BY <1>6 DEF Restart, Registers, queues
<1>7. CASE Arrive \/ Scan \/ Search \/ SearchFails \/ TrackSkips \/ Drive \/ Tick \/ UNCHANGED vars
  <2>1. UNCHANGED <<state, pose, fails, asked>>
    BY <1>7 DEF Arrive, Scan, Search, SearchFails, TrackSkips, Drive, Tick, vars, queues
  <2> QED
    BY <2>1
<1>8. CASE AskPose \/ IgnorePose
  <2>1. Frame!Ask \/ Frame!Ignore
    BY <1>8 DEF AskPose, IgnorePose, Frame!Ask, Frame!Ignore
  <2> QED
    BY <2>1
<1> QED
  BY <1>2, <1>3, <1>4, <1>5, <1>6, <1>7, <1>8 DEF RelocNext, Registration, Align

\* The node implements MapFrame: the transform from map to odom is silent or
\* one pose, moves by at most MaxJump at a time unless a message of the operator
\* is used up for it, and is withdrawn after exactly MaxFailures failed
\* registrations in a row.
THEOREM ImplementsMapFrameTheorem == RelocSpec => ImplementsMapFrame
<1>1. RelocInv /\ BusyInv /\ [RelocNext]_vars => [Frame!FrameNext]_<<Held, Misses, asked>>
  BY FrameStep
<1>2. RelocInit => BusyInv
  BY DEF RelocInit, BusyInv
<1> QED
  BY <1>1, <1>2, BusyStep, FrameStart, InvAlways, SpecSafety, PTL
  DEF RelocSafety, ImplementsMapFrame, Frame!FrameSpec, Held, Misses

-----------------------------------------------------------------------------
LEMMA LeastElement ==
  ASSUME NEW T \in SUBSET Nat, T # {}
  PROVE  \E x \in T : \A y \in T : x <= y
<1>1. PICK x \in T : \A y \in T : ~ (<<y, x>> \in OpToRel(<, Nat))
  BY NatLessThanWellFounded, WFMin
<1>2. \A y \in T : ~ (y < x)
  BY <1>1 DEF OpToRel
<1> QED
  BY <1>2

LEMMA Transitive ==
  ASSUME NEW a \in Int, NEW b \in Int, NEW c \in Int, a <= b, b <= c
  PROVE  a <= c
  OBVIOUS

\* The results are sorted, so to compare the best with the first of another
\* place is to compare it with all of them.
LEMMA ClearOfRivals ==
  ASSUME found \in Rankings, found # <<>>, ~Ambiguous, NEW i \in Rivals
  PROVE  found[1].score * 100 <= found[i].score * AmbiguityPercent
<1>1. PICK n \in 0 .. TopK : found \in [1 .. n -> Results] /\ Sorted(found)
  BY DEF Rankings
<1>2. DOMAIN found = 1 .. n /\ Rivals \in SUBSET Nat
  BY <1>1, RelocAssumption DEF Rivals, RelocAssumption
<1>3. PICK k \in Rivals : \A j \in Rivals : k <= j
  BY <1>2, LeastElement
<1>4. found[1].score * 100 <= found[k].score * AmbiguityPercent
  <2>1. found[1].score \in Nat /\ found[k].score \in Nat
    BY <1>1, <1>2, <1>3, FirstResult, RelocAssumption DEF Results, Rivals, RelocAssumption
  <2>2. ~(found[1].score * 100 > found[k].score * AmbiguityPercent)
    BY <1>3 DEF Ambiguous
  <2> QED
    BY <2>1, <2>2, RelocAssumption DEF RelocAssumption
<1>5. found[k].score <= found[i].score /\ found[k].score \in Nat /\ found[i].score \in Nat
  <2>1. i \in 1 .. n /\ k \in 1 .. n /\ k <= i
    BY <1>2, <1>3 DEF Rivals
  <2>2. found[k].score \in Nat /\ found[i].score \in Nat
    BY <1>1, <2>1, RelocAssumption DEF Results, RelocAssumption
  <2> QED
    BY <1>1, <1>2, <2>1, <2>2 DEF Sorted
<1>6. found[k].score * AmbiguityPercent <= found[i].score * AmbiguityPercent
  BY <1>5, RelocAssumption DEF RelocAssumption
<1>7. found[1].score \in Nat
  BY FirstResult, RelocAssumption DEF Results, RelocAssumption
<1>8. /\ found[1].score * 100 \in Int
      /\ found[k].score * AmbiguityPercent \in Int
      /\ found[i].score * AmbiguityPercent \in Int
  BY <1>5, <1>7, RelocAssumption DEF RelocAssumption
<1> HIDE DEF Rivals
<1> QED
  BY <1>4, <1>6, <1>8, Transitive

\* An automatic localisation leaves no serious rival in another place, however
\* many candidates there are and wherever in the list the rivals stand.
THEOREM AcceptedIsClearTheorem == RelocSpec => AcceptedIsClear
<1>1. ASSUME RelocInv, BusyInv, [RelocNext]_vars, busy, state' = "TRACKING"
      PROVE  \A i \in DOMAIN found :
               \/ found[i].pose - pose' < DedupDistance /\ pose' - found[i].pose < DedupDistance
               \/ found[1].score * 100 <= found[i].score * AmbiguityPercent
  <2>1. SearchAccepts
    BY <1>1 DEF BusyInv, RelocNext, Registration, Align, Arrive, AskPose, IgnorePose, Manual, Scan, InitialPose, Search,
                SearchFails, TrackSkips, TrackAccepts, TrackRejects, Restart, Drive, Tick,
                Registers, vars
  <2> SUFFICES ASSUME NEW i \in DOMAIN found
               PROVE  \/ SamePlace(found[i], found[1])
                      \/ found[1].score * 100 <= found[i].score * AmbiguityPercent
    BY <2>1 DEF SearchAccepts, SamePlace
  <2>2. CASE i \in Rivals
    BY <2>1, <2>2, <1>1, Parts, ClearOfRivals DEF SearchAccepts
  <2>3. CASE i \notin Rivals
    BY <2>3 DEF Rivals
  <2> QED
    BY <2>2, <2>3
<1>2. RelocInit => BusyInv
  BY DEF RelocInit, BusyInv
<1> QED
  BY <1>1, <1>2, BusyStep, InvAlways, SpecSafety, PTL DEF RelocSafety, AcceptedIsClear
=============================================================================
