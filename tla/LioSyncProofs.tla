--------------------------- MODULE LioSyncProofs ----------------------------
(***************************************************************************)
(* Proofs about LioSync for any scan time, number of stamps, backlog and   *)
(* number of clock jumps: scans keep their stamps until the lidar clock    *)
(* jumps back, samples are used once and in order until the IMU clock      *)
(* does, the filter is advanced by the time between two scans, and an      *)
(* odometry belongs to the scan of its package.                            *)
(***************************************************************************)
EXTENDS LioSync, SequenceTheorems, WellFoundedInduction, TLAPS

Stamps == 0 .. Horizon

\* What the buffers hold, as far as the proofs need it.
BufferInv ==
  /\ lidarBuffer \in Seq(Scans) /\ timeBuffer \in Seq(Stamps) /\ imuBuffer \in Seq(Stamps)
  /\ lastImu \in None .. Horizon
  /\ jumps \in [lidar : Nat, imu : Nat]
  /\ pushed \in BOOLEAN
  /\ measures \in [lidar : Scans \cup {NoScan}, beg : None .. Horizon, end : Int, imu : Seq(Stamps)]
  /\ meanScan \in {0, Span}

LEMMA SpanType == Span \in Nat /\ Horizon \in Nat
  BY LioAssumption DEF LioAssumption

LEMMA StampsInSeq ==
  ASSUME NEW s \in Seq(Stamps)
  PROVE  \A i \in 1 .. Len(s) : s[i] \in Stamps /\ s[i] \in Int
  <1>1. \A i \in 1 .. Len(s) : s[i] \in Stamps
    BY ElementOfSeq
  <1>2. Stamps \subseteq Int
    BY DEF Stamps
  <1> QED
    BY <1>1, <1>2

LEMMA PushedType ==
  ASSUME BufferInv, lidarBuffer # <<>>, timeBuffer # <<>>
  PROVE  /\ Pushed \in [lidar : Scans \cup {NoScan}, beg : None .. Horizon, end : Int, imu : Seq(Stamps)]
         /\ Pushed.imu = measures.imu
         /\ ~pushed => Pushed.lidar = lidarBuffer[1] /\ Pushed.beg = timeBuffer[1]
         /\ pushed => Pushed = measures
         /\ MeanAfter \in {0, Span}
  <1>1. /\ lidarBuffer[1] = Head(lidarBuffer) /\ Head(lidarBuffer) \in Scans
        /\ timeBuffer[1] = Head(timeBuffer) /\ Head(timeBuffer) \in Stamps
    BY HeadTailProperties DEF BufferInv
  <1>2. MeanAfter \in {0, Span} /\ meanScan \in Int
    BY SpanType DEF MeanAfter, BufferInv
  <1>3. measures \in [lidar : Scans \cup {NoScan}, beg : None .. Horizon, end : Int, imu : Seq(Stamps)]
    BY DEF BufferInv
  <1>4. CASE pushed
    BY <1>2, <1>3, <1>4 DEF Pushed
  <1>5. CASE ~pushed
    <2> DEFINE e == Head(timeBuffer) + (IF Head(lidarBuffer).size = "full" THEN Span ELSE meanScan)
    <2>1. e \in Int /\ Head(timeBuffer) \in None .. Horizon
      BY <1>1, <1>2, SpanType DEF Stamps, None
    <2>2. Pushed = [measures EXCEPT !.lidar = Head(lidarBuffer), !.beg = Head(timeBuffer), !.end = e]
      BY <1>5 DEF Pushed
    <2> HIDE DEF e
    <2> QED
      BY <1>1, <1>2, <1>3, <1>5, <2>1, <2>2
  <1> QED
    BY <1>4, <1>5

\* The loop of sync_packages takes a prefix of the buffer, up to the end.
LEMMA TakenType ==
  ASSUME imuBuffer \in Seq(Stamps), imuBuffer # <<>>, NEW end \in Int
  PROVE  /\ Taken(end) \in 0 .. Len(imuBuffer)
         /\ \A i \in 1 .. Taken(end) : imuBuffer[i] <= end
         /\ \/ Taken(end) = 0 /\ imuBuffer[1] >= end
            \/ /\ Taken(end) # 0
               /\ Taken(end) < Len(imuBuffer) =>
                    imuBuffer[Taken(end) + 1] > end \/ imuBuffer[Taken(end)] = end
  <1> DEFINE n == Len(imuBuffer)
             P(k) == /\ \A i \in 1 .. k : imuBuffer[i] <= end
                     /\ k < n => imuBuffer[k + 1] > end \/ imuBuffer[k] = end
                     /\ \A i \in 1 .. k - 1 : imuBuffer[i] < end
  <1>1. n \in Nat /\ n >= 1 /\ \A i \in 1 .. n : imuBuffer[i] \in Int
    <2>1. n \in Nat \ {0}
      BY EmptySeq
    <2> QED
      BY <2>1, StampsInSeq
  <1>2. CASE imuBuffer[1] >= end
    BY <1>1, <1>2 DEF Taken
  <1>3. CASE ~(imuBuffer[1] >= end)
    <2> DEFINE T == {i \in 1 .. n : imuBuffer[i] >= end}
    <2>1. \E k \in 1 .. n : P(k)
      <3>1. CASE T = {}
        <4>1. \A i \in 1 .. n : imuBuffer[i] < end
          BY <1>1, <3>1
        <4>2. P(n)
          BY <1>1, <4>1
        <4> QED
          BY <1>1, <4>2
      <3>2. CASE T # {}
        <4>1. T \subseteq Nat
          BY <1>1
        <4>2. \E x \in T : \A y \in T : ~(<<y, x>> \in OpToRel(<, Nat))
          BY <3>2, <4>1, NatLessThanWellFounded, WFMin
        <4>3. PICK m \in T : \A y \in T : m <= y
          <5>1. \A x, y \in T : ~(<<y, x>> \in OpToRel(<, Nat)) => x <= y
            BY <4>1 DEF OpToRel
          <5> QED
            BY <4>2, <5>1
        <4>4. \A i \in 1 .. m - 1 : imuBuffer[i] < end
          BY <1>1, <4>3
        <4>5. m \in 1 .. n /\ m # 1 /\ m - 1 \in 1 .. n
          BY <1>1, <1>3, <4>3
        <4>6. CASE imuBuffer[m] = end
          <5>1. P(m)
            BY <1>1, <4>4, <4>5, <4>6
          <5> QED
            BY <4>5, <5>1
        <4>7. CASE imuBuffer[m] > end
          <5>1. (m - 1) + 1 = m /\ 1 .. (m - 1) - 1 \subseteq 1 .. m - 1
            BY <4>5
          <5>2. P(m - 1)
            BY <1>1, <4>4, <4>5, <4>7, <5>1
          <5> QED
            BY <4>5, <5>2
        <4> QED
          BY <1>1, <4>3, <4>5, <4>6, <4>7
      <3> QED
        BY <3>1, <3>2
    <2>2. Taken(end) = CHOOSE k \in 1 .. n : P(k)
      BY <1>3 DEF Taken
    <2> HIDE DEF P
    <2>3. Taken(end) \in 1 .. n /\ P(Taken(end))
      BY <2>1, <2>2
    <2> QED
      BY <1>1, <2>3 DEF P
  <1> QED
    BY <1>2, <1>3
-----------------------------------------------------------------------------

\* The order of samples also needs that none is newer than the last received.
OrderInv ==
  /\ SamplesOnceInOrder
  /\ \A i \in 1 .. Len(imuBuffer) : imuBuffer[i] <= lastImu
  /\ jumps.imu = 0 /\ measures.imu # <<>> => Last(measures.imu) <= lastImu

SyncInv == BufferInv /\ PairedUntilLoopBack /\ OrderInv

LEMMA SyncStart == LioInit => SyncInv
  <1> SUFFICES ASSUME LioInit PROVE SyncInv
    OBVIOUS
  <1>1. /\ lidarBuffer = <<>> /\ timeBuffer = <<>> /\ imuBuffer = <<>>
        /\ lastImu = None /\ jumps = [lidar |-> 0, imu |-> 0]
        /\ pushed = FALSE /\ measures = NoMeasures /\ meanScan = 0
    BY DEF LioInit
  <1>2. BufferInv
    <2>1. measures \in [lidar : Scans \cup {NoScan}, beg : None .. Horizon, end : Int, imu : Seq(Stamps)]
      BY <1>1, SpanType DEF NoMeasures, None
    <2> QED
      <3>1. lidarBuffer \in Seq(Scans) /\ timeBuffer \in Seq(Stamps) /\ imuBuffer \in Seq(Stamps)
        BY <1>1, EmptySeq
      <3>2. lastImu \in None .. Horizon
        BY <1>1, SpanType DEF None
      <3>3. jumps \in [lidar : Nat, imu : Nat]
        BY <1>1
      <3> QED
        BY <1>1, <2>1, <3>1, <3>2, <3>3 DEF BufferInv
  <1>3. Len(<<>>) = 0 /\ \A i \in 1 .. 0 : FALSE
    OBVIOUS
  <1>4. PairedUntilLoopBack
    <2>1. measures.beg = measures.lidar.stamp
      BY <1>1 DEF NoMeasures, NoScan
    <2>2. timeBuffer = [i \in 1 .. Len(lidarBuffer) |-> lidarBuffer[i].stamp]
      BY <1>1, <1>3
    <2> QED
      BY <1>1, <1>3, <2>1, <2>2 DEF PairedUntilLoopBack
  <1>5. OrderInv
    <2>1. measures.imu = <<>>
      BY <1>1 DEF NoMeasures
    <2> QED
      BY <1>1, <1>3, <2>1 DEF OrderInv, SamplesOnceInOrder
  <1> QED
    BY <1>2, <1>4, <1>5 DEF SyncInv

LEMMA ScanKeeps ==
  ASSUME SyncInv, NEW scan \in Scans, LidarCallback(scan)
  PROVE  SyncInv'
  <1> DEFINE back == lastLidar # None /\ scan.stamp < lastLidar
             kept == IF back THEN <<>> ELSE lidarBuffer
  <1>1. /\ lidarBuffer' = Append(kept, scan) /\ timeBuffer' = Append(timeBuffer, scan.stamp)
        /\ jumps' = IF back THEN [jumps EXCEPT !.lidar = @ + 1] ELSE jumps
        /\ UNCHANGED <<imuBuffer, lastImu, pushed, measures, meanScan>>
    BY DEF LidarCallback
  <1>2. /\ kept \in Seq(Scans) /\ timeBuffer \in Seq(Stamps) /\ scan.stamp \in Stamps
        /\ lidarBuffer \in Seq(Scans)
    BY DEF SyncInv, BufferInv, Scans, Stamps
  <1>3. jumps \in [lidar : Nat, imu : Nat]
    BY DEF SyncInv, BufferInv
  <1>4. jumps' \in [lidar : Nat, imu : Nat] /\ jumps'.imu = jumps.imu
          /\ (jumps'.lidar = 0 => ~back /\ jumps.lidar = 0)
    <2>1. CASE back
      BY <1>1, <1>3, <2>1
    <2>2. CASE ~back
      BY <1>1, <1>3, <2>2
    <2> QED
      BY <2>1, <2>2
  <1> HIDE DEF back
  <1>5. /\ lidarBuffer' \in Seq(Scans) /\ Len(lidarBuffer') = Len(kept) + 1
        /\ timeBuffer' \in Seq(Stamps) /\ Len(timeBuffer') = Len(timeBuffer) + 1
        /\ Len(kept) \in Nat /\ Len(timeBuffer) \in Nat
        /\ lidarBuffer' # <<>>
    BY <1>1, <1>2, AppendProperties, LenProperties
  <1>6. BufferInv'
    BY <1>1, <1>4, <1>5 DEF SyncInv, BufferInv
  <1>7. Len(timeBuffer') >= Len(lidarBuffer')
    <2>1. Len(kept) <= Len(timeBuffer)
      <3>1. Len(<<>>) = 0
        OBVIOUS
      <3> QED
        BY <1>5, <3>1 DEF SyncInv, PairedUntilLoopBack
    <2> QED
      BY <1>5, <2>1
  <1>8. ASSUME jumps'.lidar = 0
        PROVE  /\ timeBuffer' = [i \in 1 .. Len(lidarBuffer') |-> lidarBuffer'[i].stamp]
               /\ pushed' => measures'.lidar = lidarBuffer'[1]
               /\ measures'.beg = measures'.lidar.stamp
    <2>1. /\ lidarBuffer' = Append(lidarBuffer, scan)
          /\ timeBuffer = [i \in 1 .. Len(lidarBuffer) |-> lidarBuffer[i].stamp]
          /\ pushed => lidarBuffer # <<>> /\ measures.lidar = lidarBuffer[1]
          /\ measures.beg = measures.lidar.stamp
          /\ Len(lidarBuffer) = Len(kept)
      BY <1>1, <1>4, <1>8 DEF SyncInv, PairedUntilLoopBack
    <2>2. Len(timeBuffer) = Len(lidarBuffer)
      BY <1>2, <2>1, LenProperties
    <2>3. /\ \A i \in 1 .. Len(lidarBuffer) : lidarBuffer'[i] = lidarBuffer[i]
          /\ lidarBuffer'[Len(lidarBuffer) + 1] = scan
          /\ \A i \in 1 .. Len(timeBuffer) : timeBuffer'[i] = timeBuffer[i]
          /\ timeBuffer'[Len(timeBuffer) + 1] = scan.stamp
      BY <1>1, <1>2, <2>1, AppendProperties
    <2>4. \A i \in 1 .. Len(lidarBuffer') : timeBuffer'[i] = lidarBuffer'[i].stamp
      <3> SUFFICES ASSUME NEW i \in 1 .. Len(lidarBuffer')
                   PROVE  timeBuffer'[i] = lidarBuffer'[i].stamp
        OBVIOUS
      <3>1. CASE i \in 1 .. Len(lidarBuffer)
        <4>1. timeBuffer[i] = lidarBuffer[i].stamp
          BY <2>1, <3>1
        <4> QED
          BY <2>2, <2>3, <3>1, <4>1
      <3>2. CASE i \notin 1 .. Len(lidarBuffer)
        <4>1. i = Len(lidarBuffer) + 1
          BY <1>5, <2>1, <3>2
        <4> QED
          BY <2>2, <2>3, <4>1
      <3> QED
        BY <3>1, <3>2
    <2>5. timeBuffer' = [i \in 1 .. Len(timeBuffer') |-> timeBuffer'[i]]
      BY <1>5, LenProperties
    <2>6. timeBuffer' = [i \in 1 .. Len(lidarBuffer') |-> lidarBuffer'[i].stamp]
      BY <1>5, <2>1, <2>2, <2>4, <2>5
    <2>7. pushed => lidarBuffer'[1] = lidarBuffer[1]
      BY <1>2, <2>1, <2>3, EmptySeq
    <2> QED
      BY <1>1, <2>1, <2>6, <2>7
  <1>9. PairedUntilLoopBack'
    BY <1>5, <1>7, <1>8 DEF PairedUntilLoopBack
  <1>10. OrderInv'
    BY <1>1, <1>4 DEF SyncInv, OrderInv, SamplesOnceInOrder
  <1> QED
    BY <1>6, <1>9, <1>10 DEF SyncInv

LEMMA SampleKeeps ==
  ASSUME SyncInv, NEW stamp \in Stamps, stamp # lastImu, ImuCallback(stamp)
  PROVE  SyncInv'
  <1> DEFINE back == stamp < lastImu
             kept == IF back THEN <<>> ELSE imuBuffer
  <1>1. /\ imuBuffer' = Append(kept, stamp) /\ lastImu' = stamp
        /\ jumps' = IF back THEN [jumps EXCEPT !.imu = @ + 1] ELSE jumps
        /\ UNCHANGED <<lidarBuffer, timeBuffer, lastLidar, pushed, measures, meanScan>>
    BY DEF ImuCallback
  <1>2. kept \in Seq(Stamps) /\ lastImu \in Int /\ stamp \in Int /\ stamp \in None .. Horizon
          /\ imuBuffer \in Seq(Stamps)
    <2>1. imuBuffer \in Seq(Stamps) /\ lastImu \in None .. Horizon
      BY DEF SyncInv, BufferInv
    <2>2. kept \in Seq(Stamps)
      BY <2>1, EmptySeq
    <2>3. lastImu \in Int /\ stamp \in Int /\ stamp \in None .. Horizon
      BY <2>1, SpanType DEF Stamps, None
    <2> QED
      BY <2>1, <2>2, <2>3
  <1>3. jumps \in [lidar : Nat, imu : Nat]
    BY DEF SyncInv, BufferInv
  <1>4. jumps' \in [lidar : Nat, imu : Nat] /\ jumps'.lidar = jumps.lidar
          /\ (jumps'.imu = 0 => ~back /\ jumps.imu = 0)
    <2>1. CASE back
      BY <1>1, <1>3, <2>1
    <2>2. CASE ~back
      BY <1>1, <1>3, <2>2
    <2> QED
      BY <2>1, <2>2
  <1>5. /\ imuBuffer' \in Seq(Stamps) /\ Len(imuBuffer') = Len(kept) + 1 /\ Len(kept) \in Nat
        /\ imuBuffer' # <<>>
        /\ \A i \in 1 .. Len(kept) : imuBuffer'[i] = kept[i]
        /\ imuBuffer'[Len(kept) + 1] = stamp
    BY <1>1, <1>2, AppendProperties, LenProperties
  <1>6. BufferInv'
    BY <1>1, <1>2, <1>4, <1>5 DEF SyncInv, BufferInv
  <1>7. PairedUntilLoopBack'
    BY <1>1, <1>4 DEF SyncInv, PairedUntilLoopBack
  <1>8. \A i \in 1 .. Len(kept) : kept[i] < stamp /\ kept[i] \in Int
    <2>1. CASE back
      <3>1. Len(<<>>) = 0 /\ \A i \in 1 .. 0 : FALSE
        OBVIOUS
      <3> QED
        BY <2>1, <3>1
    <2>2. CASE ~back
      <3>1. \A i \in 1 .. Len(imuBuffer) : imuBuffer[i] <= lastImu /\ imuBuffer[i] \in Int
        BY <1>2, StampsInSeq DEF SyncInv, OrderInv
      <3>2. lastImu < stamp
        BY <1>2, <2>2
      <3> HIDE DEF back
      <3> QED
        BY <1>2, <2>2, <3>1, <3>2
    <2> QED
      BY <2>1, <2>2
  <1>9. \A i \in 1 .. Len(kept) - 1 : kept[i] < kept[i + 1]
    <2>1. CASE back
      <3>1. Len(<<>>) = 0 /\ \A i \in 1 .. -1 : FALSE
        OBVIOUS
      <3> QED
        BY <2>1, <3>1
    <2>2. CASE ~back
      BY <2>2 DEF SyncInv, OrderInv, SamplesOnceInOrder
    <2> QED
      BY <2>1, <2>2
  <1>10. \A i \in 1 .. Len(imuBuffer') : imuBuffer'[i] <= lastImu'
    BY <1>1, <1>2, <1>5, <1>8
  <1>11. \A i \in 1 .. Len(imuBuffer') - 1 : imuBuffer'[i] < imuBuffer'[i + 1]
    <2> SUFFICES ASSUME NEW i \in 1 .. Len(kept)
                 PROVE  imuBuffer'[i] < imuBuffer'[i + 1]
      BY <1>5
    <2> HIDE DEF kept
    <2>1. CASE i = Len(kept)
      BY <1>5, <1>8, <2>1
    <2>2. CASE i # Len(kept)
      <3>1. i \in 1 .. Len(kept) - 1 /\ i + 1 \in 1 .. Len(kept)
        BY <1>5, <2>2
      <3> QED
        BY <1>5, <1>9, <3>1
    <2> QED
      BY <2>1, <2>2
  <1>12. Last(imuBuffer') = lastImu'
    BY <1>1, <1>5 DEF Last
  <1>13. ASSUME jumps'.imu = 0, measures'.imu # <<>>
         PROVE  /\ Last(measures'.imu) < imuBuffer'[1]
                /\ ~pushed' => Last(measures'.imu) <= measures'.end
                /\ Last(measures'.imu) <= lastImu'
    <2>1. /\ ~back /\ jumps.imu = 0 /\ measures.imu # <<>> /\ measures' = measures
          /\ pushed' = pushed
      BY <1>1, <1>4, <1>13
    <2>2. /\ Last(measures.imu) <= lastImu
          /\ imuBuffer # <<>> => Last(measures.imu) < imuBuffer[1]
          /\ ~pushed => Last(measures.imu) <= measures.end
      BY <2>1 DEF SyncInv, OrderInv, SamplesOnceInOrder
    <2>3. Last(measures.imu) \in Int
      <3>1. measures.imu \in Seq(Stamps)
        BY DEF SyncInv, BufferInv
      <3>2. Len(measures.imu) \in Nat \ {0}
        BY <2>1, <3>1, EmptySeq
      <3> QED
        BY <3>1, <3>2, StampsInSeq DEF Last
    <2>4. lastImu < stamp
      BY <1>2, <2>1
    <2>5. Last(measures.imu) < stamp
      BY <1>2, <2>2, <2>3, <2>4
    <2>6. Last(measures.imu) < imuBuffer'[1]
      <3>1. CASE imuBuffer = <<>>
        <4>1. Len(kept) = 0
          BY <2>1, <3>1
        <4>2. imuBuffer'[1] = stamp
          BY <1>5, <4>1
        <4> QED
          BY <2>5, <4>2
      <3>2. CASE imuBuffer # <<>>
        <4>1. Len(imuBuffer) \in Nat \ {0}
          BY <1>2, <3>2, EmptySeq
        <4>2. kept = imuBuffer
          BY <2>1
        <4>3. imuBuffer'[1] = imuBuffer[1]
          BY <1>5, <4>1, <4>2
        <4> QED
          BY <2>2, <3>2, <4>3
      <3> QED
        BY <3>1, <3>2
    <2> HIDE DEF back
    <2> QED
      BY <1>1, <1>2, <2>1, <2>2, <2>3, <2>5, <2>6
  <1>14. OrderInv'
    BY <1>10, <1>11, <1>12, <1>13 DEF OrderInv, SamplesOnceInOrder
  <1> QED
    BY <1>6, <1>7, <1>14 DEF SyncInv
-----------------------------------------------------------------------------

LEMMA StampsThere ==
  ASSUME SyncInv, lidarBuffer # <<>>
  PROVE  timeBuffer # <<>> /\ Len(lidarBuffer) \in Nat \ {0} /\ Len(timeBuffer) \in Nat \ {0}
  <1>1. /\ lidarBuffer \in Seq(Scans) /\ timeBuffer \in Seq(Stamps)
        /\ Len(timeBuffer) >= Len(lidarBuffer)
    BY DEF SyncInv, BufferInv, PairedUntilLoopBack
  <1>2. Len(lidarBuffer) \in Nat \ {0} /\ Len(timeBuffer) \in Nat
    BY <1>1, EmptySeq, LenProperties
  <1>3. Len(timeBuffer) # 0
    BY <1>1, <1>2
  <1>4. Len(<<>>) = 0
    OBVIOUS
  <1> QED
    BY <1>2, <1>3, <1>4

\* The front scan and its stamp, in Measures.
LEMMA PushedPairs ==
  ASSUME SyncInv, lidarBuffer # <<>>, jumps.lidar = 0
  PROVE  /\ Pushed.lidar = lidarBuffer[1]
         /\ Pushed.beg = Pushed.lidar.stamp
  <1>1. timeBuffer # <<>> /\ Len(lidarBuffer) \in Nat \ {0}
    BY StampsThere
  <1>2. timeBuffer = [i \in 1 .. Len(lidarBuffer) |-> lidarBuffer[i].stamp]
    BY DEF SyncInv, PairedUntilLoopBack
  <1>3. timeBuffer[1] = lidarBuffer[1].stamp
    BY <1>1, <1>2
  <1>4. CASE pushed
    <2>1. Pushed = measures
      BY <1>1, <1>4, PushedType DEF SyncInv
    <2> QED
      BY <1>4, <2>1 DEF SyncInv, PairedUntilLoopBack
  <1>5. CASE ~pushed
    BY <1>1, <1>3, <1>5, PushedType DEF SyncInv
  <1> QED
    BY <1>4, <1>5

LEMMA WaitKeeps ==
  ASSUME SyncInv, TimerWaits
  PROVE  SyncInv'
  <1>1. /\ lidarBuffer # <<>> /\ ~pushed /\ pushed' = TRUE
        /\ measures' = Pushed /\ meanScan' = MeanAfter
        /\ UNCHANGED <<lidarBuffer, timeBuffer, imuBuffer, lastImu, jumps>>
    BY DEF TimerWaits, buffers
  <1>2. /\ measures' \in [lidar : Scans \cup {NoScan}, beg : None .. Horizon, end : Int, imu : Seq(Stamps)]
        /\ measures'.imu = measures.imu /\ meanScan' \in {0, Span}
    BY <1>1, StampsThere, PushedType DEF SyncInv
  <1>3. BufferInv'
    BY <1>1, <1>2 DEF SyncInv, BufferInv
  <1>4. PairedUntilLoopBack'
    BY <1>1, PushedPairs DEF SyncInv, PairedUntilLoopBack
  <1>5. OrderInv'
    BY <1>1, <1>2 DEF SyncInv, OrderInv, SamplesOnceInOrder
  <1> QED
    BY <1>3, <1>4, <1>5 DEF SyncInv

LEMMA PairKeeps ==
  ASSUME SyncInv, TimerPairs
  PROVE  SyncInv'
  <1> DEFINE k == Taken(Pushed.end)
             n == Len(imuBuffer)
             m == [Pushed EXCEPT !.imu = SubSeq(imuBuffer, 1, k)]
  <1>1. /\ lidarBuffer # <<>> /\ imuBuffer # <<>> /\ pushed' = FALSE
        /\ measures' = m /\ meanScan' = MeanAfter
        /\ imuBuffer' = SubSeq(imuBuffer, k + 1, n)
        /\ lidarBuffer' = Tail(lidarBuffer) /\ timeBuffer' = Tail(timeBuffer)
        /\ UNCHANGED <<lastImu, jumps>>
    BY DEF TimerPairs
  <1>2. /\ lidarBuffer \in Seq(Scans) /\ timeBuffer \in Seq(Stamps) /\ imuBuffer \in Seq(Stamps)
        /\ timeBuffer # <<>> /\ Len(lidarBuffer) \in Nat \ {0} /\ Len(timeBuffer) \in Nat \ {0}
    BY <1>1, StampsThere DEF SyncInv, BufferInv
  <1>3. /\ Pushed \in [lidar : Scans \cup {NoScan}, beg : None .. Horizon, end : Int, imu : Seq(Stamps)]
        /\ MeanAfter \in {0, Span}
    BY <1>1, <1>2, PushedType DEF SyncInv
  <1>4. k \in 0 .. n /\ n \in Nat \ {0} /\ \A i \in 1 .. k : imuBuffer[i] <= Pushed.end
    <2>1. Pushed.end \in Int
      BY <1>3
    <2> QED
      BY <1>1, <1>2, <2>1, TakenType, EmptySeq
  <1>5. /\ SubSeq(imuBuffer, 1, k) \in Seq(Stamps) /\ Len(SubSeq(imuBuffer, 1, k)) = k
        /\ \A i \in 1 .. k : SubSeq(imuBuffer, 1, k)[i] = imuBuffer[i]
    <2>1. \A i \in 1 .. k : imuBuffer[i] \in Stamps
      BY <1>2, <1>4, StampsInSeq
    <2>2. 1 \in Int /\ k \in Int /\ (IF 1 <= k THEN k - 1 + 1 ELSE 0) = k /\ k - 1 + 1 = k
            /\ \A i \in 1 .. k : 1 + i - 1 = i
      BY <1>4
    <2> HIDE DEF k
    <2>3. /\ SubSeq(imuBuffer, 1, k) \in Seq(Stamps)
          /\ Len(SubSeq(imuBuffer, 1, k)) = IF 1 <= k THEN k - 1 + 1 ELSE 0
          /\ \A i \in 1 .. k - 1 + 1 : SubSeq(imuBuffer, 1, k)[i] = imuBuffer[1 + i - 1]
      BY <2>1, <2>2, SubSeqProperties
    <2> QED
      BY <2>2, <2>3
  <1>6. /\ imuBuffer' \in Seq(Stamps) /\ Len(imuBuffer') = n - k
        /\ \A i \in 1 .. n - k : imuBuffer'[i] = imuBuffer[k + i]
    <2>1. \A i \in k + 1 .. n : imuBuffer[i] \in Stamps
      BY <1>2, <1>4, StampsInSeq
    <2>2. k + 1 \in Int /\ n \in Int /\ (IF k + 1 <= n THEN n - (k + 1) + 1 ELSE 0) = n - k
            /\ n - (k + 1) + 1 = n - k /\ \A i \in 1 .. n - k : (k + 1) + i - 1 = k + i
      BY <1>4
    <2> HIDE DEF k, n
    <2>3. /\ SubSeq(imuBuffer, k + 1, n) \in Seq(Stamps)
          /\ Len(SubSeq(imuBuffer, k + 1, n)) = IF k + 1 <= n THEN n - (k + 1) + 1 ELSE 0
          /\ \A i \in 1 .. n - (k + 1) + 1 : SubSeq(imuBuffer, k + 1, n)[i] = imuBuffer[(k + 1) + i - 1]
      BY <2>1, <2>2, SubSeqProperties
    <2> QED
      BY <1>1, <2>2, <2>3
  <1>7. /\ lidarBuffer' \in Seq(Scans) /\ Len(lidarBuffer') = Len(lidarBuffer) - 1
        /\ timeBuffer' \in Seq(Stamps) /\ Len(timeBuffer') = Len(timeBuffer) - 1
        /\ \A i \in 1 .. Len(lidarBuffer) - 1 : lidarBuffer'[i] = lidarBuffer[i + 1]
        /\ \A i \in 1 .. Len(timeBuffer) - 1 : timeBuffer'[i] = timeBuffer[i + 1]
    BY <1>1, <1>2, HeadTailProperties
  <1>8. /\ measures' \in [lidar : Scans \cup {NoScan}, beg : None .. Horizon, end : Int, imu : Seq(Stamps)]
        /\ measures'.imu = SubSeq(imuBuffer, 1, k) /\ measures'.end = Pushed.end
        /\ measures'.lidar = Pushed.lidar /\ measures'.beg = Pushed.beg
    <2> HIDE DEF k
    <2> QED
      BY <1>1, <1>3, <1>5
  <1> HIDE DEF k, n, m
  <1>9. BufferInv'
    BY <1>1, <1>3, <1>6, <1>7, <1>8 DEF SyncInv, BufferInv
  <1>10. PairedUntilLoopBack'
    <2>1. Len(timeBuffer') >= Len(lidarBuffer')
      BY <1>2, <1>7 DEF SyncInv, PairedUntilLoopBack
    <2>2. ASSUME jumps'.lidar = 0
          PROVE  /\ timeBuffer' = [i \in 1 .. Len(lidarBuffer') |-> lidarBuffer'[i].stamp]
                 /\ measures'.beg = measures'.lidar.stamp
      <3>1. timeBuffer = [i \in 1 .. Len(lidarBuffer) |-> lidarBuffer[i].stamp]
        BY <1>1, <2>2 DEF SyncInv, PairedUntilLoopBack
      <3>2. Len(timeBuffer) = Len(lidarBuffer)
        BY <1>2, <3>1, LenProperties
      <3>3. \A i \in 1 .. Len(lidarBuffer') : timeBuffer'[i] = lidarBuffer'[i].stamp
        <4> SUFFICES ASSUME NEW i \in 1 .. Len(lidarBuffer) - 1
                     PROVE  timeBuffer'[i] = lidarBuffer'[i].stamp
          BY <1>7
        <4>1. i + 1 \in 1 .. Len(lidarBuffer)
          BY <1>2
        <4> QED
          BY <1>7, <3>1, <3>2, <4>1
      <3>4. timeBuffer' = [i \in 1 .. Len(timeBuffer') |-> timeBuffer'[i]]
        BY <1>7, LenProperties
      <3>5. timeBuffer' = [i \in 1 .. Len(lidarBuffer') |-> lidarBuffer'[i].stamp]
        BY <1>7, <3>2, <3>3, <3>4
      <3> QED
        BY <1>1, <1>8, <2>2, <3>5, PushedPairs
    <2> QED
      BY <1>1, <2>1, <2>2 DEF PairedUntilLoopBack
  <1>11. ASSUME measures'.imu # <<>>
         PROVE  k \in 1 .. n /\ Last(measures'.imu) = imuBuffer[k]
    <2>1. Len(measures'.imu) = k /\ k # 0
      <3>1. Len(measures'.imu) \in Nat \ {0}
        BY <1>5, <1>8, <1>11, EmptySeq
      <3> QED
        BY <1>5, <1>8, <3>1
    <2> QED
      BY <1>4, <1>5, <1>8, <2>1 DEF Last
  <1>12. \A i \in 1 .. n - 1 : imuBuffer[i] < imuBuffer[i + 1]
    BY DEF SyncInv, OrderInv, SamplesOnceInOrder, n
  <1>13. \A i \in 1 .. Len(imuBuffer') - 1 : imuBuffer'[i] < imuBuffer'[i + 1]
    <2> SUFFICES ASSUME NEW i \in 1 .. n - k - 1
                 PROVE  imuBuffer'[i] < imuBuffer'[i + 1]
      BY <1>6
    <2>1. i \in 1 .. n - k /\ i + 1 \in 1 .. n - k /\ k + i \in 1 .. n - 1 /\ k + (i + 1) = (k + i) + 1
      BY <1>4
    <2>2. imuBuffer'[i] = imuBuffer[k + i] /\ imuBuffer'[i + 1] = imuBuffer[(k + i) + 1]
      BY <1>6, <2>1
    <2> QED
      BY <1>12, <2>1, <2>2
  <1>14. \A i \in 1 .. n : imuBuffer[i] <= lastImu
    BY DEF SyncInv, OrderInv, n
  <1>15. \A i \in 1 .. Len(imuBuffer') : imuBuffer'[i] <= lastImu'
    <2> SUFFICES ASSUME NEW i \in 1 .. n - k PROVE imuBuffer'[i] <= lastImu
      BY <1>1, <1>6
    <2>1. k + i \in 1 .. n
      BY <1>4
    <2> QED
      BY <1>6, <1>14, <2>1
  <1>16. imuBuffer' # <<>> => Last(imuBuffer') = lastImu'
    <2> SUFFICES ASSUME imuBuffer' # <<>> PROVE Last(imuBuffer') = lastImu
      BY <1>1
    <2>1. n - k \in Nat \ {0}
      BY <1>6, EmptySeq
    <2>2. imuBuffer'[n - k] = imuBuffer[n]
      <3>1. n - k \in 1 .. n - k /\ k + (n - k) = n
        BY <1>4, <2>1
      <3> QED
        BY <1>6, <3>1
    <2>3. Last(imuBuffer) = lastImu
      BY <1>1 DEF SyncInv, OrderInv, SamplesOnceInOrder
    <2> QED
      BY <1>6, <2>2, <2>3 DEF Last, n
  <1>17. ASSUME measures'.imu # <<>>
         PROVE  /\ imuBuffer' # <<>> => Last(measures'.imu) < imuBuffer'[1]
                /\ Last(measures'.imu) <= measures'.end
                /\ Last(measures'.imu) <= lastImu'
    <2>1. k \in 1 .. n /\ Last(measures'.imu) = imuBuffer[k]
      BY <1>11, <1>17
    <2>2. imuBuffer' # <<>> => imuBuffer[k] < imuBuffer'[1]
      <3> SUFFICES ASSUME imuBuffer' # <<>> PROVE imuBuffer[k] < imuBuffer'[1]
        OBVIOUS
      <3>1. n - k \in Nat \ {0}
        BY <1>6, EmptySeq
      <3>2. 1 \in 1 .. n - k /\ k \in 1 .. n - 1
        BY <1>4, <2>1, <3>1
      <3> QED
        BY <1>6, <1>12, <3>2
    <2>3. k \in 1 .. k
      BY <2>1
    <2> QED
      BY <1>1, <1>4, <1>8, <1>14, <2>1, <2>2, <2>3
  <1>18. OrderInv'
    BY <1>13, <1>15, <1>16, <1>17 DEF OrderInv, SamplesOnceInOrder
  <1> QED
    BY <1>9, <1>10, <1>18 DEF SyncInv
-----------------------------------------------------------------------------

LEMMA SyncStep == SyncInv /\ [LioNext]_vars => SyncInv'
  <1> SUFFICES ASSUME SyncInv, [LioNext]_vars PROVE SyncInv'
    OBVIOUS
  <1>1. CASE ScanArrives
    <2>1. PICK size \in Sizes, stamp \in 0 .. Horizon - Span - 1 :
            LidarCallback([stamp |-> stamp, size |-> size])
      BY <1>1 DEF ScanArrives
    <2>2. [stamp |-> stamp, size |-> size] \in Scans
      BY SpanType DEF Scans
    <2> QED
      BY <2>1, <2>2, ScanKeeps
  <1>2. CASE ImuAdvances \/ ImuJumps
    <2>1. lastImu \in Int
      BY SpanType DEF SyncInv, BufferInv, None
    <2>2. \A stamp \in Stamps : stamp - lastImu \in {1, Span + 2} \/ lastImu - stamp \in {1, Span + 2}
                                  => stamp # lastImu
      BY <2>1, SpanType DEF Stamps
    <2>3. PICK stamp \in Stamps : stamp # lastImu /\ ImuCallback(stamp)
      BY <1>2, <2>2 DEF ImuAdvances, ImuJumps, Stamps
    <2> QED
      BY <2>3, SampleKeeps
  <1>3. CASE TimerCallback
    BY <1>3, WaitKeeps, PairKeeps DEF TimerCallback
  <1>4. CASE UNCHANGED vars
    BY <1>4 DEF vars, SyncInv, BufferInv, PairedUntilLoopBack, OrderInv, SamplesOnceInOrder
  <1> QED
    BY <1>1, <1>2, <1>3, <1>4 DEF LioNext

LEMMA SyncAlways == LioSpec => []SyncInv
  BY SyncStart, SyncStep, PTL DEF LioSpec, LioSafety

\* However many scans wait and however the messages interleave: no pop of the two
\* deques hits an empty one, and until the lidar clock jumps back every scan is
\* taken with its own stamp.
THEOREM PairedAlways == LioSpec => []PairedUntilLoopBack
  <1>1. SyncInv => PairedUntilLoopBack
    BY DEF SyncInv
  <1> QED
    BY <1>1, SyncAlways, PTL

\* However late the timer comes: no IMU sample is used twice or for a scan that
\* ended before it, until the IMU clock jumps back.
THEOREM SamplesAlwaysInOrder == LioSpec => []SamplesOnceInOrder
  <1>1. SyncInv => SamplesOnceInOrder
    BY DEF SyncInv, OrderInv
  <1> QED
    BY <1>1, SyncAlways, PTL

\* Before the IMU processor is initialised there are no points to register.
NoPointsYet == imuInit.need => feats = NoScan

LEMMA PointsStart == LioInit => NoPointsYet
  BY DEF LioInit, NoPointsYet

LEMMA PointsStep == NoPointsYet /\ [LioNext]_vars => NoPointsYet'
  <1> SUFFICES ASSUME NoPointsYet, [LioNext]_vars PROVE NoPointsYet'
    OBVIOUS
  <1>1. CASE UNCHANGED <<imuInit, feats>>
    BY <1>1 DEF NoPointsYet
  <1>2. CASE TimerPairs
    <2>1. PICK m : HandlePackage(m)
      BY <1>2 DEF TimerPairs
    <2>2. CASE UndistortPcl(m) /\ ~imuInit.need
      BY <2>2 DEF UndistortPcl, NoPointsYet
    <2>3. CASE InitImu(m) /\ imuInit.need
      BY <2>3 DEF InitImu, NoPointsYet
    <2> QED
      BY <1>1, <2>1, <2>2, <2>3 DEF HandlePackage, Process
  <1>3. CASE UNCHANGED vars
    BY <1>1, <1>3 DEF vars
  <1> QED
    BY <1>1, <1>2, <1>3 DEF LioNext, ScanArrives, ImuAdvances, ImuJumps, LidarCallback, ImuCallback,
                            TimerCallback, TimerWaits, pipeline

LEMMA OdometryStep ==
  ASSUME NoPointsYet, [LioNext]_vars, odom' # odom
  PROVE  /\ odom'.stamp = measures'.end
         /\ odom'.scan = measures'.lidar \/ measures'.imu = <<>>
  <1>1. TimerPairs
    BY DEF LioNext, ScanArrives, ImuAdvances, ImuJumps, LidarCallback, ImuCallback,
           TimerCallback, TimerWaits, pipeline, vars
  <1>2. PICK m : HandlePackage(m) /\ measures' = m
    BY <1>1 DEF TimerPairs
  <1>3. Process(m) /\ Register(m)
    BY <1>2 DEF HandlePackage
  <1>4. feats'.size = "full" /\ odom' = [stamp |-> m.end, scan |-> feats']
    BY <1>3 DEF Register
  <1>5. CASE m.imu = <<>>
    BY <1>2, <1>4, <1>5
  <1>6. CASE UndistortPcl(m)
    BY <1>2, <1>4, <1>6 DEF UndistortPcl
  <1>7. CASE imuInit.need /\ InitImu(m)
    BY <1>4, <1>7 DEF InitImu, NoPointsYet, NoScan
  <1> QED
    BY <1>3, <1>5, <1>6, <1>7 DEF Process

\* Every odometry carries the end of the package just paired and is made of that
\* package's scan, unless the package had no IMU samples.
THEOREM OdometryAlwaysOfItsScan == LioSpec => OdometryOfItsScan
  <1>1. NoPointsYet /\ [LioNext]_vars =>
          [odom' # odom => /\ odom'.stamp = measures'.end
                           /\ odom'.scan = measures'.lidar \/ measures'.imu = <<>>]_vars
    BY OdometryStep
  <1> QED
    BY <1>1, PointsStart, PointsStep, PTL DEF LioSpec, LioSafety, OdometryOfItsScan
-----------------------------------------------------------------------------
(* The time that the filter is advanced by.                                *)

\* The loop of UndistortPcl telescopes: of samples that all lie between the two ends,
\* only the ends are left.
LEMMA AdvanceTelescopes ==
  ASSUME NEW m, m.imu \in Seq(Stamps), m.imu # <<>>, m.end \in Int,
         lastEnd \in Int, lastSample \in Stamps, lastSample <= lastEnd,
         \A i \in 1 .. Len(m.imu) : lastEnd <= m.imu[i] /\ m.imu[i] <= m.end
  PROVE  Advance(m) = m.end - lastEnd
  <1> DEFINE n == Len(m.imu)
             stamps == <<lastSample>> \o m.imu
             Step(i) == LET head == stamps[i]
                            tail == stamps[i + 1]
                        IN IF tail < lastEnd THEN 0
                           ELSE IF head < lastEnd THEN tail - lastEnd ELSE tail - head
             Sums(f) == [i \in 0 .. n |-> IF i = 0 THEN 0 ELSE f[i - 1] + Step(i)]
             sum == CHOOSE f : f = Sums(f)
             rest == m.end - Last(stamps)
             closed == [i \in 0 .. n |-> IF i = 0 THEN 0 ELSE stamps[i + 1] - lastEnd]
  <1>1. Advance(m) = sum[n] + (IF rest > 0 THEN rest ELSE -rest)
    BY DEF Advance
  <1>2. /\ n \in Nat \ {0}
        /\ \A i \in 1 .. n : m.imu[i] \in Int
    BY EmptySeq, StampsInSeq
  <1>3. /\ Len(stamps) = n + 1 /\ stamps[1] = lastSample
        /\ \A i \in 1 .. n : stamps[i + 1] = m.imu[i]
    <2>1. m.imu \in Seq(Stamps) /\ <<lastSample>> \in Seq(Stamps)
      OBVIOUS
    <2>2. /\ Len(<<lastSample>>) = 1 /\ <<lastSample>>[1] = lastSample
          /\ Len(stamps) = Len(<<lastSample>>) + n
          /\ \A i \in 1 .. Len(<<lastSample>>) + n :
               stamps[i] = IF i <= Len(<<lastSample>>) THEN <<lastSample>>[i]
                                                        ELSE m.imu[i - Len(<<lastSample>>)]
      BY <2>1, ConcatProperties
    <2>3. \A i \in 1 .. n : i + 1 \in 1 .. 1 + n /\ ~(i + 1 <= 1) /\ i + 1 - 1 = i
      BY <1>2
    <2>4. 1 \in 1 .. 1 + n
      BY <1>2
    <2> QED
      BY <1>2, <2>2, <2>3, <2>4
  <1> HIDE DEF n, stamps
  <1>4. /\ stamps[1] \in Int /\ stamps[1] <= lastEnd
        /\ \A i \in 1 .. n : stamps[i + 1] \in Int /\ lastEnd <= stamps[i + 1]
                               /\ stamps[i + 1] <= m.end
    BY <1>2, <1>3 DEF n, Stamps
  <1>5. Step(1) = stamps[2] - lastEnd
    BY <1>2, <1>4
  <1>6. ASSUME NEW i \in 1 .. n, i # 1
        PROVE  Step(i) = stamps[i + 1] - stamps[i]
    <2>1. i - 1 \in 1 .. n /\ (i - 1) + 1 = i
      BY <1>2, <1>6
    <2> QED
      BY <1>4, <2>1
  <1> HIDE DEF Step
  \* The closed form is a solution, so there is one ...
  <1>7. closed = Sums(closed)
    <2>1. ASSUME NEW i \in 0 .. n
          PROVE  closed[i] = IF i = 0 THEN 0 ELSE closed[i - 1] + Step(i)
      <3>1. CASE i = 0
        BY <3>1
      <3>2. CASE i = 1
        <4>1. 1 \in 0 .. n /\ 0 \in 0 .. n /\ 1 \in 1 .. n
          BY <1>2
        <4>2. closed[1] = stamps[2] - lastEnd /\ closed[0] = 0
          BY <4>1
        <4>3. stamps[2] - lastEnd \in Int
          BY <1>4, <4>1
        <4> HIDE DEF closed
        <4> QED
          BY <1>5, <3>2, <4>2, <4>3
      <3>3. CASE i # 0 /\ i # 1
        <4>1. i \in 1 .. n /\ i - 1 \in 1 .. n /\ i - 1 \in 0 .. n /\ (i - 1) + 1 = i /\ i - 1 # 0
          BY <1>2, <3>3
        <4>2. closed[i] = stamps[i + 1] - lastEnd /\ closed[i - 1] = stamps[i] - lastEnd
          BY <3>3, <4>1
        <4>3. stamps[i + 1] \in Int /\ stamps[i] \in Int
          BY <1>4, <4>1
        <4> QED
          BY <1>6, <3>3, <4>1, <4>2, <4>3
      <3> QED
        BY <3>1, <3>2, <3>3
    <2> QED
      BY <2>1
  <1>8. sum = Sums(sum)
    <2> HIDE DEF Sums, closed
    <2> QED
      BY <1>7
  \* ... and there is only one.
  <1> HIDE DEF sum
  <1>9. \A i \in 0 .. n : sum[i] = closed[i]
    <2> DEFINE Bad == {i \in 0 .. n : sum[i] # closed[i]}
    <2> SUFFICES ASSUME Bad # {} PROVE FALSE
      OBVIOUS
    <2>1. Bad \subseteq Nat
      BY <1>2
    <2>2. \E x \in Bad : \A y \in Bad : ~(<<y, x>> \in OpToRel(<, Nat))
      BY <2>1, NatLessThanWellFounded, WFMin
    <2>3. PICK x \in Bad : \A y \in Bad : x <= y
      <3>1. \A x, y \in Bad : ~(<<y, x>> \in OpToRel(<, Nat)) => x <= y
        BY <2>1 DEF OpToRel
      <3> QED
        BY <2>2, <3>1
    <2>4. x \in 0 .. n /\ sum[x] # closed[x]
      OBVIOUS
    <2>5. /\ sum[x] = IF x = 0 THEN 0 ELSE sum[x - 1] + Step(x)
          /\ closed[x] = IF x = 0 THEN 0 ELSE closed[x - 1] + Step(x)
      <3> DEFINE S == Sums(sum)
                 C == Sums(closed)
      <3>1. S[x] = (IF x = 0 THEN 0 ELSE sum[x - 1] + Step(x))
              /\ C[x] = (IF x = 0 THEN 0 ELSE closed[x - 1] + Step(x))
        BY <2>4
      <3>2. sum = S /\ closed = C
        BY <1>7, <1>8
      <3> HIDE DEF S, C, closed
      <3> QED
        BY <3>1, <3>2
    <2>6. x # 0 /\ sum[x - 1] # closed[x - 1]
      <3> HIDE DEF closed
      <3> QED
        BY <2>4, <2>5
    <2>7. x - 1 \in Bad /\ ~(x <= x - 1)
      BY <1>2, <2>4, <2>6
    <2> QED
      BY <2>3, <2>7
  <1>10. sum[n] = stamps[n + 1] - lastEnd
    BY <1>2, <1>9
  <1>11. Last(stamps) = stamps[n + 1]
    BY <1>3 DEF Last
  <1> QED
    <2>1. n \in 1 .. n
      BY <1>2
    <2>2. stamps[n + 1] \in Int /\ stamps[n + 1] <= m.end
      BY <1>4, <2>1
    <2>3. rest = m.end - stamps[n + 1]
      BY <1>11
    <2> HIDE DEF rest
    <2> QED
      BY <1>1, <1>10, <2>2, <2>3

LEMMA Ascends ==
  ASSUME NEW s, NEW n \in Nat, \A i \in 1 .. n : s[i] \in Int,
         \A i \in 1 .. n - 1 : s[i] < s[i + 1]
  PROVE  \A i, j \in 1 .. n : i <= j => s[i] <= s[j]
  <1> SUFFICES ASSUME NEW i \in 1 .. n,
                      {j \in 1 .. n : i <= j /\ ~(s[i] <= s[j])} # {}
               PROVE  FALSE
    OBVIOUS
  <1> DEFINE Bad == {j \in 1 .. n : i <= j /\ ~(s[i] <= s[j])}
  <1>1. Bad \subseteq Nat
    OBVIOUS
  <1>2. \E x \in Bad : \A y \in Bad : ~(<<y, x>> \in OpToRel(<, Nat))
    BY <1>1, NatLessThanWellFounded, WFMin
  <1>3. PICK x \in Bad : \A y \in Bad : x <= y
    <2>1. \A x, y \in Bad : ~(<<y, x>> \in OpToRel(<, Nat)) => x <= y
      BY <1>1 DEF OpToRel
    <2> QED
      BY <1>2, <2>1
  <1>4. x # i /\ x - 1 \in 1 .. n - 1 /\ (x - 1) + 1 = x /\ i <= x - 1
    OBVIOUS
  <1>5. s[x - 1] < s[x] /\ s[x - 1] \in Int /\ s[x] \in Int /\ s[i] \in Int
    BY <1>4
  <1>6. x - 1 \in Bad
    BY <1>4, <1>5
  <1> QED
    BY <1>3, <1>4, <1>6

\* Once the filter has been advanced to the end of a scan, every sample that is
\* still to come lies after it.
TimeInv ==
  /\ lastEnd \in Int /\ lastSample \in Stamps
  /\ feats # NoScan /\ jumps.imu = 0 =>
       /\ lastSample <= lastEnd /\ lastEnd <= lastImu
       /\ \A i \in 1 .. Len(imuBuffer) : lastEnd <= imuBuffer[i]

LEMMA TimeStart == LioInit => TimeInv
  BY SpanType DEF LioInit, TimeInv, Stamps

\* What a package takes out of the IMU buffer, and what it leaves.
LEMMA PackageSamples ==
  ASSUME SyncInv, TimerPairs, NEW m, measures' = m
  PROVE  /\ m.imu \in Seq(Stamps) /\ m.end \in Int /\ m.end <= lastImu
         /\ \A i \in 1 .. Len(m.imu) : i \in 1 .. Len(imuBuffer) /\ m.imu[i] = imuBuffer[i]
                                                              /\ m.imu[i] <= m.end
         /\ imuBuffer' \in Seq(Stamps)
         /\ \A i \in 1 .. Len(imuBuffer') : m.end <= imuBuffer'[i]
         /\ \A i \in 1 .. Len(imuBuffer') : \E j \in 1 .. Len(imuBuffer) : imuBuffer'[i] = imuBuffer[j]
  <1> DEFINE k == Taken(Pushed.end)
             n == Len(imuBuffer)
             p == [Pushed EXCEPT !.imu = SubSeq(imuBuffer, 1, k)]
  <1>1. /\ lidarBuffer # <<>> /\ imuBuffer # <<>> /\ m = p /\ Complete
        /\ imuBuffer' = SubSeq(imuBuffer, k + 1, n)
    BY DEF TimerPairs
  <1>2. imuBuffer \in Seq(Stamps) /\ timeBuffer # <<>> /\ lastImu \in Int
    BY <1>1, StampsThere, SpanType DEF SyncInv, BufferInv, None
  <1>3. /\ Pushed \in [lidar : Scans \cup {NoScan}, beg : None .. Horizon, end : Int, imu : Seq(Stamps)]
        /\ Pushed.end \in Int
    BY <1>1, <1>2, PushedType DEF SyncInv
  <1>4. /\ k \in 0 .. n /\ n \in Nat \ {0} /\ \A i \in 1 .. k : imuBuffer[i] <= Pushed.end
        /\ \/ k = 0 /\ imuBuffer[1] >= Pushed.end
           \/ k # 0 /\ (k < n => imuBuffer[k + 1] > Pushed.end \/ imuBuffer[k] = Pushed.end)
    BY <1>1, <1>2, <1>3, TakenType, EmptySeq
  <1>5. \A i \in 1 .. n : imuBuffer[i] \in Stamps /\ imuBuffer[i] \in Int
    BY <1>2, StampsInSeq
  <1>6. \A i \in 1 .. n - 1 : imuBuffer[i] < imuBuffer[i + 1]
    BY DEF SyncInv, OrderInv, SamplesOnceInOrder
  <1> HIDE DEF k, n
  <1>7. /\ SubSeq(imuBuffer, 1, k) \in Seq(Stamps) /\ Len(SubSeq(imuBuffer, 1, k)) = k
        /\ \A i \in 1 .. k : SubSeq(imuBuffer, 1, k)[i] = imuBuffer[i]
    <2>1. 1 \in Int /\ k \in Int /\ (IF 1 <= k THEN k - 1 + 1 ELSE 0) = k /\ k - 1 + 1 = k
            /\ \A i \in 1 .. k : 1 + i - 1 = i /\ imuBuffer[i] \in Stamps
      BY <1>4, <1>5
    <2>2. /\ SubSeq(imuBuffer, 1, k) \in Seq(Stamps)
          /\ Len(SubSeq(imuBuffer, 1, k)) = IF 1 <= k THEN k - 1 + 1 ELSE 0
          /\ \A i \in 1 .. k - 1 + 1 : SubSeq(imuBuffer, 1, k)[i] = imuBuffer[1 + i - 1]
      BY <2>1, SubSeqProperties
    <2> QED
      BY <2>1, <2>2
  <1>8. /\ imuBuffer' \in Seq(Stamps) /\ Len(imuBuffer') = n - k
        /\ \A i \in 1 .. n - k : imuBuffer'[i] = imuBuffer[k + i]
    <2>1. k + 1 \in Int /\ n \in Int /\ (IF k + 1 <= n THEN n - (k + 1) + 1 ELSE 0) = n - k
            /\ n - (k + 1) + 1 = n - k /\ \A i \in 1 .. n - k : (k + 1) + i - 1 = k + i
      BY <1>4
    <2>2. \A i \in k + 1 .. n : imuBuffer[i] \in Stamps
      BY <1>4, <1>5
    <2>3. /\ SubSeq(imuBuffer, k + 1, n) \in Seq(Stamps)
          /\ Len(SubSeq(imuBuffer, k + 1, n)) = IF k + 1 <= n THEN n - (k + 1) + 1 ELSE 0
          /\ \A i \in 1 .. n - (k + 1) + 1 : SubSeq(imuBuffer, k + 1, n)[i] = imuBuffer[(k + 1) + i - 1]
      BY <2>1, <2>2, SubSeqProperties
    <2> QED
      BY <1>1, <2>1, <2>3 DEF n
  <1>9. m.imu = SubSeq(imuBuffer, 1, k) /\ m.end = Pushed.end
    BY <1>1, <1>3, <1>7
  <1>10. \A i \in 1 .. n - k : m.end <= imuBuffer'[i]
    <2> SUFFICES ASSUME NEW i \in 1 .. n - k PROVE Pushed.end <= imuBuffer[k + i]
      BY <1>8, <1>9
    <2>1. k + 1 \in 1 .. n /\ k + i \in 1 .. n /\ k + 1 <= k + i /\ k < n
      BY <1>4
    <2>2. Pushed.end <= imuBuffer[k + 1]
      <3>1. CASE k = 0
        BY <1>3, <1>4, <1>5, <2>1, <3>1
      <3>2. CASE k # 0 /\ imuBuffer[k] = Pushed.end
        <4>1. k \in 1 .. n - 1
          BY <1>4, <2>1, <3>2
        <4> QED
          BY <1>3, <1>5, <1>6, <2>1, <3>2, <4>1
      <3>3. CASE imuBuffer[k + 1] > Pushed.end
        BY <1>3, <1>5, <2>1, <3>3
      <3> QED
        BY <1>4, <2>1, <3>1, <3>2, <3>3
    <2>3. imuBuffer[k + 1] <= imuBuffer[k + i]
      BY <1>4, <1>5, <1>6, <2>1, Ascends
    <2> QED
      BY <1>3, <1>5, <2>1, <2>2, <2>3
  <1>11. \A i \in 1 .. k : i \in 1 .. n
    BY <1>4
  <1>12. \A i \in 1 .. n - k : k + i \in 1 .. n
    BY <1>4
  <1>13. m.end <= lastImu
    BY <1>1, <1>2, <1>3, <1>9 DEF Complete
  <1> QED
    BY <1>3, <1>4, <1>7, <1>8, <1>9, <1>10, <1>11, <1>12, <1>13 DEF n

\* One package: the filter gets to the end of the scan.
LEMMA PackageKeepsTime ==
  ASSUME SyncInv, NoPointsYet, TimeInv, TimerPairs
  PROVE  /\ TimeInv'
         /\ lastEnd' # lastEnd /\ feats # NoScan /\ Jumps = 0 => advance' = lastEnd' - lastEnd
  <1>1. PICK m : measures' = m /\ HandlePackage(m)
    BY DEF TimerPairs
  <1>2. UNCHANGED <<lastImu, jumps>>
    BY DEF TimerPairs
  <1>3. /\ m.imu \in Seq(Stamps) /\ m.end \in Int /\ m.end <= lastImu
        /\ \A i \in 1 .. Len(m.imu) : i \in 1 .. Len(imuBuffer) /\ m.imu[i] = imuBuffer[i]
                                                             /\ m.imu[i] <= m.end
        /\ imuBuffer' \in Seq(Stamps)
        /\ \A i \in 1 .. Len(imuBuffer') : m.end <= imuBuffer'[i]
        /\ \A i \in 1 .. Len(imuBuffer') : \E j \in 1 .. Len(imuBuffer) : imuBuffer'[i] = imuBuffer[j]
    BY <1>1, PackageSamples
  <1>4. m.imu # <<>> => Last(m.imu) \in Stamps /\ Last(m.imu) <= m.end
    <2> SUFFICES ASSUME m.imu # <<>> PROVE Last(m.imu) \in Stamps /\ Last(m.imu) <= m.end
      OBVIOUS
    <2>1. Len(m.imu) \in 1 .. Len(m.imu)
      <3>1. Len(m.imu) \in Nat \ {0}
        BY <1>3, EmptySeq
      <3> QED
        BY <3>1
    <2> QED
      BY <1>3, <2>1, StampsInSeq DEF Last
  <1>5. CASE UNCHANGED <<lastEnd, lastSample, feats>>
    BY <1>2, <1>3, <1>5 DEF TimeInv
  <1>6. CASE m.imu # <<>> /\ imuInit.need /\ InitImu(m)
    <2>1. feats' = NoScan /\ lastEnd' = lastEnd /\ lastSample' = Last(m.imu)
      BY <1>6 DEF InitImu, NoPointsYet
    <2> QED
      BY <1>4, <1>6, <2>1 DEF TimeInv
  <1>7. CASE m.imu # <<>> /\ UndistortPcl(m)
    <2>1. /\ lastEnd' = m.end /\ lastSample' = Last(m.imu) /\ advance' = Advance(m)
      BY <1>7 DEF UndistortPcl
    <2>2. TimeInv'
      BY <1>2, <1>3, <1>4, <1>7, <2>1 DEF TimeInv
    <2>3. ASSUME feats # NoScan, Jumps = 0
          PROVE  Advance(m) = m.end - lastEnd
      <3>1. jumps.imu = 0
        <4>1. jumps \in [lidar : Nat, imu : Nat]
          BY DEF SyncInv, BufferInv
        <4> QED
          BY <2>3, <4>1 DEF Jumps
      <3>2. /\ lastEnd \in Int /\ lastSample \in Stamps /\ lastSample <= lastEnd
            /\ \A i \in 1 .. Len(m.imu) : lastEnd <= m.imu[i] /\ m.imu[i] <= m.end
        BY <1>3, <2>3, <3>1 DEF TimeInv
      <3> QED
        BY <1>3, <1>7, <3>2, AdvanceTelescopes
    <2> QED
      BY <2>1, <2>2, <2>3
  <1> QED
    BY <1>1, <1>5, <1>6, <1>7 DEF HandlePackage, Process

LEMMA TimeStep ==
  ASSUME SyncInv, SyncInv', NoPointsYet, TimeInv, [LioNext]_vars
  PROVE  /\ TimeInv'
         /\ lastEnd' # lastEnd /\ feats # NoScan /\ Jumps = 0 => advance' = lastEnd' - lastEnd
  <1>1. CASE TimerPairs
    BY <1>1, PackageKeepsTime
  <1>2. CASE UNCHANGED <<lastEnd, lastSample, feats, imuBuffer, lastImu, jumps>>
    BY <1>2 DEF TimeInv
  <1>3. CASE ScanArrives
    <2>1. UNCHANGED <<lastEnd, lastSample, feats, imuBuffer, lastImu>>
      BY <1>3 DEF ScanArrives, LidarCallback, pipeline
    <2>2. jumps'.imu = jumps.imu
      <3>1. jumps \in [lidar : Nat, imu : Nat]
        BY DEF SyncInv, BufferInv
      <3>2. jumps' = jumps \/ jumps' = [jumps EXCEPT !.lidar = @ + 1]
        BY <1>3 DEF ScanArrives, LidarCallback
      <3> QED
        BY <3>1, <3>2
    <2> QED
      BY <2>1, <2>2 DEF TimeInv
  <1>4. CASE ImuAdvances \/ ImuJumps
    <2>1. PICK stamp \in Stamps : ImuCallback(stamp)
      BY <1>4 DEF ImuAdvances, ImuJumps, Stamps
    <2>2. UNCHANGED <<lastEnd, lastSample, feats>>
      BY <2>1 DEF ImuCallback, pipeline
    <2> SUFFICES ASSUME feats # NoScan, jumps'.imu = 0
                 PROVE  /\ lastSample <= lastEnd /\ lastEnd <= lastImu'
                        /\ \A i \in 1 .. Len(imuBuffer') : lastEnd <= imuBuffer'[i]
      BY <2>2 DEF TimeInv
    <2>3. jumps \in [lidar : Nat, imu : Nat] /\ lastImu \in Int /\ stamp \in Int /\ lastEnd \in Int
            /\ imuBuffer \in Seq(Stamps)
      BY SpanType DEF SyncInv, BufferInv, TimeInv, None, Stamps
    <2>4. ~(stamp < lastImu) /\ jumps' = jumps
      BY <2>1, <2>3 DEF ImuCallback
    <2>5. imuBuffer' = Append(imuBuffer, stamp) /\ lastImu' = stamp
      BY <2>1, <2>4 DEF ImuCallback
    <2>6. /\ lastSample <= lastEnd /\ lastEnd <= lastImu
          /\ \A i \in 1 .. Len(imuBuffer) : lastEnd <= imuBuffer[i]
      BY <2>4 DEF TimeInv
    <2>7. /\ Len(imuBuffer') = Len(imuBuffer) + 1 /\ Len(imuBuffer) \in Nat
          /\ \A i \in 1 .. Len(imuBuffer) : imuBuffer'[i] = imuBuffer[i]
          /\ imuBuffer'[Len(imuBuffer) + 1] = stamp
      BY <2>3, <2>5, AppendProperties, LenProperties
    <2>8. lastEnd <= stamp
      BY <2>3, <2>4, <2>6
    <2>9. \A i \in 1 .. Len(imuBuffer') : i \in 1 .. Len(imuBuffer) \/ i = Len(imuBuffer) + 1
      BY <2>7
    <2> QED
      BY <2>5, <2>6, <2>7, <2>8, <2>9
  <1> QED
    BY <1>1, <1>2, <1>3, <1>4
    DEF LioNext, TimerCallback, TimerWaits, buffers, pipeline, vars

\* Any order of the messages, packages without samples and gaps of the IMU of any
\* length: until a clock jumps back the filter is advanced from one scan's end to
\* the next one's, no time is lost and none is counted twice.
THEOREM FilterAlwaysKeepsTime == LioSpec => FilterKeepsTime
  <1>1. SyncInv /\ SyncInv' /\ NoPointsYet /\ TimeInv /\ [LioNext]_vars => TimeInv'
    BY TimeStep
  <1>2. SyncInv /\ SyncInv' /\ NoPointsYet /\ TimeInv /\ [LioNext]_vars =>
          [lastEnd' # lastEnd /\ feats # NoScan /\ Jumps = 0
             => advance' = lastEnd' - lastEnd]_vars
    BY TimeStep
  <1> QED
    BY <1>1, <1>2, SyncAlways, PointsStart, PointsStep, TimeStart, PTL
    DEF LioSpec, LioSafety, FilterKeepsTime
=============================================================================
