---------------------------- MODULE LivoxDriver -----------------------------
(***************************************************************************)
(* The way of a lidar's points through the Livox driver: the SDK's thread  *)
(* hands raw packets to the processing thread, which collects them into    *)
(* frames and puts these into a ring per lidar; the polling thread, woken  *)
(* by a semaphore, takes them out and publishes them.  The rings have no   *)
(* lock.  The node's destructor asks the polling thread to stop and joins  *)
(* it.                                                                     *)
(*                                                                         *)
(* Times are left out: a frame period may end at any packet.  The IMU data *)
(* takes the same way, in a list with a lock instead of a ring.            *)
(***************************************************************************)
EXTENDS LivoxConfig, FiniteSetsExt

CONSTANTS
  PacketQueueSize,  \* CalculatePacketQueueSize(publish_freq)
  IndexSpace,       \* 2^32, the indices of a ring
  Synchronised,     \* lidars whose packets carry a synchronised time
  MaxRaw            \* bound: packets the processing thread is behind

ASSUME DriverAssumption ==
  /\ PacketQueueSize \in Nat \ {0} /\ IndexSpace \in Nat \ {0}
  /\ Synchronised \subseteq Lidars /\ MaxRaw \in Nat

VARIABLES
  raw,      \* raw_packet_queue_: whose packets
  sync,     \* is_timestamp_sync_, of the last packet
  points,   \* lidars with points in points_clouds_
  frame,    \* frame_: lidars whose points are left to be stored
  process,  \* what the processing thread does next
  wr, rd,   \* wr_idx and rd_idx of the rings
  slots,    \* storage_packet: the number of the packet in each slot
  count,    \* count_ of pcd_semaphore_
  poll,     \* where the polling thread is, and at which device
  hand,     \* the packet it has copied
  exit,     \* request_exit_ and exit_signal_: "no", "requested", "signalled"
  silence,  \* the lidars have stopped sending for good
  late      \* history: lidars that had data when they became sampling

streamVars == <<raw, sync, points, frame, process>>
ringVars == <<wr, rd, slots>>
pollVars == <<count, poll, hand>>
vars == <<configVars, streamVars, ringVars, pollVars, exit, silence, late>>

\* InitQueue: the indices are masked, so the size is a power of two.
RoundupPowerOf2(n) ==
  CHOOSE p \in {2 ^ i : i \in 0 .. n} :
    n <= p /\ \A i \in 0 .. n : n <= 2 ^ i => p <= 2 ^ i
Size == RoundupPowerOf2(PacketQueueSize)

\* Both are powers of two, and a ring is far smaller than 2^32 packets.
ASSUME RingAssumption ==
  /\ Size \in Nat \ {0}
  /\ \E k \in 2 .. IndexSpace : IndexSpace = k * Size

Used(l) == (wr[l] - rd[l]) % IndexSpace
\* Mutant: the mask is taken for the size.
IsFull_ByOne(l) == Used(l) > Size
IsFull(l) == Used(l) > Size - 1
IsEmpty(l) == wr[l] = rd[l]
Next1(i) == (i + 1) % IndexSpace

Init ==
  /\ ConfigInit
  /\ raw = <<>> /\ sync = FALSE /\ points = {} /\ frame = {} /\ process = "idle"
  /\ wr = [l \in Lidars |-> 0] /\ rd = [l \in Lidars |-> 0]
  /\ slots = [l \in Lidars |-> [i \in 0 .. Size - 1 |-> -1]]
  /\ count = 0 /\ poll = [at |-> "top", device |-> 0] /\ hand = -1
  /\ exit = "no" /\ silence = FALSE /\ late = {}

-----------------------------------------------------------------------------
(* The SDK's threads.                                                      *)

Configure ==
  /\ ConfigNext
  /\ late' = late \cup {l \in sampling' \ sampling : ~IsEmpty(l)}
  /\ UNCHANGED <<streamVars, ringVars, pollVars, exit, silence>>

\* OnLivoxLidarPointCloudCallback.
RawPacket(l) ==
  /\ ~silence /\ Len(raw) < MaxRaw
  /\ raw' = Append(raw, l) /\ sync' = (l \in Synchronised)
  /\ UNCHANGED <<configVars, points, frame, process, ringVars, pollVars, exit,
                 silence, late>>

Silence ==
  /\ ~silence /\ silence' = TRUE
  /\ UNCHANGED <<configVars, streamVars, ringVars, pollVars, exit, late>>

-----------------------------------------------------------------------------
(* The processing thread.                                                  *)

\* RawDataProcess and CheckTimer before the period is over.
Collects ==
  /\ process = "idle" /\ raw # <<>>
  /\ raw' = Tail(raw) /\ points' = points \cup {Head(raw)}
  /\ UNCHANGED <<configVars, sync, frame, process, ringVars, pollVars, exit,
                 silence, late>>

\* CheckTimer when it is: with synchronised time a frame of the lidar whose packet
\* it is, else of every lidar that has points.
FrameEnds(l) ==
  /\ process = "idle" /\ raw # <<>> /\ Head(raw) = l
  /\ raw' = Tail(raw)
  /\ LET all == points \cup {l}
         whose == IF sync THEN {l} ELSE all
     IN frame' = whose /\ points' = all \ whose
  /\ process' = "store"
  /\ UNCHANGED <<configVars, sync, ringVars, pollVars, exit, silence, late>>

\* The lidars of a frame are stored in the order of their handles.
Storing == Min(frame)
StoreNext ==
  /\ frame' = frame \ {Storing}
  /\ process' = IF frame' = {} THEN "idle" ELSE "store"

\* Mutant: a full ring does not wake the polling thread.
Store_QuietWhenFull ==
  /\ process = "store"
  /\ LET l == Storing
     IN \/ /\ ~Known(l) \/ IsFull(l)
           /\ StoreNext /\ UNCHANGED slots
        \/ /\ Known(l) /\ ~IsFull(l)
           /\ slots' = [slots EXCEPT ![l][wr[l] % Size] = wr[l]]
           /\ process' = "bump" /\ UNCHANGED frame
  /\ UNCHANGED <<configVars, raw, sync, points, wr, rd, pollVars, exit, silence, late>>

\* StoragePointData and PushLidarData: a lidar without a device slot is passed
\* over, a frame that finds the ring full is dropped.
Store ==
  /\ process = "store"
  /\ LET l == Storing
     IN \/ /\ ~Known(l)
           /\ StoreNext /\ UNCHANGED slots
        \/ /\ Known(l) /\ ~IsFull(l)
           /\ slots' = [slots EXCEPT ![l][wr[l] % Size] = wr[l]]
           /\ process' = "bump" /\ UNCHANGED frame
        \/ /\ Known(l) /\ IsFull(l)
           /\ process' = "signal" /\ UNCHANGED <<frame, slots>>
  /\ UNCHANGED <<configVars, raw, sync, points, wr, rd, pollVars, exit, silence, late>>

\* QueuePushAny, its last step.
Bump ==
  /\ process = "bump"
  /\ LET l == Storing
     IN wr' = [wr EXCEPT ![l] = Next1(@)] /\ late' = late \ {l}
  /\ process' = "signal"
  /\ UNCHANGED <<configVars, raw, sync, points, frame, rd, slots, pollVars, exit,
                 silence>>

\* Mutant: only the first packet of an empty ring wakes the other thread.
Signal_FirstOnly ==
  /\ process = "signal"
  /\ count' = IF count <= 0 /\ Used(Storing) = 1 THEN count + 1 ELSE count
  /\ StoreNext
  /\ UNCHANGED <<configVars, raw, sync, points, ringVars, poll, hand, exit, silence, late>>

\* Nobody else counts up, so looking at the count and signalling are one step.
Signal ==
  /\ process = "signal"
  /\ count' = IF count <= 0 THEN count + 1 ELSE count
  /\ StoreNext
  /\ UNCHANGED <<configVars, raw, sync, points, ringVars, poll, hand, exit, silence, late>>

ProcessStep == Collects \/ (\E l \in Lidars : FrameEnds(l)) \/ Store \/ Bump \/ Signal

-----------------------------------------------------------------------------
(* The polling thread.                                                     *)

\* End of a round of PointCloudDataPollThread.
RoundEnds ==
  poll' = [at |-> IF exit = "signalled" THEN "done" ELSE "top", device |-> 0]

PollTop ==
  /\ poll.at = "top"
  /\ IF exit = "no" THEN poll' = [poll EXCEPT !.at = "wait"] ELSE RoundEnds
  /\ UNCHANGED <<count, hand, rd, late>>

Wait ==
  /\ poll.at = "wait" /\ count > 0
  /\ count' = count - 1
  /\ poll' = [at |-> "scan", device |-> 1]
  /\ UNCHANGED <<hand, rd, late>>

\* DistributePointCloudData at a device slot, and the outer loop of
\* PollingLidarPointCloudData.
Scan ==
  /\ poll.at = "scan"
  /\ LET i == poll.device
         l == known[i]
         polled == i <= Len(known) /\ l \in sampling /\ exit = "no" /\ ~IsEmpty(l)
     IN \/ i > MaxSourceLidar /\ RoundEnds
        \/ i <= MaxSourceLidar /\ ~polled /\ poll' = [poll EXCEPT !.device = @ + 1]
        \/ i <= MaxSourceLidar /\ polled /\ poll' = [poll EXCEPT !.at = "pop"]
  /\ UNCHANGED <<count, hand, rd, late>>

\* QueuePrePop, or the end of the loop of PublishCustomPointcloud.
PrePop ==
  /\ poll.at = "pop"
  /\ LET l == known[poll.device]
     IN IF IsEmpty(l)
        THEN poll' = [poll EXCEPT !.at = "scan"] /\ UNCHANGED hand
        ELSE /\ hand' = slots[l][rd[l] % Size]
             /\ poll' = [poll EXCEPT !.at = "update"]
  /\ UNCHANGED <<count, rd, late>>

\* Mutant: one packet is taken out for each wake-up.
PopUpdate_Once ==
  /\ poll.at = "update"
  /\ LET l == known[poll.device]
     IN /\ rd' = [rd EXCEPT ![l] = Next1(@)]
        /\ late' = IF rd'[l] = wr[l] THEN late \ {l} ELSE late
  /\ hand' = -1
  /\ poll' = [at |-> "scan", device |-> poll.device + 1]
  /\ UNCHANGED count

\* QueuePopUpdate; the packet is published.
PopUpdate ==
  /\ poll.at = "update"
  /\ LET l == known[poll.device]
     IN /\ rd' = [rd EXCEPT ![l] = Next1(@)]
        /\ late' = IF rd'[l] = wr[l] THEN late \ {l} ELSE late
  /\ hand' = -1
  /\ poll' = [poll EXCEPT !.at = "pop"]
  /\ UNCHANGED count

PollStep ==
  /\ PollTop \/ Wait \/ Scan \/ PrePop \/ PopUpdate
  /\ UNCHANGED <<configVars, streamVars, wr, slots, exit, silence>>

-----------------------------------------------------------------------------
(* ~DriverNode.                                                            *)

RequestExit == exit = "no" /\ exit' = "requested"
ExitSignal == exit = "requested" /\ exit' = "signalled"

Destroy ==
  /\ RequestExit \/ ExitSignal
  /\ UNCHANGED <<configVars, streamVars, ringVars, pollVars, silence, late>>

Next ==
  \/ Configure \/ (\E l \in Lidars : RawPacket(l)) \/ Silence
  \/ ProcessStep \/ PollStep \/ Destroy

\* The threads run; as long as the lidars send, frame periods end; publishing is
\* faster than the lidars, so that the polling thread gets back to waiting.
Spec ==
  /\ Init /\ [][Next]_vars
  /\ WF_vars(ProcessStep) /\ WF_vars(PollStep)
  /\ []<>silence \/ \A l \in Lidars : []<><<FrameEnds(l)>>_vars
  /\ []<>(poll.at \in {"top", "wait", "done"})
-----------------------------------------------------------------------------

LivoxTypeOK ==
  /\ ConfigTypeOK
  /\ points \subseteq Lidars /\ late \subseteq sampling
  /\ process \in {"idle", "store", "bump", "signal"} /\ (process = "idle" <=> frame = {})
  /\ wr \in [Lidars -> 0 .. IndexSpace - 1] /\ rd \in [Lidars -> 0 .. IndexSpace - 1]
  /\ count \in {0, 1}
  /\ poll.at \in {"pop", "update"} => known[poll.device] \in sampling

\* The rings are queues although nothing is locked and the indices wrap round:
\* a packet is in its slot as long as it is owed, and the packet that is being
\* published is the oldest one.
RingIsFifo ==
  /\ \A l \in Lidars :
       /\ Used(l) <= Size
       /\ \A k \in 0 .. Size - 1 :
            k < Used(l) => LET n == (rd[l] + k) % IndexSpace IN slots[l][n % Size] = n
  /\ poll.at = "update" => hand = rd[known[poll.device]]

\* No wake-up is lost between looking at the count and going to sleep: while the
\* polling thread sleeps, the rings it would empty are empty, except for what
\* came before its lidar was configured.
NoLostWakeup ==
  poll.at = "wait" /\ count = 0 /\ process # "signal" /\ exit = "no"
    => \A l \in sampling : IsEmpty(l) \/ l \in late

\* A frame that waits in a ring is published while the lidars send on, or the
\* driver stops.
FramesPublished ==
  \A l \in Lidars : l \in sampling /\ ~IsEmpty(l) ~> IsEmpty(l) \/ exit # "no" \/ silence

\* The destructor's join comes back, provided the lidars still send and the
\* driver knows one of them: nothing else wakes the polling thread.
ExitEnds ==
  exit = "signalled" ~> poll.at = "done" \/ silence \/ known = <<>>
=============================================================================
