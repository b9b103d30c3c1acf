------------------------------ MODULE CanDriver ------------------------------
(***************************************************************************)
(* RobstrideCanDriver: the one SocketCAN socket that all the wheel motors  *)
(* share.  The caller's thread runs sendFrame(), which retries, counts     *)
(* failures and rebuilds the socket; the receive thread polls the same     *)
(* descriptor and fills the feedback cache; the CAN interface underneath   *)
(* (a USB dongle) congests, is unplugged and comes back.                   *)
(*                                                                         *)
(* Time is counted in ticks: ReconnectGap ticks stand for the 2 s between  *)
(* two reconnects.  consecutive_fail_count_ saturates at FailThreshold,    *)
(* which keeps every comparison the code makes with it.                    *)
(***************************************************************************)
EXTENDS Integers, FiniteSets

CONSTANTS
  Motors,           \* CAN identifiers of the motors on the bus
  Velocities,       \* velocity commands a motion frame can carry
  Stopped,          \* the zero velocity, a member of Velocities
  FailThreshold,    \* CAN_FAIL_THRESHOLD
  MaxRetries,       \* max_retries of sendFrame
  SetupAttempts,    \* attempts of reconnect to build a new socket
  ReconnectGap      \* ticks between two reconnects

ASSUME DriverAssumption ==
  /\ Motors # {}
  /\ Stopped \in Velocities
  /\ FailThreshold \in Nat \ {0}
  /\ MaxRetries \in Nat
  /\ SetupAttempts \in Nat \ {0}
  /\ ReconnectGap \in Nat \ {0}

VARIABLES
  driver,     \* the driver object exists (driver_ is not null)
  sock,       \* socket_fd_: "none", "bound", or "stale" once its interface went away
  fails,      \* consecutive_fail_count_
  cooldown,   \* ticks until a reconnect is allowed; Never before last_reconnect is initialised
  call,       \* the sendFrame() in progress
  rx,         \* the receive thread: "off", in "poll", or about to "read"
  valid,      \* motors whose feedbacks_ entry has is_valid
  link        \* the interface: "up", "busy" (queue full, bus-off), "down", "gone"

driverVars == <<driver, sock, fails, cooldown, call, rx, valid, link>>

Never == -1

Kinds == {"stop", "mode", "enable", "limit", "motion"}

\* buildCanId and the payload: who the frame is for, what it asks, how fast.
Frames == [to : Motors, kind : Kinds, vel : Velocities]

\* Between two calls no frame is kept: any value does.
NoFrame == CHOOSE f \in Frames : TRUE

Phases == {"idle", "try", "reset", "setup", "resend"}

NoCall == [phase |-> "idle", frame |-> NoFrame, tries |-> 0]

Idle == call.phase = "idle"

Healthy == fails < FailThreshold

Failed == IF fails < FailThreshold THEN fails + 1 ELSE fails

DriverTypeOK ==
  /\ driver \in BOOLEAN
  /\ sock \in {"none", "bound", "stale"}
  /\ fails \in 0 .. FailThreshold
  /\ cooldown \in Never .. ReconnectGap
  /\ call \in [phase : Phases, frame : Frames, tries : 0 .. MaxRetries + SetupAttempts]
  /\ rx \in {"off", "poll", "read"}
  /\ valid \subseteq Motors
  /\ link \in {"up", "busy", "down", "gone"}

DriverInit ==
  /\ driver = FALSE
  /\ sock = "none"
  /\ fails = 0
  /\ cooldown = Never
  /\ call = NoCall
  /\ rx = "off"
  /\ valid = {}
  /\ link \in {"up", "down", "gone"}

-----------------------------------------------------------------------------
(* The object's life: constructor and init(), destructor.                  *)

\* A new object replaces the old one, whose destructor has joined its receive
\* thread.  init() fails, and starts no thread, when the interface is missing.
Create ==
  /\ Idle
  /\ rx # "read"
  /\ driver' = TRUE
  /\ sock' = IF link = "gone" THEN "none" ELSE "bound"
  /\ rx' = IF link = "gone" THEN "off" ELSE "poll"
  /\ fails' = 0
  /\ valid' = {}
  /\ UNCHANGED <<cooldown, call, link>>

Destroy ==
  /\ Idle
  /\ rx # "read"
  /\ driver' = FALSE
  /\ sock' = "none"
  /\ rx' = "off"
  /\ fails' = 0
  /\ valid' = {}
  /\ UNCHANGED <<cooldown, call, link>>

-----------------------------------------------------------------------------
(* sendFrame(), under send_mutex_.                                         *)

Send(f) ==
  /\ driver /\ Idle
  /\ call' = [phase |-> "try", frame |-> f, tries |-> 0]
  /\ UNCHANGED <<driver, sock, fails, cooldown, rx, valid, link>>

Return == call' = NoCall

Writable == sock = "bound" /\ link = "up"

\* The kernel accepts the whole frame.
WriteFrame ==
  /\ call.phase = "try"
  /\ Writable
  /\ fails' = 0
  /\ Return
  /\ UNCHANGED <<driver, sock, cooldown, rx, valid, link>>

\* ENOBUFS or EAGAIN: another try, or a counted failure after the last one.
WriteBusy ==
  /\ call.phase = "try"
  /\ sock = "bound" /\ link = "busy"
  /\ IF call.tries < MaxRetries
       THEN /\ call' = [call EXCEPT !.tries = @ + 1]
            /\ UNCHANGED fails
       ELSE /\ fails' = Failed
            /\ Return
  /\ UNCHANGED <<driver, sock, cooldown, rx, valid, link>>

\* Mutant: leaving the loop resets the counter.
WriteNoSocket_Resets ==
  /\ call.phase = "try"
  /\ sock = "none"
  /\ fails' = 0
  /\ Return
  /\ UNCHANGED <<driver, sock, cooldown, rx, valid, link>>

\* socket_fd_ < 0: the loop is left at once and the failure counted.
WriteNoSocket ==
  /\ call.phase = "try"
  /\ sock = "none"
  /\ fails' = Failed
  /\ Return
  /\ UNCHANGED <<driver, sock, cooldown, rx, valid, link>>

\* Any other errno: the failure is counted; at the threshold, and not sooner
\* than ReconnectGap after the last time, the socket is rebuilt.  The static
\* last_reconnect starts its clock the first time the threshold is reached.
WriteError ==
  /\ call.phase = "try"
  /\ sock = "stale" \/ (sock = "bound" /\ link \in {"down", "gone"})
  /\ fails' = Failed
  /\ IF Failed >= FailThreshold /\ cooldown = 0
       THEN call' = [call EXCEPT !.phase = "reset", !.tries = 0]
       ELSE Return
  /\ cooldown' = IF Failed >= FailThreshold /\ cooldown \in {Never, 0}
                   THEN ReconnectGap
                   ELSE cooldown
  /\ UNCHANGED <<driver, sock, rx, valid, link>>

\* Mutant: the failures are forgotten before there is a new socket.
ResetInterface_Forgets ==
  /\ call.phase = "reset"
  /\ sock' = "none" /\ fails' = 0
  /\ call' = [call EXCEPT !.phase = "setup"]
  /\ UNCHANGED <<driver, link, cooldown, rx, valid>>

\* reconnect(): close the socket, then "ip link down / up".  Nobody looks at
\* the exit status of ip, so the interface may also stay as it was.
ResetInterface ==
  /\ call.phase = "reset"
  /\ sock' = "none"
  /\ link' \in IF link = "gone" THEN {"gone"} ELSE {link, "up"}
  /\ call' = [call EXCEPT !.phase = "setup"]
  /\ UNCHANGED <<driver, fails, cooldown, rx, valid>>

SetupSocket ==
  /\ call.phase = "setup"
  /\ link # "gone"
  /\ sock' = "bound"
  /\ fails' = 0
  /\ call' = [call EXCEPT !.phase = "resend", !.tries = 0]
  /\ UNCHANGED <<driver, cooldown, rx, valid, link>>

\* Mutant: reconnect() waits until the interface is back.
SetupFails_Waits ==
  call.phase = "setup" /\ link = "gone" /\ UNCHANGED driverVars

\* The interface has no index: 200 ms later the next attempt, or give up.
SetupFails ==
  /\ call.phase = "setup"
  /\ link = "gone"
  /\ IF call.tries + 1 < SetupAttempts
       THEN call' = [call EXCEPT !.tries = @ + 1]
       ELSE Return
  /\ UNCHANGED <<driver, sock, fails, cooldown, rx, valid, link>>

\* The frame is written once more on the new socket; a failure here is not counted.
Resend ==
  /\ call.phase = "resend"
  /\ Return
  /\ UNCHANGED <<driver, sock, fails, cooldown, rx, valid, link>>

-----------------------------------------------------------------------------
(* receiveThreadFunc().                                                    *)

\* poll() ignores a negative descriptor; it returns for a frame in the queue
\* of the socket and for an error pending on it.
RxPoll ==
  /\ rx = "poll"
  /\ sock # "none"
  /\ rx' = "read"
  /\ UNCHANGED <<driver, sock, fails, cooldown, call, valid, link>>

\* Mutant: the thread goes on reading the descriptor poll() was given.
RxRead_OldSocket(m) ==
  /\ rx = "read"
  /\ valid' = valid \cup {m} /\ rx' = "poll"
  /\ UNCHANGED <<driver, sock, fails, cooldown, call, link>>

\* read() reads socket_fd_ again: by now it may be another socket.  Whichever
\* frame it takes from the queue goes through parseFeedback into the cache.
RxRead(m) ==
  /\ rx = "read"
  /\ sock # "none"
  /\ valid' = valid \cup {m}
  /\ rx' = "poll"
  /\ UNCHANGED <<driver, sock, fails, cooldown, call, link>>

\* read() fails or times out: descriptor closed meanwhile, queue empty, error.
RxMiss ==
  /\ rx = "read"
  /\ rx' = "poll"
  /\ UNCHANGED <<driver, sock, fails, cooldown, call, valid, link>>

-----------------------------------------------------------------------------
(* The bus and the clock (external).                                       *)

Unplug ==
  /\ link # "gone"
  /\ link' = "gone"
  /\ sock' = IF sock = "bound" THEN "stale" ELSE sock
  /\ UNCHANGED <<driver, fails, cooldown, call, rx, valid>>

\* Congestion and its end, the dongle coming back, somebody raising the link.
LinkChanges ==
  /\ \/ link = "up"   /\ link' = "busy"
     \/ link = "gone" /\ link' = "down"
     \/ link \in {"busy", "down"} /\ link' = "up"
  /\ UNCHANGED <<driver, sock, fails, cooldown, call, rx, valid>>

CooldownTick == cooldown' = IF cooldown > 0 THEN cooldown - 1 ELSE cooldown

Tick ==
  /\ cooldown > 0
  /\ CooldownTick
  /\ UNCHANGED <<driver, sock, fails, call, rx, valid, link>>

-----------------------------------------------------------------------------
\* The steps of a sendFrame() call that do not put a frame on the wire.
SendStep ==
  \/ WriteBusy \/ WriteNoSocket \/ WriteError
  \/ ResetInterface \/ SetupSocket \/ SetupFails

Receive == RxPoll \/ RxMiss \/ (\E m \in Motors : RxRead(m))

Interface == Unplug \/ LinkChanges

DriverNext ==
  \/ Create \/ Destroy
  \/ \E f \in Frames : Send(f)
  \/ WriteFrame \/ Resend \/ SendStep
  \/ Receive
  \/ Interface
  \/ Tick

DriverSpec == DriverInit /\ [][DriverNext]_driverVars
-----------------------------------------------------------------------------
(* What the driver guarantees.                                             *)

\* isCanHealthy() is all that write() asks, and it stands for "there is a
\* socket": a driver whose receive thread runs has lost its socket only while
\* it reports the bus unhealthy.  Needs that reconnect() runs only at the
\* threshold and that no path resets the counter without a socket.
LostSocketIsUnhealthy == rx # "off" /\ sock = "none" => ~Healthy

Reconnecting == call.phase \in {"reset", "setup"}

\* The connection as CanSession sees it.
Session ==
  CASE rx = "off" -> "none"
    [] rx # "off" /\ Healthy -> "open"
    [] rx # "off" /\ ~Healthy /\ (sock # "none" \/ Reconnecting) -> "failing"
    [] OTHER -> "lost"

Abstract == INSTANCE CanSession WITH session <- Session, heard <- valid

\* The threads, the retries and the interface together implement CanSession.
ImplementsSession == Abstract!SessionSpec

\* sendFrame() leaves its loop when there is no socket, so a lost session is
\* never repaired from inside: only a new object or the end of this one ends it.
LostUntilReplaced ==
  [][Session = "lost" => Session' = "lost" \/ Create \/ Destroy]_driverVars
=============================================================================
