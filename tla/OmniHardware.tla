---------------------------- MODULE OmniHardware ----------------------------
(***************************************************************************)
(* OmniHardwareInterface, the ros2_control plugin of the chassis, on top   *)
(* of its RobstrideCanDriver: the lifecycle callbacks, the activation of   *)
(* the motors one after the other, and the write() cycle with its reaction *)
(* to an unhealthy bus.  The controller manager (which callback runs when, *)
(* what an ERROR leads to) and the motors are external.                    *)
(*                                                                         *)
(* One thread runs every callback, so op is its place in the callback and  *)
(* call (of CanDriver) its place in the sendFrame() made from there.       *)
(***************************************************************************)
EXTENDS CanDriver, Sequences

CONSTANTS
  Joints,        \* hw_actuator_data_: the motors in URDF order
  Commands,      \* what the controllers may leave in target_vel
  NotFinite,     \* a command that is not finite
  MaxAttempts,   \* kMaxAttempts of on_activate
  GiveUpAfter    \* ticks of "more than 30 seconds"

ASSUME HardwareAssumption ==
  /\ Joints \in Seq(Motors) \ {<<>>}
  /\ \A m \in Motors : \E j \in 1 .. Len(Joints) : Joints[j] = m
  /\ \A i, j \in 1 .. Len(Joints) : Joints[i] = Joints[j] => i = j
  /\ Commands \subseteq [Motors -> Velocities \cup {NotFinite}]
  /\ NotFinite \notin Velocities
  /\ MaxAttempts \in Nat \ {0}
  /\ GiveUpAfter \in Nat \ {0}

VARIABLES
  lifecycle,   \* state of the component in the controller manager
  op,          \* the callback in progress
  target,      \* target_vel of every joint
  measured,    \* joints whose state interfaces hold a feedback value
  elapsed,     \* ticks since first_fail_time; Never while timer_started is false
  on,          \* motors that are enabled
  speed,       \* the velocity each motor runs at
  clean        \* history: every frame of this driver has reached its motor

hardwareVars == <<lifecycle, op, target, measured, elapsed, on, speed, clean>>
vars == <<driverVars, hardwareVars>>

Targets == Velocities \cup {NotFinite}

\* Mutant: the motor is enabled first and disabled once it has its mode.
Steps_EnableFirst == <<"enable", "mode", "stop", "limit", "motion">>

\* The frames of one attempt of on_activate.
Steps == <<"stop", "mode", "enable", "limit", "motion">>
Verify == Len(Steps) + 1

NoOp == [name |-> "none", joint |-> 1, attempt |-> 1, step |-> 1, zero |-> FALSE]

HardwareTypeOK ==
  /\ DriverTypeOK
  /\ lifecycle \in {"unconfigured", "inactive", "active", "finalized"}
  /\ op \in [name : {"none", "activate", "deactivate", "shutdown", "write"},
             joint : 1 .. Len(Joints) + 1, attempt : 1 .. MaxAttempts,
             step : 1 .. Verify, zero : BOOLEAN]
  /\ target \in [Motors -> Targets]
  /\ measured \subseteq Motors
  /\ elapsed \in Never .. GiveUpAfter + 1
  /\ on \subseteq Motors
  /\ speed \in [Motors -> Velocities]
  /\ clean \in BOOLEAN

HardwareInit ==
  /\ DriverInit
  /\ lifecycle = "unconfigured"
  /\ op = NoOp
  /\ target = [m \in Motors |-> Stopped]
  /\ measured = {}
  /\ elapsed = Never
  /\ on \in SUBSET Motors
  /\ speed \in [Motors -> Velocities]
  /\ \A m \in Motors \ on : speed[m] = Stopped
  /\ clean = FALSE

\* The control thread is free: no callback, hence no sendFrame(), in progress.
Free == op.name = "none" /\ Idle

Begin(name, zero) == op' = [NoOp EXCEPT !.name = name, !.zero = zero]

Joint == Joints[op.joint]

More == op.joint <= Len(Joints)

-----------------------------------------------------------------------------
(* Lifecycle callbacks.                                                    *)

Configure ==
  /\ Free /\ lifecycle = "unconfigured"
  /\ lifecycle' = "inactive"
  /\ UNCHANGED <<driverVars, op, target, measured, elapsed, on, speed, clean>>

\* on_activate up to the loop over the motors.  Every ERROR goes through
\* on_error(), which does nothing and leaves the component unconfigured.
Activate ==
  /\ Free /\ lifecycle = "inactive"
  /\ Create
  /\ IF sock' = "none"
       THEN lifecycle' = "unconfigured" /\ op' = NoOp
       ELSE Begin("activate", FALSE) /\ UNCHANGED lifecycle
  /\ clean' = TRUE
  /\ UNCHANGED <<target, measured, elapsed, on, speed>>

\* Steps (1) to (5) for one motor; no result of sendFrame() is looked at.
ActivateSend ==
  /\ op.name = "activate" /\ Idle /\ More /\ op.step < Verify
  /\ Send([to |-> Joint, kind |-> Steps[op.step], vel |-> Stopped])
  /\ op' = [op EXCEPT !.step = @ + 1]
  /\ UNCHANGED <<lifecycle, target, measured, elapsed, on, speed, clean>>

LastAttempt == op.attempt = MaxAttempts

\* Mutant: after the last attempt a silent motor is let through.
Answered_Lenient == Joint \in valid \/ LastAttempt

\* Has the motor ever answered this driver?
Answered == Joint \in valid

\* On to the next motor, another attempt, or ERROR with the motors before this
\* one left enabled.
ActivateVerify ==
  /\ op.name = "activate" /\ Idle /\ More /\ op.step = Verify
  /\ \/ /\ Answered
        /\ op' = [op EXCEPT !.joint = @ + 1, !.attempt = 1, !.step = 1]
        /\ UNCHANGED lifecycle
     \/ /\ ~Answered /\ ~LastAttempt
        /\ op' = [op EXCEPT !.attempt = @ + 1, !.step = 1]
        /\ UNCHANGED lifecycle
     \/ /\ ~Answered /\ LastAttempt
        /\ op' = NoOp
        /\ lifecycle' = "unconfigured"
  /\ UNCHANGED <<driverVars, target, measured, elapsed, on, speed, clean>>

ActivateDone ==
  /\ op.name = "activate" /\ Idle /\ ~More
  /\ op' = NoOp
  /\ lifecycle' = "active"
  /\ UNCHANGED <<driverVars, target, measured, elapsed, on, speed, clean>>

\* on_deactivate and on_shutdown disable every motor, if there is a driver.
Deactivate ==
  /\ Free
  /\ \/ lifecycle = "active" /\ Begin("deactivate", FALSE)
     \/ lifecycle # "finalized" /\ Begin("shutdown", FALSE)
  /\ UNCHANGED <<driverVars, lifecycle, target, measured, elapsed, on, speed, clean>>

DisableNext ==
  /\ op.name \in {"deactivate", "shutdown"} /\ More
  /\ Send([to |-> Joint, kind |-> "stop", vel |-> Stopped])
  /\ op' = [op EXCEPT !.joint = @ + 1]
  /\ UNCHANGED <<lifecycle, target, measured, elapsed, on, speed, clean>>

DeactivateDone ==
  /\ op.name \in {"deactivate", "shutdown"} /\ Idle
  /\ ~More \/ ~driver
  /\ lifecycle' = IF op.name = "shutdown" THEN "finalized" ELSE "inactive"
  /\ op' = NoOp
  /\ UNCHANGED <<driverVars, target, measured, elapsed, on, speed, clean>>

\* Mutant: the pointer is released, the socket and the thread live on.
Cleanup_Releases ==
  /\ Free /\ lifecycle \in {"inactive", "finalized"}
  /\ driver' = FALSE
  /\ lifecycle' = IF lifecycle = "inactive" THEN "unconfigured" ELSE "finalized"
  /\ UNCHANGED <<sock, fails, cooldown, call, rx, valid, link,
                 op, target, measured, elapsed, on, speed, clean>>

\* on_cleanup, and the destructor of the plugin at the end.
Cleanup ==
  /\ Free /\ lifecycle \in {"inactive", "finalized"}
  /\ Destroy
  /\ lifecycle' = IF lifecycle = "inactive" THEN "unconfigured" ELSE "finalized"
  /\ clean' = FALSE
  /\ UNCHANGED <<op, target, measured, elapsed, on, speed>>

-----------------------------------------------------------------------------
(* The control loop: read(), the controllers' update, write().             *)

\* The manager (of ROS 2 Humble) runs the loop over an inactive component as
\* well.  Neither read() nor write() survives a null driver_: the process, and
\* with it the behaviour, ends there.
Cycled == Free /\ lifecycle \in {"inactive", "active"} /\ driver

Read ==
  /\ Cycled
  /\ measured' = measured \cup valid
  /\ UNCHANGED <<driverVars, lifecycle, op, target, elapsed, on, speed, clean>>

Command ==
  /\ Cycled
  /\ target' \in Commands
  /\ UNCHANGED <<driverVars, lifecycle, op, measured, elapsed, on, speed, clean>>

\* Mutant: the timer starts anew in every cycle of the outage.
Elapsed_Restarted == 0

\* The age write() compares with 30 s: the timer is started once and for all.
Elapsed == IF elapsed = Never THEN 0 ELSE elapsed

\* write() decides once, at its start, between the commands, zero velocities
\* and ERROR.
Write ==
  /\ Cycled
  /\ \/ Healthy
        /\ Begin("write", FALSE)
        /\ UNCHANGED <<lifecycle, elapsed>>
     \/ ~Healthy /\ Elapsed <= GiveUpAfter
        /\ Begin("write", TRUE)
        /\ elapsed' = Elapsed
        /\ UNCHANGED lifecycle
     \/ ~Healthy /\ Elapsed > GiveUpAfter
        /\ lifecycle' = "unconfigured"
        /\ UNCHANGED <<op, elapsed>>
  /\ UNCHANGED <<driverVars, target, measured, on, speed, clean>>

Finite(v) == IF v = NotFinite THEN Stopped ELSE v

\* Mutant: the bus is asked again before every frame.
Commanded_AskedAgain == IF Healthy THEN Finite(target[Joint]) ELSE Stopped

Commanded == IF op.zero THEN Stopped ELSE Finite(target[Joint])

WriteNext ==
  /\ op.name = "write" /\ More
  /\ Send([to |-> Joint, kind |-> "motion", vel |-> Commanded])
  /\ op' = [op EXCEPT !.joint = @ + 1]
  /\ UNCHANGED <<lifecycle, target, measured, elapsed, on, speed, clean>>

WriteDone ==
  /\ op.name = "write" /\ Idle /\ ~More
  /\ op' = NoOp
  /\ UNCHANGED <<driverVars, lifecycle, target, measured, elapsed, on, speed, clean>>

-----------------------------------------------------------------------------
(* The steps of sendFrame() and what its frame does on the bus (external). *)

\* A motor obeys the frame, or the frame is lost.  Its answers are
\* the frames of RxRead: late, lost or repeated, as the bus pleases.
Delivered(f) ==
  /\ on' = CASE f.kind = "stop"   -> on \ {f.to}
             [] f.kind = "enable" -> on \cup {f.to}
             [] OTHER             -> on
  /\ speed' = CASE f.kind = "stop" -> [speed EXCEPT ![f.to] = Stopped]
                [] f.kind = "motion" /\ f.to \in on -> [speed EXCEPT ![f.to] = f.vel]
                [] OTHER -> speed
  /\ UNCHANGED clean

Lost == clean' = FALSE /\ UNCHANGED <<on, speed>>

FrameOut ==
  /\ WriteFrame \/ Resend
  /\ (Writable /\ Delivered(call.frame)) \/ Lost
  /\ UNCHANGED <<lifecycle, op, target, measured, elapsed>>

FrameFails ==
  /\ SendStep
  /\ clean' = (clean /\ call'.phase # "idle")
  /\ UNCHANGED <<lifecycle, op, target, measured, elapsed, on, speed>>

HardwareTick ==
  /\ CooldownTick
  /\ elapsed' = IF elapsed \in 0 .. GiveUpAfter THEN elapsed + 1 ELSE elapsed
  /\ <<cooldown, elapsed>>' # <<cooldown, elapsed>>
  /\ UNCHANGED <<driver, sock, fails, call, rx, valid, link,
                 lifecycle, op, target, measured, on, speed, clean>>

Environment ==
  /\ Receive \/ Interface
  /\ UNCHANGED hardwareVars

-----------------------------------------------------------------------------
\* What the control thread does without being asked to by an operator.
Control ==
  \/ ActivateSend \/ ActivateVerify \/ ActivateDone
  \/ DisableNext \/ DeactivateDone
  \/ Write \/ WriteNext \/ WriteDone
  \/ FrameOut \/ FrameFails

HardwareNext ==
  \/ Configure \/ Activate \/ Deactivate \/ Cleanup
  \/ Read \/ Command
  \/ Control
  \/ Environment
  \/ HardwareTick

HardwareSafety == HardwareInit /\ [][HardwareNext]_vars

\* The manager's loop keeps running and time passes; the bus owes nothing.
HardwareSpec == HardwareSafety /\ WF_vars(Control) /\ WF_vars(HardwareTick)
-----------------------------------------------------------------------------
(* What the plugin guarantees.                                             *)

\* Whatever the plugin does to its driver is something the driver allows, so
\* CanSession's promises reach it.
UsesDriver == DriverSpec

\* on_activate lets the component become active only after every motor has
\* answered this very driver, and no path takes the cache or the receive thread
\* away again: read() finds every entry valid.
ActiveMeansHeard ==
  lifecycle = "active" => driver /\ rx # "off" /\ valid = Motors

\* read() skips a motor that has not answered yet.  While the component is
\* active it never leaves the controllers with such a mixture of measured and
\* initial values; on an inactive one, after a failed activation, it does.
ActiveReadsAll ==
  [][lifecycle = "active" /\ measured' # measured => measured' = Motors]_vars

\* As long as no frame of this driver was lost: an active chassis has all its
\* motors enabled, a shut-down one none, and disabling goes joint by joint.
ObeyedOnCleanBus ==
  clean =>
    /\ lifecycle = "active" /\ op.name \in {"none", "write"} => on = Motors
    /\ lifecycle = "finalized" => on = {}
    /\ op.name \in {"deactivate", "shutdown"} /\ Idle =>
         \A j \in 1 .. op.joint - 1 : Joints[j] \notin on

\* A write() that found the bus unhealthy makes no motor faster, also when the
\* socket comes back in the middle of its frames.
NoSpeedUpInOutage ==
  [][op.zero => \A m \in Motors : speed'[m] \in {speed[m], Stopped}]_vars

\* The socket never comes back by itself, so an active chassis whose session is
\* lost is always taken out of service by write().
LostEndsInError == lifecycle = "active" /\ Session = "lost" ~> lifecycle # "active"

\* on_activate returns, however many frames fail and motors stay silent.
ActivationEnds == op.name = "activate" ~> op.name = "none"
=============================================================================
