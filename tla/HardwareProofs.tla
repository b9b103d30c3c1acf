---------------------------- MODULE HardwareProofs ----------------------------
(***************************************************************************)
(* Proofs about the hardware, for any chassis and any thresholds.          *)
(*                                                                         *)
(* Of CanDriver: its types, the inductive invariant that ties the socket   *)
(* to the failure counter, and the refinement of CanSession.  Of           *)
(* OmniHardware: it uses its driver as CanDriver allows, so that           *)
(* everything proved of the driver holds here; it is well typed; and its   *)
(* main safety properties follow from two inductive invariants, one on the *)
(* activation and one on the frames in flight.                             *)
(***************************************************************************)
EXTENDS OmniHardware, TLAPS

-----------------------------------------------------------------------------
(* The driver.                                                             *)

LEMMA NoCallType == NoCall \in [phase : Phases, frame : Frames, tries : 0 .. MaxRetries + SetupAttempts]
  <1>1. \E m \in Motors : TRUE
    BY DriverAssumption DEF DriverAssumption
  <1>2. PICK m \in Motors : TRUE
    BY <1>1
  <1>3. [to |-> m, kind |-> "stop", vel |-> Stopped] \in Frames
    BY <1>2, DriverAssumption DEF DriverAssumption, Frames, Kinds
  <1>4. NoFrame \in Frames
    BY <1>3 DEF NoFrame
  <1>5. 0 \in 0 .. MaxRetries + SetupAttempts
    BY DriverAssumption DEF DriverAssumption
  <1> QED
    BY <1>4, <1>5 DEF NoCall, Phases

LEMMA InitTypes == DriverInit => DriverTypeOK
  <1> SUFFICES ASSUME DriverInit
               PROVE  DriverTypeOK
    OBVIOUS
  <1>1. driver \in BOOLEAN
    BY DEF DriverInit
  <1>2. fails \in 0 .. FailThreshold /\ cooldown \in Never .. ReconnectGap
    BY DriverAssumption DEF DriverAssumption, DriverInit, Never
  <1> QED
    BY <1>1, <1>2, NoCallType DEF DriverInit, DriverTypeOK

LEMMA StepTypes == DriverTypeOK /\ [DriverNext]_driverVars => DriverTypeOK'
  <1> SUFFICES ASSUME DriverTypeOK, [DriverNext]_driverVars
               PROVE  DriverTypeOK'
    OBVIOUS
  <1> USE DriverAssumption DEF DriverAssumption, DriverTypeOK
  <1>1. CASE Create
    BY <1>1 DEF Create
  <1>2. CASE Destroy
    <2>1. driver' \in BOOLEAN
      BY <1>2 DEF Destroy
    <2>2. fails' \in 0 .. FailThreshold
      BY <1>2 DEF Destroy
    <2>3. UNCHANGED <<cooldown, call, link>> /\ sock' = "none" /\ rx' = "off" /\ valid' = {}
      BY <1>2 DEF Destroy
    <2> QED
      BY <2>1, <2>2, <2>3
  <1>3. ASSUME NEW f \in Frames, Send(f)
        PROVE  DriverTypeOK'
    BY <1>3 DEF Send, Phases
  <1>4. CASE WriteFrame
    BY <1>4, NoCallType DEF WriteFrame, Return
  <1>5. CASE Resend
    BY <1>5, NoCallType DEF Resend, Return
  <1>6. CASE WriteBusy
    BY <1>6, NoCallType DEF WriteBusy, Return, Failed
  <1>7. CASE WriteNoSocket
    BY <1>7, NoCallType DEF WriteNoSocket, Return, Failed
  <1>8. CASE WriteError
    <2>1. fails' \in 0 .. FailThreshold
      BY <1>8 DEF WriteError, Failed
    <2>2. cooldown' \in Never .. ReconnectGap
      BY <1>8 DEF WriteError, Never
    <2>3. call' \in [phase : Phases, frame : Frames, tries : 0 .. MaxRetries + SetupAttempts]
      <3>1. 0 \in 0 .. MaxRetries + SetupAttempts
        OBVIOUS
      <3>2. CASE call' = NoCall
        BY <3>2, NoCallType
      <3>3. CASE call' = [call EXCEPT !.phase = "reset", !.tries = 0]
        BY <3>1, <3>3 DEF Phases
      <3> QED
        BY <1>8, <3>2, <3>3 DEF WriteError, Return
    <2> QED
      BY <1>8, <2>1, <2>2, <2>3 DEF WriteError
  <1>9. CASE ResetInterface
    BY <1>9 DEF ResetInterface, Phases
  <1>10. CASE SetupSocket
    <2>1. call' \in [phase : Phases, frame : Frames, tries : 0 .. MaxRetries + SetupAttempts]
      <3>1. 0 \in 0 .. MaxRetries + SetupAttempts
        OBVIOUS
      <3> QED
        BY <1>10, <3>1 DEF SetupSocket, Phases
    <2> QED
      BY <1>10, <2>1 DEF SetupSocket
  <1>11. CASE SetupFails
    BY <1>11, NoCallType DEF SetupFails, Return
  <1>12. CASE Receive
    BY <1>12 DEF Receive, RxPoll, RxMiss, RxRead
  <1>13. CASE Interface
    BY <1>13 DEF Interface, Unplug, LinkChanges
  <1>14. CASE Tick
    BY <1>14 DEF Tick, CooldownTick, Never
  <1>15. CASE UNCHANGED driverVars
    BY <1>15 DEF driverVars
  <1> QED
    BY <1>1, <1>2, <1>3, <1>4, <1>5, <1>6, <1>7, <1>8, <1>9, <1>10, <1>11,
       <1>12, <1>13, <1>14, <1>15 DEF DriverNext, SendStep

\* Every variable keeps its type, whatever the threads and the interface do.
THEOREM DriverTypes == DriverSpec => []DriverTypeOK
  BY InitTypes, StepTypes, PTL DEF DriverSpec

\* The inductive strengthening: reconnect() runs only at the threshold, so the
\* socket it closes is closed on an unhealthy bus.
DriverInv ==
  /\ DriverTypeOK
  /\ LostSocketIsUnhealthy
  /\ Reconnecting => ~Healthy

LEMMA DriverInvariant == DriverSpec => []DriverInv
  <1>1. DriverInit => DriverInv
    <2>1. DriverInit => LostSocketIsUnhealthy /\ (Reconnecting => ~Healthy)
      BY DEF DriverInit, NoCall, LostSocketIsUnhealthy, Reconnecting
    <2> QED
      BY <2>1, InitTypes DEF DriverInv
  <1>2. DriverInv /\ [DriverNext]_driverVars => DriverInv'
    <2> SUFFICES ASSUME DriverInv, [DriverNext]_driverVars
                 PROVE  DriverInv'
      OBVIOUS
    <2>1. DriverTypeOK'
      BY StepTypes DEF DriverInv
    <2>2. LostSocketIsUnhealthy' /\ (Reconnecting => ~Healthy)'
      <3> USE DriverAssumption DEF DriverAssumption, DriverInv, DriverTypeOK,
                                   LostSocketIsUnhealthy, Reconnecting, Healthy
      <3>1. CASE Create \/ Destroy
        BY <3>1 DEF Create, Destroy, Idle
      <3>2. ASSUME NEW f \in Frames, Send(f)
            PROVE  LostSocketIsUnhealthy' /\ (Reconnecting => ~Healthy)'
        BY <3>2 DEF Send
      <3>3. CASE WriteFrame \/ Resend
        BY <3>3 DEF WriteFrame, Resend, Writable, Return, NoCall
      <3>4. CASE WriteBusy
        BY <3>4 DEF WriteBusy, Failed, Return, NoCall
      <3>5. CASE WriteNoSocket
        BY <3>5 DEF WriteNoSocket, Failed, Return, NoCall
      <3>6. CASE WriteError
        BY <3>6 DEF WriteError, Failed, Return, NoCall
      <3>7. CASE ResetInterface \/ SetupSocket
        BY <3>7 DEF ResetInterface, SetupSocket
      <3>8. CASE SetupFails
        BY <3>8 DEF SetupFails, Return, NoCall
      <3>9. CASE Receive
        BY <3>9 DEF Receive, RxPoll, RxMiss, RxRead
      <3>10. CASE Interface
        BY <3>10 DEF Interface, Unplug, LinkChanges
      <3>11. CASE Tick \/ UNCHANGED driverVars
        BY <3>11 DEF Tick, driverVars
      <3> QED
        BY <3>1, <3>2, <3>3, <3>4, <3>5, <3>6, <3>7, <3>8, <3>9, <3>10, <3>11
        DEF DriverNext, SendStep
    <2> QED
      BY <2>1, <2>2 DEF DriverInv
  <1> QED
    BY <1>1, <1>2, PTL DEF DriverSpec

\* isCanHealthy() may stand for "there is a socket" in write(): a receiving
\* driver that lost its socket reports the bus unhealthy.
THEOREM LostSocketTheorem == DriverSpec => []LostSocketIsUnhealthy
  BY DriverInvariant, PTL DEF DriverInv

-----------------------------------------------------------------------------
(* The refinement of CanSession.                                           *)

LEMMA SessionStart == DriverInit => Abstract!SessionInit
  BY DEF DriverInit, Abstract!SessionInit, Session

LEMMA SessionStep ==
  ASSUME DriverInv, [DriverNext]_driverVars
  PROVE  [Abstract!SessionNext]_<<Session, valid>>
  <1> USE DriverAssumption DEF DriverAssumption, DriverInv, DriverTypeOK,
          LostSocketIsUnhealthy, Reconnecting, Healthy, Session, Abstract!SessionNext
  <1>1. CASE Create \/ Destroy
    BY <1>1 DEF Create, Destroy, Idle, Abstract!Begin
  <1>2. ASSUME NEW f \in Frames, Send(f)
        PROVE  UNCHANGED <<Session, valid>>
    BY <1>2 DEF Send, Idle
  <1>3. CASE WriteFrame
    BY <1>3 DEF WriteFrame, Writable, Return, NoCall, Abstract!Recover
  <1>4. CASE Resend
    BY <1>4 DEF Resend, Return, NoCall
  <1>5. CASE WriteBusy
    BY <1>5 DEF WriteBusy, Failed, Return, NoCall, Abstract!Degrade
  <1>6. CASE WriteNoSocket
    BY <1>6 DEF WriteNoSocket, Failed, Return, NoCall
  <1>7. CASE WriteError
    BY <1>7 DEF WriteError, Failed, Return, NoCall, Abstract!Degrade
  <1>8. CASE ResetInterface
    BY <1>8 DEF ResetInterface
  <1>9. CASE SetupSocket
    BY <1>9 DEF SetupSocket, Abstract!Recover
  <1>10. CASE SetupFails
    BY <1>10 DEF SetupFails, Return, NoCall, Abstract!Lose
  <1>11. CASE RxPoll \/ RxMiss
    BY <1>11 DEF RxPoll, RxMiss
  <1>12. ASSUME NEW m \in Motors, RxRead(m)
         PROVE  Abstract!Hear(m)
    BY <1>12 DEF RxRead, Abstract!Hear
  <1>13. CASE Interface
    BY <1>13 DEF Interface, Unplug, LinkChanges
  <1>14. CASE Tick \/ UNCHANGED driverVars
    BY <1>14 DEF Tick, driverVars
  <1> QED
    BY <1>1, <1>2, <1>3, <1>4, <1>5, <1>6, <1>7, <1>8, <1>9, <1>10, <1>11,
       <1>12, <1>13, <1>14 DEF DriverNext, SendStep, Receive

\* Retries, reconnects, the receive thread and the interface together never do
\* more than CanSession allows.
THEOREM DriverImplementsSession == DriverSpec => ImplementsSession
  BY SessionStart, SessionStep, DriverInvariant, PTL
  DEF DriverSpec, ImplementsSession, Abstract!SessionSpec

LEMMA LostStep ==
  ASSUME DriverInv, [DriverNext]_driverVars, Session = "lost"
  PROVE  Session' = "lost" \/ Create \/ Destroy
  <1> USE DEF DriverInv, Reconnecting, Healthy, Session
  <1>1. rx # "off" /\ sock = "none" /\ fails = FailThreshold /\ ~Reconnecting
    BY DriverAssumption DEF DriverAssumption, DriverTypeOK
  <1>2. ASSUME NEW f \in Frames, Send(f)
        PROVE  Session' = "lost"
    BY <1>1, <1>2, DriverAssumption DEF DriverAssumption, Send
  <1>3. CASE Resend \/ WriteNoSocket
    BY <1>1, <1>3, DriverAssumption
    DEF DriverAssumption, Resend, WriteNoSocket, Failed, Return, NoCall
  <1>4. ~(WriteFrame \/ WriteBusy \/ WriteError)
    BY <1>1 DEF WriteFrame, Writable, WriteBusy, WriteError
  <1>5. ~(ResetInterface \/ SetupSocket \/ SetupFails)
    BY <1>1 DEF ResetInterface, SetupSocket, SetupFails
  <1>6. CASE Receive
    BY <1>1, <1>6, DriverAssumption DEF DriverAssumption, Receive, RxPoll, RxMiss, RxRead
  <1>7. CASE Interface
    BY <1>1, <1>7, DriverAssumption DEF DriverAssumption, Interface, Unplug, LinkChanges
  <1>8. CASE Tick \/ UNCHANGED driverVars
    BY <1>1, <1>8, DriverAssumption DEF DriverAssumption, Tick, driverVars
  <1> QED
    BY <1>2, <1>3, <1>4, <1>5, <1>6, <1>7, <1>8 DEF DriverNext, SendStep

\* A driver that lost its socket stays without one until it is replaced or
\* destroyed: no sendFrame() repairs it.
THEOREM LostUntilReplacedTheorem == DriverSpec => LostUntilReplaced
  BY LostStep, DriverInvariant, PTL DEF DriverSpec, LostUntilReplaced

-----------------------------------------------------------------------------
(* The plugin.                                                             *)

LEMMA JointType ==
  ASSUME NEW j \in 1 .. Len(Joints)
  PROVE  Joints[j] \in Motors
  BY HardwareAssumption DEF HardwareAssumption

LEMMA StepKinds ==
  /\ Len(Steps) = 5 /\ Verify = 6
  /\ \A i \in 1 .. 5 : Steps[i] \in Kinds
  /\ Steps[1] = "stop" /\ Steps[2] = "mode" /\ Steps[3] = "enable"
  /\ Steps[4] = "limit" /\ Steps[5] = "motion"
  BY DEF Steps, Verify, Kinds

LEMMA JointsLength == Len(Joints) \in Nat /\ Len(Joints) >= 1
  <1>1. Joints \in Seq(Motors) /\ Joints # <<>>
    BY HardwareAssumption DEF HardwareAssumption
  <1> QED
    BY <1>1

LEMMA NoOpType ==
  NoOp \in [name : {"none", "activate", "deactivate", "shutdown", "write"},
            joint : 1 .. Len(Joints) + 1, attempt : 1 .. MaxAttempts,
            step : 1 .. Verify, zero : BOOLEAN]
  <1>1. 1 \in 1 .. Len(Joints) + 1 /\ 1 \in 1 .. MaxAttempts /\ 1 \in 1 .. Verify
    BY JointsLength, StepKinds, HardwareAssumption DEF HardwareAssumption
  <1>2. FALSE \in BOOLEAN
    OBVIOUS
  <1> QED
    BY <1>1, <1>2 DEF NoOp

\* The callbacks send well-formed frames, and touch the driver in no other way.
LEMMA StepUsesDriver ==
  ASSUME HardwareTypeOK, [HardwareNext]_vars
  PROVE  [DriverNext]_driverVars
  <1> USE DEF HardwareTypeOK
  <1>1. CASE ActivateSend
    <2>1. Joint \in Motors
      BY <1>1, JointType DEF ActivateSend, More, Joint
    <2>2. Steps[op.step] \in Kinds
      BY <1>1, StepKinds DEF ActivateSend
    <2>3. [to |-> Joint, kind |-> Steps[op.step], vel |-> Stopped] \in Frames
      BY <2>1, <2>2, DriverAssumption DEF DriverAssumption, Frames
    <2> QED
      BY <1>1, <2>3 DEF ActivateSend, DriverNext
  <1>2. CASE DisableNext
    <2>1. Joint \in Motors
      BY <1>2, JointType DEF DisableNext, More, Joint
    <2>2. [to |-> Joint, kind |-> "stop", vel |-> Stopped] \in Frames
      BY <2>1, DriverAssumption DEF DriverAssumption, Frames, Kinds
    <2> QED
      BY <1>2, <2>2 DEF DisableNext, DriverNext
  <1>3. CASE WriteNext
    <2>1. Joint \in Motors
      BY <1>3, JointType DEF WriteNext, More, Joint
    <2>2. Finite(target[Joint]) \in Velocities
      BY <2>1, DriverAssumption DEF DriverAssumption, Finite, Targets
    <2>3. Commanded \in Velocities
      BY <2>2, DriverAssumption DEF DriverAssumption, Commanded
    <2>4. [to |-> Joint, kind |-> "motion", vel |-> Commanded] \in Frames
      BY <2>1, <2>3 DEF Frames, Kinds
    <2> QED
      BY <1>3, <2>4 DEF WriteNext, DriverNext
  <1>4. CASE Activate \/ Cleanup
    BY <1>4 DEF Activate, Cleanup, DriverNext
  <1>5. CASE FrameOut \/ FrameFails
    BY <1>5 DEF FrameOut, FrameFails, DriverNext
  <1>6. CASE Environment
    BY <1>6 DEF Environment, DriverNext
  <1>7. CASE HardwareTick
    <2>1. CASE cooldown > 0
      BY <1>7, <2>1 DEF HardwareTick, Tick, DriverNext
    <2>2. CASE ~(cooldown > 0)
      BY <1>7, <2>2 DEF HardwareTick, CooldownTick, driverVars
    <2> QED
      BY <2>1, <2>2
  <1>8. CASE \/ Configure \/ Deactivate \/ Read \/ Command \/ Write \/ WriteDone
             \/ ActivateVerify \/ ActivateDone \/ DeactivateDone \/ UNCHANGED vars
    BY <1>8 DEF Configure, Deactivate, Read, Command, Write, WriteDone,
         ActivateVerify, ActivateDone, DeactivateDone, vars
  <1> QED
    BY <1>1, <1>2, <1>3, <1>4, <1>5, <1>6, <1>7, <1>8 DEF HardwareNext, Control

-----------------------------------------------------------------------------
(* Types.                                                                  *)

LEMMA HardwareInitTypes == HardwareInit => HardwareTypeOK
  <1> SUFFICES ASSUME HardwareInit
               PROVE  HardwareTypeOK
    OBVIOUS
  <1>1. elapsed \in Never .. GiveUpAfter + 1
    BY HardwareAssumption DEF HardwareAssumption, HardwareInit, Never
  <1>2. target \in [Motors -> Targets]
    BY DriverAssumption DEF DriverAssumption, HardwareInit, Targets
  <1> QED
    BY <1>1, <1>2, InitTypes, NoOpType DEF HardwareInit, HardwareTypeOK

\* The type of the control thread's place in its callback.
OpType == [name : {"none", "activate", "deactivate", "shutdown", "write"},
           joint : 1 .. Len(Joints) + 1, attempt : 1 .. MaxAttempts,
           step : 1 .. Verify, zero : BOOLEAN]

LEMMA BeginType ==
  ASSUME NEW n \in {"deactivate", "shutdown", "write", "activate"}, NEW z \in BOOLEAN
  PROVE  [NoOp EXCEPT !.name = n, !.zero = z] \in OpType
  BY NoOpType DEF OpType

LEMMA OpTypes ==
  ASSUME HardwareTypeOK, [HardwareNext]_vars
  PROVE  op' \in OpType
  <1>1. op \in OpType /\ NoOp \in OpType
    BY NoOpType DEF HardwareTypeOK, OpType
  <1>2. CASE ActivateSend
    <2>1. op.step + 1 \in 1 .. Verify
      BY <1>1, <1>2, StepKinds DEF ActivateSend, OpType
    <2> QED
      BY <1>1, <1>2, <2>1 DEF ActivateSend, OpType
  <1>3. CASE ActivateVerify
    <2>1. op.joint + 1 \in 1 .. Len(Joints) + 1
      BY <1>1, <1>3, JointsLength DEF ActivateVerify, More, OpType
    <2>2. 1 \in 1 .. MaxAttempts /\ 1 \in 1 .. Verify
      BY HardwareAssumption, StepKinds DEF HardwareAssumption
    <2>3. ~LastAttempt => op.attempt + 1 \in 1 .. MaxAttempts
      BY <1>1, HardwareAssumption DEF HardwareAssumption, LastAttempt, OpType
    <2> QED
      BY <1>1, <1>3, <2>1, <2>2, <2>3 DEF ActivateVerify, OpType
  <1>4. CASE DisableNext \/ WriteNext
    <2>1. op.joint + 1 \in 1 .. Len(Joints) + 1
      BY <1>1, <1>4, JointsLength DEF DisableNext, WriteNext, More, OpType
    <2> QED
      BY <1>1, <1>4, <2>1 DEF DisableNext, WriteNext, OpType
  <1>5. CASE Activate \/ Deactivate \/ Write
    <2>1. /\ [NoOp EXCEPT !.name = "activate", !.zero = FALSE] \in OpType
          /\ [NoOp EXCEPT !.name = "deactivate", !.zero = FALSE] \in OpType
          /\ [NoOp EXCEPT !.name = "shutdown", !.zero = FALSE] \in OpType
          /\ [NoOp EXCEPT !.name = "write", !.zero = FALSE] \in OpType
          /\ [NoOp EXCEPT !.name = "write", !.zero = TRUE] \in OpType
      BY BeginType
    <2> QED
      BY <1>1, <1>5, <2>1 DEF Activate, Deactivate, Write, Begin
  <1>6. CASE ActivateDone \/ DeactivateDone \/ WriteDone
    BY <1>1, <1>6 DEF ActivateDone, DeactivateDone, WriteDone
  <1>7. CASE Configure \/ Cleanup \/ Read \/ Command \/ FrameOut \/ FrameFails
    BY <1>1, <1>7 DEF Configure, Cleanup, Read, Command, FrameOut, FrameFails
  <1>8. CASE Environment \/ HardwareTick \/ UNCHANGED vars
    BY <1>1, <1>8 DEF Environment, HardwareTick, vars, hardwareVars
  <1> QED
    BY <1>2, <1>3, <1>4, <1>5, <1>6, <1>7, <1>8 DEF HardwareNext, Control

\* What the motors do stays within the model's motors and velocities.
LEMMA MotorTypes ==
  ASSUME HardwareTypeOK, FrameOut
  PROVE  on' \subseteq Motors /\ speed' \in [Motors -> Velocities] /\ clean' \in BOOLEAN
  <1>1. call.frame \in Frames
    BY DEF HardwareTypeOK, DriverTypeOK
  <1>2. call.frame.to \in Motors /\ call.frame.vel \in Velocities
    BY <1>1 DEF Frames
  <1>3. CASE Delivered(call.frame)
    <2>1. on' \subseteq Motors /\ clean' \in BOOLEAN
      BY <1>2, <1>3 DEF Delivered, HardwareTypeOK
    <2>2. speed' \in [Motors -> Velocities]
      BY <1>2, <1>3, DriverAssumption DEF DriverAssumption, Delivered, HardwareTypeOK
    <2> QED
      BY <2>1, <2>2
  <1>4. CASE Lost
    BY <1>4 DEF Lost, HardwareTypeOK
  <1> QED
    BY <1>3, <1>4 DEF FrameOut

LEMMA HardwareStepTypes ==
  ASSUME HardwareTypeOK, [HardwareNext]_vars
  PROVE  HardwareTypeOK'
  <1>1. DriverTypeOK'
    BY StepUsesDriver, StepTypes DEF HardwareTypeOK
  <1>2. op' \in OpType
    BY OpTypes
  <1> DEFINE Rest == /\ lifecycle \in {"unconfigured", "inactive", "active", "finalized"}
                     /\ target \in [Motors -> Targets]
                     /\ measured \subseteq Motors
                     /\ elapsed \in Never .. GiveUpAfter + 1
                     /\ on \subseteq Motors
                     /\ speed \in [Motors -> Velocities]
                     /\ clean \in BOOLEAN
  <1>3. Rest'
    <2> USE DEF HardwareTypeOK
    <2>1. CASE Configure \/ Deactivate \/ DeactivateDone \/ WriteDone
      BY <2>1 DEF Configure, Deactivate, DeactivateDone, WriteDone
    <2>2. CASE Activate \/ Cleanup
      BY <2>2 DEF Activate, Cleanup
    <2>3. CASE ActivateSend \/ DisableNext \/ WriteNext
      BY <2>3 DEF ActivateSend, DisableNext, WriteNext
    <2>4. CASE ActivateVerify \/ ActivateDone
      BY <2>4 DEF ActivateVerify, ActivateDone
    <2>5. CASE Read
      BY <2>5 DEF Read, DriverTypeOK
    <2>6. CASE Command
      BY <2>6, HardwareAssumption DEF HardwareAssumption, Command, Targets
    <2>7. CASE Write
      <3>1. Elapsed <= GiveUpAfter => Elapsed \in Never .. GiveUpAfter + 1
        BY HardwareAssumption DEF HardwareAssumption, Elapsed, Never
      <3> QED
        BY <2>7, <3>1 DEF Write
    <2>8. CASE FrameOut
      BY <2>8, MotorTypes DEF FrameOut
    <2>9. CASE FrameFails
      BY <2>9 DEF FrameFails
    <2>10. CASE HardwareTick
      <3>1. elapsed' \in Never .. GiveUpAfter + 1
        BY <2>10, HardwareAssumption DEF HardwareAssumption, HardwareTick, Never
      <3> QED
        BY <2>10, <3>1 DEF HardwareTick
    <2>11. CASE Environment \/ UNCHANGED vars
      BY <2>11 DEF Environment, vars, hardwareVars
    <2> QED
      BY <2>1, <2>2, <2>3, <2>4, <2>5, <2>6, <2>7, <2>8, <2>9, <2>10, <2>11
      DEF HardwareNext, Control
  <1> QED
    BY <1>1, <1>2, <1>3 DEF HardwareTypeOK, OpType

\* Lifecycle, callbacks, timers and motors keep their types.
THEOREM HardwareTypes == HardwareSafety => []HardwareTypeOK
  BY HardwareInitTypes, HardwareStepTypes, PTL DEF HardwareSafety

-----------------------------------------------------------------------------
(* The plugin within the driver's specification.                           *)

\* Every behaviour of the plugin is, for its driver, a behaviour CanDriver
\* allows: what is proved of the driver alone holds inside the plugin.
THEOREM UsesDriverTheorem == HardwareSafety => UsesDriver
  <1>1. HardwareInit => DriverInit
    BY DEF HardwareInit
  <1> QED
    BY <1>1, StepUsesDriver, HardwareTypes, PTL DEF HardwareSafety, UsesDriver, DriverSpec

\* The chassis never reports a healthy bus without a socket.
THEOREM HardwareLostSocket == HardwareSafety => []LostSocketIsUnhealthy
  BY UsesDriverTheorem, LostSocketTheorem, PTL DEF UsesDriver

-----------------------------------------------------------------------------
(* The activation.                                                         *)

\* Inductive: an activation in progress has heard the joints it has passed, a
\* driver with a receive thread stays in place until the component is inactive
\* again, and only an active component runs on_deactivate().
ActiveInv ==
  /\ op.name = "deactivate" => lifecycle = "active"
  /\ op.name = "write" => lifecycle \in {"inactive", "active"}
  /\ op.name = "activate" =>
       /\ lifecycle = "inactive" /\ driver /\ rx # "off"
       /\ \A j \in 1 .. op.joint - 1 : Joints[j] \in valid
  /\ ActiveMeansHeard

\* A step of the driver that neither creates nor destroys it only adds to what
\* the session holds.
LEMMA SessionGrows ==
  ASSUME DriverTypeOK,
         \/ \E f \in Frames : Send(f)
         \/ WriteFrame \/ Resend \/ SendStep \/ Receive \/ Interface \/ UNCHANGED driverVars
  PROVE  driver' = driver /\ (rx # "off" => rx' # "off") /\ valid \subseteq valid'
  <1>1. CASE \E f \in Frames : Send(f)
    BY <1>1 DEF Send
  <1>2. CASE WriteFrame \/ Resend
    BY <1>2 DEF WriteFrame, Resend
  <1>3. CASE SendStep
    BY <1>3 DEF SendStep, WriteBusy, WriteNoSocket, WriteError, ResetInterface,
                SetupSocket, SetupFails
  <1>4. CASE Receive
    BY <1>4 DEF Receive, RxPoll, RxMiss, RxRead
  <1>5. CASE Interface \/ UNCHANGED driverVars
    BY <1>5 DEF Interface, Unplug, LinkChanges, driverVars
  <1> QED
    BY <1>1, <1>2, <1>3, <1>4, <1>5

LEMMA ActiveStep ==
  ASSUME HardwareTypeOK, HardwareTypeOK', ActiveInv, [HardwareNext]_vars
  PROVE  ActiveInv'
  <1> USE DEF ActiveInv, ActiveMeansHeard
  <1>0. op \in OpType /\ valid' \subseteq Motors
    BY DEF HardwareTypeOK, OpType, DriverTypeOK
  <1>1. CASE Configure
    BY <1>1 DEF Configure, driverVars, Free, Idle
  <1>2. CASE Activate
    <2>1. CASE sock' = "none"
      BY <1>2, <2>1 DEF Activate, NoOp
    <2>2. CASE sock' # "none"
      <3>1. driver' /\ rx' # "off"
        BY <1>2, <2>2 DEF Activate, Create
      <3>2. op' = [NoOp EXCEPT !.name = "activate", !.zero = FALSE] /\ lifecycle' = "inactive"
        BY <1>2, <2>2 DEF Activate, Begin
      <3>3. op'.name = "activate" /\ op'.joint = 1
        BY <3>2 DEF NoOp
      <3> QED
        BY <1>2, <3>1, <3>2, <3>3 DEF Activate
    <2> QED
      BY <2>1, <2>2
  <1>3. CASE ActivateSend
    <2>1. UNCHANGED <<driver, rx, valid>>
      BY <1>3 DEF ActivateSend, Send
    <2>2. op'.name = op.name /\ op'.joint = op.joint
      BY <1>0, <1>3 DEF ActivateSend, OpType
    <2> QED
      BY <1>3, <2>1, <2>2 DEF ActivateSend
  <1>4. CASE ActivateVerify
    <2>1. UNCHANGED <<driver, rx, valid, measured>>
      BY <1>4 DEF ActivateVerify, driverVars
    <2>2. CASE Answered
      <3>1. op'.name = op.name /\ op'.joint = op.joint + 1 /\ lifecycle' = lifecycle
        BY <1>0, <1>4, <2>2 DEF ActivateVerify, OpType
      <3>2. \A j \in 1 .. op'.joint - 1 : j \in 1 .. op.joint - 1 \/ j = op.joint
        BY <1>0, <3>1 DEF OpType
      <3> QED
        BY <1>4, <2>1, <2>2, <3>1, <3>2 DEF ActivateVerify, Answered, Joint
    <2>3. CASE ~Answered /\ ~LastAttempt
      <3>1. op' = [op EXCEPT !.attempt = @ + 1, !.step = 1] /\ lifecycle' = lifecycle
        BY <1>4, <2>3 DEF ActivateVerify
      <3>2. op'.name = op.name /\ op'.joint = op.joint
        BY <1>0, <3>1 DEF OpType
      <3> QED
        BY <1>4, <2>1, <3>1, <3>2 DEF ActivateVerify
    <2>4. CASE ~Answered /\ LastAttempt
      BY <1>4, <2>1, <2>4 DEF ActivateVerify, NoOp
    <2> QED
      BY <2>2, <2>3, <2>4
  <1>5. CASE ActivateDone
    <2>1. UNCHANGED <<driver, rx, valid, measured>>
      BY <1>5 DEF ActivateDone, driverVars
    <2>2. op.joint - 1 = Len(Joints)
      BY <1>0, <1>5, JointsLength DEF ActivateDone, More, OpType
    <2>3. Motors \subseteq valid
      BY <1>5, <2>2, HardwareAssumption DEF HardwareAssumption, ActivateDone
    <2> QED
      BY <1>0, <1>5, <2>1, <2>3 DEF ActivateDone, NoOp
  <1>6. CASE Deactivate
    <2>1. UNCHANGED <<driver, rx, valid, measured, lifecycle>>
      BY <1>6 DEF Deactivate, driverVars
    <2>2. \/ op'.name = "deactivate" /\ lifecycle = "active"
          \/ op'.name = "shutdown"
      BY <1>6 DEF Deactivate, Begin, NoOp
    <2> QED
      BY <2>1, <2>2
  <1>7. CASE DisableNext \/ WriteNext
    <2>1. UNCHANGED <<driver, rx, valid, measured, lifecycle>>
      BY <1>7 DEF DisableNext, WriteNext, Send
    <2>2. op'.name = op.name /\ op.name # "activate"
      BY <1>0, <1>7 DEF DisableNext, WriteNext, OpType
    <2> QED
      BY <2>1, <2>2
  <1>8. CASE DeactivateDone \/ WriteDone
    <2>1. UNCHANGED <<driver, rx, valid, measured>>
      BY <1>8 DEF DeactivateDone, WriteDone, driverVars
    <2>2. op'.name = "none" /\ (lifecycle' = "active" => lifecycle = "active")
      BY <1>8 DEF DeactivateDone, WriteDone, NoOp
    <2> QED
      BY <2>1, <2>2
  <1>9. CASE Cleanup
    BY <1>9 DEF Cleanup, Free
  <1>10. CASE Read
    BY <1>10 DEF Read, Cycled, Free, driverVars
  <1>11. CASE Command
    BY <1>11 DEF Command, Cycled, Free, driverVars
  <1>12. CASE Write
    <2>1. UNCHANGED <<driver, rx, valid, measured>> /\ lifecycle \in {"inactive", "active"}
      BY <1>12 DEF Write, Cycled, driverVars
    <2>2. \/ op'.name = "write" /\ lifecycle' = lifecycle
          \/ op'.name = "none" /\ lifecycle' = "unconfigured"
      BY <1>12 DEF Write, Cycled, Begin, NoOp, Free
    <2> QED
      BY <2>1, <2>2
  <1>13. CASE FrameOut \/ FrameFails \/ Environment
    <2>1. driver' = driver /\ (rx # "off" => rx' # "off") /\ valid \subseteq valid'
      BY <1>13, SessionGrows DEF FrameOut, FrameFails, Environment, HardwareTypeOK
    <2>2. UNCHANGED <<lifecycle, op, measured>>
      BY <1>13 DEF FrameOut, FrameFails, Environment, hardwareVars
    <2> QED
      BY <1>0, <2>1, <2>2
  <1>14. CASE HardwareTick \/ UNCHANGED vars
    BY <1>14 DEF HardwareTick, vars, driverVars, hardwareVars
  <1> QED
    BY <1>1, <1>2, <1>3, <1>4, <1>5, <1>6, <1>7, <1>8, <1>9, <1>10, <1>11,
       <1>12, <1>13, <1>14 DEF HardwareNext, Control

LEMMA ActiveInvariant == HardwareSafety => []ActiveInv
  <1>1. HardwareInit => ActiveInv
    BY DEF HardwareInit, ActiveInv, ActiveMeansHeard, NoOp
  <1> QED
    BY <1>1, ActiveStep, HardwareTypes, PTL DEF HardwareSafety

\* While the component is active, its driver exists, the receive thread runs and
\* every motor has answered it: read() never meets a null driver or skips a joint.
THEOREM ActiveMeansHeardTheorem == HardwareSafety => []ActiveMeansHeard
  BY ActiveInvariant, PTL DEF ActiveInv

\* While the component is active, read() updates the state interfaces of all the
\* joints: every motor has an entry in the cache of the present driver.
THEOREM ActiveReadsAllTheorem == HardwareSafety => ActiveReadsAll
  <1>1. ASSUME HardwareTypeOK, ActiveInv, [HardwareNext]_vars
        PROVE  [lifecycle = "active" /\ measured' # measured => measured' = Motors]_vars
    <2>1. CASE Read
      BY <1>1, <2>1 DEF Read, ActiveInv, ActiveMeansHeard, HardwareTypeOK
    <2>2. CASE \/ Configure \/ Activate \/ Deactivate \/ Cleanup \/ Command \/ Write
               \/ WriteNext \/ WriteDone \/ ActivateSend \/ ActivateVerify \/ ActivateDone
      BY <2>2 DEF Configure, Activate, Deactivate, Cleanup, Command, Write, WriteNext,
           WriteDone, ActivateSend, ActivateVerify, ActivateDone
    <2>3. CASE \/ DisableNext \/ DeactivateDone \/ FrameOut \/ FrameFails \/ Environment
               \/ HardwareTick \/ UNCHANGED vars
      BY <2>3 DEF DisableNext, DeactivateDone, FrameOut, FrameFails, Environment,
           HardwareTick, vars, hardwareVars
    <2> QED
      BY <1>1, <2>1, <2>2, <2>3 DEF HardwareNext, Control
  <1> QED
    BY <1>1, HardwareTypes, ActiveInvariant, PTL DEF HardwareSafety, ActiveReadsAll

-----------------------------------------------------------------------------
(* The frames in flight.                                                   *)

\* Who the frame of the sendFrame() in progress is for, and what it asks.
InFlight ==
  /\ op.name = "none" => Idle
  /\ op.name = "activate" /\ ~Idle =>
       /\ More /\ op.step \in 2 .. Verify
       /\ call.frame.to = Joint /\ call.frame.kind = Steps[op.step - 1]
  /\ op.name \in {"deactivate", "shutdown"} /\ ~Idle =>
       /\ op.joint \in 2 .. Len(Joints) + 1
       /\ call.frame.to = Joints[op.joint - 1] /\ call.frame.kind = "stop"
  /\ op.name = "write" /\ ~Idle => call.frame.kind = "motion"

\* on_activate on a clean bus: the motors passed are on, and so is the present
\* one from its enable frame to its next attempt.
EnabledSoFar ==
  op.name = "activate" =>
    /\ \A j \in 1 .. op.joint - 1 : Joints[j] \in on
    /\ op.step >= 5 \/ (op.step = 4 /\ Idle) => Joint \in on

\* on_deactivate and on_shutdown on a clean bus.
DisabledSoFar ==
  op.name \in {"deactivate", "shutdown"} =>
    \A j \in 1 .. op.joint - 1 : (j < op.joint - 1 \/ Idle) => Joints[j] \notin on

AllEnabled == lifecycle = "active" /\ op.name \in {"none", "write"} => on = Motors

\* Inductive: as long as no frame of the present driver was lost, the motors are
\* where the callback in progress has brought them.
CleanInv ==
  /\ InFlight
  /\ lifecycle = "finalized" => op.name = "none"
  /\ clean => driver /\ EnabledSoFar /\ DisabledSoFar /\ AllEnabled
              /\ (lifecycle = "finalized" => on = {})

LEMMA SendStepKeepsFrame ==
  ASSUME DriverTypeOK, SendStep
  PROVE  ~Idle /\ (~Idle' => call'.frame = call.frame)
  <1>0. /\ call \in [phase : Phases, frame : Frames, tries : 0 .. MaxRetries + SetupAttempts]
        /\ NoCall.phase = "idle"
    BY DEF DriverTypeOK, NoCall
  <1>1. CASE WriteBusy
    BY <1>0, <1>1 DEF WriteBusy, Return, Idle
  <1>2. CASE WriteNoSocket
    BY <1>0, <1>2 DEF WriteNoSocket, Return, Idle
  <1>3. CASE WriteError
    BY <1>0, <1>3 DEF WriteError, Return, Idle
  <1>4. CASE ResetInterface
    BY <1>0, <1>4 DEF ResetInterface, Idle
  <1>5. CASE SetupSocket
    BY <1>0, <1>5 DEF SetupSocket, Idle
  <1>6. CASE SetupFails
    BY <1>0, <1>6 DEF SetupFails, Return, Idle
  <1> QED
    BY <1>1, <1>2, <1>3, <1>4, <1>5, <1>6 DEF SendStep

LEMMA FrameReturns ==
  ASSUME WriteFrame \/ Resend
  PROVE  ~Idle /\ Idle'
  BY DEF WriteFrame, Resend, Return, NoCall, Idle

LEMMA SentFrame ==
  ASSUME NEW f, Send(f)
  PROVE  Idle /\ ~Idle' /\ call'.frame = f /\ driver /\ driver' = driver
  BY DEF Send, Idle

LEMMA OthersKeepCall ==
  ASSUME Receive \/ Interface \/ UNCHANGED driverVars
  PROVE  call' = call
  BY DEF Receive, RxPoll, RxMiss, RxRead, Interface, Unplug, LinkChanges, driverVars

LEMMA InFlightStep ==
  ASSUME HardwareTypeOK, HardwareTypeOK', InFlight, [HardwareNext]_vars
  PROVE  InFlight'
  <1> USE DEF InFlight
  <1>0. op \in OpType /\ op' \in OpType
    BY DEF HardwareTypeOK, OpType
  <1>1. CASE Activate
    <2>1. call' = call /\ Idle
      BY <1>1 DEF Activate, Create
    <2> QED
      BY <1>1, <2>1 DEF Idle
  <1>2. CASE ActivateSend
    <2> DEFINE f == [to |-> Joint, kind |-> Steps[op.step], vel |-> Stopped]
    <2>1. Send(f) /\ op.name = "activate" /\ More
      BY <1>2 DEF ActivateSend
    <2>2. call'.frame = f
      BY <2>1, SentFrame
    <2>3. op' = [op EXCEPT !.step = @ + 1] /\ op.step \in 1 .. Verify - 1
      BY <1>0, <1>2, StepKinds DEF ActivateSend, OpType
    <2>4. op'.name = "activate" /\ op'.joint = op.joint /\ op'.step = op.step + 1
      BY <1>0, <2>1, <2>3 DEF OpType
    <2>5. op'.step \in 2 .. Verify /\ op'.step - 1 = op.step
      BY <2>3, <2>4, StepKinds
    <2>6. call'.frame.to = Joint' /\ call'.frame.kind = Steps[op'.step - 1] /\ More'
      BY <2>1, <2>2, <2>4, <2>5 DEF Joint, More
    <2> QED
      BY <2>4, <2>5, <2>6
  <1>3. CASE DisableNext
    <2> DEFINE f == [to |-> Joint, kind |-> "stop", vel |-> Stopped]
    <2>1. Send(f) /\ op.name \in {"deactivate", "shutdown"} /\ More
      BY <1>3 DEF DisableNext
    <2>2. call'.frame = f
      BY <2>1, SentFrame
    <2>3. op'.name = op.name /\ op'.joint = op.joint + 1
      BY <1>0, <1>3 DEF DisableNext, OpType
    <2>4. op'.joint \in 2 .. Len(Joints) + 1 /\ op'.joint - 1 = op.joint
      BY <1>0, <2>3, JointsLength DEF OpType
    <2>5. call'.frame.to = Joints[op'.joint - 1] /\ call'.frame.kind = "stop"
      BY <2>2, <2>4 DEF Joint
    <2> QED
      BY <2>1, <2>3, <2>4, <2>5
  <1>4. CASE WriteNext
    <2> DEFINE f == [to |-> Joint, kind |-> "motion", vel |-> Commanded]
    <2>1. Send(f) /\ op.name = "write"
      BY <1>4 DEF WriteNext
    <2>2. call'.frame.kind = "motion"
      BY <2>1, SentFrame
    <2>3. op'.name = "write"
      BY <1>0, <1>4, <2>1 DEF WriteNext, OpType
    <2> QED
      BY <2>2, <2>3
  <1>5. CASE FrameOut
    <2>1. Idle'
      BY <1>5, FrameReturns DEF FrameOut
    <2> QED
      BY <2>1
  <1>6. CASE FrameFails
    <2>1. ~Idle /\ (~Idle' => call'.frame = call.frame)
      BY <1>6, SendStepKeepsFrame DEF FrameFails, HardwareTypeOK
    <2>2. op' = op
      BY <1>6 DEF FrameFails
    <2> QED
      BY <2>1, <2>2 DEF Joint, More
  <1>7. CASE \/ Configure \/ Deactivate \/ Cleanup \/ Read \/ Command \/ Write
             \/ WriteDone \/ ActivateVerify \/ ActivateDone \/ DeactivateDone
    <2>1. call' = call /\ Idle
      BY <1>7 DEF Configure, Deactivate, Cleanup, Destroy, Read, Command, Write, Cycled, WriteDone,
           ActivateVerify, ActivateDone, DeactivateDone, Free, driverVars
    <2> QED
      BY <2>1 DEF Idle
  <1>8. CASE Environment \/ HardwareTick \/ UNCHANGED vars
    <2>1. call' = call /\ op' = op
      BY <1>8, OthersKeepCall DEF Environment, HardwareTick, vars, hardwareVars
    <2> QED
      BY <2>1 DEF Idle, Joint, More
  <1> QED
    BY <1>1, <1>2, <1>3, <1>4, <1>5, <1>6, <1>7, <1>8 DEF HardwareNext, Control

\* The part of CleanInv that says where the motors are.
CleanState ==
  clean => driver /\ EnabledSoFar /\ DisabledSoFar /\ AllEnabled
           /\ (lifecycle = "finalized" => on = {})

\* A frame that reached its motor leaves it where the callback wants it.
LEMMA DeliveredStep ==
  ASSUME HardwareTypeOK, ActiveInv, CleanInv, FrameOut
  PROVE  CleanState'
  <1>0. op \in OpType /\ Idle' /\ ~Idle
    BY FrameReturns DEF HardwareTypeOK, OpType, FrameOut
  <1>1. UNCHANGED <<lifecycle, op, driver>>
    BY DEF FrameOut, WriteFrame, Resend
  <1>2. CASE ~clean'
    BY <1>2 DEF CleanState
  <1>3. CASE clean'
    <2>1. clean /\ Delivered(call.frame)
      BY <1>3 DEF FrameOut, Lost, Delivered
    <2>2. driver /\ EnabledSoFar /\ DisabledSoFar /\ AllEnabled /\ op.name # "none"
          /\ lifecycle # "finalized" /\ InFlight
      BY <1>0, <2>1 DEF CleanInv, InFlight
    <2>3. CASE op.name = "activate"
      <3>1. /\ op.step \in 2 .. Verify /\ op.joint \in 1 .. Len(Joints) /\ lifecycle = "inactive"
            /\ call.frame.to = Joint /\ call.frame.kind = Steps[op.step - 1]
        BY <1>0, <2>2, <2>3 DEF InFlight, More, OpType, ActiveInv
      <3>2. \A j \in 1 .. op.joint - 1 : Joints[j] # Joint
        <4>1. \A j \in 1 .. op.joint - 1 : j \in 1 .. Len(Joints) /\ j # op.joint
          BY <3>1, JointsLength
        <4> QED
          BY <3>1, <4>1, HardwareAssumption DEF HardwareAssumption, Joint
      <3>3. \A j \in 1 .. op.joint - 1 : Joints[j] \in on'
        BY <2>1, <2>2, <2>3, <3>1, <3>2 DEF Delivered, EnabledSoFar
      <3>4. op.step \in {4, 5, 6} => Joint \in on'
        <4>1. CASE op.step = 4
          BY <2>1, <3>1, <4>1, StepKinds DEF Delivered
        <4>2. CASE op.step \in {5, 6}
          <5>1. call.frame.kind \in {"limit", "motion"}
            BY <3>1, <4>2, StepKinds
          <5>2. on' = on
            BY <2>1, <5>1 DEF Delivered
          <5> QED
            BY <2>2, <2>3, <4>2, <5>2 DEF EnabledSoFar
        <4> QED
          BY <4>1, <4>2
      <3>5. EnabledSoFar'
        BY <1>1, <3>1, <3>3, <3>4, StepKinds DEF EnabledSoFar, Joint
      <3> QED
        BY <1>1, <2>2, <2>3, <3>1, <3>5 DEF CleanState, DisabledSoFar, AllEnabled
    <2>4. CASE op.name \in {"deactivate", "shutdown"}
      <3>1. /\ op.joint \in 2 .. Len(Joints) + 1
            /\ call.frame.to = Joints[op.joint - 1] /\ call.frame.kind = "stop"
        BY <1>0, <2>2, <2>4 DEF InFlight
      <3>2. on' = on \ {Joints[op.joint - 1]}
        BY <2>1, <3>1 DEF Delivered
      <3>3. \A j \in 1 .. op.joint - 1 : Joints[j] \notin on'
        BY <2>2, <2>4, <3>1, <3>2 DEF DisabledSoFar
      <3> QED
        BY <1>1, <2>2, <2>4, <3>3 DEF CleanState, DisabledSoFar, EnabledSoFar, AllEnabled
    <2>5. CASE op.name = "write"
      <3>1. on' = on
        BY <1>0, <2>1, <2>2, <2>5 DEF InFlight, Delivered
      <3> QED
        BY <1>1, <2>2, <2>5, <3>1 DEF CleanState, DisabledSoFar, EnabledSoFar, AllEnabled
    <2> QED
      BY <1>0, <2>2, <2>3, <2>4, <2>5 DEF OpType
  <1> QED
    BY <1>2, <1>3

LEMMA CleanStep ==
  ASSUME HardwareTypeOK, HardwareTypeOK', ActiveInv, CleanInv, [HardwareNext]_vars
  PROVE  CleanInv'
  <1>0. /\ op \in OpType /\ op' \in OpType /\ on \subseteq Motors
        /\ InFlight /\ CleanState /\ (lifecycle = "finalized" => op.name = "none")
    BY DEF HardwareTypeOK, OpType, CleanInv, CleanState
  <1>a. InFlight'
    BY <1>0, InFlightStep
  <1>b. (lifecycle = "finalized" => op.name = "none")'
    <2>1. CASE Configure \/ Cleanup \/ Read \/ Command
      BY <1>0, <2>1 DEF Configure, Cleanup, Read, Command, Cycled
    <2>2. CASE Activate \/ Deactivate \/ Write
      BY <2>2 DEF Activate, Deactivate, Write, Cycled, Begin, NoOp
    <2>3. CASE ActivateSend \/ ActivateVerify \/ DisableNext \/ WriteNext
      BY <1>0, <2>3 DEF ActivateSend, ActivateVerify, DisableNext, WriteNext, NoOp
    <2>4. CASE ActivateDone \/ DeactivateDone \/ WriteDone
      BY <2>4 DEF ActivateDone, DeactivateDone, WriteDone, NoOp
    <2>5. CASE FrameOut \/ FrameFails \/ Environment \/ HardwareTick \/ UNCHANGED vars
      BY <1>0, <2>5 DEF FrameOut, FrameFails, Environment, HardwareTick, vars, hardwareVars
    <2> QED
      BY <2>1, <2>2, <2>3, <2>4, <2>5 DEF HardwareNext, Control
  <1>c. CleanState'
    <2> USE DEF CleanState, EnabledSoFar, DisabledSoFar, AllEnabled
    <2>1. CASE Configure \/ Read \/ Command
      <3>1. /\ op' = op /\ op.name = "none" /\ UNCHANGED <<driver, on, clean>>
            /\ (lifecycle' # lifecycle => lifecycle' = "inactive")
        BY <2>1 DEF Configure, Read, Command, Cycled, Free, driverVars
      <3> QED
        BY <1>0, <3>1
    <2>2. CASE Activate
      <3>1. driver' /\ lifecycle' \notin {"active", "finalized"}
        BY <2>2 DEF Activate, Create
      <3>2. op'.name \in {"none", "activate"} /\ op'.joint = 1 /\ op'.step = 1
        <4>1. op' = NoOp \/ op' = [NoOp EXCEPT !.name = "activate", !.zero = FALSE]
          BY <2>2 DEF Activate, Begin
        <4>2. CASE op' = NoOp
          BY <4>2 DEF NoOp
        <4>3. CASE op' = [NoOp EXCEPT !.name = "activate", !.zero = FALSE]
          BY <4>3 DEF NoOp
        <4> QED
          BY <4>1, <4>2, <4>3
      <3> QED
        BY <3>1, <3>2
    <2>3. CASE ActivateSend
      <3>1. op.name = "activate" /\ op.step < Verify /\ Idle /\ ~Idle' /\ driver' = driver
            /\ op' = [op EXCEPT !.step = @ + 1] /\ UNCHANGED <<lifecycle, on, clean>>
        BY <2>3, SentFrame DEF ActivateSend
      <3>2. op'.name = "activate" /\ op'.joint = op.joint /\ op'.step = op.step + 1
        BY <1>0, <3>1 DEF OpType
      <3>3. op'.step >= 5 => op.step \in Nat /\ op.step >= 4
        BY <1>0, <3>2, StepKinds DEF OpType
      <3>4. op.step >= 4 => op.step = 4 \/ op.step >= 5
        BY <1>0, StepKinds DEF OpType
      <3>5. clean' => EnabledSoFar'
        BY <1>0, <3>1, <3>2, <3>3, <3>4 DEF Joint
      <3> QED
        BY <1>0, <3>1, <3>2, <3>5, StepKinds DEF ActiveInv
    <2>4. CASE ActivateVerify
      <3>1. op.name = "activate" /\ op.step = 6 /\ UNCHANGED <<driver, on, clean, call>>
        BY <2>4, StepKinds DEF ActivateVerify, driverVars
      <3>2. CASE op' = [op EXCEPT !.joint = @ + 1, !.attempt = 1, !.step = 1]
                 /\ UNCHANGED lifecycle
        <4>1. op'.name = "activate" /\ op'.joint = op.joint + 1 /\ op'.step = 1
          BY <1>0, <3>1, <3>2 DEF OpType
        <4>2. \A j \in 1 .. op'.joint - 1 : j \in 1 .. op.joint - 1 \/ j = op.joint
          BY <1>0, <4>1 DEF OpType
        <4> QED
          BY <1>0, <3>1, <3>2, <4>1, <4>2 DEF Joint, ActiveInv
      <3>3. CASE op' = [op EXCEPT !.attempt = @ + 1, !.step = 1] /\ UNCHANGED lifecycle
        <4>1. op'.name = "activate" /\ op'.joint = op.joint /\ op'.step = 1
          BY <1>0, <3>1, <3>3 DEF OpType
        <4> QED
          BY <1>0, <3>1, <3>3, <4>1 DEF ActiveInv
      <3>4. CASE op' = NoOp /\ lifecycle' = "unconfigured"
        BY <1>0, <3>1, <3>4 DEF NoOp
      <3> QED
        BY <2>4, <3>2, <3>3, <3>4 DEF ActivateVerify
    <2>5. CASE ActivateDone
      <3>1. op.joint - 1 = Len(Joints)
        BY <1>0, <2>5, JointsLength DEF ActivateDone, More, OpType
      <3>2. UNCHANGED <<driver, on, clean>> /\ op.name = "activate"
            /\ op'.name = "none" /\ lifecycle' = "active"
        BY <2>5 DEF ActivateDone, NoOp, driverVars
      <3>3. clean => Motors \subseteq on
        BY <1>0, <3>1, <3>2, HardwareAssumption DEF HardwareAssumption
      <3> QED
        BY <1>0, <3>2, <3>3
    <2>6. CASE Deactivate
      <3>1. UNCHANGED <<driver, on, clean, lifecycle>> /\ lifecycle # "finalized"
        BY <2>6 DEF Deactivate, driverVars
      <3>2. op'.name \in {"deactivate", "shutdown"} /\ op'.joint = 1
        BY <2>6 DEF Deactivate, Begin, NoOp
      <3> QED
        BY <1>0, <3>1, <3>2
    <2>7. CASE DisableNext
      <3>1. op.name \in {"deactivate", "shutdown"} /\ Idle /\ ~Idle' /\ driver' = driver
            /\ UNCHANGED <<lifecycle, on, clean>>
        BY <2>7, SentFrame DEF DisableNext
      <3>2. op'.name = op.name /\ op'.joint = op.joint + 1
        BY <1>0, <2>7 DEF DisableNext, OpType
      <3>3. \A j \in 1 .. op'.joint - 1 : j < op'.joint - 1 => j \in 1 .. op.joint - 1
        BY <1>0, <3>2 DEF OpType
      <3> QED
        BY <1>0, <3>1, <3>2, <3>3
    <2>8. CASE DeactivateDone
      <3>1. UNCHANGED <<driver, on, clean>> /\ Idle /\ (clean => ~More)
            /\ op.name \in {"deactivate", "shutdown"}
            /\ op'.name = "none" /\ lifecycle' \in {"inactive", "finalized"}
        BY <1>0, <2>8 DEF DeactivateDone, NoOp, driverVars
      <3>2. clean => op.joint - 1 = Len(Joints)
        BY <1>0, <3>1, JointsLength DEF More, OpType
      <3>3. clean => \A j \in 1 .. Len(Joints) : Joints[j] \notin on
        BY <1>0, <3>1, <3>2
      <3>4. clean => on = {}
        BY <1>0, <3>3, HardwareAssumption DEF HardwareAssumption
      <3> QED
        BY <1>0, <3>1, <3>4
    <2>9. CASE Cleanup
      BY <2>9 DEF Cleanup
    <2>10. CASE Write
      <3>1. UNCHANGED <<driver, on, clean>> /\ op.name = "none"
        BY <2>10 DEF Write, Cycled, Free, driverVars
      <3>2. \/ op'.name = "write" /\ lifecycle' = lifecycle /\ lifecycle # "finalized"
            \/ op'.name = "none" /\ lifecycle' = "unconfigured"
        BY <2>10 DEF Write, Cycled, Begin, NoOp, Free
      <3> QED
        BY <1>0, <3>1, <3>2
    <2>11. CASE WriteNext
      <3>1. op.name = "write" /\ driver' = driver /\ UNCHANGED <<lifecycle, on, clean>>
        BY <2>11, SentFrame DEF WriteNext
      <3>2. op'.name = "write"
        BY <1>0, <2>11, <3>1 DEF WriteNext, OpType
      <3> QED
        BY <1>0, <3>1, <3>2
    <2>12. CASE WriteDone
      <3>1. UNCHANGED <<driver, on, clean, lifecycle>> /\ op.name = "write" /\ op'.name = "none"
        BY <2>12 DEF WriteDone, NoOp, driverVars
      <3> QED
        BY <1>0, <3>1
    <2>13. CASE FrameOut
      BY <2>13, DeliveredStep
    <2>14. CASE FrameFails
      <3>1. driver' = driver /\ ~Idle /\ UNCHANGED <<lifecycle, op, on>>
            /\ (clean' => clean /\ ~Idle')
        BY <2>14, SendStepKeepsFrame, SessionGrows DEF FrameFails, HardwareTypeOK, Idle
      <3> QED
        BY <1>0, <3>1 DEF Joint
    <2>15. CASE Environment
      <3>1. driver' = driver /\ call' = call /\ UNCHANGED <<lifecycle, op, on, clean>>
        BY <2>15, SessionGrows, OthersKeepCall DEF Environment, hardwareVars, HardwareTypeOK
      <3> QED
        BY <1>0, <3>1 DEF Joint, Idle
    <2>16. CASE HardwareTick \/ UNCHANGED vars
      <3>1. driver' = driver /\ call' = call /\ UNCHANGED <<lifecycle, op, on, clean>>
        BY <2>16 DEF HardwareTick, vars, driverVars, hardwareVars
      <3> QED
        BY <1>0, <3>1 DEF Joint, Idle
    <2> QED
      BY <2>1, <2>2, <2>3, <2>4, <2>5, <2>6, <2>7, <2>8, <2>9, <2>10, <2>11, <2>12,
         <2>13, <2>14, <2>15, <2>16 DEF HardwareNext, Control
  <1> QED
    BY <1>a, <1>b, <1>c DEF CleanInv, CleanState

LEMMA CleanInvariant == HardwareSafety => []CleanInv
  <1>1. HardwareInit => CleanInv
    BY DEF HardwareInit, DriverInit, CleanInv, InFlight, NoOp, NoCall, Idle
  <1>2. HardwareSafety => [](HardwareTypeOK /\ ActiveInv)
    BY HardwareTypes, ActiveInvariant, PTL
  <1> QED
    BY <1>1, <1>2, CleanStep, PTL DEF HardwareSafety

\* With no frame lost, an active chassis has every motor enabled and a shut-down
\* one has none: on_activate's steps, the retries of sendFrame() and the
\* reconnects in between leave no motor behind.
THEOREM ObeyedTheorem == HardwareSafety => []ObeyedOnCleanBus
  <1>1. CleanInv => ObeyedOnCleanBus
    BY DEF CleanInv, ObeyedOnCleanBus, DisabledSoFar, AllEnabled
  <1> QED
    BY <1>1, CleanInvariant, PTL

-----------------------------------------------------------------------------
(* The write() cycle during an outage.                                     *)

\* Inductive: a cycle that began on an unhealthy bus has only zero commands in
\* flight, whatever sendFrame() does with them.
ZeroInv == op.zero /\ ~Idle => call.frame.vel = Stopped

LEMMA ZeroStep ==
  ASSUME HardwareTypeOK, ZeroInv, [HardwareNext]_vars
  PROVE  ZeroInv'
  <1> USE DEF ZeroInv
  <1>0. op \in OpType
    BY DEF HardwareTypeOK, OpType
  <1>1. CASE ActivateSend
    <2>1. call'.frame = [to |-> Joint, kind |-> Steps[op.step], vel |-> Stopped]
      BY <1>1, SentFrame DEF ActivateSend
    <2> QED
      BY <2>1
  <1>2. CASE DisableNext
    <2>1. call'.frame = [to |-> Joint, kind |-> "stop", vel |-> Stopped]
      BY <1>2, SentFrame DEF DisableNext
    <2> QED
      BY <2>1
  <1>3. CASE WriteNext
    <2>1. call'.frame = [to |-> Joint, kind |-> "motion", vel |-> Commanded]
      BY <1>3, SentFrame DEF WriteNext
    <2>2. op'.zero = op.zero
      BY <1>0, <1>3 DEF WriteNext, OpType
    <2> QED
      BY <2>1, <2>2 DEF Commanded
  <1>4. CASE FrameOut
    BY <1>4, FrameReturns DEF FrameOut
  <1>5. CASE FrameFails
    BY <1>5, SendStepKeepsFrame DEF FrameFails, HardwareTypeOK
  <1>6. CASE \/ Configure \/ Activate \/ Deactivate \/ Cleanup \/ Read \/ Command \/ Write
             \/ WriteDone \/ ActivateVerify \/ ActivateDone \/ DeactivateDone
    <2>1. call' = call /\ Idle
      BY <1>6 DEF Configure, Activate, Create, Deactivate, Cleanup, Destroy, Read, Command,
           Write, Cycled, WriteDone, ActivateVerify, ActivateDone, DeactivateDone, Free, driverVars
    <2> QED
      BY <2>1 DEF Idle
  <1>7. CASE Environment \/ HardwareTick \/ UNCHANGED vars
    <2>1. call' = call /\ op' = op
      BY <1>7, OthersKeepCall DEF Environment, HardwareTick, vars, hardwareVars
    <2> QED
      BY <2>1 DEF Idle
  <1> QED
    BY <1>1, <1>2, <1>3, <1>4, <1>5, <1>6, <1>7 DEF HardwareNext, Control

LEMMA SpeedStep ==
  ASSUME HardwareTypeOK, ZeroInv, op.zero, [HardwareNext]_vars, NEW m \in Motors
  PROVE  speed'[m] \in {speed[m], Stopped}
  <1>1. CASE FrameOut
    <2>1. call.frame.vel = Stopped
      BY <1>1, FrameReturns DEF FrameOut, ZeroInv
    <2>2. CASE Delivered(call.frame)
      BY <2>1, <2>2 DEF Delivered, HardwareTypeOK
    <2> QED
      BY <1>1, <2>2 DEF FrameOut, Lost
  <1>2. CASE ~FrameOut
    <2>1. speed' = speed
      BY <1>2 DEF HardwareNext, Control, Configure, Activate, Deactivate, Cleanup, Read, Command,
           ActivateSend, ActivateVerify, ActivateDone, DisableNext, DeactivateDone, Write,
           WriteNext, WriteDone, FrameFails, Environment, HardwareTick, vars, hardwareVars
    <2> QED
      BY <2>1
  <1> QED
    BY <1>1, <1>2

\* A write() that found the bus unhealthy makes no motor faster, even when
\* reconnect() brings the socket back between two of its frames.
THEOREM NoSpeedUpTheorem == HardwareSafety => NoSpeedUpInOutage
  <1>1. HardwareInit => ZeroInv
    BY DEF HardwareInit, DriverInit, ZeroInv, NoCall, Idle
  <1>2. HardwareTypeOK /\ ZeroInv /\ [HardwareNext]_vars
          => [op.zero => \A m \in Motors : speed'[m] \in {speed[m], Stopped}]_vars
    BY SpeedStep
  <1> QED
    BY <1>1, <1>2, ZeroStep, HardwareTypes, PTL DEF HardwareSafety, NoSpeedUpInOutage
===============================================================================
