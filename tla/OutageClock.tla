----------------------------- MODULE OutageClock -----------------------------
(***************************************************************************)
(* OmniHardware with a clock that measures how long the bus has really     *)
(* been unhealthy: started when consecutive_fail_count_ reaches the        *)
(* threshold, stopped when it is reset.                                    *)
(***************************************************************************)
EXTENDS MCOmniHardware

VARIABLE outage   \* history: ticks of the present outage; Never on a healthy bus

ClockInit == HardwareInit /\ outage = Never

Later == IF outage \in 0 .. GiveUpAfter /\ HardwareTick THEN outage + 1 ELSE outage

ClockNext ==
  /\ HardwareNext
  /\ outage' = CASE fails' < FailThreshold -> Never
                 [] fails' >= FailThreshold /\ outage = Never -> 0
                 [] OTHER -> Later

ClockSpec == ClockInit /\ [][ClockNext]_<<vars, outage>>

GaveUp == lifecycle = "active" /\ op.name = "none" /\ lifecycle' = "unconfigured"

\* The claim of write(): it gives up "only when CAN has been disconnected for
\* more than 30 seconds".  Its timer is started once per process and never
\* stopped, so that a later outage is given no time at all.
GivesUpAfterLongOutage == [][GaveUp => outage > GiveUpAfter]_<<vars, outage>>
=============================================================================
