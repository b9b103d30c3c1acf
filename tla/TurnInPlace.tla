----------------------------- MODULE TurnInPlace -----------------------------
(***************************************************************************)
(* Relocalization with a robot that also turns: whether the odometry shows *)
(* 5 degrees or more since the last registration that was good.            *)
(***************************************************************************)
EXTENDS Relocalization

VARIABLE turned   \* history: rotated that far from the pose of the last good registration

TurnInit == RelocInit /\ turned = FALSE

Turn == turned' = ~turned /\ UNCHANGED vars

\* A registration or a search that records the odometry is a new start.
Remembers == tracked' = 0 /\ (SearchAccepts \/ Align)

TurnNext ==
  \/ Turn
  \/ RelocNext /\ turned' = (turned /\ ~Remembers)

TurnSpec == TurnInit /\ [][TurnNext]_<<vars, turned>>

\* The claim of performRegistration(): a registration is skipped only below
\* 0.3 m and 5 degrees and 10 s.  Only the distance and the time are compared.
SkipsOnlyUnturned == [][TrackSkips => ~turned]_<<vars, turned>>
=============================================================================
