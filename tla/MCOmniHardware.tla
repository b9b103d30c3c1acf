--------------------------- MODULE MCOmniHardware ---------------------------
(* OmniHardware on chassis of one and of two motors.                       *)
EXTENDS OmniHardware

CONSTANTS m1, m2, fast

OneJoint == <<m1>>
TwoJoints == <<m1, m2>>

\* A drive command, and one of a controller that divided by zero.
DriveCommands == [Motors -> {fast, NotFinite}]

\* A controller that always drives with all the wheels.
FullSpeed == {[m \in Motors |-> fast]}
=============================================================================
