------------------------------ MODULE MapFrame ------------------------------
(***************************************************************************)
(* What gicp_relocalization promises to whoever uses the transform from    *)
(* map to odom: it is either silent or holds one correction.  A search     *)
(* ends the silence with any pose; while it holds one, a correction moves  *)
(* it by at most MaxJump, and whatever moves it farther uses up a message  *)
(* of the operator.  MaxFailures misses in a row, neither more nor fewer,  *)
(* silence it.                                                             *)
(***************************************************************************)
EXTENDS Integers

CONSTANTS Poses, Nothing, MaxJump, MaxFailures, Depth

VARIABLES
  held,     \* the transform being published, or Nothing
  misses,   \* registrations that failed since the last good one
  asked     \* messages of the operator that are not used up, at most Depth

Near(p, q) == p - q <= MaxJump /\ q - p <= MaxJump

FrameInit == held = Nothing /\ misses = 0 /\ asked = 0

Ask == asked < Depth /\ asked' = asked + 1 /\ UNCHANGED <<held, misses>>

\* The operator says where the robot is, in vain or not.
Ignore == asked > 0 /\ asked' = asked - 1 /\ UNCHANGED <<held, misses>>
Place(p) == asked > 0 /\ asked' = asked - 1 /\ held' = p /\ misses' = 0

\* A global search finds the robot.
Find(p) == held = Nothing /\ held' = p /\ misses' = 0 /\ UNCHANGED asked

Correct(p) ==
  /\ held # Nothing /\ Near(held, p)
  /\ held' = p /\ misses' = 0 /\ UNCHANGED asked

Miss ==
  /\ held # Nothing /\ misses + 1 < MaxFailures
  /\ misses' = misses + 1 /\ UNCHANGED <<held, asked>>

GiveUp ==
  /\ held # Nothing /\ misses + 1 = MaxFailures
  /\ held' = Nothing /\ misses' = 0 /\ UNCHANGED asked

FrameNext ==
  \/ Ask \/ Ignore \/ Miss \/ GiveUp
  \/ \E p \in Poses : Place(p) \/ Find(p) \/ Correct(p)

FrameSpec == FrameInit /\ [][FrameNext]_<<held, misses, asked>>
=============================================================================
