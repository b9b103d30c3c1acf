----------------------------- MODULE CanSession -----------------------------
(***************************************************************************)
(* What one RobstrideCanDriver promises of its connection to the bus,      *)
(* whatever its threads and the interface do.  The promise is weaker than  *)
(* the comments of the code suggest: nothing leads out of "lost" except a  *)
(* new driver, and until then the feedback cache is frozen.                *)
(***************************************************************************)
CONSTANT Motors

VARIABLES
  session,  \* "none": no driver, or one whose init() failed
            \* "open": a socket, fewer than CAN_FAIL_THRESHOLD failures in a row
            \* "failing": threshold reached, a reconnect may still succeed
            \* "lost": a reconnect failed and there is no socket any more
  heard     \* the motors that answered in this session

SessionInit == session = "none" /\ heard = {}

\* A new driver object, initialised or not, or the end of the last one.
Begin ==
  /\ session' \in {"none", "open"}
  /\ heard' = {}

Degrade == session = "open" /\ session' = "failing" /\ UNCHANGED heard

\* A frame was written after all, or reconnect() built a new socket.
Recover == session = "failing" /\ session' = "open" /\ UNCHANGED heard

Lose == session = "failing" /\ session' = "lost" /\ UNCHANGED heard

Hear(m) ==
  /\ session \in {"open", "failing"}
  /\ heard' = heard \cup {m}
  /\ UNCHANGED session

SessionNext ==
  Begin \/ Degrade \/ Recover \/ Lose \/ (\E m \in Motors : Hear(m))

SessionSpec == SessionInit /\ [][SessionNext]_<<session, heard>>
=============================================================================
