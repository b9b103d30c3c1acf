--------------------------- MODULE WheelCommands ----------------------------
(***************************************************************************)
(* From the keyboard to the wheels: teleop_keyboard publishes a velocity   *)
(* when it moves and one zero when it stops, omni_kinematics mixes the     *)
(* last velocity into four wheel speeds at every timer period, and stops   *)
(* the wheels when commands cease.  Both send a zero only once, so each of *)
(* them has to know whether the other side has it.                         *)
(*                                                                         *)
(* Time passes in timer periods of omni_kinematics.  A velocity is a       *)
(* triple of forward, left and turning speed; wheel speeds are fractions,  *)
(* in units that make the geometry's factors 1.                            *)
(***************************************************************************)
EXTENDS Integers, Sequences, FiniteSetsExt

CONSTANTS
  Keys,        \* keys in use, of KEY_MAP
  Modes,       \* ways to read the keyboard: "evdev", "termios"
  Speeds,      \* values of lin and ang
  MaxSpeed,    \* max_wheel_speed
  CmdTimeout,  \* cmd_timeout
  KeyTimeout,  \* key_timeout
  Depth        \* history depth of cmd_vel

ASSUME WheelAssumption ==
  /\ Keys \subseteq {"w", "s", "a", "d", "q", "e"} /\ Modes \subseteq {"evdev", "termios"}
  /\ Speeds \subseteq Nat \ {0} /\ Speeds # {} /\ MaxSpeed \in Nat \ {0}
  /\ CmdTimeout \in Nat \ {0} /\ KeyTimeout \in Nat \ {0} /\ Depth \in Nat \ {0}

VARIABLES
  held,       \* keys that are down
  typed,      \* the last character the terminal has for teleop, "" for none
  teleop,     \* "evdev", "termios", or "gone"
  direction,  \* direction of the terminal mode
  keyAge,     \* periods since last_key_time
  moving,     \* moving_flag
  topic,      \* cmd_vel, on its way
  kin,        \* omni_kinematics: "up" or "gone"
  cmd,        \* its cmd
  age,        \* periods since last_cmd_time
  stopped,    \* its stopped
  due,        \* its timer has to run
  wire,       \* wheel commands on their way
  wheels      \* what the wheels do

keyVars == <<held, typed>>
teleopVars == <<teleop, direction, keyAge, moving>>
kinVars == <<kin, cmd, stopped>>
vars == <<keyVars, teleopVars, topic, kinVars, age, due, wire, wheels>>

Axis == 1 .. 3
Still == <<0, 0, 0>>
KeyMap(k) ==
  CASE k = "w" -> <<1, 0, 0>> [] k = "s" -> <<-1, 0, 0>>
    [] k = "a" -> <<0, 1, 0>> [] k = "d" -> <<0, -1, 0>>
    [] k = "q" -> <<0, 0, 1>> [] k = "e" -> <<0, 0, -1>>

\* Opposite keys cancel each other.
Pulled(keys, i, way) == IF \E k \in keys : KeyMap(k)[i] = way THEN 1 ELSE 0
Direction(keys) == [i \in Axis |-> Pulled(keys, i, 1) - Pulled(keys, i, -1)]

Abs(x) == IF x >= 0 THEN x ELSE -x
\* A wheel speed of n / d.
Over(n, d) == <<n, d>>
Raw(v) == <<v[1] - v[2] - v[3], v[1] + v[2] + v[3], v[1] + v[2] - v[3], v[1] - v[2] + v[3]>>
Dirs == <<-1, 1, -1, 1>>
Peak(w) == Max({Abs(w[i]) : i \in 1 .. 4})

\* mix: four speeds, all scaled down if one is too large.
Mix(v) ==
  LET peak == Peak(Raw(v))
  IN [i \in 1 .. 4 |-> IF peak > MaxSpeed THEN Over(Raw(v)[i] * Dirs[i] * MaxSpeed, peak)
                       ELSE Over(Raw(v)[i] * Dirs[i], 1)]
\* All four speeds are zero.
Standing(w) == \A i \in 1 .. 4 : w[i][1] = 0

Init ==
  /\ held = {} /\ typed = ""
  /\ teleop \in Modes /\ direction = Still /\ keyAge = KeyTimeout + 1
  /\ moving = FALSE
  /\ topic = <<>>
  /\ kin = "up" /\ cmd = Still /\ age = 0 /\ stopped = TRUE /\ due = FALSE
  /\ wire = <<>> /\ wheels = Mix(Still)

-----------------------------------------------------------------------------
(* The keyboard: what the kernel and the terminal do.                      *)

\* Only the terminal mode reads what is typed.
Type(ch) == typed' = IF teleop = "termios" THEN ch ELSE ""
Press(k) == k \notin held /\ held' = held \cup {k} /\ Type(k)
Repeat(k) == k \in held /\ UNCHANGED held /\ Type(k)
Release(k) == k \in held /\ held' = held \ {k} /\ UNCHANGED typed
Space == UNCHANGED held /\ Type(" ")

Keyboard ==
  /\ teleop # "gone"
  /\ (\E k \in Keys : Press(k) \/ Repeat(k) \/ Release(k)) \/ Space
  /\ UNCHANGED <<teleopVars, topic, kinVars, age, due, wire, wheels>>

-----------------------------------------------------------------------------
(* teleop_keyboard.                                                        *)

\* The topic keeps the last few messages.
Sent(v) == topic' = IF Len(topic) = Depth THEN Append(Tail(topic), v) ELSE Append(topic, v)

\* publish: a zero is sent once.  lin and ang may have been adjusted before it.
Publish(d) ==
  IF d = Still /\ ~moving THEN UNCHANGED <<topic, moving>>
  ELSE (\E s \in Speeds : Sent([i \in Axis |-> d[i] * s])) /\ moving' = (d # Still)

\* run_evdev: one turn of its loop, after all events have been read.
RunEvdev ==
  /\ teleop = "evdev"
  /\ Publish(Direction(held))
  /\ UNCHANGED <<typed, direction, keyAge>>

\* What a turn of run_termios makes of the character it reads; a space sets
\* last_key_time to zero.
ReadKey ==
  /\ typed' = ""
  /\ keyAge' = IF typed = "" THEN keyAge ELSE IF typed = " " THEN KeyTimeout + 1 ELSE 0
Steered == IF typed \in Keys THEN KeyMap(typed) ELSE direction

\* Mutant: the age of the key is not looked at.
RunTermios_NoTimeout ==
  /\ teleop = "termios"
  /\ ReadKey
  /\ direction' = IF typed = " " THEN Still ELSE Steered
  /\ Publish(direction')

RunTermios ==
  /\ teleop = "termios"
  /\ ReadKey
  /\ direction' = IF keyAge' > KeyTimeout THEN Still ELSE Steered
  /\ Publish(direction')

Teleop ==
  /\ RunEvdev \/ RunTermios
  /\ UNCHANGED <<held, teleop, kinVars, age, due, wire, wheels>>

\* Its end, the loop's variables with it; the zero is lost when it is killed, or
\* ROS is shut down before it.
TeleopEnds ==
  /\ teleop # "gone" /\ teleop' = "gone"
  /\ direction' = Still /\ keyAge' = KeyTimeout + 1 /\ moving' = FALSE /\ typed' = ""
  /\ Sent(Still) \/ UNCHANGED topic
  /\ UNCHANGED <<held, kinVars, age, due, wire, wheels>>

-----------------------------------------------------------------------------
(* omni_kinematics and the wheels.                                         *)

OnCmd ==
  /\ kin = "up" /\ topic # <<>>
  /\ cmd' = Head(topic) /\ age' = 0
  /\ topic' = Tail(topic)
  /\ UNCHANGED <<keyVars, teleopVars, kin, stopped, due, wire, wheels>>

\* Mutant: once stopped, nothing is published.
OnTimer_StopsForGood ==
  /\ kin = "up" /\ due
  /\ due' = FALSE
  /\ LET v == IF age > CmdTimeout THEN Still ELSE cmd
     IN IF v = Still THEN stopped' = TRUE /\ UNCHANGED wire
        ELSE wire' = Append(wire, Mix(v)) /\ stopped' = FALSE
  /\ UNCHANGED <<keyVars, teleopVars, topic, kin, cmd, age, wheels>>

\* Mutant: the age of the command is not looked at.
OnTimer_NoWatchdog ==
  /\ kin = "up" /\ due
  /\ due' = FALSE
  /\ IF cmd = Still /\ stopped THEN UNCHANGED <<wire, stopped>>
     ELSE wire' = Append(wire, Mix(cmd)) /\ stopped' = (cmd = Still)
  /\ UNCHANGED <<keyVars, teleopVars, topic, kin, cmd, age, wheels>>

OnTimer ==
  /\ kin = "up" /\ due
  /\ due' = FALSE
  /\ LET v == IF age > CmdTimeout THEN Still ELSE cmd
     IN IF v = Still /\ stopped THEN UNCHANGED <<wire, stopped>>
        ELSE wire' = Append(wire, Mix(v)) /\ stopped' = (v = Still)
  /\ UNCHANGED <<keyVars, teleopVars, topic, kin, cmd, age, wheels>>

\* Its end; the last zero is best effort.
KinEnds ==
  /\ kin = "up" /\ kin' = "gone"
  /\ wire' = Append(wire, Mix(Still)) \/ UNCHANGED wire
  /\ UNCHANGED <<keyVars, teleopVars, topic, cmd, stopped, age, due, wheels>>

Deliver ==
  /\ wire # <<>>
  /\ wheels' = Head(wire) /\ wire' = Tail(wire)
  /\ UNCHANGED <<keyVars, teleopVars, topic, kinVars, age, due>>

\* A period passes: the timer has run, and what it sent has arrived.
Tick ==
  /\ kin = "gone" \/ ~due
  /\ wire = <<>>
  /\ due' = TRUE
  /\ age' = Min({age + 1, CmdTimeout + 2})
  /\ keyAge' = Min({keyAge + 1, KeyTimeout + 1})
  /\ UNCHANGED <<keyVars, teleop, direction, moving, topic, kinVars, wire, wheels>>

Next ==
  \/ Keyboard \/ Teleop \/ TeleopEnds
  \/ OnCmd \/ OnTimer \/ KinEnds \/ Deliver \/ Tick

\* The nodes run, messages arrive, time passes.
Spec ==
  /\ Init /\ [][Next]_vars
  /\ WF_vars(Teleop) /\ WF_vars(OnCmd) /\ WF_vars(OnTimer \/ Deliver \/ Tick)
-----------------------------------------------------------------------------

Velocities == [Axis -> {d * s : d \in -1 .. 1, s \in Speeds}]

WithinLimit(w) == \A i \in 1 .. 4 : Abs(w[i][1]) <= MaxSpeed * w[i][2]

\* Every variable keeps its type, and no wheel is told more than max_wheel_speed,
\* whichever way it turns.
WheelTypeOK ==
  /\ held \subseteq Keys /\ typed \in Keys \cup {"", " "}
  /\ teleop \in Modes \cup {"gone"} /\ kin \in {"up", "gone"}
  /\ direction \in [Axis -> -1 .. 1] /\ keyAge \in 0 .. KeyTimeout + 1
  /\ moving \in BOOLEAN
  /\ topic \in Seq(Velocities) /\ Len(topic) <= Depth
  /\ cmd \in Velocities /\ age \in 0 .. CmdTimeout + 2
  /\ stopped \in BOOLEAN /\ due \in BOOLEAN
  /\ Len(wire) <= 2 /\ WithinLimit(wheels)

\* The watchdog: one period after commands have ceased for cmd_timeout the
\* wheels stand, whatever the last command was and whether or not its sender
\* still lives.
WatchdogStops == kin = "up" /\ age > CmdTimeout + 1 => Standing(wheels)

\* What the wheels have been told last.
LastTold == IF wire = <<>> THEN wheels ELSE wire[Len(wire)]

\* stopped is why no more zeros are sent; it is up exactly when the last thing
\* the wheels have been told is to stand.
StoppedIsTold == kin = "up" => (stopped <=> Standing(LastTold))

\* Once every key is up the wheels come to stand, in either mode, although
\* only one zero is sent for it.
ReleaseStops == held = {} ~> Standing(wheels) \/ held # {} \/ kin = "gone"

\* When the teleoperation is gone, with or without a last word, the wheels stop
\* for good.
GoneStops == teleop = "gone" ~> kin = "gone" \/ [](Standing(wheels) \/ kin = "gone")
=============================================================================
