---------------------------- MODULE WheelProofs -----------------------------
(***************************************************************************)
(* Proofs about WheelCommands for any keys, speeds, limits and timeouts:   *)
(* wheel commands stay within the limit, "stopped" is what the wheels were *)
(* told, and the watchdog stops them in time.                              *)
(***************************************************************************)
EXTENDS WheelCommands, SequenceTheorems, TLAPS

\* What a wheel command may be.
Limited == {w \in [1 .. 4 -> Int \X Int] : WithinLimit(w)}

LEMMA MinOfTwo ==
  ASSUME NEW a \in Int, NEW b \in Int
  PROVE  Min({a, b}) = IF a <= b THEN a ELSE b
  <1> DEFINE m == IF a <= b THEN a ELSE b
  <1>1. m \in {a, b} /\ \A y \in {a, b} : m <= y
    OBVIOUS
  <1>2. \A x \in {a, b} : (\A y \in {a, b} : x <= y) => x = m
    OBVIOUS
  <1> QED
    BY <1>1, <1>2 DEF Min

LEMMA MaxOfFour ==
  ASSUME NEW f \in [1 .. 4 -> Int]
  PROVE  LET m == Max({f[i] : i \in 1 .. 4})
         IN m \in Int /\ (\A i \in 1 .. 4 : f[i] <= m) /\ \E i \in 1 .. 4 : f[i] = m
  <1> DEFINE S == {f[1], f[2], f[3], f[4]}
             x == IF f[1] >= f[2] THEN f[1] ELSE f[2]
             y == IF f[3] >= f[4] THEN f[3] ELSE f[4]
             z == IF x >= y THEN x ELSE y
  <1>1. {f[i] : i \in 1 .. 4} = S
    OBVIOUS
  <1>2. f[1] \in Int /\ f[2] \in Int /\ f[3] \in Int /\ f[4] \in Int
    OBVIOUS
  <1>3. z \in S /\ \A s \in S : z >= s
    BY <1>2
  <1>4. Max(S) \in S /\ \A s \in S : Max(S) >= s
    BY <1>3 DEF Max
  <1> QED
    BY <1>1, <1>2, <1>4

LEMMA SpeedsType ==
  /\ Velocities \subseteq [Axis -> Int]
  /\ Still \in Velocities
  <1>1. \A s \in Speeds : s \in Int
    BY WheelAssumption DEF WheelAssumption
  <1>2. PICK s \in Speeds : s \in Int
    BY <1>1, WheelAssumption DEF WheelAssumption
  <1>3. 0 \in {d * r : d \in -1 .. 1, r \in Speeds}
    <2>1. 0 * s = 0 /\ 0 \in -1 .. 1
      BY <1>2
    <2> QED
      BY <2>1, <1>2
  <1>4. Still \in [Axis -> {d * r : d \in -1 .. 1, r \in Speeds}]
    BY <1>3 DEF Still, Axis
  <1>5. {d * r : d \in -1 .. 1, r \in Speeds} \subseteq Int
    BY <1>1
  <1> QED
    BY <1>4, <1>5 DEF Velocities

LEMMA Scaling ==
  ASSUME NEW a \in Int, NEW p \in Int, NEW m \in Nat, NEW d \in {-1, 1}, Abs(a) <= p
  PROVE  Abs(a * d * m) <= m * p
  <1>1. a * d * m \in Int /\ Abs(a * d) = Abs(a) /\ Abs(a) \in Nat /\ a * d \in Int
    BY DEF Abs
  <1>2. Abs(a * d * m) = Abs(a) * m
    <2>1. CASE a * d >= 0
      <3>1. (a * d) * m >= 0
        BY <2>1, <1>1, SMT
      <3>2. Abs(a) = a * d
        BY <2>1, <1>1 DEF Abs
      <3> QED
        BY <3>1, <3>2, <1>1 DEF Abs
    <2>2. CASE a * d < 0
      <3>1. (a * d) * m <= 0
        BY <2>2, <1>1, SMT
      <3>2. Abs(a) = -(a * d)
        BY <2>2, <1>1 DEF Abs
      <3>3. (-(a * d)) * m = -((a * d) * m)
        BY <1>1, SMT
      <3> QED
        BY <3>1, <3>2, <3>3, <1>1 DEF Abs
    <2> QED
      BY <2>1, <2>2, <1>1
  <1>3. Abs(a) * m <= p * m
    BY <1>1, SMT
  <1> QED
    BY <1>2, <1>3

\* mix keeps every wheel within the limit and stands still for a zero only.
LEMMA MixIsLimited ==
  ASSUME NEW v \in [Axis -> Int]
  PROVE  Mix(v) \in Limited /\ (Standing(Mix(v)) <=> v = Still)
  <1> DEFINE w == Raw(v)
             peak == Peak(w)
  <1>1. v[1] \in Int /\ v[2] \in Int /\ v[3] \in Int
    BY DEF Axis
  <1>2. w \in [1 .. 4 -> Int]
    BY <1>1 DEF Raw
  <1>3. Dirs \in [1 .. 4 -> {-1, 1}]
    BY DEF Dirs
  <1>4. MaxSpeed \in Nat /\ MaxSpeed # 0
    BY WheelAssumption DEF WheelAssumption
  <1>5. peak \in Int /\ \A i \in 1 .. 4 : Abs(w[i]) <= peak
    <2> DEFINE f == [i \in 1 .. 4 |-> Abs(w[i])]
    <2>1. f \in [1 .. 4 -> Int]
      BY <1>2 DEF Abs
    <2>2. peak = Max({f[i] : i \in 1 .. 4})
      BY DEF Peak
    <2> QED
      BY <2>1, <2>2, MaxOfFour
  <1>6. \A i \in 1 .. 4 : w[i] * Dirs[i] \in Int /\ (w[i] * Dirs[i] = 0 <=> w[i] = 0)
    BY <1>2, <1>3
  <1>7. ASSUME NEW i \in 1 .. 4
        PROVE  /\ Mix(v)[i] \in Int \X Int
               /\ Abs(Mix(v)[i][1]) <= MaxSpeed * Mix(v)[i][2]
               /\ Mix(v)[i][1] = 0 <=> w[i] = 0
    <2>1. CASE peak > MaxSpeed
      <3>1. Mix(v)[i] = <<w[i] * Dirs[i] * MaxSpeed, peak>>
        BY <2>1 DEF Mix, Over
      <3>2. w[i] \in Int /\ Dirs[i] \in {-1, 1} /\ Abs(w[i]) <= peak
        BY <1>2, <1>3, <1>5
      <3>3. Abs(w[i] * Dirs[i] * MaxSpeed) <= MaxSpeed * peak
        BY <3>2, <1>4, <1>5, Scaling
      <3>4. w[i] * Dirs[i] * MaxSpeed \in Int
        BY <1>4, <1>6
      <3>5. w[i] * Dirs[i] * MaxSpeed = 0 <=> w[i] * Dirs[i] = 0
        BY <1>4, <1>6, SMT
      <3> QED
        BY <3>1, <3>3, <3>4, <3>5, <1>5, <1>6
    <2>2. CASE ~(peak > MaxSpeed)
      <3>1. Mix(v)[i] = <<w[i] * Dirs[i], 1>>
        BY <2>2 DEF Mix, Over
      <3>2. Abs(w[i] * Dirs[i]) = Abs(w[i])
        BY <1>2, <1>3 DEF Abs
      <3>3. Abs(w[i] * Dirs[i]) <= MaxSpeed * 1
        <4>1. peak <= MaxSpeed /\ MaxSpeed * 1 = MaxSpeed /\ Abs(w[i]) \in Int
          BY <2>2, <1>2, <1>4, <1>5 DEF Abs
        <4> HIDE DEF w, peak
        <4> QED
          BY <3>2, <4>1, <1>4, <1>5
      <3>4. <<w[i] * Dirs[i], 1>>[1] = w[i] * Dirs[i] /\ <<w[i] * Dirs[i], 1>>[2] = 1
        OBVIOUS
      <3> HIDE DEF w, peak
      <3> QED
        BY <3>1, <3>3, <3>4, <1>6
    <2> QED
      BY <2>1, <2>2
  <1>8. Mix(v) \in [1 .. 4 -> Int \X Int]
    <2>1. Mix(v) = [i \in 1 .. 4 |-> Mix(v)[i]]
      BY DEF Mix
    <2> QED
      BY <2>1, <1>7
  <1>9. Standing(Mix(v)) <=> v = Still
    <2>1. Standing(Mix(v)) <=> \A i \in 1 .. 4 : w[i] = 0
      BY <1>7 DEF Standing
    <2>2. (\A i \in 1 .. 4 : w[i] = 0) <=> v[1] = 0 /\ v[2] = 0 /\ v[3] = 0
      <3>1. (\A i \in 1 .. 4 : w[i] = 0)
              <=> w[1] = 0 /\ w[2] = 0 /\ w[3] = 0 /\ w[4] = 0
        OBVIOUS
      <3>2. /\ w[1] = v[1] - v[2] - v[3] /\ w[2] = v[1] + v[2] + v[3]
            /\ w[3] = v[1] + v[2] - v[3] /\ w[4] = v[1] - v[2] + v[3]
        BY DEF Raw
      <3>3. v[1] - v[2] - v[3] = 0 /\ v[1] + v[2] + v[3] = 0 /\ v[1] + v[2] - v[3] = 0
              => v[1] = 0 /\ v[2] = 0 /\ v[3] = 0
        <4>1. \A a, b, c \in Int : a - b - c = 0 /\ a + b + c = 0 /\ a + b - c = 0
                                   => a = 0 /\ b = 0 /\ c = 0
          OBVIOUS
        <4> QED
          BY <1>1, <4>1
      <3> HIDE DEF w
      <3> QED
        BY <3>1, <3>2, <3>3, <1>1
    <2>3. v = Still <=> v[1] = 0 /\ v[2] = 0 /\ v[3] = 0
      <3>1. Still \in [Axis -> Int] /\ Still[1] = 0 /\ Still[2] = 0 /\ Still[3] = 0
        BY DEF Still, Axis
      <3> QED
        BY <3>1 DEF Axis
    <2> QED
      BY <2>1, <2>2, <2>3
  <1> QED
    BY <1>7, <1>8, <1>9 DEF Limited, WithinLimit

LEMMA DirectionType ==
  ASSUME NEW keys
  PROVE  Direction(keys) \in [Axis -> -1 .. 1]
  BY DEF Direction, Pulled

LEMMA KeyMapType ==
  ASSUME NEW k \in Keys
  PROVE  KeyMap(k) \in [Axis -> -1 .. 1]
  BY WheelAssumption DEF WheelAssumption, KeyMap, Axis
-----------------------------------------------------------------------------

\* What keeps the types: also the commands on their way are limited.
TypeInv ==
  /\ WheelTypeOK
  /\ wire \in Seq(Limited) /\ wheels \in Limited
  /\ kin = "up" => Len(wire) <= 1 /\ (due => wire = <<>>)

LEMMA SentType ==
  ASSUME WheelTypeOK, NEW v \in Velocities, Sent(v)
  PROVE  topic' \in Seq(Velocities) /\ Len(topic') <= Depth
  <1>1. topic \in Seq(Velocities) /\ Len(topic) <= Depth /\ Depth \in Nat \ {0}
    BY WheelAssumption DEF WheelTypeOK, WheelAssumption
  <1>2. CASE Len(topic) = Depth
    <2>1. Tail(topic) \in Seq(Velocities) /\ Len(Tail(topic)) = Depth - 1
      BY <1>1, <1>2
    <2> QED
      BY <2>1, <1>1, <1>2 DEF Sent
  <1>3. CASE Len(topic) # Depth
    BY <1>1, <1>3 DEF Sent
  <1> QED
    BY <1>2, <1>3

LEMMA PublishType ==
  ASSUME WheelTypeOK, NEW d \in [Axis -> -1 .. 1], Publish(d)
  PROVE  topic' \in Seq(Velocities) /\ Len(topic') <= Depth /\ moving' \in BOOLEAN
  <1>1. CASE d = Still /\ ~moving
    BY <1>1 DEF Publish, WheelTypeOK
  <1>2. CASE ~(d = Still /\ ~moving)
    <2>1. PICK s \in Speeds : Sent([i \in Axis |-> d[i] * s])
      BY <1>2 DEF Publish
    <2>2. [i \in Axis |-> d[i] * s] \in Velocities
      BY DEF Velocities
    <2>3. moving' \in BOOLEAN
      BY <1>2 DEF Publish
    <2> QED
      BY <2>1, <2>2, <2>3, SentType
  <1> QED
    BY <1>1, <1>2

LEMMA StillIsLimited == Mix(Still) \in Limited /\ Standing(Mix(Still))
  BY SpeedsType, MixIsLimited

LEMMA TypeInit == Init => TypeInv
  <1> SUFFICES ASSUME Init PROVE TypeInv
    OBVIOUS
  <1>1. Still \in [Axis -> -1 .. 1]
    BY DEF Still, Axis
  <1>2. /\ KeyTimeout + 1 \in 0 .. KeyTimeout + 1 /\ 0 \in 0 .. CmdTimeout + 2
        /\ Depth \in Nat
    BY WheelAssumption DEF WheelAssumption
  <1>3. topic = <<>> /\ wire = <<>> /\ wheels = Mix(Still) /\ cmd = Still
    BY DEF Init
  <1>4. topic \in Seq(Velocities) /\ Len(topic) <= Depth
    BY <1>2, <1>3
  <1>5. wire \in Seq(Limited) /\ Len(wire) = 0
    BY <1>3
  <1>6. wheels \in Limited /\ WithinLimit(wheels)
    BY <1>3, StillIsLimited DEF Limited
  <1>7. held \subseteq Keys /\ typed \in Keys \cup {"", " "} /\ teleop \in Modes \cup {"gone"}
          /\ kin \in {"up", "gone"} /\ moving \in BOOLEAN /\ stopped \in BOOLEAN
          /\ due \in BOOLEAN
    BY DEF Init
  <1>8. direction \in [Axis -> -1 .. 1] /\ keyAge \in 0 .. KeyTimeout + 1
          /\ age \in 0 .. CmdTimeout + 2
    BY <1>1, <1>2 DEF Init
  <1> QED
    <2>1. Len(wire) <= 1 /\ Len(wire) <= 2
      BY <1>5
    <2>2. cmd \in Velocities
      BY <1>3, SpeedsType
    <2>3. WheelTypeOK
      BY <1>4, <1>6, <1>7, <1>8, <2>1, <2>2 DEF WheelTypeOK
    <2> QED
      BY <1>3, <1>5, <1>6, <2>1, <2>3 DEF TypeInv

\* What the wheels are sent by a step of omni_kinematics.
LEMMA WireAppend ==
  ASSUME wire \in Seq(Limited), NEW w \in Limited
  PROVE  /\ Append(wire, w) \in Seq(Limited)
         /\ Len(Append(wire, w)) = Len(wire) + 1
         /\ Append(wire, w)[Len(Append(wire, w))] = w
  OBVIOUS

LEMMA TypeStep == TypeInv /\ [Next]_vars => TypeInv'
  <1> SUFFICES ASSUME TypeInv, [Next]_vars PROVE TypeInv'
    OBVIOUS
  <1> USE DEF TypeInv
  <1>1. CASE Keyboard
    BY <1>1 DEF Keyboard, Press, Repeat, Release, Space, Type, WheelTypeOK, teleopVars, kinVars
  <1>2. CASE Teleop
    <2>1. CASE RunEvdev
      BY <1>2, <2>1, DirectionType, PublishType
      DEF Teleop, RunEvdev, WheelTypeOK, kinVars
    <2>2. CASE RunTermios
      <3>1. typed' \in Keys \cup {"", " "} /\ keyAge' \in 0 .. KeyTimeout + 1
        <4>1. 0 \in 0 .. KeyTimeout + 1 /\ KeyTimeout + 1 \in 0 .. KeyTimeout + 1
          BY WheelAssumption DEF WheelAssumption
        <4> QED
          BY <2>2, <4>1 DEF RunTermios, ReadKey, WheelTypeOK
      <3>2. Still \in [Axis -> -1 .. 1]
        BY DEF Still, Axis
      <3>3. direction' \in [Axis -> -1 .. 1]
        BY <2>2, <3>2, KeyMapType DEF RunTermios, Steered, WheelTypeOK
      <3>4. topic' \in Seq(Velocities) /\ Len(topic') <= Depth /\ moving' \in BOOLEAN
        BY <2>2, <3>3, PublishType DEF RunTermios
      <3> QED
        BY <1>2, <3>1, <3>3, <3>4 DEF Teleop, WheelTypeOK, kinVars
    <2> QED
      BY <1>2, <2>1, <2>2 DEF Teleop
  <1>3. CASE TeleopEnds
    <2>1. topic' \in Seq(Velocities) /\ Len(topic') <= Depth
      BY <1>3, SpeedsType, SentType DEF TeleopEnds, WheelTypeOK
    <2>2. Still \in [Axis -> -1 .. 1] /\ KeyTimeout + 1 \in 0 .. KeyTimeout + 1
      BY WheelAssumption DEF Still, Axis, WheelAssumption
    <2> QED
      BY <1>3, <2>1, <2>2 DEF TeleopEnds, WheelTypeOK, kinVars
  <1>4. CASE OnCmd
    <2>1. Head(topic) \in Velocities /\ Tail(topic) \in Seq(Velocities)
            /\ Len(Tail(topic)) <= Depth /\ 0 \in 0 .. CmdTimeout + 2
      <3>1. topic \in Seq(Velocities) /\ topic # <<>> /\ Len(topic) <= Depth
        BY <1>4 DEF OnCmd, WheelTypeOK
      <3>2. Len(Tail(topic)) = Len(topic) - 1
        BY <3>1
      <3> QED
        BY <3>1, <3>2, WheelAssumption DEF WheelAssumption
    <2> QED
      BY <1>4, <2>1 DEF OnCmd, WheelTypeOK, keyVars, teleopVars
  <1>5. CASE OnTimer
    <2> DEFINE v == IF age > CmdTimeout THEN Still ELSE cmd
    <2>1. v \in [Axis -> Int] /\ Mix(v) \in Limited
      BY SpeedsType, MixIsLimited DEF WheelTypeOK
    <2>2. wire = <<>> /\ Len(wire) = 0
      BY <1>5 DEF OnTimer
    <2>3. wire' \in Seq(Limited) /\ Len(wire') <= 1 /\ stopped' \in BOOLEAN
      <3> HIDE DEF v
      <3>1. (v = Still) \in BOOLEAN /\ stopped \in BOOLEAN
        BY DEF WheelTypeOK
      <3>2. CASE v = Still /\ stopped
        BY <1>5, <2>2, <3>1, <3>2 DEF OnTimer, v
      <3>3. CASE ~(v = Still /\ stopped)
        <4>1. wire' = Append(wire, Mix(v)) /\ stopped' = (v = Still)
          BY <1>5, <3>3 DEF OnTimer, v
        <4> QED
          BY <4>1, <3>1, <2>1, <2>2, WireAppend
      <3> QED
        BY <3>2, <3>3
    <2> QED
      <3>1. Len(wire') <= 2
        BY <2>3
      <3>2. WheelTypeOK'
        BY <1>5, <2>3, <3>1 DEF OnTimer, WheelTypeOK, WithinLimit, keyVars, teleopVars
      <3> QED
        BY <1>5, <2>3, <3>2 DEF OnTimer
  <1>6. CASE KinEnds
    <2>1. wire' \in Seq(Limited) /\ Len(wire') <= 2
      BY <1>6, StillIsLimited, WireAppend DEF KinEnds
    <2> QED
      BY <1>6, <2>1 DEF KinEnds, WheelTypeOK, keyVars, teleopVars
  <1>7. CASE Deliver
    <2>1. Head(wire) \in Limited /\ Tail(wire) \in Seq(Limited)
            /\ Len(Tail(wire)) = Len(wire) - 1 /\ Len(wire) \in Nat
      BY <1>7 DEF Deliver
    <2>2. WithinLimit(wheels)'
      BY <1>7, <2>1 DEF Deliver, Limited, WithinLimit
    <2>3. kin = "up" => Tail(wire) = <<>>
      <3>1. kin = "up" => Len(wire) = 1
        BY <1>7, <2>1 DEF Deliver
      <3> QED
        BY <2>1, <3>1
    <2>4. wire' = Tail(wire) /\ wheels' = Head(wire) /\ Len(<<>>) = 0
      BY <1>7 DEF Deliver
    <2>5. Len(wire') <= 2 /\ (kin = "up" => Len(wire') <= 1)
      <3>1. Len(wire) <= 2
        BY DEF WheelTypeOK
      <3> QED
        BY <2>1, <2>3, <2>4, <3>1
    <2> QED
      BY <1>7, <2>1, <2>2, <2>3, <2>4, <2>5 DEF Deliver, WheelTypeOK, keyVars, teleopVars, kinVars
  <1>8. CASE Tick
    <2>1. age' \in 0 .. CmdTimeout + 2
      <3>1. age + 1 \in Nat /\ CmdTimeout + 2 \in Nat
        <4>1. age \in 0 .. CmdTimeout + 2
          BY DEF WheelTypeOK
        <4> QED
          BY <4>1, WheelAssumption DEF WheelAssumption
      <3>2. age' = Min({age + 1, CmdTimeout + 2})
        BY <1>8 DEF Tick
      <3> QED
        BY <3>1, <3>2, MinOfTwo
    <2>2. keyAge' \in 0 .. KeyTimeout + 1
      <3>1. keyAge + 1 \in Nat /\ KeyTimeout + 1 \in Nat
        <4>1. keyAge \in 0 .. KeyTimeout + 1
          BY DEF WheelTypeOK
        <4> QED
          BY <4>1, WheelAssumption DEF WheelAssumption
      <3>2. keyAge' = Min({keyAge + 1, KeyTimeout + 1})
        BY <1>8 DEF Tick
      <3> QED
        BY <3>1, <3>2, MinOfTwo
    <2> QED
      BY <1>8, <2>1, <2>2 DEF Tick, WheelTypeOK, keyVars, teleopVars, kinVars, WithinLimit
  <1>9. CASE UNCHANGED vars
    BY <1>9 DEF vars, WheelTypeOK, keyVars, teleopVars, kinVars, WithinLimit
  <1> QED
    BY <1>1, <1>2, <1>3, <1>4, <1>5, <1>6, <1>7, <1>8, <1>9 DEF Next

\* Whatever keys are pressed and however the programs end, every variable keeps
\* its type and no wheel is told more than max_wheel_speed.
THEOREM TypeCorrect == Spec => []WheelTypeOK
  <1>1. TypeInv => WheelTypeOK
    BY DEF TypeInv
  <1> QED
    BY <1>1, TypeInit, TypeStep, PTL DEF Spec
-----------------------------------------------------------------------------

\* What makes the watchdog work: its zero is not held back, for stopped is up only
\* if the wheels were told to stand, and the timer runs before a period is over.
StopInv ==
  kin = "up" =>
    /\ stopped <=> Standing(LastTold)
    /\ age > CmdTimeout /\ ~due => stopped
    /\ age > CmdTimeout + 1 => stopped /\ wire = <<>>

LEMMA StopInit == Init => StopInv
  <1> SUFFICES ASSUME Init PROVE StopInv
    OBVIOUS
  <1>1. stopped = TRUE /\ wheels = Mix(Still) /\ wire = <<>> /\ age = 0
    BY DEF Init
  <1>2. ~(age > CmdTimeout) /\ ~(age > CmdTimeout + 1)
    BY <1>1, WheelAssumption DEF WheelAssumption
  <1> QED
    BY <1>1, <1>2, StillIsLimited DEF StopInv, LastTold

LEMMA StopStep == TypeInv /\ StopInv /\ [Next]_vars => StopInv'
  <1> SUFFICES ASSUME TypeInv, StopInv, [Next]_vars PROVE StopInv'
    OBVIOUS
  <1>1. CASE UNCHANGED <<kin, stopped, wire, wheels, age, due>>
    BY <1>1 DEF StopInv, LastTold, Standing
  <1>2. CASE OnCmd
    <2>1. age' = 0 /\ ~(age' > CmdTimeout) /\ ~(age' > CmdTimeout + 1)
      BY <1>2, WheelAssumption DEF OnCmd, WheelAssumption
    <2> QED
      BY <1>2, <2>1 DEF OnCmd, StopInv, LastTold, Standing
  <1>3. CASE OnTimer
    <2> DEFINE v == IF age > CmdTimeout THEN Still ELSE cmd
    <2>1. v \in [Axis -> Int]
      BY SpeedsType DEF TypeInv, WheelTypeOK
    <2>2. kin = "up" /\ kin' = "up" /\ due /\ due' = FALSE /\ wire = <<>> /\ age' = age
            /\ wheels' = wheels
      BY <1>3 DEF OnTimer, TypeInv
    <2>3. age > CmdTimeout => v = Still
      OBVIOUS
    <2>4. age > CmdTimeout + 1 => age > CmdTimeout
      <3>1. age \in 0 .. CmdTimeout + 2
        BY DEF TypeInv, WheelTypeOK
      <3> QED
        BY <3>1, WheelAssumption DEF WheelAssumption
    <2>5. stopped \in BOOLEAN /\ wire \in Seq(Limited)
      BY DEF TypeInv, WheelTypeOK
    <2> HIDE DEF v
    <2>6. CASE v = Still /\ stopped
      <3>1. UNCHANGED <<wire, stopped>>
        BY <1>3, <2>6 DEF OnTimer, v
      <3> QED
        BY <2>2, <2>6, <3>1 DEF StopInv, LastTold, Standing
    <2>7. CASE ~(v = Still /\ stopped)
      <3>1. wire' = Append(wire, Mix(v)) /\ stopped' = (v = Still)
        BY <1>3, <2>7 DEF OnTimer, v
      <3>2. Mix(v) \in Limited /\ (Standing(Mix(v)) <=> v = Still)
        BY <2>1, MixIsLimited
      <3>3. wire' # <<>> /\ wire'[Len(wire')] = Mix(v)
        BY <3>1, <3>2, <2>5
      <3>4. LastTold' = Mix(v)
        BY <3>3 DEF LastTold
      <3>5. stopped' <=> Standing(LastTold)'
        BY <3>1, <3>2, <3>4 DEF Standing
      <3>6. age > CmdTimeout + 1 => FALSE
        BY <2>2, <2>3, <2>4, <2>7 DEF StopInv
      <3> QED
        BY <2>2, <2>3, <3>1, <3>5, <3>6 DEF StopInv
    <2> QED
      BY <2>6, <2>7
  <1>4. CASE KinEnds
    BY <1>4 DEF KinEnds, StopInv
  <1>5. CASE Deliver
    <2>1. CASE kin = "up"
      <3>1. wire \in Seq(Limited) /\ wire # <<>> /\ Len(wire) <= 1
        BY <1>5, <2>1 DEF Deliver, TypeInv
      <3>2. Len(wire) = 1 /\ Tail(wire) = <<>> /\ Head(wire) = wire[Len(wire)]
        <4>1. Len(wire) = 1
          BY <3>1, EmptySeq
        <4>2. Tail(wire) \in Seq(Limited) /\ Len(Tail(wire)) = 0
          BY <3>1, <4>1
        <4>3. Tail(wire) = <<>>
          BY <4>2, EmptySeq
        <4>4. Head(wire) = wire[1]
          BY <3>1
        <4> QED
          BY <4>1, <4>3, <4>4
      <3>3. LastTold' = LastTold
        BY <1>5, <3>2 DEF Deliver, LastTold
      <3> QED
        BY <1>5, <2>1, <3>2, <3>3 DEF Deliver, StopInv, Standing, kinVars
    <2>2. CASE kin # "up"
      BY <1>5, <2>2 DEF Deliver, StopInv, kinVars
    <2> QED
      BY <2>1, <2>2
  <1>6. CASE Tick
    <2>1. CASE kin = "up"
      <3>1. wire = <<>> /\ ~due /\ due' = TRUE /\ UNCHANGED <<kin, stopped, wire, wheels>>
        BY <1>6, <2>1 DEF Tick, kinVars
      <3>2. age' > CmdTimeout + 1 => age > CmdTimeout
        <4>1. age \in 0 .. CmdTimeout + 2
          BY DEF TypeInv, WheelTypeOK
        <4>2. age' = Min({age + 1, CmdTimeout + 2})
          BY <1>6 DEF Tick
        <4> QED
          BY <4>1, <4>2, MinOfTwo, WheelAssumption DEF WheelAssumption
      <3> QED
        BY <2>1, <3>1, <3>2 DEF StopInv, LastTold, Standing
    <2>2. CASE kin # "up"
      BY <1>6, <2>2 DEF Tick, StopInv, kinVars
    <2> QED
      BY <2>1, <2>2
  <1>7. CASE Keyboard \/ Teleop \/ TeleopEnds \/ UNCHANGED vars
    <2>1. UNCHANGED <<kin, stopped, wire, wheels, age, due>>
      BY <1>7 DEF Keyboard, Teleop, TeleopEnds, vars, kinVars
    <2> QED
      BY <1>1, <2>1
  <1> QED
    BY <1>2, <1>3, <1>4, <1>5, <1>6, <1>7 DEF Next

LEMMA Stopping == Spec => [](TypeInv /\ StopInv)
  BY TypeInit, TypeStep, StopInit, StopStep, PTL DEF Spec

\* omni_kinematics believes the wheels stand exactly when a zero is the last thing
\* it has told them, so that a zero is never held back from turning wheels.
THEOREM StoppedIsToldAlways == Spec => []StoppedIsTold
  <1>1. StopInv => StoppedIsTold
    BY DEF StopInv, StoppedIsTold
  <1> QED
    BY <1>1, Stopping, PTL

\* For any cmd_timeout: one period after it has run out the wheels stand.
THEOREM WatchdogAlways == Spec => []WatchdogStops
  <1>1. StopInv => WatchdogStops
    BY DEF StopInv, WatchdogStops, LastTold
  <1> QED
    BY <1>1, Stopping, PTL
=============================================================================
