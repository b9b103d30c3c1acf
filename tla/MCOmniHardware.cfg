CONSTANTS
  m1 = m1
  m2 = m2
  fast = fast
  Motors = {m1, m2}
  Joints <- TwoJoints
  Velocities = {zero, fast}
  Stopped = zero
  Commands <- FullSpeed
  NotFinite = nan
  FailThreshold = 2
  MaxRetries = 0
  SetupAttempts = 1
  ReconnectGap = 1
  MaxAttempts = 2
  GiveUpAfter = 1
SPECIFICATION HardwareSafety
INVARIANTS ActiveMeansHeard ObeyedOnCleanBus
PROPERTY NoSpeedUpInOutage
