CONSTANTS
  m1 = m1
  m2 = m2
  fast = fast
  Motors = {m1}
  Joints <- OneJoint
  Velocities = {zero, fast}
  Stopped = zero
  Commands <- DriveCommands
  NotFinite = nan
  FailThreshold = 2
  MaxRetries = 0
  SetupAttempts = 2
  ReconnectGap = 1
  MaxAttempts = 1
  GiveUpAfter = 2
SPECIFICATION ClockSpec
PROPERTY GivesUpAfterLongOutage
