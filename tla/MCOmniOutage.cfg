CONSTANTS
  m1 = m1
  m2 = m2
  fast = fast
  Motors = {m1}
  Joints <- OneJoint
  Velocities = {zero, fast}
  Stopped = zero
  Commands <- DriveCommands
  NotFinite = nan
  FailThreshold = 1
  MaxRetries = 0
  SetupAttempts = 1
  ReconnectGap = 1
  MaxAttempts = 1
  GiveUpAfter = 1
SPECIFICATION HardwareSpec
PROPERTIES UsesDriver LostEndsInError ActivationEnds
