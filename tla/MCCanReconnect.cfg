CONSTANTS
  Motors = {m1, m2}
  Velocities = {zero}
  Stopped = zero
  FailThreshold = 3
  MaxRetries = 2
  SetupAttempts = 2
  ReconnectGap = 2
SPECIFICATION DriverSpec
PROPERTY UnhealthySendReconnects
