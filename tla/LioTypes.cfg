SPECIFICATION LioSafety
CONSTANTS
  Span = 2
  MaxIniCount = 2
  Horizon = 9
  MaxJumps = 1
  MaxBacklog = 2
INVARIANT
  LioTypeOK
CHECK_DEADLOCK FALSE
