SPECIFICATION LioSpec
CONSTANTS
  Span = 2
  MaxIniCount = 2
  Horizon = 9
  MaxJumps = 1
  MaxBacklog = 2
INVARIANTS
  PairedUntilLoopBack
  SamplesOnceInOrder
PROPERTIES
  FilterKeepsTime
  OdometryOfItsScan
  EveryScanIsTaken
CHECK_DEADLOCK FALSE
