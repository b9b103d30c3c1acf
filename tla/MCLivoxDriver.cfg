SPECIFICATION Spec
CONSTANTS
  Lidars <- MCLidars
  ConfigFile <- MCConfigFile
  Options <- MCOptions
  Synchronised <- MCSynchronised
  MaxSourceLidar = 2
  MaxReports = 1
  PacketQueueSize = 2
  IndexSpace = 4
  MaxRaw = 1
INVARIANTS
  RingIsFifo
  NoLostWakeup
  SamplingMeansConfigured
PROPERTIES
  FramesPublished
  ExitEnds
CHECK_DEADLOCK FALSE
