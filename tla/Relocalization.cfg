CONSTANTS
  Poses = {0, 1, 2}
  Scores = {20, 30}
  TopK = 3
  DedupDistance = 2
  AmbiguityPercent = 95
  MaxJump = 1
  MaxFailures = 2
  CloudLimit = 1
  MinAccum = 2
  RetryPeriod = 2
  ForceInterval = 2
  QueueDepth = 2
  Nothing = Nothing
SPECIFICATION RelocSpec
INVARIANT OldScansAreFew
PROPERTIES ImplementsMapFrame AcceptedIsClear AlignsAgain LossLeadsToSearch
