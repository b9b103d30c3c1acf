SPECIFICATION Spec
CONSTANTS
  DeletePercent = 50
  BalancePercent = 60
  MinimalUnbalanced = 2
  CellSize = 2
  MultiThreadPoints = 4
  Initial <- MCInitial
  Calls <- MCCalls
  Queries <- MCQueries
  MaxCalls = 3
INVARIANTS
  RebuildTypeOK
  SwapMissesNothing
PROPERTY
  TargetStays
CHECK_DEADLOCK FALSE
