SPECIFICATION Spec
CONSTANTS
  DeletePercent = 50
  BalancePercent = 60
  MinimalUnbalanced = 3
  CellSize = 3
INVARIANTS
  Routes
  Clearance
  Overlaps
  Followed
  Scans
  Framed
  Updated
  Kept
CHECK_DEADLOCK FALSE
