SPECIFICATION OptimizeSpec
CONSTANTS
  Modules = 3
  MaxRuns = 3
  Unsigned = 8
  IR = {"i", "j", "k", "l"}
INVARIANTS
  OptimizeTypeOK
  UnchangedOrUsedUp
CHECK_DEADLOCK FALSE
