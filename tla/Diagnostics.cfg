SPECIFICATION Spec
CONSTANTS
  MaxCode = 6
  MaxReports = 3
  Surround = 1
  UInt32 = 16
INVARIANTS
  TypeOK
  NothingIsLost
  PrintedInOrder
  RowsAreLines
  ThrowsForTheLastLine
CHECK_DEADLOCK FALSE
