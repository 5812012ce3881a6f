SPECIFICATION Spec
CONSTANTS
  TokenType = {"(", ")", "{", "}", ";", "*", "x", "else"}
  MaxLen = 6
INVARIANTS
  TypeOK
  WrappedCanBeStripped
  MatchesScanResult
CHECK_DEADLOCK FALSE
