SPECIFICATION FairSpec
CONSTANTS
  Char = {"sp", "nl", "/", "0", "1", "x", "a", "+", "?"}
  MaxLen = 5
  NumberModulus = 100
INVARIANTS
  TypeOK
  SpansOrdered
  NoTokenFromComment
  LineOfToken
  MatchesReference
PROPERTY
  Termination
CHECK_DEADLOCK FALSE
