SPECIFICATION Spec
CONSTANTS
  Name = {"a", "b"}
  Inputs <- InputsAndFiles
  MaxErrors = 3
  BodyToken = {"(", ")", "{", "}", ";", "*", "-", "=", "a", "if", "else", "while", "return", "let", "fn"}
  BodyLen = 3
INVARIANTS
  TypeOK
  IteratorsNested
  EveryErrorIsCaught
  RoundTrip
  BlockEndIsFound
  PrintedTreeLoads
PROPERTY
  EndsUnlessStalled
