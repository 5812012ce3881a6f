SPECIFICATION Spec
CONSTANTS
  Name = {"a", "b"}
  Inputs <- ForFiles
  MaxErrors = 3
INVARIANT
  ForIsParsed
CHECK_DEADLOCK FALSE
