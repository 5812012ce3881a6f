SPECIFICATION Spec
CONSTANTS
  Name = {"a", "b"}
  Trees <- AllTrees
  Programs <- AllPrograms
  MaxErrors = 3
  MaxChoices = 4
INVARIANT
  ReturnCompiles
CHECK_DEADLOCK FALSE
