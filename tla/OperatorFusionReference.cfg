SPECIFICATION Spec
CONSTANTS
  Op = {"*", "/", "+", "-"}
  MaxLen = 7
INVARIANTS
  TypeOK
  OwnedOnce
  ListOwnsItsOperands
  FusesByPrecedence
  FusesAsFolded
CHECK_DEADLOCK FALSE
