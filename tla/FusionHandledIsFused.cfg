SPECIFICATION Spec
CONSTANTS
  Op = {"*", "+", "-"}
  MaxLen = 4
PROPERTY
  HandledIsFused
CHECK_DEADLOCK FALSE
