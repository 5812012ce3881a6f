SPECIFICATION Spec
CONSTANTS
  Name = {"a", "b"}
  Trees <- AllTrees
  Programs <- AllPrograms
  MaxErrors = 3
  MaxChoices = 4
INVARIANTS
  TypeOK
  StateIsAlive
  LexicalScoping
  TerminatedOnceCleaned
  WellFormedOnceCleaned
  AccessesAreLive
  ExecutesLikeSource
CHECK_DEADLOCK FALSE
