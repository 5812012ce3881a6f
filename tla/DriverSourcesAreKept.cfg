SPECIFICATION Spec
CONSTANTS
  Path = {"p", "q"}
  OutPath = "out"
  CommandLines <- FilesOnly
INVARIANT
  SourcesAreKept
CHECK_DEADLOCK FALSE
