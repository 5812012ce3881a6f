SPECIFICATION FairSpec
CONSTANTS
  Path = {"p", "q"}
  OutPath = "out"
  CommandLines <- AllCommandLines
INVARIANTS
  TypeOK
  OptionsMeanWhatTheySay
  TestsHaveTheirOutput
PROPERTIES
  ImplementsCompiler
  EndsUnlessParserStalls
CHECK_DEADLOCK FALSE
