CONSTANTS
  Word = {"a", "b", "c", "d", "f", "x", "cd"}
  MAXARGS = 3
  NPROC = 6
  NOFILE = 5
  Lines <- Typed
  MaxLines = 2
  Missing = {"x", "cd"}
  HeapEnd = 16
  UnitBytes = 2
  MinCore = 4
  Requests = {1, 3, 8}
  MaxHeapCalls = 8
  GrepBuf = 4
  Patterns <- SomePatterns
  Files <- ShortFiles
  ParseInputs <- ShortLines
  MatchInputs <- ShortMatches
SPECIFICATION Spec
INVARIANTS
  ProgramsConnected
  ListsInOrder
  HeapPartitioned
  PrintsMatchingLines
  ParserMatchesGrammar
  MatcherMatchesMeaning
PROPERTIES
  GrowsOnlyWhenFull
  LinesFinish
CHECK_DEADLOCK FALSE
