CONSTANTS
  Proc = {p1, p2}
  Faulting = {p1}
  Block = {b1, b2, b3, b4}
  Val = {0, 1}
  Zero = 0
  Absent = Absent
  MAXOPBLOCKS = 2
  LOGBLOCKS = 4
  OPWRITES = 1
  MaxOps = 4
  MaxCrashes = 1
SPECIFICATION FairSpec
INVARIANTS
  LogSpaceSuffices
PROPERTIES
  ImplementsTransactions
  BeginsFinish
CHECK_DEADLOCK FALSE
