CONSTANTS
  Proc = {p1, p2, p3}
  NBUF = 3
  BlockNo = {n1, n2, n3, n4}
  NoBlock = NoBlock
  Val = {0, 1}
  Zero = 0
  NUM = 6
  IDXMOD = 6
  Nobody = Nobody
  MaxCalls = 4
SPECIFICATION Spec
SYMMETRY NameSymmetry
INVARIANTS
  CompletionsMatch
  SleepersWillWake
PROPERTIES
  ImplementsBlockStore
CHECK_DEADLOCK FALSE
