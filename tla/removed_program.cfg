CONSTANTS
  NINODES = 5
  NBLOCKS = 8
  BSIZE = 2
  NDIRECT = 1
  NINDIRECT = 2
  NINODE = 4
  Proc = {1, 2}
  NFILE = 2
  NOFILE = 2
  SwapName <- Swaps
  Image <- Images
  Menus <- AllMenus
  MaxCalls <- Calls
  MaxCrashes = 0
  WriteCells = 3
  MaxChunk = 2
SPECIFICATION Spec
INVARIANT FreesInTransaction
CHECK_DEADLOCK FALSE
