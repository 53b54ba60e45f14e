CONSTANTS
  NPAGES = 4
  UINT_PAGES = 8
  MAX_PAGES_INFO = 2
  MAX_SWAP_PAGES = 1
  SWAPFILE_PAGES = 1
  Policy = "FIFO"
  Proc = {1, 2}
  Started = {1, 2}
  Frame = {1, 2, 3, 4, 5, 6}
  NoFrame = NoFrame
  initproc = 0
  Image = {"sh"}
  Boot = "sh"
  Text <- MCText
  Data <- MCData
  Ragged <- NoRagged
  StackPage <- MCStackPage
  Val = {}
  Calls = {"fork", "exit", "wait", "kill"}
  Menus = {{"touch", "kill"}, {"store_once", "fork", "exit"}, {"fork", "exit", "wait", "kill"}}
  Accesses = {"read", "write"}
  MAX_SEQ = 2
SPECIFICATION NumberedFairSpec
INVARIANTS
  FramesExclusive FramesNotLost
PROPERTIES
  FaultsFinish
  KilledDies
CHECK_DEADLOCK FALSE
