CONSTANTS
  NPAGES = 5
  UINT_PAGES = 8
  MAX_PAGES_INFO = 3
  MAX_SWAP_PAGES = 2
  SWAPFILE_PAGES = 2
  Policy = "FIFO"
  Proc = {p1}
  Started = {p1}
  Frame = {f1, f2, f3}
  NoFrame = NoFrame
  initproc = initproc
  Image = {"sh"}
  Boot = "sh"
  Text <- MCText
  Data <- MCData
  Ragged <- NoRagged
  StackPage <- MCStackPage
  Val = {1}
  Calls = {"sbrk_lazy"}
  Menus = {{"touch", "sbrk_lazy"}}
  Accesses = {"read", "write"}
  MAX_SEQ = 5
SPECIFICATION MenuSpec
SYMMETRY FrameSymmetry
PROPERTIES
  ImplementsUserMemory
CHECK_DEADLOCK FALSE
