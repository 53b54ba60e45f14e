CONSTANTS
  NPAGES = 5
  UINT_PAGES = 8
  MAX_PAGES_INFO = 3
  MAX_SWAP_PAGES = 2
  SWAPFILE_PAGES = 2
  Policy = "CLEANFIFO"
  Proc = {p1}
  Started = {p1}
  Frame = {f1, f2, f3, f4}
  NoFrame = NoFrame
  initproc = initproc
  Image = {"sh"}
  Boot = "sh"
  Text <- MCText
  Data <- MCData
  Ragged <- NoRagged
  StackPage <- MCStackPage
  Val = {1}
  Calls = {"sbrk_lazy", "sbrk_eager", "copyin", "copyout", "exit", "wait", "kill"}
  Menus = {{"touch", "sbrk_lazy", "copyin", "copyout"},
           {"stores_first", "touch", "sbrk_lazy", "sbrk_eager", "copyout", "exit", "wait", "kill"}}
  Accesses = {"read", "write", "exec"}
  MAX_SEQ = 4
SPECIFICATION MenuSpec
SYMMETRY FrameSymmetry
PROPERTIES
  VictimIsOldest
  StoredMemoryKept
CHECK_DEADLOCK FALSE
