CONSTANTS
  NPAGES = 5
  UINT_PAGES = 8
  MAX_PAGES_INFO = 2
  MAX_SWAP_PAGES = 2
  SWAPFILE_PAGES = 2
  Policy = "FIFO"
  Proc = {p1}
  Started = {p1}
  Frame = {f1, f2, f3, f4}
  NoFrame = NoFrame
  initproc = initproc
  Image = {"sh"}
  Boot = "sh"
  Text <- MCText
  Data <- MCData
  Ragged <- RaggedData
  StackPage <- MCStackPage
  Val = {}
  Calls = {"sbrk_lazy", "sbrk_eager", "sbrk_shrink", "exec", "copyin", "exit"}
  Menus = {{"touch", "sbrk_lazy", "sbrk_shrink", "exec"}, {"touch", "sbrk_eager", "sbrk_shrink", "exec", "copyin", "exit"}}
  Accesses = {"read", "write"}
  MAX_SEQ = 3
SPECIFICATION MenuSpec
SYMMETRY FrameSymmetry
INVARIANTS
  SwapTableMatches
  FramesExclusive
  FramesNotLost
  FaultPageStaysUnmapped
  NoJunkVisible
  StrayLeavesResident
PROPERTIES
  VictimIsOldest
CHECK_DEADLOCK FALSE
