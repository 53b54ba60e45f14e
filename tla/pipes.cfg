CONSTANTS
  NPROC = 3
  Cpu = {c1, c2}
  NoCpu = NoCpu
  Menu <- Menus
  MaxCalls <- Calls
  PIPESIZE = 2
  CountMod = 4
  MaxBytes = 3
  INPUT_BUF_SIZE = 2
  IndexMod = 4
  MaxChars = 2
  MaxTyped <- Input
SYMMETRY CpuSymmetry
SPECIFICATION SystemSpec
INVARIANTS
  SchedHoldsOnlyPLock
  OnOneCPU
  ParentsAlive
  SleepersWake
PROPERTIES
  ImplementsPipeChannel
  ImplementsLineInput
CHECK_DEADLOCK FALSE
