SPECIFICATION MapSpec
CONSTANTS
  Machines <- MCMachines
  KernelBase = 1000
  Window = 100
  HeadPages = 4
  TailPages = 8
  Wrap = 100
INVARIANT FinalMapDescribesMemory
CHECK_DEADLOCK FALSE
