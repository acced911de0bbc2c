SPECIFICATION Spec
CONSTANTS
  Task = {0, 1, 2}
  init_task = 0
  Page <- AllPages
  KernelArea <- LowPages
  Images <- TwoPages
  ENTRIES = 2
  PAGE_SIZE = 3
  NULL = NULL
INVARIANT ForkCopiesMemory
