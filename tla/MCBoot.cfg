SPECIFICATION Spec
CONSTANTS
  ArgsAt = 0
  SetupAt = 1
  SetupSize = 2
  MbrAt = 3
  LoadAt = 4
  HwMap = 9
  HwEnd = 12
  LowTest = 6
  HighTest = 14
  MemSize = 24
  PAGE = 2
  TABLE = 8
  ENTRIES = 2
  RESERVED = 14
  Disks <- MCDisks
  Garbage = {0, 2, 3}
  MaxFaults = 1
INVARIANTS
  KernelRight
  LoaderIntact
  HandoverSafe
PROPERTIES
  BootEnds
