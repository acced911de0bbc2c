SPECIFICATION Spec
CONSTANTS
  First = 3
  Total = 7
  NODE_COUNT = 3
  NULL = NULL
INVARIANTS
  FreeListSound
  PagesConserved
  BufferSuffices
PROPERTIES
  NoFalseAlarm
  ImplementsPageSet
