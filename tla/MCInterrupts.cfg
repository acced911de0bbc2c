SPECIFICATION Spec
CONSTANTS
  Task = {t1, t2, t3}
  NULL = NULL
  init_task = t1
  Lines <- TheLines
INVARIANTS
  OnlyExpectedInterrupts
  HandlersComplete
  OwnStack
  WellLinked
PROPERTIES
  ImplementsQueue
  TicksKeepComing
