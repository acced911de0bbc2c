SPECIFICATION Spec
CONSTANTS
  NR_TASKS = 4
  NULL = NULL
  ANY = ANY
  MaxPid = 5
  PidSpace = 7
  Codes = {0}
  Calls <- AllCalls
INVARIANTS
  RunQueueSound
  NoSchedulerPanic
  ChildListsSound
  WaitTargetValid
  PidsUnique
PROPERTIES
  ReapedByParent
  FirstInFirstOut
  ReadyTasksRun
  WaitersReturn
  ZombiesKept
