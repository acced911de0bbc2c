SPECIFICATION Spec
CONSTANTS
  NR_TASKS = 3
  NULL = NULL
  ANY = ANY
  MaxPid = 4
  PidSpace = 6
  Codes = {0}
  Calls <- ProcessCalls
INVARIANT NoChildLost
