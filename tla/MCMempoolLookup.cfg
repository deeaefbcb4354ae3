CONSTANTS
  Threads = {t1, t2}
  num_max = 2
  NoThread = NoThread
SPECIFICATION Spec
INVARIANTS
  LookupComplete
CHECK_DEADLOCK FALSE
