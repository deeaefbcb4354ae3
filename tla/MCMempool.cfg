CONSTANTS
  Threads = {t1, t2}
  num_max = 3
  NoThread = NoThread
SPECIFICATION FairSpec
INVARIANTS
  PoolSound
  LookupSound
PROPERTIES
  ImplementsBlockPool
  SleepsOnlyOnFullPool
CHECK_DEADLOCK FALSE
