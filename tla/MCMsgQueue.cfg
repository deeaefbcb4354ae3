CONSTANTS
  Threads = {t1, t2, t3}
  Messages = {m1, m2}
  NoMessage = NoMessage
  NoThread = NoThread
  num_max = 2
SPECIFICATION FairSpec
INVARIANTS
  QueueSound
PROPERTIES
  ImplementsBoundedFifo
  SleepsOnlyWithReason
CHECK_DEADLOCK FALSE
