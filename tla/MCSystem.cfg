CONSTANTS
  Threads = {t1, t2, t3}
  Bits = {b1, b2}
  Masks = {{b1}, {b1, b2}}
  Handlers = {h1}
  NoHandler = NoHandler
  Commands = {"exit", "test"}
  QueueSize = 2
  MaxAsync = 2
  QueueLen = 1
  Programs = {"sample01", "sample02"}
SPECIFICATION MCSpec
INVARIANTS
  Types
  SleepersUnserved
  ConnectReported
  AsyncInOrder
  AliveWhenUsed
PROPERTIES
  WaitersAnswered
  TimedWaitsReturn
  TimedConnectReturns
  StopEndsLoops
  Halts
