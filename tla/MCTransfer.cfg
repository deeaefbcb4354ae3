CONSTANTS
  Records = {1, 2, 3, 4, 5, 6}
  NoRecord = 0
  num_max = 4
  Word = 65536
  MaxRecords = 6
  uldata_buf_capacity = 1
  Lengths = {1}
  Headers = {h1, h2}
  MaxHeaders = 2
  MaxRequests = 3
  buf_size = 2
  BlockSizes = {1, 2}
  Tcp = {"c1", "c2"}
  Listening = {"l1"}
  Udp = {"u1"}
  Workers = {"w1"}
  NumDescriptors = 3
  Threads = {t1, t2}
  mem_unit_size = 2
  mem_block_num = 5
  alloc_max_num = 3
  Sizes = {0, 1, 3}
  Timeouts = {"no_wait", "timed", "no_timeout"}
  MaxUsed = 6
  Beyond = FALSE
  NoThread = NoThread
SPECIFICATION MCSpec
VIEW View
SYMMETRY Symmetry
INVARIANTS
  ReadsInOrder
  SentOrQueued
  ReplyIsOwn
  OwnDescriptor
  ResourcesAccounted
  HeapSound
  SleepersCannotBeServed
