CONSTANTS
  Threads = {t1, t2}
  mem_unit_size = 2
  mem_block_num = 2
  alloc_max_num = 1
  Sizes = {4}
  Timeouts = {"no_timeout"}
  MaxUsed = 2
  Beyond = FALSE
  NoThread = NoThread
SPECIFICATION Spec
INVARIANTS
  ChecksUntilTimeout
