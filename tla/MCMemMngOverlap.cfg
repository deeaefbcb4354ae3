CONSTANTS
  Threads = {t1}
  mem_unit_size = 2
  mem_block_num = 4
  alloc_max_num = 4
  Sizes = {1, 3}
  Timeouts = {}
  MaxUsed = 4
  Beyond = TRUE
  NoThread = NoThread
SPECIFICATION Spec
INVARIANTS
  FreeIsUnallocated
