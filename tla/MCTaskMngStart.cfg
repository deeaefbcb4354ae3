CONSTANTS
  Apps = {a1}
  Tids = {h1, h2}
  TaskIds = {k1, k2}
  max_num_task = 2
  mqueue_size = 1
  NoTid = NoTid
  NoTask = NoTask
SPECIFICATION Spec
SYMMETRY Symmetry
INVARIANTS
  NamedWhenStarted
