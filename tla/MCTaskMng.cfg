CONSTANTS
  Apps = {a1, a2}
  Tids = {h1, h2}
  TaskIds = {k1, k2, k3}
  max_num_task = 2
  mqueue_size = 1
  NoTid = NoTid
  NoTask = NoTask
SPECIFICATION Spec
SYMMETRY Symmetry
INVARIANTS
  Registered
  OwnIdFound
  MessagesAreOwn
