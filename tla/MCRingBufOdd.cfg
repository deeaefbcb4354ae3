CONSTANTS
  Records = {r1, r2, r3}
  NoRecord = NoRecord
  num_max = 3
  Word = 65536
SPECIFICATION Spec
SYMMETRY Symmetry
INVARIANTS
  NewestFirst
