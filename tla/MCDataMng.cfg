CONSTANTS
  Threads = {t1, t2}
  Keys = {k1, k2, k3}
  Values = {v1, v2}
  num_max = 2
  MaxCount = 2
  NoThread = NoThread
SPECIFICATION Spec
SYMMETRY Symmetry
INVARIANTS
  DataSound
  PointerKept
  PairBelongsTogether
PROPERTIES
  ImplementsKeyedMap
