CONSTANTS
  Apps = {a1, a2}
  Callbacks = {c1}
  Settings = {x1, x2}
  KernelIds = {y1, y2, y3}
  num_timer = 2
  NoSetting = NoSetting
  NoId = NoId
  Users = {y1, y2, y3}
  MaxNum = 2
  MaxValue = 1
  Data = {x1, x2}
  num_max_item = 3
  NoData = NoData
  TotalSizes = {0, 7, 9}
  UnitSizes = {1, 4}
  Requests = {0, 1, 3, 5, 9, 10}
  Moments = {0, 1, 2, 1999, 2000, 2001, 4000, 9999, 10000, 16383, 16384, 20001}
  Timeouts = {0, 1, 999, 1000, 1001, 2500}
  IntWord = 16384
  KeyLengths = {6}
  ValueLengths = {1, 8}
  PointLengths = {47}
  MaxElems = 2
  BufferSizes = {0, 1, 21, 22, 33, 82, 83, 98, 108, 109, 110, 116, 117, 118, 119, 125, 126, 132, 133}
SPECIFICATION MCSpec
SYMMETRY Symmetry
INVARIANTS
  TimersSound
  CallbackCallsOwn
  PermitsAccounted
  BlocksAccounted
  ListIsSequence
  AllocationsDisjoint
  TimesExact
  TextComplete
