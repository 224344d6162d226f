SPECIFICATION Spec
CONSTANTS
  Threads = {t1, t2}
  Keys = {0, 1, 4}
  Values = {v1}
  HashBits = 4
  TagBits = 2
  LockBits = 2
  Mix <- MCMix
  Hash <- MCHash
  Ops = {"insert", "erase"}
  SlotPerBucket = 1
  MAX_BFS_PATH_LEN = 3
  MAX_CUCKOO_COUNT = 4
  CounterMod = 4
  InitHashpower = 2
  SegmentHashpower = 2
  MinLoadPercent = 5
  SegmentMayFill = FALSE
  Free = Free
  None = None
SYMMETRY Symmetry
INVARIANTS EmptyIsExact
