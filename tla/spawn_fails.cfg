SPECIFICATION SpecSpawn
CONSTANTS
  Threads = {t1, t2}
  Keys = {0, 2, 15}
  Values = {v1}
  HashBits = 4
  TagBits = 2
  LockBits = 1
  Mix <- MCMix
  Hash <- MCHash
  Ops = {"insert", "erase"}
  SlotPerBucket = 1
  MAX_BFS_PATH_LEN = 2
  MAX_CUCKOO_COUNT = 4
  CounterMod = 4
  InitHashpower = 1
  SegmentHashpower = 2
  MinLoadPercent = 5
  SegmentMayFill = FALSE
  Free = Free
  None = None
SYMMETRY Symmetry
INVARIANTS Findable
