SPECIFICATION LiveSpec
CONSTANTS
  MaxCalls = 5
  Threads = {t1, t2}
  Keys = {0, 1, 10, 12, 6}
  Values = {v1}
  HashBits = 4
  TagBits = 2
  LockBits = 1
  Mix <- MCMix
  Hash <- MCHash
  Ops = {"insert"}
  SlotPerBucket = 1
  MAX_BFS_PATH_LEN = 3
  MAX_CUCKOO_COUNT = 4
  CounterMod = 8
  InitHashpower = 2
  SegmentHashpower = 3
  MinLoadPercent = 5
  SegmentMayFill = FALSE
  Free = Free
  None = None
INVARIANTS LockOrder PathsFit
PROPERTIES ReturnsUnlessMovesFail WritesAreLocked
CHECK_DEADLOCK FALSE
