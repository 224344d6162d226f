SPECIFICATION WholeSpec
CONSTANTS
  Threads = {t1, t2}
  Keys = {4, 12}
  Values = {v1}
  HashBits = 4
  TagBits = 2
  LockBits = 1
  Mix <- MCMix
  Hash <- MCHash
  Ops = {"insert", "erase"}
  WholeOps = {"rehash"}
  LockedOps = {}
  Hashpowers = {1, 2}
  Capacities = {}
  SlotPerBucket = 1
  MAX_BFS_PATH_LEN = 2
  MAX_CUCKOO_COUNT = 8
  CounterMod = 4
  InitHashpower = 1
  SegmentHashpower = 3
  MinLoadPercent = 5
  SegmentMayFill = FALSE
  Free = Free
  None = None
  End = End
SYMMETRY Symmetry
INVARIANTS BucketCount
