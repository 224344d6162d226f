SPECIFICATION WholeSpec
CONSTANTS
  Threads = {t1, t2}
  Keys = {2, 6}
  Values = {v1, v2}
  HashBits = 4
  TagBits = 2
  LockBits = 1
  Mix <- MCMix
  Hash <- MCHash
  Ops = {"find", "insert", "upsert", "erase", "size", "empty"}
  WholeOps = {"clear", "rehash", "lock_table"}
  LockedOps = {"find", "erase", "clear", "size", "unlock"}
  Hashpowers = {2, 3}
  Capacities = {}
  SlotPerBucket = 1
  MAX_BFS_PATH_LEN = 2
  MAX_CUCKOO_COUNT = 8
  CounterMod = 3
  InitHashpower = 2
  SegmentHashpower = 3
  MinLoadPercent = 100
  SegmentMayFill = TRUE
  Free = Free
  None = None
  End = End
SYMMETRY Symmetry
INVARIANTS LocksPinHashpower NoCircle SizeExact CuckooAsserts
PROPERTIES OwnedTable
