SPECIFICATION CarefulSpec
CONSTANTS
  Threads = {t1, t2}
  Keys = {6, 14, 30}
  Values = {v1}
  HashBits = 4
  TagBits = 2
  LockBits = 1
  Mix <- MCMix
  Hash <- MCHash
  Ops = {"insert"}
  WholeOps = {"reserve", "lock_table"}
  LockedOps = {"insert", "begin", "next", "prev", "erase_at", "reserve", "unlock"}
  Hashpowers = {}
  Capacities = {4, 5}
  SlotPerBucket = 2
  MAX_BFS_PATH_LEN = 2
  MAX_CUCKOO_COUNT = 8
  CounterMod = 4
  InitHashpower = 1
  SegmentHashpower = 2
  MinLoadPercent = 5
  SegmentMayFill = TRUE
  Free = Free
  None = None
  End = End
SYMMETRY Symmetry
INVARIANTS WholeTypeOK BucketCount NoCircle SizeExact
PROPERTIES OwnedTable
