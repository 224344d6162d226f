SPECIFICATION Spec
CONSTANTS
  Threads = {t1, t2}
  Keys = {2, a, b}
  Twins = {a, b}
  Values = {v1}
  HashBits = 4
  TagBits = 2
  LockBits = 1
  Mix <- MCMix
  Hash <- TwinHash
  Ops = {"find", "update", "upsert", "erase"}
  SlotPerBucket = 1
  MAX_BFS_PATH_LEN = 2
  MAX_CUCKOO_COUNT = 6
  CounterMod = 4
  InitHashpower = 0
  SegmentHashpower = 2
  MinLoadPercent = 5
  SegmentMayFill = TRUE
  Free = Free
  None = None
SYMMETRY TwinSymmetry
INVARIANTS TypeOK IndInv LocksPinHashpower Placement SizeExact NoDuplicates CuckooAsserts
PROPERTIES WritesAreLocked Linearizable
