SPECIFICATION Spec
CONSTANTS
  OFFSET_BITS = 1
  SEGMENT_BITS = 1
  Arrays = {a1, a2}
  Blocks = {b1, b2, b3, b4, b5}
  AllocationMayFail = TRUE
  Null = Null
  None = None
SYMMETRY Symmetry
INVARIANTS TypeOK IndexedIsAllocated
PROPERTIES GrowthLosesNothing GrowsInPlace
