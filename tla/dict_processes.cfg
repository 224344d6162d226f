SPECIFICATION CarefulSpec
CONSTANTS
  Threads = {t1, t2}
  Processes = {p1, p2}
  ProcessOf <- MCProcessOf
  Handles = {h1, h2, h3}
  Users <- MCUsers
  Names = {n1, n2}
  NameOf <- MCNameOf
  Keys = {k1}
  Values = {v1, v2}
  Addresses = {a1, a2}
  Offsets = {o1, o2}
  SegmentMayFill = TRUE
  Free = Free
  Null = Null
  None = None
  t1 = t1
  t2 = t2
  p1 = p1
  p2 = p2
  h1 = h1
  h2 = h2
  h3 = h3
  n1 = n1
  n2 = n2
SYMMETRY Symmetry
INVARIANTS DictInv SegmentIsOpen MapIsOpen Portable
PROPERTIES SharedByName
