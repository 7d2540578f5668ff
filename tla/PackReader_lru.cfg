SPECIFICATION Spec
CONSTANTS
  Pack = {p1, p2, p3, p4}
  Listing = list
  MaxOpen = 2
  MaxFid = 4
  MaxLeaks = 2
  Reuses = FALSE
INVARIANTS
  ReadsOwnPack
  FilesBounded
