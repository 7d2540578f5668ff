CONSTANTS
  LeafCap = 2
  Fanout = 2
  MaxFile = 9
  MaxBuf = 3
  MaxRead = 11
SPECIFICATION Spec
INVARIANTS
  RoundTrip
  ReadsInOrder
  SeekLands
CHECK_DEADLOCK FALSE
