SPECIFICATION Spec
CONSTANTS
  Base = 5
  BlockSize = 2
  IVs <- NearCarry
  BufSize = 5
  Word = 2
  Short = 1
  Key = {0, 2, 4}
  MaxVal = 5
INVARIANTS
  CountersDiffer
  SizeFound
  
  GetsAdded
  CachedIndexSame
