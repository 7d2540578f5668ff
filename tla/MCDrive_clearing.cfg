CONSTANTS
  c1 = c1  c2 = c2
  n1 = n1  n2 = n2
  f1 = f1
  Client = {c1, c2}
  Name = {n1}
  File = {f1}
  Absent = Absent
  ZeroTree = ZeroTree
  PackLimit = 3
  MaxPacks = 6
  MaxVersion = 4
  MaxEpoch = 3
  Faults = {}
  Commands <- ClearAndClear
SPECIFICATION Spec
INVARIANTS
  RootComplete
