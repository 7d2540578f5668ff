CONSTANTS
  c1 = c1  c2 = c2
  n1 = n1  n2 = n2
  f1 = f1
  Client = {c1, c2}
  Name = {n1}
  File = {f1}
  Absent = Absent
  ZeroTree = ZeroTree
  PackLimit = 1
  MaxPacks = 4
  MaxVersion = 3
  MaxEpoch = 1
  Faults = {}
  Commands <- WriterAndCollector
SPECIFICATION Spec
INVARIANTS
  TypeOK
  RootComplete
  SweepReclaims
PROPERTIES
  HistoryKept
