CONSTANTS
  c1 = c1  c2 = c2
  n1 = n1  n2 = n2
  f1 = f1
  Client = {c1, c2}
  Name = {n1}
  File = {f1}
  Absent = Absent
  ZeroTree = ZeroTree
  PackLimit = 3
  MaxPacks = 2
  MaxVersion = 2
  MaxEpoch = 2
  Faults = {"close", "put", "get"}
  Commands <- TwoCollectors
SPECIFICATION Spec
INVARIANTS
  OneCollector
PROPERTIES
  KeepsReachable
