CONSTANTS
  f1 = f1  f2 = f2
  Name = {1, 2, 3}
  Dot = 0
  NoData = NoData
  MaxEntries = 6
  Requests <- Careful
SPECIFICATION Spec
INVARIANTS
  DirsOrdered
  NamesUnique
PROPERTIES
  AddsOnly
  RemovesOnly
  MovesAll
VIEW RootOnly
