CONSTANTS
  g1 = g1  g2 = g2
  Fid = {g1, g2}
  NOFID = NOFID
  Trees <- TwoTrees
  StatLen <- Lengths
  Walks <- SomeWalks
  Offers = {1, 3, 6}
  Counts = {1, 3}
  Renegotiates = FALSE
  MaxMessageSize = 5
  ReadOverhead = 2
  OtherLen = 3
  Word = 8
  MaxAttach = 1
  MaxPath = 6
SPECIFICATION Spec
SYMMETRY Symmetry
INVARIANTS
  TypeOK
  FidsTold
  ListingWhole
  QidsDiffer
  RepliesFit
