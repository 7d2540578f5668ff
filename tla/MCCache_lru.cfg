CONSTANTS
  h1 = h1  h2 = h2  h3 = h3  h4 = h4  h5 = h5
  Hash = {h1, h2, h3, h4, h5}
  Size <- Sizes
  MaxSizes = {3, 4}
  Limit = 2
SPECIFICATION Spec
INVARIANTS
  Readable
  SizeExact
  Settles
PROPERTIES
  PutBounds
