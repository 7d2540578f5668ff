CONSTANTS
  k1 = k1  k2 = k2  k3 = k3
  Caller = {k1, k2, k3}
  MaxMid = 2
  MaxCalls <- CallsEach
  MaxExtra = 1
SPECIFICATION Spec
INVARIANTS
  TypeOK
  OwnAnswer
  NoPanic
PROPERTIES
  CallsReturn
CHECK_DEADLOCK FALSE
