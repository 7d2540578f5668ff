SPECIFICATION Spec
CONSTANTS
  Proc = {a1, a2}
  Pack = {p1, p2}
INVARIANTS
  LoadedWhole
