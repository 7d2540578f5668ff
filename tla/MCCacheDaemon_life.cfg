CONSTANTS
  c1 = c1  c2 = c2  d1 = d1  d2 = d2
  NoDaemon = NoDaemon
  Client = {c1, c2}
  Daemon = {d1, d2}
  Settings <- AllSettings
  Tries <- TriesEach
SPECIFICATION Spec
INVARIANTS
  TypeOK
  ServedWhileOpen
  CounterExact
PROPERTIES
  CommandsEnd
  DaemonsEnd
CHECK_DEADLOCK FALSE
