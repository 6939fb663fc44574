CONSTANTS
  Callers = {c1, c2}
  Closers = {s1, s2}
  LoopSaver = loop
  MaxRetries = 1
  MaxChanges = 3
SPECIFICATION FairSpec
INVARIANTS
  TypeOK
  NoLostUpdate
  ShutdownDurable
PROPERTIES
  ImplementsDurableMap
  EventuallySaved
CHECK_DEADLOCK FALSE
