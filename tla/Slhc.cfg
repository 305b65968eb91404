SPECIFICATION FairSpec
CONSTANTS
  Conns = {"c1", "c2", "c3", "c4"}
  Stream <- MCStream
  Slots = 3
  Short = 3
  Long = 9
  MaxOnLine = 1
  MaxFaults = 1
CHECK_DEADLOCK FALSE
INVARIANTS
  TypeOK
  LruOrder
  InStep
  Faithful
PROPERTIES
  RecoversNotUrgent
