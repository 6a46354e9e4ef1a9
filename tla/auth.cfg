SPECIFICATION LiveSpec
CHECK_DEADLOCK FALSE
CONSTANTS
  SyncAttempts = 2
  MaxEvents = 4
INVARIANTS
  TypeOK
  WaitsForSomething
PROPERTIES
  EndNoticed
