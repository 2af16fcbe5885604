SPECIFICATION Spec
CONSTANTS
  MaxSessions = 2
  MaxTicks = 2
  StatusTries = 2
  Faults <- FaultKinds
INVARIANTS
  TypeOK
  SyncOutlivesMonitor
  MutexHeldInside
