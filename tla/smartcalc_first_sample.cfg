SPECIFICATION Spec
CONSTANTS
  MaxSessions = 2
  MaxTicks = 3
  StatusTries = 2
  Faults <- NoFaults
INVARIANTS
  EverySampleGathered
