SPECIFICATION FairSpec
CONSTANTS
  MaxSessions = 1
  MaxTicks = 1
  StatusTries = 2
  Faults <- NoFaults
PROPERTIES
  MeasurementReported
CHECK_DEADLOCK FALSE
