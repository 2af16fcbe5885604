SPECIFICATION Spec
CONSTANTS
  Builds <- AllBuilds
  Modes <- AllModes
  MaxSessions = 2
  MaxUsed = 3
  MaxTicks = 2
  SENSOR_MAX = 2
  StatusTries = 2
  core_count = 2
  Wrap = 2
  Coarse = 4
  Garbage <- SomeGarbage
INVARIANTS
  TypeOK
  InaConfined
  NothingLeftOpen
  ReportsThisMeasurement
  DeviceStopped
PROPERTIES
  InaImplementsMeter
