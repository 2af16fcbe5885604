SPECIFICATION FairSpec
CONSTANTS
  MaxSessions = 3
  MaxTicks = 3
  StatusTries = 2
  Faults <- PairedFaults
INVARIANTS
  MonitorConfined
  NoUndefined
  MeasuresRunningDevice
  SampleFresh
PROPERTIES
  ImplementsMeter
  HeardSignalReturns
