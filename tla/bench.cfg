SPECIFICATION ProgramSpec
CONSTANTS
  Apps <- AllApps
  Machines <- AllMachines
  ModeRequests <- WideModes
  SanityRequests <- WideModes
  Repeats <- SomeRepeats
  IntLimit = 16
  MAX_CORE_COUNT = 2
  Computers <- AllComputers
  MaxFiles = 2
  MaxFileCount = 1
  MaxTimes = 2
INVARIANTS
  ProgramTypeOK
  ModeInTable
  SequenceComplete
  ReportedTimes
  FailureExplained
  CoresKnown
  HandlesValid
  ReleasedAtExit
PROPERTIES
  MeterPaired
