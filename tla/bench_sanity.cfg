SPECIFICATION ProgramSpec
CONSTANTS
  Apps <- Matrix
  Machines <- CpuOnly
  ModeRequests <- SomeModes
  SanityRequests <- SomeModes
  Repeats <- SomeRepeats
  IntLimit = 16
  MAX_CORE_COUNT = 2
  Computers <- OneComputer
  MaxFiles = 1
  MaxFileCount = 1
  MaxTimes = 2
INVARIANTS
  SanityAgrees
