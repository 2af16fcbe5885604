SPECIFICATION FairSpec
CONSTANTS
  Places = 2
  MaxChanges = 1
  MaxReports = 4
  Limit = 1
  Faults <- AllFaults
  Descriptors <- AllDescriptors
  Kernels <- AllKernels
INVARIANTS
  TypeOK
  NoLostWakeup
  RunLoopValid
  OpensRequested
PROPERTIES
  ImplementsDevice
  ReadReturns
  CloseReturns
