SPECIFICATION Spec
CONSTANTS
  MaxReports = 1
  Limit = 1
  Faults <- NoFaults
PROPERTIES
  FreesIdleTransfer
