SPECIFICATION Spec
CONSTANTS
  nthreads = 3
  Sizes <- SomeSizes
INVARIANTS
  ScansEverySize
