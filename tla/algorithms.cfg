SPECIFICATION AlgSpec
CONSTANTS
  nthreads = 3
  Sizes <- AllSizes
  SizesFor <- SizesForTest
  WORKGROUP_SIZE = 4
  ARRAY_LENGTH = 64
  MatrixDims <- MatrixDimsForTest
  ConvDims <- ConvDimsForTest
  TILESIZE = 2
  BLOCK_SIZE = 2
  LOCAL_X = 2
  LOCAL_Y = 2
INVARIANTS
  AlgTypeOK
  ScanCorrect
  OffsetComplete
  RaceFree
  SequentialRight
  GpuScanRight
  GpuRaceFree
  ProductRight
  ConvRight
