------------------------------- MODULE Algorithms -------------------------------
(***************************************************************************)
(* One call of a function of one of the three tables on an input of some   *)
(* size: a scan (Scan, which this module extends), a matrix product or a   *)
(* convolution (Matrix::initFuncs, Conv::initFuncs).  Init chooses which;  *)
(* what belongs to the others stays as it is.                              *)
(***************************************************************************)
EXTENDS Scan

CONSTANTS
  MatrixDims, ConvDims,  \* the inputs of each function, <<row, col>> and <<row, col, filter_length>>
  TILESIZE, BLOCK_SIZE, LOCAL_X, LOCAL_Y

\* The loops of the convolution on the CPU run up to col - (half_length + 1) and
\* row - (half_length + 1), which are unsigned: sides below half_length + 1 are left out,
\* and so is a filter without taps, which processFilter returns for an empty file and
\* with which half_length + 1 overflows.
ASSUME DimsAssumption ==
  /\ \A f \in DOMAIN MatrixDims : MatrixDims[f] \subseteq (Nat \ {0}) \X (Nat \ {0})
  /\ \A f \in DOMAIN ConvDims : \A d \in ConvDims[f] :
       /\ d \in (Nat \ {0}) \X (Nat \ {0}) \X (Nat \ {0})
       /\ f \in {"CPU_STD", "CPU_OMP"} =>
            d[1] >= (d[3] - 1) \div 2 + 1 /\ d[2] >= (d[3] - 1) \div 2 + 1
  /\ {TILESIZE, BLOCK_SIZE, LOCAL_X, LOCAL_Y} \subseteq Nat \ {0}

VARIABLES
  app,                        \* "scan", "matrix" or "conv"
  row, col,                   \* the sides of the input of the last two
  loaded, host, As, Bs, Csub, \* MatrixFuncs
  filter_length, temp, stage  \* ConvFuncs

Matrix == INSTANCE MatrixFuncs
Conv   == INSTANCE ConvFuncs

input    == <<app, func, row, col, filter_length>>
matVars  == <<loaded, host, As, Bs, Csub>>
convVars == <<temp, stage>>
kernelVars == <<group, step>>  \* of the scan and of the product with work-groups
scanOnly == <<size, ompVars, carry, kernel, l_Data, t, offsets, d_Dst, d_Buf, buf>>
algVars  == <<input, enabled, calculated, next, kernelVars, scanOnly, matVars, convVars>>

IdleScan ==
  /\ size = 0 /\ suma = <<>> /\ pc = [u \in Threads |-> "done"] /\ i = <<>> /\ sum = <<>>
  /\ offset = [u \in Threads |-> Zero] /\ singles = {} /\ tmp = Zero /\ carry = Zero
  /\ kernel = 4 /\ l_Data = <<>> /\ t = <<>> /\ offsets = <<>>
  /\ d_Dst = <<>> /\ d_Buf = <<>> /\ buf = Zero
IdleMatrix == loaded = <<>> /\ host = "done" /\ As = <<>> /\ Bs = <<>> /\ Csub = <<>>
IdleConv   == filter_length = 0 /\ temp = <<>> /\ stage = "done"
IdleKernel == group = <<0, 0>> /\ step = <<>>
NoSides    == row = 0 /\ col = 0

AlgTypeOK ==
  \/ app = "scan" /\ ScanTypeOK /\ NoSides /\ IdleMatrix /\ IdleConv
  \/ app = "matrix" /\ Matrix!TypeOK /\ IdleScan /\ IdleConv
  \/ app = "conv" /\ Conv!TypeOK /\ IdleScan /\ IdleMatrix /\ IdleKernel

AlgInit ==
  \/ app = "scan" /\ ScanInit /\ NoSides /\ IdleMatrix /\ IdleConv
  \/ /\ app = "matrix"
     /\ \E f \in DOMAIN MatrixDims : \E d \in MatrixDims[f] :
          func = f /\ row = d[1] /\ col = d[2]
     /\ Matrix!Init /\ IdleScan /\ IdleConv
  \/ /\ app = "conv"
     /\ \E f \in DOMAIN ConvDims : \E d \in ConvDims[f] :
          func = f /\ row = d[1] /\ col = d[2] /\ filter_length = d[3]
     /\ Conv!Init /\ IdleScan /\ IdleMatrix /\ IdleKernel

AlgNext ==
  \/ app = "scan" /\ ScanNext /\ UNCHANGED <<app, row, col, filter_length, matVars, convVars>>
  \/ app = "matrix" /\ Matrix!Next /\ UNCHANGED <<input, enabled, scanOnly, convVars>>
  \/ app = "conv" /\ Conv!Next /\ UNCHANGED <<input, enabled, scanOnly, kernelVars, matVars>>
  \/ app # "scan" /\ Matrix!Done /\ Conv!Done /\ UNCHANGED algVars

AlgSpec == AlgInit /\ [][AlgNext]_algVars

-----------------------------------------------------------------------------
(* Properties.                                                             *)

Multiplied == app = "matrix" /\ Matrix!Done /\ Matrix!Fits
Convolved  == app = "conv" /\ Conv!Done /\ Conv!FitsSides
ConvCpu    == {"CPU_STD", "CPU_OMP"}

\* Each product function that its tiles, vectors and work-groups fit gives every element
\* all products of its row and column, once: however the threads of the tiled product and
\* the items of the discrete kernel take turns.  Left out is GPU_VEC8: matrixMulVec8 is
\* launched for an eighth of the columns and never writes the others.
ProductRight ==
  Multiplied /\ func # "GPU_VEC8" /\ (func \in Matrix!GpuFuncs => enabled) => Matrix!Right

\* Where Conv::compare looks, every convolution function that the vectors and work-groups
\* fit, and that is made for as many taps as the filter has, has applied each of them along
\* rows and columns, and used no element of temp that was not written before: with several
\* threads as with one.  The kernels are made for five taps, the functions of the CPU for
\* at most eight; with other filters of -f they do not do what is said here.
ConvRight ==
  Convolved /\ Conv!FitsFilter /\ (func \notin ConvCpu => enabled) => Conv!ComparedRight

=============================================================================
