---------------------------------- MODULE Scan ---------------------------------
(***************************************************************************)
(* One call of a function of the scan table (Scan::initFuncs) on an input  *)
(* of some size: the sequential scans of ScanSeq, the parallel one of      *)
(* ScanOmp, which this module extends, or the GPU's of ScanGpu.            *)
(***************************************************************************)
EXTENDS ScanOmp

CONSTANTS
  SizesFor,                     \* the input sizes each function is looked at with
  WORKGROUP_SIZE, ARRAY_LENGTH

ASSUME SizesAssumption ==
  /\ SizesFor \in [{"STD", "SSE", "AVX", "OMP_SSE", "GPU_STD"} -> SUBSET Sizes]
  /\ WORKGROUP_SIZE \in Nat \ {0}
  /\ ARRAY_LENGTH = WORKGROUP_SIZE * (4 * WORKGROUP_SIZE)

VARIABLES
  func,                                             \* the function called
  next, carry,                                      \* ScanSeq
  enabled, kernel, group, step, l_Data, t, offsets, d_Dst, d_Buf, buf  \* ScanGpu

OneThread == INSTANCE ScanSeq
Gpu       == INSTANCE ScanGpu

ompVars == <<suma, pc, i, sum, offset, singles, tmp>>
seqVars  == <<next, carry>>
gpuVars  == <<enabled, kernel, group, step, l_Data, t, offsets, d_Dst, d_Buf, buf>>
scanVars == <<func, size, calculated, ompVars, seqVars, gpuVars>>

ScanTypeOK == TypeOK /\ OneThread!TypeOK /\ Gpu!TypeOK

ScanInit ==
  /\ func \in DOMAIN SizesFor
  /\ Init
  /\ size \in SizesFor[func]
  /\ OneThread!Init
  /\ Gpu!Init
  /\ func # "GPU_STD" => ~enabled

-----------------------------------------------------------------------------

Sequential(f, turn) ==
  /\ func = f
  /\ turn
  /\ UNCHANGED <<size, ompVars, gpuVars>>

Parallel ==
  /\ func = "OMP_SSE"
  /\ \E u \in Threads : Step(u)
  /\ UNCHANGED <<seqVars, gpuVars>>

OnGpu ==
  /\ func = "GPU_STD"
  /\ Gpu!Next
  /\ UNCHANGED <<size, ompVars, seqVars>>

Call ==
  \/ Sequential("STD", OneThread!StdTurn)
  \/ Sequential("SSE", OneThread!SseTurn)
  \/ Sequential("AVX", OneThread!AvxTurn)
  \/ Parallel
  \/ OnGpu

Returned ==
  \/ func \in {"STD", "SSE", "AVX"} /\ OneThread!Done
  \/ func = "OMP_SSE" /\ Reached("done")
  \/ func = "GPU_STD" /\ Gpu!Done

ScanNext == \/ Call /\ UNCHANGED func
            \/ Returned /\ UNCHANGED scanVars

ScanSpec == ScanInit /\ [][ScanNext]_scanVars

-----------------------------------------------------------------------------
(* Properties.                                                             *)

\* The scans of one thread give every element the sum of those up to it, whatever
\* the size: also when the last vector is not full.
SequentialRight ==
  Returned /\ func \in {"STD", "SSE", "AVX"} =>
    \A k \in 0..size - 1 : calculated[k] = Interval(0, k + 1)

\* The scan of the GPU gives every element the sum of those before it, in whatever
\* order the items of a group run, if the size is a multiple of local1size and the
\* totals of the groups fit in one group of the second kernel: that is a size of at
\* most MAX_LARGE_ARRAY_SIZE (app/scan/scan.h).
GpuScanRight ==
  /\ Returned /\ func = "GPU_STD" /\ enabled
  /\ size % Gpu!local1size = 0 /\ Gpu!elements <= WORKGROUP_SIZE
  => \A k \in 0..size - 1 : calculated[k] = Interval(0, k)

\* Between two barriers no item of a group uses local memory another one writes.
GpuRaceFree == func = "GPU_STD" => Gpu!ItemsRaceFree

=============================================================================
