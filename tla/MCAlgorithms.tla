------------------------------ MODULE MCAlgorithms ------------------------------
(* Instances of Algorithms for TLC: sizes that the threads, tiles, vectors    *)
(* and work-groups fit, and some they do not.  With WORKGROUP_SIZE = 4 the    *)
(* GPU scans 16 elements in a group, and the totals of 4 groups in its        *)
(* second kernel.                                                             *)
EXTENDS Algorithms

SizesForTest ==
  [STD     |-> {0, 1, 7, 12},
   SSE     |-> {0, 2, 7, 12},
   AVX     |-> {0, 5, 8, 19},
   OMP_SSE |-> {0, 2, 7, 8, 12},
   GPU_STD |-> {0, 7, 16, 18, 32, 80}]
AllSizes == UNION {SizesForTest[f] : f \in DOMAIN SizesForTest}
MatrixDimsForTest ==
  [CPU_STD         |-> {<<2, 3>>},
   CPU_TILED       |-> {<<4, 2>>, <<2, 4>>, <<3, 2>>},
   CPU_TILED_BASIC |-> {<<4, 2>>, <<2, 4>>, <<3, 2>>},
   CPU_TILED_OMP   |-> {<<4, 2>>, <<6, 4>>, <<3, 3>>},
   GPU_STD         |-> {<<4, 3>>, <<3, 4>>},
   GPU_VEC4        |-> {<<8, 8>>, <<8, 4>>},
   GPU_VEC8        |-> {<<16, 8>>, <<8, 8>>},
   GPU_DISC        |-> {<<2, 4>>, <<4, 2>>, <<2, 3>>, <<3, 2>>}]
ConvDimsForTest ==
  [CPU_STD  |-> {<<9, 10, 5>>, <<6, 6, 5>>, <<3, 4, 4>>, <<9, 9, 1>>, <<10, 9, 8>>, <<12, 12, 9>>},
   CPU_OMP  |-> {<<10, 9, 5>>, <<11, 9, 5>>, <<3, 4, 5>>, <<9, 10, 4>>, <<10, 9, 7>>},
   GPU_STD  |-> {<<12, 12, 5>>, <<10, 12, 5>>, <<12, 12, 7>>},
   GPU_VEC4 |-> {<<12, 16, 5>>, <<12, 18, 5>>, <<12, 16, 3>>},
   GPU_COMB |-> {<<12, 16, 5>>, <<12, 18, 5>>, <<12, 16, 4>>}]
===============================================================================
