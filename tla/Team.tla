---------------------------------- MODULE Team ---------------------------------
(***************************************************************************)
(* A team of OpenMP threads and the way it divides a loop.  External: the  *)
(* division is that of libgomp for schedule(static), also its default.     *)
(***************************************************************************)
EXTENDS Integers, FiniteSets

CONSTANT nthreads  \* omp_get_num_threads()

ASSUME TeamAssumption == nthreads \in Nat \ {0}

Threads == 0..nthreads - 1

\* The iterations of a loop of n that thread t gets: First(t, n) up to, but
\* without, End(t, n).
First(t, n) == t * (n \div nthreads) + IF t < n % nthreads THEN t ELSE n % nthreads
End(t, n)   == First(t + 1, n)

=============================================================================
