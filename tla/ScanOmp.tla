------------------------------- MODULE ScanOmp -------------------------------
(***************************************************************************)
(* Scan::scanCPU_OMP_SSE (app/scan/scanfuncs.cpp): the threads of an       *)
(* OpenMP team scan a part of the input each, exchange their totals, and   *)
(* then add what comes before, four elements at a time.                    *)
(*                                                                         *)
(* OpenMP is external: a `single' is executed by one thread and ends with  *)
(* a barrier, and a static schedule divides a loop as libgomp does it.     *)
(***************************************************************************)
EXTENDS Sums, Team

CONSTANT Sizes  \* the input sizes looked at

ASSUME ScanAssumption == Sizes \subseteq Nat

VARIABLES
  size,        \* Scan::size
  calculated,  \* calculated->mem
  suma,        \* the totals of the threads, suma[0] = 0
  pc,          \* where each thread is
  i,           \* its loop counter
  sum,         \* its `sum'
  offset,      \* its `offset'
  singles,     \* the single constructs some thread has taken
  tmp          \* the running total, of the thread in the second of them

vars == <<size, calculated, suma, pc, i, sum, offset, singles, tmp>>

-----------------------------------------------------------------------------

Blocks == size \div 4

\* The points a thread passes, in order, and whether all threads are there: a barrier.
\* Only the thread that takes the second single passes "running".
Place == [alloc |-> 1, allocated |-> 2, pass1 |-> 3, total |-> 4, prefix |-> 5,
          running |-> 6, prefixed |-> 7, pass2 |-> 8, finish |-> 9, done |-> 10]
Points == DOMAIN Place
Reached(p) == \A u \in Threads : Place[pc[u]] >= Place[p]

TypeOK ==
  /\ size \in Sizes
  /\ calculated \in [0..size - 1 -> SumsOver(size)]
  /\ suma \in [0..nthreads -> SumsOver(size)]
  /\ pc \in [Threads -> Points]
  /\ i \in [Threads -> 0..size \cup 0..nthreads + 1]
  /\ sum \in [Threads -> SumsOver(size)]
  /\ offset \in [Threads -> SumsOver(size)]
  /\ singles \subseteq {"alloc", "prefix"}
  /\ tmp \in SumsOver(size)

\* allocMem has zeroed the result.
Init ==
  /\ size \in Sizes
  /\ calculated = [k \in 0..size - 1 |-> Zero]
  /\ suma = [k \in 0..nthreads |-> Wrong]
  /\ pc = [t \in Threads |-> "alloc"]
  /\ i = [t \in Threads |-> 0]
  /\ sum = [t \in Threads |-> Zero]
  /\ offset = [t \in Threads |-> Zero]
  /\ singles = {}
  /\ tmp = Zero

Goto(t, p) == pc' = [pc EXCEPT ![t] = p]

-----------------------------------------------------------------------------
(* The parallel region, thread by thread.                                  *)

\* The first single: one thread allocates suma and sets its first entry; new
\* leaves the others as they are.
Alloc(t) ==
  /\ pc[t] = "alloc"
  /\ \/ "alloc" \notin singles /\ suma' = [suma EXCEPT ![0] = Zero]
     \/ "alloc" \in singles /\ UNCHANGED suma
  /\ singles' = singles \cup {"alloc"}
  /\ Goto(t, "allocated")
  /\ UNCHANGED <<size, calculated, i, sum, offset, tmp>>

\* The barrier of the single, and into the first loop.
EnterFirst(t) ==
  /\ pc[t] = "allocated"
  /\ Reached("allocated")
  /\ i' = [i EXCEPT ![t] = First(t, size)]
  /\ Goto(t, "pass1")
  /\ UNCHANGED <<size, calculated, suma, sum, offset, singles, tmp>>

\* One element of the first pass.
InFirstInclusive(t) == i[t] <= End(t, size)
InFirst(t) == i[t] < End(t, size)

FirstPass(t) ==
  /\ pc[t] = "pass1"
  /\ InFirst(t)
  /\ sum' = [sum EXCEPT ![t] = Add(@, Element(i[t]))]
  /\ calculated' = [calculated EXCEPT ![i[t]] = sum'[t]]
  /\ i' = [i EXCEPT ![t] = @ + 1]
  /\ UNCHANGED <<size, suma, pc, offset, singles, tmp>>

\* The loop is left without waiting, and the total is stored.
Total(t) ==
  /\ pc[t] = "pass1"
  /\ ~InFirst(t)
  /\ suma' = [suma EXCEPT ![t + 1] = sum[t]]
  /\ Goto(t, "total")
  /\ UNCHANGED <<size, calculated, i, sum, offset, singles, tmp>>

\* The explicit barrier.
NoBarrier(t) ==
  /\ pc[t] = "total"
  /\ Goto(t, "prefix")
  /\ UNCHANGED <<size, calculated, suma, i, sum, offset, singles, tmp>>

Barrier(t) ==
  /\ pc[t] = "total"
  /\ Reached("total")
  /\ Goto(t, "prefix")
  /\ UNCHANGED <<size, calculated, suma, i, sum, offset, singles, tmp>>

\* The second single: one thread replaces the totals by the running totals, while
\* the others go on to its barrier.
Prefix(t) ==
  /\ pc[t] = "prefix"
  /\ IF "prefix" \in singles THEN Goto(t, "prefixed") /\ UNCHANGED i
                            ELSE Goto(t, "running") /\ i' = [i EXCEPT ![t] = 0]
  /\ singles' = singles \cup {"prefix"}
  /\ UNCHANGED <<size, calculated, suma, sum, offset, tmp>>

RunPrefix(t) ==
  /\ pc[t] = "running"
  /\ i[t] <= nthreads
  /\ tmp' = Add(tmp, suma[i[t]])
  /\ suma' = [suma EXCEPT ![i[t]] = tmp']
  /\ i' = [i EXCEPT ![t] = @ + 1]
  /\ UNCHANGED <<size, calculated, pc, sum, offset, singles>>

EndPrefix(t) ==
  /\ pc[t] = "running"
  /\ i[t] = nthreads + 1
  /\ Goto(t, "prefixed")
  /\ UNCHANGED <<size, calculated, suma, i, sum, offset, singles, tmp>>

\* The barrier of the single; the offset; and into the second loop.
EnterSecondInclusive(t) ==
  /\ pc[t] = "prefixed"
  /\ Reached("prefixed")
  /\ offset' = [offset EXCEPT ![t] = suma[t + 1]]
  /\ i' = [i EXCEPT ![t] = First(t, Blocks)]
  /\ Goto(t, "pass2")
  /\ UNCHANGED <<size, calculated, suma, sum, singles, tmp>>

EnterSecond(t) ==
  /\ pc[t] = "prefixed"
  /\ Reached("prefixed")
  /\ offset' = [offset EXCEPT ![t] = suma[t]]
  /\ i' = [i EXCEPT ![t] = First(t, Blocks)]
  /\ Goto(t, "pass2")
  /\ UNCHANGED <<size, calculated, suma, sum, singles, tmp>>

\* One block of the second pass.
BlockOfThree(b) == 4 * b .. 4 * b + 2
Block(b) == 4 * b .. 4 * b + 3
SecondPass(t) ==
  /\ pc[t] = "pass2"
  /\ i[t] < End(t, Blocks)
  /\ calculated' = [k \in 0..size - 1 |->
       IF k \in Block(i[t]) THEN Add(offset[t], calculated[k]) ELSE calculated[k]]
  /\ i' = [i EXCEPT ![t] = @ + 1]
  /\ UNCHANGED <<size, suma, pc, sum, offset, singles, tmp>>

\* The second loop is done; the region ends with a barrier.
Finish(t) ==
  /\ pc[t] = "pass2"
  /\ i[t] = End(t, Blocks)
  /\ Goto(t, "finish")
  /\ UNCHANGED <<size, calculated, suma, i, sum, offset, singles, tmp>>

Leave(t) ==
  /\ pc[t] = "finish"
  /\ Reached("finish")
  /\ Goto(t, "done")
  /\ UNCHANGED <<size, calculated, suma, i, sum, offset, singles, tmp>>

-----------------------------------------------------------------------------
(* The specification.                                                      *)

Step(t) ==
  \/ Alloc(t) \/ EnterFirst(t) \/ FirstPass(t) \/ Total(t) \/ Barrier(t)
  \/ Prefix(t) \/ RunPrefix(t) \/ EndPrefix(t) \/ EnterSecond(t) \/ SecondPass(t)
  \/ Finish(t) \/ Leave(t)

Finished == Reached("done") /\ UNCHANGED vars

Next == (\E t \in Threads : Step(t)) \/ Finished

Spec == Init /\ [][Next]_vars

-----------------------------------------------------------------------------
(* Properties.                                                             *)

\* The two loops divide the input at the same places.  Only then is the offset of
\* a thread the offset of its blocks.
Aligned == size % 4 = 0 /\ \A t \in Threads : First(t, size) = 4 * First(t, Blocks)

\* With such a division every element is the sum of those up to it.
ScanCorrect ==
  Aligned /\ Reached("done") => \A k \in 0..size - 1 : calculated[k] = Interval(0, k + 1)

\* README.md offers this function as the scan for any input ("3 : using intels SSE
\* registers with openmp enabled"): every element should be the sum of those up to
\* it, whatever the size.  The code breaks it where the two loops divide the input
\* at different places, and in the tail of a size that is no multiple of 4.
ScansEverySize ==
  Reached("done") => \A k \in 0..size - 1 : calculated[k] = Interval(0, k + 1)

\* Whatever the size, a thread adds the sum of all elements before its first one.
OffsetComplete ==
  \A t \in Threads : pc[t] \in {"pass2", "finish", "done"} =>
    offset[t] = Interval(0, First(t, size))

\* The elements and totals a thread's next step reads or writes.
Touches(t) ==
  CASE pc[t] = "pass1" /\ InFirst(t)            -> {<<"calculated", i[t]>>}
    [] pc[t] = "pass2" /\ i[t] < End(t, Blocks) -> {<<"calculated", k>> : k \in Block(i[t])}
    [] pc[t] = "pass1" /\ ~InFirst(t)           -> {<<"suma", t + 1>>}
    [] pc[t] = "running" /\ i[t] <= nthreads   -> {<<"suma", i[t]>>}
    [] pc[t] = "prefixed" /\ Reached("prefixed") -> {<<"suma", t>>}
    [] OTHER -> {}

\* No two threads access the same memory without a barrier in between, for every
\* size: each access of calculated and of suma is ordered or disjoint.
RaceFree ==
  \A t, u \in Threads :
    t # u => Touches(t) \cap Touches(u) = {}

=============================================================================
