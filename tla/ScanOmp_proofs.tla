----------------------------- MODULE ScanOmp_proofs -----------------------------
(***************************************************************************)
(* What holds of ScanOmp, for every number of threads and every size: the  *)
(* threads of scanCPU_OMP_SSE do not race, each adds the sum of what comes *)
(* before its part, and where the two loops divide the input at the same   *)
(* places the result is the scan.  Algorithms_proofs states it of a call.  *)
(***************************************************************************)
EXTENDS ScanOmp, TLAPS

-----------------------------------------------------------------------------
(* The way a team divides a loop: the parts of the threads follow each     *)
(* other from 0 to n and overlap nowhere.                                  *)

LEMMA Products == \A a, b, q \in Nat : a <= b => a * q <= b * q
<1> SUFFICES ASSUME NEW a \in Nat, NEW b \in Nat, NEW q \in Nat, a <= b
             PROVE  a * q <= b * q
  OBVIOUS
<1>1. b = a + (b - a) /\ b - a \in Nat
  OBVIOUS
<1>2. b * q = a * q + (b - a) * q
  BY <1>1
<1>3. (b - a) * q >= 0 /\ a * q \in Nat
  BY <1>1
<1> QED
  BY <1>2, <1>3

LEMMA Division ==
  ASSUME NEW n \in Nat
  PROVE  /\ n \div nthreads \in Nat
         /\ n % nthreads \in 0..nthreads - 1
         /\ n = nthreads * (n \div nthreads) + (n % nthreads)
<1>1. n \div nthreads \in Nat
  BY TeamAssumption
<1>2. n % nthreads \in 0..nthreads - 1
  BY TeamAssumption
<1>3. n = nthreads * (n \div nthreads) + (n % nthreads)
  BY TeamAssumption
<1> QED
  BY <1>1, <1>2, <1>3

LEMMA FirstNat ==
  ASSUME NEW n \in Nat, NEW t \in Nat
  PROVE  First(t, n) \in Nat
<1> DEFINE q == n \div nthreads
<1>1. q \in Nat /\ t * q \in Nat
  BY Division
<1> QED
  BY <1>1, Division, TeamAssumption DEF First

LEMMA FirstEnds == ASSUME NEW n \in Nat PROVE First(0, n) = 0 /\ First(nthreads, n) = n
<1> DEFINE q == n \div nthreads
<1>1. q \in Nat /\ 0 * q = 0
  BY Division
<1> QED
  BY <1>1, Division, TeamAssumption DEF First

LEMMA FirstMonotone ==
  ASSUME NEW n \in Nat, NEW t \in Nat, NEW u \in Nat, t <= u
  PROVE  First(t, n) <= First(u, n)
<1> DEFINE q == n \div nthreads
<1>1. q \in Nat /\ t * q \in Nat /\ u * q \in Nat /\ t * q <= u * q
  BY Division, Products
<1> HIDE DEF q
<1>2. First(t, n) = t * q + IF t < n % nthreads THEN t ELSE n % nthreads
  BY DEF First, q
<1>3. First(u, n) = u * q + IF u < n % nthreads THEN u ELSE n % nthreads
  BY DEF First, q
<1>4. n % nthreads \in Nat
  BY Division, TeamAssumption
<1> DEFINE a == t * q
           b == u * q
           r == n % nthreads
<1>5. a \in Nat /\ b \in Nat /\ a <= b /\ r \in Nat
  BY <1>1, <1>4
<1>6. First(t, n) = a + (IF t < r THEN t ELSE r) /\ First(u, n) = b + (IF u < r THEN u ELSE r)
  BY <1>2, <1>3
<1> HIDE DEF a, b, r
<1> QED
  BY <1>5, <1>6

LEMMA FirstCovers ==
  ASSUME NEW n \in Nat, NEW k \in 0..n - 1
  PROVE  \E t \in Threads : First(t, n) <= k /\ k < End(t, n)
<1> DEFINE q == n \div nthreads
           r == n % nthreads
<1>1. q \in Nat /\ r \in 0..nthreads - 1 /\ n = nthreads * q + r
  BY Division
<1>2. \A t \in Nat : First(t, n) = t * q + IF t < r THEN t ELSE r
  BY DEF First
<1>3. \A t \in Nat : End(t, n) = (t + 1) * q + IF t + 1 < r THEN t + 1 ELSE r
  BY <1>2 DEF End
<1> HIDE DEF q, r
<1>4. CASE k < r * (q + 1)
  <2> DEFINE t == k \div (q + 1)
  <2>1. t \in Nat /\ t * (q + 1) <= k /\ k < (t + 1) * (q + 1)
    BY <1>1
  <2> HIDE DEF t
  <2>2. t < r
    <3>1. r <= t => r * (q + 1) <= t * (q + 1)
      BY <1>1, <2>1, Products
    <3>2. r * (q + 1) \in Nat /\ t * (q + 1) \in Nat
      BY <1>1, <2>1
    <3> QED
      BY <3>1, <3>2, <2>1, <1>1, <1>4
  <2>3. t * (q + 1) = t * q + t /\ (t + 1) * (q + 1) = (t + 1) * q + (t + 1)
    BY <1>1, <2>1
  <2>4. t * q \in Nat /\ (t + 1) * q \in Nat
    BY <1>1, <2>1
  <2>5. First(t, n) = t * q + t /\ End(t, n) = (t + 1) * q + (t + 1)
    <3>1. First(t, n) = t * q + IF t < r THEN t ELSE r
      BY <1>2, <2>1
    <3>2. End(t, n) = (t + 1) * q + IF t + 1 < r THEN t + 1 ELSE r
      BY <1>3, <2>1
    <3>3. (IF t < r THEN t ELSE r) = t /\ (IF t + 1 < r THEN t + 1 ELSE r) = t + 1
      BY <1>1, <2>1, <2>2
    <3> QED
      BY <3>1, <3>2, <3>3
  <2> QED
    BY <1>1, <2>1, <2>2, <2>3, <2>5, TeamAssumption DEF Threads
<1>5. CASE ~ (k < r * (q + 1))
  <2>1. r * (q + 1) = r * q + r /\ r * q \in Nat /\ nthreads * q \in Nat
    BY <1>1, TeamAssumption
  <2>2. q > 0 /\ k - r \in Nat /\ k - r >= r * q /\ k - r < nthreads * q
    <3>1. q = 0 => nthreads * q = 0
      BY TeamAssumption
    <3> QED
      BY <1>1, <1>5, <2>1, <3>1
  <2> DEFINE t == (k - r) \div q
  <2>3. t \in Nat /\ t * q <= k - r /\ k - r < (t + 1) * q
    BY <1>1, <2>2
  <2> HIDE DEF t
  <2>4. t < nthreads
    <3>1. nthreads <= t => nthreads * q <= t * q
      BY <1>1, <2>3, Products, TeamAssumption
    <3>2. t * q \in Nat
      BY <1>1, <2>3
    <3> QED
      BY <3>1, <3>2, <2>1, <2>2, <2>3, <1>1, TeamAssumption
  <2>5. t >= r
    <3>1. t + 1 <= r => (t + 1) * q <= r * q
      BY <1>1, <2>3, Products
    <3>2. (t + 1) * q \in Nat
      BY <1>1, <2>3
    <3> QED
      BY <3>1, <3>2, <2>1, <2>2, <2>3, <1>1
  <2>6. t * q \in Nat /\ (t + 1) * q \in Nat
    BY <1>1, <2>3
  <2>7. First(t, n) = t * q + r /\ End(t, n) = (t + 1) * q + r
    <3>1. First(t, n) = t * q + IF t < r THEN t ELSE r
      BY <1>2, <2>3
    <3>2. End(t, n) = (t + 1) * q + IF t + 1 < r THEN t + 1 ELSE r
      BY <1>3, <2>3
    <3>3. (IF t < r THEN t ELSE r) = r /\ (IF t + 1 < r THEN t + 1 ELSE r) = r
      BY <1>1, <2>3, <2>5
    <3> QED
      BY <3>1, <3>2, <3>3
  <2> QED
    BY <1>1, <2>3, <2>4, <2>6, <2>7, TeamAssumption DEF Threads
<1> QED
  BY <1>4, <1>5

-----------------------------------------------------------------------------
(* Sums.                                                                   *)

LEMMA SumTypes ==
  ASSUME NEW n \in Nat
  PROVE  /\ Zero \in SumsOver(n) /\ Wrong \in SumsOver(n)
         /\ \A a, b \in 0..n : Interval(a, b) \in SumsOver(n)
         /\ \A a, b \in SumsOver(n) : Add(a, b) \in SumsOver(n)
<1>1. Zero \in SumsOver(n) /\ Wrong \in SumsOver(n)
  BY DEF Zero, Wrong, SumsOver
<1>2. ASSUME NEW a \in 0..n, NEW b \in 0..n PROVE Interval(a, b) \in SumsOver(n)
  BY <1>1 DEF Interval, SumsOver
<1>3. ASSUME NEW a \in SumsOver(n), NEW b \in SumsOver(n) PROVE Add(a, b) \in SumsOver(n)
  <2>1. CASE a = Zero
    BY <2>1 DEF Add
  <2>2. CASE a # Zero /\ b = Zero
    BY <2>2 DEF Add
  <2>3. CASE a # Zero /\ b # Zero /\ ~(a[2] = b[1] /\ a # Wrong)
    <3>1. Add(a, b) = Wrong
      BY <2>3 DEF Add
    <3> QED
      BY <3>1, <1>1
  <2>4. CASE a # Zero /\ b # Zero /\ a[2] = b[1] /\ a # Wrong
    <3>1. Add(a, b) = <<a[1], b[2]>>
      BY <2>4 DEF Add
    <3>2. a \in (0..n) \X (0..n)
      BY <2>4 DEF SumsOver
    <3>3. b # Wrong
      BY <2>4, <3>2 DEF Wrong
    <3>4. b \in (0..n) \X (0..n)
      BY <3>3 DEF SumsOver
    <3> QED
      BY <3>1, <3>2, <3>4 DEF SumsOver
  <2> QED
    BY <2>1, <2>2, <2>3, <2>4
<1> QED
  BY <1>1, <1>2, <1>3

LEMMA AddIntervals ==
  ASSUME NEW a \in Nat, NEW b \in Nat, NEW c \in Nat, a <= b, b <= c
  PROVE  Add(Interval(a, b), Interval(b, c)) = Interval(a, c)
<1>1. CASE a = b
  <2>1. Interval(a, b) = Zero
    BY <1>1 DEF Interval
  <2> QED
    BY <1>1, <2>1 DEF Add
<1>2. CASE a # b /\ b = c
  <2>1. Interval(b, c) = Zero /\ Interval(a, b) = <<a, b>>
    BY <1>2 DEF Interval
  <2>2. <<a, b>> # Zero
    BY <1>2 DEF Zero
  <2> QED
    BY <1>2, <2>1, <2>2 DEF Add
<1>3. CASE a # b /\ b # c
  <2>1. Interval(a, b) = <<a, b>> /\ Interval(b, c) = <<b, c>> /\ Interval(a, c) = <<a, c>>
    BY <1>3 DEF Interval
  <2>2. <<a, b>> # Zero /\ <<b, c>> # Zero /\ <<a, b>> # Wrong
    BY <1>3 DEF Zero, Wrong
  <2>3. <<a, b>>[1] = a /\ <<a, b>>[2] = b /\ <<b, c>>[1] = b /\ <<b, c>>[2] = c
    OBVIOUS
  <2> QED
    BY <2>1, <2>2, <2>3 DEF Add
<1> QED
  BY <1>1, <1>2, <1>3

LEMMA EmptyInterval == \A a : Interval(a, a) = Zero
BY DEF Interval

-----------------------------------------------------------------------------
(* The inductive invariant.                                                *)

\* The points after the first barrier, after the second, after the second single, and
\* in or after the second loop.
Started  == {"pass1", "total", "prefix", "running", "prefixed", "pass2", "finish", "done"}
Met      == {"prefix", "running", "prefixed", "pass2", "finish", "done"}
Shared   == {"running", "prefixed", "pass2", "finish", "done"}
Second   == {"pass2", "finish", "done"}

\* What the barriers and the singles order: how far the others are when one is at some
\* point.
OrderInv ==
  /\ \A t \in Threads :
       /\ pc[t] # "alloc" => "alloc" \in singles
       /\ pc[t] \in Shared => "prefix" \in singles
       /\ "prefix" \in singles => pc[t] \notin {"alloc", "allocated", "pass1"}
  /\ \A t, u \in Threads :
       /\ pc[t] \in Started => pc[u] # "alloc"
       /\ pc[t] \in Met => pc[u] \notin {"alloc", "allocated", "pass1"}
       /\ pc[t] \in Second => pc[u] \notin {"total", "prefix", "running"}
       /\ pc[t] = "running" /\ pc[u] = "running" => t = u

\* Where a thread is in its loops, what it has summed up, and the offset it has read.
LoopOf(t) ==
  /\ pc[t] \in {"alloc", "allocated"} => sum[t] = Zero
  /\ pc[t] = "pass1" =>
       /\ First(t, size) <= i[t] /\ i[t] <= End(t, size)
       /\ sum[t] = Interval(First(t, size), i[t])
  /\ pc[t] \in Second =>
       /\ First(t, Blocks) <= i[t] /\ i[t] <= End(t, Blocks)
       /\ offset[t] = Interval(0, First(t, size))
  /\ pc[t] \in {"finish", "done"} => i[t] = End(t, Blocks)

LoopInv == \A t \in Threads : LoopOf(t)

\* suma: first the total of each thread that has one, then running totals up to the
\* counter of the thread in the second single, then running totals.
TotalOf(t) ==
  "prefix" \notin singles /\ pc[t] \in {"total", "prefix"} =>
    suma[t + 1] = Interval(First(t, size), End(t, size))

RunningOf(t) ==
  pc[t] = "running" =>
    /\ i[t] \in 0..nthreads + 1
    /\ i[t] = 0 => tmp = Zero
    /\ i[t] > 0 => tmp = suma[i[t] - 1]
    /\ \A k \in 0..nthreads : k < i[t] => suma[k] = Interval(0, First(k, size))
    /\ \A k \in 1..nthreads : k >= i[t] =>
         suma[k] = Interval(First(k - 1, size), First(k, size))

TotalsInv ==
  /\ "alloc" \in singles => suma[0] = Zero
  /\ "prefix" \notin singles => tmp = Zero
  /\ \A t \in Threads : TotalOf(t) /\ RunningOf(t)
  /\ "prefix" \in singles /\ (\A u \in Threads : pc[u] # "running") =>
       \A k \in 0..nthreads : suma[k] = Interval(0, First(k, size))

\* The elements of a thread: the sums from its first one on, to which the second loop
\* adds what comes before, block by block.
ElementsOf(t) ==
  /\ pc[t] = "pass1" => \A k \in First(t, size)..i[t] - 1 :
       calculated[k] = Interval(First(t, size), k + 1)
  /\ pc[t] \in {"total", "prefix", "running", "prefixed"} =>
       \A k \in First(t, size)..End(t, size) - 1 :
         calculated[k] = Interval(First(t, size), k + 1)
  /\ pc[t] \in Second => \A k \in First(t, size)..End(t, size) - 1 :
       /\ k < 4 * i[t] => calculated[k] = Interval(0, k + 1)
       /\ k >= 4 * i[t] => calculated[k] = Interval(First(t, size), k + 1)

ElementsInv == Aligned => \A t \in Threads : ElementsOf(t)

ScanOmpInv == TypeOK /\ OrderInv /\ LoopInv /\ TotalsInv /\ ElementsInv

-----------------------------------------------------------------------------
(* Barriers.                                                               *)

LEMMA PointFacts ==
  /\ Points = {"alloc", "allocated", "pass1", "total", "prefix", "running", "prefixed",
               "pass2", "finish", "done"}
  /\ Place["alloc"] = 1 /\ Place["allocated"] = 2 /\ Place["pass1"] = 3
  /\ Place["total"] = 4 /\ Place["prefix"] = 5 /\ Place["running"] = 6
  /\ Place["prefixed"] = 7 /\ Place["pass2"] = 8 /\ Place["finish"] = 9
  /\ Place["done"] = 10
BY DEF Points, Place

LEMMA ReachedFacts ==
  ASSUME TypeOK
  PROVE  /\ Reached("allocated") <=> \A u \in Threads : pc[u] # "alloc"
         /\ Reached("total") <=> \A u \in Threads : pc[u] \notin {"alloc", "allocated", "pass1"}
         /\ Reached("prefixed") <=>
              \A u \in Threads : pc[u] \in {"prefixed", "pass2", "finish", "done"}
         /\ Reached("done") <=> \A u \in Threads : pc[u] = "done"
<1>1. \A u \in Threads : pc[u] \in Points
  BY DEF TypeOK
<1>2. \A p \in Points : /\ Place[p] >= 2 <=> p # "alloc"
                        /\ Place[p] >= 4 <=> p \notin {"alloc", "allocated", "pass1"}
                        /\ Place[p] >= 7 <=> p \in {"prefixed", "pass2", "finish", "done"}
                        /\ Place[p] >= 10 <=> p = "done"
  BY PointFacts
<1> QED
  BY <1>1, <1>2, PointFacts DEF Reached

LEMMA OrderInitially == Init => OrderInv
BY DEF Init, OrderInv, Started, Met, Shared, Second

LEMMA OrderStep ==
  ASSUME TypeOK, OrderInv, NEW t \in Threads, Step(t)
  PROVE  OrderInv'
<1> USE DEF OrderInv, Started, Met, Shared, Second
<1>1. pc \in [Threads -> Points]
  BY DEF TypeOK
<1>2. CASE Alloc(t)
  <2>1. /\ pc[t] = "alloc" /\ pc' = [pc EXCEPT ![t] = "allocated"]
        /\ singles' = singles \cup {"alloc"}
    BY <1>2 DEF Alloc, Goto
  <2> QED
    BY <1>1, <2>1
<1>3. CASE EnterFirst(t)
  <2>1. pc[t] = "allocated" /\ pc' = [pc EXCEPT ![t] = "pass1"] /\ singles' = singles
    BY <1>3 DEF EnterFirst, Goto
  <2>2. \A u \in Threads : pc[u] # "alloc"
    BY <1>3, ReachedFacts DEF EnterFirst
  <2> QED
    BY <1>1, <2>1, <2>2
<1>4. CASE FirstPass(t) \/ RunPrefix(t) \/ SecondPass(t)
  <2>1. pc' = pc /\ singles' = singles
    BY <1>4 DEF FirstPass, RunPrefix, SecondPass
  <2> QED
    BY <2>1
<1>5. CASE Total(t)
  <2>1. pc[t] = "pass1" /\ pc' = [pc EXCEPT ![t] = "total"] /\ singles' = singles
    BY <1>5 DEF Total, Goto
  <2> QED
    BY <1>1, <2>1
<1>6. CASE Barrier(t)
  <2>1. pc[t] = "total" /\ pc' = [pc EXCEPT ![t] = "prefix"] /\ singles' = singles
    BY <1>6 DEF Barrier, Goto
  <2>2. \A u \in Threads : pc[u] \notin {"alloc", "allocated", "pass1"}
    BY <1>6, ReachedFacts DEF Barrier
  <2> QED
    BY <1>1, <2>1, <2>2
<1>7. CASE Prefix(t)
  <2>1. /\ pc[t] = "prefix" /\ singles' = singles \cup {"prefix"}
        /\ pc' = [pc EXCEPT ![t] = IF "prefix" \in singles THEN "prefixed" ELSE "running"]
    BY <1>7 DEF Prefix, Goto
  <2>2. CASE "prefix" \in singles
    <3>1. pc' = [pc EXCEPT ![t] = "prefixed"]
      BY <2>1, <2>2
    <3> QED
      BY <1>1, <2>1, <2>2, <3>1
  <2>3. CASE "prefix" \notin singles
    <3>1. pc' = [pc EXCEPT ![t] = "running"]
      BY <2>1, <2>3
    <3> QED
      BY <1>1, <2>1, <2>3, <3>1
  <2> QED
    BY <2>2, <2>3
<1>8. CASE EndPrefix(t)
  <2>1. pc[t] = "running" /\ pc' = [pc EXCEPT ![t] = "prefixed"] /\ singles' = singles
    BY <1>8 DEF EndPrefix, Goto
  <2> QED
    BY <1>1, <2>1
<1>9. CASE EnterSecond(t)
  <2>1. pc[t] = "prefixed" /\ pc' = [pc EXCEPT ![t] = "pass2"] /\ singles' = singles
    BY <1>9 DEF EnterSecond, Goto
  <2>2. \A u \in Threads : pc[u] \in {"prefixed", "pass2", "finish", "done"}
    BY <1>9, ReachedFacts DEF EnterSecond
  <2> QED
    BY <1>1, <2>1, <2>2
<1>10. CASE Finish(t)
  <2>1. pc[t] = "pass2" /\ pc' = [pc EXCEPT ![t] = "finish"] /\ singles' = singles
    BY <1>10 DEF Finish, Goto
  <2> QED
    BY <1>1, <2>1
<1>11. CASE Leave(t)
  <2>1. pc[t] = "finish" /\ pc' = [pc EXCEPT ![t] = "done"] /\ singles' = singles
    BY <1>11 DEF Leave, Goto
  <2> QED
    BY <1>1, <2>1
<1> QED
  BY <1>2, <1>3, <1>4, <1>5, <1>6, <1>7, <1>8, <1>9, <1>10, <1>11 DEF Step

-----------------------------------------------------------------------------
(* Types.                                                                  *)

LEMMA Sides ==
  ASSUME size \in Sizes
  PROVE  /\ size \in Nat /\ Blocks \in Nat /\ Blocks <= size
         /\ nthreads \in Nat \ {0}
         /\ \A t \in Threads : t \in 0..nthreads /\ t + 1 \in 0..nthreads
BY ScanAssumption, TeamAssumption DEF Blocks, Threads

\* What First and End give, for the input and for its blocks.
LEMMA Parts ==
  ASSUME size \in Sizes, NEW n \in {size, Blocks}
  PROVE  /\ \A k \in 0..nthreads : First(k, n) \in 0..n /\ First(k, n) \in 0..size
         /\ \A k, l \in 0..nthreads : k <= l => First(k, n) <= First(l, n)
         /\ \A t \in Threads : End(t, n) = First(t + 1, n) /\ First(t, n) <= End(t, n)
         /\ \A t \in Threads : First(t, n) \in 0..n /\ End(t, n) \in 0..n
         /\ \A t, u \in Threads : t < u => End(t, n) <= First(u, n)
         /\ First(0, n) = 0 /\ First(nthreads, n) = n
<1>1. n \in Nat /\ n <= size
  BY Sides
<1>2. \A k, l \in 0..nthreads : k <= l => First(k, n) <= First(l, n)
  BY <1>1, FirstMonotone
<1>3. First(0, n) = 0 /\ First(nthreads, n) = n
  BY <1>1, FirstEnds
<1>4. \A k \in 0..nthreads : First(k, n) \in Nat /\ First(k, n) <= n
  <2> SUFFICES ASSUME NEW k \in 0..nthreads PROVE First(k, n) \in Nat /\ First(k, n) <= n
    OBVIOUS
  <2>1. k \in Nat /\ k <= nthreads /\ nthreads \in 0..nthreads
    BY TeamAssumption
  <2>2. First(k, n) <= First(nthreads, n)
    BY <1>2, <2>1
  <2> QED
    BY <1>1, <1>3, <2>1, <2>2, FirstNat
<1>5. \A t \in Threads : End(t, n) = First(t + 1, n)
  BY DEF End
<1>6. \A t \in Threads : t \in 0..nthreads /\ t + 1 \in 0..nthreads
  BY Sides
<1>7. \A t, u \in Threads : t < u => t + 1 <= u
  BY DEF Threads
<1> QED
  BY <1>1, <1>2, <1>3, <1>4, <1>5, <1>6, <1>7, Sides

LEMMA PartsDisjoint ==
  ASSUME size \in Sizes, NEW n \in {size, Blocks}, NEW t \in Threads, NEW u \in Threads, t # u,
         NEW j \in First(t, n)..End(t, n) - 1, NEW k \in First(u, n)..End(u, n) - 1
  PROVE  j # k /\ j \in Int /\ k \in Int
<1>1. First(t, n) \in Int /\ First(u, n) \in Int /\ End(t, n) \in Int /\ End(u, n) \in Int
  BY Parts, Sides
<1>2. End(t, n) <= First(u, n) \/ End(u, n) <= First(t, n)
  BY Parts DEF Threads
<1> QED
  BY <1>1, <1>2

LEMMA TypeInitially == Init => TypeOK
<1> SUFFICES ASSUME Init PROVE TypeOK
  OBVIOUS
<1>1. size \in Sizes /\ size \in Nat
  BY Sides DEF Init
<1>2. pc \in [Threads -> Points]
  BY PointFacts DEF Init
<1>3. i \in [Threads -> 0..size \cup 0..nthreads + 1]
  BY <1>1 DEF Init
<1> QED
  BY <1>1, <1>2, <1>3, SumTypes DEF Init, TypeOK

LEMMA TypeStep ==
  ASSUME TypeOK, NEW t \in Threads, Step(t)
  PROVE  TypeOK'
<1>1. size' = size
  BY DEF Step, Alloc, EnterFirst, FirstPass, Total, Barrier, Prefix, RunPrefix, EndPrefix,
    EnterSecond, SecondPass, Finish, Leave
<1>2. size \in Sizes /\ size \in Nat /\ Blocks <= size /\ Blocks \in Nat
  BY Sides DEF TypeOK
<1>3. pc' \in [Threads -> Points]
  BY PointFacts DEF TypeOK, Goto, Step, Alloc, EnterFirst, FirstPass, Total, Barrier, Prefix,
    RunPrefix, EndPrefix, EnterSecond, SecondPass, Finish, Leave
<1>4. singles' \subseteq {"alloc", "prefix"}
  BY DEF TypeOK, Step, Alloc, EnterFirst, FirstPass, Total, Barrier, Prefix, RunPrefix,
    EndPrefix, EnterSecond, SecondPass, Finish, Leave
<1>5. Element(i[t]) \in SumsOver(size) \/ ~InFirst(t)
  <2>1. InFirst(t) => i[t] \in 0..size /\ i[t] + 1 \in 0..size
    BY <1>2, Parts DEF InFirst, TypeOK
  <2> QED
    BY <1>2, <2>1, SumTypes DEF Element
<1>6. /\ sum' \in [Threads -> SumsOver(size)]
      /\ calculated' \in [0..size - 1 -> SumsOver(size)]
  <2>1. CASE FirstPass(t)
    <3>1. sum' = [sum EXCEPT ![t] = Add(sum[t], Element(i[t]))]
      BY <2>1 DEF FirstPass
    <3>2. Add(sum[t], Element(i[t])) \in SumsOver(size)
      BY <1>2, <1>5, <2>1, SumTypes DEF TypeOK, FirstPass
    <3>3. sum' \in [Threads -> SumsOver(size)] /\ sum'[t] \in SumsOver(size)
      BY <3>1, <3>2 DEF TypeOK
    <3>4. calculated' = [calculated EXCEPT ![i[t]] = sum'[t]]
      BY <2>1 DEF FirstPass
    <3> QED
      BY <3>3, <3>4 DEF TypeOK
  <2>2. CASE SecondPass(t)
    <3>1. sum' = sum /\ calculated' = [k \in 0..size - 1 |->
             IF k \in Block(i[t]) THEN Add(offset[t], calculated[k]) ELSE calculated[k]]
      BY <2>2 DEF SecondPass
    <3>2. \A k \in 0..size - 1 :
            calculated[k] \in SumsOver(size) /\ Add(offset[t], calculated[k]) \in SumsOver(size)
      BY <1>2, SumTypes DEF TypeOK
    <3> QED
      BY <3>1, <3>2 DEF TypeOK
  <2>3. CASE ~FirstPass(t) /\ ~SecondPass(t)
    <3>1. sum' = sum /\ calculated' = calculated
      BY <2>3 DEF Step, Alloc, EnterFirst, Total, Barrier, Prefix, RunPrefix, EndPrefix,
        EnterSecond, Finish, Leave
    <3> QED
      BY <3>1 DEF TypeOK
  <2> QED
    BY <2>1, <2>2, <2>3
<1>7. /\ suma' \in [0..nthreads -> SumsOver(size)]
      /\ tmp' \in SumsOver(size)
  <2>1. CASE Alloc(t)
    <3>1. tmp' = tmp /\ (suma' = suma \/ suma' = [suma EXCEPT ![0] = Zero])
      BY <2>1 DEF Alloc
    <3> QED
      BY <1>2, <3>1, SumTypes DEF TypeOK
  <2>2. CASE Total(t)
    <3>1. tmp' = tmp /\ suma' = [suma EXCEPT ![t + 1] = sum[t]]
      BY <2>2 DEF Total
    <3> QED
      BY <3>1 DEF TypeOK
  <2>3. CASE RunPrefix(t)
    <3>1. i[t] \in 0..nthreads
      BY <1>2, <2>3, TeamAssumption DEF RunPrefix, TypeOK
    <3>2. tmp' = Add(tmp, suma[i[t]])
      BY <2>3 DEF RunPrefix
    <3>3. tmp' \in SumsOver(size)
      BY <1>2, <3>1, <3>2, SumTypes DEF TypeOK
    <3>4. suma' = [suma EXCEPT ![i[t]] = tmp']
      BY <2>3 DEF RunPrefix
    <3> QED
      BY <3>3, <3>4 DEF TypeOK
  <2>4. CASE ~Alloc(t) /\ ~Total(t) /\ ~RunPrefix(t)
    <3>1. suma' = suma /\ tmp' = tmp
      BY <2>4 DEF Step, EnterFirst, FirstPass, Barrier, Prefix, EndPrefix, EnterSecond,
        SecondPass, Finish, Leave
    <3> QED
      BY <3>1 DEF TypeOK
  <2> QED
    BY <2>1, <2>2, <2>3, <2>4
<1>8. offset' \in [Threads -> SumsOver(size)]
  <2>1. CASE EnterSecond(t)
    <3>1. offset' = [offset EXCEPT ![t] = suma[t]]
      BY <2>1 DEF EnterSecond
    <3>2. suma[t] \in SumsOver(size)
      BY <1>2, Sides DEF TypeOK
    <3> QED
      BY <3>1, <3>2 DEF TypeOK
  <2>2. CASE ~EnterSecond(t)
    <3>1. offset' = offset
      BY <2>2 DEF Step, Alloc, EnterFirst, FirstPass, Total, Barrier, Prefix, RunPrefix,
        EndPrefix, SecondPass, Finish, Leave
    <3> QED
      BY <3>1 DEF TypeOK
  <2> QED
    BY <2>1, <2>2
<1>9. i' \in [Threads -> 0..size \cup 0..nthreads + 1]
  <2>1. PICK j : j \in 0..size \cup 0..nthreads + 1 /\ i' = [i EXCEPT ![t] = j]
    <3>1. CASE EnterFirst(t)
      <4>1. First(t, size) \in 0..size
        BY <1>2, Parts
      <4> QED
        BY <3>1, <4>1 DEF EnterFirst
    <3>2. CASE FirstPass(t)
      <4>1. i[t] \in Int /\ i[t] >= 0 /\ i[t] < End(t, size) /\ End(t, size) \in 0..size
        BY <1>2, <3>2, Parts, TeamAssumption DEF FirstPass, InFirst, TypeOK
      <4>2. i' = [i EXCEPT ![t] = i[t] + 1]
        BY <3>2 DEF FirstPass
      <4>3. i[t] + 1 \in 0..size
        BY <4>1, <1>2
      <4> QED
        BY <4>2, <4>3
    <3>3. CASE Prefix(t)
      <4>1. i' = i \/ i' = [i EXCEPT ![t] = 0]
        BY <3>3 DEF Prefix
      <4>2. i = [i EXCEPT ![t] = i[t]] /\ i[t] \in 0..size \cup 0..nthreads + 1
        BY DEF TypeOK
      <4>3. 0 \in 0..size
        BY <1>2
      <4> QED
        BY <4>1, <4>2, <4>3
    <3>4. CASE RunPrefix(t)
      <4>1. i[t] \in Int /\ i[t] >= 0 /\ i[t] <= nthreads
        BY <1>2, <3>4, TeamAssumption DEF RunPrefix, TypeOK
      <4>2. i' = [i EXCEPT ![t] = i[t] + 1]
        BY <3>4 DEF RunPrefix
      <4>3. i[t] + 1 \in 0..nthreads + 1
        BY <4>1, TeamAssumption
      <4> QED
        BY <4>2, <4>3
    <3>5. CASE EnterSecond(t)
      <4>1. First(t, Blocks) \in 0..size
        BY <1>2, Parts
      <4> QED
        BY <3>5, <4>1 DEF EnterSecond
    <3>6. CASE SecondPass(t)
      <4>1. i[t] \in Int /\ i[t] >= 0 /\ i[t] < End(t, Blocks) /\ End(t, Blocks) \in 0..size
        BY <1>2, <3>6, Parts, TeamAssumption DEF SecondPass, TypeOK
      <4>2. i' = [i EXCEPT ![t] = i[t] + 1]
        BY <3>6 DEF SecondPass
      <4>3. i[t] + 1 \in 0..size
        BY <4>1, <1>2
      <4> QED
        BY <4>2, <4>3
    <3>7. CASE Alloc(t) \/ Total(t) \/ Barrier(t) \/ EndPrefix(t) \/ Finish(t) \/ Leave(t)
      <4>1. i' = i
        BY <3>7 DEF Alloc, Total, Barrier, EndPrefix, Finish, Leave
      <4>2. i = [i EXCEPT ![t] = i[t]] /\ i[t] \in 0..size \cup 0..nthreads + 1
        BY DEF TypeOK
      <4> QED
        BY <4>1, <4>2
    <3> QED
      BY <3>1, <3>2, <3>3, <3>4, <3>5, <3>6, <3>7 DEF Step
  <2> QED
    BY <2>1 DEF TypeOK
<1> QED
  BY <1>1, <1>2, <1>3, <1>4, <1>6, <1>7, <1>8, <1>9 DEF TypeOK

-----------------------------------------------------------------------------
(* Loops and totals.                                                       *)

\* What a step leaves alone.
LEMMA Frame ==
  ASSUME TypeOK, NEW t \in Threads, Step(t)
  PROVE  /\ size' = size
         /\ \A u \in Threads \ {t} : /\ pc'[u] = pc[u] /\ i'[u] = i[u]
                                     /\ sum'[u] = sum[u] /\ offset'[u] = offset[u]
BY DEF TypeOK, Goto, Step, Alloc, EnterFirst, FirstPass, Total, Barrier, Prefix, RunPrefix,
  EndPrefix, EnterSecond, SecondPass, Finish, Leave

LEMMA Same ==
  ASSUME size' = size, NEW k
  PROVE  /\ Blocks' = Blocks
         /\ First(k, size)' = First(k, size) /\ End(k, size)' = End(k, size)
         /\ First(k, Blocks)' = First(k, Blocks) /\ End(k, Blocks)' = End(k, Blocks)
         /\ Aligned' = Aligned
BY DEF Blocks, First, End, Aligned

LEMMA LoopInitially == Init => LoopInv
BY DEF Init, LoopInv, LoopOf, Second

LEMMA LoopStep ==
  ASSUME TypeOK, OrderInv, LoopInv, TotalsInv, NEW t \in Threads, Step(t)
  PROVE  LoopInv'
<1>1. size' = size /\ size \in Sizes /\ size \in Nat /\ Blocks \in Nat
  BY Frame, Sides DEF TypeOK
<1>2. \A u \in Threads : u # t => LoopOf(u)'
  BY <1>1, Frame, Same DEF LoopInv, LoopOf, Second
<1>3. /\ t \in 0..nthreads /\ t + 1 \in 0..nthreads /\ i[t] \in Int /\ i'[t] \in Int
      /\ pc[t] \in Points
  <2>1. TypeOK'
    BY TypeStep
  <2> QED
    BY <1>1, <2>1, Sides, TeamAssumption DEF TypeOK
<1>4. /\ First(t, size) \in Nat /\ End(t, size) \in Nat /\ First(t, size) <= End(t, size)
      /\ First(t, Blocks) \in Nat /\ End(t, Blocks) \in Nat
      /\ First(t, Blocks) <= End(t, Blocks)
  BY <1>1, Parts
<1>5. LoopOf(t)
  BY DEF LoopInv
<1>6. LoopOf(t)'
  <2>1. CASE Alloc(t)
    <3>1. pc[t] = "alloc" /\ pc'[t] = "allocated" /\ sum'[t] = sum[t]
      BY <2>1 DEF Alloc, Goto, TypeOK
    <3> QED
      BY <3>1, <1>5 DEF LoopOf, Second
  <2>2. CASE EnterFirst(t)
    <3>1. pc[t] = "allocated" /\ pc'[t] = "pass1" /\ sum'[t] = sum[t] /\ i'[t] = First(t, size)
      BY <2>2 DEF EnterFirst, Goto, TypeOK
    <3>2. sum'[t] = Interval(First(t, size), First(t, size))
      BY <3>1, <1>5, EmptyInterval DEF LoopOf
    <3> QED
      BY <3>1, <3>2, <1>1, <1>4, Same DEF LoopOf, Second
  <2>3. CASE FirstPass(t)
    <3>1. /\ pc[t] = "pass1" /\ pc'[t] = "pass1" /\ i'[t] = i[t] + 1 /\ i[t] < End(t, size)
          /\ sum'[t] = Add(sum[t], Element(i[t]))
      BY <2>3 DEF FirstPass, InFirst, TypeOK
    <3>2. First(t, size) <= i[t] /\ sum[t] = Interval(First(t, size), i[t])
      BY <3>1, <1>5 DEF LoopOf
    <3>3. sum'[t] = Interval(First(t, size), i[t] + 1)
      BY <3>1, <3>2, <1>3, <1>4, AddIntervals DEF Element
    <3> QED
      BY <3>1, <3>2, <3>3, <1>1, <1>3, <1>4, Same DEF LoopOf, Second
  <2>4. CASE Total(t) \/ Barrier(t) \/ Prefix(t) \/ RunPrefix(t) \/ EndPrefix(t)
    <3>1. pc'[t] \in {"total", "prefix", "running", "prefixed"}
      BY <2>4 DEF Total, Barrier, Prefix, RunPrefix, EndPrefix, Goto, TypeOK
    <3> QED
      BY <3>1 DEF LoopOf, Second
  <2>5. CASE EnterSecond(t)
    <3>1. /\ pc[t] = "prefixed" /\ pc'[t] = "pass2" /\ i'[t] = First(t, Blocks)
          /\ offset'[t] = suma[t]
      BY <2>5 DEF EnterSecond, Goto, TypeOK
    <3>2. \A u \in Threads : pc[u] # "running"
      BY <2>5, ReachedFacts DEF EnterSecond
    <3>3. "prefix" \in singles
      BY <3>1 DEF OrderInv, Shared
    <3>4. suma[t] = Interval(0, First(t, size))
      BY <3>2, <3>3, <1>3 DEF TotalsInv
    <3> QED
      BY <3>1, <3>4, <1>1, <1>4, Same DEF LoopOf, Second
  <2>6. CASE SecondPass(t)
    <3>1. /\ pc[t] = "pass2" /\ pc'[t] = "pass2" /\ i'[t] = i[t] + 1 /\ i[t] < End(t, Blocks)
          /\ offset'[t] = offset[t]
      BY <2>6 DEF SecondPass, TypeOK
    <3> QED
      BY <3>1, <1>1, <1>3, <1>4, <1>5, Same DEF LoopOf, Second
  <2>7. CASE Finish(t)
    <3>1. /\ pc[t] = "pass2" /\ pc'[t] = "finish" /\ i'[t] = i[t] /\ i[t] = End(t, Blocks)
          /\ offset'[t] = offset[t]
      BY <2>7 DEF Finish, Goto, TypeOK
    <3> QED
      BY <3>1, <1>1, <1>3, <1>4, <1>5, Same DEF LoopOf, Second
  <2>8. CASE Leave(t)
    <3>1. pc[t] = "finish" /\ pc'[t] = "done" /\ i'[t] = i[t] /\ offset'[t] = offset[t]
      BY <2>8 DEF Leave, Goto, TypeOK
    <3> QED
      BY <3>1, <1>1, <1>3, <1>4, <1>5, Same DEF LoopOf, Second
  <2> QED
    BY <2>1, <2>2, <2>3, <2>4, <2>5, <2>6, <2>7, <2>8 DEF Step
<1> QED
  BY <1>2, <1>6 DEF LoopInv

LEMMA TotalsInitially == Init => TotalsInv
BY DEF Init, TotalsInv, TotalOf, RunningOf

LEMMA TotalsStep ==
  ASSUME TypeOK, OrderInv, LoopInv, TotalsInv, NEW t \in Threads, Step(t)
  PROVE  TotalsInv'
<1>1. size' = size /\ size \in Sizes /\ size \in Nat /\ nthreads \in Nat \ {0}
  BY Frame, Sides DEF TypeOK
<1>2. \A k \in 0..nthreads : First(k, size)' = First(k, size) /\ First(k, size) \in Nat
  BY <1>1, Same, Parts
<1>3. \A k \in 1..nthreads : First(k - 1, size)' = First(k - 1, size)
  BY <1>1, Same
<1>4. \A u \in Threads : First(u, size)' = First(u, size) /\ End(u, size)' = End(u, size)
  BY <1>1, Same
<1>5. \A u \in Threads : u \in Int /\ u + 1 \in 1..nthreads /\ u \in 0..nthreads
  BY <1>1, Sides DEF Threads
<1>6. \A u \in Threads : pc[u] \in Points /\ pc'[u] \in Points
  <2>1. TypeOK'
    BY TypeStep
  <2> QED
    BY <2>1 DEF TypeOK
<1>7. ASSUME suma' = suma, tmp' = tmp, singles' = singles,
             pc[t] \notin {"prefix", "running"}, pc'[t] # "running",
             pc'[t] \in {"total", "prefix"} => pc[t] \in {"total", "prefix"}
      PROVE  TotalsInv'
  <2>1. \A u \in Threads : u # t => TotalOf(u)'
    BY <1>7, <1>4, Frame DEF TotalsInv, TotalOf
  <2>2. TotalOf(t)'
    BY <1>7, <1>4 DEF TotalsInv, TotalOf
  <2>3. \A u \in Threads : RunningOf(u)'
    BY <1>7, <1>2, <1>3, Frame DEF TotalsInv, RunningOf
  <2>4. \A u \in Threads : pc'[u] = "running" <=> pc[u] = "running"
    BY <1>7, Frame
  <2> QED
    BY <1>7, <2>1, <2>2, <2>3, <2>4, <1>2 DEF TotalsInv
<1>8. CASE \/ EnterFirst(t) \/ FirstPass(t) \/ Barrier(t) \/ EnterSecond(t)
           \/ SecondPass(t) \/ Finish(t) \/ Leave(t)
  <2>1. /\ suma' = suma /\ tmp' = tmp /\ singles' = singles
        /\ pc[t] \notin {"prefix", "running"} /\ pc'[t] # "running"
        /\ pc'[t] \in {"total", "prefix"} => pc[t] \in {"total", "prefix"}
    BY <1>8 DEF EnterFirst, FirstPass, Barrier, EnterSecond, SecondPass, Finish, Leave,
      Goto, TypeOK
  <2> QED
    BY <2>1, <1>7
<1>9. CASE Alloc(t)
  <2>1. /\ tmp' = tmp /\ singles' = singles \cup {"alloc"}
        /\ pc[t] = "alloc" /\ pc'[t] = "allocated"
    BY <1>9 DEF Alloc, Goto, TypeOK
  <2>2. suma'[0] = Zero
    <3>1. 0 \in 0..nthreads /\ suma \in [0..nthreads -> SumsOver(size)]
      BY <1>1 DEF TypeOK
    <3>2. CASE suma' = [suma EXCEPT ![0] = Zero]
      BY <3>1, <3>2
    <3>3. CASE "alloc" \in singles /\ suma' = suma
      BY <3>3 DEF TotalsInv
    <3> QED
      BY <1>9, <3>2, <3>3 DEF Alloc
  <2>3. "prefix" \notin singles'
    BY <2>1 DEF OrderInv
  <2>4. \A u \in Threads : pc'[u] \in {"alloc", "allocated"}
    BY <2>1, <1>6, Frame, PointFacts DEF OrderInv, Started
  <2>5. \A u \in Threads : TotalOf(u)' /\ RunningOf(u)'
    BY <2>4 DEF TotalOf, RunningOf
  <2> QED
    BY <2>1, <2>2, <2>3, <2>5 DEF TotalsInv
<1>10. CASE Total(t)
  <2>1. /\ tmp' = tmp /\ singles' = singles /\ pc[t] = "pass1" /\ pc'[t] = "total"
        /\ suma' = [suma EXCEPT ![t + 1] = sum[t]] /\ ~(i[t] < End(t, size))
    BY <1>10 DEF Total, InFirst, Goto, TypeOK
  <2>2. "prefix" \notin singles /\ \A u \in Threads : pc'[u] # "running"
    BY <2>1, Frame DEF OrderInv, Met
  <2>3. suma'[0] = suma[0] /\ suma'[t + 1] = sum[t]
    BY <2>1, <1>1, <1>5 DEF TypeOK
  <2>4. sum[t] = Interval(First(t, size), End(t, size))
    <3>1. i[t] = End(t, size) /\ sum[t] = Interval(First(t, size), i[t])
      <4>1. LoopOf(t) /\ i[t] \in Int /\ End(t, size) \in Int
        BY <1>1, Parts DEF LoopInv, TypeOK
      <4> QED
        BY <2>1, <4>1 DEF LoopOf
    <3> QED
      BY <3>1
  <2>5. \A u \in Threads : u # t => suma'[u + 1] = suma[u + 1]
    BY <2>1, <1>1, <1>5 DEF TypeOK
  <2>6. \A u \in Threads : u # t => TotalOf(u)'
    BY <2>1, <2>5, <1>4, Frame DEF TotalsInv, TotalOf
  <2>7. TotalOf(t)'
    BY <2>3, <2>4, <1>4 DEF TotalOf
  <2>8. \A u \in Threads : RunningOf(u)'
    BY <2>2 DEF RunningOf
  <2> QED
    BY <2>1, <2>2, <2>3, <2>6, <2>7, <2>8 DEF TotalsInv
<1>11. CASE Prefix(t)
  <2>1. CASE "prefix" \in singles
    <3>1. /\ suma' = suma /\ tmp' = tmp /\ singles' = singles
          /\ pc[t] = "prefix" /\ pc'[t] = "prefixed"
      BY <1>11, <2>1 DEF Prefix, Goto, TypeOK
    <3>2. \A u \in Threads : TotalOf(u)'
      BY <2>1, <3>1 DEF TotalOf
    <3>3. \A u \in Threads : RunningOf(u)'
      BY <3>1, <1>2, <1>3, Frame DEF TotalsInv, RunningOf
    <3>4. \A u \in Threads : pc'[u] = "running" <=> pc[u] = "running"
      BY <3>1, Frame
    <3> QED
      BY <3>1, <3>2, <3>3, <3>4, <1>2 DEF TotalsInv
  <2>2. CASE "prefix" \notin singles
    <3>1. /\ suma' = suma /\ tmp' = tmp /\ singles' = singles \cup {"prefix"}
          /\ pc[t] = "prefix" /\ pc'[t] = "running" /\ i'[t] = 0
      BY <1>11, <2>2 DEF Prefix, Goto, TypeOK
    <3>2. \A u \in Threads : pc[u] \in {"total", "prefix"}
      BY <2>2, <3>1, <1>6, PointFacts DEF OrderInv, Met, Shared
    <3>3. \A u \in Threads : u # t => pc'[u] # "running"
      BY <3>2, Frame
    <3>4. \A u \in Threads : TotalOf(u)'
      BY <3>1 DEF TotalOf
    <3>5. \A u \in Threads : suma[u + 1] = Interval(First(u, size), First(u + 1, size))
      BY <2>2, <3>2, <1>1, Parts DEF TotalsInv, TotalOf
    <3>6. \A k \in 1..nthreads : suma[k] = Interval(First(k - 1, size), First(k, size))
      <4>1. \A k \in 1..nthreads : k - 1 \in Threads /\ (k - 1) + 1 = k
        BY <1>1 DEF Threads
      <4> QED
        BY <3>5, <4>1
    <3>7. tmp = Zero
      BY <2>2 DEF TotalsInv
    <3>8. RunningOf(t)'
      BY <3>1, <3>6, <3>7, <1>1, <1>2, <1>3 DEF RunningOf
    <3>9. \A u \in Threads : RunningOf(u)'
      BY <3>3, <3>8 DEF RunningOf
    <3>10. "alloc" \in singles' => suma'[0] = Zero
      BY <3>1 DEF TotalsInv
    <3> QED
      BY <3>1, <3>4, <3>9, <3>10 DEF TotalsInv
  <2> QED
    BY <2>1, <2>2
<1>12. CASE RunPrefix(t)
  <2>1. /\ pc[t] = "running" /\ pc'[t] = "running" /\ i[t] <= nthreads /\ i'[t] = i[t] + 1
        /\ tmp' = Add(tmp, suma[i[t]]) /\ suma' = [suma EXCEPT ![i[t]] = tmp']
        /\ singles' = singles
    BY <1>12 DEF RunPrefix, TypeOK
  <2>2. RunningOf(t) /\ "prefix" \in singles /\ "alloc" \in singles
    BY <2>1 DEF TotalsInv, OrderInv, Shared
  <2>3. i[t] \in 0..nthreads
    BY <2>1, <2>2, <1>1 DEF RunningOf
  <2>4. \A k \in 0..nthreads : suma'[k] = IF k = i[t] THEN tmp' ELSE suma[k]
    BY <2>1 DEF TypeOK
  <2>5. tmp' = Interval(0, First(i[t], size))
    <3>1. CASE i[t] = 0
      <4>1. tmp = Zero /\ suma[0] = Zero /\ First(0, size) = 0
        BY <2>1, <2>2, <3>1, <1>1, Parts DEF RunningOf, TotalsInv
      <4> QED
        BY <2>1, <3>1, <4>1, EmptyInterval DEF Add
    <3>2. CASE i[t] # 0
      <4>1. i[t] - 1 \in 0..nthreads /\ i[t] - 1 < i[t] /\ i[t] \in 1..nthreads /\ i[t] > 0
        BY <2>3, <3>2, <1>1
      <4>2. tmp = Interval(0, First(i[t] - 1, size))
        BY <2>1, <2>2, <4>1 DEF RunningOf
      <4>3. suma[i[t]] = Interval(First(i[t] - 1, size), First(i[t], size))
        BY <2>1, <2>2, <4>1 DEF RunningOf
      <4>4. First(i[t] - 1, size) <= First(i[t], size)
        BY <4>1, <2>3, <1>1, Parts
      <4> QED
        BY <2>1, <2>3, <4>1, <4>2, <4>3, <4>4, <1>2, AddIntervals
    <3> QED
      BY <3>1, <3>2
  <2>6. suma'[0] = Zero
    <3>1. suma[0] = Zero
      BY <2>2 DEF TotalsInv
    <3>2. i[t] = 0 => tmp' = Zero
      BY <2>5, <1>1, Parts, EmptyInterval
    <3> QED
      BY <2>4, <3>1, <3>2, <1>1
  <2>7. RunningOf(t)'
    <3>1. i'[t] \in 0..nthreads + 1 /\ i'[t] # 0
      BY <2>1, <2>3, <1>1
    <3>2. tmp' = suma'[i'[t] - 1]
      <4>1. i'[t] - 1 = i[t]
        BY <2>1, <2>3
      <4> QED
        BY <4>1, <2>3, <2>4
    <3>3. \A k \in 0..nthreads : k < i'[t] => suma'[k] = Interval(0, First(k, size))
      <4> SUFFICES ASSUME NEW k \in 0..nthreads, k < i'[t]
                   PROVE  suma'[k] = Interval(0, First(k, size))
        OBVIOUS
      <4>1. k = i[t] \/ k < i[t]
        BY <2>1, <2>3
      <4>2. CASE k = i[t]
        BY <4>2, <2>4, <2>5
      <4>3. CASE k < i[t]
        BY <4>3, <2>1, <2>2, <2>3, <2>4 DEF RunningOf
      <4> QED
        BY <4>1, <4>2, <4>3
    <3>4. \A k \in 1..nthreads : k >= i'[t] =>
            suma'[k] = Interval(First(k - 1, size), First(k, size))
      BY <2>1, <2>2, <2>3, <2>4 DEF RunningOf
    <3> QED
      BY <3>1, <3>2, <3>3, <3>4, <1>1, <1>2, <1>3 DEF RunningOf
  <2>8. \A u \in Threads : u # t => pc'[u] # "running"
    BY <2>1, Frame DEF OrderInv
  <2>9. \A u \in Threads : RunningOf(u)'
    BY <2>7, <2>8 DEF RunningOf
  <2>10. \A u \in Threads : TotalOf(u)'
    BY <2>1, <2>2 DEF TotalOf
  <2> QED
    BY <2>1, <2>2, <2>6, <2>9, <2>10 DEF TotalsInv
<1>13. CASE EndPrefix(t)
  <2>1. /\ pc[t] = "running" /\ pc'[t] = "prefixed" /\ i[t] = nthreads + 1
        /\ suma' = suma /\ tmp' = tmp /\ singles' = singles
    BY <1>13 DEF EndPrefix, Goto, TypeOK
  <2>2. "prefix" \in singles
    BY <2>1 DEF OrderInv, Shared
  <2>3. \A k \in 0..nthreads : suma[k] = Interval(0, First(k, size))
    BY <2>1, <1>1 DEF TotalsInv, RunningOf
  <2>4. \A u \in Threads : pc'[u] # "running"
    BY <2>1, Frame DEF OrderInv
  <2>5. \A u \in Threads : RunningOf(u)' /\ TotalOf(u)'
    BY <2>1, <2>2, <2>4 DEF RunningOf, TotalOf
  <2>6. "alloc" \in singles' => suma'[0] = Zero
    BY <2>1 DEF TotalsInv
  <2> QED
    BY <2>1, <2>2, <2>3, <2>5, <2>6, <1>2 DEF TotalsInv
<1> QED
  BY <1>8, <1>9, <1>10, <1>11, <1>12, <1>13 DEF Step

-----------------------------------------------------------------------------
(* The elements.                                                           *)

LEMMA AlignedParts ==
  ASSUME Aligned, size \in Sizes, NEW t \in Threads
  PROVE  First(t, size) = 4 * First(t, Blocks) /\ End(t, size) = 4 * End(t, Blocks)
<1>1. size = 4 * Blocks /\ Blocks \in Nat /\ size \in Nat
  BY Sides DEF Aligned, Blocks
<1>2. \A n \in {size, Blocks} : End(t, n) = First(t + 1, n) /\ First(nthreads, n) = n
  BY Parts
<1>3. t + 1 \in Threads \/ t + 1 = nthreads
  BY TeamAssumption DEF Threads
<1> QED
  BY <1>1, <1>2, <1>3 DEF Aligned

LEMMA ElementsInitially == Init => ElementsInv
BY DEF Init, ElementsInv, ElementsOf, Second

LEMMA ElementsStep ==
  ASSUME TypeOK, OrderInv, LoopInv, ElementsInv, NEW t \in Threads, Step(t)
  PROVE  ElementsInv'
<1>1. size' = size /\ size \in Sizes /\ size \in Nat /\ Aligned' = Aligned
  BY Frame, Sides, Same DEF TypeOK
<1> SUFFICES ASSUME Aligned, NEW u \in Threads
             PROVE  ElementsOf(u)'
  BY <1>1 DEF ElementsInv
<1> DEFINE Mine(k, v) == First(v, size) <= k /\ k < End(v, size)
<1>2. \A v \in Threads : First(v, size)' = First(v, size) /\ End(v, size)' = End(v, size)
  BY <1>1, Same
<1>3. \A v \in Threads : /\ First(v, size) \in 0..size /\ End(v, size) \in 0..size
                        /\ First(v, Blocks) \in Nat /\ End(v, Blocks) \in Nat
                        /\ First(v, size) <= End(v, size)
                        /\ i[v] \in Nat
  <2> SUFFICES ASSUME NEW v \in Threads
               PROVE  /\ First(v, size) \in 0..size /\ End(v, size) \in 0..size
                      /\ First(v, Blocks) \in Nat /\ End(v, Blocks) \in Nat
                      /\ First(v, size) <= End(v, size)
                      /\ i[v] \in Nat
    OBVIOUS
  <2>1. First(v, size) \in 0..size /\ End(v, size) \in 0..size /\ First(v, size) <= End(v, size)
    BY <1>1, Parts
  <2>2. First(v, Blocks) \in 0..Blocks /\ End(v, Blocks) \in 0..Blocks
    BY <1>1, Parts
  <2>3. i[v] \in 0..size \cup 0..nthreads + 1
    BY DEF TypeOK
  <2> QED
    BY <2>1, <2>2, <2>3
<1>4. ElementsOf(u) /\ LoopOf(u) /\ LoopOf(t) /\ pc[u] \in Points
  BY DEF ElementsInv, LoopInv, TypeOK
<1>5. \A k \in Int : t # u /\ Mine(k, t) => ~Mine(k, u)
  <2>1. t # u => t < u \/ u < t
    BY DEF Threads
  <2>2. t < u => End(t, size) <= First(u, size)
    BY <1>1, Parts
  <2>3. u < t => End(u, size) <= First(t, size)
    BY <1>1, Parts
  <2> QED
    BY <1>3, <2>1, <2>2, <2>3
<1>6. \A v \in Threads : /\ First(v, size) = 4 * First(v, Blocks)
                        /\ End(v, size) = 4 * End(v, Blocks)
  BY <1>1, AlignedParts
<1> HIDE DEF Mine
<1>7. ASSUME u # t, \A k \in 0..size - 1 : Mine(k, u) => calculated'[k] = calculated[k]
      PROVE  ElementsOf(u)'
  <2>1. pc'[u] = pc[u] /\ i'[u] = i[u]
    BY <1>7, Frame
  <2>2. pc[u] = "pass1" => \A k \in First(u, size)..i[u] - 1 : k \in 0..size - 1 /\ Mine(k, u)
    BY <1>1, <1>3, <1>4 DEF LoopOf, Mine
  <2>3. \A k \in First(u, size)..End(u, size) - 1 : k \in 0..size - 1 /\ Mine(k, u)
    BY <1>1, <1>3 DEF Mine
  <2> QED
    BY <1>2, <1>4, <1>7, <2>1, <2>2, <2>3 DEF ElementsOf, Second
<1>8. CASE ~FirstPass(t) /\ ~SecondPass(t)
  <2>1. calculated' = calculated
    BY <1>8 DEF Step, Alloc, EnterFirst, Total, Barrier, Prefix, RunPrefix, EndPrefix,
      EnterSecond, Finish, Leave
  <2>2. CASE u # t
    BY <1>7, <2>1, <2>2
  <2>3. CASE u = t /\ Alloc(t)
    <3>1. pc'[u] = "allocated"
      BY <2>3 DEF Alloc, Goto, TypeOK
    <3> QED
      BY <3>1 DEF ElementsOf, Second
  <2>4. CASE u = t /\ EnterFirst(t)
    <3>1. pc'[u] = "pass1" /\ i'[u] = First(u, size)
      BY <2>4 DEF EnterFirst, Goto, TypeOK
    <3> QED
      BY <3>1, <1>2, <1>3 DEF ElementsOf, Second
  <2>5. CASE u = t /\ Total(t)
    <3>1. pc[u] = "pass1" /\ pc'[u] = "total" /\ ~(i[u] < End(u, size))
      BY <2>5 DEF Total, InFirst, Goto, TypeOK
    <3>2. i[u] = End(u, size)
      BY <3>1, <1>3, <1>4 DEF LoopOf
    <3> QED
      BY <3>1, <3>2, <2>1, <1>2, <1>4 DEF ElementsOf, Second
  <2>6. CASE u = t /\ (Barrier(t) \/ Prefix(t) \/ RunPrefix(t) \/ EndPrefix(t))
    <3>1. /\ pc[u] \in {"total", "prefix", "running", "prefixed"}
          /\ pc'[u] \in {"total", "prefix", "running", "prefixed"}
      BY <2>6 DEF Barrier, Prefix, RunPrefix, EndPrefix, Goto, TypeOK
    <3> QED
      BY <3>1, <2>1, <1>2, <1>4 DEF ElementsOf, Second
  <2>7. CASE u = t /\ EnterSecond(t)
    <3>1. pc[u] = "prefixed" /\ pc'[u] = "pass2" /\ i'[u] = First(u, Blocks)
      BY <2>7 DEF EnterSecond, Goto, TypeOK
    <3>2. 4 * i'[u] = First(u, size)
      BY <3>1, <1>6
    <3> QED
      BY <3>1, <3>2, <2>1, <1>2, <1>3, <1>4 DEF ElementsOf, Second
  <2>8. CASE u = t /\ (Finish(t) \/ Leave(t))
    <3>1. pc[u] \in Second /\ pc'[u] \in Second /\ i'[u] = i[u]
      BY <2>8 DEF Finish, Leave, Goto, TypeOK, Second
    <3> QED
      BY <3>1, <2>1, <1>2, <1>4 DEF ElementsOf, Second
  <2> QED
    BY <1>8, <2>2, <2>3, <2>4, <2>5, <2>6, <2>7, <2>8 DEF Step
<1>9. CASE FirstPass(t)
  <2>1. /\ pc[t] = "pass1" /\ pc'[t] = "pass1" /\ i'[t] = i[t] + 1 /\ i[t] < End(t, size)
        /\ sum'[t] = Add(sum[t], Element(i[t]))
    BY <1>9 DEF FirstPass, InFirst, TypeOK
  <2>2. First(t, size) <= i[t] /\ sum[t] = Interval(First(t, size), i[t])
    BY <1>4, <2>1 DEF LoopOf
  <2>3. i[t] \in 0..size - 1 /\ Mine(i[t], t)
    BY <1>1, <1>3, <2>1, <2>2 DEF Mine
  <2>4. \A k \in 0..size - 1 : calculated'[k] = IF k = i[t] THEN sum'[t] ELSE calculated[k]
    BY <1>9 DEF FirstPass, TypeOK
  <2>5. CASE u # t
    BY <1>5, <1>7, <2>3, <2>4, <2>5
  <2>6. CASE u = t
    <3>1. sum'[t] = Interval(First(t, size), i[t] + 1)
      BY <1>3, <2>1, <2>2, AddIntervals DEF Element
    <3>2. ASSUME NEW k \in First(t, size)..i'[t] - 1
          PROVE  calculated'[k] = Interval(First(t, size), k + 1)
      <4>1. k \in 0..size - 1 /\ (k = i[t] \/ k \in First(t, size)..i[t] - 1)
        BY <1>1, <1>3, <2>1, <2>3
      <4>2. CASE k = i[t]
        BY <2>4, <3>1, <4>1, <4>2
      <4>3. CASE k # i[t]
        BY <1>4, <2>1, <2>4, <2>6, <4>1, <4>3 DEF ElementsOf
      <4> QED
        BY <4>2, <4>3
    <3> QED
      BY <1>2, <2>1, <2>6, <3>2 DEF ElementsOf, Second
  <2> QED
    BY <2>5, <2>6
<1>10. CASE SecondPass(t)
  <2>1. pc[t] = "pass2" /\ pc'[t] = "pass2" /\ i'[t] = i[t] + 1 /\ i[t] < End(t, Blocks)
    BY <1>10 DEF SecondPass, TypeOK
  <2>2. First(t, Blocks) <= i[t] /\ offset[t] = Interval(0, First(t, size))
    BY <1>4, <2>1 DEF LoopOf, Second
  <2>3. \A k \in 0..size - 1 :
          calculated'[k] = IF k \in Block(i[t]) THEN Add(offset[t], calculated[k])
                                               ELSE calculated[k]
    BY <1>10 DEF SecondPass
  <2>4. \A k \in Int : k \in Block(i[t]) <=> 4 * i[t] <= k /\ k < 4 * (i[t] + 1)
    BY <1>3 DEF Block
  <2>5. \A k \in Int : k \in Block(i[t]) => Mine(k, t)
    BY <1>3, <1>6, <2>1, <2>2, <2>4 DEF Mine
  <2>6. CASE u # t
    BY <1>5, <1>7, <2>3, <2>5, <2>6
  <2>7. CASE u = t
    <3>1. ASSUME NEW k \in First(t, size)..End(t, size) - 1
          PROVE  /\ k < 4 * i'[t] => calculated'[k] = Interval(0, k + 1)
                 /\ k >= 4 * i'[t] => calculated'[k] = Interval(First(t, size), k + 1)
      <4>1. k \in 0..size - 1 /\ k \in Int
        BY <1>1, <1>3
      <4>2. /\ k < 4 * i[t] => calculated[k] = Interval(0, k + 1)
            /\ k >= 4 * i[t] => calculated[k] = Interval(First(t, size), k + 1)
        BY <1>4, <2>1, <2>7 DEF ElementsOf, Second
      <4>3. CASE k \in Block(i[t])
        <5>1. 4 * i[t] <= k /\ k < 4 * i'[t]
          BY <2>1, <2>4, <4>1, <4>3
        <5>2. calculated'[k] = Add(Interval(0, First(t, size)), Interval(First(t, size), k + 1))
          BY <1>3, <2>2, <2>3, <4>1, <4>2, <4>3, <5>1
        <5>3. calculated'[k] = Interval(0, k + 1)
          BY <1>3, <4>1, <5>2, AddIntervals
        <5> QED
          BY <1>3, <2>1, <4>1, <5>1, <5>3
      <4>4. CASE k \notin Block(i[t])
        <5>1. k < 4 * i[t] \/ k >= 4 * i'[t]
          BY <1>3, <2>1, <2>4, <4>1, <4>4
        <5>2. calculated'[k] = calculated[k]
          BY <2>3, <4>1, <4>4
        <5> QED
          BY <1>3, <2>1, <4>1, <4>2, <5>1, <5>2
      <4> QED
        BY <4>3, <4>4
    <3> QED
      BY <1>2, <2>1, <2>7, <3>1 DEF ElementsOf, Second
  <2> QED
    BY <2>6, <2>7
<1> QED
  BY <1>8, <1>9, <1>10

-----------------------------------------------------------------------------
(* The theorems.                                                           *)

LEMMA OmpInitially == Init => ScanOmpInv
BY TypeInitially, OrderInitially, LoopInitially, TotalsInitially, ElementsInitially
  DEF ScanOmpInv

LEMMA OmpStep ==
  ASSUME ScanOmpInv, NEW t \in Threads, Step(t)
  PROVE  ScanOmpInv'
BY TypeStep, OrderStep, LoopStep, TotalsStep, ElementsStep DEF ScanOmpInv

LEMMA OmpStutter == ScanOmpInv /\ UNCHANGED vars => ScanOmpInv'
BY DEF vars, ScanOmpInv, TypeOK, OrderInv, LoopInv, LoopOf, TotalsInv, TotalOf,
  RunningOf, ElementsInv, ElementsOf, Aligned, Blocks

\* No two threads of the team access an element or a total without a barrier between,
\* whatever the size and the number of threads.
LEMMA OmpRaceFree == ScanOmpInv => RaceFree
<1> SUFFICES ASSUME ScanOmpInv, NEW t \in Threads, NEW u \in Threads, t # u
             PROVE  Touches(t) \cap Touches(u) = {}
  BY DEF RaceFree
<1>1. TypeOK /\ OrderInv /\ LoopOf(t) /\ LoopOf(u)
  BY DEF ScanOmpInv, LoopInv
<1>2. size \in Sizes
  BY <1>1 DEF TypeOK
<1>3. ASSUME NEW v \in Threads, LoopOf(v)
      PROVE  \/ Touches(v) = {}
             \/ /\ pc[v] = "pass1"
                /\ \/ /\ i[v] \in First(v, size)..End(v, size) - 1
                      /\ Touches(v) = {<<"calculated", i[v]>>}
                   \/ Touches(v) = {<<"suma", v + 1>>}
             \/ /\ pc[v] = "pass2" /\ i[v] \in First(v, Blocks)..End(v, Blocks) - 1
                /\ Touches(v) = {<<"calculated", k>> : k \in Block(i[v])}
             \/ /\ pc[v] = "running"
                /\ Touches(v) = {<<"suma", i[v]>>}
             \/ /\ pc[v] = "prefixed" /\ Reached("prefixed")
                /\ Touches(v) = {<<"suma", v>>}
  <2>1. /\ First(v, size) \in Int /\ End(v, size) \in Int /\ i[v] \in Int
        /\ First(v, Blocks) \in Int /\ End(v, Blocks) \in Int
    BY <1>1, <1>2, Parts DEF TypeOK
  <2>2. CASE pc[v] = "pass1" /\ InFirst(v)
    BY <1>3, <2>1, <2>2 DEF Touches, InFirst, LoopOf
  <2>3. CASE pc[v] = "pass1" /\ ~InFirst(v)
    BY <2>3 DEF Touches
  <2>4. CASE pc[v] = "pass2"
    BY <1>3, <2>1, <2>4 DEF Touches, LoopOf, Second
  <2>5. CASE pc[v] \notin {"pass1", "pass2"}
    BY <2>5 DEF Touches
  <2> QED
    BY <2>2, <2>3, <2>4, <2>5
<1>4. \A v, w \in Threads :
        /\ pc[v] = "pass1" => pc[w] \notin {"pass2", "running"} /\ ~Reached("prefixed")
        /\ pc[v] = "running" => pc[w] # "pass2" /\ ~Reached("prefixed")
        /\ v # w => ~(pc[v] = "running" /\ pc[w] = "running")
  BY <1>1, ReachedFacts DEF OrderInv, Met, Second
<1>5. ASSUME pc[t] = "pass1", pc[u] = "pass1",
             i[t] \in First(t, size)..End(t, size) - 1,
             i[u] \in First(u, size)..End(u, size) - 1
      PROVE  i[t] # i[u]
  BY <1>2, <1>5, PartsDisjoint
<1>6. ASSUME i[t] \in First(t, Blocks)..End(t, Blocks) - 1,
             i[u] \in First(u, Blocks)..End(u, Blocks) - 1
      PROVE  Block(i[t]) \cap Block(i[u]) = {}
  <2>1. i[t] # i[u] /\ i[t] \in Int /\ i[u] \in Int
    BY <1>2, <1>6, PartsDisjoint
  <2> QED
    BY <2>1 DEF Block
<1>7. t \in Int /\ u \in Int
  BY DEF Threads
<1>8. ASSUME pc[t] = "pass1", pc[u] = "pass1"
      PROVE  Touches(t) \cap Touches(u) = {}
  BY <1>1, <1>3, <1>4, <1>5, <1>7, <1>8
<1>9. ASSUME pc[t] = "pass2", pc[u] = "pass2"
      PROVE  Touches(t) \cap Touches(u) = {}
  BY <1>1, <1>3, <1>6, <1>9
<1>10. ASSUME Touches(t) # {}, Touches(u) # {}
       PROVE  \/ pc[t] = pc[u]
              \/ pc[t] = "pass2" /\ pc[u] = "prefixed"
              \/ pc[t] = "prefixed" /\ pc[u] = "pass2"
  BY <1>1, <1>3, <1>4, <1>10
<1>11. CASE pc[t] = "prefixed" /\ pc[u] = "prefixed"
  BY <1>1, <1>3, <1>7, <1>11
<1>12. ASSUME NEW v \in Threads, NEW w \in Threads, LoopOf(v), LoopOf(w),
              pc[v] = "pass2", pc[w] = "prefixed"
       PROVE  Touches(v) \cap Touches(w) = {}
  <2>1. \A x \in Touches(v) : x[1] = "calculated"
    BY <1>3, <1>12
  <2>2. \A x \in Touches(w) : x[1] = "suma"
    BY <1>3, <1>12
  <2> QED
    BY <2>1, <2>2
<1> QED
  BY <1>1, <1>3, <1>4, <1>8, <1>9, <1>10, <1>11, <1>12

\* A thread adds the sum of all elements before its first one, whatever the size.
LEMMA OmpOffsets == ScanOmpInv => OffsetComplete
BY DEF ScanOmpInv, LoopInv, LoopOf, Second, OffsetComplete

\* Where the two loops divide the input at the same places, the result is the scan.
LEMMA OmpCorrect == ScanOmpInv => ScanCorrect
<1> SUFFICES ASSUME ScanOmpInv, Aligned, Reached("done"), NEW k \in 0..size - 1
             PROVE  calculated[k] = Interval(0, k + 1)
  BY DEF ScanCorrect
<1>1. size \in Sizes /\ size \in Nat
  BY Sides DEF ScanOmpInv, TypeOK
<1>2. PICK t \in Threads : First(t, size) <= k /\ k < End(t, size)
  BY <1>1, FirstCovers
<1>3. pc[t] = "done"
  BY ReachedFacts DEF ScanOmpInv
<1>4. 4 * i[t] = End(t, size)
  BY <1>1, <1>3, AlignedParts DEF ScanOmpInv, LoopInv, LoopOf
<1>5. First(t, size) \in Int /\ End(t, size) \in Int
  BY <1>1, Parts
<1> QED
  BY <1>1, <1>2, <1>3, <1>4, <1>5 DEF ScanOmpInv, ElementsInv, ElementsOf, Second

\* The inductive invariant, of every team and every size: TypeOK is one of its parts.
THEOREM Invariant == Spec => []ScanOmpInv
<1>1. ScanOmpInv /\ [Next]_vars => ScanOmpInv'
  BY OmpStep, OmpStutter DEF Next, Finished
<1> QED
  BY <1>1, OmpInitially, PTL DEF Spec
=============================================================================
