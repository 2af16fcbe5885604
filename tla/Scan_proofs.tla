----------------------------- MODULE Scan_proofs ------------------------------
(***************************************************************************)
(* Theorems about the scan functions as Algorithms calls them: what        *)
(* ScanOmp_proofs shows of the parallel scan carries over, the scans of    *)
(* one thread give the sums for every size, no two items of a work-group   *)
(* race, whatever their number, and the scan on the GPU gives the sums for *)
(* every size that the groups fit.                                         *)
(***************************************************************************)
EXTENDS Algorithms, ScanOmp_proofs

-----------------------------------------------------------------------------
(* The scans of one thread.                                                *)

SeqFuncs == {"STD", "SSE", "AVX"}

SeqInv ==
  /\ next \in Nat
  /\ next <= size => carry = Interval(0, next)
  /\ DOMAIN calculated = 0..size - 1
  /\ \A k \in 0..size - 1 : k < next => calculated[k] = Interval(0, k + 1)

LEMMA AddZero == \A a : Add(Zero, a) = a /\ Add(a, Zero) = a
BY DEF Add

LEMMA SameSums ==
  /\ OneThread!Zero = Zero /\ OneThread!Wrong = Wrong
  /\ \A k : OneThread!Element(k) = Element(k)
  /\ \A a, b : OneThread!Add(a, b) = Add(a, b)
BY DEF OneThread!Zero, Zero, OneThread!Wrong, Wrong, OneThread!Element, Element,
  OneThread!Interval, Interval, OneThread!Add, Add

\* A register whose lanes have moved up by n, zeros below, added to itself.
Shifted(x, n, width) == [l \in 0..width - 1 |-> Add(IF l < n THEN Zero ELSE x[l - n], x[l])]

LEMMA SseLanes ==
  ASSUME NEW x, DOMAIN x = 0..3
  PROVE  OneThread!scan_SSE(x) = Shifted(Shifted(x, 1, 4), 2, 4)
<1>1. ASSUME NEW y, DOMAIN y = 0..3, NEW n
      PROVE  OneThread!AddLanes(OneThread!ShiftLanes(y, n), y) = Shifted(y, n, 4)
  <2>1. OneThread!ShiftLanes(y, n) = [l \in 0..3 |-> IF l < n THEN Zero ELSE y[l - n]]
    BY <1>1, SameSums DEF OneThread!ShiftLanes
  <2> QED
    BY <2>1, SameSums DEF OneThread!AddLanes, Shifted
<1>2. OneThread!AddLanes(OneThread!ShiftLanes(x, 1), x) = Shifted(x, 1, 4)
  BY <1>1
<1>3. DOMAIN Shifted(x, 1, 4) = 0..3
  BY DEF Shifted
<1>4. OneThread!AddLanes(OneThread!ShiftLanes(Shifted(x, 1, 4), 2), Shifted(x, 1, 4))
        = Shifted(Shifted(x, 1, 4), 2, 4)
  BY <1>1, <1>3
<1> QED
  BY <1>2, <1>4 DEF OneThread!scan_SSE

\* The permutations of a register of eight lanes come to the same.
LEMMA Turning ==
  ASSUME NEW x, DOMAIN x = 0..7
  PROVE  /\ OneThread!Turn(x, 1, {0, 4}) = [l \in 0..7 |-> IF l < 1 THEN Zero ELSE x[l - 1]]
         /\ OneThread!Turn(x, 2, {0, 1, 4, 5})
              = [l \in 0..7 |-> IF l < 2 THEN Zero ELSE x[l - 2]]
<1>1. 0..7 = {0, 1, 2, 3, 4, 5, 6, 7} /\ 0..3 = {0, 1, 2, 3}
  OBVIOUS
<1>2. ASSUME NEW n \in {1, 2}
      PROVE  OneThread!permute(x, [l \in 0..3 |-> (l - n) % 4])
               = [l \in 0..7 |-> x[4 * (l \div 4) + ((l - n) % 4)]]
  <2>1. \A l \in 0..7 : l % 4 \in 0..3 /\ ((l % 4) - n) % 4 = (l - n) % 4
    OBVIOUS
  <2> QED
    BY <2>1 DEF OneThread!permute
<1>3. ASSUME NEW n \in {1, 2}, NEW y, y = [l \in 0..7 |-> x[4 * (l \div 4) + ((l - n) % 4)]],
             NEW S, S = {l \in 0..7 : l % 4 < n}
      PROVE  OneThread!blend(y, OneThread!LowHalfUp(y), S)
               = [l \in 0..7 |-> IF l < n THEN Zero ELSE x[l - n]]
  <2>1. OneThread!LowHalfUp(y) = [l \in 0..7 |-> IF l < 4 THEN Zero ELSE y[l - 4]]
    BY SameSums DEF OneThread!LowHalfUp
  <2>2. OneThread!blend(y, OneThread!LowHalfUp(y), S) =
          [l \in 0..7 |-> IF l % 4 < n THEN (IF l < 4 THEN Zero ELSE y[l - 4]) ELSE y[l]]
    BY <1>3, <2>1 DEF OneThread!blend
  <2>3. ASSUME NEW l \in 0..7
        PROVE  (IF l % 4 < n THEN (IF l < 4 THEN Zero ELSE y[l - 4]) ELSE y[l])
                 = IF l < n THEN Zero ELSE x[l - n]
    <3>1. l % 4 < n /\ l >= 4 => y[l - 4] = x[l - n]
      <4>1. l % 4 < n /\ l >= 4 => 4 * ((l - 4) \div 4) + (((l - 4) - n) % 4) = l - n
        BY <1>1
      <4> QED
        BY <1>3, <4>1
    <3>2. ~(l % 4 < n) => y[l] = x[l - n]
      <4>1. ~(l % 4 < n) => 4 * (l \div 4) + ((l - n) % 4) = l - n
        BY <1>1
      <4> QED
        BY <1>3, <4>1
    <3>3. l < 4 => (l % 4 < n <=> l < n)
      OBVIOUS
    <3>4. l >= 4 => ~(l < n)
      OBVIOUS
    <3>5. ~(l % 4 < n) => ~(l < n)
      BY <3>3, <3>4
    <3> QED
      BY <3>1, <3>2, <3>3, <3>4, <3>5
  <2> QED
    BY <2>2, <2>3
<1>4. {l \in 0..7 : l % 4 < 1} = {0, 4} /\ {l \in 0..7 : l % 4 < 2} = {0, 1, 4, 5}
  BY <1>1
<1> QED
  BY <1>2, <1>3, <1>4 DEF OneThread!Turn

LEMMA AvxLanes ==
  ASSUME NEW x, DOMAIN x = 0..7
  PROVE  OneThread!scan_AVX(x) = Shifted(Shifted(Shifted(x, 1, 8), 2, 8), 4, 8)
<1>1. ASSUME NEW y, DOMAIN y = 0..7
      PROVE  /\ OneThread!AddLanes(OneThread!Turn(y, 1, {0, 4}), y) = Shifted(y, 1, 8)
             /\ OneThread!AddLanes(OneThread!Turn(y, 2, {0, 1, 4, 5}), y) = Shifted(y, 2, 8)
  <2>1. /\ OneThread!Turn(y, 1, {0, 4}) = [l \in 0..7 |-> IF l < 1 THEN Zero ELSE y[l - 1]]
        /\ OneThread!Turn(y, 2, {0, 1, 4, 5}) = [l \in 0..7 |-> IF l < 2 THEN Zero ELSE y[l - 2]]
    BY <1>1, Turning
  <2> QED
    BY <2>1, SameSums DEF OneThread!AddLanes, Shifted
<1>2. ASSUME NEW y
      PROVE  OneThread!AddLanes(OneThread!LowHalfUp(y), y) = Shifted(y, 4, 8)
  <2>1. OneThread!LowHalfUp(y) = [l \in 0..7 |-> IF l < 4 THEN Zero ELSE y[l - 4]]
    BY SameSums DEF OneThread!LowHalfUp
  <2> QED
    BY <2>1, SameSums DEF OneThread!AddLanes, Shifted
<1>3. \A y, n : DOMAIN Shifted(y, n, 8) = 0..7
  BY DEF Shifted
<1> QED
  BY <1>1, <1>2, <1>3 DEF OneThread!scan_AVX

\* Each lane has the sum of the last w elements up to its own, from a on, or of fewer if
\* there are no more before it.
SumsOf(x, a, w, width) ==
  \A l \in 0..width - 1 : a + l < size =>
    x[l] = Interval(a + (IF l < w THEN 0 ELSE l - w + 1), a + l + 1)

LEMMA Doubling ==
  ASSUME NEW x, NEW a \in Nat, NEW w \in Nat, w > 0, NEW width \in Nat,
         size \in Int, SumsOf(x, a, w, width)
  PROVE  SumsOf(Shifted(x, w, width), a, 2 * w, width)
<1> SUFFICES ASSUME NEW l \in 0..width - 1, a + l < size
             PROVE  Shifted(x, w, width)[l]
                      = Interval(a + (IF l < 2 * w THEN 0 ELSE l - 2 * w + 1), a + l + 1)
  BY DEF SumsOf
<1>1. Shifted(x, w, width)[l] = Add(IF l < w THEN Zero ELSE x[l - w], x[l])
  BY DEF Shifted
<1>2. x[l] = Interval(a + (IF l < w THEN 0 ELSE l - w + 1), a + l + 1)
  BY DEF SumsOf
<1>3. CASE l < w
  BY <1>1, <1>2, <1>3, AddZero
<1>4. CASE ~(l < w)
  <2>1. l - w \in 0..width - 1 /\ a + (l - w) < size
    BY <1>4
  <2>2. x[l - w] = Interval(a + (IF l - w < w THEN 0 ELSE (l - w) - w + 1), a + (l - w) + 1)
    BY <2>1 DEF SumsOf
  <2> DEFINE from == a + (IF l < 2 * w THEN 0 ELSE l - 2 * w + 1)
  <2>3. from = a + (IF l - w < w THEN 0 ELSE (l - w) - w + 1)
    OBVIOUS
  <2>4. from \in Nat /\ from <= a + (l - w) + 1
    BY <1>4
  <2>5. a + (l - w) + 1 = a + (l - w + 1) /\ a + (l - w) + 1 \in Nat /\ a + l + 1 \in Nat
    BY <1>4
  <2>6. a + (l - w) + 1 <= a + l + 1
    OBVIOUS
  <2> HIDE DEF from
  <2>7. Add(Interval(from, a + (l - w) + 1), Interval(a + (l - w) + 1, a + l + 1))
          = Interval(from, a + l + 1)
    BY <2>4, <2>5, <2>6, AddIntervals
  <2>8. x[l] = Interval(a + (l - w) + 1, a + l + 1) /\ x[l - w] = Interval(from, a + (l - w) + 1)
    BY <1>2, <1>4, <2>2, <2>3, <2>5
  <2>9. Shifted(x, w, width)[l] = Interval(from, a + l + 1)
    BY <1>1, <1>4, <2>7, <2>8
  <2> QED
    BY <2>9 DEF from
<1> QED
  BY <1>3, <1>4

LEMMA Vectors ==
  ASSUME size \in Int, next \in Nat
  PROVE  /\ SumsOf(OneThread!scan_SSE(OneThread!Vector(4)), next, 4, 4)
         /\ SumsOf(OneThread!scan_AVX(OneThread!Vector(8)), next, 8, 8)
<1>1. ASSUME NEW width \in {4, 8}
      PROVE  /\ DOMAIN OneThread!Vector(width) = 0..width - 1
             /\ SumsOf(OneThread!Vector(width), next, 1, width)
  <2>1. OneThread!Vector(width) =
          [l \in 0..width - 1 |-> IF next + l < size THEN Element(next + l) ELSE Wrong]
    BY SameSums DEF OneThread!Vector, OneThread!mem
  <2>2. \A l \in 0..width - 1 : Element(next + l) = Interval(next + l, next + l + 1)
    BY DEF Element
  <2>3. \A l \in 0..width - 1 : next + (IF l < 1 THEN 0 ELSE l - 1 + 1) = next + l
    OBVIOUS
  <2> QED
    BY <2>1, <2>2, <2>3 DEF SumsOf
<1>2. SumsOf(Shifted(OneThread!Vector(4), 1, 4), next, 2, 4)
  BY <1>1, Doubling
<1>3. SumsOf(Shifted(Shifted(OneThread!Vector(4), 1, 4), 2, 4), next, 4, 4)
  BY <1>2, Doubling
<1>4. SumsOf(Shifted(OneThread!Vector(8), 1, 8), next, 2, 8)
  BY <1>1, Doubling
<1>5. SumsOf(Shifted(Shifted(OneThread!Vector(8), 1, 8), 2, 8), next, 4, 8)
  BY <1>4, Doubling
<1>6. SumsOf(Shifted(Shifted(Shifted(OneThread!Vector(8), 1, 8), 2, 8), 4, 8), next, 8, 8)
  BY <1>5, Doubling
<1> QED
  BY <1>1, <1>3, <1>6, SseLanes, AvxLanes

LEMMA VectorTurn ==
  ASSUME size \in Nat, SeqInv, NEW width \in {4, 8}, NEW out,
         SumsOf(out, next, width, width), OneThread!VectorTurn(width, out), size' = size
  PROVE  SeqInv'
<1>1. /\ next \in Nat /\ next < size /\ next' = next + width
      /\ carry' = Add(carry, out[width - 1])
      /\ \A k \in 0..size - 1 : calculated'[k] =
           IF k \in next..next + width - 1 THEN Add(carry, out[k - next]) ELSE calculated[k]
      /\ DOMAIN calculated' = 0..size - 1
  BY SameSums DEF SeqInv, OneThread!VectorTurn
<1>2. carry = Interval(0, next)
  BY <1>1 DEF SeqInv
<1>3. ASSUME NEW l \in 0..width - 1, next + l < size
      PROVE  Add(carry, out[l]) = Interval(0, next + l + 1)
  <2>1. out[l] = Interval(next + 0, next + l + 1)
    BY <1>3 DEF SumsOf
  <2>2. out[l] = Interval(next, next + l + 1)
    BY <1>1, <2>1
  <2> QED
    BY <1>1, <1>2, <2>2, AddIntervals
<1>4. next' <= size => carry' = Interval(0, next')
  <2> SUFFICES ASSUME next' <= size PROVE carry' = Interval(0, next')
    OBVIOUS
  <2>1. width - 1 \in 0..width - 1 /\ next + (width - 1) < size
    BY <1>1
  <2>2. Add(carry, out[width - 1]) = Interval(0, next + (width - 1) + 1)
    BY <1>3, <2>1
  <2>3. next + (width - 1) + 1 = next'
    BY <1>1
  <2> QED
    BY <1>1, <2>2, <2>3
<1>5. ASSUME NEW k \in 0..size - 1, k < next'
      PROVE  calculated'[k] = Interval(0, k + 1)
  <2>1. CASE k < next
    BY <1>1, <2>1 DEF SeqInv
  <2>2. CASE ~(k < next)
    <3>1. k - next \in 0..width - 1 /\ next + (k - next) = k /\ k \in next..next + width - 1
      BY <1>1, <1>5, <2>2
    <3>2. Add(carry, out[k - next]) = Interval(0, next + (k - next) + 1)
      BY <1>3, <3>1
    <3> QED
      BY <1>1, <3>1, <3>2
  <2> QED
    BY <2>1, <2>2
<1> QED
  BY <1>1, <1>4, <1>5 DEF SeqInv

LEMMA StdTurn ==
  ASSUME size \in Nat, SeqInv, OneThread!StdTurn, size' = size
  PROVE  SeqInv'
<1>1. /\ next \in Nat /\ next < size /\ next' = next + 1
      /\ carry' = Add(carry, Element(next))
      /\ calculated' = [calculated EXCEPT ![next] = carry']
  BY SameSums DEF SeqInv, OneThread!StdTurn, OneThread!mem
<1>2. carry' = Interval(0, next + 1)
  BY <1>1, AddIntervals DEF SeqInv, Element
<1> QED
  BY <1>1, <1>2 DEF SeqInv

-----------------------------------------------------------------------------
(* The items of a work-group.                                              *)

LEMMA GroupFacts ==
  /\ WORKGROUP_SIZE \in Nat \ {0} /\ ARRAY_LENGTH = WORKGROUP_SIZE * (4 * WORKGROUP_SIZE)
  /\ Gpu!Items = 0..WORKGROUP_SIZE - 1 /\ 0 \in Gpu!Items
  /\ Gpu!Ended = 2 * WORKGROUP_SIZE /\ Gpu!local1size = 4 * WORKGROUP_SIZE
BY SizesAssumption DEF Gpu!Items, Gpu!Ended, Gpu!local1size

LEMMA ScanSizes ==
  ASSUME kernel \in {1, 2}
  PROVE  /\ Gpu!ScanSize = WORKGROUP_SIZE
         /\ \A l \in Gpu!Items : Gpu!pos(l) = l + WORKGROUP_SIZE
<1>1. (4 * WORKGROUP_SIZE) \div 4 = WORKGROUP_SIZE
  BY GroupFacts
<1>2. (WORKGROUP_SIZE * (4 * WORKGROUP_SIZE)) \div (4 * WORKGROUP_SIZE) = WORKGROUP_SIZE
  <2> DEFINE d == 4 * WORKGROUP_SIZE
  <2>1. d \in Nat /\ d > 0
    BY GroupFacts
  <2>2. \A a, b \in Nat : b > 0 => (a * b) \div b = a
    OBVIOUS
  <2> QED
    BY GroupFacts, <2>1, <2>2
<1>3. Gpu!ScanSize = WORKGROUP_SIZE
  BY GroupFacts, <1>1, <1>2 DEF Gpu!ScanSize, Gpu!local2size
<1>4. ASSUME NEW l \in Gpu!Items PROVE Gpu!pos(l) = l + WORKGROUP_SIZE
  <2>1. l \in 0..WORKGROUP_SIZE - 1 /\ l % WORKGROUP_SIZE = l
    BY GroupFacts
  <2>2. Gpu!pos(l) = 2 * l - l + WORKGROUP_SIZE
    BY <1>3, <2>1 DEF Gpu!pos
  <2> QED
    BY GroupFacts, <2>1, <2>2
<1> QED
  BY <1>3, <1>4

\* Each item of scanExclusiveLocal1 and of scanExclusiveLocal2 has two places of local
\* memory to itself, whatever the size of the group.
LEMMA Positions ==
  ASSUME kernel \in {1, 2}, NEW l \in Gpu!Items, NEW u \in Gpu!Items, l # u
  PROVE  /\ Gpu!pos(l) # Gpu!pos(u)
         /\ Gpu!pos(l) # Gpu!pos(u) - Gpu!ScanSize
         /\ Gpu!pos(l) - Gpu!ScanSize # Gpu!pos(u)
         /\ Gpu!pos(l) - Gpu!ScanSize # Gpu!pos(u) - Gpu!ScanSize
<1>1. l \in 0..WORKGROUP_SIZE - 1 /\ u \in 0..WORKGROUP_SIZE - 1
  BY GroupFacts
<1> QED
  BY GroupFacts, ScanSizes, <1>1

LEMMA GpuNoRace ==
  ASSUME step \in [Gpu!Items -> Nat]
  PROVE  Gpu!ItemsRaceFree
<1> SUFFICES ASSUME kernel \in 1..3, NEW l \in Gpu!Items, NEW u \in Gpu!Items, l # u,
                    Gpu!Ready(l), Gpu!Ready(u)
             PROVE  Gpu!Writes(l) \cap (Gpu!Reads(u) \cup Gpu!Writes(u)) = {}
  BY DEF Gpu!ItemsRaceFree
<1>1. step[l] \in Nat /\ step[u] \in Nat
  OBVIOUS
<1>2. 0 \in Gpu!Items
  BY SizesAssumption DEF Gpu!Items
<1>3. CASE kernel = 3
  <2>1. step[l] = 0 /\ l = 0 => step[u] # 1
    <3>1. step[u] = 1 => Gpu!Barrier(u)
      BY <1>3 DEF Gpu!Ready
    <3> QED
      BY <3>1 DEF Gpu!Barrier
  <2>2. Gpu!Writes(l) = IF step[l] = 0 /\ l = 0 THEN {"buf"} ELSE {}
    BY <1>3 DEF Gpu!Writes
  <2>3. Gpu!Reads(u) = IF step[u] = 1 THEN {"buf"} ELSE {}
    BY <1>3 DEF Gpu!Reads
  <2>4. Gpu!Writes(u) = IF step[u] = 0 /\ u = 0 THEN {"buf"} ELSE {}
    BY <1>3 DEF Gpu!Writes
  <2> QED
    BY <2>1, <2>2, <2>3, <2>4
<1>4. CASE kernel # 3
  <2>1. kernel \in {1, 2}
    BY <1>4
  <2>2. /\ Gpu!pos(l) # Gpu!pos(u)
        /\ Gpu!pos(l) # Gpu!pos(u) - Gpu!ScanSize
        /\ Gpu!pos(l) - Gpu!ScanSize # Gpu!pos(u)
        /\ Gpu!pos(l) - Gpu!ScanSize # Gpu!pos(u) - Gpu!ScanSize
    BY <2>1, Positions
  <2>3. /\ Gpu!Writes(l) \subseteq {Gpu!pos(l), Gpu!pos(l) - Gpu!ScanSize}
        /\ Gpu!Writes(u) \subseteq {Gpu!pos(u), Gpu!pos(u) - Gpu!ScanSize}
    BY <1>1, <1>4 DEF Gpu!Writes
  <2>4. Gpu!Writes(l) # {} => step[l] % 2 = 0
    BY <1>1, <1>4 DEF Gpu!Writes
  <2>5. CASE Gpu!Returning(u)
    <3>1. Gpu!Reads(u) = {Gpu!pos(u)}
      BY <1>4, <2>5 DEF Gpu!Reads
    <3> QED
      BY <2>2, <2>3, <3>1
  <2>6. CASE ~Gpu!Returning(u) /\ step[u] % 2 = 0
    <3>1. Gpu!Reads(u) = {}
      BY <1>4, <2>6 DEF Gpu!Reads
    <3> QED
      BY <2>2, <2>3, <3>1
  <2>7. CASE ~Gpu!Returning(u) /\ step[u] % 2 = 1
    <3>1. step[l] >= step[u]
      BY <1>1, <2>7 DEF Gpu!Ready, Gpu!Barrier
    <3>2. step[l] % 2 = 0 => step[l] # 0 /\ ~Gpu!Returning(l)
      BY <1>1, <2>7, <3>1 DEF Gpu!Returning
    <3>3. step[l] % 2 = 0 => step[u] >= step[l]
      BY <1>1, <3>2 DEF Gpu!Ready, Gpu!Barrier
    <3>4. step[l] % 2 # 0
      BY <1>1, <2>7, <3>1, <3>3
    <3> QED
      BY <2>4, <3>4
  <2> QED
    BY <1>1, <2>5, <2>6, <2>7
<1> QED
  BY <1>3, <1>4

-----------------------------------------------------------------------------
(* The inductive invariant.                                                *)

ScanFuncs == {"STD", "SSE", "AVX", "OMP_SSE", "GPU_STD"}

\* In a call of a scan only the variables of its function move.
CallInv ==
  /\ func \in ScanFuncs
  /\ size \in Sizes
  /\ func = "OMP_SSE" => ScanOmpInv
  /\ func # "OMP_SSE" => \A u \in Threads : pc[u] = "alloc"
  /\ func \in SeqFuncs => SeqInv
  /\ func = "GPU_STD" => step \in [Gpu!Items -> Nat]

\* In a call of another function those of the scans stay as they are.
IdleInv ==
  /\ size = 0 /\ kernel = 4
  /\ \A u \in Threads : pc[u] = "done" /\ offset[u] = Zero

AlgInv ==
  /\ app = "scan" => CallInv
  /\ app # "scan" => IdleInv

LEMMA CallInitially == ScanInit => CallInv
<1> SUFFICES ASSUME ScanInit PROVE CallInv
  OBVIOUS
<1>1. Init /\ func \in ScanFuncs /\ size \in Sizes /\ OneThread!Init /\ Gpu!Init
  BY SizesAssumption DEF ScanInit, Init, ScanFuncs
<1>2. size \in Nat
  BY <1>1, ScanAssumption
<1>3. ScanOmpInv
  BY <1>1, OmpInitially
<1>4. \A u \in Threads : pc[u] = "alloc"
  BY <1>1 DEF Init
<1>5. SeqInv
  <2>1. next = 0 /\ carry = Zero /\ DOMAIN calculated = 0..size - 1
    BY <1>1, SameSums DEF OneThread!Init, Init
  <2> QED
    BY <1>2, <2>1, EmptyInterval DEF SeqInv
<1>6. step \in [Gpu!Items -> Nat]
  BY <1>1 DEF Gpu!Init, Gpu!FreshGroup
<1> QED
  BY <1>1, <1>3, <1>4, <1>5, <1>6 DEF CallInv

LEMMA CallStutter == CallInv /\ UNCHANGED scanVars => CallInv'
<1> SUFFICES ASSUME CallInv, UNCHANGED scanVars PROVE CallInv'
  OBVIOUS
<1>1. /\ func' = func /\ size' = size /\ calculated' = calculated /\ suma' = suma /\ pc' = pc
      /\ i' = i /\ sum' = sum /\ offset' = offset /\ singles' = singles /\ tmp' = tmp
      /\ next' = next /\ carry' = carry /\ step' = step
  BY DEF scanVars, ompVars, seqVars, gpuVars
<1>2. ScanOmpInv => ScanOmpInv'
  BY <1>1, OmpStutter DEF vars
<1> QED
  BY <1>1, <1>2 DEF CallInv, SeqInv

LEMMA CallStep ==
  ASSUME CallInv, ScanNext
  PROVE  CallInv'
<1>1. size \in Nat /\ func' = func /\ func \in ScanFuncs /\ size \in Sizes
  BY ScanAssumption DEF CallInv, ScanNext, scanVars
<1> USE DEF ScanFuncs, SeqFuncs
<1>2. CASE UNCHANGED scanVars
  BY <1>2, CallStutter
<1>4. CASE func \in SeqFuncs /\ size' = size /\ pc' = pc /\ SeqInv'
  BY <1>1, <1>4 DEF CallInv
<1>5. CASE Sequential("STD", OneThread!StdTurn)
  <2>1. func = "STD" /\ OneThread!StdTurn /\ size' = size /\ pc' = pc
    BY <1>5, Zenon DEF Sequential, ompVars
  <2>2. SeqInv'
    BY <1>1, <2>1, StdTurn DEF CallInv
  <2> QED
    BY <1>4, <2>1, <2>2
<1>6. CASE Sequential("SSE", OneThread!SseTurn)
  <2>1. func = "SSE" /\ OneThread!SseTurn /\ size' = size /\ pc' = pc
    BY <1>6, Zenon DEF Sequential, ompVars
  <2>2. SeqInv /\ next \in Nat
    BY <2>1 DEF CallInv, SeqInv
  <2>3. SeqInv'
    BY <1>1, <2>1, <2>2, Vectors, VectorTurn DEF OneThread!SseTurn
  <2> QED
    BY <1>4, <2>1, <2>3
<1>7. CASE Sequential("AVX", OneThread!AvxTurn)
  <2>1. func = "AVX" /\ OneThread!AvxTurn /\ size' = size /\ pc' = pc
    BY <1>7, Zenon DEF Sequential, ompVars
  <2>2. SeqInv /\ next \in Nat
    BY <2>1 DEF CallInv, SeqInv
  <2>3. SeqInv'
    BY <1>1, <2>1, <2>2, Vectors, VectorTurn DEF OneThread!AvxTurn
  <2> QED
    BY <1>4, <2>1, <2>3
<1>8. CASE Parallel
  <2>1. PICK u \in Threads : func = "OMP_SSE" /\ Step(u)
    BY <1>8 DEF Parallel
  <2>2. ScanOmpInv'
    BY <2>1, OmpStep DEF CallInv
  <2>3. size' = size
    BY <2>1, Frame DEF CallInv, ScanOmpInv
  <2> QED
    BY <1>1, <2>1, <2>2, <2>3 DEF CallInv
<1>9. CASE OnGpu
  <2>1. func = "GPU_STD" /\ Gpu!Next /\ size' = size /\ pc' = pc
    BY <1>9 DEF OnGpu, ompVars
  <2>2. step \in [Gpu!Items -> Nat]
    BY <2>1 DEF CallInv
  <2>3. Gpu!Ended \in Nat
    BY SizesAssumption DEF Gpu!Ended
  <2>4. step' \in [Gpu!Items -> Nat]
    BY <2>1, <2>2, <2>3 DEF Gpu!Next, Gpu!Enqueue, Gpu!Refused, Gpu!GroupEnds, Gpu!ReadBuffer,
      Gpu!Item, Gpu!Fill, Gpu!Load, Gpu!Save, Gpu!Return, Gpu!LoadTotal, Gpu!AddTotal,
      Gpu!Advance, Gpu!NewGroup, Gpu!FreshGroup, Gpu!gpuVars, Gpu!itemVars
  <2> QED
    BY <1>1, <2>1, <2>4 DEF CallInv
<1> QED
  BY <1>2, <1>5, <1>6, <1>7, <1>8, <1>9 DEF ScanNext, Call

\* The inductive invariant, for every input and whatever the GPU is.
THEOREM Calls == AlgSpec => []AlgInv
<1>1. AlgInit => AlgInv
  <2> SUFFICES ASSUME AlgInit PROVE AlgInv
    OBVIOUS
  <2>1. CASE app = "scan"
    BY <2>1, CallInitially DEF AlgInit, AlgInv
  <2>2. CASE app # "scan"
    <3>1. IdleScan
      BY <2>2 DEF AlgInit
    <3> QED
      BY <2>2, <3>1 DEF IdleScan, AlgInv, IdleInv
  <2> QED
    BY <2>1, <2>2
<1>2. AlgInv /\ [AlgNext]_algVars => AlgInv'
  <2> SUFFICES ASSUME AlgInv, [AlgNext]_algVars PROVE AlgInv'
    OBVIOUS
  <2>1. app' = app
    BY DEF AlgNext, algVars, input
  <2>2. CASE app = "scan"
    <3>1. ScanNext \/ UNCHANGED algVars
      BY <2>2 DEF AlgNext
    <3>2. UNCHANGED algVars => UNCHANGED scanVars
      BY DEF algVars, input, scanOnly, kernelVars, scanVars, ompVars, seqVars, gpuVars
    <3>3. ScanNext \/ UNCHANGED scanVars
      BY <3>1, <3>2
    <3>4. CallInv'
      BY <2>2, <3>3, CallStep, CallStutter DEF AlgInv
    <3> QED
      BY <2>1, <2>2, <3>4 DEF AlgInv
  <2>3. CASE app # "scan"
    <3>1. size' = size /\ pc' = pc /\ offset' = offset /\ kernel' = kernel
      BY <2>3 DEF AlgNext, algVars, scanOnly, ompVars
    <3> QED
      BY <2>1, <2>3, <3>1 DEF AlgInv, IdleInv
  <2> QED
    BY <2>2, <2>3
<1> QED
  BY <1>1, <1>2, PTL DEF AlgSpec

-----------------------------------------------------------------------------
(* The properties.                                                         *)

\* Outside of a call of the parallel scan no thread of its team is on the way.
LEMMA OutsideOmp ==
  ASSUME AlgInv, ~(app = "scan" /\ func = "OMP_SSE")
  PROVE  RaceFree /\ OffsetComplete /\ ScanCorrect
<1>1. \A u \in Threads : pc[u] \in {"alloc", "done"}
  BY DEF AlgInv, CallInv, IdleInv
<1>2. RaceFree
  BY <1>1 DEF RaceFree, Touches
<1>3. CASE app = "scan"
  <2>1. \A u \in Threads : pc[u] = "alloc"
    BY <1>3 DEF AlgInv, CallInv
  <2>2. 0 \in Threads
    BY TeamAssumption DEF Threads
  <2>3. ~Reached("done")
    BY <2>1, <2>2, PointFacts DEF Reached
  <2> QED
    BY <1>2, <2>1, <2>3 DEF OffsetComplete, ScanCorrect
<1>4. CASE app # "scan"
  <2>1. size = 0 /\ \A u \in Threads : offset[u] = Zero
    BY <1>4 DEF AlgInv, IdleInv
  <2>2. \A u \in Threads : First(u, 0) = 0
    BY FirstMonotone, FirstNat, FirstEnds, TeamAssumption DEF Threads
  <2>3. OffsetComplete
    BY <2>1, <2>2, EmptyInterval DEF OffsetComplete
  <2>4. ScanCorrect
    BY <2>1 DEF ScanCorrect
  <2> QED
    BY <1>2, <2>3, <2>4
<1> QED
  BY <1>3, <1>4

\* No two threads of scanCPU_OMP_SSE access the same element or total without a barrier
\* in between, for every size and number of threads.
THEOREM TeamRaceFree == AlgSpec => []RaceFree
<1>1. AlgInv => RaceFree
  BY OutsideOmp, OmpRaceFree DEF AlgInv, CallInv
<1> QED
  BY <1>1, Calls, PTL

\* A thread of scanCPU_OMP_SSE adds the sum of all elements before its first one,
\* whatever the size.
THEOREM TeamOffsets == AlgSpec => []OffsetComplete
<1>1. AlgInv => OffsetComplete
  BY OutsideOmp, OmpOffsets DEF AlgInv, CallInv
<1> QED
  BY <1>1, Calls, PTL

\* Where the two loops of scanCPU_OMP_SSE divide the input at the same places, its
\* result is the scan.
THEOREM TeamScans == AlgSpec => []ScanCorrect
<1>1. AlgInv => ScanCorrect
  BY OutsideOmp, OmpCorrect DEF AlgInv, CallInv
<1> QED
  BY <1>1, Calls, PTL

\* scanCPU_STD, scanCPU_SSE and scanCPU_AVX give every element the sum of those up to
\* it, for every size: also when the last vector is not full.
THEOREM OneThreadScans == AlgSpec => []SequentialRight
<1>1. AlgInv => SequentialRight
  <2> SUFFICES ASSUME AlgInv, Returned, func \in SeqFuncs, NEW k \in 0..size - 1
               PROVE  calculated[k] = Interval(0, k + 1)
    BY DEF SequentialRight, SeqFuncs
  <2>1. app = "scan"
    BY DEF AlgInv, IdleInv
  <2>2. SeqInv /\ size \in Nat
    BY <2>1, ScanAssumption DEF AlgInv, CallInv
  <2>3. next >= size
    BY DEF Returned, OneThread!Done, SeqFuncs
  <2> QED
    BY <2>2, <2>3 DEF SeqInv
<1> QED
  BY <1>1, Calls, PTL

\* Between two barriers no item of a work-group of the scan kernels uses local memory
\* that another one writes, for every size of the group.
THEOREM GroupRaceFree == AlgSpec => []GpuRaceFree
<1>1. AlgInv => GpuRaceFree
  <2> SUFFICES ASSUME AlgInv, func = "GPU_STD" PROVE Gpu!ItemsRaceFree
    BY DEF GpuRaceFree
  <2>1. CASE app = "scan"
    BY <2>1, GpuNoRace DEF AlgInv, CallInv
  <2>2. CASE app # "scan"
    BY <2>2 DEF AlgInv, IdleInv, Gpu!ItemsRaceFree
  <2> QED
    BY <2>1, <2>2
<1> QED
  BY <1>1, Calls, PTL

-----------------------------------------------------------------------------
(* The scan on the GPU.                                                    *)

LEMMA Quotient ==
  ASSUME NEW n \in Nat \ {0}, NEW q \in Nat, NEW r \in 0..n - 1
  PROVE  (q * n + r) \div n = q /\ (q * n + r) % n = r
<1> DEFINE x == q * n + r
           a == x \div n
           b == x % n
<1>1. x \in Nat /\ q * n \in Nat /\ r \in Nat /\ r < n
  OBVIOUS
<1>2. a \in Nat /\ b \in 0..n - 1 /\ x = n * a + b
  <2> HIDE DEF x
  <2>1. \A y \in Nat : y \div n \in Nat /\ y % n \in 0..n - 1 /\ y = n * (y \div n) + (y % n)
    OBVIOUS
  <2> QED
    BY <1>1, <2>1
<1>3. q * n + r = a * n + b
  BY <1>2
<1> HIDE DEF a, b
<1>4. ~(a < q)
  <2> SUFFICES ASSUME a < q PROVE FALSE
    OBVIOUS
  <2>1. (a + 1) * n <= q * n
    BY <1>2, Products
  <2>2. (a + 1) * n = a * n + n
    BY <1>2
  <2> QED
    BY <1>1, <1>2, <1>3, <2>1, <2>2
<1>5. ~(q < a)
  <2> SUFFICES ASSUME q < a PROVE FALSE
    OBVIOUS
  <2>1. (q + 1) * n <= a * n
    BY <1>2, Products
  <2>2. (q + 1) * n = q * n + n
    BY <1>2
  <2> QED
    BY <1>1, <1>2, <1>3, <2>1, <2>2
<1>6. a = q
  BY <1>2, <1>4, <1>5
<1>7. b = r
  BY <1>1, <1>2, <1>3, <1>6
<1> QED
  BY <1>6, <1>7 DEF a, b

\* A kernel runs; and an item has added, and not saved yet.
Running == kernel \in 1..3 /\ Gpu!Accepted(kernel)
Saving(l) == step[l] % 2 = 0 /\ step[l] > 0

\* The offset of an item once the step it is in has been saved.
After(l) == IF Saving(l) THEN 2 * offsets[l] ELSE offsets[l]

\* The offset of an item goes with its step, and the loop ends by the offset.
Phase(l) ==
  /\ step[l] < Gpu!Ended =>
       /\ step[l] <= 2 * offsets[l]
       /\ step[l] % 2 = 1 => step[l] + 1 <= 2 * offsets[l]
       /\ Saving(l) => offsets[l] < WORKGROUP_SIZE
  /\ step[l] = Gpu!Ended => offsets[l] >= WORKGROUP_SIZE

\* The barriers: no item is more than a step ahead, and those in a step have one offset.
Together(l, u) ==
  step[l] < Gpu!Ended =>
    /\ step[u] < Gpu!Ended => step[u] <= step[l] + 1
    /\ step[u] = step[l] => offsets[u] = offsets[l]
    /\ step[u] = step[l] + 1 \/ step[u] = Gpu!Ended => offsets[u] = After(l)

\* The steps of a group.
Phases ==
  /\ step \in [Gpu!Items -> 0..Gpu!Ended]
  /\ offsets \in [Gpu!Items -> 1..2 * WORKGROUP_SIZE]
  /\ \A l \in Gpu!Items : step[l] = 0 => offsets[l] = 1
  /\ kernel \in {1, 2} => \A l \in Gpu!Items : Phase(l) /\ \A u \in Gpu!Items : Together(l, u)

\* The kernels run one after the other, group by group.
Control ==
  /\ enabled \in BOOLEAN
  /\ kernel \in 0..4
  /\ kernel \in 1..3 => enabled
  /\ group \in Nat
  /\ Running => group * WORKGROUP_SIZE < Gpu!globalWorkSize(kernel)
  /\ ~Running => group = 0 /\ \A l \in Gpu!Items : step[l] = 0

LEMMA FreshPhases ==
  ASSUME step = Gpu!FreshGroup.step, offsets = Gpu!FreshGroup.offsets
  PROVE  Phases /\ \A l \in Gpu!Items : step[l] = 0
<1>1. step = [l \in Gpu!Items |-> 0] /\ offsets = [l \in Gpu!Items |-> 1]
  BY DEF Gpu!FreshGroup
<1>2. \A l \in Gpu!Items : step[l] = 0 /\ offsets[l] = 1
  BY <1>1
<1>3. step \in [Gpu!Items -> 0..Gpu!Ended] /\ offsets \in [Gpu!Items -> 1..2 * WORKGROUP_SIZE]
  BY GroupFacts, <1>1
<1>4. \A l \in Gpu!Items : Phase(l) /\ \A u \in Gpu!Items : Together(l, u)
  BY GroupFacts, <1>2 DEF Phase, Together, After, Saving
<1> QED
  BY <1>2, <1>3, <1>4 DEF Phases

\* A step that only one item takes.
LEMMA PhasesStep ==
  ASSUME Phases, kernel \in {1, 2}, kernel' = kernel, NEW l \in Gpu!Items, step[l] < Gpu!Ended,
         \/ /\ step[l] = 0 /\ step' = [step EXCEPT ![l] = @ + 1] /\ offsets' = offsets
         \/ /\ step[l] % 2 = 1 /\ offsets[l] < WORKGROUP_SIZE /\ Gpu!Barrier(l)
            /\ step' = [step EXCEPT ![l] = @ + 1] /\ offsets' = offsets
         \/ /\ Saving(l) /\ Gpu!Barrier(l)
            /\ step' = [step EXCEPT ![l] = @ + 1] /\ offsets' = [offsets EXCEPT ![l] = 2 * @]
         \/ /\ step[l] % 2 = 1 /\ offsets[l] >= WORKGROUP_SIZE
            /\ step' = [step EXCEPT ![l] = Gpu!Ended] /\ offsets' = offsets
  PROVE  Phases'
<1> DEFINE E == Gpu!Ended
           s == step[l]
           o == offsets[l]
<1>1. /\ \A u \in Gpu!Items : step[u] \in 0..E /\ offsets[u] \in 1..2 * WORKGROUP_SIZE
      /\ \A u \in Gpu!Items : step[u] = 0 => offsets[u] = 1
      /\ \A u \in Gpu!Items : Phase(u) /\ Together(l, u) /\ Together(u, l)
      /\ \A u, v \in Gpu!Items : Together(u, v)
  BY DEF Phases
<1>2. WORKGROUP_SIZE \in Nat \ {0} /\ E = 2 * WORKGROUP_SIZE
  BY GroupFacts
<1>3. \A u \in Gpu!Items : u # l => step'[u] = step[u] /\ offsets'[u] = offsets[u]
  BY DEF Phases
<1>4. /\ step'[l] \in 1..E
      /\ offsets'[l] \in 1..2 * WORKGROUP_SIZE
      /\ Phase(l)'
      /\ \A u \in Gpu!Items : u # l => Together(l, u)' /\ Together(u, l)'
  <2> HIDE DEF E
  <2> SUFFICES ASSUME NEW u \in Gpu!Items
               PROVE  /\ step'[l] \in 1..E /\ offsets'[l] \in 1..2 * WORKGROUP_SIZE
                      /\ Phase(l)'
                      /\ u # l => Together(l, u)' /\ Together(u, l)'
    OBVIOUS
  <2>1. CASE s = 0 /\ step' = [step EXCEPT ![l] = @ + 1] /\ offsets' = offsets
    <3>1. step'[l] = 1 /\ offsets'[l] = 1 /\ o = 1
      BY <1>1, <2>1 DEF Phases
    <3>2. u # l => step'[u] = step[u] /\ offsets'[u] = offsets[u]
      BY <1>3
    <3> QED
      BY <1>1, <1>2, <2>1, <3>1, <3>2 DEF Phase, Together, After, Saving, E
  <2>2. CASE /\ s % 2 = 1 /\ o < WORKGROUP_SIZE /\ Gpu!Barrier(l)
             /\ step' = [step EXCEPT ![l] = @ + 1] /\ offsets' = offsets
    <3>1. step'[l] = s + 1 /\ offsets'[l] = o /\ step[u] >= s
      BY <1>1, <2>2 DEF Phases, Gpu!Barrier
    <3>2. u # l => step'[u] = step[u] /\ offsets'[u] = offsets[u]
      BY <1>3
    <3>3. s \in Nat /\ s < E /\ s + 1 <= 2 * o /\ (s + 1) % 2 = 0 /\ s + 1 < E /\ o \in Nat
      <4>1. Phase(l) /\ s \in 0..E /\ o \in 1..2 * WORKGROUP_SIZE /\ s % 2 = 1
        BY <1>1, <2>2
      <4>2. s + 1 <= 2 * o
        BY <1>2, <4>1 DEF Phase, E
      <4> QED
        BY <1>2, <2>2, <4>1, <4>2 DEF E
    <3>4. step[u] \in {s, s + 1} /\ offsets[u] = o
      BY <1>1, <1>2, <2>2, <3>1, <3>3 DEF Phase, Together, After, Saving, E
    <3>5. step'[l] \in 1..E /\ offsets'[l] \in 1..2 * WORKGROUP_SIZE /\ Phase(l)'
      BY <1>1, <1>2, <2>2, <3>1, <3>3 DEF Phase, Saving, E
    <3>6. u # l => Together(l, u)' /\ Together(u, l)'
      BY <1>1, <1>2, <2>2, <3>1, <3>2, <3>3, <3>4 DEF Together, After, Saving, E
    <3> QED
      BY <3>5, <3>6
  <2>3. CASE /\ Saving(l) /\ Gpu!Barrier(l)
             /\ step' = [step EXCEPT ![l] = @ + 1] /\ offsets' = [offsets EXCEPT ![l] = 2 * @]
    <3>1. step'[l] = s + 1 /\ offsets'[l] = 2 * o /\ step[u] >= s
      BY <1>1, <2>3 DEF Phases, Gpu!Barrier
    <3>2. u # l => step'[u] = step[u] /\ offsets'[u] = offsets[u]
      BY <1>3
    <3> QED
      BY <1>1, <1>2, <2>3, <3>1, <3>2 DEF Phase, Together, After, Saving, E
  <2>4. CASE /\ s % 2 = 1 /\ o >= WORKGROUP_SIZE
             /\ step' = [step EXCEPT ![l] = E] /\ offsets' = offsets
    <3>1. step'[l] = E /\ offsets'[l] = o
      BY <1>1, <2>4 DEF Phases
    <3>2. u # l => step'[u] = step[u] /\ offsets'[u] = offsets[u]
      BY <1>3
    <3> QED
      BY <1>1, <1>2, <2>4, <3>1, <3>2 DEF Phase, Together, After, Saving, E
  <2> QED
    BY <2>1, <2>2, <2>3, <2>4 DEF E
<1>5. \A u \in Gpu!Items : u # l => Phase(u)'
  BY <1>1, <1>3 DEF Phase, Saving
<1>6. \A u, v \in Gpu!Items : u # l /\ v # l => Together(u, v)'
  BY <1>1, <1>3 DEF Together, After, Saving
<1>7. \A u \in Gpu!Items : Together(u, u)'
  BY <1>1, <1>3, <1>4, <1>2 DEF Together
<1>8. \A u \in Gpu!Items : step'[u] \in 0..E /\ offsets'[u] \in 1..2 * WORKGROUP_SIZE
                           /\ (step'[u] = 0 => offsets'[u] = 1)
  BY <1>1, <1>2, <1>3, <1>4
<1>9. step' \in [Gpu!Items -> 0..E] /\ offsets' \in [Gpu!Items -> 1..2 * WORKGROUP_SIZE]
  BY <1>8 DEF Phases
<1> QED
  BY <1>4, <1>5, <1>6, <1>7, <1>8, <1>9 DEF Phases

-----------------------------------------------------------------------------

LEMMA GpuSums ==
  /\ Gpu!Zero = Zero /\ Gpu!Wrong = Wrong
  /\ \A n : Gpu!SumsOver(n) = SumsOver(n) /\ Gpu!Element(n) = Element(n)
  /\ \A a, b : /\ Gpu!Interval(a, b) = Interval(a, b)
               /\ Gpu!Add(a, b) = Add(a, b) /\ Gpu!Sub(a, b) = Sub(a, b)
BY DEF Gpu!Zero, Zero, Gpu!Wrong, Wrong, Gpu!SumsOver, SumsOver, Gpu!Element, Element,
  Gpu!Interval, Interval, Gpu!Add, Add, Gpu!Sub, Sub

LEMMA SubTypes ==
  ASSUME NEW n \in Nat, NEW a \in SumsOver(n), NEW b \in SumsOver(n)
  PROVE  Sub(a, b) \in SumsOver(n)
<1>1. CASE b = Zero \/ Wrong \in {a, b} \/ a[2] # b[2] \/ a[1] > b[1]
  BY <1>1, SumTypes DEF Sub
<1>2. CASE ~(b = Zero \/ Wrong \in {a, b} \/ a[2] # b[2] \/ a[1] > b[1])
  <2>1. a[1] \in 0..n /\ b[1] \in 0..n
    BY <1>2 DEF SumsOver
  <2>2. Sub(a, b) = Interval(a[1], b[1])
    BY <1>2 DEF Sub
  <2> QED
    BY <2>1, <2>2, SumTypes
<1> QED
  BY <1>1, <1>2

LEMMA SubIntervals ==
  ASSUME NEW a \in Nat, NEW b \in Nat, NEW c \in Nat, a <= b, b <= c
  PROVE  Sub(Interval(a, c), Interval(b, c)) = Interval(a, b)
<1>1. CASE b = c
  BY <1>1 DEF Sub, Interval
<1>2. CASE b # c
  <2>1. Interval(b, c) = <<b, c>> /\ Interval(a, c) = <<a, c>>
    BY <1>2 DEF Interval
  <2>2. <<b, c>> # Zero /\ Wrong # <<b, c>> /\ Wrong # <<a, c>>
    BY <1>2 DEF Zero, Wrong
  <2> QED
    BY <2>1, <2>2 DEF Sub
<1> QED
  BY <1>1, <1>2

\* The invariant of the control, for every size.
GpuTypes == size \in Nat /\ Gpu!TypeOK /\ Phases /\ Control

\* The items of a group that a kernel is enqueued for.
LEMMA ItemBounds ==
  ASSUME GpuTypes, Running, NEW l \in Gpu!Items
  PROVE  /\ group * WORKGROUP_SIZE \in Nat /\ Gpu!gid(l) = group * WORKGROUP_SIZE + l
         /\ Gpu!gid(l) \in Nat /\ Gpu!gid(l) < Gpu!globalWorkSize(kernel)
         /\ Gpu!elements \in Nat /\ Gpu!elements * (4 * WORKGROUP_SIZE) <= size
<1> DEFINE n == Gpu!globalWorkSize(kernel)
           e == Gpu!elements
           d == 4 * WORKGROUP_SIZE
<1>1. WORKGROUP_SIZE \in Nat \ {0} /\ l \in 0..WORKGROUP_SIZE - 1 /\ group \in Nat /\ size \in Nat
  BY GroupFacts DEF GpuTypes, Control
<1>2. e = size \div d /\ d \in Nat \ {0}
  BY <1>1, GroupFacts DEF Gpu!elements
<1>3. e \in Nat /\ e * d <= size
  <2> HIDE DEF d, e
  <2>1. \A x \in Nat, y \in Nat \ {0} : x \div y \in Nat /\ (x \div y) * y <= x
    <3> SUFFICES ASSUME NEW x \in Nat, NEW y \in Nat \ {0}
                 PROVE  x \div y \in Nat /\ (x \div y) * y <= x
      OBVIOUS
    <3>1. x \div y \in Nat /\ x % y \in 0..y - 1 /\ x = y * (x \div y) + (x % y)
      OBVIOUS
    <3> QED
      BY <3>1
  <2> QED
    BY <1>1, <1>2, <2>1
<1>4. n \in Nat
  <2>1. kernel = 1 => n = size \div 4
    BY DEF Gpu!globalWorkSize
  <2>2. kernel = 3 => n = e * WORKGROUP_SIZE
    BY DEF Gpu!globalWorkSize
  <2>3. kernel = 2 => n = IF e % WORKGROUP_SIZE = 0 THEN e
                          ELSE e - (e % WORKGROUP_SIZE) + WORKGROUP_SIZE
    BY DEF Gpu!globalWorkSize, Gpu!iSnapUp
  <2> HIDE DEF e, n
  <2>4. kernel = 2 => n \in Nat
    <3>1. e % WORKGROUP_SIZE \in 0..WORKGROUP_SIZE - 1
      BY <1>1, <1>3
    <3> QED
      BY <1>1, <1>3, <2>3, <3>1
  <2>5. kernel \in {1, 3} => n \in Nat
    BY <1>1, <1>3, <2>1, <2>2
  <2> QED
    BY <2>4, <2>5 DEF Running
<1>5. n % WORKGROUP_SIZE = 0 /\ group * WORKGROUP_SIZE < n
  BY DEF Running, Gpu!Accepted, GpuTypes, Control
<1> DEFINE q == n \div WORKGROUP_SIZE
<1> HIDE DEF n, e, d
<1>6. q \in Nat /\ n = q * WORKGROUP_SIZE
  BY <1>1, <1>4, <1>5
<1>7. group * WORKGROUP_SIZE + l < n
  <2> HIDE DEF q
  <2>1. ~(q <= group)
    BY <1>1, <1>5, <1>6, Products
  <2>2. (group + 1) * WORKGROUP_SIZE <= q * WORKGROUP_SIZE
    BY <1>1, <1>6, <2>1, Products
  <2>3. (group + 1) * WORKGROUP_SIZE = group * WORKGROUP_SIZE + WORKGROUP_SIZE
        /\ group * WORKGROUP_SIZE \in Nat
    BY <1>1
  <2> QED
    BY <1>1, <1>6, <2>2, <2>3
<1> QED
  BY <1>1, <1>3, <1>7 DEF Gpu!gid, n, e, d

\* What an item hands to scan1Inclusive.
LEMMA ItemData ==
  ASSUME GpuTypes, Running, kernel \in {1, 2}, NEW l \in Gpu!Items
  PROVE  Gpu!idata(l) \in SumsOver(size)
<1>1. /\ Gpu!gid(l) \in Nat /\ Gpu!gid(l) < Gpu!globalWorkSize(kernel) /\ size \in Nat
      /\ Gpu!elements \in Nat /\ Gpu!elements * (4 * WORKGROUP_SIZE) <= size
  BY ItemBounds DEF GpuTypes
<1>2. CASE kernel = 1
  <2>1. Gpu!idata(l) = Interval(4 * Gpu!gid(l), 4 * Gpu!gid(l) + 4)
    BY <1>2, GpuSums DEF Gpu!idata
  <2>2. Gpu!gid(l) < size \div 4
    BY <1>1, <1>2 DEF Gpu!globalWorkSize
  <2>3. 4 * Gpu!gid(l) \in 0..size /\ 4 * Gpu!gid(l) + 4 \in 0..size
    BY <1>1, <2>2
  <2> QED
    BY <1>1, <2>1, <2>3, SumTypes
<1>3. CASE kernel = 2 /\ Gpu!gid(l) < Gpu!elements
  <2> DEFINE k == Gpu!Last(Gpu!gid(l))
  <2>1. Gpu!idata(l) = Add(d_Dst[k], Element(k))
    BY <1>3, GpuSums DEF Gpu!idata
  <2>2. k \in 0..size - 1
    <3> DEFINE g == Gpu!gid(l)
               d == 4 * WORKGROUP_SIZE
    <3>1. k = d - 1 + d * g /\ d \in Nat \ {0}
      BY GroupFacts DEF Gpu!Last
    <3> HIDE DEF g, d
    <3>2. (g + 1) * d <= Gpu!elements * d
      BY <1>1, <1>3, <3>1, Products DEF g
    <3>3. (g + 1) * d = d * g + d /\ d * g \in Nat
      BY <1>1, <3>1 DEF g
    <3>4. Gpu!elements * d \in Nat /\ Gpu!elements * d <= size
      BY <1>1, <3>1 DEF d
    <3> HIDE DEF k
    <3> QED
      BY <1>1, <3>1, <3>2, <3>3, <3>4
  <2>3. d_Dst[k] \in SumsOver(size)
    BY <2>2, GpuSums DEF GpuTypes, Gpu!TypeOK
  <2> HIDE DEF k
  <2>4. Element(k) \in SumsOver(size)
    <3>1. k \in 0..size /\ k + 1 \in 0..size
      BY <1>1, <2>2
    <3> QED
      BY <1>1, <3>1, SumTypes DEF Element
  <2> QED
    BY <1>1, <2>1, <2>3, <2>4, SumTypes
<1>4. CASE kernel = 2 /\ ~(Gpu!gid(l) < Gpu!elements)
  BY <1>1, <1>4, GpuSums, SumTypes DEF Gpu!idata
<1> QED
  BY <1>2, <1>3, <1>4

\* What a step of an item does to the counters.
LEMMA ItemSteps ==
  ASSUME GpuTypes, NEW l \in Gpu!Items, Gpu!Item(l), size' = size
  PROVE  /\ Running /\ step[l] < Gpu!Ended
         /\ calculated' = calculated /\ enabled' = enabled /\ kernel' = kernel /\ group' = group
         /\ Phases'
         /\ step'[l] # 0 /\ \A u \in Gpu!Items : u # l => step'[u] = step[u]
<1>1. Phases /\ WORKGROUP_SIZE \in Nat \ {0} /\ Gpu!Ended = 2 * WORKGROUP_SIZE /\ Phases /\ step[l] \in Nat
  BY GroupFacts DEF GpuTypes, Phases
<1> DEFINE Rest == calculated' = calculated /\ enabled' = enabled /\ kernel' = kernel /\ group' = group
<1>2. CASE Gpu!Fill(l)
  <2>1. /\ kernel \in {1, 2} /\ Running /\ step[l] < Gpu!Ended /\ step[l] = 0
        /\ step' = [step EXCEPT ![l] = @ + 1] /\ offsets' = offsets /\ Rest
    BY <1>2 DEF Gpu!Fill, Gpu!Scanning, Gpu!Advance, Running
  <2>2. Phases'
    BY <1>1, <2>1, PhasesStep
  <2> QED
    BY <1>1, <2>1, <2>2 DEF Phases
<1>3. CASE Gpu!Load(l)
  <2>1. /\ kernel \in {1, 2} /\ Running /\ step[l] < Gpu!Ended /\ step[l] % 2 = 1
        /\ offsets[l] < Gpu!ScanSize /\ Gpu!Barrier(l)
        /\ step' = [step EXCEPT ![l] = @ + 1] /\ offsets' = offsets /\ Rest
    BY <1>3 DEF Gpu!Load, Gpu!Scanning, Gpu!Advance, Running
  <2>2. Phases'
    BY <1>1, <2>1, PhasesStep, ScanSizes
  <2> QED
    BY <1>1, <2>1, <2>2 DEF Phases
<1>4. CASE Gpu!Save(l)
  <2>1. /\ kernel \in {1, 2} /\ Running /\ step[l] < Gpu!Ended /\ Saving(l) /\ Gpu!Barrier(l)
        /\ step' = [step EXCEPT ![l] = @ + 1] /\ offsets' = [offsets EXCEPT ![l] = 2 * @] /\ Rest
    BY <1>4 DEF Gpu!Save, Gpu!Scanning, Gpu!Advance, Running, Saving
  <2>2. Phases'
    BY <1>1, <2>1, PhasesStep
  <2> QED
    BY <1>1, <2>1, <2>2 DEF Phases
<1>5. CASE Gpu!Return(l)
  <2>1. /\ kernel \in {1, 2} /\ Running /\ step[l] < Gpu!Ended /\ step[l] % 2 = 1
        /\ offsets[l] >= Gpu!ScanSize
        /\ step' = [step EXCEPT ![l] = Gpu!Ended] /\ offsets' = offsets /\ Rest
    BY <1>5 DEF Gpu!Return, Gpu!Scanning, Running
  <2>2. Phases'
    BY <1>1, <2>1, PhasesStep, ScanSizes
  <2> QED
    BY <1>1, <2>1, <2>2 DEF Phases
<1>6. CASE Gpu!LoadTotal(l) \/ Gpu!AddTotal(l)
  <2>1. /\ kernel = 3 /\ Running /\ step[l] < Gpu!Ended /\ offsets' = offsets /\ Rest
        /\ \/ step[l] = 0 /\ step' = [step EXCEPT ![l] = @ + 1]
           \/ step' = [step EXCEPT ![l] = Gpu!Ended]
    BY <1>6 DEF Gpu!LoadTotal, Gpu!AddTotal, Gpu!Updating, Gpu!Advance, Running
  <2>2. Phases'
    BY <1>1, <2>1 DEF Phases
  <2> QED
    BY <1>1, <2>1, <2>2 DEF Phases
<1> QED
  BY <1>2, <1>3, <1>4, <1>5, <1>6 DEF Gpu!Item

LEMMA PlaceTypes ==
  ASSUME kernel \in {1, 2}, NEW l \in Gpu!Items
  PROVE  /\ Gpu!pos(l) \in 0..2 * WORKGROUP_SIZE - 1
         /\ Gpu!pos(l) - Gpu!ScanSize \in 0..2 * WORKGROUP_SIZE - 1
         /\ \A o \in 1..2 * WORKGROUP_SIZE :
              o < Gpu!ScanSize => Gpu!pos(l) - o \in 0..2 * WORKGROUP_SIZE - 1
BY GroupFacts, ScanSizes

LEMMA ItemTypes ==
  ASSUME GpuTypes, NEW l \in Gpu!Items, Gpu!Item(l), size' = size
  PROVE  Gpu!TypeOK'
<1> DEFINE S == SumsOver(size)
           Store == [0..2 * WORKGROUP_SIZE - 1 -> S]
<1>1. /\ size \in Nat /\ l_Data \in Store /\ t \in [Gpu!Items -> S]
      /\ d_Dst \in [0..size - 1 -> S] /\ d_Buf \in [0..Gpu!elements - 1 -> S] /\ buf \in S
      /\ enabled \in BOOLEAN /\ kernel \in 0..4 /\ group \in Nat
  BY GpuSums DEF GpuTypes, Gpu!TypeOK
<1>2. /\ Running /\ enabled' = enabled /\ kernel' = kernel /\ group' = group
      /\ step' \in [Gpu!Items -> 0..Gpu!Ended]
      /\ offsets' \in [Gpu!Items -> 1..2 * WORKGROUP_SIZE]
      /\ offsets \in [Gpu!Items -> 1..2 * WORKGROUP_SIZE]
  BY ItemSteps DEF Phases, GpuTypes
<1>3. \A a, b \in S : Add(a, b) \in S /\ Sub(a, b) \in S
  BY <1>1, SumTypes, SubTypes
<1>4. Zero \in S /\ Wrong \in S /\ \A a, b \in 0..size : Interval(a, b) \in S
  BY <1>1, SumTypes
<1>5. \A k \in 0..size - 1 : Element(k) \in S
  <2>1. \A k \in 0..size - 1 : k \in 0..size /\ k + 1 \in 0..size
    BY <1>1
  <2> QED
    BY <1>4, <2>1 DEF Element
<1> HIDE DEF S
<1>6. /\ l_Data' \in Store /\ t' \in [Gpu!Items -> S]
      /\ d_Dst' \in [0..size - 1 -> S] /\ d_Buf' \in [0..Gpu!elements - 1 -> S] /\ buf' \in S
  <2>1. CASE Gpu!Fill(l)
    <3>1. /\ kernel \in {1, 2} /\ t' = t /\ buf' = buf /\ d_Dst' = d_Dst /\ d_Buf' = d_Buf
          /\ l_Data' = [l_Data EXCEPT ![Gpu!pos(l) - Gpu!ScanSize] = Zero,
                                      ![Gpu!pos(l)] = Gpu!idata(l)]
      BY <2>1, GpuSums DEF Gpu!Fill, Gpu!Scanning
    <3>2. Gpu!idata(l) \in S
      BY <1>2, <3>1, ItemData DEF S
    <3>3. l_Data' \in Store
      BY <1>1, <1>4, <3>1, <3>2, PlaceTypes
    <3> QED
      BY <1>1, <3>1, <3>3
  <2>2. CASE Gpu!Load(l)
    <3>1. /\ kernel \in {1, 2} /\ l_Data' = l_Data /\ buf' = buf /\ d_Dst' = d_Dst /\ d_Buf' = d_Buf
          /\ offsets[l] < Gpu!ScanSize
          /\ t' = [t EXCEPT ![l] = Add(l_Data[Gpu!pos(l) - offsets[l]], l_Data[Gpu!pos(l)])]
      BY <2>2, GpuSums DEF Gpu!Load, Gpu!Scanning
    <3>2. /\ l_Data[Gpu!pos(l)] \in S /\ l_Data[Gpu!pos(l) - offsets[l]] \in S
      BY <1>1, <1>2, <3>1, PlaceTypes
    <3>3. t' \in [Gpu!Items -> S]
      BY <1>1, <1>3, <3>1, <3>2
    <3> QED
      BY <1>1, <3>1, <3>3
  <2>3. CASE Gpu!Save(l)
    <3>1. /\ kernel \in {1, 2} /\ t' = t /\ buf' = buf /\ d_Dst' = d_Dst /\ d_Buf' = d_Buf
          /\ l_Data' = [l_Data EXCEPT ![Gpu!pos(l)] = t[l]]
      BY <2>3 DEF Gpu!Save, Gpu!Scanning
    <3>2. l_Data' \in Store
      BY <1>1, <3>1, PlaceTypes
    <3> QED
      BY <1>1, <3>1, <3>2
  <2>4. CASE Gpu!Return(l)
    <3> DEFINE val == Sub(l_Data[Gpu!pos(l)], Gpu!idata(l))
    <3>1. /\ kernel \in {1, 2} /\ t' = t /\ buf' = buf /\ l_Data' = l_Data
          /\ \/ /\ kernel = 1 /\ d_Buf' = d_Buf
                /\ d_Dst' = [k \in 0..size - 1 |->
                      IF k \div 4 = Gpu!gid(l)
                      THEN Sub(Add(val, Interval(4 * Gpu!gid(l), k + 1)), Element(k))
                      ELSE d_Dst[k]]
             \/ /\ kernel = 2 /\ d_Dst' = d_Dst
                /\ d_Buf' = [g \in 0..Gpu!elements - 1 |-> IF g = Gpu!gid(l) THEN val ELSE d_Buf[g]]
      BY <2>4, GpuSums DEF Gpu!Return, Gpu!Scanning
    <3>2. val \in S
      <4>1. Gpu!idata(l) \in S
        BY <1>2, <3>1, ItemData DEF S
      <4>2. l_Data[Gpu!pos(l)] \in S
        BY <1>1, <3>1, PlaceTypes
      <4> QED
        BY <1>3, <4>1, <4>2
    <3> HIDE DEF val
    <3>3. ASSUME NEW k \in 0..size - 1, k \div 4 = Gpu!gid(l)
          PROVE  Sub(Add(val, Interval(4 * Gpu!gid(l), k + 1)), Element(k)) \in S
      <4>1. 4 * Gpu!gid(l) \in 0..size /\ k + 1 \in 0..size
        BY <1>1, <3>3
      <4> QED
        BY <1>3, <1>4, <1>5, <3>2, <4>1
    <3>4. CASE kernel = 1
      <4>1. d_Dst' \in [0..size - 1 -> S]
        BY <1>1, <3>1, <3>3, <3>4
      <4> QED
        BY <1>1, <3>1, <3>4, <4>1
    <3>5. CASE kernel = 2
      <4>1. d_Buf' \in [0..Gpu!elements - 1 -> S]
        BY <1>1, <3>1, <3>2, <3>5
      <4> QED
        BY <1>1, <3>1, <3>5, <4>1
    <3> QED
      BY <3>1, <3>4, <3>5
  <2>5. CASE Gpu!LoadTotal(l)
    <3>1. /\ kernel = 3 /\ t' = t /\ l_Data' = l_Data /\ d_Dst' = d_Dst /\ d_Buf' = d_Buf
          /\ buf' = IF l = 0 THEN d_Buf[group] ELSE buf
      BY <2>5 DEF Gpu!LoadTotal, Gpu!Updating
    <3>2. group \in 0..Gpu!elements - 1
      <4>1. group * WORKGROUP_SIZE < Gpu!elements * WORKGROUP_SIZE
        BY <1>2, <3>1 DEF GpuTypes, Control, Gpu!globalWorkSize
      <4>2. Gpu!elements \in Nat /\ WORKGROUP_SIZE \in Nat
        BY <1>2, ItemBounds, GroupFacts
      <4>3. ~(Gpu!elements <= group)
        BY <1>1, <4>1, <4>2, Products
      <4> QED
        BY <1>1, <4>2, <4>3
    <3>3. buf' \in S
      BY <1>1, <3>1, <3>2
    <3> QED
      BY <1>1, <3>1, <3>3
  <2>6. CASE Gpu!AddTotal(l)
    <3>1. /\ t' = t /\ l_Data' = l_Data /\ buf' = buf /\ d_Buf' = d_Buf
          /\ d_Dst' = [k \in 0..size - 1 |-> IF k \div 4 = Gpu!gid(l) THEN Add(buf, d_Dst[k]) ELSE d_Dst[k]]
      BY <2>6, GpuSums DEF Gpu!AddTotal, Gpu!Updating
    <3>2. d_Dst' \in [0..size - 1 -> S]
      BY <1>1, <1>3, <3>1
    <3> QED
      BY <1>1, <3>1, <3>2
  <2> QED
    BY <2>1, <2>2, <2>3, <2>4, <2>5, <2>6 DEF Gpu!Item
<1>7. Gpu!elements' = Gpu!elements
  BY DEF Gpu!elements
<1> QED
  BY <1>1, <1>2, <1>6, <1>7, GpuSums DEF Gpu!TypeOK, S

LEMMA SameGpu ==
  ASSUME size' = size
  PROVE  /\ Gpu!elements' = Gpu!elements
         /\ \A k : (Gpu!globalWorkSize(k))' = Gpu!globalWorkSize(k)
         /\ \A k : (Gpu!Accepted(k))' <=> Gpu!Accepted(k)
BY DEF Gpu!elements, Gpu!globalWorkSize, Gpu!Accepted

LEMMA SamePhases ==
  ASSUME Phases, step' = step, offsets' = offsets, kernel' = kernel \/ \A l \in Gpu!Items : step[l] = 0
  PROVE  Phases'
<1>1. CASE kernel' = kernel
  BY <1>1 DEF Phases, Phase, Together, After, Saving
<1>2. CASE \A l \in Gpu!Items : step[l] = 0
  <2>1. \A l \in Gpu!Items : step[l] = 0 /\ offsets[l] = 1
    BY <1>2 DEF Phases
  <2>2. \A l \in Gpu!Items : Phase(l)' /\ \A u \in Gpu!Items : Together(l, u)'
    BY <2>1, GroupFacts DEF Phase, Together, After, Saving
  <2> QED
    BY <2>2 DEF Phases
<1> QED
  BY <1>1, <1>2

\* The steps of the host, and between two groups.
LEMMA HostSteps ==
  ASSUME GpuTypes, Gpu!Enqueue \/ Gpu!Refused \/ Gpu!GroupEnds \/ Gpu!ReadBuffer, size' = size
  PROVE  GpuTypes'
<1>1. size \in Nat /\ Gpu!TypeOK /\ Phases /\ Control
  BY DEF GpuTypes
<1>2. WORKGROUP_SIZE \in Nat \ {0} /\ Gpu!Ended = 2 * WORKGROUP_SIZE /\ 0 \in Gpu!Items
  BY GroupFacts
<1>3. ASSUME kernel' \in 0..4, step' = step, offsets' = offsets, UNCHANGED <<enabled, group, d_Dst, d_Buf, l_Data, t, buf>>,
             ~Running, kernel' \in 1..3 => enabled
      PROVE  GpuTypes'
  <2>1. group = 0 /\ \A l \in Gpu!Items : step[l] = 0
    BY <1>1, <1>3 DEF Control
  <2>2. Phases'
    BY <1>1, <1>3, <2>1, SamePhases
  <2>3. Gpu!TypeOK'
    BY <1>1, <1>3, SameGpu, GpuSums DEF Gpu!TypeOK
  <2>4. Running' => 0 * WORKGROUP_SIZE < Gpu!globalWorkSize(kernel)'
    BY <1>2 DEF Running, Gpu!Accepted
  <2>5. Control'
    BY <1>1, <1>3, <2>1, <2>4 DEF Control
  <2> QED
    BY <1>1, <2>2, <2>3, <2>5 DEF GpuTypes
<1>4. CASE Gpu!Enqueue
  <2>1. /\ kernel = 0 /\ kernel' = IF enabled THEN 1 ELSE 4
        /\ UNCHANGED <<enabled, group, d_Dst, d_Buf>>
        /\ step' = step /\ offsets' = offsets /\ l_Data' = l_Data /\ t' = t /\ buf' = buf
    BY <1>4 DEF Gpu!Enqueue, Gpu!itemVars
  <2> QED
    BY <1>3, <2>1 DEF Running
<1>5. CASE Gpu!Refused
  <2>1. /\ kernel \in 1..3 /\ ~Gpu!Accepted(kernel) /\ kernel' = kernel + 1
        /\ UNCHANGED <<enabled, group, d_Dst, d_Buf>>
        /\ step' = step /\ offsets' = offsets /\ l_Data' = l_Data /\ t' = t /\ buf' = buf
    BY <1>5 DEF Gpu!Refused, Gpu!itemVars
  <2>2. enabled
    BY <1>1, <2>1 DEF Control
  <2> QED
    BY <1>3, <2>1, <2>2 DEF Running
<1>6. CASE Gpu!ReadBuffer
  <2>1. /\ kernel = 4 /\ kernel' = kernel
        /\ UNCHANGED <<enabled, group, d_Dst, d_Buf>>
        /\ step' = step /\ offsets' = offsets /\ l_Data' = l_Data /\ t' = t /\ buf' = buf
    BY <1>6 DEF Gpu!ReadBuffer, Gpu!gpuVars, Gpu!itemVars
  <2> QED
    BY <1>3, <2>1 DEF Running
<1>7. CASE Gpu!GroupEnds
  <2>1. /\ \A l \in Gpu!Items : step[l] = Gpu!Ended
        /\ step' = Gpu!FreshGroup.step /\ l_Data' = Gpu!FreshGroup.l_Data /\ t' = Gpu!FreshGroup.t
        /\ offsets' = Gpu!FreshGroup.offsets /\ buf' = Gpu!FreshGroup.buf
        /\ IF (group + 1) * WORKGROUP_SIZE < Gpu!globalWorkSize(kernel)
           THEN group' = group + 1 /\ kernel' = kernel
           ELSE group' = 0 /\ kernel' = kernel + 1
        /\ enabled' = enabled /\ d_Dst' = d_Dst /\ d_Buf' = d_Buf
    BY <1>7 DEF Gpu!GroupEnds, Gpu!NewGroup
  <2>2. Running
    <3>1. step[0] # 0
      BY <1>2, <2>1
    <3> QED
      BY <1>1, <1>2, <3>1 DEF Control
  <2>3. Phases' /\ \A l \in Gpu!Items : step'[l] = 0
    <3>1. step' = [l \in Gpu!Items |-> 0] /\ offsets' = [l \in Gpu!Items |-> 1]
      BY <2>1 DEF Gpu!FreshGroup
    <3>2. \A l \in Gpu!Items : step'[l] = 0 /\ offsets'[l] = 1
      BY <3>1
    <3>3. step' \in [Gpu!Items -> 0..Gpu!Ended] /\ offsets' \in [Gpu!Items -> 1..2 * WORKGROUP_SIZE]
      BY <1>2, <3>1
    <3>4. \A l \in Gpu!Items : Phase(l)' /\ \A u \in Gpu!Items : Together(l, u)'
      BY <1>2, <3>2 DEF Phase, Together, After, Saving
    <3> QED
      BY <3>2, <3>3, <3>4 DEF Phases
  <2>4. kernel' \in 0..4 /\ enabled' /\ group' \in Nat /\ kernel \in 1..3
    BY <1>1, <2>1, <2>2 DEF Running, Control
  <2>5. Gpu!TypeOK'
    <3>1. /\ l_Data' \in [0..2 * WORKGROUP_SIZE - 1 -> SumsOver(size)]
          /\ t' \in [Gpu!Items -> SumsOver(size)] /\ buf' \in SumsOver(size)
      BY <1>1, <2>1, GpuSums, SumTypes DEF Gpu!FreshGroup
    <3> QED
      BY <1>1, <2>1, <2>3, <2>4, <3>1, SameGpu, GpuSums DEF Gpu!TypeOK, Phases
  <2>6. Running' => group' * WORKGROUP_SIZE < Gpu!globalWorkSize(kernel)'
    <3>1. CASE (group + 1) * WORKGROUP_SIZE < Gpu!globalWorkSize(kernel)
      BY <2>1, <3>1 DEF Gpu!globalWorkSize, Gpu!elements, Gpu!iSnapUp, Gpu!local1size
    <3>2. CASE ~((group + 1) * WORKGROUP_SIZE < Gpu!globalWorkSize(kernel))
      BY <1>2, <2>1, <3>2 DEF Running, Gpu!Accepted
    <3> QED
      BY <3>1, <3>2
  <2>7. ~Running' => group' = 0
    <3>1. CASE (group + 1) * WORKGROUP_SIZE < Gpu!globalWorkSize(kernel)
      <4>1. Running'
        BY <2>1, <2>2, <3>1, SameGpu DEF Running
      <4> QED
        BY <4>1
    <3>2. CASE ~((group + 1) * WORKGROUP_SIZE < Gpu!globalWorkSize(kernel))
      BY <2>1, <3>2
    <3> QED
      BY <3>1, <3>2
  <2>8. Control'
    BY <2>3, <2>4, <2>6, <2>7 DEF Control
  <2> QED
    BY <1>1, <2>3, <2>5, <2>8 DEF GpuTypes
<1> QED
  BY <1>4, <1>5, <1>6, <1>7

LEMMA GpuTypesStep ==
  ASSUME GpuTypes, Gpu!Next, size' = size
  PROVE  GpuTypes'
<1>1. CASE Gpu!Enqueue \/ Gpu!Refused \/ Gpu!GroupEnds \/ Gpu!ReadBuffer
  BY <1>1, HostSteps
<1>2. ASSUME NEW l \in Gpu!Items, Gpu!Item(l) PROVE GpuTypes'
  <2>1. /\ Running /\ enabled' = enabled /\ kernel' = kernel /\ group' = group /\ Phases'
    BY <1>2, ItemSteps
  <2>2. Gpu!TypeOK'
    BY <1>2, ItemTypes
  <2>3. Running' /\ (Gpu!globalWorkSize(kernel))' = Gpu!globalWorkSize(kernel)
    BY <2>1, SameGpu DEF Running, Gpu!globalWorkSize, Gpu!elements, Gpu!iSnapUp, Gpu!local1size
  <2>4. Control'
    BY <2>1, <2>3 DEF GpuTypes, Control
  <2> QED
    BY <2>1, <2>2, <2>4 DEF GpuTypes
<1> QED
  BY <1>1, <1>2 DEF Gpu!Next

LEMMA GpuInitially == ASSUME Gpu!Init, size \in Nat PROVE GpuTypes
<1>1. Phases /\ \A l \in Gpu!Items : step[l] = 0
  BY FreshPhases DEF Gpu!Init
<1>2. Gpu!TypeOK
  <2>1. /\ l_Data \in [0..2 * WORKGROUP_SIZE - 1 -> SumsOver(size)]
        /\ t \in [Gpu!Items -> SumsOver(size)] /\ buf \in SumsOver(size)
        /\ d_Dst \in [0..size - 1 -> SumsOver(size)]
        /\ d_Buf \in [0..Gpu!elements - 1 -> SumsOver(size)]
    BY GpuSums, SumTypes DEF Gpu!FreshGroup, Gpu!Init
  <2> QED
    BY <1>1, <2>1, GpuSums DEF Gpu!TypeOK, Gpu!Init, Phases
<1>3. Control
  BY <1>1 DEF Control, Gpu!Init, Running
<1> QED
  BY <1>1, <1>2, <1>3 DEF GpuTypes

-----------------------------------------------------------------------------
(* The values, where the condition of GpuScanRight holds.                  *)

\* The condition of GpuScanRight.
FitsGroup == size % Gpu!local1size = 0 /\ Gpu!elements <= WORKGROUP_SIZE

\* The group and the item that element k of the result belongs to.
GroupOf(k) == (k \div 4) \div WORKGROUP_SIZE
ItemOf(k)  == (k \div 4) % WORKGROUP_SIZE

\* The elements that item l of the group adds up are those from Bound(l) to Bound(l + 1).
Bound(l) ==
  IF kernel = 1 THEN 4 * (group * WORKGROUP_SIZE + l)
  ELSE (4 * WORKGROUP_SIZE) * (IF l < Gpu!elements THEN l ELSE Gpu!elements)

\* The sum of what w items up to l add up.
Window(l, w) == Interval(Bound(IF l < w THEN 0 ELSE l - w + 1), Bound(l + 1))

LocalAt(k)  == d_Dst[k] = Interval(4 * (GroupOf(k) * WORKGROUP_SIZE), k)
GlobalAt(k) == d_Dst[k] = Interval(0, k)
TotalAt(g)  == d_Buf[g] = Interval(0, (4 * WORKGROUP_SIZE) * g)

\* The item that element k belongs to has written it.
Visited(k) ==
  GroupOf(k) < group \/ (GroupOf(k) = group /\ step[ItemOf(k)] = Gpu!Ended)

\* Local memory in the loop of scan1inclusive: an item has the sum of the offsets[l] items
\* up to it, and the half below stays zero.
Windows ==
  kernel \in {1, 2} => \A l \in Gpu!Items, o \in Nat : step[l] >= 1 /\ offsets[l] = o =>
    /\ l_Data[l] = Zero
    /\ l_Data[l + WORKGROUP_SIZE] = Window(l, o)
    /\ Saving(l) /\ step[l] < Gpu!Ended => t[l] = Window(l, 2 * o)

\* Global memory, from kernel to kernel.
Results ==
  /\ kernel = 1 => \A k \in 0..size - 1 : Visited(k) => LocalAt(k)
  /\ kernel = 2 =>
       /\ \A k \in 0..size - 1 : LocalAt(k)
       /\ \A l \in Gpu!Items : l < Gpu!elements /\ step[l] = Gpu!Ended => TotalAt(l)
  /\ kernel = 3 =>
       /\ \A k \in 0..size - 1 : IF Visited(k) THEN GlobalAt(k) ELSE LocalAt(k)
       /\ \A g \in 0..Gpu!elements - 1 : TotalAt(g)
       /\ step[0] >= 1 => buf = d_Buf[group]
  /\ kernel = 4 /\ enabled => \A k \in 0..size - 1 : GlobalAt(k)

\* The invariant of the values.
Values == Windows /\ Results

LEMMA GroupSizes ==
  ASSUME GpuTypes, FitsGroup
  PROVE  /\ Gpu!elements \in Nat /\ Gpu!elements <= WORKGROUP_SIZE
         /\ size = Gpu!elements * (4 * WORKGROUP_SIZE)
         /\ size = 4 * (Gpu!elements * WORKGROUP_SIZE)
         /\ kernel \in 1..3 /\ ~Running => Gpu!elements = 0
         /\ kernel = 2 /\ Running => group = 0
         /\ kernel \in {1, 3} => Gpu!globalWorkSize(kernel) = Gpu!elements * WORKGROUP_SIZE
         /\ kernel \in {1, 3} /\ Running => group < Gpu!elements
         /\ kernel = 2 /\ Gpu!elements > 0 => Gpu!globalWorkSize(kernel) = WORKGROUP_SIZE
<1> DEFINE e == Gpu!elements
           d == 4 * WORKGROUP_SIZE
           n == Gpu!globalWorkSize(kernel)
<1>1. /\ WORKGROUP_SIZE \in Nat \ {0} /\ size \in Nat /\ group \in Nat /\ d \in Nat \ {0}
      /\ e = size \div d /\ size % d = 0
  BY GroupFacts DEF GpuTypes, Control, FitsGroup, Gpu!elements
<1>2. e \in Nat /\ size = e * d
  <2> HIDE DEF d, e
  <2>1. \A x \in Nat, y \in Nat \ {0} : x \div y \in Nat /\ (x % y = 0 => (x \div y) * y = x)
    <3> SUFFICES ASSUME NEW x \in Nat, NEW y \in Nat \ {0}
                 PROVE  x \div y \in Nat /\ (x % y = 0 => (x \div y) * y = x)
      OBVIOUS
    <3>1. x \div y \in Nat /\ x = y * (x \div y) + (x % y)
      OBVIOUS
    <3> QED
      BY <3>1
  <2> QED
    BY <1>1, <2>1
<1>3. e <= WORKGROUP_SIZE
  BY DEF FitsGroup
<1>4. size = 4 * (e * WORKGROUP_SIZE) /\ e * WORKGROUP_SIZE \in Nat
  <2> HIDE DEF e
  <2> QED
    BY <1>1, <1>2 DEF d
<1>5. kernel \in {1, 3} => n = e * WORKGROUP_SIZE
  <2>1. kernel = 1 => n = size \div 4
    BY DEF Gpu!globalWorkSize
  <2>2. kernel = 3 => n = e * WORKGROUP_SIZE
    BY DEF Gpu!globalWorkSize
  <2> DEFINE p == e * WORKGROUP_SIZE
  <2>3. (4 * p) \div 4 = p
    <3> HIDE DEF p
    <3>1. p \in Nat
      BY <1>4 DEF p
    <3> QED
      BY <3>1
  <2> HIDE DEF n
  <2> QED
    BY <1>4, <2>1, <2>2, <2>3
<1>6. kernel = 2 => n = IF e % WORKGROUP_SIZE = 0 THEN e
                        ELSE e - (e % WORKGROUP_SIZE) + WORKGROUP_SIZE
  BY DEF Gpu!globalWorkSize, Gpu!iSnapUp
<1> HIDE DEF e, d
<1>7. kernel = 2 /\ e > 0 => n = WORKGROUP_SIZE
  <2> HIDE DEF n
  <2>1. e = WORKGROUP_SIZE => e % WORKGROUP_SIZE = 0
    BY <1>1
  <2>2. e > 0 /\ e < WORKGROUP_SIZE => e % WORKGROUP_SIZE = e
    BY <1>1, <1>2
  <2> QED
    BY <1>1, <1>2, <1>3, <1>6, <2>1, <2>2
<1>8. e > 0 /\ kernel \in 1..3 => n > 0 /\ n % WORKGROUP_SIZE = 0
  <2>1. (e * WORKGROUP_SIZE) % WORKGROUP_SIZE = 0
    <3>1. 0 \in 0..WORKGROUP_SIZE - 1 /\ e * WORKGROUP_SIZE \in Nat
      BY <1>1, <1>2
    <3>2. (e * WORKGROUP_SIZE + 0) % WORKGROUP_SIZE = 0
      BY <1>1, <1>2, <3>1, Quotient
    <3> QED
      BY <3>1, <3>2
  <2>2. e > 0 => e * WORKGROUP_SIZE > 0
    <3>1. e > 0 => 1 * WORKGROUP_SIZE <= e * WORKGROUP_SIZE
      BY <1>1, <1>2, Products
    <3> QED
      BY <1>1, <1>2, <1>4, <3>1
  <2>3. WORKGROUP_SIZE % WORKGROUP_SIZE = 0
    BY <1>1
  <2> HIDE DEF n
  <2> QED
    BY <1>1, <1>5, <1>7, <2>1, <2>2, <2>3
<1>9. kernel \in 1..3 /\ ~Running => e = 0
  BY <1>2, <1>8 DEF Running, Gpu!Accepted
<1>10. Running => group * WORKGROUP_SIZE < n
  BY DEF GpuTypes, Control
<1>11. kernel \in {1, 3} /\ Running => group < e
  <2> HIDE DEF n
  <2>1. kernel \in {1, 3} /\ Running => ~(e <= group)
    BY <1>1, <1>2, <1>5, <1>10, Products
  <2> QED
    BY <1>1, <1>2, <2>1
<1>12. kernel = 2 /\ Running => group = 0
  <2>1. kernel = 2 /\ e = 0 => n = 0
    <3>1. e = 0 => e % WORKGROUP_SIZE = 0
      BY <1>1
    <3> HIDE DEF n
    <3> QED
      BY <1>6, <3>1
  <2>2. kernel = 2 /\ Running => n = WORKGROUP_SIZE
    <3>1. Running => n > 0
      BY DEF Running, Gpu!Accepted
    <3> HIDE DEF n
    <3> QED
      BY <1>2, <1>7, <2>1, <3>1
  <2>3. group > 0 => 1 * WORKGROUP_SIZE <= group * WORKGROUP_SIZE
    BY <1>1, Products
  <2>4. group * WORKGROUP_SIZE \in Nat /\ 1 * WORKGROUP_SIZE = WORKGROUP_SIZE
    BY <1>1
  <2> HIDE DEF n
  <2> QED
    BY <1>1, <1>10, <2>2, <2>3, <2>4
<1> QED
  BY <1>2, <1>3, <1>4, <1>5, <1>7, <1>9, <1>11, <1>12 DEF e, d

\* Where element k is.
LEMMA Cells ==
  ASSUME GpuTypes, FitsGroup, NEW k \in 0..size - 1
  PROVE  /\ GroupOf(k) \in 0..Gpu!elements - 1 /\ ItemOf(k) \in Gpu!Items
         /\ k \div 4 = GroupOf(k) * WORKGROUP_SIZE + ItemOf(k)
         /\ 4 * (k \div 4) <= k /\ k < 4 * (k \div 4) + 4 /\ k \div 4 \in Nat
         /\ \A g \in Nat, l \in Gpu!Items :
              k \div 4 = g * WORKGROUP_SIZE + l <=> GroupOf(k) = g /\ ItemOf(k) = l
<1> DEFINE p == k \div 4
           e == Gpu!elements
<1>1. /\ WORKGROUP_SIZE \in Nat \ {0} /\ Gpu!Items = 0..WORKGROUP_SIZE - 1
      /\ size \in Nat /\ size = 4 * (e * WORKGROUP_SIZE) /\ e \in Nat /\ e * WORKGROUP_SIZE \in Nat
  BY GroupFacts, GroupSizes DEF GpuTypes
<1>2. p \in Nat /\ 4 * p <= k /\ k < 4 * p + 4 /\ k \in Nat
  OBVIOUS
<1>3. GroupOf(k) = p \div WORKGROUP_SIZE /\ ItemOf(k) = p % WORKGROUP_SIZE
  BY DEF GroupOf, ItemOf
<1> HIDE DEF p, e
<1>4. /\ GroupOf(k) \in Nat /\ ItemOf(k) \in Gpu!Items
      /\ p = GroupOf(k) * WORKGROUP_SIZE + ItemOf(k)
  <2>1. \A x \in Nat, y \in Nat \ {0} :
          x \div y \in Nat /\ x % y \in 0..y - 1 /\ x = (x \div y) * y + (x % y)
    <3> SUFFICES ASSUME NEW x \in Nat, NEW y \in Nat \ {0}
                 PROVE  x \div y \in Nat /\ x % y \in 0..y - 1 /\ x = (x \div y) * y + (x % y)
      OBVIOUS
    <3>1. x \div y \in Nat /\ x % y \in 0..y - 1 /\ x = y * (x \div y) + (x % y)
      OBVIOUS
    <3> QED
      BY <3>1
  <2>2. /\ p \div WORKGROUP_SIZE \in Nat /\ p % WORKGROUP_SIZE \in 0..WORKGROUP_SIZE - 1
        /\ p = (p \div WORKGROUP_SIZE) * WORKGROUP_SIZE + (p % WORKGROUP_SIZE)
    BY <1>1, <1>2, <2>1
  <2> QED
    BY <1>1, <1>3, <2>2, Zenon
<1>5. GroupOf(k) < e
  <2>1. 4 * p < 4 * (e * WORKGROUP_SIZE)
    <3> DEFINE m == e * WORKGROUP_SIZE
    <3>1. m \in Nat /\ size = 4 * m /\ k < size
      BY <1>1
    <3> HIDE DEF m
    <3>2. 4 * p < 4 * m
      BY <1>2, <3>1
    <3> QED
      BY <3>2 DEF m
  <2>2. GroupOf(k) * WORKGROUP_SIZE \in Nat
    BY <1>1, <1>4
  <2>3. GroupOf(k) * WORKGROUP_SIZE < e * WORKGROUP_SIZE
    <3> DEFINE before == GroupOf(k) * WORKGROUP_SIZE
               all == e * WORKGROUP_SIZE
    <3>1. before \in Nat /\ all \in Nat /\ p = before + ItemOf(k) /\ 4 * p < 4 * all
      BY <1>1, <1>4, <2>1, <2>2
    <3>2. ItemOf(k) \in Nat
      BY <1>1, <1>4
    <3> HIDE DEF before, all
    <3>3. before < all
      BY <3>1, <3>2
    <3> QED
      BY <3>3 DEF before, all
  <2>4. ~(e <= GroupOf(k))
    BY <1>1, <1>4, <2>2, <2>3, Products
  <2> QED
    BY <1>1, <1>4, <2>4
<1>6. ASSUME NEW g \in Nat, NEW l \in Gpu!Items, p = g * WORKGROUP_SIZE + l
      PROVE  GroupOf(k) = g /\ ItemOf(k) = l
  <2>1. WORKGROUP_SIZE \in Nat \ {0} /\ l \in 0..WORKGROUP_SIZE - 1
    BY <1>1
  <2>2. /\ (g * WORKGROUP_SIZE + l) \div WORKGROUP_SIZE = g
        /\ (g * WORKGROUP_SIZE + l) % WORKGROUP_SIZE = l
    BY <2>1, Quotient
  <2> QED
    BY <1>3, <1>6, <2>2
<1> QED
  BY <1>1, <1>2, <1>4, <1>5, <1>6 DEF p, e

LEMMA Bounds ==
  ASSUME GpuTypes, FitsGroup, Running
  PROVE  /\ \A l \in 0..WORKGROUP_SIZE : Bound(l) \in Nat
         /\ \A l, u \in 0..WORKGROUP_SIZE : l <= u => Bound(l) <= Bound(u)
         /\ kernel = 1 => \A l : Bound(l) = 4 * (group * WORKGROUP_SIZE + l)
         /\ kernel # 1 =>
              /\ \A l \in 0..Gpu!elements : Bound(l) = (4 * WORKGROUP_SIZE) * l
              /\ \A l \in 0..WORKGROUP_SIZE : l >= Gpu!elements =>
                   Bound(l) = (4 * WORKGROUP_SIZE) * Gpu!elements
<1> DEFINE e == Gpu!elements
           d == 4 * WORKGROUP_SIZE
<1>1. WORKGROUP_SIZE \in Nat \ {0} /\ e \in Nat /\ group \in Nat /\ d \in Nat /\ e <= WORKGROUP_SIZE
  BY GroupFacts, GroupSizes DEF GpuTypes, Control
<1>2. kernel = 1 => \A l : Bound(l) = 4 * (group * WORKGROUP_SIZE + l)
  BY DEF Bound
<1>3. kernel # 1 => \A l : Bound(l) = d * (IF l < e THEN l ELSE e)
  BY DEF Bound
<1> HIDE DEF e, d
<1>4. group * WORKGROUP_SIZE \in Nat
  BY <1>1
<1>5. ASSUME NEW l \in 0..WORKGROUP_SIZE PROVE Bound(l) \in Nat
  <2>1. CASE kernel = 1
    <3> DEFINE m == group * WORKGROUP_SIZE
    <3>1. Bound(l) = 4 * (m + l) /\ m \in Nat /\ l \in Nat
      BY <1>1, <1>2, <1>4, <2>1
    <3> HIDE DEF m
    <3> QED
      BY <3>1
  <2>2. CASE kernel # 1
    BY <1>1, <1>3, <2>2
  <2> QED
    BY <2>1, <2>2
<1>6. ASSUME NEW l \in 0..WORKGROUP_SIZE, NEW u \in 0..WORKGROUP_SIZE, l <= u
      PROVE  Bound(l) <= Bound(u)
  <2>1. CASE kernel = 1
    <3> DEFINE m == group * WORKGROUP_SIZE
    <3>1. Bound(l) = 4 * (m + l) /\ Bound(u) = 4 * (m + u) /\ m \in Nat /\ l \in Nat /\ u \in Nat
      BY <1>1, <1>2, <1>4, <2>1
    <3> HIDE DEF m
    <3> QED
      BY <1>6, <3>1
  <2>2. CASE kernel # 1
    <3> DEFINE a == IF l < e THEN l ELSE e
               b == IF u < e THEN u ELSE e
    <3>1. a \in Nat /\ b \in Nat /\ a <= b
      BY <1>1, <1>6
    <3>2. Bound(l) = d * a /\ Bound(u) = d * b
      BY <1>3, <2>2
    <3> HIDE DEF a, b
    <3>3. a * d <= b * d /\ a * d = d * a /\ b * d = d * b
      BY <1>1, <3>1, Products
    <3> QED
      BY <3>2, <3>3
  <2> QED
    BY <2>1, <2>2
<1>7. ASSUME kernel # 1, NEW l \in 0..e PROVE Bound(l) = d * l
  <2>1. (IF l < e THEN l ELSE e) = l
    BY <1>1
  <2> QED
    BY <1>3, <1>7, <2>1
<1>8. ASSUME kernel # 1, NEW l \in 0..WORKGROUP_SIZE, l >= e PROVE Bound(l) = d * e
  <2>1. (IF l < e THEN l ELSE e) = e
    BY <1>1, <1>8
  <2> QED
    BY <1>3, <1>8, <2>1
<1> QED
  BY <1>2, <1>5, <1>6, <1>7, <1>8 DEF e, d

\* An item hands the elements from its bound to the next to scan1Inclusive.
LEMMA DataIs ==
  ASSUME GpuTypes, FitsGroup, Running, kernel \in {1, 2}, Results, NEW l \in Gpu!Items
  PROVE  Gpu!idata(l) = Interval(Bound(l), Bound(l + 1))
<1> DEFINE e == Gpu!elements
           d == 4 * WORKGROUP_SIZE
<1>1. /\ WORKGROUP_SIZE \in Nat \ {0} /\ e \in Nat /\ group \in Nat /\ e <= WORKGROUP_SIZE
      /\ l \in 0..WORKGROUP_SIZE - 1 /\ size = e * d
      /\ Gpu!gid(l) = group * WORKGROUP_SIZE + l
  BY GroupFacts, GroupSizes DEF GpuTypes, Control, Gpu!gid
<1>2. CASE kernel = 1
  <2>1. Gpu!idata(l) = Interval(4 * Gpu!gid(l), 4 * Gpu!gid(l) + 4)
    BY <1>2, GpuSums DEF Gpu!idata
  <2>2. Bound(l) = 4 * (group * WORKGROUP_SIZE + l)
        /\ Bound(l + 1) = 4 * (group * WORKGROUP_SIZE + (l + 1))
    BY <1>2, Bounds
  <2> DEFINE m == group * WORKGROUP_SIZE
  <2>3. m \in Nat /\ l \in Nat
    BY <1>1
  <2> HIDE DEF m
  <2>4. 4 * (m + (l + 1)) = 4 * (m + l) + 4
    BY <2>3
  <2> QED
    BY <1>1, <2>1, <2>2, <2>4 DEF m
<1>3. CASE kernel = 2 /\ l < e
  <2>1. group = 0 /\ Gpu!gid(l) = l
    <3>1. group = 0
      BY <1>3, GroupSizes
    <3> QED
      BY <1>1, <3>1
  <2> DEFINE k == Gpu!Last(l)
  <2>2. Gpu!idata(l) = Add(d_Dst[k], Element(k))
    BY <1>3, <2>1, GpuSums DEF Gpu!idata
  <2>3. k = d * l + (d - 1) /\ d \in Nat \ {0} /\ l \in Nat /\ d * l \in Nat
    BY <1>1, GroupFacts DEF Gpu!Last
  <2>4. Bound(l) = d * l /\ Bound(l + 1) = d * (l + 1)
    <3>1. l \in 0..e /\ l + 1 \in 0..e
      BY <1>1, <1>3
    <3> QED
      BY <1>3, <3>1, Bounds
  <2>5. d * (l + 1) = k + 1
    <3> HIDE DEF d, k
    <3>1. d * (l + 1) = d * l + d
      BY <2>3
    <3> QED
      BY <2>3, <3>1
  <2>6. k \in 0..size - 1
    <3> HIDE DEF d, k
    <3>1. (l + 1) * d <= e * d
      BY <1>1, <1>3, <2>3, Products
    <3>2. (l + 1) * d = d * (l + 1) /\ e * d \in Nat
      BY <1>1, <2>3
    <3> QED
      BY <1>1, <2>3, <2>5, <3>1, <3>2
  <2>7. k \div 4 = l * WORKGROUP_SIZE + (WORKGROUP_SIZE - 1)
    <3> DEFINE p == l * WORKGROUP_SIZE + (WORKGROUP_SIZE - 1)
    <3>1. p \in Nat
      BY <1>1, <2>3
    <3>2. k = p * 4 + 3
      <4>1. p * 4 + 3 = (l * WORKGROUP_SIZE) * 4 + (WORKGROUP_SIZE - 1) * 4 + 3
        BY <1>1, <2>3
      <4>2. d * l = (l * WORKGROUP_SIZE) * 4
        BY <1>1, <2>3
      <4> HIDE DEF p, k
      <4> QED
        BY <1>1, <2>3, <4>1, <4>2
    <3> HIDE DEF p, k
    <3>3. (p * 4 + 3) \div 4 = p
      BY <3>1
    <3> QED
      BY <3>2, <3>3 DEF p
  <2>8. GroupOf(k) = l
    <3>1. WORKGROUP_SIZE - 1 \in Gpu!Items /\ l \in Nat
      BY <1>1, GroupFacts
    <3> QED
      BY <2>6, <2>7, <3>1, Cells
  <2>9. d_Dst[k] = Interval(4 * (l * WORKGROUP_SIZE), k)
    BY <1>3, <2>6, <2>8 DEF Results, LocalAt
  <2>10. 4 * (l * WORKGROUP_SIZE) = d * l
    BY <1>1, <2>3
  <2> HIDE DEF d, k
  <2>11. Add(Interval(d * l, k), Interval(k, k + 1)) = Interval(d * l, k + 1)
    BY <2>3, AddIntervals
  <2> QED
    BY <2>2, <2>4, <2>5, <2>9, <2>10, <2>11 DEF Element
<1>4. CASE kernel = 2 /\ ~(l < e)
  <2>1. group = 0 /\ Gpu!gid(l) = l
    <3>1. group = 0
      BY <1>4, GroupSizes
    <3> QED
      BY <1>1, <3>1
  <2>2. Gpu!idata(l) = Zero
    BY <1>4, <2>1, GpuSums DEF Gpu!idata
  <2>3. Bound(l) = Bound(l + 1)
    <3>1. l \in 0..WORKGROUP_SIZE /\ l + 1 \in 0..WORKGROUP_SIZE /\ l >= e /\ l + 1 >= e
      BY <1>1, <1>4
    <3> QED
      BY <1>4, <3>1, Bounds
  <2> QED
    BY <2>2, <2>3, EmptyInterval
<1> QED
  BY <1>2, <1>3, <1>4

LEMMA WindowFacts ==
  ASSUME GpuTypes, FitsGroup, Running, NEW l \in Gpu!Items
  PROVE  /\ Window(l, 1) = Interval(Bound(l), Bound(l + 1))
         /\ \A w \in Nat : w >= WORKGROUP_SIZE => Window(l, w) = Interval(Bound(0), Bound(l + 1))
         /\ \A o \in Nat \ {0} : l < o => Window(l, 2 * o) = Window(l, o)
         /\ \A o \in Nat \ {0} : l >= o => Add(Window(l - o, o), Window(l, o)) = Window(l, 2 * o)
<1>1. WORKGROUP_SIZE \in Nat \ {0} /\ l \in 0..WORKGROUP_SIZE - 1
  BY GroupFacts
<1>2. Window(l, 1) = Interval(Bound(l), Bound(l + 1))
  <2>1. (IF l < 1 THEN 0 ELSE l - 1 + 1) = l
    BY <1>1
  <2> QED
    BY <2>1 DEF Window
<1>3. ASSUME NEW w \in Nat, w >= WORKGROUP_SIZE
      PROVE  Window(l, w) = Interval(Bound(0), Bound(l + 1))
  <2>1. l < w
    BY <1>1, <1>3
  <2> QED
    BY <2>1 DEF Window
<1>4. ASSUME NEW o \in Nat \ {0}, l < o PROVE Window(l, 2 * o) = Window(l, o)
  <2>1. l < 2 * o
    BY <1>1, <1>4
  <2> QED
    BY <1>4, <2>1 DEF Window
<1>5. ASSUME NEW o \in Nat \ {0}, l >= o
      PROVE  Add(Window(l - o, o), Window(l, o)) = Window(l, 2 * o)
  <2> DEFINE a == IF l - o < o THEN 0 ELSE l - o - o + 1
             b == l - o + 1
             c == l + 1
  <2>1. a \in 0..WORKGROUP_SIZE /\ b \in 0..WORKGROUP_SIZE /\ c \in 0..WORKGROUP_SIZE /\ a <= b /\ b <= c
    BY <1>1, <1>5
  <2>2. Window(l - o, o) = Interval(Bound(a), Bound(b))
    BY DEF Window
  <2>3. Window(l, o) = Interval(Bound(b), Bound(c))
    BY <1>1, <1>5 DEF Window
  <2>4. Window(l, 2 * o) = Interval(Bound(a), Bound(c))
    <3>1. (IF l < 2 * o THEN 0 ELSE l - 2 * o + 1) = a
      BY <1>1
    <3> QED
      BY <3>1 DEF Window
  <2> HIDE DEF a, b, c
  <2>5. Bound(a) \in Nat /\ Bound(b) \in Nat /\ Bound(c) \in Nat /\ Bound(a) <= Bound(b)
        /\ Bound(b) <= Bound(c)
    BY <2>1, Bounds
  <2> QED
    BY <2>2, <2>3, <2>4, <2>5, AddIntervals
<1> QED
  BY <1>2, <1>3, <1>4, <1>5

LEMMA SameWindows ==
  ASSUME size' = size, kernel' = kernel, group' = group
  PROVE  \A l, w : Bound(l)' = Bound(l) /\ Window(l, w)' = Window(l, w)
BY SameGpu DEF Bound, Window

\* A step of an item of the scan kernels keeps what is in local memory.
LEMMA WindowsStep ==
  ASSUME GpuTypes, FitsGroup, Values, NEW l \in Gpu!Items, Gpu!Item(l), size' = size
  PROVE  Windows'
<1> DEFINE E == Gpu!Ended
           W == WORKGROUP_SIZE
<1>1. /\ Running /\ step[l] < E /\ kernel' = kernel /\ group' = group
      /\ step'[l] # 0 /\ \A u \in Gpu!Items : u # l => step'[u] = step[u]
  BY ItemSteps
<1>2. /\ W \in Nat \ {0} /\ E = 2 * W /\ Gpu!Items = 0..W - 1
      /\ \A u \in Gpu!Items : step[u] \in 0..E /\ offsets[u] \in 1..2 * W
      /\ \A u \in Gpu!Items : step[u] = 0 => offsets[u] = 1
      /\ l_Data \in [0..2 * W - 1 -> SumsOver(size)] /\ t \in [Gpu!Items -> SumsOver(size)]
      /\ offsets \in [Gpu!Items -> 1..2 * W] /\ step \in [Gpu!Items -> 0..E]
  BY GroupFacts, GpuSums DEF GpuTypes, Phases, Gpu!TypeOK
<1>5. /\ \A u \in Gpu!Items : u \in Nat /\ u < W /\ step[u] \in Nat /\ offsets[u] \in Nat \ {0}
      /\ \A u \in Gpu!Items : step[u] <= E
      /\ W \in Nat \ {0} /\ E \in Nat /\ E = 2 * W
      /\ \A u \in Nat : u < W => u \in Gpu!Items
  BY <1>2
<1> HIDE DEF E
<1>3. CASE kernel = 3
  BY <1>1, <1>3 DEF Windows
<1>4. CASE kernel \in {1, 2}
  <2>1. /\ Gpu!ScanSize = W /\ \A u \in Gpu!Items : Gpu!pos(u) = u + W
        /\ \A u \in Gpu!Items : Phase(u) /\ \A v \in Gpu!Items : Together(u, v)
        /\ Windows /\ Results
    BY <1>4, ScanSizes DEF GpuTypes, Phases, Values
  <2>2. ASSUME NEW u \in Gpu!Items, step[u] >= 1
        PROVE  /\ l_Data[u] = Zero /\ l_Data[u + W] = Window(u, offsets[u])
               /\ Saving(u) /\ step[u] < E => t[u] = Window(u, 2 * offsets[u])
    <3>1. offsets[u] \in Nat
      BY <1>2
    <3> QED
      BY <1>4, <2>1, <2>2, <3>1 DEF Windows, E
  <2>3. /\ step'[l] >= 1 => l_Data'[l] = Zero /\ l_Data'[l + W] = Window(l, offsets'[l])
        /\ Saving(l)' /\ step'[l] < E => t'[l] = Window(l, 2 * offsets'[l])
        /\ \A u \in Gpu!Items : u # l => /\ l_Data'[u] = l_Data[u] /\ l_Data'[u + W] = l_Data[u + W]
                                         /\ t'[u] = t[u] /\ offsets'[u] = offsets[u]
    <3>1. CASE Gpu!Fill(l)
      <4>1. /\ step[l] = 0 /\ step' = [step EXCEPT ![l] = @ + 1] /\ t' = t /\ offsets' = offsets
            /\ l_Data' = [l_Data EXCEPT ![Gpu!pos(l) - Gpu!ScanSize] = Zero,
                                        ![Gpu!pos(l)] = Gpu!idata(l)]
        BY <3>1, GpuSums DEF Gpu!Fill, Gpu!Advance
      <4>2. /\ Gpu!pos(l) - Gpu!ScanSize = l /\ Gpu!pos(l) = l + W
            /\ l \in 0..2 * W - 1 /\ l + W \in 0..2 * W - 1
        BY <1>2, <2>1
      <4>3. l_Data' = [l_Data EXCEPT ![l] = Zero, ![l + W] = Gpu!idata(l)]
        BY <4>1, <4>2
      <4>4. l_Data'[l] = Zero /\ l_Data'[l + W] = Gpu!idata(l)
        BY <1>2, <4>2, <4>3
      <4>5. Gpu!idata(l) = Window(l, 1) /\ offsets[l] = 1 /\ step'[l] = 1
        BY <1>1, <1>2, <1>4, <2>1, <4>1, DataIs, WindowFacts
      <4>6. \A u \in Gpu!Items : u # l => l_Data'[u] = l_Data[u] /\ l_Data'[u + W] = l_Data[u + W]
        BY <1>2, <4>3
      <4>7. ~Saving(l)'
        BY <4>5 DEF Saving
      <4> QED
        BY <4>1, <4>4, <4>5, <4>6, <4>7
    <3>2. CASE Gpu!Load(l)
      <4> DEFINE s == step[l]
                 o == offsets[l]
      <4>1. /\ s % 2 = 1 /\ o < W /\ \A u \in Gpu!Items : step[u] >= s
            /\ step' = [step EXCEPT ![l] = @ + 1] /\ l_Data' = l_Data /\ offsets' = offsets
            /\ t' = [t EXCEPT ![l] = Add(l_Data[Gpu!pos(l) - o], l_Data[Gpu!pos(l)])]
        BY <2>1, <3>2, GpuSums DEF Gpu!Load, Gpu!Advance, Gpu!Barrier
      <4>2. s \in Nat /\ s >= 1 /\ s < E /\ o \in Nat \ {0} /\ s + 1 < E /\ l \in 0..W - 1
        <5>1. s + 1 <= 2 * o
          BY <1>1, <1>5, <2>1, <4>1 DEF Phase, E
        <5>2. s \in Nat /\ o \in Nat \ {0} /\ l \in Nat /\ l < W /\ s < E /\ s # 0
          BY <1>1, <1>5, <4>1
        <5> QED
          BY <1>5, <4>1, <5>1, <5>2
      <4>3. l_Data[l + W] = Window(l, o)
        BY <2>2, <4>2
      <4>4. t'[l] = Add(l_Data[l + W - o], l_Data[l + W])
        <5>1. t'[l] = Add(l_Data[Gpu!pos(l) - o], l_Data[Gpu!pos(l)])
          BY <1>2, <4>1
        <5>2. Gpu!pos(l) = l + W
          BY <2>1
        <5>3. Gpu!pos(l) - o = l + W - o
          BY <1>5, <4>2, <5>2
        <5> QED
          BY <5>1, <5>2, <5>3, Zenon
      <4>5. t'[l] = Window(l, 2 * o)
        <5>1. CASE l < o
          <6>1. l + W - o \in Gpu!Items
            BY <1>5, <4>1, <4>2, <5>1
          <6>2. step[l + W - o] >= 1
            BY <1>5, <4>1, <4>2, <6>1
          <6>4. l_Data[l + W - o] = Zero
            BY <2>2, <6>1, <6>2
          <6> QED
            BY <1>1, <4>2, <4>3, <4>4, <5>1, <6>4, AddZero, WindowFacts
        <5>2. CASE l >= o
          <6> DEFINE u == l - o
          <6>1. u \in Gpu!Items /\ l + W - o = u + W
            BY <1>5, <4>1, <4>2, <5>2
          <6>2. step[u] \in Nat /\ step[u] >= s /\ step[u] <= E
            BY <1>5, <4>1, <6>1
          <6>3. Together(l, u) /\ Together(u, l) /\ Phase(u) /\ offsets[u] \in 1..2 * W
            BY <1>2, <2>1, <6>1
          <6> HIDE DEF u
          <6>4. offsets[u] = o
            <7>1. step[u] = s \/ step[u] = s + 1 \/ step[u] = E
              BY <1>5, <4>2, <6>2, <6>3 DEF Together, E
            <7>2. ~Saving(l)
              BY <4>1 DEF Saving
            <7> QED
              BY <4>2, <6>3, <7>1, <7>2 DEF Together, After, E
          <6>5. l_Data[l + W - o] = Window(l - o, o)
            <7>1. step[u] >= 1
              BY <4>2, <6>2
            <7>2. l_Data[u + W] = Window(u, o)
              BY <2>2, <6>1, <6>4, <7>1
            <7> QED
              BY <6>1, <7>2 DEF u
          <6> QED
            BY <1>1, <4>2, <4>3, <4>4, <5>2, <6>5, WindowFacts
        <5> QED
          BY <4>2, <5>1, <5>2
      <4>6. l_Data'[l] = Zero /\ l_Data'[l + W] = Window(l, offsets'[l])
        BY <2>2, <4>1, <4>2, <4>3
      <4> QED
        BY <1>2, <4>1, <4>5, <4>6
    <3>3. CASE Gpu!Save(l)
      <4>1. /\ Saving(l) /\ t' = t
            /\ step' = [step EXCEPT ![l] = @ + 1] /\ offsets' = [offsets EXCEPT ![l] = 2 * @]
            /\ l_Data' = [l_Data EXCEPT ![l + W] = t[l]]
        BY <2>1, <3>3 DEF Gpu!Save, Gpu!Advance, Saving
      <4>2. step[l] \in Nat /\ step[l] >= 1 /\ step'[l] = step[l] + 1 /\ offsets'[l] = 2 * offsets[l]
        BY <1>2, <4>1 DEF Saving
      <4>3. l \in 0..2 * W - 1 /\ l + W \in 0..2 * W - 1 /\ l # l + W
        BY <1>2
      <4>4. t[l] = Window(l, 2 * offsets[l]) /\ l_Data[l] = Zero
        BY <1>1, <2>2, <4>1, <4>2
      <4>5. l_Data'[l] = Zero /\ l_Data'[l + W] = Window(l, offsets'[l])
        BY <1>2, <4>1, <4>2, <4>3, <4>4
      <4>6. ~Saving(l)'
        BY <4>1, <4>2 DEF Saving
      <4>7. \A u \in Gpu!Items : u # l => l_Data'[u] = l_Data[u] /\ l_Data'[u + W] = l_Data[u + W]
        BY <1>2, <4>1
      <4> QED
        BY <1>2, <4>1, <4>5, <4>6, <4>7
    <3>4. CASE Gpu!Return(l)
      <4>1. /\ step[l] % 2 = 1 /\ t' = t /\ offsets' = offsets /\ l_Data' = l_Data
            /\ step' = [step EXCEPT ![l] = E]
        BY <3>4 DEF Gpu!Return, E
      <4>2. step[l] >= 1 /\ step'[l] = E
        <5> DEFINE s == step[l]
        <5>1. s \in Nat /\ s % 2 = 1 /\ step'[l] = E
          BY <1>2, <1>5, <4>1
        <5> HIDE DEF s
        <5>2. s >= 1
          BY <5>1
        <5> QED
          BY <5>1, <5>2 DEF s
      <4>3. ~(step'[l] < E)
        BY <1>5, <4>2
      <4>4. l_Data[l] = Zero /\ l_Data[l + W] = Window(l, offsets[l])
        BY <2>2, <4>2
      <4> QED
        BY <4>1, <4>3, <4>4
    <3>5. CASE Gpu!LoadTotal(l) \/ Gpu!AddTotal(l)
      BY <1>4, <3>5 DEF Gpu!LoadTotal, Gpu!AddTotal, Gpu!Updating
    <3> QED
      BY <3>1, <3>2, <3>3, <3>4, <3>5 DEF Gpu!Item
  <2>4. ASSUME NEW u \in Gpu!Items, NEW o \in Nat, step'[u] >= 1, offsets'[u] = o
        PROVE  /\ l_Data'[u] = Zero /\ l_Data'[u + W] = Window(u, o)
               /\ Saving(u)' /\ step'[u] < E => t'[u] = Window(u, 2 * o)
    <3>1. CASE u = l
      BY <2>3, <2>4, <3>1
    <3>2. CASE u # l
      <4>1. step'[u] = step[u] /\ (Saving(u)' <=> Saving(u))
        BY <1>1, <3>2 DEF Saving
      <4> QED
        BY <2>2, <2>3, <2>4, <3>2, <4>1
    <3> QED
      BY <3>1, <3>2
  <2>5. \A u, w : Window(u, w)' = Window(u, w)
    BY <1>1, SameWindows
  <2> QED
    BY <2>4, <2>5 DEF Windows, E
<1> QED
  BY <1>1, <1>3, <1>4 DEF Running

\* What an item leaves behind when the loop of scan1Inclusive ends: the sum of what the
\* items before it hand in.
LEMMA ReturnValue ==
  ASSUME GpuTypes, FitsGroup, Values, NEW l \in Gpu!Items, Gpu!Return(l)
  PROVE  Sub(l_Data[Gpu!pos(l)], Gpu!idata(l)) = Interval(Bound(0), Bound(l))
<1>1. /\ kernel \in {1, 2} /\ Running /\ step[l] < Gpu!Ended /\ step[l] % 2 = 1
      /\ offsets[l] >= WORKGROUP_SIZE /\ Gpu!pos(l) = l + WORKGROUP_SIZE
  <2>1. kernel \in {1, 2}
    BY DEF Gpu!Return, Gpu!Scanning
  <2> QED
    BY <2>1, ScanSizes DEF Gpu!Return, Gpu!Scanning, Running
<1>2. offsets[l] \in Nat /\ step[l] \in Nat /\ WORKGROUP_SIZE \in Nat \ {0} /\ l \in 0..WORKGROUP_SIZE - 1
  BY GroupFacts DEF GpuTypes, Phases
<1>3. step[l] >= 1
  <2> DEFINE s == step[l]
  <2>1. s \in Nat /\ s % 2 = 1
    BY <1>1, <1>2
  <2> HIDE DEF s
  <2>2. s >= 1
    BY <2>1
  <2> QED
    BY <2>2 DEF s
<1>4. l_Data[l + WORKGROUP_SIZE] = Interval(Bound(0), Bound(l + 1))
  <2>1. l_Data[l + WORKGROUP_SIZE] = Window(l, offsets[l])
    BY <1>1, <1>2, <1>3 DEF Values, Windows
  <2> QED
    BY <1>1, <1>2, <2>1, WindowFacts
<1>5. Gpu!idata(l) = Interval(Bound(l), Bound(l + 1))
  BY <1>1, DataIs DEF Values
<1>6. /\ Bound(0) \in Nat /\ Bound(l) \in Nat /\ Bound(l + 1) \in Nat
      /\ Bound(0) <= Bound(l) /\ Bound(l) <= Bound(l + 1)
  <2>1. 0 \in 0..WORKGROUP_SIZE /\ l \in 0..WORKGROUP_SIZE /\ l + 1 \in 0..WORKGROUP_SIZE
        /\ 0 <= l /\ l <= l + 1
    BY <1>2
  <2> QED
    BY <1>1, <2>1, Bounds
<1> QED
  BY <1>1, <1>4, <1>5, <1>6, SubIntervals

\* An item that has not ended has written no result.
LEMMA StillRunning ==
  ASSUME GpuTypes, NEW l \in Gpu!Items, Gpu!Fill(l) \/ Gpu!Load(l) \/ Gpu!Save(l) \/ Gpu!LoadTotal(l)
  PROVE  step'[l] # Gpu!Ended /\ d_Dst' = d_Dst /\ d_Buf' = d_Buf
<1> DEFINE s == step[l]
           E == 2 * WORKGROUP_SIZE
           o == offsets[l]
<1>1. /\ WORKGROUP_SIZE \in Nat \ {0} /\ Gpu!Ended = E /\ s \in Nat /\ o \in Nat
      /\ step \in [Gpu!Items -> 0..E]
  BY GroupFacts DEF GpuTypes, Phases
<1>2. d_Dst' = d_Dst /\ d_Buf' = d_Buf /\ step' = [step EXCEPT ![l] = @ + 1] /\ s < E
  BY <1>1 DEF Gpu!Fill, Gpu!Load, Gpu!Save, Gpu!LoadTotal, Gpu!Advance, Gpu!Scanning, Gpu!Updating
<1>3. step'[l] = s + 1
  BY <1>1, <1>2
<1>4. s = 0 \/ s % 2 = 0 \/ s + 1 < E
  <2>1. CASE Gpu!Load(l)
    <3>1. kernel \in {1, 2} /\ s % 2 = 1 /\ o < Gpu!ScanSize
      BY <2>1 DEF Gpu!Load, Gpu!Scanning
    <3>2. o < WORKGROUP_SIZE
      BY <3>1, ScanSizes
    <3>3. s + 1 <= 2 * o
      BY <1>1, <1>2, <3>1 DEF GpuTypes, Phases, Phase
    <3> HIDE DEF s, o
    <3> QED
      BY <1>1, <3>2, <3>3
  <2>2. CASE Gpu!Fill(l) \/ Gpu!Save(l) \/ Gpu!LoadTotal(l)
    BY <2>2 DEF Gpu!Fill, Gpu!Save, Gpu!LoadTotal
  <2> QED
    BY <2>1, <2>2
<1> HIDE DEF s
<1>5. s + 1 # E
  BY <1>1, <1>4
<1> QED
  BY <1>1, <1>2, <1>3, <1>5

\* A step of an item keeps the results.
LEMMA ResultsStep ==
  ASSUME GpuTypes, FitsGroup, Values, NEW l \in Gpu!Items, Gpu!Item(l), size' = size
  PROVE  Results'
<1> DEFINE W == WORKGROUP_SIZE
           e == Gpu!elements
<1>1. /\ Running /\ step[l] < Gpu!Ended /\ kernel' = kernel /\ group' = group /\ Gpu!elements' = e
      /\ step'[l] # 0 /\ \A u \in Gpu!Items : u # l => step'[u] = step[u]
  BY ItemSteps, SameGpu
<1>2. /\ W \in Nat \ {0} /\ Gpu!Ended = 2 * W /\ Gpu!Items = 0..W - 1 /\ group \in Nat
      /\ step \in [Gpu!Items -> 0..Gpu!Ended] /\ e \in Nat /\ size \in Nat
      /\ Results /\ Gpu!gid(l) = group * W + l /\ group * W \in Nat /\ l \in Nat
  <2>1. /\ W \in Nat \ {0} /\ Gpu!Ended = 2 * W /\ Gpu!Items = 0..W - 1 /\ group \in Nat
        /\ step \in [Gpu!Items -> 0..Gpu!Ended] /\ size \in Nat
        /\ Results /\ Gpu!gid(l) = group * W + l
    BY GroupFacts DEF GpuTypes, Phases, Control, Values, Gpu!gid
  <2>2. e \in Nat
    BY GroupSizes
  <2>3. group * W \in Nat /\ l \in Nat
    BY <2>1
  <2> QED
    BY <2>1, <2>2, <2>3
<1>3. step[l] \in Nat /\ step[l] # Gpu!Ended
  BY <1>1, <1>2
<1>4. \A k \in 0..size - 1 : /\ GroupOf(k) \in 0..e - 1 /\ ItemOf(k) \in Gpu!Items
                             /\ k \div 4 = Gpu!gid(l) <=> GroupOf(k) = group /\ ItemOf(k) = l
  <2> SUFFICES ASSUME NEW k \in 0..size - 1
               PROVE  /\ GroupOf(k) \in 0..e - 1 /\ ItemOf(k) \in Gpu!Items
                      /\ k \div 4 = Gpu!gid(l) <=> GroupOf(k) = group /\ ItemOf(k) = l
    OBVIOUS
  <2>1. k \div 4 = group * W + l <=> GroupOf(k) = group /\ ItemOf(k) = l
    BY <1>2, Cells
  <2>2. GroupOf(k) \in 0..e - 1 /\ ItemOf(k) \in Gpu!Items
    BY Cells
  <2> QED
    BY <1>2, <2>1, <2>2
<1> HIDE DEF e
<1>5. CASE Gpu!Fill(l) \/ Gpu!Load(l) \/ Gpu!Save(l) \/ Gpu!LoadTotal(l)
  <2>1. step'[l] # Gpu!Ended /\ d_Dst' = d_Dst /\ d_Buf' = d_Buf
    BY <1>5, StillRunning
  <2>2. \A u \in Gpu!Items : step'[u] = Gpu!Ended <=> step[u] = Gpu!Ended
    BY <1>1, <1>3, <2>1
  <2>3. \A k \in 0..size - 1 : /\ Visited(k)' <=> Visited(k)
                               /\ LocalAt(k)' <=> LocalAt(k)
                               /\ GlobalAt(k)' <=> GlobalAt(k)
    BY <1>1, <1>4, <2>1, <2>2 DEF Visited, LocalAt, GlobalAt
  <2>4. \A g : TotalAt(g)' <=> TotalAt(g)
    BY <2>1 DEF TotalAt
  <2>5. kernel = 3 => (step'[0] >= 1 => buf' = d_Buf[group])
    <3> SUFFICES ASSUME kernel = 3, step'[0] >= 1 PROVE buf' = d_Buf[group]
      OBVIOUS
    <3>1. buf' = IF l = 0 THEN d_Buf[group] ELSE buf
      BY <1>5 DEF Gpu!Fill, Gpu!Load, Gpu!Save, Gpu!LoadTotal, Gpu!Scanning
    <3>2. l # 0 => step[0] >= 1
      BY <1>1, <1>2
    <3> QED
      BY <1>2, <3>1, <3>2 DEF Results
  <2> QED
    BY <1>1, <1>2, <2>1, <2>2, <2>3, <2>4, <2>5 DEF Results, Running, e
<1>6. CASE Gpu!Return(l)
  <2> DEFINE val == Sub(l_Data[Gpu!pos(l)], Gpu!idata(l))
  <2>1. val = Interval(Bound(0), Bound(l))
    BY <1>6, ReturnValue
  <2>2. kernel \in {1, 2} /\ step' = [step EXCEPT ![l] = Gpu!Ended]
    BY <1>6 DEF Gpu!Return, Gpu!Scanning
  <2>3. CASE kernel = 1
    <3>1. d_Dst' = [k \in 0..size - 1 |->
                      IF k \div 4 = Gpu!gid(l)
                      THEN Sub(Add(val, Interval(4 * Gpu!gid(l), k + 1)), Element(k))
                      ELSE d_Dst[k]]
      BY <1>6, <2>3, GpuSums DEF Gpu!Return
    <3> DEFINE m == group * W
    <3>2. val = Interval(4 * m, 4 * (m + l))
      <4>1. \A n : Bound(n) = 4 * (m + n)
        BY <1>1, <1>2, <2>3, Bounds
      <4>2. m + 0 = m
        BY <1>2
      <4> QED
        BY <2>1, <4>1, <4>2
    <3> HIDE DEF val, m
    <3>3. ASSUME NEW k \in 0..size - 1, Visited(k)'
          PROVE  LocalAt(k)'
      <4>1. CASE k \div 4 = Gpu!gid(l)
        <5> DEFINE p == k \div 4
        <5>1. m \in Nat /\ p = m + l /\ GroupOf(k) = group
          BY <1>2, <1>4, <4>1 DEF m
        <5>2. 4 * p \in Nat /\ 4 * p <= k /\ k \in Nat
          BY Cells
        <5>3. 4 * m <= 4 * (m + l) /\ 4 * m \in Nat /\ 4 * (m + l) \in Nat
          BY <1>2, <5>1
        <5>4. d_Dst'[k] = Sub(Add(val, Interval(4 * p, k + 1)), Element(k))
          BY <3>1, <4>1
        <5> HIDE DEF p
        <5>5. Add(val, Interval(4 * p, k + 1)) = Interval(4 * m, k + 1)
          BY <3>2, <5>1, <5>2, <5>3, AddIntervals
        <5>6. 4 * m <= k
          BY <5>1, <5>2, <5>3
        <5>7. Sub(Interval(4 * m, k + 1), Interval(k, k + 1)) = Interval(4 * m, k)
          BY <5>2, <5>3, <5>6, SubIntervals
        <5>8. d_Dst'[k] = Interval(4 * (group * W), k)
          BY <5>4, <5>5, <5>7 DEF Element, m
        <5> QED
          BY <5>1, <5>8 DEF LocalAt
      <4>2. CASE k \div 4 # Gpu!gid(l)
        <5>1. d_Dst'[k] = d_Dst[k]
          BY <3>1, <4>2
        <5>2. Visited(k)
          BY <1>1, <1>4, <3>3, <4>2 DEF Visited
        <5> QED
          BY <1>2, <2>3, <5>1, <5>2 DEF Results, LocalAt
      <4> QED
        BY <4>1, <4>2
    <3> QED
      BY <1>1, <2>3, <3>3 DEF Results
  <2>4. CASE kernel = 2
    <3>1. group = 0 /\ d_Dst' = d_Dst
          /\ d_Buf' = [g \in 0..e - 1 |-> IF g = Gpu!gid(l) THEN val ELSE d_Buf[g]]
      BY <1>1, <1>6, <2>4, GpuSums, GroupSizes DEF Gpu!Return, e
    <3>2. Gpu!gid(l) = l
      BY <1>2, <3>1
    <3> HIDE DEF val
    <3>3. ASSUME NEW u \in Gpu!Items, u < e, step'[u] = Gpu!Ended
          PROVE  TotalAt(u)'
      <4>1. u \in 0..e - 1 /\ u \in Nat
        BY <1>2, <3>3
      <4>2. CASE u = l
        <5>1. d_Buf'[u] = val
          BY <3>1, <3>2, <4>1, <4>2
        <5>2. Bound(0) = (4 * W) * 0 /\ Bound(l) = (4 * W) * l
          <6>1. 0 \in 0..e /\ l \in 0..e
            BY <1>2, <3>3, <4>1, <4>2
          <6> QED
            BY <1>1, <2>4, <6>1, Bounds DEF e
        <5>3. (4 * W) * 0 = 0
          BY <1>2
        <5> QED
          BY <2>1, <4>2, <5>1, <5>2, <5>3 DEF TotalAt, val
      <4>3. CASE u # l
        <5>1. d_Buf'[u] = d_Buf[u] /\ step[u] = Gpu!Ended
          BY <1>1, <3>1, <3>2, <3>3, <4>1, <4>3
        <5>2. TotalAt(u)
          BY <1>2, <2>4, <3>3, <5>1 DEF Results, e
        <5> QED
          BY <5>1, <5>2 DEF TotalAt
      <4> QED
        BY <4>2, <4>3
    <3>4. \A k \in 0..size - 1 : LocalAt(k)'
      BY <1>2, <2>4, <3>1 DEF Results, LocalAt
    <3> QED
      BY <1>1, <2>4, <3>3, <3>4 DEF Results, e
  <2> QED
    BY <2>2, <2>3, <2>4
<1>7. CASE Gpu!AddTotal(l)
  <2>1. /\ kernel = 3 /\ step[l] = 1 /\ step[0] >= step[l] /\ buf' = buf /\ d_Buf' = d_Buf
        /\ d_Dst' = [k \in 0..size - 1 |->
                       IF k \div 4 = Gpu!gid(l) THEN Add(buf, d_Dst[k]) ELSE d_Dst[k]]
    BY <1>7, GpuSums, GroupFacts DEF Gpu!AddTotal, Gpu!Updating, Gpu!Barrier
  <2> DEFINE m == (4 * W) * group
  <2>2. buf = Interval(0, m) /\ buf = d_Buf[group]
    <3>1. step[0] >= 1
      BY <2>1
    <3>2. group \in 0..e - 1
      BY <1>1, <1>2, <2>1, GroupSizes DEF e
    <3> QED
      BY <1>2, <2>1, <3>1, <3>2 DEF Results, TotalAt, e
  <2>3. m = 4 * (group * W) /\ m \in Nat
    BY <1>2
  <2> HIDE DEF m
  <2>4. ASSUME NEW k \in 0..size - 1
        PROVE  IF Visited(k)' THEN GlobalAt(k)' ELSE LocalAt(k)'
    <3>1. CASE k \div 4 = Gpu!gid(l)
      <4> DEFINE p == k \div 4
      <4>1. GroupOf(k) = group /\ ItemOf(k) = l /\ p = group * W + l
        BY <1>2, <1>4, <3>1
      <4>2. ~Visited(k)
        BY <1>2, <1>3, <4>1 DEF Visited
      <4>3. d_Dst[k] = Interval(m, k)
        BY <1>2, <2>1, <2>3, <4>1, <4>2 DEF Results, LocalAt
      <4>4. m <= k /\ k \in Nat
        <5>1. 4 * p <= k /\ k \in Nat /\ p \in Nat
          BY Cells
        <5> DEFINE q == group * W
        <5>2. q \in Nat /\ p = q + l /\ m = 4 * q
          BY <1>2, <2>3, <4>1
        <5> HIDE DEF p, q
        <5> QED
          BY <1>2, <5>1, <5>2
      <4>5. d_Dst'[k] = Add(buf, d_Dst[k])
        BY <2>1, <3>1
      <4>6. d_Dst'[k] = Interval(0, k)
        BY <2>2, <2>3, <4>3, <4>4, <4>5, AddIntervals
      <4>7. Visited(k)'
        <5>1. step'[l] = Gpu!Ended
          BY <1>2, <1>7 DEF Gpu!AddTotal
        <5> QED
          BY <1>1, <4>1, <5>1 DEF Visited
      <4> QED
        BY <4>6, <4>7 DEF GlobalAt
    <3>2. CASE k \div 4 # Gpu!gid(l)
      <4>1. d_Dst'[k] = d_Dst[k]
        BY <2>1, <3>2
      <4>2. Visited(k)' <=> Visited(k)
        BY <1>1, <1>4, <3>2 DEF Visited
      <4> QED
        BY <1>2, <2>1, <4>1, <4>2 DEF Results, LocalAt, GlobalAt
    <3> QED
      BY <3>1, <3>2
  <2>5. \A g \in 0..e - 1 : TotalAt(g)'
    BY <1>2, <2>1 DEF Results, TotalAt, e
  <2> QED
    BY <1>1, <2>1, <2>2, <2>4, <2>5 DEF Results, e
<1> QED
  BY <1>5, <1>6, <1>7 DEF Gpu!Item

LEMMA HostValues ==
  ASSUME GpuTypes, FitsGroup, Values, Gpu!Enqueue \/ Gpu!Refused \/ Gpu!GroupEnds \/ Gpu!ReadBuffer,
         size' = size
  PROVE  Values'
<1> DEFINE W == WORKGROUP_SIZE
           e == Gpu!elements
<1>1. /\ W \in Nat \ {0} /\ Gpu!Ended = 2 * W /\ Gpu!Items = 0..W - 1 /\ group \in Nat
      /\ kernel \in 0..4 /\ (kernel \in 1..3 => enabled) /\ size \in Nat /\ Windows /\ Results
      /\ ~Running => group = 0 /\ \A l \in Gpu!Items : step[l] = 0
  BY GroupFacts DEF GpuTypes, Control, Values
<1>2. e \in Nat /\ e <= W /\ size = e * (4 * W) /\ Gpu!elements' = e
  BY GroupSizes, SameGpu
<1>3. \A k \in 0..size - 1 : GroupOf(k) \in 0..e - 1 /\ ItemOf(k) \in Gpu!Items
  BY Cells
<1> HIDE DEF e
<1>4. ASSUME Gpu!ReadBuffer PROVE Values'
  <2>1. /\ kernel = 4 /\ kernel' = kernel /\ enabled' = enabled /\ d_Dst' = d_Dst
    BY <1>4 DEF Gpu!ReadBuffer, Gpu!gpuVars
  <2> QED
    BY <1>1, <2>1 DEF Values, Windows, Results, GlobalAt
<1>5. ASSUME \A l \in Gpu!Items : step'[l] = 0 PROVE Windows' /\ step'[0] = 0 /\ 0 # Gpu!Ended
  BY <1>1, <1>5 DEF Windows
<1>6. ASSUME Gpu!Enqueue PROVE Values'
  <2>1. /\ kernel = 0 /\ kernel' = (IF enabled THEN 1 ELSE 4) /\ enabled' = enabled /\ group' = group
        /\ step' = step
    BY <1>6 DEF Gpu!Enqueue, Gpu!itemVars
  <2>2. group' = 0 /\ \A l \in Gpu!Items : step'[l] = 0
    BY <1>1, <2>1 DEF Running
  <2>3. \A k \in 0..size - 1 : ~Visited(k)'
    BY <1>1, <1>3, <2>2 DEF Visited
  <2> QED
    BY <1>5, <2>1, <2>2, <2>3 DEF Values, Results
<1>7. ASSUME Gpu!Refused PROVE Values'
  <2>1. /\ kernel \in 1..3 /\ ~Gpu!Accepted(kernel) /\ step' = step
    BY <1>7 DEF Gpu!Refused, Gpu!itemVars
  <2>2. \A l \in Gpu!Items : step'[l] = 0
    BY <1>1, <2>1 DEF Running
  <2>3. e = 0
    BY <2>1, GroupSizes DEF Running, e
  <2>4. 0..size - 1 = {} /\ 0..e - 1 = {} /\ \A l \in Gpu!Items : ~(l < e)
    BY <1>1, <1>2, <2>3
  <2> QED
    BY <1>2, <1>5, <2>2, <2>4 DEF Values, Results
<1>8. ASSUME Gpu!GroupEnds PROVE Values'
  <2>1. /\ \A l \in Gpu!Items : step[l] = Gpu!Ended
        /\ step' = Gpu!FreshGroup.step
        /\ IF (group + 1) * W < Gpu!globalWorkSize(kernel)
           THEN group' = group + 1 /\ kernel' = kernel
           ELSE group' = 0 /\ kernel' = kernel + 1
        /\ d_Dst' = d_Dst /\ d_Buf' = d_Buf
    BY <1>8 DEF Gpu!GroupEnds, Gpu!NewGroup
  <2>2. \A l \in Gpu!Items : step'[l] = 0
    BY <2>1 DEF Gpu!FreshGroup
  <2>3. Running
    BY <1>1, <2>1
  <2>4. /\ \A k : (LocalAt(k)' <=> LocalAt(k)) /\ (GlobalAt(k)' <=> GlobalAt(k))
        /\ \A g : TotalAt(g)' <=> TotalAt(g)
    BY <2>1 DEF LocalAt, GlobalAt, TotalAt
  <2>5. \A k \in 0..size - 1 : Visited(k) <=> GroupOf(k) < group + 1
    BY <1>1, <1>3, <2>1 DEF Visited
  <2>6. \A k \in 0..size - 1 : Visited(k)' <=> GroupOf(k) < group'
    BY <1>1, <1>3, <2>2 DEF Visited
  <2>7. CASE (group + 1) * W < Gpu!globalWorkSize(kernel)
    <3>1. group' = group + 1 /\ kernel' = kernel /\ kernel \in 1..3
      BY <2>1, <2>3, <2>7 DEF Running
    <3>2. \A k \in 0..size - 1 : Visited(k)' <=> Visited(k)
      BY <2>5, <2>6, <3>1
    <3>3. Results'
      BY <1>1, <1>2, <1>5, <2>2, <2>4, <3>1, <3>2 DEF Results, e
    <3> QED
      BY <1>5, <2>2, <3>3 DEF Values
  <2>8. CASE ~((group + 1) * W < Gpu!globalWorkSize(kernel))
    <3>1. group' = 0 /\ kernel' = kernel + 1 /\ kernel \in 1..3
      BY <2>1, <2>3, <2>8 DEF Running
    <3>2. \A k \in 0..size - 1 : ~Visited(k)'
      BY <1>3, <2>6, <3>1
    <3>3. kernel \in {1, 3} => \A k \in 0..size - 1 : Visited(k)
      <4> SUFFICES ASSUME kernel \in {1, 3} PROVE e <= group + 1
        BY <1>1, <1>2, <1>3, <2>5
      <4>1. ~((group + 1) * W < e * W)
        BY <2>8, GroupSizes DEF e
      <4>2. ~(group + 2 <= e)
        <5> SUFFICES ASSUME group + 2 <= e PROVE FALSE
          OBVIOUS
        <5>1. (group + 2) * W <= e * W
          BY <1>1, <1>2, Products
        <5>2. (group + 2) * W = (group + 1) * W + W /\ (group + 1) * W \in Nat /\ e * W \in Nat
          BY <1>1, <1>2
        <5> QED
          BY <1>1, <4>1, <5>1, <5>2
      <4> QED
        BY <1>1, <1>2, <4>2
    <3>4. CASE kernel = 1
      BY <1>1, <1>2, <1>5, <2>2, <2>4, <3>1, <3>3, <3>4 DEF Results, Values
    <3>5. CASE kernel = 2
      <4>1. \A g \in 0..e - 1 : TotalAt(g)
        <5>1. \A g \in 0..e - 1 : g \in Gpu!Items /\ g < e
          BY <1>1, <1>2
        <5> QED
          BY <1>1, <2>1, <3>5, <5>1 DEF Results, e
      <4>2. \A k \in 0..size - 1 : LocalAt(k)
        BY <1>1, <3>5 DEF Results
      <4> QED
        BY <1>1, <1>2, <1>5, <2>2, <2>4, <3>1, <3>2, <3>5, <4>1, <4>2 DEF Results, Values
    <3>6. CASE kernel = 3
      <4>1. \A k \in 0..size - 1 : GlobalAt(k)
        BY <1>1, <3>3, <3>6 DEF Results
      <4> QED
        BY <1>5, <2>2, <2>4, <3>1, <3>6, <4>1 DEF Results, Values
    <3> QED
      BY <3>1, <3>4, <3>5, <3>6
  <2> QED
    BY <2>7, <2>8
<1> QED
  BY <1>4, <1>6, <1>7, <1>8

LEMMA ValuesStep ==
  ASSUME GpuTypes, FitsGroup, Values, Gpu!Next, size' = size
  PROVE  Values'
BY HostValues, WindowsStep, ResultsStep DEF Gpu!Next, Values

\* In a call of the scan on the GPU, whose variables no other call moves.
GpuCall == app = "scan" => GpuTypes /\ (func = "GPU_STD" /\ FitsGroup => Values)

LEMMA GpuStutter ==
  ASSUME GpuTypes, UNCHANGED <<size, gpuVars>>
  PROVE  GpuTypes' /\ (FitsGroup' <=> FitsGroup) /\ (Values => Values')
<1>1. /\ size' = size /\ enabled' = enabled /\ kernel' = kernel /\ group' = group /\ step' = step
      /\ l_Data' = l_Data /\ t' = t /\ offsets' = offsets /\ d_Dst' = d_Dst /\ d_Buf' = d_Buf
      /\ buf' = buf
  BY DEF gpuVars
<1>2. GpuTypes'
  <2>1. Phases'
    BY <1>1, SamePhases DEF GpuTypes
  <2>2. Gpu!TypeOK'
    BY <1>1, GpuSums, SameGpu DEF GpuTypes, Gpu!TypeOK
  <2>3. (Running' <=> Running) /\ (Gpu!globalWorkSize(kernel))' = Gpu!globalWorkSize(kernel)
    BY <1>1, SameGpu DEF Running, Gpu!globalWorkSize, Gpu!elements, Gpu!iSnapUp, Gpu!local1size
  <2>4. Control'
    BY <1>1, <2>3 DEF GpuTypes, Control
  <2> QED
    BY <1>1, <2>1, <2>2, <2>4 DEF GpuTypes
<1>3. FitsGroup' <=> FitsGroup
  BY <1>1, SameGpu, GroupFacts DEF FitsGroup, Gpu!local1size
<1>4. Values => Values'
  <2> SUFFICES ASSUME Values PROVE Values'
    OBVIOUS
  <2>1. Windows'
    <3>1. \A u, w : Window(u, w)' = Window(u, w)
      BY <1>1, SameWindows
    <3>2. \A u : Saving(u)' <=> Saving(u)
      BY <1>1 DEF Saving
    <3> QED
      BY <1>1, <3>1, <3>2 DEF Values, Windows
  <2>2. Results'
    <3>1. \A k : /\ Visited(k)' <=> Visited(k)
                 /\ LocalAt(k)' <=> LocalAt(k)
                 /\ GlobalAt(k)' <=> GlobalAt(k)
                 /\ TotalAt(k)' <=> TotalAt(k)
      BY <1>1 DEF Visited, LocalAt, GlobalAt, TotalAt
    <3>2. Gpu!elements' = Gpu!elements
      BY <1>1, SameGpu
    <3> QED
      BY <1>1, <3>1, <3>2 DEF Values, Results
  <2> QED
    BY <2>1, <2>2 DEF Values
<1> QED
  BY <1>2, <1>3, <1>4

\* The inductive invariant of the scan on the GPU.
THEOREM GpuCalls == AlgSpec => []GpuCall
<1>1. AlgInit => GpuCall
  <2> SUFFICES ASSUME AlgInit, app = "scan" PROVE GpuTypes /\ Values
    BY DEF GpuCall
  <2>1. Gpu!Init /\ size \in Nat
    BY SizesAssumption, ScanAssumption DEF AlgInit, ScanInit
  <2>2. kernel = 0
    BY <2>1 DEF Gpu!Init
  <2> QED
    BY <2>1, <2>2, GpuInitially DEF Values, Windows, Results
<1>2. AlgInv /\ GpuCall /\ [AlgNext]_algVars => GpuCall'
  <2> SUFFICES ASSUME AlgInv, GpuCall, [AlgNext]_algVars, app' = "scan" PROVE GpuCall'
    BY DEF GpuCall
  <2>1. app' = app /\ app = "scan"
    BY DEF AlgNext, algVars, input
  <2>2. GpuTypes /\ CallInv
    BY <2>1 DEF GpuCall, AlgInv
  <2>3. CASE UNCHANGED <<size, gpuVars>> /\ func' = func
    <3>1. GpuTypes'
      BY <2>2, <2>3, GpuStutter
    <3>2. FitsGroup' /\ func' = "GPU_STD" => Values'
      <4> SUFFICES ASSUME FitsGroup', func' = "GPU_STD" PROVE Values'
        OBVIOUS
      <4>1. FitsGroup
        BY <2>3, SameGpu, GroupFacts DEF FitsGroup, Gpu!local1size
      <4>2. Values
        BY <2>1, <2>3, <4>1 DEF GpuCall
      <4> QED
        BY <2>2, <2>3, <4>2, GpuStutter
    <3> QED
      BY <3>1, <3>2 DEF GpuCall
  <2>4. CASE OnGpu /\ func' = func
    <3>1. Gpu!Next /\ size' = size
      BY <2>4 DEF OnGpu
    <3>2. GpuTypes'
      BY <2>2, <3>1, GpuTypesStep
    <3>3. FitsGroup' /\ func' = "GPU_STD" => Values'
      <4> SUFFICES ASSUME FitsGroup', func' = "GPU_STD" PROVE Values'
        OBVIOUS
      <4>1. FitsGroup
        BY <3>1, SameGpu, GroupFacts DEF FitsGroup, Gpu!local1size
      <4>2. Values
        BY <2>1, <2>4, <4>1 DEF GpuCall
      <4> QED
        BY <2>2, <3>1, <4>1, <4>2, ValuesStep
    <3> QED
      BY <3>2, <3>3 DEF GpuCall
  <2>5. CASE Parallel /\ func' = func
    <3>1. PICK u \in Threads : func = "OMP_SSE" /\ Step(u)
      BY <2>5 DEF Parallel
    <3>2. size' = size
      BY <2>2, <3>1, Frame DEF CallInv, ScanOmpInv
    <3>3. UNCHANGED gpuVars
      BY <2>5 DEF Parallel
    <3> QED
      BY <2>3, <2>5, <3>2, <3>3
  <2>6. CASE /\ \/ Sequential("STD", OneThread!StdTurn) \/ Sequential("SSE", OneThread!SseTurn)
                \/ Sequential("AVX", OneThread!AvxTurn)
             /\ func' = func
    BY <2>3, <2>6 DEF Sequential
  <2>7. CASE UNCHANGED algVars \/ UNCHANGED scanVars
    <3>1. UNCHANGED <<size, gpuVars>> /\ func' = func
      BY <2>7 DEF algVars, input, scanOnly, kernelVars, scanVars, gpuVars
    <3> QED
      BY <2>3, <3>1
  <2> QED
    BY <2>1, <2>4, <2>5, <2>6, <2>7 DEF AlgNext, ScanNext, Call
<1> QED
  BY <1>1, <1>2, Calls, PTL DEF AlgSpec

\* The scan on the GPU gives every element the sum of those before it, in whatever order
\* the items take their steps, for every size of the group: where the size is a multiple
\* of local1size and the totals fit in one group.
THEOREM GpuScans == AlgSpec => []GpuScanRight
<1>1. AlgInv /\ GpuCall => GpuScanRight
  <2> SUFFICES ASSUME AlgInv, GpuCall, Returned, func = "GPU_STD", enabled,
                      size % Gpu!local1size = 0, Gpu!elements <= WORKGROUP_SIZE,
                      NEW k \in 0..size - 1
               PROVE  calculated[k] = Interval(0, k)
    BY DEF GpuScanRight
  <2>1. app = "scan"
    BY DEF AlgInv, IdleInv
  <2>2. Values
    BY <2>1 DEF GpuCall, FitsGroup
  <2>3. kernel = 4 /\ calculated = d_Dst
    BY DEF Returned, Gpu!Done
  <2> QED
    BY <2>2, <2>3 DEF Values, Results, GlobalAt
<1> QED
  BY <1>1, Calls, GpuCalls, PTL

===============================================================================
