--------------------------------- MODULE ScanSeq -------------------------------
(***************************************************************************)
(* The sequential scans of app/scan/scanfuncs.cpp: scanCPU_STD takes one   *)
(* element in a turn of its loop, scanCPU_SSE four and scanCPU_AVX eight,  *)
(* which it scans by moving the lanes of a register and adding.            *)
(*                                                                         *)
(* A vector at the end of the input may reach beyond it: what is loaded    *)
(* there is Wrong, and where it is stored is not looked at.                *)
(* Scan chooses the input and the function.                                *)
(***************************************************************************)
EXTENDS Sums

VARIABLES
  size,        \* Scan::size
  calculated,  \* calculated->mem
  next,        \* the loop counter
  carry        \* `sum', or one lane of `offset', which are all the same

TypeOK == next \in Nat /\ carry \in SumsOver(size)

Init == next = 0 /\ carry = Zero

mem(k) == IF k < size THEN Element(k) ELSE Wrong

-----------------------------------------------------------------------------
(* Registers: functions on their lanes.                                    *)

AddLanes(x, y) == [l \in DOMAIN x |-> Add(x[l], y[l])]

\* _mm_slli_si128: n lanes up, zeros below.
ShiftLanes(x, n) == [l \in DOMAIN x |-> IF l < n THEN Zero ELSE x[l - n]]

\* _mm256_permute_ps: both halves alike.
permute(x, p) == [l \in 0..7 |-> x[4 * (l \div 4) + p[l % 4]]]
\* _mm256_permute2f128_ps(x, x, 41): the low half moves up, zeros below.
LowHalfUp(x) == [l \in 0..7 |-> IF l < 4 THEN Zero ELSE x[l - 4]]
\* _mm256_blend_ps
blend(x, y, fromY) == [l \in 0..7 |-> IF l \in fromY THEN y[l] ELSE x[l]]

scan_SSEPairs(x) == AddLanes(ShiftLanes(x, 1), x)
scan_SSE(x) ==
  LET y == AddLanes(ShiftLanes(x, 1), x) IN AddLanes(ShiftLanes(y, 2), y)

\* The lanes of each half turn by one, or by two; those that come from the top of
\* the low half belong in the high half.
Turn(x, n, fromBelow) ==
  LET t0 == permute(x, [l \in 0..3 |-> (l - n) % 4]) IN blend(t0, LowHalfUp(t0), fromBelow)

scan_AVX(x) ==
  LET y == AddLanes(Turn(x, 1, {0, 4}), x)
      z == AddLanes(Turn(y, 2, {0, 1, 4, 5}), y)
  IN AddLanes(LowHalfUp(z), z)

-----------------------------------------------------------------------------
(* One turn of the loop of each function.                                  *)

StdTurn ==
  /\ next < size
  /\ carry' = Add(carry, mem(next))
  /\ calculated' = [calculated EXCEPT ![next] = carry']
  /\ next' = next + 1

Vector(width) == [l \in 0..width - 1 |-> mem(next + l)]

\* A vector that has been scanned by itself is stored with what came before it.
VectorTurn(width, out) ==
  /\ next < size
  /\ calculated' = [k \in 0..size - 1 |->
       IF k \in next..next + width - 1 THEN Add(carry, out[k - next]) ELSE calculated[k]]
  /\ carry' = Add(carry, out[width - 1])
  /\ next' = next + width

SseTurn == VectorTurn(4, scan_SSE(Vector(4)))
AvxTurn == VectorTurn(8, scan_AVX(Vector(8)))

Done == next >= size

=============================================================================
