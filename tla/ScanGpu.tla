--------------------------------- MODULE ScanGpu -------------------------------
(***************************************************************************)
(* Scan::scanGPU (app/scan/scanfuncs.cpp) and its kernels (cl/scan.cl): an *)
(* exclusive scan in two levels.  scanExclusiveLocal1 scans each group of  *)
(* local1size elements, scanExclusiveLocal2 the totals of the groups, and  *)
(* uniformUpdate adds the second to the first.                             *)
(*                                                                         *)
(* The items of a work-group take their steps in any order between two     *)
(* barriers.  Groups share no local memory and write different elements,   *)
(* so they are taken one after the other.  Step n of an item comes after   *)
(* its barrier n.                                                          *)
(*                                                                         *)
(* OpenCL is external: kernels of a queue run in order, and one whose      *)
(* global size is 0 or no multiple of the group is refused.                *)
(* Scan chooses the input and states what is assumed of the constants.     *)
(***************************************************************************)
EXTENDS Sums

CONSTANTS
  WORKGROUP_SIZE,  \* 256 in the code, a power of two
  ARRAY_LENGTH     \* WORKGROUP_SIZE * 4 * WORKGROUP_SIZE in the code

VARIABLES
  size,        \* Scan::size
  calculated,  \* calculated->mem
  enabled,     \* gpu->getEnabled()
  kernel,      \* the kernel that runs: 1, 2 or 3; before and after them 0 and 4
  group,       \* get_group_id(0)
  step,        \* how many steps each item of the group has taken
  l_Data,      \* the local memory of the group
  t,           \* `t' of each item
  offsets,     \* `offset' of each item
  d_Dst,       \* calculated->buf_mem
  d_Buf,       \* buf_temp
  buf          \* `buf[0]' of uniformUpdate

itemVars == <<step, l_Data, t, offsets, buf>>
gpuVars == <<enabled, kernel, group, d_Dst, d_Buf, itemVars>>

Items == 0..WORKGROUP_SIZE - 1
Ended == 2 * WORKGROUP_SIZE

local1size == 4 * WORKGROUP_SIZE
local2size == ARRAY_LENGTH \div local1size
elements   == size \div local1size

TypeOK ==
  /\ enabled \in BOOLEAN
  /\ kernel \in 0..4
  /\ group \in Nat
  /\ step \in [Items -> 0..Ended]
  /\ l_Data \in [0..2 * WORKGROUP_SIZE - 1 -> SumsOver(size)]
  /\ t \in [Items -> SumsOver(size)]
  /\ offsets \in [Items -> 1..2 * WORKGROUP_SIZE]
  /\ d_Dst \in [0..size - 1 -> SumsOver(size)]
  /\ d_Buf \in [0..elements - 1 -> SumsOver(size)]
  /\ buf \in SumsOver(size)

\* Nothing has been written to the buffers and to the local memory.
FreshGroup ==
  [step |-> [l \in Items |-> 0], l_Data |-> [p \in 0..2 * WORKGROUP_SIZE - 1 |-> Wrong],
   t |-> [l \in Items |-> Wrong], offsets |-> [l \in Items |-> 1], buf |-> Wrong]

Init ==
  /\ enabled \in BOOLEAN
  /\ kernel = 0
  /\ group = 0
  /\ d_Dst = [k \in 0..size - 1 |-> Wrong]
  /\ d_Buf = [g \in 0..elements - 1 |-> Wrong]
  /\ step = FreshGroup.step /\ l_Data = FreshGroup.l_Data
  /\ t = FreshGroup.t /\ offsets = FreshGroup.offsets /\ buf = FreshGroup.buf

-----------------------------------------------------------------------------
(* The host.                                                               *)

iSnapDown(dividend, divisor) == dividend - (dividend % divisor)
iSnapUp(dividend, divisor) ==
  IF dividend % divisor = 0 THEN dividend ELSE dividend - (dividend % divisor) + divisor

globalWorkSize(k) == CASE k = 1 -> size \div 4
                       [] k = 2 -> iSnapUp(elements, WORKGROUP_SIZE)
                       [] k = 3 -> elements * WORKGROUP_SIZE
Accepted(k) == globalWorkSize(k) > 0 /\ globalWorkSize(k) % WORKGROUP_SIZE = 0

NewGroup ==
  /\ step' = FreshGroup.step /\ l_Data' = FreshGroup.l_Data
  /\ t' = FreshGroup.t /\ offsets' = FreshGroup.offsets /\ buf' = FreshGroup.buf

\* The call: without a GPU it returns false, otherwise all is enqueued.
Enqueue ==
  /\ kernel = 0
  /\ kernel' = IF enabled THEN 1 ELSE 4
  /\ UNCHANGED <<calculated, enabled, group, d_Dst, d_Buf, itemVars>>

\* A kernel that is refused leaves its message and nothing else.
Refused ==
  /\ kernel \in 1..3
  /\ ~Accepted(kernel)
  /\ kernel' = kernel + 1
  /\ UNCHANGED <<calculated, enabled, group, d_Dst, d_Buf, itemVars>>

\* All items of a group have ended: the next group, the next kernel, or the result.
GroupEnds ==
  /\ \A l \in Items : step[l] = Ended
  /\ NewGroup
  /\ IF (group + 1) * WORKGROUP_SIZE < globalWorkSize(kernel)
     THEN group' = group + 1 /\ UNCHANGED kernel
     ELSE group' = 0 /\ kernel' = kernel + 1
  /\ UNCHANGED <<calculated, enabled, d_Dst, d_Buf>>

ReadBuffer ==
  /\ kernel = 4
  /\ enabled
  /\ calculated # d_Dst
  /\ calculated' = d_Dst
  /\ UNCHANGED gpuVars

-----------------------------------------------------------------------------
(* The items of scanExclusiveLocal1 and scanExclusiveLocal2, which call    *)
(* scan1Inclusive.                                                         *)

gid(l) == group * WORKGROUP_SIZE + l

\* The second argument of scan1Inclusive, and what the item hands to it.
ScanSize == IF kernel = 1 THEN local1size \div 4 ELSE local2size
Last(g)  == local1size - 1 + local1size * g
idata(l) ==
  CASE kernel = 1 -> Interval(4 * gid(l), 4 * gid(l) + 4)
    [] kernel = 2 /\ gid(l) < elements ->
         Add(d_Dst[Last(gid(l))], Element(Last(gid(l))))
    [] OTHER -> Zero

pos(l) == 2 * l - (l % ScanSize) + ScanSize

Scanning(l) == kernel \in {1, 2} /\ Accepted(kernel) /\ step[l] < Ended
Advance(l) == step' = [step EXCEPT ![l] = @ + 1]

\* No item is left behind the barrier before the next step of this one.
BarrierEveryOther(l) == \A u \in Items : step[u] >= step[l] - 1
Barrier(l) == \A u \in Items : step[u] >= step[l]

\* The zeros below pos, and the data at pos.
Fill(l) ==
  /\ Scanning(l)
  /\ step[l] = 0
  /\ l_Data' = [l_Data EXCEPT ![pos(l) - ScanSize] = Zero, ![pos(l)] = idata(l)]
  /\ Advance(l)
  /\ UNCHANGED <<calculated, enabled, kernel, group, t, offsets, buf, d_Dst, d_Buf>>

Load(l) ==
  /\ Scanning(l)
  /\ step[l] % 2 = 1 /\ offsets[l] < ScanSize
  /\ Barrier(l)
  /\ t' = [t EXCEPT ![l] = Add(l_Data[pos(l) - offsets[l]], l_Data[pos(l)])]
  /\ Advance(l)
  /\ UNCHANGED <<calculated, enabled, kernel, group, l_Data, offsets, buf, d_Dst, d_Buf>>

Save(l) ==
  /\ Scanning(l)
  /\ step[l] % 2 = 0 /\ step[l] > 0
  /\ Barrier(l)
  /\ l_Data' = [l_Data EXCEPT ![pos(l)] = t[l]]
  /\ offsets' = [offsets EXCEPT ![l] = 2 * @]
  /\ Advance(l)
  /\ UNCHANGED <<calculated, enabled, kernel, group, t, buf, d_Dst, d_Buf>>

\* The loop is left: the sum without the item's own data, for the four elements of
\* the item, or for the group it stands for.
Return(l) ==
  /\ Scanning(l)
  /\ step[l] % 2 = 1 /\ offsets[l] >= ScanSize
  /\ LET val == Sub(l_Data[pos(l)], idata(l)) IN
       \/ /\ kernel = 1
          /\ d_Dst' = [k \in 0..size - 1 |->
               IF k \div 4 = gid(l)
               THEN Sub(Add(val, Interval(4 * gid(l), k + 1)), Element(k))
               ELSE d_Dst[k]]
          /\ UNCHANGED d_Buf
       \/ /\ kernel = 2
          /\ d_Buf' = [g \in 0..elements - 1 |-> IF g = gid(l) THEN val ELSE d_Buf[g]]
          /\ UNCHANGED d_Dst
  /\ step' = [step EXCEPT ![l] = Ended]
  /\ UNCHANGED <<calculated, enabled, kernel, group, l_Data, t, offsets, buf>>

-----------------------------------------------------------------------------
(* The items of uniformUpdate.                                             *)

Updating(l) == kernel = 3 /\ Accepted(kernel) /\ step[l] < Ended

LoadTotal(l) ==
  /\ Updating(l)
  /\ step[l] = 0
  /\ buf' = IF l = 0 THEN d_Buf[group] ELSE buf
  /\ Advance(l)
  /\ UNCHANGED <<calculated, enabled, kernel, group, l_Data, t, offsets, d_Dst, d_Buf>>

AddTotal(l) ==
  /\ Updating(l)
  /\ step[l] = 1
  /\ Barrier(l)
  /\ d_Dst' = [k \in 0..size - 1 |->
       IF k \div 4 = gid(l) THEN Add(buf, d_Dst[k]) ELSE d_Dst[k]]
  /\ step' = [step EXCEPT ![l] = Ended]
  /\ UNCHANGED <<calculated, enabled, kernel, group, l_Data, t, offsets, buf, d_Buf>>

-----------------------------------------------------------------------------

Item(l) == Fill(l) \/ Load(l) \/ Save(l) \/ Return(l) \/ LoadTotal(l) \/ AddTotal(l)

Next == Enqueue \/ Refused \/ GroupEnds \/ ReadBuffer \/ \E l \in Items : Item(l)

Done == kernel = 4 /\ (enabled => calculated = d_Dst)

-----------------------------------------------------------------------------
(* Races in local memory.                                                  *)

\* What the next step of an item reads and writes there.
Returning(l) == step[l] % 2 = 1 /\ offsets[l] >= ScanSize
Reads(l) ==
  CASE kernel = 3                -> IF step[l] = 1 THEN {"buf"} ELSE {}
    [] kernel # 3 /\ Returning(l)  -> {pos(l)}
    [] kernel # 3 /\ ~Returning(l) ->
         IF step[l] % 2 = 1 THEN {pos(l), pos(l) - offsets[l]} ELSE {}
Writes(l) ==
  CASE kernel = 3                -> IF step[l] = 0 /\ l = 0 THEN {"buf"} ELSE {}
    [] kernel # 3 /\ step[l] = 0 -> {pos(l), pos(l) - ScanSize}
    [] kernel # 3 /\ step[l] > 0 -> IF step[l] % 2 = 0 THEN {pos(l)} ELSE {}

\* No barrier holds the item back.
Ready(l) ==
  /\ step[l] < Ended
  /\ step[l] = 0 \/ Barrier(l) \/ (kernel # 3 /\ Returning(l))

ItemsRaceFree ==
  kernel \in 1..3 /\ Accepted(kernel) =>
    \A l, u \in Items :
      l # u /\ Ready(l) /\ Ready(u) => Writes(l) \cap (Reads(u) \cup Writes(u)) = {}

=============================================================================
