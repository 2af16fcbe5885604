------------------------------- MODULE MatrixFuncs -----------------------------
(***************************************************************************)
(* The products of app/matrix/matrixfuncs.cpp and cl/matrix.cl: A has row  *)
(* rows and col columns, its B has col rows and row columns.               *)
(*                                                                         *)
(* An element of a result is known by the products it is the sum of, each  *)
(* <<a, b>> for A[a] * B[b].  What has a product twice, or one of elements *)
(* that do not exist, or has not been written, is Wrong.  Stores outside   *)
(* the result are left out.                                                *)
(*                                                                         *)
(* Nested parallel loops run on one thread, as they do unless OpenMP is    *)
(* told otherwise.  The work-items of one kernel write different elements, *)
(* so a kernel without barriers is one step; in matrixMulDiscrete the      *)
(* items of a group take their steps in any order between two barriers.    *)
(***************************************************************************)
EXTENDS Team

CONSTANTS
  TILESIZE,    \* 32 in the code
  BLOCK_SIZE,  \* 16
  LOCAL_X,     \* the work-group of the other kernels: 32 by 8
  LOCAL_Y

VARIABLES
  func, row, col,   \* the function called, and the sides of A
  enabled,          \* gpu->getEnabled()
  calculated,       \* calculated->mem, or once a kernel is enqueued its buffer
  next,             \* the outer loop of each thread
  loaded,           \* what a thread has read of the result to add to it
  host,             \* what the caller does: "call", "cpu", "kernel", "done"
  group,            \* matrixMulDiscrete: the group that runs
  step,             \* how many steps each of its items has taken
  As, Bs, Csub

itemVars == <<step, As, Bs, Csub>>
matVars  == <<loaded, host, group, itemVars>>

CpuFuncs == {"CPU_STD", "CPU_TILED", "CPU_TILED_BASIC", "CPU_TILED_OMP"}
GpuFuncs == {"GPU_STD", "GPU_VEC4", "GPU_VEC8", "GPU_DISC"}

Wrong == <<-1, -1>>
Bcol  == row
Cells == 0..row * Bcol - 1
Elements == 0..row * col - 1
ElementSums == SUBSET ((Elements \X Elements) \cup {Wrong})

Product(a, b) == IF a \in Elements /\ b \in Elements THEN <<a, b>> ELSE Wrong

\* s and the products of f, one for each index of f.
Plus(s, f) ==
  LET new == {f[x] : x \in DOMAIN f} IN
  IF Wrong \in s \cup new \/ s \cap new # {} \/ Cardinality(new) # Cardinality(DOMAIN f)
  THEN {Wrong} ELSE s \cup new

Block == (0..BLOCK_SIZE - 1) \X (0..BLOCK_SIZE - 1)
FreshItems ==
  [step |-> [l \in Block |-> 0], tile |-> [p \in Block |-> -1], Csub |-> [l \in Block |-> {}]]

TypeOK ==
  /\ enabled \in BOOLEAN
  /\ host \in {"call", "cpu", "kernel", "done"}
  /\ \A x \in Cells : calculated[x] \in ElementSums
  /\ next \in [Threads -> 0..row]
  /\ \A t \in Threads : \A x \in DOMAIN loaded[t] : loaded[t][x] \in ElementSums
  /\ group \in Nat \X Nat
  /\ step \in [Block -> Nat]
  /\ As \in [Block -> Elements \cup {-1}]
  /\ Bs \in [Block -> Elements \cup {-1}]
  /\ \A l \in Block : Csub[l] \in ElementSums

\* allocMem has zeroed the result.
Init ==
  /\ enabled \in BOOLEAN
  /\ calculated = [x \in Cells |-> {}]
  /\ next = [t \in Threads |-> 0]
  /\ loaded = [t \in Threads |-> <<>>]
  /\ host = "call"
  /\ group = <<0, 0>>
  /\ step = FreshItems.step /\ Csub = FreshItems.Csub
  /\ As = FreshItems.tile /\ Bs = FreshItems.tile

-----------------------------------------------------------------------------
(* The functions of the CPU: they all add mem[r][k] * B[r][k] to the       *)
(* element at r and c, for different <<r, c, k>> in one turn of the outer  *)
(* loop.                                                                   *)

Tiles(n) == (n + TILESIZE - 1) \div TILESIZE
Tile(n)  == TILESIZE * n .. TILESIZE * n + TILESIZE - 1
Tiled(n) == 0..TILESIZE * Tiles(n) - 1

Turns ==
  CASE func = "CPU_STD"                          -> row
    [] func \in {"CPU_TILED", "CPU_TILED_OMP"}   -> Tiles(Bcol)
    [] func = "CPU_TILED_BASIC"                  -> Tiles(row)

multiplyCPU_STD(i)         == {i} \X (0..Bcol - 1) \X (0..col - 1)
multiplyCPU_TILED(n)       == (0..row - 1) \X Tile(n) \X Tiled(col)
multiplyCPU_TILED_BASIC(n) == Tile(n) \X Tiled(Bcol) \X Tiled(col)

Body(n) ==
  CASE func = "CPU_STD"                        -> multiplyCPU_STD(n)
    [] func \in {"CPU_TILED", "CPU_TILED_OMP"} -> multiplyCPU_TILED(n)
    [] func = "CPU_TILED_BASIC"                -> multiplyCPU_TILED_BASIC(n)

At(x, n) == {u \in Body(n) : u[1] * Bcol + u[2] = x}

Members == IF func = "CPU_TILED_OMP" THEN Threads ELSE {0}
FirstTurn(t) == IF func = "CPU_TILED_OMP" THEN First(t, Turns) ELSE 0
EndTurn(t)   == IF func = "CPU_TILED_OMP" THEN End(t, Turns) ELSE Turns

EnterCpu ==
  /\ host = "call"
  /\ func \in CpuFuncs
  /\ host' = "cpu"
  /\ next' = [t \in Threads |-> IF t \in Members THEN FirstTurn(t) ELSE 0]
  /\ UNCHANGED <<calculated, loaded, group, itemVars>>

\* A turn of the outer loop is a read of the elements it adds to, and the stores.
Read(t) ==
  /\ host = "cpu" /\ t \in Members
  /\ next[t] < EndTurn(t)
  /\ loaded[t] = <<>>
  /\ loaded' = [loaded EXCEPT ![t] =
       [x \in {y \in Cells : At(y, next[t]) # {}} |-> calculated[x]]]
  /\ UNCHANGED <<calculated, next, host, group, itemVars>>

Write(t) ==
  /\ host = "cpu" /\ t \in Members
  /\ next[t] < EndTurn(t)
  /\ loaded[t] # <<>>
  /\ calculated' = [x \in Cells |->
       IF x \in DOMAIN loaded[t]
       THEN Plus(loaded[t][x], [u \in At(x, next[t]) |->
                                  Product(u[1] * col + u[3], u[3] * Bcol + u[2])])
       ELSE calculated[x]]
  /\ loaded' = [loaded EXCEPT ![t] = <<>>]
  /\ next' = [next EXCEPT ![t] = @ + 1]
  /\ UNCHANGED <<host, group, itemVars>>

LeaveCpu ==
  /\ host = "cpu"
  /\ \A t \in Members : next[t] >= EndTurn(t)
  /\ host' = "done"
  /\ UNCHANGED <<calculated, next, loaded, group, itemVars>>

-----------------------------------------------------------------------------
(* The kernels.                                                            *)

argument ==
  CASE func = "GPU_STD"  -> <<1, 1, LOCAL_X, LOCAL_Y>>
    [] func = "GPU_VEC4" -> <<4, 1, LOCAL_X, LOCAL_Y>>
    [] func = "GPU_VEC8" -> <<8, 1, LOCAL_X, LOCAL_Y>>
    [] func = "GPU_DISC" -> <<1, 1, BLOCK_SIZE, BLOCK_SIZE>>
globalWorkSize == <<Bcol \div argument[1], row \div argument[2]>>
Accepted ==
  \A d \in 1..2 : globalWorkSize[d] > 0 /\ globalWorkSize[d] % argument[d + 2] = 0

\* Nothing is written to the buffer of the result before the kernel.
Enqueue ==
  /\ host = "call"
  /\ func \in GpuFuncs
  /\ host' = IF enabled /\ Accepted THEN "kernel" ELSE "done"
  /\ calculated' = IF enabled THEN [x \in Cells |-> {Wrong}] ELSE calculated
  /\ UNCHANGED <<next, loaded, group, itemVars>>

\* The element that lane l of the item at j and i writes, and its products.
nv4 == col \div 4
Lanes == IF func = "GPU_VEC4" THEN 0..3 ELSE {0}
Cell(j, i, l) ==
  CASE func = "GPU_VEC4" -> 4 * (i * nv4 + j) + l
    [] OTHER             -> i * Bcol + j
Products(j, i, l) ==
  CASE func = "GPU_STD"  ->
         [k \in 0..col - 1 |-> Product(i * col + k, k * Bcol + j)]
    [] func = "GPU_VEC4" ->
         [k \in 0..4 * nv4 - 1 |-> Product(4 * i * nv4 + k, 4 * (k * nv4 + j) + l)]
    [] func = "GPU_VEC8" ->
         [k \in 0..8 * ((col + 7) \div 8) - 1 |-> Product(i * col + k, k * Bcol + j)]

Kernel ==
  /\ host = "kernel"
  /\ func # "GPU_DISC"
  /\ LET out == {<<Cell(j, i, l), Plus({}, Products(j, i, l))>> :
                   j \in 0..globalWorkSize[1] - 1, i \in 0..globalWorkSize[2] - 1, l \in Lanes}
         stored(x) == {o[2] : o \in {p \in out : p[1] = x}}
     IN calculated' = [x \in Cells |->
          IF Cardinality(stored(x)) = 1 THEN CHOOSE s \in stored(x) : TRUE ELSE {Wrong}]
  /\ host' = "done"
  /\ UNCHANGED <<next, loaded, group, itemVars>>

-----------------------------------------------------------------------------
(* The items of matrixMulDiscrete, <<tx, ty>>.  Steps 0, 2, ... load a     *)
(* block, steps 1, 3, ... multiply it.                                     *)

Blocks == (col + BLOCK_SIZE - 1) \div BLOCK_SIZE
Running(l) == host = "kernel" /\ func = "GPU_DISC" /\ step[l] <= 2 * Blocks
Advance(l) == step' = [step EXCEPT ![l] = @ + 1]

\* No item is left behind the barrier before the next step of this one.
BarrierEveryOther(l) == \A u \in Block : step[u] >= step[l] - 1
Barrier(l) == \A u \in Block : step[u] >= step[l]

Entry(k) == IF k \in Elements THEN k ELSE -1

LoadBlock(l) ==
  /\ Running(l)
  /\ step[l] % 2 = 0 /\ step[l] < 2 * Blocks
  /\ Barrier(l)
  /\ LET tx == l[1]  ty == l[2]
         a == col * BLOCK_SIZE * group[2] + BLOCK_SIZE * (step[l] \div 2)
         b == BLOCK_SIZE * group[1] + BLOCK_SIZE * Bcol * (step[l] \div 2)
     IN /\ As' = [As EXCEPT ![<<ty, tx>>] = Entry(a + col * ty + tx)]
        /\ Bs' = [Bs EXCEPT ![<<ty, tx>>] = Entry(b + Bcol * ty + tx)]
  /\ Advance(l)
  /\ UNCHANGED <<calculated, next, loaded, host, group, Csub>>

MultiplyBlock(l) ==
  /\ Running(l)
  /\ step[l] % 2 = 1
  /\ Barrier(l)
  /\ Csub' = [Csub EXCEPT ![l] =
       Plus(@, [k \in 0..BLOCK_SIZE - 1 |-> Product(As[<<l[2], k>>], Bs[<<k, l[1]>>])])]
  /\ Advance(l)
  /\ UNCHANGED <<calculated, next, loaded, host, group, As, Bs>>

WriteSub(l) ==
  /\ Running(l)
  /\ step[l] = 2 * Blocks
  /\ Barrier(l)
  /\ calculated' = [calculated EXCEPT
       ![Bcol * BLOCK_SIZE * group[2] + BLOCK_SIZE * group[1] + Bcol * l[2] + l[1]] = Csub[l]]
  /\ Advance(l)
  /\ UNCHANGED <<next, loaded, host, group, As, Bs, Csub>>

GroupEnds ==
  /\ host = "kernel"
  /\ \A l \in Block : step[l] > 2 * Blocks
  /\ LET rows == row \div BLOCK_SIZE  columns == Bcol \div BLOCK_SIZE IN
       CASE group[1] + 1 < columns -> group' = <<group[1] + 1, group[2]>> /\ UNCHANGED host
         [] group[1] + 1 = columns /\ group[2] + 1 < rows ->
              group' = <<0, group[2] + 1>> /\ UNCHANGED host
         [] OTHER -> host' = "done" /\ UNCHANGED group
  /\ step' = FreshItems.step /\ Csub' = FreshItems.Csub
  /\ As' = FreshItems.tile /\ Bs' = FreshItems.tile
  /\ UNCHANGED <<calculated, next, loaded>>

-----------------------------------------------------------------------------

Next ==
  \/ EnterCpu \/ LeaveCpu \/ Enqueue \/ Kernel \/ GroupEnds
  \/ \E t \in Threads : Read(t) \/ Write(t)
  \/ \E l \in Block : LoadBlock(l) \/ MultiplyBlock(l) \/ WriteSub(l)

Done == host = "done"

-----------------------------------------------------------------------------
(* Which sizes a function is made for, and what it computes then.          *)

Fits ==
  CASE func = "CPU_STD"                        -> TRUE
    [] func \in {"CPU_TILED", "CPU_TILED_OMP", "CPU_TILED_BASIC"} ->
         row % TILESIZE = 0 /\ col % TILESIZE = 0
    [] func = "GPU_STD"  -> Accepted
    [] func = "GPU_VEC4" -> Accepted /\ row = col /\ col % 4 = 0
    [] func = "GPU_VEC8" -> Accepted /\ col % 8 = 0
    [] func = "GPU_DISC" -> Accepted /\ col % BLOCK_SIZE = 0

Right ==
  \A r \in 0..row - 1, c \in 0..Bcol - 1 :
    calculated[r * Bcol + c] = {<<r * col + k, k * Bcol + c>> : k \in 0..col - 1}

=============================================================================
