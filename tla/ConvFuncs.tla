-------------------------------- MODULE ConvFuncs ------------------------------
(***************************************************************************)
(* The convolutions of app/conv/convfuncs.cpp and cl/conv.cl: along the    *)
(* rows into temp, and then along the columns into the result.             *)
(*                                                                         *)
(* An element of temp or of the result is "right" if each tap of the       *)
(* filter, and nothing else, is applied to the element it belongs to and   *)
(* that one is right too, "wrong" if not, and "unset" before it is         *)
(* written; temp is not zeroed.  Elements are at their places in memory:   *)
(* the vector kernels count in fours.                                      *)
(*                                                                         *)
(* The filter is the default one, of five taps, or read from the file of   *)
(* -f: it may have any number of taps.  The functions of the CPU run over  *)
(* filter_length of them; the kernels have five written out, and read past *)
(* the end of a shorter filter.                                            *)
(*                                                                         *)
(* The items of one kernel do not touch what another one writes, so a      *)
(* kernel is one step; the kernels of a queue run in order (external).     *)
(***************************************************************************)
EXTENDS Team

VARIABLES
  func, row, col,  \* the function called, and the sides of the input
  filter_length,   \* how many taps the filter has that processFilter has read
  enabled,         \* gpu->getEnabled()
  calculated,      \* calculated->mem, or once a kernel is enqueued its buffer
  next,            \* the outer loop of each thread
  temp,
  stage            \* "call", then "rows", "columns" and "done"

convVars == <<temp, stage>>

half_length == (filter_length - 1) \div 2
Taps       == 0..filter_length - 1
KernelTaps == 0..4
Cells == 0..row * col - 1
Row(x)    == x \div col
Column(x) == x % col

TypeOK ==
  /\ enabled \in BOOLEAN
  /\ calculated \in [Cells -> {"unset", "right", "wrong"}]
  /\ temp \in [Cells -> {"unset", "right", "wrong"}]
  /\ next \in [Threads -> 0..row]
  /\ stage \in {"call", "rows", "columns", "done"}

Init ==
  /\ enabled \in BOOLEAN
  /\ calculated = [x \in Cells |-> "unset"]
  /\ temp = [x \in Cells |-> "unset"]
  /\ next = [t \in Threads |-> 0]
  /\ stage = "call"

Value(isRight) == IF isRight THEN "right" ELSE "wrong"

\* The places of a line of n elements on which the whole filter can be laid.
Reach(n) == half_length..n - (filter_length - half_length)

\* The value of element x of temp, if tap k is applied to in[k]; and of element x of
\* the result, if it is applied to element in[k] of temp.
AlongRow(x, in) ==
  Value(/\ DOMAIN in = Taps
        /\ Column(x) \in Reach(col)
        /\ \A k \in Taps : in[k] = x + k - half_length)
AlongColumn(x, in) ==
  Value(/\ DOMAIN in = Taps
        /\ \A k \in Taps :
             in[k] = x + (k - half_length) * col /\ in[k] \in Cells /\ temp[in[k]] = "right")

-----------------------------------------------------------------------------
(* The functions of the CPU.                                               *)

Members == IF func = "CPU_OMP" THEN Threads ELSE {0}

\* The rows that thread t computes in a loop over n of them, from the first one on.
FirstRow(t, first, n) == first + IF func = "CPU_OMP" THEN First(t, n) ELSE 0
EndRowInclusive(t, first, n) == first + 1 + IF func = "CPU_OMP" THEN End(t, n) ELSE n
EndRow(t, first, n)   == first + IF func = "CPU_OMP" THEN End(t, n) ELSE n

\* The second loop starts at row Edge and has no turns in an image of few rows.
Edge == half_length + 1
Inner(n) == Edge..n - Edge - 1
InnerRows == IF row >= 2 * Edge THEN row - 2 * Edge ELSE 0
Start(first, n) == next' = [t \in Threads |-> IF t \in Members THEN FirstRow(t, first, n) ELSE 0]

Horizontal ==
  /\ stage = "call"
  /\ func \in {"CPU_STD", "CPU_OMP"}
  /\ stage' = "rows"
  /\ Start(0, row)
  /\ UNCHANGED <<calculated, temp>>

RowOf(t) ==
  /\ stage = "rows"
  /\ func \in {"CPU_STD", "CPU_OMP"} /\ t \in Members
  /\ next[t] < EndRow(t, 0, row)
  /\ LET j == next[t] IN
       temp' = [x \in Cells |->
         IF Row(x) = j /\ Column(x) \in Inner(col)
         THEN AlongRow(x, [k \in Taps |-> j * col + (Column(x) + k - half_length)]) ELSE temp[x]]
  /\ next' = [next EXCEPT ![t] = @ + 1]
  /\ UNCHANGED <<calculated, stage>>

\* The team of the first loop ends before the second one begins.
VerticalNoWait ==
  /\ stage = "rows"
  /\ func \in {"CPU_STD", "CPU_OMP"}
  /\ next[0] = EndRow(0, 0, row)
  /\ stage' = "columns"
  /\ Start(Edge, InnerRows)
  /\ UNCHANGED <<calculated, temp>>

Vertical ==
  /\ stage = "rows"
  /\ func \in {"CPU_STD", "CPU_OMP"}
  /\ \A t \in Members : next[t] = EndRow(t, 0, row)
  /\ stage' = "columns"
  /\ Start(Edge, InnerRows)
  /\ UNCHANGED <<calculated, temp>>

ColumnsOf(t) ==
  /\ stage = "columns"
  /\ func \in {"CPU_STD", "CPU_OMP"} /\ t \in Members
  /\ next[t] < EndRow(t, Edge, InnerRows)
  /\ LET j == next[t] IN
       calculated' = [x \in Cells |->
         IF Row(x) = j
         THEN AlongColumn(x, [k \in Taps |-> (j + k - half_length) * col + Column(x)])
         ELSE calculated[x]]
  /\ next' = [next EXCEPT ![t] = @ + 1]
  /\ UNCHANGED <<temp, stage>>

Return ==
  /\ stage = "columns"
  /\ func \in {"CPU_STD", "CPU_OMP"}
  /\ \A t \in Members : next[t] = EndRow(t, Edge, InnerRows)
  /\ stage' = "done"
  /\ UNCHANGED <<calculated, next, temp>>

-----------------------------------------------------------------------------
(* The kernels.                                                            *)

BLOCKDIM == 4  \* ROWS_BLOCKDIM_X and the three others
argument == IF func = "GPU_STD" THEN 1 ELSE 4
globalWorkSize == <<col \div argument, row>>
Accepted == \A d \in 1..2 : globalWorkSize[d] > 0 /\ globalWorkSize[d] % BLOCKDIM = 0
Items == (0..globalWorkSize[1] - 1) \X (0..globalWorkSize[2] - 1)

\* Without a GPU nothing happens; a kernel that is refused leaves its buffer as it was.
Enqueue ==
  /\ stage = "call"
  /\ func \in {"GPU_STD", "GPU_VEC4", "GPU_COMB"}
  /\ stage' = CASE ~enabled            -> "done"
                [] enabled /\ func = "GPU_COMB" -> "columns"
                [] enabled /\ func # "GPU_COMB" -> "rows"
  /\ UNCHANGED <<calculated, next, temp>>

\* An item of a vector kernel stands for four elements.
width4 == col \div 4
offset(i) == i[2] * width4 + i[1]
Stores(items) == {s \in items \X (0..3) : 4 * offset(s[1]) + s[2] \in Cells}
At(items, x) == {s \in Stores(items) : 4 * offset(s[1]) + s[2] = x}
NotFirstNorLast(i) == i[1] > 0 /\ i[1] < width4 - 1
HasRows(i) == i[2] > 1 /\ i[2] < row - 2

\* in1, in2 and in3 are twelve elements one after the other.
convRows5Vec4(o, l, k) == 4 * (o - 1) + l + k + 2
convCols5Vec4(o, l, k) == 4 * (o + (k - 2) * width4) + l

Rows ==
  /\ stage = "rows"
  /\ func \in {"GPU_STD", "GPU_VEC4"}
  /\ stage' = "columns"
  /\ temp' = [x \in Cells |->
       CASE ~Accepted -> temp[x]
         [] Accepted /\ func = "GPU_STD" ->
              IF Column(x) > 1 /\ Column(x) < col - 2
              THEN AlongRow(x, [k \in KernelTaps |-> x + k - 2]) ELSE temp[x]
         [] Accepted /\ func = "GPU_VEC4" ->
              LET s == At({i \in Items : NotFirstNorLast(i)}, x) IN
              IF s = {} THEN temp[x]
              ELSE LET w == CHOOSE w \in s : TRUE IN
                   AlongRow(x, [k \in KernelTaps |-> convRows5Vec4(offset(w[1]), w[2], k)])]
  /\ UNCHANGED <<calculated, next>>

\* convCombined5Vec4 computes the five rows an element needs itself: the first two
\* lanes from the vector and the one before, the other two from the one after.
InCombined(o, l, v, k) ==
  LET c == o + (v - 2) * width4 IN
  IF l < 2 THEN 4 * (c - 1) + (l + k + 2) ELSE 4 * c + (l + k - 2)
Combined(x, o, l) ==
  Value(/\ Taps = KernelTaps
        /\ Column(x) \in Reach(col) /\ Row(x) \in Reach(row)
        /\ \A v, k \in KernelTaps :
             InCombined(o, l, v, k) = x + (v - half_length) * col + (k - half_length))

Columns ==
  /\ stage = "columns"
  /\ func \in {"GPU_STD", "GPU_VEC4", "GPU_COMB"}
  /\ stage' = "done"
  /\ calculated' = [x \in Cells |->
       CASE ~Accepted -> "unset"
         [] Accepted /\ func = "GPU_STD" ->
              IF Row(x) > 1 /\ Row(x) < row - 2
              THEN AlongColumn(x, [k \in KernelTaps |-> x + (k - 2) * col]) ELSE "unset"
         [] Accepted /\ func # "GPU_STD" ->
              LET s == At({i \in Items : HasRows(i) /\ (func = "GPU_COMB" => NotFirstNorLast(i))}, x) IN
              IF s = {} THEN "unset"
              ELSE LET w == CHOOSE w \in s : TRUE  o == offset(w[1]) IN
                   IF func = "GPU_COMB" THEN Combined(x, o, w[2])
                   ELSE AlongColumn(x, [k \in KernelTaps |-> convCols5Vec4(o, w[2], k)])]
  /\ UNCHANGED <<next, temp>>

-----------------------------------------------------------------------------

Next ==
  \/ Horizontal \/ Vertical \/ Return \/ Enqueue \/ Rows \/ Columns
  \/ \E t \in Threads : RowOf(t) \/ ColumnsOf(t)

Done == stage = "done"

\* The sizes the kernels are made for: the work-groups and the vectors divide them.
FitsSides == func \in {"GPU_STD", "GPU_VEC4", "GPU_COMB"} =>
               Accepted /\ (func # "GPU_STD" => col % 4 = 0)

\* The filters the functions are made for: the kernels have five taps; the CPU leaves out
\* Edge rows and columns, which must not be more than compare leaves out.
FitsFilter == IF func \in {"CPU_STD", "CPU_OMP"} THEN half_length <= 3 ELSE Taps = KernelTaps

\* What Conv::compare looks at.
Compared == {x \in Cells : Row(x) \in 4..row - 5 /\ Column(x) \in 4..col - 5}
ComparedRight == \A x \in Compared : calculated[x] = "right"

=============================================================================
