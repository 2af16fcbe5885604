-------------------------- MODULE Algorithms_proofs ---------------------------
(***************************************************************************)
(* Theorems about every call of a function of the three tables, for every  *)
(* size and every number of threads: a convolution gives every element     *)
(* that is compared its sum, a product gives every element its products,   *)
(* each once, and the variables keep their types.                          *)
(***************************************************************************)
EXTENDS Scan_proofs, FiniteSetTheorems

-----------------------------------------------------------------------------
(* The convolutions.                                                       *)

\* The row and the column of an index of the image.
LEMMA Places ==
  ASSUME row \in Nat, col \in Nat \ {0}, NEW x \in Conv!Cells
  PROVE  /\ x \in Nat
         /\ Conv!Row(x) \in 0..row - 1 /\ Conv!Column(x) \in 0..col - 1
         /\ x = Conv!Row(x) * col + Conv!Column(x)
<1> DEFINE a == x \div col
           b == x % col
<1>1. row * col \in Nat /\ x \in Nat /\ x < row * col
  <2>1. row * col \in Nat
    OBVIOUS
  <2> QED
    BY <2>1 DEF Conv!Cells
<1>2. a \in Nat /\ b \in 0..col - 1 /\ x = col * a + b
  <2>1. \A y \in Nat : y \div col \in Nat /\ y % col \in 0..col - 1
                       /\ y = col * (y \div col) + (y % col)
    OBVIOUS
  <2> QED
    BY <1>1, <2>1
<1>3. Conv!Row(x) = a /\ Conv!Column(x) = b
  BY DEF Conv!Row, Conv!Column
<1> HIDE DEF a, b
<1>4. a < row
  <2> SUFFICES ASSUME row <= a PROVE FALSE
    BY <1>2
  <2>1. row * col <= a * col
    BY <1>2, Products
  <2> QED
    BY <1>1, <1>2, <2>1
<1> QED
  BY <1>1, <1>2, <1>3, <1>4

\* The index of a row and a column.
LEMMA PlaceOf ==
  ASSUME row \in Nat, col \in Nat \ {0}, NEW r \in 0..row - 1, NEW c \in 0..col - 1
  PROVE  /\ r * col + c \in Conv!Cells
         /\ Conv!Row(r * col + c) = r /\ Conv!Column(r * col + c) = c
<1>1. Conv!Row(r * col + c) = r /\ Conv!Column(r * col + c) = c
  BY Quotient DEF Conv!Row, Conv!Column
<1>2. (r + 1) * col <= row * col /\ (r + 1) * col = r * col + col
  <2>1. r + 1 \in Nat /\ r + 1 <= row
    OBVIOUS
  <2>2. (r + 1) * col <= row * col
    BY <2>1, Products
  <2> QED
    BY <2>2
<1>3. r * col \in Nat /\ row * col \in Nat
  OBVIOUS
<1> QED
  BY <1>1, <1>2, <1>3 DEF Conv!Cells

-----------------------------------------------------------------------------
(* The invariant of a convolution.                                         *)

ConvGpu == {"GPU_STD", "GPU_VEC4", "GPU_COMB"}

\* A thread has turns of its rows left to take, and has got those before next right.
FinishedRight(mem, u, first, n) ==
  /\ next[u] \in Conv!FirstRow(u, first, n)..Conv!EndRow(u, first, n)
  /\ \A x \in Conv!Cells :
       Conv!Row(x) \in Conv!FirstRow(u, first, n)..next[u] - 1 /\ Conv!Column(x) \in Conv!Inner(col)
       => mem[x] = "right"

\* What ConvRight says of a function that has returned.
ConvFits  == Conv!FitsSides /\ Conv!FitsFilter
ConvFinal == ConvFits /\ (func \notin ConvCpu => enabled) => Conv!ComparedRight

\* The inputs the functions are called with.
ConvShape ==
  /\ row \in Nat \ {0} /\ col \in Nat \ {0} /\ filter_length \in Nat \ {0}
  /\ func \in ConvCpu => row >= Conv!Edge /\ col >= Conv!Edge

\* What the passes have done so far.  The rows of a pass come out right as the threads
\* take their turns; the columns rest on a pass over the rows that is over, for which the
\* kernels have the columns from 4 on that the host compares.
ConvInv ==
  /\ ConvShape
  /\ Conv!TypeOK
  /\ func \in ConvCpu /\ stage = "rows" => \A t1 \in Conv!Members : FinishedRight(temp, t1, 0, row)
  /\ func \in ConvCpu /\ stage = "columns" =>
       /\ \A x \in Conv!Cells : Conv!Column(x) \in Conv!Inner(col) => temp[x] = "right"
       /\ \A t1 \in Conv!Members : FinishedRight(calculated, t1, Conv!Edge, Conv!InnerRows)
  /\ func \in {"GPU_STD", "GPU_VEC4"} /\ stage = "columns" /\ ConvFits =>
       \A x \in Conv!Cells : Conv!Column(x) \in 4..col - 5 => temp[x] = "right"
  /\ stage = "done" => ConvFinal

\* What depends on the input only.
LEMMA SameShape ==
  ASSUME func' = func, row' = row, col' = col, filter_length' = filter_length
  PROVE  /\ Conv!Cells' = Conv!Cells /\ Conv!Members' = Conv!Members
         /\ Conv!FitsSides' = Conv!FitsSides /\ Conv!FitsFilter' = Conv!FitsFilter
         /\ Conv!Compared' = Conv!Compared /\ ConvShape' = ConvShape
         /\ Conv!Edge' = Conv!Edge /\ Conv!InnerRows' = Conv!InnerRows
         /\ (Conv!Inner(col))' = Conv!Inner(col)
         /\ \A x : Conv!Row(x)' = Conv!Row(x) /\ Conv!Column(x)' = Conv!Column(x)
         /\ \A t1, a, n : /\ Conv!FirstRow(t1, a, n)' = Conv!FirstRow(t1, a, n)
                         /\ Conv!EndRow(t1, a, n)' = Conv!EndRow(t1, a, n)
<1>1. Conv!Cells' = Conv!Cells
  BY DEF Conv!Cells
<1>2. \A x : Conv!Row(x)' = Conv!Row(x) /\ Conv!Column(x)' = Conv!Column(x)
  BY DEF Conv!Row, Conv!Column
<1>3. Conv!Compared' = Conv!Compared
  BY <1>1, <1>2 DEF Conv!Compared
<1>4. Conv!Members' = Conv!Members
  BY DEF Conv!Members, Conv!Threads
<1>5. Conv!FitsSides' = Conv!FitsSides
  BY DEF Conv!FitsSides, Conv!Accepted, Conv!globalWorkSize, Conv!argument, Conv!BLOCKDIM
<1>6. Conv!half_length' = Conv!half_length /\ Conv!Taps' = Conv!Taps
  BY DEF Conv!half_length, Conv!Taps
<1>7. Conv!FitsFilter' = Conv!FitsFilter
  BY <1>6 DEF Conv!FitsFilter, Conv!KernelTaps
<1>8. Conv!Edge' = Conv!Edge
  BY <1>6 DEF Conv!Edge
<1>9. Conv!InnerRows' = Conv!InnerRows /\ (Conv!Inner(col))' = Conv!Inner(col)
  BY <1>8 DEF Conv!InnerRows, Conv!Inner
<1>10. ConvShape' = ConvShape
  BY <1>8 DEF ConvShape
<1>11. \A t1, a, n : /\ Conv!FirstRow(t1, a, n)' = Conv!FirstRow(t1, a, n)
                     /\ Conv!EndRow(t1, a, n)' = Conv!EndRow(t1, a, n)
  BY DEF Conv!FirstRow, Conv!EndRow, Conv!First, Conv!End
<1> QED
  BY <1>1, <1>2, <1>3, <1>4, <1>5, <1>7, <1>8, <1>9, <1>10, <1>11

\* How the rows are divided.
LEMMA RowRanges ==
  ASSUME NEW t1 \in Conv!Members, NEW a \in Nat, NEW n \in Nat
  PROVE  /\ Conv!FirstRow(t1, a, n) \in a..a + n /\ Conv!EndRow(t1, a, n) \in a..a + n
         /\ Conv!FirstRow(t1, a, n) <= Conv!EndRow(t1, a, n)
<1>1. CASE func = "CPU_OMP"
  <2>1. t1 \in 0..nthreads - 1 /\ t1 \in Nat /\ t1 + 1 \in Nat /\ 0 <= t1 /\ t1 + 1 <= nthreads
    BY <1>1, TeamAssumption DEF Conv!Members, Conv!Threads
  <2>2. /\ Conv!FirstRow(t1, a, n) = a + First(t1, n) /\ Conv!EndRow(t1, a, n) = a + First(t1 + 1, n)
    BY <1>1 DEF Conv!FirstRow, Conv!EndRow, Conv!First, Conv!End, First
  <2>3. First(t1, n) \in Nat /\ First(t1 + 1, n) \in Nat
    BY <2>1, FirstNat
  <2>4. First(t1, n) <= First(t1 + 1, n) /\ First(t1 + 1, n) <= n
    BY <2>1, FirstMonotone, FirstEnds, TeamAssumption
  <2> QED
    BY <2>2, <2>3, <2>4
<1>2. CASE func # "CPU_OMP"
  BY <1>2 DEF Conv!FirstRow, Conv!EndRow
<1> QED
  BY <1>1, <1>2

LEMMA RowsCovered ==
  ASSUME NEW a \in Nat, NEW n \in Nat, NEW r \in a..a + n - 1
  PROVE  \E t1 \in Conv!Members : r \in Conv!FirstRow(t1, a, n)..Conv!EndRow(t1, a, n) - 1
<1>1. CASE func = "CPU_OMP"
  <2>1. r - a \in 0..n - 1
    OBVIOUS
  <2>2. PICK t1 \in Threads : First(t1, n) <= r - a /\ r - a < End(t1, n)
    BY <2>1, FirstCovers
  <2>3. t1 \in Conv!Members /\ t1 \in Nat /\ t1 + 1 \in Nat
    BY <1>1, TeamAssumption DEF Conv!Members, Conv!Threads, Threads
  <2>4. /\ Conv!FirstRow(t1, a, n) = a + First(t1, n) /\ Conv!EndRow(t1, a, n) = a + End(t1, n)
    BY <1>1 DEF Conv!FirstRow, Conv!EndRow, Conv!First, Conv!End, First, End
  <2>5. First(t1, n) \in Nat /\ End(t1, n) \in Nat
    BY <2>3, FirstNat DEF End
  <2>6. r \in (a + First(t1, n))..(a + End(t1, n)) - 1
    BY <2>1, <2>2, <2>5
  <2> QED
    BY <2>3, <2>4, <2>6
<1>2. CASE func # "CPU_OMP"
  BY <1>2 DEF Conv!FirstRow, Conv!EndRow, Conv!Members
<1> QED
  BY <1>1, <1>2

LEMMA ValueTypes == \A r : Conv!Value(r) \in {"right", "wrong"}
BY DEF Conv!Value

\* The places on which the filter can be laid, and the ones the CPU lays it on.
LEMMA ConvFacts ==
  ASSUME ConvShape
  PROVE  /\ Conv!half_length \in Nat /\ Conv!Edge = Conv!half_length + 1
         /\ Conv!Taps = 0..filter_length - 1
         /\ filter_length - Conv!half_length \in 1..Conv!half_length + 2
         /\ \A n \in Nat : /\ Conv!Inner(n) = Conv!Edge..n - Conv!Edge - 1
                           /\ Conv!Inner(n) \subseteq Conv!Reach(n)
<1> DEFINE h == Conv!half_length
<1>1. filter_length \in Nat /\ filter_length >= 1 /\ h = (filter_length - 1) \div 2
  BY DEF ConvShape, Conv!half_length
<1>2. Conv!Edge = h + 1 /\ Conv!Taps = 0..filter_length - 1
  BY DEF Conv!Edge, Conv!Taps
<1> HIDE DEF h
<1>3. h \in Nat /\ 2 * h <= filter_length - 1 /\ filter_length - 1 <= 2 * h + 1
  BY <1>1
<1>4. ASSUME NEW n \in Nat
      PROVE  /\ Conv!Inner(n) = Conv!Edge..n - Conv!Edge - 1
             /\ Conv!Inner(n) \subseteq Conv!Reach(n)
  <2>1. Conv!Inner(n) = Conv!Edge..n - Conv!Edge - 1
    BY DEF Conv!Inner
  <2>2. Conv!Reach(n) = h..n - (filter_length - h)
    BY DEF Conv!Reach, h
  <2> QED
    BY <1>1, <1>2, <1>3, <2>1, <2>2
<1>5. filter_length - h \in 1..h + 2
  BY <1>1, <1>3
<1> QED
  BY <1>2, <1>3, <1>4, <1>5 DEF h

\* The rows of the second loop of the CPU.
LEMMA InnerRowsFacts ==
  ASSUME ConvShape, func \in ConvCpu
  PROVE  /\ Conv!Edge \in Nat /\ Conv!InnerRows \in Nat /\ Conv!Edge + Conv!InnerRows <= row
         /\ \A r \in Conv!Edge..Conv!Edge + Conv!InnerRows - 1 : r \in Conv!Reach(row)
         /\ Conv!Inner(row) \subseteq Conv!Edge..Conv!Edge + Conv!InnerRows - 1
<1>1. Conv!Edge \in Nat /\ row \in Nat /\ row >= Conv!Edge
  <2>1. Conv!half_length \in Nat /\ Conv!Edge = Conv!half_length + 1
    BY ConvFacts
  <2>2. row \in Nat /\ row >= Conv!Edge
    BY DEF ConvShape
  <2> QED
    BY <2>1, <2>2
<1>2. /\ Conv!Inner(row) = Conv!Edge..row - Conv!Edge - 1
      /\ Conv!Inner(row) \subseteq Conv!Reach(row)
  BY <1>1, ConvFacts
<1>3. Conv!InnerRows = IF row >= 2 * Conv!Edge THEN row - 2 * Conv!Edge ELSE 0
  BY DEF Conv!InnerRows
<1> QED
  BY <1>1, <1>2, <1>3

\* The filters the kernels are made for.
LEMMA FiveTaps ==
  ASSUME ConvShape, Conv!FitsFilter, func \notin ConvCpu
  PROVE  /\ filter_length = 5 /\ Conv!half_length = 2
         /\ Conv!Taps = 0..4 /\ Conv!KernelTaps = 0..4
         /\ \A n \in Nat : Conv!Reach(n) = 2..n - 3
<1>1. Conv!Taps = 0..4 /\ Conv!KernelTaps = 0..4
  BY DEF Conv!FitsFilter, Conv!KernelTaps, ConvCpu
<1>2. filter_length = 5
  <2>1. filter_length \in Nat /\ filter_length >= 1 /\ 0..filter_length - 1 = 0..4
    BY <1>1 DEF ConvShape, Conv!Taps
  <2>2. filter_length - 1 \in 0..4 /\ 4 \in 0..filter_length - 1
    BY <2>1
  <2> QED
    BY <2>1, <2>2
<1>3. Conv!half_length = 2
  <2>1. (5 - 1) \div 2 = 2
    OBVIOUS
  <2> QED
    BY <1>2, <2>1 DEF Conv!half_length
<1>4. \A n \in Nat : Conv!Reach(n) = 2..n - 3
  BY <1>2, <1>3 DEF Conv!Reach
<1> QED
  BY <1>1, <1>2, <1>3, <1>4

LEMMA RowRight ==
  ASSUME NEW x, NEW in, DOMAIN in = Conv!Taps, Conv!Column(x) \in Conv!Reach(col),
         \A k \in Conv!Taps : in[k] = x + k - Conv!half_length
  PROVE  Conv!AlongRow(x, in) = "right"
BY DEF Conv!AlongRow, Conv!Value

\* The elements above and below one on which the filter can be laid.
LEMMA Neighbours ==
  ASSUME ConvShape, NEW x \in Conv!Cells, Conv!Row(x) \in Conv!Reach(row), NEW k \in Conv!Taps
  PROVE  /\ x + (k - Conv!half_length) * col
              = (Conv!Row(x) + k - Conv!half_length) * col + Conv!Column(x)
         /\ x + (k - Conv!half_length) * col \in Conv!Cells
         /\ Conv!Column(x + (k - Conv!half_length) * col) = Conv!Column(x)
<1> DEFINE r == Conv!Row(x)
           c == Conv!Column(x)
           h == Conv!half_length
<1>1. row \in Nat /\ col \in Nat \ {0} /\ filter_length \in Nat /\ h \in Nat /\ k \in 0..filter_length - 1
  BY ConvFacts DEF ConvShape
<1>2. r \in 0..row - 1 /\ c \in 0..col - 1 /\ x = r * col + c
  BY <1>1, Places
<1>3. r \in h..row - (filter_length - h)
  BY DEF Conv!Reach
<1> HIDE DEF r, c, h
<1>4. r + k - h \in 0..row - 1
  BY <1>1, <1>2, <1>3
<1>5. (r + k - h) * col + c = (r * col + c) + (k - h) * col
  BY <1>1, <1>2
<1>6. /\ (r + k - h) * col + c \in Conv!Cells
      /\ Conv!Column((r + k - h) * col + c) = c
  BY <1>1, <1>2, <1>4, PlaceOf
<1> QED
  BY <1>2, <1>5, <1>6 DEF r, c, h

LEMMA ColumnRight ==
  ASSUME ConvShape, NEW x \in Conv!Cells, NEW in, DOMAIN in = Conv!Taps,
         Conv!Row(x) \in Conv!Reach(row),
         \A k \in Conv!Taps : in[k] = x + (k - Conv!half_length) * col,
         \A y \in Conv!Cells : Conv!Column(y) = Conv!Column(x) => temp[y] = "right"
  PROVE  Conv!AlongColumn(x, in) = "right"
<1>1. ASSUME NEW k \in Conv!Taps
      PROVE  /\ in[k] = x + (k - Conv!half_length) * col
             /\ in[k] \in Conv!Cells /\ temp[in[k]] = "right"
  <2>1. in[k] \in Conv!Cells /\ Conv!Column(in[k]) = Conv!Column(x)
    BY Neighbours
  <2> QED
    BY <2>1
<1> QED
  BY <1>1 DEF Conv!AlongColumn, Conv!Value

-----------------------------------------------------------------------------

LEMMA ConvInitially ==
  ASSUME ConvShape, Conv!Init
  PROVE  ConvInv
<1>1. stage = "call" /\ Conv!TypeOK
  <2>1. row \in Nat
    BY DEF ConvShape
  <2> QED
    BY <2>1 DEF Conv!Init, Conv!TypeOK
<1> QED
  BY <1>1 DEF ConvInv

LEMMA StartRows ==
  ASSUME ConvInv, NEW a \in Nat, NEW n \in Nat, a + n <= row, Conv!Start(a, n)
  PROVE  /\ next' \in [Conv!Threads -> 0..row]
         /\ \A t1 \in Conv!Members : next'[t1] = Conv!FirstRow(t1, a, n)
<1>1. next' = [t1 \in Conv!Threads |-> IF t1 \in Conv!Members THEN Conv!FirstRow(t1, a, n) ELSE 0]
  BY DEF Conv!Start
<1>2. row \in Nat
  BY DEF ConvInv, ConvShape
<1>3. ASSUME NEW t1 \in Conv!Members PROVE Conv!FirstRow(t1, a, n) \in 0..row
  <2>1. Conv!FirstRow(t1, a, n) \in a..a + n
    BY RowRanges
  <2> QED
    BY <1>2, <2>1
<1>4. Conv!Members \subseteq Conv!Threads
  BY TeamAssumption DEF Conv!Members, Conv!Threads
<1> QED
  BY <1>1, <1>2, <1>3, <1>4

LEMMA NextRow ==
  ASSUME ConvInv, NEW a \in Nat, NEW n \in Nat, a + n <= row, NEW t1 \in Conv!Members,
         next[t1] \in Conv!FirstRow(t1, a, n)..Conv!EndRow(t1, a, n),
         next[t1] < Conv!EndRow(t1, a, n), next' = [next EXCEPT ![t1] = @ + 1]
  PROVE  /\ next' \in [Conv!Threads -> 0..row]
         /\ next[t1] \in Nat /\ a <= next[t1] /\ next[t1] < a + n
         /\ next'[t1] = next[t1] + 1
         /\ next'[t1] \in Conv!FirstRow(t1, a, n)..Conv!EndRow(t1, a, n)
         /\ \A u \in Conv!Threads : u # t1 => next'[u] = next[u]
<1>1. next \in [Conv!Threads -> 0..row] /\ row \in Nat
  BY DEF ConvInv, ConvShape, Conv!TypeOK
<1>2. t1 \in Conv!Threads
  BY TeamAssumption DEF Conv!Members, Conv!Threads
<1>3. /\ Conv!FirstRow(t1, a, n) \in a..a + n /\ Conv!EndRow(t1, a, n) \in a..a + n
      /\ Conv!FirstRow(t1, a, n) <= Conv!EndRow(t1, a, n)
  BY RowRanges
<1>4. next'[t1] = next[t1] + 1
  BY <1>1, <1>2
<1> DEFINE y == next[t1]
           b == Conv!FirstRow(t1, a, n)
           e == Conv!EndRow(t1, a, n)
<1>5. b \in a..a + n /\ e \in a..a + n /\ y \in b..e /\ y < e /\ y \in 0..row
  BY <1>1, <1>2, <1>3
<1> HIDE DEF y, b, e
<1>6. y \in Nat /\ a <= y /\ y < a + n /\ y + 1 \in 0..row /\ y + 1 \in b..e
  BY <1>1, <1>5
<1> QED
  BY <1>1, <1>2, <1>4, <1>6 DEF y, b, e

\* One row of the first loop.
LEMMA RowOfStep ==
  ASSUME ConvInv, NEW t1 \in Conv!Threads, Conv!RowOf(t1), row' = row, col' = col, func' = func,
         filter_length' = filter_length, enabled' = enabled
  PROVE  ConvInv'
<1>1. /\ ConvShape /\ row \in Nat /\ col \in Nat \ {0}
      /\ calculated \in [Conv!Cells -> {"unset", "right", "wrong"}]
      /\ temp \in [Conv!Cells -> {"unset", "right", "wrong"}]
      /\ enabled \in BOOLEAN
  BY DEF ConvInv, ConvShape, Conv!TypeOK
<1>2. /\ stage = "rows" /\ func \in ConvCpu /\ t1 \in Conv!Members
      /\ next[t1] < Conv!EndRow(t1, 0, row)
      /\ next' = [next EXCEPT ![t1] = @ + 1]
      /\ calculated' = calculated /\ stage' = stage
  BY DEF Conv!RowOf, ConvCpu
<1> DEFINE j == next[t1]
           in(x) == [k \in Conv!Taps |-> j * col + (Conv!Column(x) + k - Conv!half_length)]
           here(x) == Conv!Row(x) = j /\ Conv!Column(x) \in Conv!Inner(col)
<1>3. temp' = [x \in Conv!Cells |-> IF here(x) THEN Conv!AlongRow(x, in(x)) ELSE temp[x]]
  BY DEF Conv!RowOf
<1>4. \A u \in Conv!Members : FinishedRight(temp, u, 0, row)
  BY <1>2 DEF ConvInv
<1>5. /\ next' \in [Conv!Threads -> 0..row]
      /\ j \in 0..row - 1 /\ next'[t1] = j + 1
      /\ next'[t1] \in Conv!FirstRow(t1, 0, row)..Conv!EndRow(t1, 0, row)
      /\ \A u \in Conv!Threads : u # t1 => next'[u] = next[u]
  <2>1. j \in Conv!FirstRow(t1, 0, row)..Conv!EndRow(t1, 0, row)
    BY <1>2, <1>4 DEF FinishedRight
  <2>2. 0 \in Nat /\ 0 + row <= row /\ j < Conv!EndRow(t1, 0, row)
    BY <1>1, <1>2
  <2> HIDE DEF j
  <2>3. /\ next' \in [Conv!Threads -> 0..row]
        /\ next[t1] \in Nat /\ next[t1] < 0 + row /\ next'[t1] = next[t1] + 1
        /\ next'[t1] \in Conv!FirstRow(t1, 0, row)..Conv!EndRow(t1, 0, row)
        /\ \A u \in Conv!Threads : u # t1 => next'[u] = next[u]
    BY <1>1, <1>2, <2>1, <2>2, NextRow DEF j
  <2> QED
    BY <1>1, <2>3 DEF j
<1>6. ASSUME NEW x \in Conv!Cells, here(x) PROVE Conv!AlongRow(x, in(x)) = "right"
  <2>1. x = j * col + Conv!Column(x) /\ Conv!Column(x) \in 0..col - 1
    BY <1>1, <1>6, Places
  <2>2. Conv!Column(x) \in Conv!Reach(col)
    BY <1>1, <1>6, ConvFacts
  <2>3. \A k \in Conv!Taps : in(x)[k] = x + k - Conv!half_length
    <3>1. \A k \in Conv!Taps : in(x)[k] = j * col + (Conv!Column(x) + k - Conv!half_length)
      OBVIOUS
    <3>2. j * col \in Int /\ Conv!half_length \in Nat /\ Conv!Taps \subseteq Int
      <4>1. Conv!half_length \in Nat /\ Conv!Taps = 0..filter_length - 1
        BY <1>1, ConvFacts
      <4>2. j \in Int /\ col \in Int
        BY <1>1, <1>5
      <4> HIDE DEF j
      <4> QED
        BY <4>1, <4>2
    <3> QED
      BY <2>1, <3>1, <3>2
  <2>4. DOMAIN in(x) = Conv!Taps
    OBVIOUS
  <2> HIDE DEF in
  <2> QED
    BY <2>2, <2>3, <2>4, RowRight
<1> HIDE DEF in
<1>7. temp' \in [Conv!Cells -> {"unset", "right", "wrong"}]
  BY <1>1, <1>3, ValueTypes DEF Conv!AlongRow
<1>8. \A x \in Conv!Cells : here(x) \/ temp[x] = "right" => temp'[x] = "right"
  BY <1>3, <1>6
<1>9. ASSUME NEW u \in Conv!Members, NEW x \in Conv!Cells,
             Conv!Row(x) \in Conv!FirstRow(u, 0, row)..next'[u] - 1,
             Conv!Column(x) \in Conv!Inner(col)
      PROVE  temp'[x] = "right"
  <2>1. u \in Conv!Threads
    BY TeamAssumption DEF Conv!Members, Conv!Threads
  <2>2. next'[u] = next[u] \/ (u = t1 /\ next'[u] = j + 1)
    BY <1>5, <2>1
  <2>3. Conv!Row(x) \in Conv!FirstRow(u, 0, row)..next[u] - 1 \/ (u = t1 /\ Conv!Row(x) = j)
    <3>1. Conv!Row(x) \in Int /\ Conv!FirstRow(u, 0, row) \in Int
      BY <1>1, Places, RowRanges
    <3> QED
      BY <1>5, <1>9, <2>2, <3>1
  <2>4. Conv!Row(x) \in Conv!FirstRow(u, 0, row)..next[u] - 1 => temp[x] = "right"
    BY <1>4, <1>9 DEF FinishedRight
  <2> QED
    BY <1>8, <1>9, <2>3, <2>4
<1>10. ASSUME NEW u \in Conv!Members
       PROVE  next'[u] \in Conv!FirstRow(u, 0, row)..Conv!EndRow(u, 0, row)
  <2>1. u \in Conv!Threads
    BY TeamAssumption DEF Conv!Members, Conv!Threads
  <2> QED
    BY <1>4, <1>5, <2>1 DEF FinishedRight
<1>11. Conv!TypeOK'
  BY <1>1, <1>2, <1>5, <1>7, SameShape DEF Conv!TypeOK, Conv!Threads
<1>12. \A u \in Conv!Members' : FinishedRight(temp, u, 0, row)'
  BY <1>9, <1>10, SameShape DEF FinishedRight
<1> QED
  BY <1>1, <1>2, <1>11, <1>12, SameShape DEF ConvInv, ConvCpu

\* One row of the second loop.
LEMMA ColumnsOfStep ==
  ASSUME ConvInv, NEW t1 \in Conv!Threads, Conv!ColumnsOf(t1), row' = row, col' = col, func' = func,
         filter_length' = filter_length, enabled' = enabled
  PROVE  ConvInv'
<1>1. /\ ConvShape /\ row \in Nat /\ col \in Nat \ {0}
      /\ calculated \in [Conv!Cells -> {"unset", "right", "wrong"}]
      /\ temp \in [Conv!Cells -> {"unset", "right", "wrong"}]
      /\ enabled \in BOOLEAN
  BY DEF ConvInv, ConvShape, Conv!TypeOK
<1>2. /\ stage = "columns" /\ func \in ConvCpu /\ t1 \in Conv!Members
      /\ next[t1] < Conv!EndRow(t1, Conv!Edge, Conv!InnerRows)
      /\ next' = [next EXCEPT ![t1] = @ + 1]
      /\ temp' = temp /\ stage' = stage
  BY DEF Conv!ColumnsOf, ConvCpu
<1> DEFINE j == next[t1]
           in(x) == [k \in Conv!Taps |-> (j + k - Conv!half_length) * col + Conv!Column(x)]
           here(x) == Conv!Row(x) = j
<1>3. calculated' = [x \in Conv!Cells |->
        IF here(x) THEN Conv!AlongColumn(x, in(x)) ELSE calculated[x]]
  BY DEF Conv!ColumnsOf
<1>4. /\ \A u \in Conv!Members : FinishedRight(calculated, u, Conv!Edge, Conv!InnerRows)
      /\ \A x \in Conv!Cells : Conv!Column(x) \in Conv!Inner(col) => temp[x] = "right"
  BY <1>2 DEF ConvInv
<1>5. /\ next' \in [Conv!Threads -> 0..row]
      /\ j \in Conv!Edge..Conv!Edge + Conv!InnerRows - 1 /\ next'[t1] = j + 1
      /\ next'[t1] \in Conv!FirstRow(t1, Conv!Edge, Conv!InnerRows)..Conv!EndRow(t1, Conv!Edge, Conv!InnerRows)
      /\ \A u \in Conv!Threads : u # t1 => next'[u] = next[u]
  <2>1. j \in Conv!FirstRow(t1, Conv!Edge, Conv!InnerRows)..Conv!EndRow(t1, Conv!Edge, Conv!InnerRows)
    BY <1>2, <1>4 DEF FinishedRight
  <2> DEFINE a == Conv!Edge
             n == Conv!InnerRows
  <2>2. a \in Nat /\ n \in Nat /\ a + n <= row /\ a = Conv!Edge /\ n = Conv!InnerRows
    BY <1>1, <1>2, InnerRowsFacts
  <2> HIDE DEF j, a, n
  <2>3. /\ next[t1] \in Conv!FirstRow(t1, a, n)..Conv!EndRow(t1, a, n)
        /\ next[t1] < Conv!EndRow(t1, a, n)
        /\ t1 \in Conv!Members /\ next' = [next EXCEPT ![t1] = @ + 1]
    BY <1>2, <2>1, <2>2 DEF j
  <2>4. /\ next' \in [Conv!Threads -> 0..row]
        /\ next'[t1] \in Conv!FirstRow(t1, a, n)..Conv!EndRow(t1, a, n)
    BY <1>1, <2>2, <2>3, NextRow
  <2>5. next[t1] \in Nat /\ a <= next[t1]
    BY <1>1, <2>2, <2>3, NextRow
  <2>6. next[t1] < a + n
    BY <1>1, <2>2, <2>3, NextRow
  <2>7. next'[t1] = next[t1] + 1 /\ \A u \in Conv!Threads : u # t1 => next'[u] = next[u]
    BY <1>1, <2>2, <2>3, NextRow
  <2> QED
    BY <1>1, <2>2, <2>4, <2>5, <2>6, <2>7 DEF j
<1>6. ASSUME NEW x \in Conv!Cells, here(x), Conv!Column(x) \in Conv!Inner(col)
      PROVE  Conv!AlongColumn(x, in(x)) = "right"
  <2>1. x = j * col + Conv!Column(x) /\ Conv!Column(x) \in 0..col - 1
    BY <1>1, <1>6, Places
  <2>2. Conv!Row(x) \in Conv!Reach(row)
    BY <1>1, <1>2, <1>5, <1>6, InnerRowsFacts
  <2>3. \A k \in Conv!Taps : in(x)[k] = x + (k - Conv!half_length) * col
    <3>1. \A k \in Conv!Taps : in(x)[k] = (j + k - Conv!half_length) * col + Conv!Column(x)
      OBVIOUS
    <3>2. \A k \in Conv!Taps : x + (k - Conv!half_length) * col
                                 = (j + k - Conv!half_length) * col + Conv!Column(x)
      BY <1>1, <1>6, <2>2, Neighbours
    <3> QED
      BY <3>1, <3>2
  <2>4. \A y \in Conv!Cells : Conv!Column(y) = Conv!Column(x) => temp[y] = "right"
    BY <1>4, <1>6
  <2>5. DOMAIN in(x) = Conv!Taps
    OBVIOUS
  <2> HIDE DEF in
  <2> QED
    BY <1>1, <2>2, <2>3, <2>4, <2>5, ColumnRight
<1> HIDE DEF in
<1>7. calculated' \in [Conv!Cells -> {"unset", "right", "wrong"}]
  BY <1>1, <1>3, ValueTypes DEF Conv!AlongColumn
<1>8. \A x \in Conv!Cells : (here(x) /\ Conv!Column(x) \in Conv!Inner(col))
                             \/ (~here(x) /\ calculated[x] = "right") => calculated'[x] = "right"
  BY <1>3, <1>6
<1>9. ASSUME NEW u \in Conv!Members, NEW x \in Conv!Cells,
             Conv!Row(x) \in Conv!FirstRow(u, Conv!Edge, Conv!InnerRows)..next'[u] - 1,
             Conv!Column(x) \in Conv!Inner(col)
      PROVE  calculated'[x] = "right"
  <2>1. u \in Conv!Threads
    BY TeamAssumption DEF Conv!Members, Conv!Threads
  <2>2. next'[u] = next[u] \/ (u = t1 /\ next'[u] = j + 1)
    BY <1>5, <2>1
  <2>3. Conv!Row(x) \in Conv!FirstRow(u, Conv!Edge, Conv!InnerRows)..next[u] - 1 \/ Conv!Row(x) = j
    <3>1. Conv!Edge \in Nat /\ Conv!InnerRows \in Nat
      BY <1>1, <1>2, InnerRowsFacts
    <3>2. Conv!Row(x) \in Int /\ Conv!FirstRow(u, Conv!Edge, Conv!InnerRows) \in Int
      BY <1>1, <3>1, Places, RowRanges
    <3> QED
      BY <1>5, <1>9, <2>2, <3>2
  <2>4. Conv!Row(x) \in Conv!FirstRow(u, Conv!Edge, Conv!InnerRows)..next[u] - 1 => calculated[x] = "right"
    BY <1>4, <1>9 DEF FinishedRight
  <2> QED
    BY <1>8, <1>9, <2>3, <2>4
<1>10. ASSUME NEW u \in Conv!Members
       PROVE  next'[u] \in Conv!FirstRow(u, Conv!Edge, Conv!InnerRows)..Conv!EndRow(u, Conv!Edge, Conv!InnerRows)
  <2>1. u \in Conv!Threads
    BY TeamAssumption DEF Conv!Members, Conv!Threads
  <2> QED
    BY <1>4, <1>5, <2>1 DEF FinishedRight
<1>11. Conv!TypeOK'
  BY <1>1, <1>2, <1>5, <1>7, SameShape DEF Conv!TypeOK, Conv!Threads
<1>12. \A u \in Conv!Members' : FinishedRight(calculated, u, Conv!Edge, Conv!InnerRows)'
  BY <1>9, <1>10, SameShape DEF FinishedRight
<1>13. \A x \in Conv!Cells' : (Conv!Column(x) \in Conv!Inner(col))' => temp'[x] = "right"
  BY <1>2, <1>4, SameShape
<1> QED
  BY <1>1, <1>2, <1>11, <1>12, <1>13, SameShape DEF ConvInv, ConvCpu

\* The other steps of the functions of the CPU.
LEMMA CpuConvSteps ==
  ASSUME ConvInv, Conv!Horizontal \/ Conv!Vertical \/ Conv!Return, row' = row, col' = col,
         filter_length' = filter_length, func' = func, enabled' = enabled
  PROVE  ConvInv'
<1>1. /\ ConvShape /\ row \in Nat /\ col \in Nat \ {0}
      /\ Conv!TypeOK
  BY DEF ConvInv, ConvShape
<1>2. CASE Conv!Horizontal
  <2>1. /\ stage = "call" /\ stage' = "rows" /\ func \in ConvCpu /\ Conv!Start(0, row)
        /\ calculated' = calculated /\ temp' = temp
    BY <1>2 DEF Conv!Horizontal, ConvCpu
  <2>2. 0 \in Nat /\ 0 + row <= row
    BY <1>1
  <2>3. /\ next' \in [Conv!Threads -> 0..row]
        /\ \A t1 \in Conv!Members : next'[t1] = Conv!FirstRow(t1, 0, row)
    BY <1>1, <2>1, <2>2, StartRows
  <2>4. ASSUME NEW t1 \in Conv!Members'
        PROVE  FinishedRight(temp, t1, 0, row)'
    <3>1. t1 \in Conv!Members /\ next'[t1] = Conv!FirstRow(t1, 0, row)
      BY <2>3, SameShape
    <3>2. /\ Conv!FirstRow(t1, 0, row) \in Int /\ Conv!EndRow(t1, 0, row) \in Int
          /\ Conv!FirstRow(t1, 0, row) <= Conv!EndRow(t1, 0, row)
      BY <1>1, <3>1, RowRanges
    <3>3. Conv!FirstRow(t1, 0, row)..next'[t1] - 1 = {}
      BY <3>1, <3>2
    <3>4. /\ (Conv!FirstRow(t1, 0, row))' = Conv!FirstRow(t1, 0, row)
          /\ (Conv!EndRow(t1, 0, row))' = Conv!EndRow(t1, 0, row)
      BY SameShape
    <3> QED
      BY <3>1, <3>2, <3>3, <3>4 DEF FinishedRight
  <2>5. Conv!TypeOK'
    BY <1>1, <2>1, <2>3, SameShape DEF Conv!TypeOK, Conv!Threads
  <2> QED
    BY <1>1, <2>1, <2>4, <2>5, SameShape DEF ConvInv, ConvCpu
<1>3. CASE Conv!Vertical
  <2>1. /\ stage = "rows" /\ stage' = "columns" /\ func \in ConvCpu
        /\ \A t1 \in Conv!Members : next[t1] = Conv!EndRow(t1, 0, row)
        /\ Conv!Start(Conv!Edge, Conv!InnerRows)
        /\ calculated' = calculated /\ temp' = temp
    BY <1>3 DEF Conv!Vertical, ConvCpu
  <2>2. Conv!Edge \in Nat /\ Conv!InnerRows \in Nat /\ Conv!Edge + Conv!InnerRows <= row
    BY <1>1, <2>1, InnerRowsFacts
  <2>3. /\ next' \in [Conv!Threads -> 0..row]
        /\ \A t1 \in Conv!Members : next'[t1] = Conv!FirstRow(t1, Conv!Edge, Conv!InnerRows)
    BY <1>1, <2>1, <2>2, StartRows
  <2>4. ASSUME NEW t1 \in Conv!Members'
        PROVE  FinishedRight(calculated, t1, Conv!Edge, Conv!InnerRows)'
    <3>1. t1 \in Conv!Members /\ next'[t1] = Conv!FirstRow(t1, Conv!Edge, Conv!InnerRows)
      BY <2>3, SameShape
    <3>2. /\ Conv!FirstRow(t1, Conv!Edge, Conv!InnerRows) \in Int /\ Conv!EndRow(t1, Conv!Edge, Conv!InnerRows) \in Int
          /\ Conv!FirstRow(t1, Conv!Edge, Conv!InnerRows) <= Conv!EndRow(t1, Conv!Edge, Conv!InnerRows)
      BY <2>2, <3>1, RowRanges
    <3>3. Conv!FirstRow(t1, Conv!Edge, Conv!InnerRows)..next'[t1] - 1 = {}
      BY <3>1, <3>2
    <3>4. /\ (Conv!FirstRow(t1, Conv!Edge, Conv!InnerRows))' = Conv!FirstRow(t1, Conv!Edge, Conv!InnerRows)
          /\ (Conv!EndRow(t1, Conv!Edge, Conv!InnerRows))' = Conv!EndRow(t1, Conv!Edge, Conv!InnerRows)
      BY SameShape
    <3> QED
      BY <3>1, <3>2, <3>3, <3>4 DEF FinishedRight
  <2>5. ASSUME NEW x \in Conv!Cells, Conv!Column(x) \in Conv!Inner(col) PROVE temp[x] = "right"
    <3>1. Conv!Row(x) \in 0..0 + row - 1
      BY <1>1, Places
    <3>2. PICK t1 \in Conv!Members :
            Conv!Row(x) \in Conv!FirstRow(t1, 0, row)..Conv!EndRow(t1, 0, row) - 1
      BY <1>1, <3>1, RowsCovered
    <3>3. FinishedRight(temp, t1, 0, row) /\ next[t1] = Conv!EndRow(t1, 0, row)
      BY <2>1 DEF ConvInv
    <3> QED
      BY <2>5, <3>2, <3>3 DEF FinishedRight
  <2>6. Conv!TypeOK'
    BY <1>1, <2>1, <2>3, SameShape DEF Conv!TypeOK, Conv!Threads
  <2>7. \A x \in Conv!Cells' : (Conv!Column(x) \in Conv!Inner(col))' => temp'[x] = "right"
    BY <2>1, <2>5, SameShape
  <2> QED
    BY <1>1, <2>1, <2>4, <2>6, <2>7, SameShape DEF ConvInv, ConvCpu
<1>4. CASE Conv!Return
  <2>1. /\ stage = "columns" /\ stage' = "done" /\ func \in ConvCpu
        /\ \A t1 \in Conv!Members : next[t1] = Conv!EndRow(t1, Conv!Edge, Conv!InnerRows)
        /\ calculated' = calculated /\ temp' = temp /\ next' = next
    BY <1>4 DEF Conv!Return, ConvCpu
  <2>2. ASSUME Conv!FitsFilter, NEW x \in Conv!Compared PROVE calculated[x] = "right"
    <3>1. x \in Conv!Cells /\ Conv!Row(x) \in 4..row - 5 /\ Conv!Column(x) \in 4..col - 5
      BY DEF Conv!Compared
    <3>2. Conv!Edge \in Nat /\ Conv!Edge <= 4
      <4>1. Conv!half_length \in Nat /\ Conv!Edge = Conv!half_length + 1
        BY <1>1, ConvFacts
      <4>2. Conv!half_length <= 3
        BY <2>1, <2>2 DEF Conv!FitsFilter, ConvCpu
      <4> QED
        BY ONLY <4>1, <4>2
    <3>3. Conv!Row(x) \in Conv!Inner(row) /\ Conv!Column(x) \in Conv!Inner(col)
      <4>1. row \in Nat /\ col \in Nat
        BY <1>1 DEF ConvShape
      <4>2. \A n \in Nat : Conv!Inner(n) = Conv!Edge..n - Conv!Edge - 1
        BY <1>1, ConvFacts
      <4>3. /\ Conv!Inner(row) = Conv!Edge..row - Conv!Edge - 1
            /\ Conv!Inner(col) = Conv!Edge..col - Conv!Edge - 1
        BY ONLY <4>1, <4>2
      <4> QED
        BY ONLY <3>1, <3>2, <4>1, <4>3
    <3>4. /\ Conv!Row(x) \in Conv!Edge..Conv!Edge + Conv!InnerRows - 1
          /\ Conv!InnerRows \in Nat
      BY <1>1, <2>1, <3>3, InnerRowsFacts
    <3>5. PICK t1 \in Conv!Members :
            Conv!Row(x) \in Conv!FirstRow(t1, Conv!Edge, Conv!InnerRows)
                              ..Conv!EndRow(t1, Conv!Edge, Conv!InnerRows) - 1
      BY <3>2, <3>4, RowsCovered
    <3>6. /\ FinishedRight(calculated, t1, Conv!Edge, Conv!InnerRows)
          /\ next[t1] = Conv!EndRow(t1, Conv!Edge, Conv!InnerRows)
      BY <2>1 DEF ConvInv
    <3> QED
      BY <3>1, <3>3, <3>5, <3>6 DEF FinishedRight
  <2>3. Conv!TypeOK'
    BY <1>1, <2>1, SameShape DEF Conv!TypeOK, Conv!Threads
  <2>4. ConvFinal'
    BY <2>1, <2>2, SameShape DEF ConvFinal, ConvFits, Conv!ComparedRight
  <2> QED
    BY <1>1, <2>1, <2>3, <2>4, SameShape DEF ConvInv
<1> QED
  BY <1>2, <1>3, <1>4

-----------------------------------------------------------------------------
(* The kernels.                                                            *)

\* A vector item and lane for each element.
LEMMA VectorItem ==
  ASSUME row \in Nat, col \in Nat \ {0}, col % 4 = 0, NEW x \in Conv!Cells
  PROVE  /\ Conv!width4 \in Nat /\ col = 4 * Conv!width4
         /\ LET i1 == <<Conv!Column(x) \div 4, Conv!Row(x)>>
                l1 == Conv!Column(x) % 4
            IN  /\ l1 \in 0..3 /\ Conv!Column(x) = 4 * i1[1] + l1
                /\ i1[1] \in 0..Conv!width4 - 1 /\ i1[2] \in 0..row - 1
                /\ 4 * Conv!offset(i1) + l1 = x
<1> DEFINE w == Conv!width4
           r == Conv!Row(x)
           c == Conv!Column(x)
           a == c \div 4
           b == c % 4
<1>1. w \in Nat /\ col = 4 * w
  BY DEF Conv!width4
<1>2. r \in 0..row - 1 /\ c \in 0..col - 1 /\ x = r * col + c
  BY Places
<1> HIDE DEF c
<1>3. a \in Nat /\ b \in 0..3 /\ c = 4 * a + b
  BY <1>2
<1> HIDE DEF w, r, a, b
<1>4. a \in 0..w - 1
  BY <1>1, <1>2, <1>3
<1>5. Conv!offset(<<a, r>>) = r * w + a
  BY DEF Conv!offset, w
<1>6. 4 * (r * w + a) + b = x
  <2>1. r * w \in Nat /\ r * col = 4 * (r * w)
    BY <1>1, <1>2
  <2> QED
    BY <1>2, <1>3, <2>1
<1> QED
  BY <1>1, <1>2, <1>3, <1>4, <1>5, <1>6 DEF w, r, c, a, b

\* Any item and lane that stores an element.
LEMMA StoredAt ==
  ASSUME NEW items \in SUBSET (Nat \X Nat), NEW x \in Conv!Cells, NEW w \in Conv!At(items, x)
  PROVE  w[1] \in items /\ w[2] \in 0..3 /\ 4 * Conv!offset(w[1]) + w[2] = x
BY DEF Conv!At, Conv!Stores

LEMMA StoresIt ==
  ASSUME NEW items, NEW x \in Conv!Cells, NEW i1 \in items, NEW l1 \in 0..3,
         4 * Conv!offset(i1) + l1 = x
  PROVE  Conv!At(items, x) # {}
<1>1. <<i1, l1>> \in Conv!Stores(items)
  BY DEF Conv!Stores
<1>2. <<i1, l1>> \in Conv!At(items, x)
  BY <1>1 DEF Conv!At
<1> QED
  BY <1>2

LEMMA FitsVectors ==
  ASSUME Conv!FitsSides, func \in {"GPU_VEC4", "GPU_COMB"}, row \in Nat
  PROVE  /\ Conv!Accepted /\ col % 4 = 0
         /\ Conv!Items = (0..Conv!width4 - 1) \X (0..row - 1)
<1>1. Conv!Accepted /\ col % 4 = 0
  BY DEF Conv!FitsSides
<1>2. Conv!globalWorkSize[1] = Conv!width4 /\ Conv!globalWorkSize[2] = row
  BY DEF Conv!globalWorkSize, Conv!argument, Conv!width4
<1> QED
  BY <1>1, <1>2 DEF Conv!Items

LEMMA RowsStep ==
  ASSUME ConvInv, Conv!Rows, row' = row, col' = col, func' = func,
         filter_length' = filter_length, enabled' = enabled
  PROVE  ConvInv'
<1>1. /\ ConvShape /\ row \in Nat /\ col \in Nat \ {0}
      /\ Conv!TypeOK
  BY DEF ConvInv, ConvShape
<1>2. /\ stage = "rows" /\ stage' = "columns" /\ func \in {"GPU_STD", "GPU_VEC4"}
      /\ calculated' = calculated /\ next' = next
  BY DEF Conv!Rows
<1> DEFINE items == {i1 \in Conv!Items : Conv!NotFirstNorLast(i1)}
           byItem(x) == [k \in Conv!KernelTaps |-> x + k - 2]
           byVector(w) == [k \in Conv!KernelTaps |-> Conv!convRows5Vec4(Conv!offset(w[1]), w[2], k)]
           out(x) == Conv!AlongRow(x, byVector(CHOOSE w \in Conv!At(items, x) : TRUE))
<1>3. temp' = [x \in Conv!Cells |->
        CASE ~Conv!Accepted -> temp[x]
          [] Conv!Accepted /\ func = "GPU_STD" ->
               IF Conv!Column(x) > 1 /\ Conv!Column(x) < col - 2
               THEN Conv!AlongRow(x, byItem(x)) ELSE temp[x]
          [] Conv!Accepted /\ func = "GPU_VEC4" ->
               IF Conv!At(items, x) = {} THEN temp[x] ELSE out(x)]
  BY DEF Conv!Rows
<1>4. ASSUME ConvFits, func = "GPU_STD", NEW x \in Conv!Cells, Conv!Column(x) \in 4..col - 5
      PROVE  temp'[x] = "right"
  <2>0. /\ Conv!half_length = 2 /\ Conv!Taps = 0..4 /\ Conv!KernelTaps = 0..4
        /\ Conv!Reach(col) = 2..col - 3
    BY <1>1, <1>4, FiveTaps DEF ConvFits, ConvCpu
  <2>1. Conv!Accepted
    BY <1>2, <1>4 DEF ConvFits, Conv!FitsSides
  <2>2. /\ Conv!Column(x) > 1 /\ Conv!Column(x) < col - 2
        /\ Conv!Column(x) \in Conv!Reach(col)
    BY <1>1, <1>4, <2>0
  <2>3. temp'[x] = Conv!AlongRow(x, byItem(x))
    BY <1>3, <1>4, <2>1, <2>2
  <2>4. /\ DOMAIN byItem(x) = Conv!Taps
        /\ \A k \in Conv!Taps : byItem(x)[k] = x + k - Conv!half_length
    BY <2>0
  <2> HIDE DEF byItem
  <2> QED
    BY <2>2, <2>3, <2>4, RowRight
<1>5. ASSUME ConvFits, func = "GPU_VEC4", NEW x \in Conv!Cells, Conv!Column(x) \in 4..col - 5
      PROVE  temp'[x] = "right"
  <2>0. /\ Conv!half_length = 2 /\ Conv!Taps = 0..4 /\ Conv!KernelTaps = 0..4
        /\ Conv!Reach(col) = 2..col - 3
    BY <1>1, <1>5, FiveTaps DEF ConvFits, ConvCpu
  <2>1. /\ Conv!Accepted /\ col % 4 = 0
        /\ Conv!Items = (0..Conv!width4 - 1) \X (0..row - 1)
    BY <1>1, <1>5, FitsVectors DEF ConvFits
  <2>2. Conv!At(items, x) # {}
    <3> DEFINE i1 == <<Conv!Column(x) \div 4, Conv!Row(x)>>
               l1 == Conv!Column(x) % 4
    <3>1. /\ Conv!width4 \in Nat /\ col = 4 * Conv!width4
          /\ l1 \in 0..3 /\ Conv!Column(x) = 4 * i1[1] + l1
          /\ i1[1] \in 0..Conv!width4 - 1 /\ i1[2] \in 0..row - 1
          /\ 4 * Conv!offset(i1) + l1 = x
      BY <1>1, <2>1, VectorItem
    <3>2. i1 \in Conv!Items
      BY <2>1, <3>1
    <3>3. i1[1] > 0 /\ i1[1] < Conv!width4 - 1
      <4> HIDE DEF i1, l1
      <4> QED
        BY <1>5, <3>1
    <3>4. i1 \in items
      BY <3>2, <3>3 DEF Conv!NotFirstNorLast
    <3> HIDE DEF i1, l1, items
    <3> QED
      BY <3>1, <3>4, StoresIt
  <2>3. temp'[x] = out(x)
    BY <1>3, <1>5, <2>1, <2>2
  <2> DEFINE w == CHOOSE w \in Conv!At(items, x) : TRUE
  <2>4. w \in Conv!At(items, x)
    BY <2>2
  <2>5. items \subseteq Nat \X Nat
    BY <1>1, <2>1, VectorItem
  <2> HIDE DEF items, w
  <2>6. w[1] \in items /\ w[2] \in 0..3 /\ 4 * Conv!offset(w[1]) + w[2] = x
    BY <2>4, <2>5, StoredAt
  <2>7. Conv!offset(w[1]) \in Int
    <3>1. w[1] \in Nat \X Nat
      BY <2>5, <2>6
    <3>2. Conv!width4 \in Nat
      BY <1>1, <2>1, VectorItem
    <3> QED
      BY <3>1, <3>2 DEF Conv!offset
  <2>8. \A k \in Conv!Taps : byVector(w)[k] = x + k - Conv!half_length
    <3>1. \A k \in 0..4 : byVector(w)[k] = 4 * (Conv!offset(w[1]) - 1) + w[2] + k + 2
      BY <2>0 DEF Conv!convRows5Vec4
    <3>2. \A k \in 0..4 : byVector(w)[k] = x + k - 2
      <4> HIDE DEF byVector
      <4> QED
        BY <2>6, <2>7, <3>1
    <3> HIDE DEF byVector
    <3> QED
      BY <2>0, <3>2
  <2>9. Conv!Column(x) \in Conv!Reach(col)
    BY <1>1, <1>5, <2>0
  <2>11. DOMAIN byVector(w) = Conv!Taps
    BY <2>0
  <2>10. out(x) = Conv!AlongRow(x, byVector(w))
    BY DEF w
  <2> HIDE DEF byVector, out
  <2> QED
    BY <2>3, <2>8, <2>9, <2>10, <2>11, RowRight
<1> HIDE DEF byItem, byVector
<1>6. temp' \in [Conv!Cells -> {"unset", "right", "wrong"}]
  <2>1. temp \in [Conv!Cells -> {"unset", "right", "wrong"}]
    BY <1>1 DEF Conv!TypeOK
  <2>2. \A x, in : Conv!AlongRow(x, in) \in {"unset", "right", "wrong"}
    BY ValueTypes DEF Conv!AlongRow
  <2> QED
    BY <1>2, <1>3, <2>1, <2>2
<1>7. Conv!TypeOK'
  BY <1>1, <1>2, <1>6, SameShape DEF Conv!TypeOK, Conv!Threads
<1>8. ConvFits' => \A x \in Conv!Cells' : (Conv!Column(x))' \in 4..col - 5 => temp'[x] = "right"
  BY <1>2, <1>4, <1>5, SameShape DEF ConvFits
<1> QED
  BY <1>1, <1>2, <1>7, <1>8, SameShape DEF ConvInv, ConvCpu

LEMMA EnqueueStep ==
  ASSUME ConvInv, Conv!Enqueue, row' = row, col' = col, func' = func,
         filter_length' = filter_length, enabled' = enabled
  PROVE  ConvInv'
<1>1. ConvShape /\ row \in Nat /\ col \in Nat \ {0} /\ Conv!TypeOK
  BY DEF ConvInv, ConvShape
<1>2. /\ func \in ConvGpu /\ calculated' = calculated /\ next' = next /\ temp' = temp
      /\ func \notin ConvCpu
      /\ stage' = CASE ~enabled                        -> "done"
                   [] enabled /\ func = "GPU_COMB" -> "columns"
                   [] enabled /\ func # "GPU_COMB" -> "rows"
  BY DEF Conv!Enqueue, ConvGpu, ConvCpu
<1>3. stage' \in {"done", "columns", "rows"} /\ (stage' = "done" => ~enabled)
      /\ (stage' = "columns" => func = "GPU_COMB")
  BY <1>1, <1>2 DEF Conv!TypeOK
<1>4. Conv!TypeOK'
  BY <1>1, <1>2, <1>3, SameShape DEF Conv!TypeOK, Conv!Threads
<1>5. stage' = "done" => ConvFinal'
  BY <1>2, <1>3 DEF ConvFinal, ConvCpu
<1> QED
  BY <1>1, <1>2, <1>3, <1>4, <1>5, SameShape DEF ConvInv, ConvCpu, ConvGpu

\* What an element away from the edges comes from.
LEMMA CombinedRight ==
  ASSUME row \in Nat, col \in Nat, Conv!width4 \in Nat, col = 4 * Conv!width4, NEW x \in Int,
         NEW o \in Int, NEW l \in 0..3, 4 * o + l = x,
         Conv!half_length = 2, Conv!Taps = 0..4, Conv!KernelTaps = 0..4,
         Conv!Row(x) \in Conv!Reach(row), Conv!Column(x) \in Conv!Reach(col)
  PROVE  Conv!Combined(x, o, l) = "right"
<1>1. ASSUME NEW v \in 0..4, NEW k \in 0..4
      PROVE  Conv!InCombined(o, l, v, k) = x + (v - 2) * col + (k - 2)
  <2> DEFINE p == (v - 2) * Conv!width4
  <2>1. p \in Int /\ (v - 2) * col = 4 * p
    OBVIOUS
  <2>2. Conv!InCombined(o, l, v, k) =
          IF l < 2 THEN 4 * ((o + p) - 1) + (l + k + 2) ELSE 4 * (o + p) + (l + k - 2)
    BY DEF Conv!InCombined
  <2> HIDE DEF p
  <2> QED
    BY <2>1, <2>2
<1>2. \A v, k \in Conv!KernelTaps :
        Conv!InCombined(o, l, v, k) = x + (v - Conv!half_length) * col + (k - Conv!half_length)
  BY <1>1
<1> QED
  BY <1>2 DEF Conv!Combined, Conv!Value

LEMMA ColumnsStep ==
  ASSUME ConvInv, Conv!Columns, row' = row, col' = col, func' = func,
         filter_length' = filter_length, enabled' = enabled
  PROVE  ConvInv'
<1>1. /\ ConvShape /\ row \in Nat /\ col \in Nat \ {0}
      /\ Conv!TypeOK
  BY DEF ConvInv, ConvShape
<1>2. /\ stage = "columns" /\ stage' = "done" /\ func \in ConvGpu /\ temp' = temp /\ next' = next
  BY DEF Conv!Columns, ConvGpu
<1> DEFINE items == {i1 \in Conv!Items :
                       Conv!HasRows(i1) /\ (func = "GPU_COMB" => Conv!NotFirstNorLast(i1))}
           byItem(x) == [k \in Conv!KernelTaps |-> x + (k - 2) * col]
           byVector(w) == [k \in Conv!KernelTaps |-> Conv!convCols5Vec4(Conv!offset(w[1]), w[2], k)]
           one(x) == CHOOSE w \in Conv!At(items, x) : TRUE
           out(x) == IF func = "GPU_COMB" THEN Conv!Combined(x, Conv!offset(one(x)[1]), one(x)[2])
                     ELSE Conv!AlongColumn(x, byVector(one(x)))
<1>3. calculated' = [x \in Conv!Cells |->
        CASE ~Conv!Accepted -> "unset"
          [] Conv!Accepted /\ func = "GPU_STD" ->
               IF Conv!Row(x) > 1 /\ Conv!Row(x) < row - 2
               THEN Conv!AlongColumn(x, byItem(x)) ELSE "unset"
          [] Conv!Accepted /\ func # "GPU_STD" ->
               IF Conv!At(items, x) = {} THEN "unset" ELSE out(x)]
  BY DEF Conv!Columns
<1>4. ASSUME ConvFits, NEW x \in Conv!Compared
      PROVE  calculated'[x] = "right"
  <2>0. /\ Conv!half_length = 2 /\ Conv!Taps = 0..4 /\ Conv!KernelTaps = 0..4
        /\ Conv!Reach(row) = 2..row - 3 /\ Conv!Reach(col) = 2..col - 3
    BY <1>1, <1>2, <1>4, FiveTaps DEF ConvFits, ConvCpu, ConvGpu
  <2>1. x \in Conv!Cells /\ Conv!Row(x) \in 4..row - 5 /\ Conv!Column(x) \in 4..col - 5
    BY DEF Conv!Compared
  <2>6. Conv!Row(x) \in Conv!Reach(row) /\ Conv!Column(x) \in Conv!Reach(col)
    BY <1>1, <2>0, <2>1
  <2>2. Conv!Accepted
    BY <1>2, <1>4 DEF ConvFits, Conv!FitsSides, ConvGpu
  <2>3. func # "GPU_COMB" =>
          \A y \in Conv!Cells : Conv!Column(y) = Conv!Column(x) => temp[y] = "right"
    BY <1>2, <1>4, <2>1 DEF ConvInv, ConvGpu
  <2>4. CASE func = "GPU_STD"
    <3>1. calculated'[x] = Conv!AlongColumn(x, byItem(x))
      BY <1>1, <1>3, <2>1, <2>2, <2>4
    <3>2. /\ DOMAIN byItem(x) = Conv!Taps
          /\ \A k \in Conv!Taps : byItem(x)[k] = x + (k - Conv!half_length) * col
      BY <2>0
    <3> HIDE DEF byItem
    <3> QED
      BY <1>1, <2>1, <2>3, <2>4, <2>6, <3>1, <3>2, ColumnRight
  <2>5. CASE func # "GPU_STD"
    <3>1. /\ func \in {"GPU_VEC4", "GPU_COMB"} /\ col % 4 = 0
          /\ Conv!Items = (0..Conv!width4 - 1) \X (0..row - 1)
      BY <1>1, <1>2, <1>4, <2>5, FitsVectors DEF ConvGpu, ConvFits
    <3>2. Conv!width4 \in Nat /\ col = 4 * Conv!width4
      BY <1>1, <2>1, <3>1, VectorItem
    <3>3. Conv!At(items, x) # {}
      <4> DEFINE i1 == <<Conv!Column(x) \div 4, Conv!Row(x)>>
                 l1 == Conv!Column(x) % 4
      <4>1. /\ l1 \in 0..3 /\ Conv!Column(x) = 4 * i1[1] + l1
            /\ i1[1] \in 0..Conv!width4 - 1 /\ i1[2] \in 0..row - 1
            /\ 4 * Conv!offset(i1) + l1 = x
        BY <1>1, <2>1, <3>1, VectorItem
      <4>2. i1 \in Conv!Items /\ i1[2] = Conv!Row(x)
        BY <3>1, <4>1
      <4>3. i1[1] > 0 /\ i1[1] < Conv!width4 - 1 /\ i1[2] > 1 /\ i1[2] < row - 2
        <5> HIDE DEF i1, l1
        <5> QED
          BY <1>1, <2>1, <3>2, <4>1, <4>2
      <4>4. i1 \in items
        BY <4>2, <4>3 DEF Conv!NotFirstNorLast, Conv!HasRows
      <4> HIDE DEF i1, l1, items
      <4> QED
        BY <2>1, <4>1, <4>4, StoresIt
    <3>4. calculated'[x] = out(x)
      BY <1>3, <2>1, <2>2, <2>5, <3>3
    <3> DEFINE w == one(x)
    <3>5. w \in Conv!At(items, x)
      BY <3>3
    <3>6. items \subseteq Nat \X Nat
      BY <1>1, <3>1, <3>2
    <3> HIDE DEF items, w
    <3>7. w[1] \in items /\ w[2] \in 0..3 /\ 4 * Conv!offset(w[1]) + w[2] = x
      BY <2>1, <3>5, <3>6, StoredAt
    <3>8. Conv!offset(w[1]) \in Int
      <4>1. w[1] \in Nat \X Nat
        BY <3>6, <3>7
      <4> QED
        BY <3>2, <4>1 DEF Conv!offset
    <3>9. CASE func = "GPU_COMB"
      <4>1. out(x) = Conv!Combined(x, Conv!offset(w[1]), w[2])
        BY <3>9 DEF w
      <4>2. x \in Int
        BY <1>1, <2>1, Places
      <4> HIDE DEF out
      <4> QED
        BY <1>1, <2>0, <2>6, <3>2, <3>4, <3>7, <3>8, <4>1, <4>2, CombinedRight
    <3>10. CASE func # "GPU_COMB"
      <4>1. out(x) = Conv!AlongColumn(x, byVector(w))
        BY <3>10 DEF w
      <4>2. ASSUME NEW k \in 0..4 PROVE byVector(w)[k] = x + (k - 2) * col
        <5> DEFINE p == (k - 2) * Conv!width4
        <5>1. p \in Int /\ (k - 2) * col = 4 * p
          BY <3>2
        <5>2. byVector(w)[k] = 4 * (Conv!offset(w[1]) + p) + w[2]
          BY <2>0 DEF Conv!convCols5Vec4
        <5> HIDE DEF p, byVector
        <5> QED
          BY <3>7, <3>8, <5>1, <5>2
      <4>3. DOMAIN byVector(w) = Conv!Taps
        BY <2>0
      <4> HIDE DEF out, byVector
      <4>4. \A k \in Conv!Taps : byVector(w)[k] = x + (k - Conv!half_length) * col
        BY <2>0, <4>2
      <4> QED
        BY <1>1, <2>1, <2>3, <2>6, <3>4, <3>10, <4>1, <4>3, <4>4, ColumnRight
    <3> QED
      BY <3>9, <3>10
  <2> QED
    BY <2>4, <2>5
<1>5. calculated' \in [Conv!Cells -> {"unset", "right", "wrong"}]
  <2>1. /\ \A x, in : Conv!AlongColumn(x, in) \in {"unset", "right", "wrong"}
        /\ \A x, o, l : Conv!Combined(x, o, l) \in {"unset", "right", "wrong"}
    BY ValueTypes DEF Conv!AlongColumn, Conv!Combined
  <2> HIDE DEF byItem, byVector, items, one
  <2>2. \A x : out(x) \in {"unset", "right", "wrong"}
    BY <2>1
  <2> HIDE DEF out
  <2> QED
    BY <1>3, <2>1, <2>2
<1>6. Conv!TypeOK'
  BY <1>1, <1>2, <1>5, SameShape DEF Conv!TypeOK, Conv!Threads
<1>7. ConvFinal'
  BY <1>4, SameShape DEF ConvFinal, ConvFits, Conv!ComparedRight
<1> QED
  BY <1>1, <1>2, <1>6, <1>7, SameShape DEF ConvInv

LEMMA ConvStep ==
  ASSUME ConvInv, Conv!Next, row' = row, col' = col, func' = func,
         filter_length' = filter_length, enabled' = enabled
  PROVE  ConvInv'
<1>1. CASE Conv!Horizontal \/ Conv!Vertical \/ Conv!Return
  BY <1>1, CpuConvSteps
<1>2. CASE Conv!Enqueue
  BY <1>2, EnqueueStep
<1>3. CASE Conv!Rows
  BY <1>3, RowsStep
<1>4. CASE Conv!Columns
  BY <1>4, ColumnsStep
<1>5. CASE \E t1 \in Conv!Threads : Conv!RowOf(t1) \/ Conv!ColumnsOf(t1)
  BY <1>5, RowOfStep, ColumnsOfStep
<1> QED
  BY <1>1, <1>2, <1>3, <1>4, <1>5 DEF Conv!Next

LEMMA ConvStutter ==
  ASSUME ConvInv, row' = row, col' = col, func' = func,
         filter_length' = filter_length, enabled' = enabled,
         calculated' = calculated, next' = next, temp' = temp, stage' = stage
  PROVE  ConvInv'
<1>1. ConvShape /\ row \in Nat /\ col \in Nat \ {0} /\ Conv!TypeOK
  BY DEF ConvInv, ConvShape
<1>2. Conv!TypeOK'
  BY <1>1, SameShape DEF Conv!TypeOK, Conv!Threads
<1>3. ASSUME NEW t1
      PROVE  /\ FinishedRight(temp, t1, 0, row)' <=> FinishedRight(temp, t1, 0, row)
             /\ FinishedRight(calculated, t1, Conv!Edge, Conv!InnerRows)'
                  <=> FinishedRight(calculated, t1, Conv!Edge, Conv!InnerRows)
  BY SameShape DEF FinishedRight
<1>4. (stage = "done" => ConvFinal) => (stage' = "done" => ConvFinal')
  BY SameShape DEF ConvFinal, ConvFits, Conv!ComparedRight
<1>5. \A x : (Conv!Column(x) \in Conv!Inner(col))' <=> Conv!Column(x) \in Conv!Inner(col)
  BY SameShape
<1>6. /\ ConvShape' = ConvShape /\ Conv!Cells' = Conv!Cells /\ Conv!Members' = Conv!Members
      /\ ConvFits' = ConvFits
      /\ \A x : (Conv!Column(x) \in 4..col - 5)' <=> Conv!Column(x) \in 4..col - 5
  BY SameShape DEF ConvFits
<1> QED
  BY <1>1, <1>2, <1>3, <1>4, <1>5, <1>6 DEF ConvInv, ConvCpu

\* In a call of a convolution the variables of the other functions stay as they are.
ConvCall == app = "conv" => ConvInv /\ IdleScan /\ IdleMatrix /\ IdleKernel

\* The inductive invariant of a convolution.
THEOREM ConvCalls == AlgSpec => []ConvCall
<1>1. AlgInit => ConvCall
  <2> SUFFICES ASSUME AlgInit, app = "conv"
               PROVE  ConvInv /\ IdleScan /\ IdleMatrix /\ IdleKernel
    BY DEF ConvCall
  <2>1. /\ \E f \in DOMAIN ConvDims : \E d \in ConvDims[f] :
             func = f /\ row = d[1] /\ col = d[2] /\ filter_length = d[3]
        /\ Conv!Init /\ IdleScan /\ IdleMatrix /\ IdleKernel
    BY DEF AlgInit
  <2>2. ConvShape
    BY <2>1, DimsAssumption DEF ConvShape, ConvCpu, Conv!Edge, Conv!half_length
  <2> QED
    BY <2>1, <2>2, ConvInitially
<1>2. ConvCall /\ [AlgNext]_algVars => ConvCall'
  <2> SUFFICES ASSUME ConvCall, [AlgNext]_algVars PROVE ConvCall'
    OBVIOUS
  <2>0. app' = app
    BY DEF AlgNext, algVars, input
  <2> SUFFICES ASSUME app = "conv"
               PROVE  ConvInv' /\ IdleScan' /\ IdleMatrix' /\ IdleKernel'
    BY <2>0 DEF ConvCall
  <2>1. ConvInv /\ IdleScan /\ IdleMatrix /\ IdleKernel
    BY DEF ConvCall
  <2>2. \/ Conv!Next /\ UNCHANGED <<input, enabled, scanOnly, kernelVars, matVars>>
        \/ UNCHANGED algVars
    BY DEF AlgNext
  <2>3. UNCHANGED <<input, enabled, scanOnly, kernelVars, matVars>>
    BY <2>2 DEF algVars
  <2>4. /\ row' = row /\ col' = col /\ func' = func /\ enabled' = enabled
        /\ filter_length' = filter_length
    BY <2>3 DEF input
  <2>5. IdleScan' /\ IdleMatrix' /\ IdleKernel'
    <3>1. /\ size' = size /\ suma' = suma /\ pc' = pc /\ i' = i /\ sum' = sum /\ offset' = offset
          /\ singles' = singles /\ tmp' = tmp /\ carry' = carry /\ kernel' = kernel
          /\ l_Data' = l_Data /\ t' = t /\ offsets' = offsets /\ d_Dst' = d_Dst /\ d_Buf' = d_Buf /\ buf' = buf
      BY <2>3 DEF scanOnly, ompVars
    <3>2. IdleScan'
      BY <2>1, <3>1 DEF IdleScan
    <3>3. IdleMatrix'
      BY <2>1, <2>3 DEF IdleMatrix, matVars
    <3>4. IdleKernel'
      BY <2>1, <2>3 DEF IdleKernel, kernelVars
    <3> QED
      BY <3>2, <3>3, <3>4
  <2>6. CASE Conv!Next
    BY <2>1, <2>4, <2>5, <2>6, ConvStep
  <2>7. CASE UNCHANGED algVars
    <3>1. calculated' = calculated /\ next' = next /\ temp' = temp /\ stage' = stage
      BY <2>7 DEF algVars, convVars
    <3> QED
      BY <2>1, <2>4, <2>5, <3>1, ConvStutter
  <2> QED
    BY <2>2, <2>6, <2>7
<1> QED
  BY <1>1, <1>2, PTL DEF AlgSpec

\* Every convolution whose sides and whose filter fit the function gives every element
\* that is compared its sum, however many threads there are and in whatever order they
\* take their rows: on the CPU filters of up to eight taps, in the kernels of five.
THEOREM Convolves == AlgSpec => []ConvRight
<1>1. ConvCall => ConvRight
  BY DEF ConvCall, ConvRight, Convolved, ConvInv, ConvFinal, ConvFits, Conv!Done
<1> QED
  BY <1>1, ConvCalls, PTL

-----------------------------------------------------------------------------
(* The products.                                                           *)

LEMMA SameCardinality == \A S : Matrix!Cardinality(S) = Cardinality(S)
BY DEF Matrix!Cardinality, Cardinality

\* Plus adds products that are all new.
LEMMA PlusFresh ==
  ASSUME NEW D, NEW T, NEW f \in [D -> T], NEW s, IsFiniteSet(D),
         \A x, y \in D : f[x] = f[y] => x = y,
         \A x \in D : f[x] # Matrix!Wrong /\ f[x] \notin s,
         Matrix!Wrong \notin s
  PROVE  Matrix!Plus(s, f) = s \cup {f[x] : x \in D}
<1> DEFINE new == {f[x] : x \in D}
<1>1. DOMAIN f = D /\ f \in [D -> new] /\ f \in Surjection(D, new) /\ f \in Injection(D, new)
  <2>1. DOMAIN f = D /\ f \in [D -> new]
    OBVIOUS
  <2>2. \A y \in new : \E x \in D : f[x] = y
    OBVIOUS
  <2> HIDE DEF new
  <2> QED
    BY <2>1, <2>2 DEF Surjection, Injection, IsInjective
<1>2. Cardinality(new) = Cardinality(D)
  BY <1>1, FS_Surjection
<1>3. ~(Matrix!Wrong \in s \cup new) /\ s \cap new = {}
  OBVIOUS
<1>4. Matrix!Cardinality(new) = Matrix!Cardinality(DOMAIN f)
  BY <1>1, <1>2, SameCardinality
<1> QED
  BY <1>1, <1>3, <1>4 DEF Matrix!Plus

LEMMA PlusTypes ==
  ASSUME NEW f, NEW s \in Matrix!ElementSums,
         \A x \in DOMAIN f : f[x] \in (Matrix!Elements \X Matrix!Elements) \cup {Matrix!Wrong}
  PROVE  Matrix!Plus(s, f) \in Matrix!ElementSums
BY DEF Matrix!Plus, Matrix!ElementSums

LEMMA ProductTypes ==
  \A a, b : Matrix!Product(a, b) \in (Matrix!Elements \X Matrix!Elements) \cup {Matrix!Wrong}
BY DEF Matrix!Product

\* The sides of a matrix.
MatrixSides == row \in Nat \ {0} /\ col \in Nat \ {0}

\* Where the element at x and y of a matrix with n columns and m rows is.
LEMMA Index ==
  ASSUME NEW n \in Nat \ {0}, NEW m \in Nat, NEW x \in 0..m - 1, NEW y \in 0..n - 1
  PROVE  x * n + y \in 0..m * n - 1 /\ x * n \in Nat
<1>1. (x + 1) * n <= m * n
  BY Products
<1>2. (x + 1) * n = x * n + n /\ x * n \in Nat /\ m * n \in Nat
  OBVIOUS
<1> DEFINE a == x * n
           b == m * n
<1>3. a + n <= b /\ a \in Nat /\ b \in Nat
  BY <1>1, <1>2
<1> HIDE DEF a, b
<1>4. a + y \in 0..b - 1
  BY <1>3
<1> QED
  BY <1>2, <1>4 DEF a, b

\* Every element of the result is at one row and one column.
LEMMA Apart ==
  ASSUME NEW n \in Nat \ {0}, NEW x \in Nat, NEW u \in Nat, NEW y \in 0..n - 1, NEW v \in 0..n - 1,
         x * n + y = u * n + v
  PROVE  x = u /\ y = v
<1>1. (x * n + y) \div n = x /\ (x * n + y) % n = y
  BY Quotient
<1>2. (u * n + v) \div n = u /\ (u * n + v) % n = v
  BY Quotient
<1> QED
  BY <1>1, <1>2

\* All products of a row and a column, and those of the first n.
UpTo(r, c, n) == {<<r * col + k, k * row + c>> : k \in 0..n - 1}
AllOf(r, c)   == UpTo(r, c, col)

LEMMA ProductFacts ==
  ASSUME MatrixSides, NEW r \in 0..row - 1, NEW c \in 0..row - 1, NEW k \in 0..col - 1
  PROVE  /\ r * col + k \in Matrix!Elements /\ k * row + c \in Matrix!Elements
         /\ Matrix!Product(r * col + k, k * row + c) = <<r * col + k, k * row + c>>
         /\ <<r * col + k, k * row + c>> # Matrix!Wrong
         /\ \A j \in 0..col - 1 :
              <<r * col + k, k * row + c>> = <<r * col + j, j * row + c>> => k = j
<1>1. row \in Nat \ {0} /\ col \in Nat \ {0}
  BY DEF MatrixSides
<1>2. r * col + k \in 0..row * col - 1
  BY <1>1, Index
<1>3. k * row + c \in 0..col * row - 1
  BY <1>1, Index
<1>4. col * row = row * col /\ Matrix!Elements = 0..row * col - 1
  BY <1>1 DEF Matrix!Elements
<1> DEFINE a == r * col + k
           b == k * row + c
<1>5. a \in Matrix!Elements /\ b \in Matrix!Elements /\ a \in Nat
  BY <1>1, <1>2, <1>3, <1>4
<1>6. \A j \in 0..col - 1 : b = j * row + c => k = j
  <2> SUFFICES ASSUME NEW j \in 0..col - 1, b = j * row + c PROVE k = j
    OBVIOUS
  <2>1. k \in Nat /\ j \in Nat
    BY <1>1
  <2> QED
    BY <1>1, <2>1, Apart
<1> HIDE DEF a, b
<1>7. Matrix!Product(a, b) = <<a, b>> /\ <<a, b>> # Matrix!Wrong
  BY <1>5 DEF Matrix!Product, Matrix!Wrong
<1>8. \A j \in 0..col - 1 : <<a, b>> = <<r * col + j, j * row + c>> => k = j
  BY <1>6
<1> QED
  BY <1>5, <1>7, <1>8 DEF a, b

-----------------------------------------------------------------------------
(* The products of the CPU.                                                *)

LEMMA TileFacts ==
  ASSUME NEW n \in Nat \ {0}
  PROVE  /\ TILESIZE \in Nat \ {0} /\ Matrix!Tiles(n) \in 1..n
         /\ n % TILESIZE = 0 => TILESIZE * Matrix!Tiles(n) = n /\ Matrix!Tiled(n) = 0..n - 1
<1> DEFINE T == TILESIZE
           q == n \div T
           r == n % T
<1>1. T \in Nat \ {0}
  BY DimsAssumption
<1>2. q \in Nat /\ r \in 0..T - 1 /\ n = q * T + r
  <2>1. \A x \in Nat, y \in Nat \ {0} :
          x \div y \in Nat /\ x % y \in 0..y - 1 /\ x = (x \div y) * y + (x % y)
    <3> SUFFICES ASSUME NEW x \in Nat, NEW y \in Nat \ {0}
                 PROVE  x \div y \in Nat /\ x % y \in 0..y - 1 /\ x = (x \div y) * y + (x % y)
      OBVIOUS
    <3>1. x \div y \in Nat /\ x % y \in 0..y - 1 /\ x = y * (x \div y) + (x % y)
      OBVIOUS
    <3> QED
      BY <3>1
  <2> HIDE DEF T
  <2> QED
    BY <1>1, <2>1
<1> DEFINE m == n + T - 1
<1>3. Matrix!Tiles(n) = m \div T
  BY DEF Matrix!Tiles
<1> HIDE DEF T, q, r
<1>4. CASE r = 0
  <2>1. m = q * T + (T - 1) /\ T - 1 \in 0..T - 1
    BY <1>1, <1>2, <1>4
  <2>2. m \div T = q
    BY <1>1, <1>2, <2>1, Quotient
  <2>3. q \in 1..n
    <3>1. q = 0 => n = 0
      BY <1>1, <1>2, <1>4
    <3>2. q <= n
      <4>1. 1 * q <= T * q
        BY <1>1, <1>2, Products
      <4>2. 1 * q = q /\ T * q = n
        BY <1>1, <1>2, <1>4
      <4> QED
        BY <4>1, <4>2
    <3> QED
      BY <1>2, <1>4, <3>1, <3>2
  <2>4. T * q = n
    BY <1>1, <1>2, <1>4
  <2> QED
    BY <1>1, <1>3, <2>2, <2>3, <2>4 DEF T, Matrix!Tiled
<1>5. CASE r # 0
  <2>1. m = (q + 1) * T + (r - 1) /\ r - 1 \in 0..T - 1
    <3>1. (q + 1) * T = q * T + T /\ q * T \in Nat
      BY <1>1, <1>2
    <3> QED
      BY <1>1, <1>2, <1>5, <3>1
  <2>2. m \div T = q + 1
    BY <1>1, <1>2, <2>1, Quotient
  <2>3. q + 1 \in 1..n
    <3>1. 1 * q <= T * q /\ T * q = q * T /\ q * T \in Nat
      BY <1>1, <1>2, Products
    <3> QED
      BY <1>1, <1>2, <1>5, <3>1
  <2> QED
    BY <1>1, <1>3, <1>5, <2>2, <2>3 DEF T, r
<1> QED
  BY <1>4, <1>5

LEMMA InTile ==
  ASSUME NEW x \in Nat, NEW n \in Nat
  PROVE  x \in Matrix!Tile(n) <=> x \div TILESIZE = n
<1> DEFINE T == TILESIZE
           q == x \div T
           r == x % T
<1>1. T \in Nat \ {0}
  BY DimsAssumption
<1>2. q \in Nat /\ r \in 0..T - 1 /\ x = T * q + r
  <2>1. \A z \in Nat, y \in Nat \ {0} :
          z \div y \in Nat /\ z % y \in 0..y - 1 /\ z = y * (z \div y) + (z % y)
    OBVIOUS
  <2> HIDE DEF T
  <2> QED
    BY <1>1, <2>1
<1>3. Matrix!Tile(n) = T * n .. T * n + T - 1
  BY DEF Matrix!Tile
<1> HIDE DEF T, q, r
<1>4. T * n \in Nat /\ T * q \in Nat
  BY <1>1, <1>2
<1>5. q = n => x \in Matrix!Tile(n)
  <2> SUFFICES ASSUME q = n PROVE T * n <= x /\ x <= T * n + T - 1 /\ x \in Int /\ T * n + T - 1 \in Int
    BY <1>3
  <2>1. x = T * n + r
    BY <1>2
  <2> DEFINE a == T * n
  <2>2. a \in Nat /\ x = a + r
    BY <1>4, <2>1
  <2> HIDE DEF a
  <2>3. a <= x /\ x <= a + T - 1 /\ x \in Int /\ a + T - 1 \in Int
    BY <1>1, <1>2, <2>2
  <2> QED
    BY <2>3 DEF a
<1>6. x \in Matrix!Tile(n) => q = n
  <2> SUFFICES ASSUME x \in Matrix!Tile(n) PROVE q = n
    OBVIOUS
  <2> DEFINE s == x - T * n
  <2>1. s \in 0..T - 1 /\ x = n * T + s
    BY <1>1, <1>3, <1>4
  <2> HIDE DEF s
  <2>2. x = q * T + r
    BY <1>1, <1>2
  <2> QED
    BY <1>1, <1>2, <2>1, <2>2, Apart
<1> QED
  BY <1>5, <1>6 DEF q, T

LEMMA TurnBounds ==
  ASSUME MatrixSides, func \in Matrix!CpuFuncs
  PROVE  Matrix!Turns \in 1..row
<1>1. row \in Nat \ {0} /\ row \in 1..row /\ Matrix!Bcol = row
  BY DEF MatrixSides, Matrix!Bcol
<1>2. Matrix!Tiles(row) \in 1..row
  BY <1>1, TileFacts
<1> QED
  BY <1>1, <1>2 DEF Matrix!Turns, Matrix!CpuFuncs

\* Each turn of the outer loop is one thread's.
LEMMA MemberTurns ==
  ASSUME MatrixSides, func \in Matrix!CpuFuncs
  PROVE  /\ Matrix!Members \subseteq Threads
         /\ \A u \in Matrix!Members :
              /\ Matrix!FirstTurn(u) \in 0..Matrix!Turns /\ Matrix!EndTurn(u) \in 0..Matrix!Turns
              /\ Matrix!FirstTurn(u) <= Matrix!EndTurn(u)
         /\ \A u, v \in Matrix!Members :
              u < v => Matrix!EndTurn(u) <= Matrix!FirstTurn(v)
         /\ \A n \in 0..Matrix!Turns - 1 : \E u \in Matrix!Members :
              Matrix!FirstTurn(u) <= n /\ n < Matrix!EndTurn(u)
<1> DEFINE N == Matrix!Turns
<1>1. N \in Nat /\ N >= 1 /\ nthreads \in Nat \ {0} /\ Threads = 0..nthreads - 1
  BY TurnBounds, TeamAssumption DEF Threads, MatrixSides
<1>2. CASE func # "CPU_TILED_OMP"
  <2>1. Matrix!Members = {0} /\ \A u : Matrix!FirstTurn(u) = 0 /\ Matrix!EndTurn(u) = N
    BY <1>2 DEF Matrix!Members, Matrix!FirstTurn, Matrix!EndTurn
  <2> HIDE DEF N
  <2> QED
    BY <1>1, <2>1 DEF N
<1>3. CASE func = "CPU_TILED_OMP"
  <2>1. Matrix!Members = Threads
        /\ \A u : Matrix!FirstTurn(u) = First(u, N) /\ Matrix!EndTurn(u) = First(u + 1, N)
    BY <1>3 DEF Matrix!Members, Matrix!FirstTurn, Matrix!EndTurn, Matrix!First, Matrix!End, First,
      Matrix!Threads, Threads
  <2> HIDE DEF N
  <2>2. \A u \in Threads : u \in Nat /\ u + 1 \in Nat /\ u <= nthreads /\ u + 1 <= nthreads /\ u <= u + 1
    BY <1>1
  <2>3. ASSUME NEW u \in Nat, u <= nthreads
        PROVE  First(u, N) \in 0..N
    <3>1. First(u, N) \in Nat
      BY <1>1, FirstNat
    <3>2. First(u, N) <= First(nthreads, N) /\ First(nthreads, N) = N
      BY <1>1, <2>3, FirstMonotone, FirstEnds
    <3> QED
      BY <1>1, <3>1, <3>2
  <2>4. \A u \in Threads : First(u, N) \in 0..N /\ First(u + 1, N) \in 0..N
                           /\ First(u, N) <= First(u + 1, N)
    BY <1>1, <2>2, <2>3, FirstMonotone
  <2>5. ASSUME NEW u \in Threads, NEW v \in Threads, u < v
        PROVE  First(u + 1, N) <= First(v, N)
    <3>1. u + 1 <= v
      BY <1>1, <2>5
    <3> QED
      BY <1>1, <2>2, <3>1, FirstMonotone
  <2>6. \A n \in 0..N - 1 : \E u \in Threads : First(u, N) <= n /\ n < First(u + 1, N)
    BY <1>1, FirstCovers DEF End
  <2> QED
    BY <2>1, <2>4, <2>5, <2>6 DEF N
<1> QED
  BY <1>2, <1>3

\* The turn of the outer loop in which the element at r and c is computed.
TurnOf(r, c) ==
  CASE func = "CPU_STD"                        -> r
    [] func \in {"CPU_TILED", "CPU_TILED_OMP"} -> c \div TILESIZE
    [] func = "CPU_TILED_BASIC"                -> r \div TILESIZE

LEMMA AtFacts ==
  ASSUME MatrixSides, func \in Matrix!CpuFuncs, Matrix!Fits,
         NEW r \in 0..row - 1, NEW c \in 0..row - 1, NEW n \in 0..Matrix!Turns - 1
  PROVE  /\ Matrix!At(r * row + c, n) = IF TurnOf(r, c) = n THEN {r} \X {c} \X (0..col - 1) ELSE {}
         /\ TurnOf(r, c) \in 0..Matrix!Turns - 1
<1> DEFINE K == 0..col - 1
           T == TILESIZE
           N == Matrix!Turns
<1>1. row \in Nat \ {0} /\ col \in Nat \ {0} /\ Matrix!Bcol = row /\ N \in 1..row /\ n \in Nat
  BY TurnBounds DEF MatrixSides, Matrix!Bcol
<1>2. /\ T \in Nat \ {0}
      /\ func # "CPU_STD" => /\ T * Matrix!Tiles(row) = row
                             /\ Matrix!Tiled(row) = 0..row - 1 /\ Matrix!Tiled(col) = K
                             /\ N = Matrix!Tiles(row)
  <2>1. func # "CPU_STD" => row % T = 0 /\ col % T = 0
    BY DEF Matrix!Fits, Matrix!CpuFuncs
  <2>2. func # "CPU_STD" => N = Matrix!Tiles(row)
    BY <1>1 DEF Matrix!Turns, Matrix!CpuFuncs
  <2> QED
    BY <1>1, <2>1, <2>2, TileFacts
<1> HIDE DEF T, N
<1>3. func # "CPU_STD" => Matrix!Tile(n) \subseteq 0..row - 1
  <2> SUFFICES ASSUME func # "CPU_STD" PROVE Matrix!Tile(n) \subseteq 0..row - 1
    OBVIOUS
  <2>1. T * N = row
    BY <1>2
  <2>2. (n + 1) * T <= N * T /\ (n + 1) * T = T * n + T /\ N * T = T * N /\ T * n \in Nat
    <3>1. n + 1 \in Nat /\ N \in Nat /\ n + 1 <= N
      BY <1>1 DEF N
    <3>2. (n + 1) * T <= N * T
      BY <1>1, <1>2, <3>1, Products
    <3> QED
      BY <1>1, <1>2, <3>1, <3>2
  <2>3. Matrix!Tile(n) = T * n .. T * n + T - 1
    BY DEF Matrix!Tile, T
  <2> DEFINE a == T * n
  <2>4. a \in Nat /\ a + T <= row /\ Matrix!Tile(n) = a .. a + T - 1
    BY <2>1, <2>2, <2>3
  <2> HIDE DEF a
  <2> QED
    BY <1>1, <1>2, <2>4
<1> DEFINE P == CASE func = "CPU_STD"                        -> {n}
                  [] func \in {"CPU_TILED", "CPU_TILED_OMP"} -> 0..row - 1
                  [] func = "CPU_TILED_BASIC"                -> Matrix!Tile(n)
           Q == IF func \in {"CPU_TILED", "CPU_TILED_OMP"} THEN Matrix!Tile(n) ELSE 0..row - 1
<1>4. /\ Matrix!Body(n) = P \X Q \X K
      /\ P \subseteq 0..row - 1 /\ Q \subseteq 0..row - 1
      /\ r \in P /\ c \in Q <=> TurnOf(r, c) = n
  <2>1. CASE func = "CPU_STD"
    <3>1. Matrix!Body(n) = {n} \X (0..row - 1) \X K
      BY <1>1, <2>1 DEF Matrix!Body, Matrix!multiplyCPU_STD
    <3>2. {n} \subseteq 0..row - 1
      <4>1. N = row
        BY <2>1 DEF N, Matrix!Turns
      <4> QED
        BY <4>1 DEF N
    <3>3. TurnOf(r, c) = r
      BY <2>1 DEF TurnOf
    <3>4. P = {n} /\ Q = 0..row - 1
      BY <2>1
    <3> HIDE DEF P, Q
    <3> QED
      BY <3>1, <3>2, <3>3, <3>4
  <2>2. CASE func \in {"CPU_TILED", "CPU_TILED_OMP"}
    <3>1. Matrix!Body(n) = (0..row - 1) \X Matrix!Tile(n) \X K
      BY <1>1, <1>2, <2>2 DEF Matrix!Body, Matrix!multiplyCPU_TILED
    <3>2. c \in Matrix!Tile(n) <=> TurnOf(r, c) = n
      BY <1>1, <2>2, InTile DEF TurnOf
    <3>4. P = 0..row - 1 /\ Q = Matrix!Tile(n)
      BY <2>2
    <3> HIDE DEF P, Q
    <3> QED
      BY <1>3, <2>2, <3>1, <3>2, <3>4
  <2>3. CASE func = "CPU_TILED_BASIC"
    <3>1. Matrix!Body(n) = Matrix!Tile(n) \X (0..row - 1) \X K
      BY <1>1, <1>2, <2>3 DEF Matrix!Body, Matrix!multiplyCPU_TILED_BASIC
    <3>2. r \in Matrix!Tile(n) <=> TurnOf(r, c) = n
      BY <1>1, <2>3, InTile DEF TurnOf
    <3>4. P = Matrix!Tile(n) /\ Q = 0..row - 1
      BY <2>3
    <3> HIDE DEF P, Q
    <3> QED
      BY <1>3, <2>3, <3>1, <3>2, <3>4
  <2> QED
    BY <2>1, <2>2, <2>3 DEF Matrix!CpuFuncs
<1> HIDE DEF P, Q
<1>5. ASSUME NEW u \in Matrix!Body(n), u[1] * row + u[2] = r * row + c
      PROVE  u[1] = r /\ u[2] = c
  <2> DEFINE a == u[1]
             b == u[2]
  <2>1. a \in 0..row - 1 /\ b \in 0..row - 1 /\ a * row + b = r * row + c
    BY <1>4, <1>5
  <2> HIDE DEF a, b
  <2>2. a \in Nat /\ r \in Nat
    BY <1>1, <2>1
  <2>3. a = r /\ b = c
    BY <1>1, <2>1, <2>2, Apart
  <2> QED
    BY <2>3 DEF a, b
<1>6. Matrix!At(r * row + c, n) = {u \in Matrix!Body(n) : u[1] * row + u[2] = r * row + c}
  BY <1>1 DEF Matrix!At
<1>7. Matrix!At(r * row + c, n) = {u \in P \X Q \X K : u[1] = r /\ u[2] = c}
  BY <1>4, <1>5, <1>6
<1>8. TurnOf(r, c) \in 0..N - 1
  <2>1. CASE func = "CPU_STD"
    BY <2>1, <1>1 DEF TurnOf, N, Matrix!Turns
  <2>2. ASSUME NEW x \in 0..row - 1, func # "CPU_STD" PROVE x \div T \in 0..N - 1
    <3> DEFINE q == x \div T
    <3>1. q \in Nat /\ q * T <= x
      <4>1. \A z \in Nat, y \in Nat \ {0} : z \div y \in Nat /\ (z \div y) * y <= z
        <5> SUFFICES ASSUME NEW z \in Nat, NEW y \in Nat \ {0}
                     PROVE  z \div y \in Nat /\ (z \div y) * y <= z
          OBVIOUS
        <5>1. z \div y \in Nat /\ z % y \in 0..y - 1 /\ z = y * (z \div y) + (z % y)
          OBVIOUS
        <5> QED
          BY <5>1
      <4> QED
        BY <1>1, <1>2, <4>1
    <3> HIDE DEF q
    <3>2. N * T = row /\ N \in Nat
      BY <1>1, <1>2, <2>2
    <3>3. ~(N <= q)
      <4>1. N <= q => N * T <= q * T
        BY <1>2, <3>1, <3>2, Products
      <4>2. q * T \in Nat
        BY <1>2, <3>1
      <4> QED
        BY <1>1, <3>1, <3>2, <4>1, <4>2
    <3>4. q \in 0..N - 1
      BY <3>1, <3>2, <3>3
    <3> QED
      BY <3>4 DEF q
  <2> QED
    BY <2>1, <2>2 DEF TurnOf, T, Matrix!CpuFuncs
<1> QED
  BY <1>4, <1>7, <1>8 DEF N

-----------------------------------------------------------------------------
(* The types of a product.                                                 *)

\* The types, and where a call is: the kernels run if they are accepted.
MatrixTypes ==
  /\ MatrixSides
  /\ enabled \in BOOLEAN
  /\ host \in {"call", "cpu", "kernel", "done"}
  /\ host = "cpu" => func \in Matrix!CpuFuncs
  /\ host = "kernel" => func \in Matrix!GpuFuncs /\ enabled /\ Matrix!Accepted
  /\ calculated \in [Matrix!Cells -> Matrix!ElementSums]
  /\ next \in [Threads -> 0..row]
  /\ loaded = [u \in Threads |-> loaded[u]]
  /\ \A u \in Threads : \A x \in DOMAIN loaded[u] : loaded[u][x] \in Matrix!ElementSums
  /\ group \in Nat \X Nat
  /\ step \in [Matrix!Block -> Nat]
  /\ As \in [Matrix!Block -> Matrix!Elements \cup {-1}]
  /\ Bs \in [Matrix!Block -> Matrix!Elements \cup {-1}]
  /\ Csub \in [Matrix!Block -> Matrix!ElementSums]

LEMMA MatrixSets ==
  /\ Matrix!Threads = Threads /\ 0 \in Threads
  /\ {} \in Matrix!ElementSums /\ {Matrix!Wrong} \in Matrix!ElementSums
BY TeamAssumption DEF Matrix!Threads, Threads, Matrix!ElementSums

LEMMA SameMatrix ==
  ASSUME UNCHANGED input
  PROVE  /\ row' = row /\ col' = col /\ func' = func /\ app' = app
         /\ Matrix!Cells' = Matrix!Cells /\ Matrix!Elements' = Matrix!Elements
         /\ Matrix!ElementSums' = Matrix!ElementSums
         /\ (MatrixSides' <=> MatrixSides)
         /\ (Matrix!Accepted' <=> Matrix!Accepted)
BY DEF input, Matrix!Cells, Matrix!Elements, Matrix!ElementSums, Matrix!Bcol, MatrixSides,
  Matrix!Accepted, Matrix!globalWorkSize, Matrix!argument

LEMMA MatrixTypesInitially == ASSUME MatrixSides, Matrix!Init PROVE MatrixTypes
<1>1. /\ enabled \in BOOLEAN /\ host = "call" /\ group = <<0, 0>>
      /\ calculated = [x \in Matrix!Cells |-> {}] /\ next = [u \in Threads |-> 0]
      /\ loaded = [u \in Threads |-> <<>>]
      /\ step = [l \in Matrix!Block |-> 0] /\ Csub = [l \in Matrix!Block |-> {}]
      /\ As = [l \in Matrix!Block |-> -1] /\ Bs = [l \in Matrix!Block |-> -1]
  BY MatrixSets DEF Matrix!Init, Matrix!FreshItems
<1>2. row \in Nat
  BY DEF MatrixSides
<1> QED
  BY <1>1, <1>2, MatrixSets DEF MatrixTypes

LEMMA HostTypesStep ==
  ASSUME MatrixTypes, UNCHANGED <<input, enabled>>,
         Matrix!EnterCpu \/ Matrix!LeaveCpu \/ Matrix!Enqueue \/ Matrix!Kernel \/ Matrix!GroupEnds
  PROVE  MatrixTypes'
<1>1. /\ enabled' = enabled /\ func' = func /\ row' = row /\ MatrixSides
      /\ Matrix!Cells' = Matrix!Cells /\ Matrix!Elements' = Matrix!Elements
      /\ Matrix!ElementSums' = Matrix!ElementSums /\ (MatrixSides' <=> MatrixSides)
      /\ (Matrix!Accepted' <=> Matrix!Accepted)
  BY SameMatrix DEF MatrixTypes
<1>2. CASE Matrix!EnterCpu
  <2>1. func \in Matrix!CpuFuncs /\ host' = "cpu"
        /\ next' = [u \in Threads |-> IF u \in Matrix!Members THEN Matrix!FirstTurn(u) ELSE 0]
        /\ calculated' = calculated /\ loaded' = loaded /\ group' = group
        /\ step' = step /\ As' = As /\ Bs' = Bs /\ Csub' = Csub
    BY <1>2, MatrixSets DEF Matrix!EnterCpu, Matrix!itemVars
  <2>2. next' \in [Threads -> 0..row]
    <3>1. row \in Nat \ {0}
      BY <1>1 DEF MatrixSides
    <3>2. \A u \in Matrix!Members : Matrix!FirstTurn(u) \in 0..row
      BY <1>1, <2>1, <3>1, TurnBounds, MemberTurns
    <3> QED
      BY <2>1, <3>1, <3>2
  <2> QED
    BY <1>1, <2>1, <2>2 DEF MatrixTypes
<1>3. CASE Matrix!LeaveCpu
  <2>1. host' = "done" /\ next' = next
        /\ calculated' = calculated /\ loaded' = loaded /\ group' = group
        /\ step' = step /\ As' = As /\ Bs' = Bs /\ Csub' = Csub
    BY <1>3 DEF Matrix!LeaveCpu, Matrix!itemVars
  <2> QED
    BY <1>1, <2>1 DEF MatrixTypes
<1>4. CASE Matrix!Enqueue
  <2>1. host' \in {"kernel", "done"} /\ next' = next
        /\ (host' = "kernel" => enabled /\ Matrix!Accepted) /\ func \in Matrix!GpuFuncs
        /\ calculated' = (IF enabled THEN [x \in Matrix!Cells |-> {Matrix!Wrong}] ELSE calculated)
        /\ loaded' = loaded /\ group' = group
        /\ step' = step /\ As' = As /\ Bs' = Bs /\ Csub' = Csub
    BY <1>4 DEF Matrix!Enqueue, Matrix!itemVars
  <2>2. calculated' \in [Matrix!Cells -> Matrix!ElementSums]
    BY <2>1, MatrixSets DEF MatrixTypes
  <2>3. /\ host' = "kernel" => func' \in Matrix!GpuFuncs /\ enabled' /\ Matrix!Accepted'
        /\ host' \in {"call", "cpu", "kernel", "done"} /\ host' # "cpu"
    BY <1>1, <2>1
  <2>4. /\ enabled' \in BOOLEAN /\ MatrixSides' /\ next' \in [Threads -> 0..row']
        /\ calculated' \in [Matrix!Cells' -> Matrix!ElementSums']
    BY <1>1, <2>1, <2>2 DEF MatrixTypes
  <2> QED
    BY <1>1, <2>1, <2>3, <2>4 DEF MatrixTypes
<1>5. CASE Matrix!Kernel
  <2> DEFINE out == {<<Matrix!Cell(j, i1, l), Matrix!Plus({}, Matrix!Products(j, i1, l))>> :
                       j \in 0..Matrix!globalWorkSize[1] - 1,
                       i1 \in 0..Matrix!globalWorkSize[2] - 1, l \in Matrix!Lanes}
             stored(x) == {o[2] : o \in {p \in out : p[1] = x}}
  <2>1. host' = "done" /\ next' = next /\ loaded' = loaded /\ group' = group
        /\ calculated' = [x \in Matrix!Cells |->
             IF Matrix!Cardinality(stored(x)) = 1 THEN CHOOSE s \in stored(x) : TRUE
             ELSE {Matrix!Wrong}]
        /\ step' = step /\ As' = As /\ Bs' = Bs /\ Csub' = Csub
    BY <1>5 DEF Matrix!Kernel, Matrix!itemVars
  <2>6. func \in {"GPU_STD", "GPU_VEC4", "GPU_VEC8"}
    BY <1>5 DEF MatrixTypes, Matrix!Kernel, Matrix!GpuFuncs
  <2>2. \A j, i1, l : Matrix!Plus({}, Matrix!Products(j, i1, l)) \in Matrix!ElementSums
    <3> SUFFICES ASSUME NEW j, NEW i1, NEW l
                 PROVE  Matrix!Plus({}, Matrix!Products(j, i1, l)) \in Matrix!ElementSums
      OBVIOUS
    <3>1. \A x \in DOMAIN Matrix!Products(j, i1, l) :
            Matrix!Products(j, i1, l)[x] \in (Matrix!Elements \X Matrix!Elements) \cup {Matrix!Wrong}
      BY <2>6, ProductTypes DEF Matrix!Products
    <3> QED
      BY <3>1, MatrixSets, PlusTypes
  <2>3. \A x : stored(x) \subseteq Matrix!ElementSums
    BY <2>2
  <2> HIDE DEF out, stored
  <2>4. ASSUME NEW x, Matrix!Cardinality(stored(x)) = 1
        PROVE  (CHOOSE s \in stored(x) : TRUE) \in Matrix!ElementSums
    <3>1. stored(x) # {}
      BY <2>4, SameCardinality, FS_EmptySet
    <3>2. (CHOOSE s \in stored(x) : TRUE) \in stored(x)
      BY <3>1
    <3> QED
      BY <2>3, <3>2
  <2>5. calculated' \in [Matrix!Cells -> Matrix!ElementSums]
    BY <2>1, <2>4, MatrixSets
  <2> QED
    BY <1>1, <2>1, <2>5 DEF MatrixTypes
<1>6. CASE Matrix!GroupEnds
  <2>1. /\ \/ host' = host /\ group' = <<group[1] + 1, group[2]>>
           \/ host' = host /\ group' = <<0, group[2] + 1>>
           \/ host' = "done" /\ group' = group
        /\ step' = Matrix!FreshItems.step /\ Csub' = Matrix!FreshItems.Csub
        /\ As' = Matrix!FreshItems.tile /\ Bs' = Matrix!FreshItems.tile
        /\ calculated' = calculated /\ next' = next /\ loaded' = loaded
    BY <1>6 DEF Matrix!GroupEnds
  <2>2. group' \in Nat \X Nat
    BY <2>1 DEF MatrixTypes
  <2>3. /\ step' \in [Matrix!Block -> Nat]
        /\ As' \in [Matrix!Block -> Matrix!Elements \cup {-1}]
        /\ Bs' \in [Matrix!Block -> Matrix!Elements \cup {-1}]
        /\ Csub' \in [Matrix!Block -> Matrix!ElementSums]
    BY <2>1, MatrixSets DEF Matrix!FreshItems
  <2> QED
    BY <1>1, <2>1, <2>2, <2>3 DEF MatrixTypes
<1> QED
  BY <1>2, <1>3, <1>4, <1>5, <1>6

LEMMA CpuTypesStep ==
  ASSUME MatrixTypes, UNCHANGED <<input, enabled>>, NEW u \in Threads,
         Matrix!Read(u) \/ Matrix!Write(u)
  PROVE  MatrixTypes'
<1>1. /\ enabled' = enabled /\ func' = func /\ row' = row /\ MatrixSides
      /\ Matrix!Cells' = Matrix!Cells /\ Matrix!Elements' = Matrix!Elements
      /\ Matrix!ElementSums' = Matrix!ElementSums /\ (MatrixSides' <=> MatrixSides)
      /\ (Matrix!Accepted' <=> Matrix!Accepted)
  BY SameMatrix DEF MatrixTypes
<1>2. /\ calculated \in [Matrix!Cells -> Matrix!ElementSums]
      /\ next \in [Threads -> 0..row]
      /\ loaded = [v \in Threads |-> loaded[v]]
      /\ \A v \in Threads : \A x \in DOMAIN loaded[v] : loaded[v][x] \in Matrix!ElementSums
      /\ host = "cpu" => func \in Matrix!CpuFuncs
  BY DEF MatrixTypes
<1>3. CASE Matrix!Read(u)
  <2>1. /\ loaded' = [loaded EXCEPT ![u] =
             [x \in {y \in Matrix!Cells : Matrix!At(y, next[u]) # {}} |-> calculated[x]]]
        /\ calculated' = calculated /\ next' = next /\ host' = host /\ group' = group
        /\ step' = step /\ As' = As /\ Bs' = Bs /\ Csub' = Csub
    BY <1>3 DEF Matrix!Read, Matrix!itemVars
  <2> DEFINE new == [x \in {y \in Matrix!Cells : Matrix!At(y, next[u]) # {}} |-> calculated[x]]
  <2>2. \A x \in DOMAIN new : new[x] \in Matrix!ElementSums
    BY <1>2
  <2> HIDE DEF new
  <2>3. loaded' = [v \in Threads |-> IF v = u THEN new ELSE loaded[v]]
    BY <1>2, <2>1 DEF new
  <2>4. /\ loaded' = [v \in Threads |-> loaded'[v]]
        /\ \A v \in Threads : \A x \in DOMAIN loaded'[v] : loaded'[v][x] \in Matrix!ElementSums
    BY <1>2, <2>2, <2>3
  <2> QED
    BY <1>1, <2>1, <2>4 DEF MatrixTypes
<1>4. CASE Matrix!Write(u)
  <2> DEFINE f(x) == [v \in Matrix!At(x, next[u]) |->
                        Matrix!Product(v[1] * col + v[3], v[3] * Matrix!Bcol + v[2])]
  <2>1. /\ calculated' = [x \in Matrix!Cells |->
              IF x \in DOMAIN loaded[u] THEN Matrix!Plus(loaded[u][x], f(x)) ELSE calculated[x]]
        /\ host = "cpu" /\ u \in Matrix!Members /\ next[u] < Matrix!EndTurn(u)
        /\ loaded' = [loaded EXCEPT ![u] = <<>>] /\ next' = [next EXCEPT ![u] = @ + 1]
        /\ host' = host /\ group' = group
        /\ step' = step /\ As' = As /\ Bs' = Bs /\ Csub' = Csub
    BY <1>4 DEF Matrix!Write, Matrix!itemVars
  <2>2. \A x : x \in DOMAIN loaded[u] => Matrix!Plus(loaded[u][x], f(x)) \in Matrix!ElementSums
    <3> SUFFICES ASSUME NEW x, x \in DOMAIN loaded[u]
                 PROVE  Matrix!Plus(loaded[u][x], f(x)) \in Matrix!ElementSums
      OBVIOUS
    <3>1. \A v \in DOMAIN f(x) :
            f(x)[v] \in (Matrix!Elements \X Matrix!Elements) \cup {Matrix!Wrong}
      BY ProductTypes
    <3>2. loaded[u][x] \in Matrix!ElementSums
      BY <1>2
    <3> HIDE DEF f
    <3> QED
      BY <3>1, <3>2, PlusTypes
  <2> HIDE DEF f
  <2>3. calculated' \in [Matrix!Cells -> Matrix!ElementSums]
    BY <1>2, <2>1, <2>2
  <2>4. next' \in [Threads -> 0..row]
    <3>1. Matrix!EndTurn(u) \in 0..row /\ row \in Nat
      BY <1>1, <1>2, <2>1, TurnBounds, MemberTurns DEF MatrixSides
    <3> QED
      BY <1>2, <2>1, <3>1
  <2>5. loaded' = [v \in Threads |-> IF v = u THEN <<>> ELSE loaded[v]]
    BY <1>2, <2>1
  <2>6. /\ loaded' = [v \in Threads |-> loaded'[v]]
        /\ \A v \in Threads : \A x \in DOMAIN loaded'[v] : loaded'[v][x] \in Matrix!ElementSums
    BY <1>2, <2>5
  <2> QED
    BY <1>1, <2>1, <2>3, <2>4, <2>6 DEF MatrixTypes
<1> QED
  BY <1>3, <1>4

LEMMA ItemTypesStep ==
  ASSUME MatrixTypes, UNCHANGED <<input, enabled>>, NEW l \in Matrix!Block,
         Matrix!LoadBlock(l) \/ Matrix!MultiplyBlock(l) \/ Matrix!WriteSub(l)
  PROVE  MatrixTypes'
<1>1. /\ enabled' = enabled /\ func' = func /\ row' = row /\ MatrixSides
      /\ Matrix!Cells' = Matrix!Cells /\ Matrix!Elements' = Matrix!Elements
      /\ Matrix!ElementSums' = Matrix!ElementSums /\ (MatrixSides' <=> MatrixSides)
      /\ (Matrix!Accepted' <=> Matrix!Accepted)
  BY SameMatrix DEF MatrixTypes
<1>2. /\ calculated \in [Matrix!Cells -> Matrix!ElementSums]
      /\ step \in [Matrix!Block -> Nat]
      /\ As \in [Matrix!Block -> Matrix!Elements \cup {-1}]
      /\ Bs \in [Matrix!Block -> Matrix!Elements \cup {-1}]
      /\ Csub \in [Matrix!Block -> Matrix!ElementSums]
  BY DEF MatrixTypes
<1>3. step' = [step EXCEPT ![l] = @ + 1] /\ next' = next /\ loaded' = loaded /\ host' = host
      /\ group' = group
  BY DEF Matrix!LoadBlock, Matrix!MultiplyBlock, Matrix!WriteSub, Matrix!Advance
<1>4. step' \in [Matrix!Block -> Nat]
  BY <1>2, <1>3
<1>5. CASE Matrix!LoadBlock(l)
  <2>1. \A k : Matrix!Entry(k) \in Matrix!Elements \cup {-1}
    BY DEF Matrix!Entry
  <2>2. /\ As' \in [Matrix!Block -> Matrix!Elements \cup {-1}]
        /\ Bs' \in [Matrix!Block -> Matrix!Elements \cup {-1}]
        /\ calculated' = calculated /\ Csub' = Csub
    BY <1>2, <1>5, <2>1 DEF Matrix!LoadBlock
  <2> QED
    BY <1>1, <1>3, <1>4, <2>2 DEF MatrixTypes
<1>6. CASE Matrix!MultiplyBlock(l)
  <2> DEFINE f == [k \in 0..BLOCK_SIZE - 1 |-> Matrix!Product(As[<<l[2], k>>], Bs[<<k, l[1]>>])]
  <2>1. /\ Csub' = [Csub EXCEPT ![l] = Matrix!Plus(@, f)]
        /\ calculated' = calculated /\ As' = As /\ Bs' = Bs
    BY <1>6 DEF Matrix!MultiplyBlock
  <2>2. \A k \in DOMAIN f : f[k] \in (Matrix!Elements \X Matrix!Elements) \cup {Matrix!Wrong}
    BY ProductTypes
  <2> HIDE DEF f
  <2>3. Matrix!Plus(Csub[l], f) \in Matrix!ElementSums
    BY <1>2, <2>2, PlusTypes
  <2>4. Csub' \in [Matrix!Block -> Matrix!ElementSums]
    BY <1>2, <2>1, <2>3
  <2> QED
    BY <1>1, <1>3, <1>4, <2>1, <2>4 DEF MatrixTypes
<1>7. CASE Matrix!WriteSub(l)
  <2>1. /\ calculated' \in [Matrix!Cells -> Matrix!ElementSums]
        /\ As' = As /\ Bs' = Bs /\ Csub' = Csub
    BY <1>2, <1>7 DEF Matrix!WriteSub
  <2> QED
    BY <1>1, <1>3, <1>4, <2>1 DEF MatrixTypes
<1> QED
  BY <1>5, <1>6, <1>7

LEMMA MatrixTypesStep ==
  ASSUME MatrixTypes, UNCHANGED <<input, enabled>>, Matrix!Next
  PROVE  MatrixTypes'
BY HostTypesStep, CpuTypesStep, ItemTypesStep, MatrixSets DEF Matrix!Next

LEMMA MatrixTypesOK == MatrixTypes => Matrix!TypeOK
BY MatrixSets DEF MatrixTypes, Matrix!TypeOK

-----------------------------------------------------------------------------
(* What the elements hold.                                                 *)

\* Turn n of the outer loop has been taken.
Did(n) == \E u \in Matrix!Members : Matrix!FirstTurn(u) <= n /\ n < next[u]

\* Before the function that was called does anything.
Calling ==
  host = "call" =>
    /\ group = <<0, 0>>
    /\ \A l \in Matrix!Block : step[l] = 0 /\ Csub[l] = {}
    /\ \A x \in Matrix!Cells : calculated[x] = {}
    /\ \A u \in Threads : loaded[u] = <<>>

\* On the CPU: a thread between the loads of its turn and their sums has loaded what has no
\* products yet, and an element has all its products once its turn is taken, none before.
Adding ==
  host = "cpu" =>
    /\ \A u \in Matrix!Members : next[u] \in Matrix!FirstTurn(u)..Matrix!EndTurn(u)
    /\ \A u \in Matrix!Members, n \in Nat : loaded[u] # <<>> /\ n = next[u] =>
         /\ n < Matrix!EndTurn(u)
         /\ DOMAIN loaded[u] = {x \in Matrix!Cells : Matrix!At(x, n) # {}}
         /\ \A x \in DOMAIN loaded[u] : loaded[u][x] = {}
    /\ \A r, c \in 0..row - 1 :
         calculated[r * row + c] = IF Did(TurnOf(r, c)) THEN AllOf(r, c) ELSE {}

\* Item l of the group that runs computes the element at r and c.
IsItem(l, r, c) == r = BLOCK_SIZE * group[2] + l[2] /\ c = BLOCK_SIZE * group[1] + l[1]
\* The step of an item that has stored its sum.
LastStep == 2 * Matrix!Blocks + 1

\* It has ended, in this group or an earlier one.
Written(r, c) ==
  \/ r < BLOCK_SIZE * group[2]
  \/ r < BLOCK_SIZE * group[2] + BLOCK_SIZE /\ c < BLOCK_SIZE * group[1]
  \/ \E l \in Matrix!Block : IsItem(l, r, c) /\ step[l] = LastStep

\* What the item has added and loaded, in turn n of its loop.
ItemHas(l, r, c, n) ==
  /\ step[l] \in {2 * n, 2 * n + 1} => Csub[l] = UpTo(r, c, BLOCK_SIZE * n)
  /\ step[l] \in {2 * n + 1, 2 * n + 2} /\ n < Matrix!Blocks =>
       /\ As[<<l[2], l[1]>>] = r * col + (BLOCK_SIZE * n + l[1])
       /\ Bs[<<l[2], l[1]>>] = (BLOCK_SIZE * n + l[2]) * row + c

\* In the group that runs no item is more than a step ahead of another; an item has added
\* the products of the blocks before its turn, and what was written is all there is.
Multiplying ==
  host = "kernel" /\ func = "GPU_DISC" =>
    /\ group[1] < row \div BLOCK_SIZE /\ group[2] < row \div BLOCK_SIZE
    /\ \A l \in Matrix!Block :
         step[l] \in 0..LastStep /\ \A u \in Matrix!Block : step[l] <= step[u] + 1
    /\ \A l \in Matrix!Block : \A r, c, n \in Nat : IsItem(l, r, c) => ItemHas(l, r, c, n)
    /\ \A r, c \in 0..row - 1 : Written(r, c) => calculated[r * row + c] = AllOf(r, c)

\* The other kernels take no steps.
NoSteps ==
  host = "kernel" /\ func # "GPU_DISC" => \A l \in Matrix!Block : step[l] = 0

\* What ProductRight says of a function that has returned.
ProductDone ==
  host = "done" /\ func # "GPU_VEC8" /\ (func \in Matrix!GpuFuncs => enabled) => Matrix!Right

\* What the elements hold, where the sides fit the function.
MatrixValues == Calling /\ NoSteps /\ (Matrix!Fits => Adding /\ Multiplying /\ ProductDone)

\* What depends on the input only.
LEMMA SameShapes ==
  ASSUME UNCHANGED input
  PROVE  /\ \A r, c, n : UpTo(r, c, n)' = UpTo(r, c, n)
         /\ \A r, c : AllOf(r, c)' = AllOf(r, c)
         /\ \A r, c : TurnOf(r, c)' = TurnOf(r, c)
         /\ Matrix!Members' = Matrix!Members /\ Matrix!Turns' = Matrix!Turns
         /\ \A u : Matrix!FirstTurn(u)' = Matrix!FirstTurn(u)
         /\ \A u : Matrix!EndTurn(u)' = Matrix!EndTurn(u)
         /\ \A x, n : Matrix!At(x, n)' = Matrix!At(x, n)
         /\ (Matrix!Fits' <=> Matrix!Fits)
         /\ Matrix!Blocks' = Matrix!Blocks /\ LastStep' = LastStep
<1>1. /\ row' = row /\ col' = col /\ func' = func /\ Matrix!Bcol' = Matrix!Bcol
      /\ (Matrix!Accepted' <=> Matrix!Accepted)
  BY SameMatrix DEF Matrix!Bcol
<1>2. /\ \A r, c, n : UpTo(r, c, n)' = UpTo(r, c, n)
      /\ \A r, c : AllOf(r, c)' = AllOf(r, c)
      /\ \A r, c : TurnOf(r, c)' = TurnOf(r, c)
  BY <1>1 DEF UpTo, AllOf, TurnOf
<1>3. Matrix!Members' = Matrix!Members /\ Matrix!Turns' = Matrix!Turns
  BY <1>1 DEF Matrix!Members, Matrix!Turns
<1>4. /\ \A u : Matrix!FirstTurn(u)' = Matrix!FirstTurn(u)
      /\ \A u : Matrix!EndTurn(u)' = Matrix!EndTurn(u)
  BY <1>1, <1>3 DEF Matrix!FirstTurn, Matrix!EndTurn
<1>5. \A x, n : Matrix!At(x, n)' = Matrix!At(x, n)
  <2>1. \A n : Matrix!Body(n)' = Matrix!Body(n)
    BY <1>1 DEF Matrix!Body, Matrix!multiplyCPU_STD, Matrix!multiplyCPU_TILED,
      Matrix!multiplyCPU_TILED_BASIC, Matrix!Tiled
  <2> QED
    BY <1>1, <2>1 DEF Matrix!At
<1>6. Matrix!Blocks' = Matrix!Blocks /\ LastStep' = LastStep
  BY <1>1 DEF LastStep, Matrix!Blocks
<1>7. Matrix!Fits' <=> Matrix!Fits
  BY <1>1 DEF Matrix!Fits
<1> QED
  BY <1>2, <1>3, <1>4, <1>5, <1>6, <1>7

\* Every cell of the result is at a row and a column.
LEMMA CellOf ==
  ASSUME MatrixSides
  PROVE  /\ \A x \in Matrix!Cells : \E r, c \in 0..row - 1 : x = r * row + c
         /\ \A r, c \in 0..row - 1 : r * row + c \in Matrix!Cells
<1>1. row \in Nat \ {0} /\ Matrix!Cells = 0..row * row - 1
  BY DEF MatrixSides, Matrix!Cells, Matrix!Bcol
<1>2. ASSUME NEW x \in Matrix!Cells PROVE \E r, c \in 0..row - 1 : x = r * row + c
  <2>1. \A n \in Nat \ {0} : \A y \in 0..n * n - 1 :
          y \in Nat /\ y \div n \in Nat /\ y % n \in 0..n - 1 /\ y = (y \div n) * n + (y % n)
    <3> SUFFICES ASSUME NEW n \in Nat \ {0}, NEW y \in 0..n * n - 1
                 PROVE  y \in Nat /\ y \div n \in Nat /\ y % n \in 0..n - 1
                        /\ y = (y \div n) * n + (y % n)
      OBVIOUS
    <3> DEFINE b == n * n
    <3>1. b \in Nat /\ y \in 0..b - 1
      OBVIOUS
    <3> HIDE DEF b
    <3>2. y \in Nat
      BY <3>1
    <3>3. y \div n \in Nat /\ y % n \in 0..n - 1 /\ y = n * (y \div n) + (y % n)
      BY <3>2
    <3> QED
      BY <3>2, <3>3
  <2> DEFINE r == x \div row
             c == x % row
  <2>2. x \in Nat /\ r \in Nat /\ c \in 0..row - 1 /\ x = r * row + c
    BY <1>1, <2>1
  <2>3. x < row * row
    <3> DEFINE b == row * row
    <3>1. b \in Nat /\ x \in 0..b - 1
      BY <1>1
    <3> HIDE DEF b
    <3>2. x < b
      BY <3>1
    <3> QED
      BY <3>2 DEF b
  <2> HIDE DEF r, c
  <2>4. r < row
    <3>1. row <= r => row * row <= r * row
      BY <1>1, <2>2, Products
    <3>2. row * row \in Nat /\ r * row \in Nat
      BY <1>1, <2>2
    <3> QED
      BY <1>1, <2>2, <2>3, <3>1, <3>2
  <2>5. r \in 0..row - 1
    BY <1>1, <2>2, <2>4
  <2> QED
    BY <2>2, <2>5
<1>3. \A r, c \in 0..row - 1 : r * row + c \in Matrix!Cells
  BY <1>1, Index
<1> QED
  BY <1>2, <1>3

\* What a function adds to an element that holds the first products of it.
LEMMA PlusNext ==
  ASSUME MatrixSides, NEW r \in 0..row - 1, NEW c \in 0..row - 1,
         NEW m \in Nat, NEW n \in Nat, m + n <= col, NEW D, NEW f, f = [d \in D |-> f[d]],
         NEW at, at \in [D -> 0..n - 1], \A k \in 0..n - 1 : \E d \in D : at[d] = k,
         \A d, e \in D : at[d] = at[e] => d = e,
         \A d \in D : f[d] = Matrix!Product(r * col + (m + at[d]), (m + at[d]) * row + c)
  PROVE  Matrix!Plus(UpTo(r, c, m), f) = UpTo(r, c, m + n)
<1>1. col \in Nat \ {0}
  BY DEF MatrixSides
<1> DEFINE P(k) == <<r * col + k, k * row + c>>
<1>2. \A k, j \in 0..col - 1 : Matrix!Product(r * col + k, k * row + c) = P(k)
                               /\ P(k) # Matrix!Wrong /\ (P(k) = P(j) => k = j)
  BY ProductFacts
<1>3. UpTo(r, c, m) = {P(k) : k \in 0..m - 1} /\ UpTo(r, c, m + n) = {P(k) : k \in 0..m + n - 1}
  BY DEF UpTo
<1> HIDE DEF P
<1>4. \A d \in D : m + at[d] \in 0..col - 1 /\ at[d] \in 0..n - 1
  BY <1>1
<1>5. \A d \in D : f[d] = P(m + at[d])
  BY <1>2, <1>4
<1>6. \A d, e \in D : f[d] = f[e] => d = e
  <2> SUFFICES ASSUME NEW d \in D, NEW e \in D, f[d] = f[e] PROVE d = e
    OBVIOUS
  <2>1. m + at[d] = m + at[e]
    BY <1>2, <1>4, <1>5
  <2>2. at[d] = at[e]
    BY <1>4, <2>1
  <2> QED
    BY <2>2
<1>7. \A d \in D : f[d] # Matrix!Wrong /\ f[d] \notin UpTo(r, c, m)
  <2> SUFFICES ASSUME NEW d \in D PROVE f[d] # Matrix!Wrong /\ f[d] \notin UpTo(r, c, m)
    OBVIOUS
  <2>1. f[d] = P(m + at[d]) /\ m + at[d] \in 0..col - 1 /\ at[d] \in 0..n - 1
    BY <1>4, <1>5
  <2>2. \A k \in 0..m - 1 : k \in 0..col - 1 /\ k # m + at[d]
    BY <1>1, <2>1
  <2>3. \A k \in 0..m - 1 : P(m + at[d]) # P(k)
    BY <1>2, <2>1, <2>2
  <2> QED
    BY <1>2, <1>3, <2>1, <2>3
<1>8. Matrix!Wrong \notin UpTo(r, c, m)
  <2>1. \A k \in 0..m - 1 : k \in 0..col - 1
    BY <1>1
  <2> QED
    BY <1>2, <1>3, <2>1
<1>9. IsFiniteSet(D)
  <2>1. IsFiniteSet(0..n - 1)
    <3>1. 0 \in Int /\ n - 1 \in Int
      OBVIOUS
    <3> QED
      BY <3>1, FS_Interval
  <2>2. at \in Injection(D, 0..n - 1)
    BY DEF Injection, IsInjective
  <2> QED
    BY <2>1, <2>2, FS_Injection
<1>10. f \in [D -> {f[d] : d \in D}]
  <2> DEFINE T == {f[d] : d \in D}
  <2>1. \A d \in D : f[d] \in T
    OBVIOUS
  <2> HIDE DEF T
  <2>2. [d \in D |-> f[d]] \in [D -> T]
    BY <2>1
  <2> QED
    BY <2>2 DEF T
<1>11. Matrix!Plus(UpTo(r, c, m), f) = UpTo(r, c, m) \cup {f[d] : d \in D}
  <2> DEFINE T == {f[d] : d \in D}
             s == UpTo(r, c, m)
  <2>1. f \in [D -> T] /\ \A d \in D : f[d] # Matrix!Wrong /\ f[d] \notin s
    BY <1>7, <1>10
  <2>2. Matrix!Wrong \notin s
    BY <1>8
  <2> HIDE DEF T, s
  <2>3. Matrix!Plus(s, f) = s \cup {f[d] : d \in D}
    <3>1. \A x, y \in D : f[x] = f[y] => x = y
      BY <1>6
    <3>2. f \in [D -> T]
      BY <2>1
    <3>3. \A d \in D : f[d] # Matrix!Wrong /\ f[d] \notin s
      BY <2>1
    <3> QED
      BY ONLY <1>9, <2>2, <3>1, <3>2, <3>3, PlusFresh
  <2> QED
    BY <2>3 DEF s
<1>12. UpTo(r, c, m) \cup {f[d] : d \in D} = UpTo(r, c, m + n)
  <2>1. \A d \in D : m + at[d] \in 0..m + n - 1
    BY <1>4
  <2>2. \A k \in 0..m - 1 : k \in 0..m + n - 1
    OBVIOUS
  <2>3. \A k \in 0..m + n - 1 : k \in 0..m - 1 \/ \E d \in D : k = m + at[d]
    <3> SUFFICES ASSUME NEW k \in 0..m + n - 1, k \notin 0..m - 1
                 PROVE  \E d \in D : k = m + at[d]
      OBVIOUS
    <3>1. k - m \in 0..n - 1 /\ k = m + (k - m)
      OBVIOUS
    <3> QED
      BY <3>1
  <2> QED
    BY <1>3, <1>5, <2>1, <2>2, <2>3
<1> QED
  BY <1>11, <1>12

LEMMA PlusAll ==
  ASSUME MatrixSides, NEW r \in 0..row - 1, NEW c \in 0..row - 1,
         NEW D, NEW f, f = [d \in D |-> f[d]],
         NEW at, at \in [D -> 0..col - 1], \A k \in 0..col - 1 : \E d \in D : at[d] = k,
         \A d, e \in D : at[d] = at[e] => d = e,
         \A d \in D : f[d] = Matrix!Product(r * col + at[d], at[d] * row + c)
  PROVE  Matrix!Plus({}, f) = AllOf(r, c)
<1> DEFINE m == 0
           n == col
<1>1. n \in Nat /\ m \in Nat /\ m + n <= col /\ m + n = col /\ at \in [D -> 0..n - 1]
      /\ \A k \in 0..n - 1 : \E d \in D : at[d] = k
  BY DEF MatrixSides
<1>2. \A d \in D : f[d] = Matrix!Product(r * col + (m + at[d]), (m + at[d]) * row + c)
  <2>1. \A d \in D : m + at[d] = at[d]
    BY <1>1
  <2> HIDE DEF m
  <2> QED
    BY <2>1
<1>3. UpTo(r, c, m) = {}
  BY DEF UpTo
<1> HIDE DEF m, n
<1>4. Matrix!Plus(UpTo(r, c, m), f) = UpTo(r, c, m + n)
  BY <1>1, <1>2, PlusNext
<1> QED
  BY <1>1, <1>3, <1>4 DEF AllOf

-----------------------------------------------------------------------------
(* The steps of the CPU's threads.                                         *)

\* A turn belongs to one thread, which takes it when it gets there.
LEMMA TurnTaken ==
  ASSUME MatrixSides, func \in Matrix!CpuFuncs, NEW u \in Matrix!Members,
         \A v \in Matrix!Members : next[v] \in Matrix!FirstTurn(v)..Matrix!EndTurn(v),
         next[u] < Matrix!EndTurn(u)
  PROVE  next[u] \in 0..Matrix!Turns - 1 /\ ~Did(next[u])
<1> DEFINE n == next[u]
           N == Matrix!Turns
<1>1. Matrix!Members \subseteq Threads /\ Threads \subseteq Int /\ N \in Nat
  BY MemberTurns, TurnBounds, TeamAssumption DEF Threads, MatrixSides
<1>2. \A v \in Matrix!Members : Matrix!FirstTurn(v) \in 0..N /\ Matrix!EndTurn(v) \in 0..N
  BY MemberTurns
<1>3. n \in 0..N - 1 /\ Matrix!FirstTurn(u) <= n /\ n < Matrix!EndTurn(u)
  <2> HIDE DEF N
  <2> QED
    BY <1>1, <1>2
<1>4. ASSUME NEW v \in Matrix!Members, Matrix!FirstTurn(v) <= n, n < next[v] PROVE FALSE
  <2>1. n < Matrix!EndTurn(v)
    BY <1>1, <1>2, <1>3, <1>4
  <2>2. CASE v = u
    BY <1>3, <1>4, <2>2
  <2>3. CASE v < u
    <3>1. Matrix!EndTurn(v) <= Matrix!FirstTurn(u)
      BY <2>3, MemberTurns
    <3> QED
      BY <1>1, <1>2, <1>3, <2>1, <3>1
  <2>4. CASE u < v
    <3>1. Matrix!EndTurn(u) <= Matrix!FirstTurn(v)
      BY <2>4, MemberTurns
    <3> QED
      BY <1>1, <1>2, <1>3, <1>4, <3>1
  <2> QED
    BY <1>1, <2>2, <2>3, <2>4
<1> QED
  BY <1>3, <1>4 DEF Did

LEMMA EnterAdding ==
  ASSUME MatrixTypes, Calling, Matrix!Fits, UNCHANGED <<input, enabled>>, Matrix!EnterCpu
  PROVE  Adding'
<1>1. /\ host = "call" /\ func \in Matrix!CpuFuncs /\ MatrixSides
      /\ next' = [v \in Threads |-> IF v \in Matrix!Members THEN Matrix!FirstTurn(v) ELSE 0]
      /\ calculated' = calculated /\ loaded' = loaded
  BY MatrixSets DEF Matrix!EnterCpu, MatrixTypes
<1>2. /\ Matrix!Members \subseteq Threads
      /\ \A v \in Matrix!Members :
           /\ Matrix!FirstTurn(v) \in 0..Matrix!Turns /\ Matrix!EndTurn(v) \in 0..Matrix!Turns
           /\ Matrix!FirstTurn(v) <= Matrix!EndTurn(v)
  BY <1>1, MemberTurns
<1>3. \A v \in Matrix!Members : next'[v] = Matrix!FirstTurn(v)
  BY <1>1, <1>2
<1>4. \A v \in Matrix!Members : next'[v] \in Matrix!FirstTurn(v)..Matrix!EndTurn(v)
  BY <1>2, <1>3
<1>5. \A v \in Matrix!Members : loaded'[v] = <<>>
  BY <1>1, <1>2 DEF Calling
<1>6. \A r, c \in 0..row - 1 : calculated'[r * row + c] = {} /\ ~Did(TurnOf(r, c))'
  <2> SUFFICES ASSUME NEW r \in 0..row - 1, NEW c \in 0..row - 1
               PROVE  calculated'[r * row + c] = {} /\ ~Did(TurnOf(r, c))'
    OBVIOUS
  <2>1. calculated'[r * row + c] = {}
    BY <1>1, CellOf DEF Calling
  <2>2. 0 \in 0..Matrix!Turns - 1 /\ Matrix!Turns \in Nat
    BY <1>1, TurnBounds DEF MatrixSides
  <2>3. TurnOf(r, c) \in 0..Matrix!Turns - 1
    BY <1>1, <2>2, AtFacts
  <2>4. \A v \in Matrix!Members : ~(Matrix!FirstTurn(v) <= TurnOf(r, c) /\ TurnOf(r, c) < next'[v])
    BY <1>2, <1>3, <2>2, <2>3
  <2> QED
    BY <2>1, <2>4, SameShapes DEF Did
<1>7. row' = row
  BY SameMatrix
<1> QED
  BY <1>4, <1>5, <1>6, <1>7, SameShapes DEF Adding

LEMMA ReadAdding ==
  ASSUME MatrixTypes, Adding, Matrix!Fits, UNCHANGED <<input, enabled>>,
         NEW u \in Threads, Matrix!Read(u)
  PROVE  Adding'
<1> DEFINE n == next[u]
           new == [x \in {y \in Matrix!Cells : Matrix!At(y, n) # {}} |-> calculated[x]]
<1>1. /\ host = "cpu" /\ func \in Matrix!CpuFuncs /\ MatrixSides
      /\ u \in Matrix!Members /\ n < Matrix!EndTurn(u)
      /\ loaded' = [loaded EXCEPT ![u] = new]
      /\ calculated' = calculated /\ next' = next /\ row' = row /\ host' = host
  BY SameMatrix DEF Matrix!Read, MatrixTypes
<1>2. /\ \A v \in Matrix!Members : next[v] \in Matrix!FirstTurn(v)..Matrix!EndTurn(v)
      /\ \A v \in Matrix!Members : loaded[v] # <<>> =>
           /\ next[v] < Matrix!EndTurn(v)
           /\ DOMAIN loaded[v] = {x \in Matrix!Cells : Matrix!At(x, next[v]) # {}}
           /\ \A x \in DOMAIN loaded[v] : loaded[v][x] = {}
      /\ \A r, c \in 0..row - 1 :
           calculated[r * row + c] = IF Did(TurnOf(r, c)) THEN AllOf(r, c) ELSE {}
  <2>1. \A v \in Matrix!Members : next[v] \in Nat
    BY <1>1, MemberTurns DEF MatrixTypes, MatrixSides
  <2> QED
    BY <1>1, <2>1 DEF Adding
<1>3. n \in 0..Matrix!Turns - 1 /\ ~Did(n)
  BY <1>1, <1>2, TurnTaken
<1>4. \A x \in Matrix!Cells : Matrix!At(x, n) # {} => calculated[x] = {}
  <2> SUFFICES ASSUME NEW x \in Matrix!Cells, Matrix!At(x, n) # {} PROVE calculated[x] = {}
    OBVIOUS
  <2>1. PICK r, c \in 0..row - 1 : x = r * row + c
    BY <1>1, CellOf
  <2> HIDE DEF n
  <2>2. TurnOf(r, c) = n
    BY <1>1, <1>3, <2>1, AtFacts
  <2> QED
    BY <1>2, <1>3, <2>1, <2>2
<1>5. /\ DOMAIN new = {x \in Matrix!Cells : Matrix!At(x, n) # {}}
      /\ \A x \in DOMAIN new : new[x] = {}
  BY <1>4
<1>6. \A v \in Threads : loaded'[v] = IF v = u THEN new ELSE loaded[v]
  <2> HIDE DEF new
  <2> QED
    BY <1>1 DEF MatrixTypes
<1> HIDE DEF new
<1>7. Matrix!Members \subseteq Threads
  BY <1>1, MemberTurns
<1>8. \A v \in Matrix!Members : loaded'[v] # <<>> =>
           /\ next'[v] < Matrix!EndTurn(v)
           /\ DOMAIN loaded'[v] = {x \in Matrix!Cells : Matrix!At(x, next'[v]) # {}}
           /\ \A x \in DOMAIN loaded'[v] : loaded'[v][x] = {}
  <2> SUFFICES ASSUME NEW v \in Matrix!Members, loaded'[v] # <<>>
               PROVE  /\ next'[v] < Matrix!EndTurn(v)
                      /\ DOMAIN loaded'[v] = {x \in Matrix!Cells : Matrix!At(x, next'[v]) # {}}
                      /\ \A x \in DOMAIN loaded'[v] : loaded'[v][x] = {}
    OBVIOUS
  <2>1. CASE v = u
    BY <1>1, <1>5, <1>6, <1>7, <2>1
  <2>2. CASE v # u
    <3>1. loaded'[v] = loaded[v] /\ next'[v] = next[v]
      BY <1>1, <1>6, <1>7, <2>2
    <3> QED
      BY <1>2, <3>1
  <2> QED
    BY <2>1, <2>2
<1>9. \A m : Did(m)' <=> Did(m)
  BY <1>1, SameShapes DEF Did
<1>10. Matrix!Cells' = Matrix!Cells
  BY SameMatrix
<1>11. \A r, c \in 0..row - 1 :
         calculated'[r * row + c] = IF Did(TurnOf(r, c))' THEN AllOf(r, c) ELSE {}
  BY <1>1, <1>2, <1>9, SameShapes
<1>12. \A v \in Matrix!Members, m \in Nat : loaded'[v] # <<>> /\ m = next'[v] =>
           /\ m < Matrix!EndTurn(v)
           /\ DOMAIN loaded'[v] = {x \in Matrix!Cells : Matrix!At(x, m) # {}}
           /\ \A x \in DOMAIN loaded'[v] : loaded'[v][x] = {}
  BY <1>8
<1>13. \A v \in Matrix!Members, m \in Nat : (loaded[v] # <<>> /\ m = next[v] =>
           /\ m < Matrix!EndTurn(v)
           /\ DOMAIN loaded[v] = {x \in Matrix!Cells : Matrix!At(x, m) # {}}
           /\ \A x \in DOMAIN loaded[v] : loaded[v][x] = {})'
  <2> TAKE v \in Matrix!Members, m \in Nat
  <2>1. Matrix!EndTurn(v)' = Matrix!EndTurn(v)
    BY SameShapes
  <2>2. \A x : Matrix!At(x, m)' = Matrix!At(x, m)
    BY SameShapes
  <2>3. {x \in Matrix!Cells : Matrix!At(x, m) # {}}' = {x \in Matrix!Cells : Matrix!At(x, m) # {}}
    BY <1>10, <2>2
  <2> QED
    BY <1>12, <2>1, <2>3
<1>14. \A v \in Matrix!Members : (next[v] \in Matrix!FirstTurn(v)..Matrix!EndTurn(v))'
  BY <1>1, <1>2, SameShapes
<1>15. \A r, c \in 0..row - 1 :
         (calculated[r * row + c] = IF Did(TurnOf(r, c)) THEN AllOf(r, c) ELSE {})'
  BY <1>1, <1>11, SameShapes
<1> QED
  BY <1>1, <1>13, <1>14, <1>15, SameShapes DEF Adding

LEMMA WriteAdding ==
  ASSUME MatrixTypes, Adding, Matrix!Fits, UNCHANGED <<input, enabled>>,
         NEW u \in Threads, Matrix!Write(u)
  PROVE  Adding'
<1> DEFINE n == next[u]
           f(x) == [v \in Matrix!At(x, n) |->
                      Matrix!Product(v[1] * col + v[3], v[3] * Matrix!Bcol + v[2])]
<1>1. /\ host = "cpu" /\ func \in Matrix!CpuFuncs /\ MatrixSides
      /\ u \in Matrix!Members /\ n < Matrix!EndTurn(u) /\ loaded[u] # <<>>
      /\ calculated' = [x \in Matrix!Cells |->
            IF x \in DOMAIN loaded[u] THEN Matrix!Plus(loaded[u][x], f(x)) ELSE calculated[x]]
      /\ loaded' = [loaded EXCEPT ![u] = <<>>]
      /\ next' = [next EXCEPT ![u] = @ + 1] /\ row' = row /\ host' = host
  BY SameMatrix DEF Matrix!Write, MatrixTypes
<1>2. /\ \A v \in Matrix!Members : next[v] \in Matrix!FirstTurn(v)..Matrix!EndTurn(v)
      /\ \A v \in Matrix!Members : loaded[v] # <<>> =>
           /\ next[v] < Matrix!EndTurn(v)
           /\ DOMAIN loaded[v] = {x \in Matrix!Cells : Matrix!At(x, next[v]) # {}}
           /\ \A x \in DOMAIN loaded[v] : loaded[v][x] = {}
      /\ \A r, c \in 0..row - 1 :
           calculated[r * row + c] = IF Did(TurnOf(r, c)) THEN AllOf(r, c) ELSE {}
  <2>1. \A v \in Matrix!Members : next[v] \in Nat
    BY <1>1, MemberTurns DEF MatrixTypes, MatrixSides
  <2> QED
    BY <1>1, <2>1 DEF Adding
<1>3. n \in 0..Matrix!Turns - 1 /\ ~Did(n)
  BY <1>1, <1>2, TurnTaken
<1>4. /\ Matrix!Members \subseteq Threads /\ Matrix!Turns \in Nat
      /\ \A v \in Matrix!Members :
           Matrix!FirstTurn(v) \in 0..Matrix!Turns /\ Matrix!EndTurn(v) \in 0..Matrix!Turns
  BY <1>1, MemberTurns, TurnBounds DEF MatrixSides
<1>5. /\ \A v \in Threads : next'[v] = IF v = u THEN n + 1 ELSE next[v]
      /\ \A v \in Threads : loaded'[v] = IF v = u THEN <<>> ELSE loaded[v]
  BY <1>1 DEF MatrixTypes
<1>6. \A m \in Int : Did(m)' <=> Did(m) \/ m = n
  <2> SUFFICES ASSUME NEW m \in Int PROVE Did(m)' <=> Did(m) \/ m = n
    OBVIOUS
  <2>1. Did(m)' <=> \E v \in Matrix!Members : Matrix!FirstTurn(v) <= m /\ m < next'[v]
    BY SameShapes DEF Did
  <2> HIDE DEF n
  <2>2. n \in Int /\ n = next[u] /\ Matrix!FirstTurn(u) <= n
    BY <1>1, <1>2, <1>3, <1>4 DEF n
  <2>3. ASSUME NEW v \in Matrix!Members
        PROVE  Matrix!FirstTurn(v) <= m /\ m < next'[v] <=>
                 (Matrix!FirstTurn(v) <= m /\ m < next[v]) \/ (v = u /\ m = n)
    <3>1. next'[v] = IF v = u THEN n + 1 ELSE next[v]
      BY <1>4, <1>5
    <3>2. CASE v = u
      BY <2>2, <3>1, <3>2
    <3>3. CASE v # u
      BY <3>1, <3>3
    <3> QED
      BY <3>2, <3>3
  <2> QED
    BY <1>1, <2>1, <2>3 DEF Did
<1>7. \A v \in Matrix!Members : next'[v] \in Matrix!FirstTurn(v)..Matrix!EndTurn(v)
  BY <1>1, <1>2, <1>4, <1>5
<1>8. \A v \in Matrix!Members : loaded'[v] # <<>> =>
           /\ next'[v] < Matrix!EndTurn(v)
           /\ DOMAIN loaded'[v] = {x \in Matrix!Cells : Matrix!At(x, next'[v]) # {}}
           /\ \A x \in DOMAIN loaded'[v] : loaded'[v][x] = {}
  <2> SUFFICES ASSUME NEW v \in Matrix!Members, loaded'[v] # <<>>
               PROVE  /\ next'[v] < Matrix!EndTurn(v)
                      /\ DOMAIN loaded'[v] = {x \in Matrix!Cells : Matrix!At(x, next'[v]) # {}}
                      /\ \A x \in DOMAIN loaded'[v] : loaded'[v][x] = {}
    OBVIOUS
  <2>1. loaded'[v] = loaded[v] /\ next'[v] = next[v]
    BY <1>4, <1>5
  <2> QED
    BY <1>2, <2>1
<1>9. \A r, c \in 0..row - 1 :
         calculated'[r * row + c] = IF Did(TurnOf(r, c))' THEN AllOf(r, c) ELSE {}
  <2> SUFFICES ASSUME NEW r \in 0..row - 1, NEW c \in 0..row - 1
               PROVE  calculated'[r * row + c] = IF Did(TurnOf(r, c))' THEN AllOf(r, c) ELSE {}
    OBVIOUS
  <2> DEFINE x == r * row + c
             D == {r} \X {c} \X (0..col - 1)
  <2>1. x \in Matrix!Cells /\ row \in Nat \ {0} /\ col \in Nat \ {0}
    BY <1>1, CellOf DEF MatrixSides
  <2>2. /\ Matrix!At(x, n) = IF TurnOf(r, c) = n THEN D ELSE {}
        /\ TurnOf(r, c) \in Int
    <3> HIDE DEF n
    <3>1. /\ Matrix!At(r * row + c, n) =
               IF TurnOf(r, c) = n THEN {r} \X {c} \X (0..col - 1) ELSE {}
          /\ TurnOf(r, c) \in 0..Matrix!Turns - 1
      BY <1>1, <1>3, AtFacts
    <3> QED
      BY <3>1
  <2>3. Did(TurnOf(r, c))' <=> Did(TurnOf(r, c)) \/ TurnOf(r, c) = n
    <3>1. \A m : TurnOf(r, c)' = TurnOf(r, c)
      BY SameShapes
    <3>2. Did(TurnOf(r, c))' <=> \E v \in Matrix!Members :
            Matrix!FirstTurn(v) <= TurnOf(r, c) /\ TurnOf(r, c) < next'[v]
      BY SameShapes DEF Did
    <3>3. \A m \in Int : (\E v \in Matrix!Members : Matrix!FirstTurn(v) <= m /\ m < next'[v])
                         <=> Did(m) \/ m = n
      BY <1>6, SameShapes DEF Did
    <3> QED
      BY <2>2, <3>2, <3>3
  <2>4. D # {} /\ <<r, c, 0>> \in D
    BY <2>1
  <2>5. x \in DOMAIN loaded[u] <=> TurnOf(r, c) = n
    <3>1. DOMAIN loaded[u] = {y \in Matrix!Cells : Matrix!At(y, n) # {}}
      BY <1>1, <1>2
    <3> HIDE DEF x, n, D
    <3> QED
      BY <2>1, <2>2, <2>4, <3>1
  <2>6. CASE TurnOf(r, c) = n
    <3>1. calculated'[x] = Matrix!Plus({}, f(x))
      <4>1. loaded[u][x] = {}
        BY <1>1, <1>2, <2>5, <2>6
      <4> HIDE DEF x, f
      <4> QED
        BY <1>1, <2>1, <2>5, <2>6, <4>1
    <3> DEFINE g == [d \in D |-> Matrix!Product(d[1] * col + d[3], d[3] * Matrix!Bcol + d[2])]
               at == [d \in D |-> d[3]]
    <3>2. f(x) = g
      BY <2>2, <2>6
    <3>3. Matrix!Plus({}, g) = AllOf(r, c)
      <4>1. g = [d \in D |-> g[d]]
        OBVIOUS
      <4>2. at \in [D -> 0..col - 1] /\ \A d \in D : d[1] = r /\ d[2] = c /\ at[d] = d[3]
        OBVIOUS
      <4>3. \A k \in 0..col - 1 : \E d \in D : at[d] = k
        <5> SUFFICES ASSUME NEW k \in 0..col - 1 PROVE \E d \in D : at[d] = k
          OBVIOUS
        <5>1. <<r, c, k>> \in D /\ at[<<r, c, k>>] = k
          OBVIOUS
        <5> QED
          BY <5>1
      <4>4. \A d, e \in D : at[d] = at[e] => d = e
        OBVIOUS
      <4>5. \A d \in D : g[d] = Matrix!Product(r * col + at[d], at[d] * row + c)
        BY <4>2 DEF Matrix!Bcol
      <4> HIDE DEF g, at, D
      <4> QED
        <5>1. MatrixSides /\ r \in 0..row - 1 /\ c \in 0..row - 1
          BY <1>1
        <5>2. at \in [D -> 0..col - 1]
          BY <4>2
        <5> QED
          BY ONLY <4>1, <4>3, <4>4, <4>5, <5>1, <5>2, PlusAll
    <3> HIDE DEF g, f, x
    <3>4. calculated'[x] = AllOf(r, c)
      BY <3>1, <3>2, <3>3
    <3> QED
      BY <2>3, <2>6, <3>4 DEF x
  <2>7. CASE TurnOf(r, c) # n
    <3>1. calculated'[x] = calculated[x]
      <4> HIDE DEF x, f
      <4> QED
        BY <1>1, <2>1, <2>5, <2>7
    <3>2. calculated[x] = IF Did(TurnOf(r, c)) THEN AllOf(r, c) ELSE {}
      BY <1>2
    <3> HIDE DEF x
    <3> QED
      BY <2>3, <2>7, <3>1, <3>2 DEF x
  <2> QED
    BY <2>6, <2>7
<1>10. Matrix!Cells' = Matrix!Cells
  BY SameMatrix
<1>11. \A v \in Matrix!Members, m \in Nat : loaded'[v] # <<>> /\ m = next'[v] =>
           /\ m < Matrix!EndTurn(v)
           /\ DOMAIN loaded'[v] = {x \in Matrix!Cells : Matrix!At(x, m) # {}}
           /\ \A x \in DOMAIN loaded'[v] : loaded'[v][x] = {}
  BY <1>8
<1>12. \A v \in Matrix!Members, m \in Nat : (loaded[v] # <<>> /\ m = next[v] =>
           /\ m < Matrix!EndTurn(v)
           /\ DOMAIN loaded[v] = {x \in Matrix!Cells : Matrix!At(x, m) # {}}
           /\ \A x \in DOMAIN loaded[v] : loaded[v][x] = {})'
  <2> TAKE v \in Matrix!Members, m \in Nat
  <2>1. Matrix!EndTurn(v)' = Matrix!EndTurn(v)
    BY SameShapes
  <2>2. \A x : Matrix!At(x, m)' = Matrix!At(x, m)
    BY SameShapes
  <2>3. {x \in Matrix!Cells : Matrix!At(x, m) # {}}' = {x \in Matrix!Cells : Matrix!At(x, m) # {}}
    BY <1>10, <2>2
  <2> QED
    BY <1>11, <2>1, <2>3
<1>13. \A v \in Matrix!Members : (next[v] \in Matrix!FirstTurn(v)..Matrix!EndTurn(v))'
  BY <1>7, SameShapes
<1>14. \A r, c \in 0..row - 1 :
         (calculated[r * row + c] = IF Did(TurnOf(r, c)) THEN AllOf(r, c) ELSE {})'
  BY <1>1, <1>9, SameShapes
<1> QED
  BY <1>1, <1>12, <1>13, <1>14, SameShapes DEF Adding

LEMMA LeaveAdding ==
  ASSUME MatrixTypes, Adding, Matrix!Fits, UNCHANGED <<input, enabled>>, Matrix!LeaveCpu
  PROVE  ProductDone'
<1>1. /\ host = "cpu" /\ func \in Matrix!CpuFuncs /\ MatrixSides
      /\ \A v \in Matrix!Members : next[v] >= Matrix!EndTurn(v)
      /\ calculated' = calculated /\ row' = row /\ col' = col
  BY SameMatrix DEF Matrix!LeaveCpu, MatrixTypes
<1>2. \A r, c \in 0..row - 1 : calculated[r * row + c] = AllOf(r, c)
  <2> SUFFICES ASSUME NEW r \in 0..row - 1, NEW c \in 0..row - 1
               PROVE  calculated[r * row + c] = AllOf(r, c)
    OBVIOUS
  <2>1. calculated[r * row + c] = IF Did(TurnOf(r, c)) THEN AllOf(r, c) ELSE {}
    BY <1>1 DEF Adding
  <2>2. 0 \in 0..Matrix!Turns - 1 /\ Matrix!Turns \in Nat
    BY <1>1, TurnBounds DEF MatrixSides
  <2>3. TurnOf(r, c) \in 0..Matrix!Turns - 1
    BY <1>1, <2>2, AtFacts
  <2>4. PICK v \in Matrix!Members :
          Matrix!FirstTurn(v) <= TurnOf(r, c) /\ TurnOf(r, c) < Matrix!EndTurn(v)
    BY <1>1, <2>3, MemberTurns
  <2>5. Matrix!EndTurn(v) \in Int /\ next[v] \in Matrix!FirstTurn(v)..Matrix!EndTurn(v)
        /\ Matrix!FirstTurn(v) \in Int
    BY <1>1, <2>2, MemberTurns DEF Adding
  <2>6. Did(TurnOf(r, c))
    BY <1>1, <2>3, <2>4, <2>5 DEF Did
  <2> QED
    BY <2>1, <2>6
<1>3. Matrix!Right'
  <2>1. \A r, c \in 0..row - 1 :
          calculated'[r * row + c] = {<<r * col + k, k * row + c>> : k \in 0..col - 1}
    BY <1>1, <1>2 DEF AllOf, UpTo
  <2> QED
    BY <1>1, <2>1 DEF Matrix!Right, Matrix!Bcol
<1> QED
  BY <1>3 DEF ProductDone

-----------------------------------------------------------------------------
(* The kernels without barriers.                                           *)

\* The work-items the host starts, and the columns they compute.
LEMMA WorkSizes ==
  ASSUME MatrixSides, func \in Matrix!GpuFuncs, Matrix!Fits
  PROVE  /\ Matrix!Accepted
         /\ Matrix!globalWorkSize[2] = row
         /\ func = "GPU_STD" => Matrix!globalWorkSize[1] = row
         /\ func = "GPU_VEC4" => Matrix!globalWorkSize[1] = row \div 4
<1>1. row \in Nat \ {0} /\ row \div 1 = row
  BY DEF MatrixSides
<1> QED
  BY <1>1 DEF Matrix!Fits, Matrix!GpuFuncs, Matrix!globalWorkSize, Matrix!argument, Matrix!Bcol

\* The column of lane l of the item at j.
ItemColumn(j, l) == IF func = "GPU_VEC4" THEN 4 * j + l ELSE j

LEMMA ItemColumns ==
  ASSUME MatrixSides, Matrix!Fits, func \in {"GPU_STD", "GPU_VEC4"}
  PROVE  /\ \A j \in 0..Matrix!globalWorkSize[1] - 1, l \in Matrix!Lanes :
              ItemColumn(j, l) \in 0..row - 1
         /\ \A c \in 0..row - 1 :
              \E j \in 0..Matrix!globalWorkSize[1] - 1, l \in Matrix!Lanes : ItemColumn(j, l) = c
<1>1. row \in Nat \ {0} /\ func \in Matrix!GpuFuncs
  BY DEF MatrixSides, Matrix!GpuFuncs
<1>2. CASE func = "GPU_STD"
  <2>1. Matrix!globalWorkSize[1] = row /\ Matrix!Lanes = {0}
        /\ \A j, l : ItemColumn(j, l) = j
    BY <1>1, <1>2, WorkSizes DEF Matrix!Lanes, ItemColumn
  <2> QED
    BY <2>1
<1>3. CASE func = "GPU_VEC4"
  <2> DEFINE w == row \div 4
  <2>1. Matrix!globalWorkSize[1] = w /\ Matrix!Lanes = 0..3
        /\ \A j, l : ItemColumn(j, l) = 4 * j + l
    BY <1>1, <1>3, WorkSizes DEF Matrix!Lanes, ItemColumn
  <2>2. w \in Nat /\ row = 4 * w
    <3>1. row % 4 = 0
      BY <1>3 DEF Matrix!Fits
    <3> QED
      BY <1>1, <3>1
  <2> HIDE DEF w
  <2>3. \A j \in 0..w - 1, l \in 0..3 : 4 * j + l \in 0..row - 1
    BY <2>2
  <2>4. ASSUME NEW c \in 0..row - 1 PROVE \E j \in 0..w - 1, l \in 0..3 : 4 * j + l = c
    <3>1. c \div 4 \in 0..w - 1 /\ c % 4 \in 0..3 /\ 4 * (c \div 4) + (c % 4) = c
      BY <1>1, <2>2
    <3> QED
      BY <3>1
  <2> QED
    BY <2>1, <2>3, <2>4
<1> QED
  BY <1>2, <1>3

\* An item stores the sum of all products of its row and its column.
LEMMA ItemProducts ==
  ASSUME MatrixSides, Matrix!Fits, func \in {"GPU_STD", "GPU_VEC4"},
         NEW j \in 0..Matrix!globalWorkSize[1] - 1, NEW i1 \in 0..Matrix!globalWorkSize[2] - 1,
         NEW l \in Matrix!Lanes
  PROVE  /\ Matrix!Cell(j, i1, l) = i1 * row + ItemColumn(j, l)
         /\ Matrix!Plus({}, Matrix!Products(j, i1, l)) = AllOf(i1, ItemColumn(j, l))
<1> DEFINE c == ItemColumn(j, l)
           D == 0..col - 1
           f == Matrix!Products(j, i1, l)
           at == [k \in D |-> k]
<1>1. row \in Nat \ {0} /\ col \in Nat \ {0} /\ i1 \in 0..row - 1 /\ c \in 0..row - 1
      /\ j \in Int /\ Matrix!Bcol = row
  <2>1. func \in Matrix!GpuFuncs
    BY DEF Matrix!GpuFuncs
  <2>2. Matrix!globalWorkSize[2] = row
    BY <2>1, WorkSizes
  <2>3. row \in Nat \ {0} /\ Matrix!globalWorkSize[1] \in Int
    <3>1. row \in Nat \ {0}
      BY DEF MatrixSides
    <3> QED
      BY <2>1, <3>1, WorkSizes
  <2> QED
    BY <2>2, <2>3, ItemColumns DEF MatrixSides, Matrix!Bcol
<1> DEFINE Stored == Matrix!Cell(j, i1, l) = i1 * row + c
                     /\ f = [k \in D |-> Matrix!Product(i1 * col + k, k * row + c)]
<1>2. ASSUME func = "GPU_STD" PROVE Stored
  <2>1. c = j /\ Matrix!Cell(j, i1, l) = i1 * row + j
    BY <1>1, <1>2 DEF Matrix!Cell, ItemColumn
  <2>2. f = [k \in D |-> Matrix!Product(i1 * col + k, k * row + j)]
    BY <1>1, <1>2 DEF Matrix!Products
  <2> QED
    BY <1>1, <2>1, <2>2
<1>3. ASSUME func = "GPU_VEC4" PROVE Stored
  <2> DEFINE n == Matrix!nv4
  <2>1. n \in Nat /\ col = 4 * n /\ row = 4 * n /\ l \in 0..3
    <3>1. row = col /\ col % 4 = 0 /\ l \in 0..3
      BY <1>3 DEF Matrix!Fits, Matrix!Lanes
    <3> QED
      BY <1>1, <3>1 DEF Matrix!nv4
  <2>2. c = 4 * j + l /\ Matrix!Cell(j, i1, l) = 4 * (i1 * n + j) + l
        /\ f = [k \in 0..4 * n - 1 |-> Matrix!Product(4 * i1 * n + k, 4 * (k * n + j) + l)]
    BY <1>3 DEF Matrix!Cell, ItemColumn, Matrix!Products
  <2> HIDE DEF n
  <2>3. \A x \in Nat, y \in Nat : 4 * (x * y + j) + l = x * (4 * y) + (4 * j + l)
                                  /\ 4 * x * y = x * (4 * y)
    BY <1>1, <2>1
  <2>4. Matrix!Cell(j, i1, l) = i1 * row + c
    BY <1>1, <2>1, <2>2, <2>3
  <2>5. \A k \in D : 4 * i1 * n + k = i1 * col + k /\ 4 * (k * n + j) + l = k * row + c
    <3>1. \A k \in D : k \in Nat
      BY <1>1
    <3> QED
      BY <1>1, <2>1, <2>2, <2>3, <3>1
  <2>6. f = [k \in D |-> Matrix!Product(i1 * col + k, k * row + c)]
    BY <2>1, <2>2, <2>5
  <2> QED
    BY <2>4, <2>6
<1>4. Stored
  BY <1>2, <1>3
<1>5. f = [k \in D |-> f[k]] /\ \A k \in D : f[k] = Matrix!Product(i1 * col + at[k], at[k] * row + c)
  <2> HIDE DEF f, c
  <2> QED
    BY <1>4
<1>6. /\ at \in [D -> 0..col - 1] /\ \A k \in 0..col - 1 : \E d \in D : at[d] = k
      /\ \A d, e \in D : at[d] = at[e] => d = e
  OBVIOUS
<1>7. Matrix!Plus({}, f) = AllOf(i1, c)
  <2> HIDE DEF f, c, D, at
  <2>1. MatrixSides /\ i1 \in 0..row - 1 /\ c \in 0..row - 1
    BY <1>1
  <2>2. f = [k \in D |-> f[k]]
    BY <1>5
  <2>3. \A k \in D : f[k] = Matrix!Product(i1 * col + at[k], at[k] * row + c)
    BY <1>5
  <2> QED
    BY ONLY <1>6, <2>1, <2>2, <2>3, PlusAll
<1> QED
  BY <1>4, <1>7

\* The same for the places of the result.
LEMMA OneCell ==
  ASSUME row \in Nat \ {0}
  PROVE  \A a, d \in Nat : \A b, e \in 0..row - 1 :
           a * row + b = d * row + e => d = a /\ e = b
<1> SUFFICES ASSUME NEW a \in Nat, NEW d \in Nat, NEW b \in 0..row - 1, NEW e \in 0..row - 1,
                    a * row + b = d * row + e
             PROVE  d = a /\ e = b
  OBVIOUS
<1> QED
  BY Apart

LEMMA KernelDone ==
  ASSUME MatrixTypes, Matrix!Fits, UNCHANGED <<input, enabled>>, Matrix!Kernel
  PROVE  ProductDone'
<1> SUFFICES ASSUME func # "GPU_VEC8" PROVE Matrix!Right'
  BY SameMatrix DEF ProductDone
<1> DEFINE out == {<<Matrix!Cell(j, i1, l), Matrix!Plus({}, Matrix!Products(j, i1, l))>> :
                     j \in 0..Matrix!globalWorkSize[1] - 1,
                     i1 \in 0..Matrix!globalWorkSize[2] - 1, l \in Matrix!Lanes}
           stored(x) == {o[2] : o \in {p \in out : p[1] = x}}
<1>1. /\ MatrixSides /\ row \in Nat \ {0}
      /\ func \in {"GPU_STD", "GPU_VEC4"} /\ func \in Matrix!GpuFuncs
      /\ calculated' = [x \in Matrix!Cells |->
             IF Matrix!Cardinality(stored(x)) = 1 THEN CHOOSE s \in stored(x) : TRUE
             ELSE {Matrix!Wrong}]
      /\ row' = row /\ col' = col
  BY SameMatrix DEF MatrixTypes, MatrixSides, Matrix!Kernel, Matrix!GpuFuncs
<1>2. Matrix!globalWorkSize[2] = row
  BY <1>1, WorkSizes
<1>3. ASSUME NEW r \in 0..row - 1, NEW c \in 0..row - 1
      PROVE  calculated'[r * row + c] = AllOf(r, c)
  <2> DEFINE x == r * row + c
  <2>1. c \in 0..row - 1 /\ r \in Nat
    BY <1>1
  <2>2. x \in Matrix!Cells
    BY <1>1, <2>1, CellOf
  <2>3. AllOf(r, c) \in stored(x)
    <3>1. PICK j \in 0..Matrix!globalWorkSize[1] - 1, l \in Matrix!Lanes : ItemColumn(j, l) = c
      BY <1>1, ItemColumns
    <3>2. r \in 0..Matrix!globalWorkSize[2] - 1
      BY <1>2
    <3> DEFINE p == <<Matrix!Cell(j, r, l), Matrix!Plus({}, Matrix!Products(j, r, l))>>
    <3>3. p \in out
      BY <3>2
    <3>4. p[1] = x /\ p[2] = AllOf(r, c)
      BY <1>1, <3>1, <3>2, ItemProducts
    <3> HIDE DEF p, out, x
    <3> QED
      BY <3>3, <3>4
  <2>4. ASSUME NEW p \in out, p[1] = x PROVE p[2] = AllOf(r, c)
    <3>1. PICK j \in 0..Matrix!globalWorkSize[1] - 1, i1 \in 0..Matrix!globalWorkSize[2] - 1,
               l \in Matrix!Lanes :
            p = <<Matrix!Cell(j, i1, l), Matrix!Plus({}, Matrix!Products(j, i1, l))>>
      OBVIOUS
    <3> DEFINE e == ItemColumn(j, l)
    <3>2. p[1] = i1 * row + e /\ p[2] = AllOf(i1, e)
      BY <1>1, <3>1, ItemProducts
    <3>3. e \in 0..row - 1 /\ i1 \in Nat
      BY <1>1, <1>2, ItemColumns
    <3> HIDE DEF e
    <3>4. row \in Nat \ {0} /\ r \in Nat /\ c \in 0..row - 1 /\ r * row + c = i1 * row + e
      BY <1>1, <2>1, <2>4, <3>2
    <3> HIDE DEF out, x, stored
    <3>5. i1 = r /\ e = c
      BY ONLY <3>3, <3>4, OneCell
    <3> QED
      BY <3>2, <3>5
  <2> HIDE DEF out, x
  <2>5. stored(x) = {AllOf(r, c)}
    BY <2>3, <2>4
  <2> DEFINE S == stored(x)
  <2>6. Matrix!Cardinality(S) = 1 /\ (CHOOSE s \in S : TRUE) = AllOf(r, c)
    <3>1. S = {AllOf(r, c)}
      BY <2>5
    <3> HIDE DEF S
    <3>2. Cardinality(S) = 1
      BY <3>1, FS_Singleton
    <3> QED
      BY <3>1, <3>2, SameCardinality
  <2>7. calculated'[x] = IF Matrix!Cardinality(S) = 1 THEN CHOOSE s \in S : TRUE ELSE {Matrix!Wrong}
    BY <1>1, <2>2
  <2> HIDE DEF S
  <2>8. calculated'[x] = AllOf(r, c)
    BY <2>6, <2>7
  <2> QED
    BY <2>8 DEF x
<1>4. \A r, c \in 0..row - 1 :
        calculated'[r * row + c] = {<<r * col + k, k * row + c>> : k \in 0..col - 1}
  BY <1>3 DEF AllOf, UpTo
<1>5. row' = row /\ col' = col
  BY <1>1
<1> HIDE DEF out, stored
<1> QED
  BY ONLY <1>4, <1>5 DEF Matrix!Right, Matrix!Bcol

-----------------------------------------------------------------------------
(* The kernel with work-groups.                                            *)

LEMMA DiscSizes ==
  ASSUME MatrixSides, func = "GPU_DISC", Matrix!Fits
  PROVE  /\ BLOCK_SIZE \in Nat \ {0}
         /\ row \div BLOCK_SIZE \in Nat \ {0} /\ row = BLOCK_SIZE * (row \div BLOCK_SIZE)
         /\ Matrix!Blocks \in Nat \ {0} /\ col = BLOCK_SIZE * Matrix!Blocks
         /\ LastStep \in Nat /\ LastStep = 2 * Matrix!Blocks + 1
         /\ Matrix!Block = (0..BLOCK_SIZE - 1) \X (0..BLOCK_SIZE - 1)
<1> DEFINE B == BLOCK_SIZE
<1>1. row \in Nat \ {0} /\ col \in Nat \ {0} /\ B \in Nat \ {0}
  BY DimsAssumption DEF MatrixSides
<1>2. row % B = 0 /\ col % B = 0
  <2>1. Matrix!Accepted /\ col % B = 0
    BY DEF Matrix!Fits
  <2>2. Matrix!globalWorkSize[1] = row /\ Matrix!argument[3] = B
    <3>1. Matrix!argument = <<1, 1, B, B>>
      BY DEF Matrix!argument
    <3>2. row \div 1 = row
      BY <1>1
    <3> QED
      BY <3>1, <3>2 DEF Matrix!globalWorkSize, Matrix!Bcol
  <2>3. Matrix!globalWorkSize[1] % Matrix!argument[1 + 2] = 0
    BY <2>1 DEF Matrix!Accepted
  <2> HIDE DEF B
  <2> QED
    BY <2>1, <2>2, <2>3
<1> HIDE DEF B
<1>3. ASSUME NEW n \in Nat \ {0}, n % B = 0
      PROVE  /\ n \div B \in Nat \ {0} /\ n = B * (n \div B)
             /\ (n + B - 1) \div B = n \div B
  <2> DEFINE q == n \div B
  <2>1. q \in Nat /\ n = B * q
    <3>1. \A y \in Nat \ {0} : n \div y \in Nat /\ n % y \in 0..y - 1 /\ n = y * (n \div y) + (n % y)
      OBVIOUS
    <3> QED
      BY <1>1, <1>3, <3>1
  <2> HIDE DEF q
  <2>2. q # 0
    BY <1>1, <2>1
  <2>3. n + B - 1 = q * B + (B - 1) /\ B - 1 \in 0..B - 1
    BY <1>1, <2>1
  <2>4. (n + B - 1) \div B = q
    BY <1>1, <2>1, <2>3, Quotient
  <2> QED
    BY <2>1, <2>2, <2>4 DEF q
<1>4. Matrix!Blocks \in Nat \ {0} /\ col = B * Matrix!Blocks
  <2>1. Matrix!Blocks = (col + B - 1) \div B
    BY DEF Matrix!Blocks, B
  <2> QED
    BY <1>1, <1>2, <1>3, <2>1
<1>5. row \div B \in Nat \ {0} /\ row = B * (row \div B)
  BY <1>1, <1>2, <1>3
<1> QED
  BY <1>1, <1>4, <1>5 DEF B, LastStep, Matrix!Block

\* An element of the group that runs, and the steps of its loop.
LEMMA ItemPlaces ==
  ASSUME MatrixTypes, Matrix!Fits, func = "GPU_DISC",
         group[1] < row \div BLOCK_SIZE, group[2] < row \div BLOCK_SIZE,
         NEW l \in Matrix!Block, NEW r, NEW c, IsItem(l, r, c)
  PROVE  r \in 0..row - 1 /\ c \in 0..row - 1
<1> DEFINE B == BLOCK_SIZE
           R == row \div BLOCK_SIZE
           x == group[1]
           y == group[2]
<1>1. /\ B \in Nat \ {0} /\ R \in Nat \ {0} /\ row = B * R
      /\ l[1] \in 0..B - 1 /\ l[2] \in 0..B - 1
  BY DiscSizes DEF MatrixTypes
<1>2. x \in Nat /\ y \in Nat /\ x < R /\ y < R
  BY DEF MatrixTypes
<1>3. r = B * y + l[2] /\ c = B * x + l[1]
  BY DEF IsItem
<1> HIDE DEF B, R, x, y
<1>4. ASSUME NEW z \in Nat, z < R, NEW k \in 0..B - 1 PROVE B * z + k \in 0..row - 1
  <2>1. z \in 0..R - 1
    BY <1>1, <1>4
  <2>2. z * B + k \in 0..R * B - 1
    BY <1>1, <2>1, Index
  <2> QED
    BY <1>1, <2>2
<1> QED
  BY <1>1, <1>2, <1>3, <1>4

\* Two items of a group compute different elements.
LEMMA OneItem ==
  ASSUME MatrixTypes, Matrix!Fits, func = "GPU_DISC",
         NEW l \in Matrix!Block, NEW u \in Matrix!Block, NEW r, NEW c,
         IsItem(l, r, c), IsItem(u, r, c)
  PROVE  l = u
<1> DEFINE a == BLOCK_SIZE * group[2]
           b == BLOCK_SIZE * group[1]
<1>1. /\ l \in Int \X Int /\ u \in Int \X Int
      /\ l[1] \in Int /\ l[2] \in Int /\ u[1] \in Int /\ u[2] \in Int
  BY DiscSizes DEF MatrixTypes
<1>2. a \in Int /\ b \in Int
  <2>1. BLOCK_SIZE \in Int /\ group[1] \in Int /\ group[2] \in Int
    BY DiscSizes DEF MatrixTypes
  <2> QED
    BY <2>1
<1>3. a + l[2] = a + u[2] /\ b + l[1] = b + u[1]
  BY DEF IsItem
<1> HIDE DEF a, b
<1>4. l[1] = u[1] /\ l[2] = u[2]
  <2>1. \A p, q, z \in Int : z + p = z + q => p = q
    OBVIOUS
  <2>2. l[2] = u[2]
    BY <1>1, <1>2, <1>3, <2>1
  <2>3. l[1] = u[1]
    BY <1>1, <1>2, <1>3, <2>1
  <2> QED
    BY <2>2, <2>3
<1> QED
  BY <1>1, <1>4

\* A group starts with what its items have not begun.
LEMMA GroupStarts ==
  ASSUME MatrixTypes, Matrix!Fits, func = "GPU_DISC", UNCHANGED <<input, enabled>>,
         step' = Matrix!FreshItems.step, Csub' = Matrix!FreshItems.Csub,
         group'[1] < row \div BLOCK_SIZE, group'[2] < row \div BLOCK_SIZE,
         \A r, c \in 0..row - 1 :
           \/ r < BLOCK_SIZE * group'[2]
           \/ r < BLOCK_SIZE * group'[2] + BLOCK_SIZE /\ c < BLOCK_SIZE * group'[1]
           => calculated'[r * row + c] = AllOf(r, c)
  PROVE  Multiplying'
<1>1. /\ BLOCK_SIZE \in Nat \ {0} /\ LastStep \in Nat /\ LastStep > 0
      /\ row' = row /\ LastStep' = LastStep
  BY DiscSizes, SameMatrix, SameShapes DEF MatrixTypes
<1>2. \A l \in Matrix!Block : step'[l] = 0 /\ Csub'[l] = {}
  BY DEF Matrix!FreshItems
<1>3. \A l \in Matrix!Block :
        step'[l] \in 0..LastStep /\ \A u \in Matrix!Block : step'[l] <= step'[u] + 1
  BY <1>1, <1>2
<1>4. \A l \in Matrix!Block : \A r, c, n \in Nat : ItemHas(l, r, c, n)'
  <2> SUFFICES ASSUME NEW l \in Matrix!Block, NEW r \in Nat, NEW c \in Nat, NEW n \in Nat
               PROVE  ItemHas(l, r, c, n)'
    OBVIOUS
  <2>1. step'[l] = 0 /\ Csub'[l] = {}
    BY <1>2
  <2>2. step'[l] \notin {2 * n + 1, 2 * n + 2}
    BY <2>1
  <2>3. step'[l] \in {2 * n, 2 * n + 1} => Csub'[l] = UpTo(r, c, BLOCK_SIZE * n)
    <3>1. step'[l] \in {2 * n, 2 * n + 1} => n = 0
      BY <2>1
    <3>2. n = 0 => BLOCK_SIZE * n = 0
      BY <1>1
    <3>3. UpTo(r, c, 0) = {}
      BY DEF UpTo
    <3> QED
      BY <2>1, <3>1, <3>2, <3>3
  <2> QED
    BY <2>2, <2>3, SameShapes DEF ItemHas
<1>5. \A r, c \in 0..row - 1 : Written(r, c)' => calculated'[r * row + c] = AllOf(r, c)
  BY <1>1, <1>2 DEF Written
<1>6. \A r, c \in 0..row - 1 : (Written(r, c) => calculated[r * row + c] = AllOf(r, c))'
  BY <1>1, <1>5, SameShapes
<1> QED
  BY <1>1, <1>3, <1>4, <1>6, SameShapes DEF Multiplying

LEMMA EnqueueValues ==
  ASSUME MatrixTypes, Calling, UNCHANGED <<input, enabled>>, Matrix!Enqueue
  PROVE  NoSteps' /\ (Matrix!Fits => Multiplying' /\ ProductDone')
<1>1. /\ host = "call" /\ func \in Matrix!GpuFuncs /\ MatrixSides
      /\ host' = (IF enabled /\ Matrix!Accepted THEN "kernel" ELSE "done")
      /\ group' = group /\ step' = step /\ Csub' = Csub /\ row' = row /\ func' = func
      /\ enabled' = enabled
  BY SameMatrix DEF Matrix!Enqueue, Matrix!itemVars, MatrixTypes
<1>2. /\ group = <<0, 0>>
      /\ \A l \in Matrix!Block : step[l] = 0 /\ Csub[l] = {}
  BY <1>1 DEF Calling
<1>3. NoSteps'
  BY <1>1, <1>2 DEF NoSteps
<1>4. ASSUME Matrix!Fits PROVE ProductDone'
  <2>1. Matrix!Accepted
    BY <1>1, <1>4, WorkSizes
  <2>2. ~(host' = "done" /\ enabled)
    BY <1>1, <2>1
  <2> QED
    BY <1>1, <2>2 DEF ProductDone, Matrix!GpuFuncs
<1>5. ASSUME Matrix!Fits PROVE Multiplying'
  <2> SUFFICES ASSUME func = "GPU_DISC" PROVE Multiplying'
    BY <1>1 DEF Multiplying
  <2>1. /\ step' = Matrix!FreshItems.step /\ Csub' = Matrix!FreshItems.Csub
    BY <1>1, <1>2 DEF MatrixTypes, Matrix!FreshItems
  <2>2. group'[1] = 0 /\ group'[2] = 0 /\ row \div BLOCK_SIZE \in Nat \ {0}
        /\ BLOCK_SIZE * 0 = 0 /\ row \in Nat
    BY <1>1, <1>2, <1>5, DiscSizes DEF MatrixSides
  <2>3. \A r, c \in 0..row - 1 :
           ~(\/ r < BLOCK_SIZE * group'[2]
             \/ r < BLOCK_SIZE * group'[2] + BLOCK_SIZE /\ c < BLOCK_SIZE * group'[1])
    BY <2>2
  <2>4. group'[1] < row \div BLOCK_SIZE /\ group'[2] < row \div BLOCK_SIZE
    BY <2>2
  <2> QED
    BY <1>5, <2>1, <2>3, <2>4, GroupStarts
<1> QED
  BY <1>3, <1>4, <1>5

\* What an item does leaves the others what they have.
LEMMA OthersKeep ==
  ASSUME MatrixTypes, UNCHANGED input, NEW l \in Matrix!Block, NEW u \in Matrix!Block, u # l,
         Matrix!LoadBlock(l) \/ Matrix!MultiplyBlock(l) \/ Matrix!WriteSub(l)
  PROVE  /\ step'[u] = step[u] /\ Csub'[u] = Csub[u]
         /\ As'[<<u[2], u[1]>>] = As[<<u[2], u[1]>>] /\ Bs'[<<u[2], u[1]>>] = Bs[<<u[2], u[1]>>]
<1>1. step' = [step EXCEPT ![l] = @ + 1]
  BY DEF Matrix!LoadBlock, Matrix!MultiplyBlock, Matrix!WriteSub, Matrix!Advance
<1>2. step'[u] = step[u]
  BY <1>1 DEF MatrixTypes
<1>3. Csub'[u] = Csub[u]
  BY DEF MatrixTypes, Matrix!LoadBlock, Matrix!MultiplyBlock, Matrix!WriteSub
<1>4. <<u[2], u[1]>> # <<l[2], l[1]>> /\ <<u[2], u[1]>> \in Matrix!Block
  BY DEF Matrix!Block
<1>5. As'[<<u[2], u[1]>>] = As[<<u[2], u[1]>>] /\ Bs'[<<u[2], u[1]>>] = Bs[<<u[2], u[1]>>]
  BY <1>4 DEF MatrixTypes, Matrix!LoadBlock, Matrix!MultiplyBlock, Matrix!WriteSub
<1> QED
  BY <1>2, <1>3, <1>5

\* The step of an item, and the others between the two barriers.
LEMMA ItemTurn ==
  ASSUME MatrixTypes, Matrix!Fits, Multiplying, UNCHANGED input, NEW l \in Matrix!Block,
         Matrix!LoadBlock(l) \/ Matrix!MultiplyBlock(l) \/ Matrix!WriteSub(l)
  PROVE  /\ host = "kernel" /\ func = "GPU_DISC" /\ host' = host /\ group' = group
         /\ step'[l] = step[l] + 1 /\ step[l] \in 0..LastStep - 1
         /\ \A u \in Matrix!Block : step[u] \in {step[l], step[l] + 1}
         /\ \A v \in Matrix!Block :
              step'[v] \in 0..LastStep /\ \A u \in Matrix!Block : step'[v] <= step'[u] + 1
<1>1. /\ host = "kernel" /\ func = "GPU_DISC" /\ host' = host /\ group' = group
      /\ step' = [step EXCEPT ![l] = @ + 1] /\ step[l] <= 2 * Matrix!Blocks
      /\ \A u \in Matrix!Block : step[u] >= step[l]
  BY DEF Matrix!LoadBlock, Matrix!MultiplyBlock, Matrix!WriteSub, Matrix!Advance, Matrix!Running,
    Matrix!Barrier
<1>2. /\ LastStep \in Nat /\ LastStep = 2 * Matrix!Blocks + 1 /\ Matrix!Blocks \in Nat
  BY <1>1, DiscSizes DEF MatrixTypes
<1>3. \A v \in Matrix!Block :
         step[v] \in 0..LastStep /\ \A u \in Matrix!Block : step[v] <= step[u] + 1
  BY <1>1 DEF Multiplying
<1>4. step'[l] = step[l] + 1 /\ \A u \in Matrix!Block : u # l => step'[u] = step[u]
  BY <1>1 DEF MatrixTypes
<1>5. step[l] \in 0..LastStep - 1
  BY <1>1, <1>2, <1>3
<1>6. \A u \in Matrix!Block : step[u] \in {step[l], step[l] + 1}
  BY <1>1, <1>2, <1>3
<1>7. \A v \in Matrix!Block : step'[v] \in 0..LastStep
  BY <1>2, <1>3, <1>4, <1>5
<1>8. ASSUME NEW v \in Matrix!Block, NEW u \in Matrix!Block
      PROVE  step'[v] <= step'[u] + 1
  <2>1. step'[v] \in {step[l], step[l] + 1} /\ step'[u] \in {step[l], step[l] + 1}
    BY <1>4, <1>6
  <2> QED
    BY <1>5, <2>1
<1> QED
  BY <1>1, <1>4, <1>5, <1>6, <1>7, <1>8

LEMMA LoadValues ==
  ASSUME MatrixTypes, Matrix!Fits, Multiplying, UNCHANGED <<input, enabled>>,
         NEW l \in Matrix!Block, Matrix!LoadBlock(l)
  PROVE  Multiplying'
<1>1. /\ host = "kernel" /\ func = "GPU_DISC" /\ host' = host /\ group' = group
      /\ step'[l] = step[l] + 1 /\ step[l] \in 0..LastStep - 1
      /\ \A v \in Matrix!Block :
              step'[v] \in 0..LastStep /\ \A u \in Matrix!Block : step'[v] <= step'[u] + 1
      /\ UNCHANGED input /\ row' = row /\ func' = func
  BY ItemTurn, SameMatrix
<1>2. step[l] % 2 = 0 /\ step[l] < 2 * Matrix!Blocks /\ calculated' = calculated /\ Csub' = Csub
  BY DEF Matrix!LoadBlock
<1>3. /\ BLOCK_SIZE \in Nat \ {0} /\ Matrix!Blocks \in Nat /\ col = BLOCK_SIZE * Matrix!Blocks
      /\ LastStep = 2 * Matrix!Blocks + 1 /\ MatrixSides /\ row \in Nat \ {0} /\ col \in Nat \ {0}
      /\ Matrix!Block = (0..BLOCK_SIZE - 1) \X (0..BLOCK_SIZE - 1)
  BY <1>1, DiscSizes DEF MatrixTypes, MatrixSides
<1>4. /\ group[1] < row \div BLOCK_SIZE /\ group[2] < row \div BLOCK_SIZE
      /\ \A u \in Matrix!Block : \A r, c, n \in Nat : IsItem(u, r, c) => ItemHas(u, r, c, n)
      /\ \A r, c \in 0..row - 1 : Written(r, c) => calculated[r * row + c] = AllOf(r, c)
  BY <1>1 DEF Multiplying
<1>5. \A u, r, c : IsItem(u, r, c)' <=> IsItem(u, r, c)
  BY <1>1 DEF IsItem
<1>6. ASSUME NEW r \in Nat, NEW c \in Nat, NEW n \in Nat, IsItem(l, r, c)
      PROVE  ItemHas(l, r, c, n)'
  <2>1. ItemHas(l, r, c, n)
    BY <1>4, <1>6
  <2>2. step'[l] \in {2 * n, 2 * n + 1} => step[l] \in {2 * n, 2 * n + 1}
    BY <1>1, <1>2
  <2>3. step'[l] \in {2 * n, 2 * n + 1} => Csub'[l] = UpTo(r, c, BLOCK_SIZE * n)
    BY <1>2, <2>1, <2>2 DEF ItemHas
  <2>4. ASSUME step'[l] \in {2 * n + 1, 2 * n + 2}
        PROVE  /\ As'[<<l[2], l[1]>>] = r * col + (BLOCK_SIZE * n + l[1])
               /\ Bs'[<<l[2], l[1]>>] = (BLOCK_SIZE * n + l[2]) * row + c
    <3>1. step[l] = 2 * n /\ n < Matrix!Blocks /\ step[l] \div 2 = n
      <4> DEFINE s == step[l]
                 m == Matrix!Blocks
      <4>1. /\ s \in 0..LastStep - 1 /\ LastStep \in Nat /\ m \in Nat /\ s % 2 = 0 /\ s < 2 * m
            /\ s + 1 \in {2 * n + 1, 2 * n + 2}
        BY <1>1, <1>2, <1>3, <2>4
      <4> HIDE DEF s, m
      <4>2. s \in Nat
        BY <4>1
      <4>3. s = 2 * n \/ s = 2 * n + 1
        BY <4>1, <4>2
      <4>4. s = 2 * n
        BY <4>1, <4>2, <4>3
      <4>5. n < m /\ s \div 2 = n
        BY <4>1, <4>4
      <4> QED
        BY <4>4, <4>5 DEF s, m
    <3>2. <<l[2], l[1]>> \in Matrix!Block /\ l[1] \in 0..BLOCK_SIZE - 1 /\ l[2] \in 0..BLOCK_SIZE - 1
      BY <1>3
    <3> DEFINE a == col * BLOCK_SIZE * group[2] + BLOCK_SIZE * n + col * l[2] + l[1]
               b == BLOCK_SIZE * group[1] + BLOCK_SIZE * row * n + row * l[2] + l[1]
    <3>3. /\ As' = [As EXCEPT ![<<l[2], l[1]>>] = Matrix!Entry(a)]
          /\ Bs' = [Bs EXCEPT ![<<l[2], l[1]>>] = Matrix!Entry(b)]
      BY <3>1 DEF Matrix!LoadBlock, Matrix!Bcol
    <3> HIDE DEF a, b
    <3>4. As'[<<l[2], l[1]>>] = Matrix!Entry(a) /\ Bs'[<<l[2], l[1]>>] = Matrix!Entry(b)
      BY <3>2, <3>3 DEF MatrixTypes
    <3> DEFINE p == BLOCK_SIZE * n + l[1]
               q == BLOCK_SIZE * n + l[2]
    <3>5. p \in 0..col - 1 /\ q \in 0..col - 1
      <4>1. \A k \in 0..BLOCK_SIZE - 1 : n * BLOCK_SIZE + k \in 0..Matrix!Blocks * BLOCK_SIZE - 1
        <5>1. n \in 0..Matrix!Blocks - 1
          BY <1>3, <3>1
        <5> QED
          BY <1>3, <5>1, Index
      <4>2. n * BLOCK_SIZE = BLOCK_SIZE * n /\ Matrix!Blocks * BLOCK_SIZE = col
        BY <1>3
      <4> QED
        BY <3>2, <4>1, <4>2
    <3>6. a = r * col + p /\ b = q * row + c
      <4> DEFINE B == BLOCK_SIZE
                 x == group[1]
                 y == group[2]
                 s == l[1]
                 w == l[2]
      <4>1. B \in Nat /\ x \in Nat /\ y \in Nat /\ s \in Nat /\ w \in Nat /\ r = B * y + w
            /\ c = B * x + s /\ p = B * n + s /\ q = B * n + w
            /\ a = col * B * y + B * n + col * w + s
            /\ b = B * x + B * row * n + row * w + s
        BY <1>3, <1>6, <3>2 DEF MatrixTypes, IsItem, a, b
      <4> HIDE DEF B, x, y, s, w, p, q
      <4>2. r * col = col * B * y + col * w
        BY <1>3, <4>1
      <4>3. q * row = B * row * n + row * w
        BY <1>3, <4>1
      <4>4. col * B * y \in Nat /\ col * w \in Nat /\ B * n \in Nat /\ B * row * n \in Nat /\ row * w \in Nat
            /\ B * x \in Nat
        BY <1>3, <4>1
      <4>5. a = r * col + p
        BY <4>1, <4>2, <4>4
      <4>6. b = q * row + c
        BY <4>1, <4>3, <4>4
      <4> QED
        BY <4>5, <4>6
    <3> HIDE DEF p, q
    <3>7. a \in Matrix!Elements /\ b \in Matrix!Elements
      <4>1. r \in 0..row - 1 /\ c \in 0..row - 1
        BY <1>1, <1>4, <1>6, ItemPlaces
      <4> QED
        BY <1>3, <3>5, <3>6, <4>1, ProductFacts
    <3> QED
      BY <3>4, <3>6, <3>7 DEF Matrix!Entry, p, q
  <2> QED
    BY <1>1, <2>3, <2>4, SameMatrix, SameShapes DEF ItemHas
<1>7. ASSUME NEW u \in Matrix!Block, NEW r \in Nat, NEW c \in Nat, NEW n \in Nat, IsItem(u, r, c)
      PROVE  ItemHas(u, r, c, n)'
  <2>1. ItemHas(u, r, c, n)
    BY <1>4, <1>7
  <2>2. CASE u = l
    BY <1>6, <1>7, <2>2
  <2>3. CASE u # l
    <3>1. /\ step'[u] = step[u] /\ Csub'[u] = Csub[u]
          /\ As'[<<u[2], u[1]>>] = As[<<u[2], u[1]>>] /\ Bs'[<<u[2], u[1]>>] = Bs[<<u[2], u[1]>>]
      BY <1>1, <2>3, OthersKeep
    <3> QED
      BY <1>1, <2>1, <3>1, SameMatrix, SameShapes DEF ItemHas
  <2> QED
    BY <2>2, <2>3
<1>8. \A r, c \in 0..row - 1 : Written(r, c)' => Written(r, c)
  <2> SUFFICES ASSUME NEW r \in 0..row - 1, NEW c \in 0..row - 1, Written(r, c)'
               PROVE  Written(r, c)
    OBVIOUS
  <2>1. \A u \in Matrix!Block : step'[u] = LastStep => step[u] = LastStep
    <3> SUFFICES ASSUME NEW u \in Matrix!Block, step'[u] = LastStep PROVE step[u] = LastStep
      OBVIOUS
    <3>1. u # l
      BY <1>1, <1>2, <1>3
    <3> QED
      BY <1>1, <3>1, OthersKeep
  <2> QED
    BY <1>1, <1>5, <2>1, SameShapes DEF Written
<1>9. \A r, c \in 0..row - 1 : (Written(r, c) => calculated[r * row + c] = AllOf(r, c))'
  BY <1>1, <1>2, <1>4, <1>8, SameShapes
<1>10. \A u \in Matrix!Block : \A r, c, n \in Nat : (IsItem(u, r, c) => ItemHas(u, r, c, n))'
  BY <1>5, <1>7
<1> QED
  BY <1>1, <1>4, <1>9, <1>10, SameShapes DEF Multiplying

LEMMA MultiplyValues ==
  ASSUME MatrixTypes, Matrix!Fits, Multiplying, UNCHANGED <<input, enabled>>,
         NEW l \in Matrix!Block, Matrix!MultiplyBlock(l)
  PROVE  Multiplying'
<1>1. /\ host = "kernel" /\ func = "GPU_DISC" /\ host' = host /\ group' = group
      /\ step'[l] = step[l] + 1 /\ step[l] \in 0..LastStep - 1
      /\ \A u \in Matrix!Block : step[u] \in {step[l], step[l] + 1}
      /\ \A v \in Matrix!Block :
              step'[v] \in 0..LastStep /\ \A u \in Matrix!Block : step'[v] <= step'[u] + 1
      /\ UNCHANGED input /\ row' = row /\ func' = func
  BY ItemTurn, SameMatrix
<1>2. step[l] % 2 = 1 /\ calculated' = calculated /\ As' = As /\ Bs' = Bs
  BY DEF Matrix!MultiplyBlock
<1>3. /\ BLOCK_SIZE \in Nat \ {0} /\ Matrix!Blocks \in Nat /\ col = BLOCK_SIZE * Matrix!Blocks
      /\ LastStep = 2 * Matrix!Blocks + 1 /\ MatrixSides /\ row \in Nat \ {0} /\ col \in Nat \ {0}
      /\ Matrix!Block = (0..BLOCK_SIZE - 1) \X (0..BLOCK_SIZE - 1)
  BY <1>1, DiscSizes DEF MatrixTypes, MatrixSides
<1>4. /\ group[1] < row \div BLOCK_SIZE /\ group[2] < row \div BLOCK_SIZE
      /\ \A u \in Matrix!Block : \A r, c, n \in Nat : IsItem(u, r, c) => ItemHas(u, r, c, n)
      /\ \A r, c \in 0..row - 1 : Written(r, c) => calculated[r * row + c] = AllOf(r, c)
  BY <1>1 DEF Multiplying
<1>5. \A u, r, c : IsItem(u, r, c)' <=> IsItem(u, r, c)
  BY <1>1 DEF IsItem
<1>6. PICK m \in Nat : step[l] = 2 * m + 1 /\ m < Matrix!Blocks
  <2> DEFINE s == step[l]
  <2>1. s \in Nat /\ s % 2 = 1 /\ s < 2 * Matrix!Blocks + 1
    BY <1>1, <1>2, <1>3
  <2> HIDE DEF s
  <2>2. s \div 2 \in Nat /\ s = 2 * (s \div 2) + 1
    BY <2>1
  <2>3. s \div 2 < Matrix!Blocks
    BY <1>3, <2>1, <2>2
  <2> QED
    BY <2>2, <2>3 DEF s
<1>7. ASSUME NEW r \in Nat, NEW c \in Nat, NEW n \in Nat, IsItem(l, r, c)
      PROVE  ItemHas(l, r, c, n)'
  <2>1. \A k \in Nat : ItemHas(l, r, c, k)
    BY <1>4, <1>7
  <2>2. ASSUME step'[l] \in {2 * n, 2 * n + 1} PROVE Csub'[l] = UpTo(r, c, BLOCK_SIZE * n)
    <3>1. n = m + 1
      BY <1>1, <1>6, <2>2
    <3>2. Csub[l] = UpTo(r, c, BLOCK_SIZE * m)
      BY <1>6, <2>1 DEF ItemHas
    <3> DEFINE D == 0..BLOCK_SIZE - 1
               f == [k \in D |-> Matrix!Product(As[<<l[2], k>>], Bs[<<k, l[1]>>])]
               at == [k \in D |-> k]
               a == BLOCK_SIZE * m
    <3>3. Csub'[l] = Matrix!Plus(Csub[l], f)
      <4>1. Csub' = [Csub EXCEPT ![l] = Matrix!Plus(@, f)]
        BY DEF Matrix!MultiplyBlock
      <4> HIDE DEF f
      <4> QED
        BY <4>1 DEF MatrixTypes
    <3>4. r \in 0..row - 1 /\ c \in 0..row - 1
      BY <1>1, <1>4, <1>7, ItemPlaces
    <3>5. a \in Nat /\ a + BLOCK_SIZE <= col /\ BLOCK_SIZE * n = a + BLOCK_SIZE
      <4>1. (m + 1) * BLOCK_SIZE <= Matrix!Blocks * BLOCK_SIZE
        <5>1. m + 1 \in Nat /\ m + 1 <= Matrix!Blocks
          BY <1>3, <1>6
        <5> QED
          BY <1>3, <5>1, Products
      <4>2. (m + 1) * BLOCK_SIZE = a + BLOCK_SIZE /\ Matrix!Blocks * BLOCK_SIZE = col /\ a \in Nat
            /\ BLOCK_SIZE * (m + 1) = (m + 1) * BLOCK_SIZE
        BY <1>3
      <4> QED
        BY <3>1, <4>1, <4>2
    <3>6. l[1] \in D /\ l[2] \in D
      BY <1>3
    <3>7. ASSUME NEW k \in D
          PROVE  As[<<l[2], k>>] = r * col + (a + k) /\ Bs[<<k, l[1]>>] = (a + k) * row + c
      <4> DEFINE x == <<k, l[2]>>
                 y == <<l[1], k>>
      <4>1. x \in Matrix!Block /\ y \in Matrix!Block /\ k \in Nat
        BY <1>3, <3>6
      <4>2. step[x] \in {2 * m + 1, 2 * m + 2} /\ step[y] \in {2 * m + 1, 2 * m + 2}
        <5> HIDE DEF x, y
        <5> QED
          BY <1>1, <1>6, <4>1
      <4>3. PICK e \in Nat : IsItem(x, r, e)
        <5>1. BLOCK_SIZE * group[1] + k \in Nat
          <6>1. BLOCK_SIZE \in Nat /\ group[1] \in Nat /\ k \in Nat
            BY <1>3, <4>1 DEF MatrixTypes
          <6> QED
            BY <6>1
        <5>2. IsItem(x, r, BLOCK_SIZE * group[1] + k)
          BY <1>7 DEF IsItem
        <5> QED
          BY <5>1, <5>2
      <4>4. PICK d \in Nat : IsItem(y, d, c)
        <5>1. BLOCK_SIZE * group[2] + k \in Nat
          <6>1. BLOCK_SIZE \in Nat /\ group[2] \in Nat /\ k \in Nat
            BY <1>3, <4>1 DEF MatrixTypes
          <6> QED
            BY <6>1
        <5>2. IsItem(y, BLOCK_SIZE * group[2] + k, c)
          BY <1>7 DEF IsItem
        <5> QED
          BY <5>1, <5>2
      <4>5. ItemHas(x, r, e, m) /\ ItemHas(y, d, c, m)
        BY <1>4, <4>1, <4>3, <4>4
      <4>6. /\ x[1] = k /\ x[2] = l[2] /\ y[1] = l[1] /\ y[2] = k
        OBVIOUS
      <4> HIDE DEF x, y
      <4>7. As[<<x[2], x[1]>>] = r * col + (BLOCK_SIZE * m + x[1])
        BY <1>6, <4>2, <4>5 DEF ItemHas
      <4>8. Bs[<<y[2], y[1]>>] = (BLOCK_SIZE * m + y[2]) * row + c
        BY <1>6, <4>2, <4>5 DEF ItemHas
      <4> QED
        BY <4>6, <4>7, <4>8
    <3>8. /\ f = [k \in D |-> f[k]] /\ at \in [D -> 0..BLOCK_SIZE - 1]
          /\ \A k \in 0..BLOCK_SIZE - 1 : \E d \in D : at[d] = k
          /\ \A d, e \in D : at[d] = at[e] => d = e
      OBVIOUS
    <3>9. \A d \in D : f[d] = Matrix!Product(r * col + (a + at[d]), (a + at[d]) * row + c)
      <4> SUFFICES ASSUME NEW d \in D
                   PROVE f[d] = Matrix!Product(r * col + (a + at[d]), (a + at[d]) * row + c)
        OBVIOUS
      <4>1. f[d] = Matrix!Product(As[<<l[2], d>>], Bs[<<d, l[1]>>]) /\ at[d] = d
        OBVIOUS
      <4>2. As[<<l[2], d>>] = r * col + (a + d) /\ Bs[<<d, l[1]>>] = (a + d) * row + c
        BY <3>7
      <4> HIDE DEF f, at, a
      <4> QED
        BY <4>1, <4>2
    <3> HIDE DEF D, f, at, a
    <3>10. Matrix!Plus(UpTo(r, c, a), f) = UpTo(r, c, a + BLOCK_SIZE)
      <4>1. MatrixSides /\ BLOCK_SIZE \in Nat /\ a \in Nat /\ a + BLOCK_SIZE <= col
        BY <1>3, <3>5
      <4>2. f = [k \in D |-> f[k]]
        BY <3>8
      <4>3. at \in [D -> 0..BLOCK_SIZE - 1]
        BY <3>8
      <4>4. \A k \in 0..BLOCK_SIZE - 1 : \E d \in D : at[d] = k
        BY <3>8
      <4>5. \A d, e \in D : at[d] = at[e] => d = e
        BY <3>8
      <4> QED
        BY ONLY <3>4, <3>9, <4>1, <4>2, <4>3, <4>4, <4>5, PlusNext
    <3> QED
      BY <3>2, <3>3, <3>5, <3>10 DEF a
  <2>3. ASSUME step'[l] \in {2 * n + 1, 2 * n + 2}, n < Matrix!Blocks
        PROVE  /\ As'[<<l[2], l[1]>>] = r * col + (BLOCK_SIZE * n + l[1])
               /\ Bs'[<<l[2], l[1]>>] = (BLOCK_SIZE * n + l[2]) * row + c
    <3>1. n = m
      BY <1>1, <1>6, <2>3
    <3>2. step[l] \in {2 * n + 1, 2 * n + 2}
      BY <1>6, <3>1
    <3> QED
      BY <1>2, <2>1, <2>3, <3>2 DEF ItemHas
  <2> QED
    BY <1>1, <2>2, <2>3, SameMatrix, SameShapes DEF ItemHas
<1>8. ASSUME NEW u \in Matrix!Block, NEW r \in Nat, NEW c \in Nat, NEW n \in Nat, IsItem(u, r, c)
      PROVE  ItemHas(u, r, c, n)'
  <2>1. ItemHas(u, r, c, n)
    BY <1>4, <1>8
  <2>2. CASE u = l
    BY <1>7, <1>8, <2>2
  <2>3. CASE u # l
    <3>1. /\ step'[u] = step[u] /\ Csub'[u] = Csub[u]
          /\ As'[<<u[2], u[1]>>] = As[<<u[2], u[1]>>] /\ Bs'[<<u[2], u[1]>>] = Bs[<<u[2], u[1]>>]
      BY <1>1, <2>3, OthersKeep
    <3> QED
      BY <1>1, <2>1, <3>1, SameMatrix, SameShapes DEF ItemHas
  <2> QED
    BY <2>2, <2>3
<1>9. \A r, c \in 0..row - 1 : Written(r, c)' => Written(r, c)
  <2> SUFFICES ASSUME NEW r \in 0..row - 1, NEW c \in 0..row - 1, Written(r, c)'
               PROVE  Written(r, c)
    OBVIOUS
  <2>1. \A u \in Matrix!Block : step'[u] = LastStep => step[u] = LastStep
    <3> SUFFICES ASSUME NEW u \in Matrix!Block, step'[u] = LastStep PROVE step[u] = LastStep
      OBVIOUS
    <3>1. u # l
      BY <1>1, <1>3, <1>6
    <3> QED
      BY <1>1, <3>1, OthersKeep
  <2> QED
    BY <1>1, <1>5, <2>1, SameShapes DEF Written
<1>10. \A r, c \in 0..row - 1 : (Written(r, c) => calculated[r * row + c] = AllOf(r, c))'
  BY <1>1, <1>2, <1>4, <1>9, SameShapes
<1>11. \A u \in Matrix!Block : \A r, c, n \in Nat : (IsItem(u, r, c) => ItemHas(u, r, c, n))'
  BY <1>5, <1>8
<1> QED
  BY <1>1, <1>4, <1>10, <1>11, SameShapes DEF Multiplying

LEMMA WriteValues ==
  ASSUME MatrixTypes, Matrix!Fits, Multiplying, UNCHANGED <<input, enabled>>,
         NEW l \in Matrix!Block, Matrix!WriteSub(l)
  PROVE  Multiplying'
<1>1. /\ host = "kernel" /\ func = "GPU_DISC" /\ host' = host /\ group' = group
      /\ step'[l] = step[l] + 1 /\ step[l] \in 0..LastStep - 1
      /\ \A v \in Matrix!Block :
              step'[v] \in 0..LastStep /\ \A u \in Matrix!Block : step'[v] <= step'[u] + 1
      /\ UNCHANGED input /\ row' = row /\ func' = func
  BY ItemTurn, SameMatrix
<1>2. step[l] = 2 * Matrix!Blocks /\ As' = As /\ Bs' = Bs /\ Csub' = Csub
  BY DEF Matrix!WriteSub
<1>3. /\ BLOCK_SIZE \in Nat \ {0} /\ Matrix!Blocks \in Nat /\ col = BLOCK_SIZE * Matrix!Blocks
      /\ LastStep = 2 * Matrix!Blocks + 1 /\ MatrixSides /\ row \in Nat \ {0} /\ col \in Nat \ {0}
      /\ l[1] \in Nat /\ l[2] \in Nat
  BY <1>1, DiscSizes DEF MatrixTypes, MatrixSides
<1>4. /\ group[1] < row \div BLOCK_SIZE /\ group[2] < row \div BLOCK_SIZE
      /\ \A u \in Matrix!Block : \A r, c, n \in Nat : IsItem(u, r, c) => ItemHas(u, r, c, n)
      /\ \A r, c \in 0..row - 1 : Written(r, c) => calculated[r * row + c] = AllOf(r, c)
  BY <1>1 DEF Multiplying
<1>5. \A u, r, c : IsItem(u, r, c)' <=> IsItem(u, r, c)
  BY <1>1 DEF IsItem
<1>6. ASSUME NEW r \in Nat, NEW c \in Nat, NEW n \in Nat, IsItem(l, r, c)
      PROVE  ItemHas(l, r, c, n)'
  <2>1. ItemHas(l, r, c, n)
    BY <1>4, <1>6
  <2>2. step'[l] \in {2 * n, 2 * n + 1} => step[l] \in {2 * n, 2 * n + 1}
    BY <1>1, <1>2, <1>3
  <2>3. ~(step'[l] \in {2 * n + 1, 2 * n + 2} /\ n < Matrix!Blocks)
    BY <1>1, <1>2, <1>3
  <2> QED
    BY <1>1, <1>2, <2>1, <2>2, <2>3, SameMatrix, SameShapes DEF ItemHas
<1>7. ASSUME NEW u \in Matrix!Block, NEW r \in Nat, NEW c \in Nat, NEW n \in Nat, IsItem(u, r, c)
      PROVE  ItemHas(u, r, c, n)'
  <2>1. ItemHas(u, r, c, n)
    BY <1>4, <1>7
  <2>2. CASE u = l
    BY <1>6, <1>7, <2>2
  <2>3. CASE u # l
    <3>1. /\ step'[u] = step[u] /\ Csub'[u] = Csub[u]
          /\ As'[<<u[2], u[1]>>] = As[<<u[2], u[1]>>] /\ Bs'[<<u[2], u[1]>>] = Bs[<<u[2], u[1]>>]
      BY <1>1, <2>3, OthersKeep
    <3> QED
      BY <1>1, <2>1, <3>1, SameMatrix, SameShapes DEF ItemHas
  <2> QED
    BY <2>2, <2>3
<1> DEFINE r1 == BLOCK_SIZE * group[2] + l[2]
           c1 == BLOCK_SIZE * group[1] + l[1]
<1>8. IsItem(l, r1, c1) /\ r1 \in 0..row - 1 /\ c1 \in 0..row - 1
  <2>1. IsItem(l, r1, c1)
    BY DEF IsItem
  <2> HIDE DEF r1, c1
  <2> QED
    BY <1>1, <1>4, <2>1, ItemPlaces
<1>9. calculated' = [calculated EXCEPT ![r1 * row + c1] = AllOf(r1, c1)]
  <2>1. Csub[l] = AllOf(r1, c1)
    <3>1. r1 \in Nat /\ c1 \in Nat /\ step[l] \in {2 * Matrix!Blocks, 2 * Matrix!Blocks + 1}
      BY <1>2, <1>3, <1>8
    <3> HIDE DEF r1, c1
    <3>2. ItemHas(l, r1, c1, Matrix!Blocks)
      BY <1>3, <1>4, <1>8, <3>1
    <3> QED
      BY <1>3, <3>1, <3>2 DEF ItemHas, AllOf
  <2>2. row * BLOCK_SIZE * group[2] + BLOCK_SIZE * group[1] + row * l[2] + l[1] = r1 * row + c1
    <3> DEFINE B == BLOCK_SIZE
               x == group[1]
               y == group[2]
               s == l[1]
               w == l[2]
    <3>1. B \in Nat /\ x \in Nat /\ y \in Nat /\ s \in Nat /\ w \in Nat /\ row \in Nat
      BY <1>3 DEF MatrixTypes
    <3>2. r1 = B * y + w /\ c1 = B * x + s
      OBVIOUS
    <3> HIDE DEF B, x, y, s, w, r1, c1
    <3>3. r1 * row = row * B * y + row * w
      BY <3>1, <3>2
    <3>4. row * B * y \in Nat /\ row * w \in Nat /\ B * x \in Nat
      BY <3>1
    <3>5. row * B * y + B * x + row * w + s = r1 * row + c1
      BY <3>1, <3>2, <3>3, <3>4
    <3> QED
      BY <3>5 DEF B, x, y, s, w
  <2>3. calculated' = [calculated EXCEPT
          ![row * BLOCK_SIZE * group[2] + BLOCK_SIZE * group[1] + row * l[2] + l[1]] = Csub[l]]
    BY DEF Matrix!WriteSub, Matrix!Bcol
  <2> HIDE DEF r1, c1
  <2> QED
    BY <2>1, <2>2, <2>3
<1> HIDE DEF r1, c1
<1>10. ASSUME NEW r \in 0..row - 1, NEW c \in 0..row - 1, Written(r, c)'
       PROVE  calculated'[r * row + c] = AllOf(r, c)
  <2>1. r * row + c \in Matrix!Cells /\ r1 * row + c1 \in Matrix!Cells
    BY <1>3, <1>8, CellOf
  <2>2. CASE r = r1 /\ c = c1
    BY <1>9, <2>1, <2>2 DEF MatrixTypes
  <2>3. CASE ~(r = r1 /\ c = c1)
    <3>1. r * row + c # r1 * row + c1
      <4>1. r \in Nat /\ r1 \in Nat
        BY <1>8
      <4> QED
        BY <1>3, <1>8, <2>3, <4>1, Apart
    <3>2. calculated'[r * row + c] = calculated[r * row + c]
      BY <1>9, <2>1, <3>1 DEF MatrixTypes
    <3>3. Written(r, c)
      <4>1. \A u \in Matrix!Block : IsItem(u, r, c) => u # l
        BY <1>8, <2>3 DEF IsItem
      <4>2. \A u \in Matrix!Block : u # l => step'[u] = step[u]
        BY <1>1, OthersKeep
      <4> QED
        BY <1>1, <1>5, <1>10, <4>1, <4>2, SameShapes DEF Written
    <3> QED
      BY <1>4, <3>2, <3>3
  <2> QED
    BY <2>2, <2>3
<1>11. \A r, c \in 0..row - 1 : (Written(r, c) => calculated[r * row + c] = AllOf(r, c))'
  BY <1>1, <1>10, SameShapes
<1>12. \A u \in Matrix!Block : \A r, c, n \in Nat : (IsItem(u, r, c) => ItemHas(u, r, c, n))'
  BY <1>5, <1>7
<1> QED
  BY <1>1, <1>4, <1>11, <1>12, SameShapes DEF Multiplying

\* When all items of the group have ended, so has every element of it.
LEMMA GroupWritten ==
  ASSUME MatrixTypes, Matrix!Fits, Multiplying, host = "kernel", func = "GPU_DISC",
         \A l \in Matrix!Block : step[l] = LastStep,
         NEW r \in 0..row - 1, NEW c \in 0..row - 1,
         r < BLOCK_SIZE * group[2] + BLOCK_SIZE,
         r < BLOCK_SIZE * group[2] \/ c < BLOCK_SIZE * group[1] + BLOCK_SIZE
  PROVE  Written(r, c)
<1> DEFINE B == BLOCK_SIZE
           x == B * group[1]
           y == B * group[2]
<1>1. B \in Nat \ {0} /\ x \in Nat /\ y \in Nat /\ row \in Nat
  <2>1. BLOCK_SIZE \in Nat \ {0} /\ group[1] \in Nat /\ group[2] \in Nat /\ row \in Nat
    BY DiscSizes DEF MatrixTypes, MatrixSides
  <2> QED
    BY <2>1
<1>2. r < y + B /\ (r < y \/ c < x + B)
  OBVIOUS
<1>3. Written(r, c) <=> \/ r < y
                        \/ r < y + B /\ c < x
                        \/ \E l \in Matrix!Block : IsItem(l, r, c) /\ step[l] = LastStep
  BY DEF Written
<1>4. \A l : IsItem(l, r, c) <=> r = y + l[2] /\ c = x + l[1]
  BY DEF IsItem
<1>5. Matrix!Block = (0..B - 1) \X (0..B - 1)
  BY DEF Matrix!Block
<1> HIDE DEF B, x, y
<1>6. CASE ~(r < y) /\ ~(c < x)
  <2> DEFINE l == <<c - x, r - y>>
  <2>1. c - x \in 0..B - 1 /\ r - y \in 0..B - 1 /\ r = y + (r - y) /\ c = x + (c - x)
    BY <1>1, <1>2, <1>6
  <2>2. l \in Matrix!Block /\ l[1] = c - x /\ l[2] = r - y
    BY <1>5, <2>1
  <2> HIDE DEF l
  <2>3. IsItem(l, r, c) /\ step[l] = LastStep
    BY <1>4, <2>1, <2>2
  <2> QED
    BY <1>3, <2>2, <2>3
<1> QED
  BY <1>2, <1>3, <1>6

LEMMA GroupValues ==
  ASSUME MatrixTypes, Matrix!Fits, Multiplying, UNCHANGED <<input, enabled>>, Matrix!GroupEnds,
         func = "GPU_DISC"
  PROVE  Multiplying' /\ ProductDone'
<1> DEFINE R == row \div BLOCK_SIZE
           x == group[1]
           y == group[2]
<1>1. /\ host = "kernel" /\ \A l \in Matrix!Block : step[l] > 2 * Matrix!Blocks
      /\ calculated' = calculated /\ row' = row /\ col' = col /\ func' = func
      /\ step' = Matrix!FreshItems.step /\ Csub' = Matrix!FreshItems.Csub
  BY SameMatrix DEF Matrix!GroupEnds
<1>2. \/ x + 1 < R /\ group' = <<x + 1, y>> /\ host' = host
      \/ x + 1 = R /\ y + 1 < R /\ group' = <<0, y + 1>> /\ host' = host
      \/ ~(x + 1 < R) /\ ~(x + 1 = R /\ y + 1 < R) /\ host' = "done"
  BY DEF Matrix!GroupEnds, Matrix!Bcol
<1>3. /\ BLOCK_SIZE \in Nat \ {0} /\ R \in Nat \ {0} /\ row = BLOCK_SIZE * R /\ x \in Nat /\ y \in Nat
      /\ Matrix!Blocks \in Nat /\ LastStep = 2 * Matrix!Blocks + 1 /\ MatrixSides
  BY DiscSizes DEF MatrixTypes
<1>4. /\ x < R /\ y < R
      /\ \A l \in Matrix!Block : step[l] \in 0..LastStep
      /\ \A r, c \in 0..row - 1 : Written(r, c) => calculated[r * row + c] = AllOf(r, c)
  BY <1>1 DEF Multiplying
<1>5. \A l \in Matrix!Block : step[l] = LastStep
  BY <1>1, <1>3, <1>4
<1>6. \A r, c \in 0..row - 1 :
        r < BLOCK_SIZE * y + BLOCK_SIZE /\ (r < BLOCK_SIZE * y \/ c < BLOCK_SIZE * x + BLOCK_SIZE)
        => calculated'[r * row + c] = AllOf(r, c)
  BY <1>1, <1>4, <1>5, GroupWritten
<1> DEFINE a == BLOCK_SIZE * x
           b == BLOCK_SIZE * y
<1>7. /\ a \in Nat /\ b \in Nat /\ BLOCK_SIZE * (x + 1) = a + BLOCK_SIZE
      /\ BLOCK_SIZE * (y + 1) = b + BLOCK_SIZE /\ BLOCK_SIZE * 0 = 0
  <2> HIDE DEF x, y
  <2> QED
    BY <1>3
<1> HIDE DEF R, x, y
<1>8. CASE x + 1 < R /\ group' = <<x + 1, y>> /\ host' = host
  <2>1. group'[1] = x + 1 /\ group'[2] = y
    BY <1>8
  <2>2. \A r, c \in 0..row - 1 :
           \/ r < BLOCK_SIZE * group'[2]
           \/ r < BLOCK_SIZE * group'[2] + BLOCK_SIZE /\ c < BLOCK_SIZE * group'[1]
           => calculated'[r * row + c] = AllOf(r, c)
    <3>0. BLOCK_SIZE * group'[2] = b /\ BLOCK_SIZE * group'[1] = a + BLOCK_SIZE
      BY <1>7, <2>1 DEF b
    <3> SUFFICES ASSUME NEW r \in 0..row - 1, NEW c \in 0..row - 1,
                        r < b \/ (r < b + BLOCK_SIZE /\ c < a + BLOCK_SIZE)
                 PROVE  calculated'[r * row + c] = AllOf(r, c)
      BY <3>0
    <3>1. r \in Int
      OBVIOUS
    <3> HIDE DEF a, b
    <3>2. r < b + BLOCK_SIZE /\ (r < b \/ c < a + BLOCK_SIZE)
      BY <1>3, <1>7, <3>1
    <3> QED
      BY <1>6, <3>2 DEF a, b
  <2>3. group'[1] < R /\ group'[2] < R
    BY <1>4, <1>8, <2>1
  <2>4. Multiplying'
    BY <1>1, <2>2, <2>3, GroupStarts DEF R
  <2> QED
    BY <1>1, <1>8, <2>4 DEF ProductDone
<1>9. CASE x + 1 = R /\ y + 1 < R /\ group' = <<0, y + 1>> /\ host' = host
  <2>1. group'[1] = 0 /\ group'[2] = y + 1
    BY <1>9
  <2>2. \A r, c \in 0..row - 1 :
           \/ r < BLOCK_SIZE * group'[2]
           \/ r < BLOCK_SIZE * group'[2] + BLOCK_SIZE /\ c < BLOCK_SIZE * group'[1]
           => calculated'[r * row + c] = AllOf(r, c)
    <3>0. BLOCK_SIZE * group'[2] = b + BLOCK_SIZE /\ BLOCK_SIZE * group'[1] = 0
      BY <1>7, <2>1
    <3> SUFFICES ASSUME NEW r \in 0..row - 1, NEW c \in 0..row - 1,
                        r < b + BLOCK_SIZE \/ c < 0
                 PROVE  calculated'[r * row + c] = AllOf(r, c)
      BY <3>0
    <3>1. c < a + BLOCK_SIZE /\ ~(c < 0)
      BY <1>3, <1>7, <1>9
    <3> QED
      BY <1>6, <3>1 DEF a, b
  <2>3. group'[1] < R /\ group'[2] < R
    BY <1>3, <1>9, <2>1
  <2>4. Multiplying'
    BY <1>1, <2>2, <2>3, GroupStarts DEF R
  <2> QED
    BY <1>1, <1>9, <2>4 DEF ProductDone
<1>10. CASE ~(x + 1 < R) /\ ~(x + 1 = R /\ y + 1 < R) /\ host' = "done"
  <2>1. x + 1 = R /\ y + 1 = R
    BY <1>3, <1>4, <1>10
  <2>2. row = a + BLOCK_SIZE /\ row = b + BLOCK_SIZE
    BY <1>3, <1>7, <2>1
  <2>3. \A r, c \in 0..row - 1 : calculated'[r * row + c] = AllOf(r, c)
    <3> SUFFICES ASSUME NEW r \in 0..row - 1, NEW c \in 0..row - 1
                 PROVE  calculated'[r * row + c] = AllOf(r, c)
      OBVIOUS
    <3>1. r < row /\ c < row
      BY <1>3
    <3> QED
      BY <1>6, <2>2, <3>1 DEF a, b
  <2>4. \A r, c \in 0..row - 1 :
          calculated'[r * row + c] = {<<r * col + k, k * row + c>> : k \in 0..col - 1}
    BY <2>3 DEF AllOf, UpTo
  <2>5. row' = row /\ col' = col
    BY <1>1
  <2>6. Matrix!Right'
    BY ONLY <2>4, <2>5 DEF Matrix!Right, Matrix!Bcol
  <2> QED
    BY <1>10, <2>6 DEF ProductDone, Multiplying
<1> QED
  BY <1>2, <1>8, <1>9, <1>10 DEF R, x, y

-----------------------------------------------------------------------------
(* The invariant of a product.                                             *)

LEMMA MatrixValuesInitially ==
  ASSUME MatrixTypes, Matrix!Init
  PROVE  MatrixValues
<1>1. /\ host = "call" /\ group = <<0, 0>> /\ calculated = [x \in Matrix!Cells |-> {}]
      /\ loaded = [u \in Threads |-> <<>>]
      /\ step = [l \in Matrix!Block |-> 0] /\ Csub = [l \in Matrix!Block |-> {}]
  BY MatrixSets DEF Matrix!Init, Matrix!FreshItems
<1> QED
  BY <1>1 DEF MatrixValues, Calling, NoSteps, Adding, Multiplying, ProductDone

LEMMA MatrixValuesStep ==
  ASSUME MatrixTypes, MatrixValues, UNCHANGED <<input, enabled>>, Matrix!Next
  PROVE  MatrixValues'
<1>1. /\ Calling /\ NoSteps /\ (Matrix!Fits => Adding /\ Multiplying /\ ProductDone)
      /\ func' = func /\ (Matrix!Fits' <=> Matrix!Fits)
  BY SameMatrix, SameShapes DEF MatrixValues
<1> DEFINE Goal == NoSteps' /\ (Matrix!Fits => Adding' /\ Multiplying' /\ ProductDone')
<1>2. host' # "call" /\ Goal => MatrixValues'
  BY <1>1 DEF MatrixValues, Calling
<1>3. CASE Matrix!EnterCpu
  <2>1. host' = "cpu"
    BY <1>3 DEF Matrix!EnterCpu
  <2>2. Matrix!Fits => Adding'
    BY <1>1, <1>3, EnterAdding
  <2>3. Goal
    BY <2>1, <2>2 DEF NoSteps, Multiplying, ProductDone
  <2> QED
    BY <1>2, <2>1, <2>3
<1>4. CASE Matrix!LeaveCpu
  <2>1. host' = "done"
    BY <1>4 DEF Matrix!LeaveCpu
  <2>2. Matrix!Fits => ProductDone'
    BY <1>1, <1>4, LeaveAdding
  <2>3. Goal
    BY <2>1, <2>2 DEF NoSteps, Multiplying, Adding
  <2> QED
    BY <1>2, <2>1, <2>3
<1>5. CASE Matrix!Enqueue
  <2>1. host' \in {"kernel", "done"}
    BY <1>5 DEF Matrix!Enqueue
  <2>2. NoSteps' /\ (Matrix!Fits => Multiplying' /\ ProductDone')
    BY <1>1, <1>5, EnqueueValues
  <2>3. Goal
    BY <2>1, <2>2 DEF Adding
  <2> QED
    BY <1>2, <2>1, <2>3
<1>6. CASE Matrix!Kernel
  <2>1. host' = "done"
    BY <1>6 DEF Matrix!Kernel
  <2>2. Matrix!Fits => ProductDone'
    BY <1>1, <1>6, KernelDone
  <2>3. Goal
    BY <2>1, <2>2 DEF NoSteps, Multiplying, Adding
  <2> QED
    BY <1>2, <2>1, <2>3
<1>7. CASE Matrix!GroupEnds
  <2>1. func = "GPU_DISC"
    <3>1. host = "kernel" /\ \A l \in Matrix!Block : step[l] > 2 * Matrix!Blocks
      BY <1>7 DEF Matrix!GroupEnds
    <3>2. <<0, 0>> \in Matrix!Block /\ Matrix!Blocks \in Nat
      <4>1. BLOCK_SIZE \in Nat \ {0} /\ col \in Nat
        BY DimsAssumption DEF MatrixTypes, MatrixSides
      <4> DEFINE B == BLOCK_SIZE
      <4>2. B \in Nat \ {0} /\ col + B - 1 \in Nat
        BY <4>1
      <4>3. \A y \in Nat, z \in Nat \ {0} : y \div z \in Nat
        OBVIOUS
      <4> HIDE DEF B
      <4>4. (col + B - 1) \div B \in Nat
        BY <4>2, <4>3
      <4> QED
        BY <4>1, <4>4 DEF Matrix!Block, Matrix!Blocks, B
    <3>3. step[<<0, 0>>] # 0
      BY <3>1, <3>2 DEF MatrixTypes
    <3> QED
      BY <1>1, <3>1, <3>2, <3>3 DEF NoSteps
  <2>2. host' \in {"kernel", "done"}
    BY <1>7 DEF Matrix!GroupEnds
  <2>3. Matrix!Fits => Multiplying' /\ ProductDone'
    BY <1>1, <1>7, <2>1, GroupValues
  <2>4. Goal
    BY <1>1, <2>1, <2>2, <2>3 DEF NoSteps, Adding
  <2> QED
    BY <1>2, <2>2, <2>4
<1>8. CASE \E u \in Threads : Matrix!Read(u) \/ Matrix!Write(u)
  <2>1. PICK u \in Threads : Matrix!Read(u) \/ Matrix!Write(u)
    BY <1>8
  <2>2. host' = "cpu"
    BY <2>1 DEF Matrix!Read, Matrix!Write
  <2>3. Matrix!Fits => Adding'
    BY <1>1, <2>1, ReadAdding, WriteAdding
  <2>4. Goal
    BY <2>2, <2>3 DEF NoSteps, Multiplying, ProductDone
  <2> QED
    BY <1>2, <2>2, <2>4
<1>9. CASE \E l \in Matrix!Block : Matrix!LoadBlock(l) \/ Matrix!MultiplyBlock(l) \/ Matrix!WriteSub(l)
  <2>1. PICK l \in Matrix!Block : Matrix!LoadBlock(l) \/ Matrix!MultiplyBlock(l) \/ Matrix!WriteSub(l)
    BY <1>9
  <2>2. host' = "kernel" /\ func = "GPU_DISC"
    BY <2>1 DEF Matrix!LoadBlock, Matrix!MultiplyBlock, Matrix!WriteSub, Matrix!Running
  <2>3. Matrix!Fits => Multiplying'
    BY <1>1, <2>1, LoadValues, MultiplyValues, WriteValues
  <2>4. Goal
    BY <1>1, <2>2, <2>3 DEF NoSteps, Adding, ProductDone
  <2> QED
    BY <1>2, <2>2, <2>4
<1> QED
  BY <1>3, <1>4, <1>5, <1>6, <1>7, <1>8, <1>9, MatrixSets DEF Matrix!Next

LEMMA MatrixStutter ==
  ASSUME MatrixTypes, MatrixValues,
         UNCHANGED <<input, enabled, calculated, next, loaded, host, group, step, As, Bs, Csub>>
  PROVE  MatrixTypes' /\ MatrixValues'
<1>1. /\ row' = row /\ col' = col /\ func' = func /\ enabled' = enabled /\ calculated' = calculated
      /\ next' = next /\ loaded' = loaded /\ host' = host /\ group' = group /\ step' = step
      /\ As' = As /\ Bs' = Bs /\ Csub' = Csub /\ Matrix!Cells' = Matrix!Cells
      /\ (Matrix!Fits' <=> Matrix!Fits) /\ LastStep' = LastStep /\ UNCHANGED input
  BY SameMatrix, SameShapes DEF input
<1>2. MatrixTypes'
  BY <1>1, SameMatrix DEF MatrixTypes
<1>3. Calling => Calling'
  BY <1>1 DEF Calling
<1>4. NoSteps => NoSteps'
  BY <1>1 DEF NoSteps
<1>5. Adding => Adding'
  <2> SUFFICES ASSUME Adding, host = "cpu" PROVE Adding'
    BY <1>1 DEF Adding
  <2>1. /\ \A v \in Matrix!Members, m \in Nat : (loaded[v] # <<>> /\ m = next[v] =>
           /\ m < Matrix!EndTurn(v)
           /\ DOMAIN loaded[v] = {x \in Matrix!Cells : Matrix!At(x, m) # {}}
           /\ \A x \in DOMAIN loaded[v] : loaded[v][x] = {})'
    BY <1>1, SameShapes DEF Adding
  <2>2. \A v \in Matrix!Members : (next[v] \in Matrix!FirstTurn(v)..Matrix!EndTurn(v))'
    BY <1>1, SameShapes DEF Adding
  <2>3. \A m : Did(m)' <=> Did(m)
    BY <1>1, SameShapes DEF Did
  <2>4. \A r, c \in 0..row - 1 :
         (calculated[r * row + c] = IF Did(TurnOf(r, c)) THEN AllOf(r, c) ELSE {})'
    BY <1>1, <2>3, SameShapes DEF Adding
  <2> QED
    BY <1>1, <2>1, <2>2, <2>4, SameShapes DEF Adding
<1>6. Multiplying => Multiplying'
  <2> SUFFICES ASSUME Multiplying, host = "kernel", func = "GPU_DISC" PROVE Multiplying'
    BY <1>1 DEF Multiplying
  <2>1. \A u, r, c : IsItem(u, r, c)' <=> IsItem(u, r, c)
    BY <1>1 DEF IsItem
  <2>2. \A u, r, c, n : ItemHas(u, r, c, n)' <=> ItemHas(u, r, c, n)
    BY <1>1, SameShapes DEF ItemHas
  <2>3. \A r, c : Written(r, c)' <=> Written(r, c)
    BY <1>1, <2>1 DEF Written
  <2>4. \A u \in Matrix!Block : \A r, c, n \in Nat : (IsItem(u, r, c) => ItemHas(u, r, c, n))'
    BY <2>1, <2>2 DEF Multiplying
  <2>5. \A r, c \in 0..row - 1 : (Written(r, c) => calculated[r * row + c] = AllOf(r, c))'
    BY <1>1, <2>3, SameShapes DEF Multiplying
  <2> QED
    BY <1>1, <2>4, <2>5 DEF Multiplying
<1>7. ProductDone => ProductDone'
  <2>1. Matrix!Right => Matrix!Right'
    BY <1>1, SameShapes DEF Matrix!Right, Matrix!Bcol
  <2> QED
    BY <1>1, <2>1 DEF ProductDone, Matrix!GpuFuncs
<1> QED
  BY <1>1, <1>2, <1>3, <1>4, <1>5, <1>6, <1>7 DEF MatrixValues

\* In a call of a product the variables of the other functions stay as they are.
MatrixCall == app = "matrix" => MatrixTypes /\ MatrixValues /\ IdleScan /\ IdleConv

\* The inductive invariant of a product.
THEOREM MatrixCalls == AlgSpec => []MatrixCall
<1>1. AlgInit => MatrixCall
  <2> SUFFICES ASSUME AlgInit, app = "matrix"
               PROVE  MatrixTypes /\ MatrixValues /\ IdleScan /\ IdleConv
    BY DEF MatrixCall
  <2>1. /\ \E f \in DOMAIN MatrixDims : \E d \in MatrixDims[f] : func = f /\ row = d[1] /\ col = d[2]
        /\ Matrix!Init /\ IdleScan /\ IdleConv
    BY DEF AlgInit
  <2>2. MatrixSides
    BY <2>1, DimsAssumption DEF MatrixSides
  <2> QED
    BY <2>1, <2>2, MatrixTypesInitially, MatrixValuesInitially
<1>2. MatrixCall /\ [AlgNext]_algVars => MatrixCall'
  <2> SUFFICES ASSUME MatrixCall, [AlgNext]_algVars PROVE MatrixCall'
    OBVIOUS
  <2>0. app' = app
    BY DEF AlgNext, algVars, input
  <2> SUFFICES ASSUME app = "matrix"
               PROVE  MatrixTypes' /\ MatrixValues' /\ IdleScan' /\ IdleConv'
    BY <2>0 DEF MatrixCall
  <2>1. MatrixTypes /\ MatrixValues /\ IdleScan /\ IdleConv
    BY DEF MatrixCall
  <2>2. \/ Matrix!Next /\ UNCHANGED <<input, enabled, scanOnly, convVars>>
        \/ UNCHANGED algVars
    BY DEF AlgNext
  <2>3. UNCHANGED <<input, enabled, scanOnly, convVars>>
    BY <2>2 DEF algVars
  <2>4. UNCHANGED <<input, enabled>>
    BY <2>3
  <2>5. IdleScan' /\ IdleConv'
    <3>1. /\ size' = size /\ suma' = suma /\ pc' = pc /\ i' = i /\ sum' = sum /\ offset' = offset
          /\ singles' = singles /\ tmp' = tmp /\ carry' = carry /\ kernel' = kernel
          /\ l_Data' = l_Data /\ t' = t /\ offsets' = offsets /\ d_Dst' = d_Dst /\ d_Buf' = d_Buf
          /\ buf' = buf
      BY <2>3 DEF scanOnly, ompVars
    <3>2. IdleScan'
      BY <2>1, <3>1 DEF IdleScan
    <3>3. IdleConv'
      BY <2>1, <2>3 DEF IdleConv, convVars, input
    <3> QED
      BY <3>2, <3>3
  <2>6. CASE Matrix!Next
    BY <2>1, <2>4, <2>5, <2>6, MatrixTypesStep, MatrixValuesStep
  <2>7. CASE UNCHANGED algVars
    <3>1. UNCHANGED <<input, enabled, calculated, next, loaded, host, group, step, As, Bs, Csub>>
      BY <2>7 DEF algVars, matVars, kernelVars
    <3> QED
      BY <2>1, <2>5, <3>1, MatrixStutter
  <2> QED
    BY <2>2, <2>6, <2>7
<1> QED
  BY <1>1, <1>2, PTL DEF AlgSpec

\* Every function that fits the sides, but GPU_VEC8, gives every element all its products,
\* each once.
THEOREM Multiplies == AlgSpec => []ProductRight
<1>1. MatrixCall => ProductRight
  BY DEF MatrixCall, MatrixValues, ProductRight, Multiplied, ProductDone, Matrix!Done
<1> QED
  BY <1>1, MatrixCalls, PTL

-----------------------------------------------------------------------------
(* The types of all calls.                                                 *)

\* The types of the scans of the CPU, and in a call of a scan those of the others.
OmpTypes == TypeOK /\ OneThread!TypeOK
ScanTypes == app = "scan" => OmpTypes /\ NoSides /\ IdleMatrix /\ IdleConv

\* The lanes of a register are sums if those it was loaded with are.
LEMMA LaneTypes ==
  ASSUME size \in Nat, next \in Nat
  PROVE  /\ \A l \in 0..3 : OneThread!scan_SSE(OneThread!Vector(4))[l] \in SumsOver(size)
         /\ \A l \in 0..7 : OneThread!scan_AVX(OneThread!Vector(8))[l] \in SumsOver(size)
<1> DEFINE Lanes(x, width) ==
      DOMAIN x = 0..width - 1 /\ \A l \in 0..width - 1 : x[l] \in SumsOver(size)
<1>1. ASSUME NEW width \in {4, 8}, NEW n \in {1, 2, 4}, NEW x, Lanes(x, width)
      PROVE  Lanes(Shifted(x, n, width), width)
  <2>1. ASSUME NEW l \in 0..width - 1
        PROVE  Shifted(x, n, width)[l] \in SumsOver(size)
    <3> DEFINE below == IF l < n THEN Zero ELSE x[l - n]
    <3>1. below \in SumsOver(size)
      <4>1. ~(l < n) => l - n \in 0..width - 1
        OBVIOUS
      <4> QED
        BY <1>1, <4>1, SumTypes
    <3>2. x[l] \in SumsOver(size)
      BY <1>1
    <3>3. Shifted(x, n, width)[l] = Add(below, x[l])
      BY DEF Shifted
    <3> HIDE DEF below
    <3> QED
      BY <3>1, <3>2, <3>3, SumTypes
  <2>2. DOMAIN Shifted(x, n, width) = 0..width - 1
    BY DEF Shifted
  <2> QED
    BY <2>1, <2>2
<1>2. ASSUME NEW width \in {4, 8}
      PROVE  Lanes(OneThread!Vector(width), width)
  <2>1. OneThread!Vector(width) =
          [l \in 0..width - 1 |-> IF next + l < size THEN Element(next + l) ELSE Wrong]
    BY SameSums DEF OneThread!Vector, OneThread!mem
  <2>2. ASSUME NEW l \in 0..width - 1, next + l < size
        PROVE  Element(next + l) \in SumsOver(size)
    <3>1. next + l \in 0..size /\ next + l + 1 \in 0..size
      BY <2>2
    <3> QED
      BY <3>1, SumTypes DEF Element
  <2> QED
    BY <2>1, <2>2, SumTypes
<1> HIDE DEF Lanes
<1>3. DOMAIN OneThread!Vector(8) = 0..7
  BY <1>2 DEF Lanes
<1>4. Lanes(OneThread!scan_SSE(OneThread!Vector(4)), 4)
  <2>1. Lanes(Shifted(OneThread!Vector(4), 1, 4), 4)
    BY <1>1, <1>2
  <2>2. Lanes(Shifted(Shifted(OneThread!Vector(4), 1, 4), 2, 4), 4)
    BY <1>1, <2>1
  <2> QED
    BY <1>2, <2>2, SseLanes DEF Lanes
<1>5. Lanes(OneThread!scan_AVX(OneThread!Vector(8)), 8)
  <2>1. Lanes(Shifted(OneThread!Vector(8), 1, 8), 8)
    BY <1>1, <1>2
  <2>2. Lanes(Shifted(Shifted(OneThread!Vector(8), 1, 8), 2, 8), 8)
    BY <1>1, <2>1
  <2>3. Lanes(Shifted(Shifted(Shifted(OneThread!Vector(8), 1, 8), 2, 8), 4, 8), 8)
    BY <1>1, <2>2
  <2> QED
    BY <1>3, <2>3, AvxLanes
<1> QED
  BY <1>4, <1>5 DEF Lanes

LEMMA SequentialTypes ==
  ASSUME OmpTypes, size \in Nat,
         OneThread!StdTurn \/ OneThread!SseTurn \/ OneThread!AvxTurn, UNCHANGED <<size, ompVars>>
  PROVE  OmpTypes'
<1>1. /\ size' = size /\ suma' = suma /\ pc' = pc /\ i' = i /\ sum' = sum /\ offset' = offset
      /\ singles' = singles /\ tmp' = tmp
  BY DEF ompVars
<1>2. /\ next \in Nat /\ carry \in SumsOver(size)
      /\ calculated \in [0..size - 1 -> SumsOver(size)]
  BY DEF OmpTypes, TypeOK, OneThread!TypeOK, OneThread!SumsOver, SumsOver, OneThread!Wrong, Wrong
<1>3. SUFFICES /\ next' \in Nat /\ carry' \in SumsOver(size)
               /\ calculated' \in [0..size - 1 -> SumsOver(size)]
  <2> SUFFICES ASSUME next' \in Nat, carry' \in SumsOver(size),
                      calculated' \in [0..size - 1 -> SumsOver(size)]
               PROVE  OmpTypes'
    OBVIOUS
  <2>1. TypeOK'
    BY <1>1 DEF OmpTypes, TypeOK
  <2>2. OneThread!TypeOK'
    BY <1>1 DEF OneThread!TypeOK, OneThread!SumsOver, SumsOver, OneThread!Wrong, Wrong
  <2> QED
    BY <2>1, <2>2 DEF OmpTypes
<1>4. CASE OneThread!StdTurn
  <2>1. /\ next < size /\ next' = next + 1 /\ carry' = Add(carry, Element(next))
        /\ calculated' = [calculated EXCEPT ![next] = carry']
    BY <1>4, SameSums DEF OneThread!StdTurn, OneThread!mem
  <2>2. next \in 0..size /\ next + 1 \in 0..size
    BY <1>2, <2>1
  <2>3. Element(next) \in SumsOver(size)
    BY <2>2, SumTypes DEF Element
  <2>4. carry' \in SumsOver(size)
    BY <1>2, <2>1, <2>3, SumTypes
  <2> QED
    BY <1>2, <2>1, <2>2, <2>4
<1>5. ASSUME NEW width \in {4, 8}, NEW out, OneThread!VectorTurn(width, out),
             \A l \in 0..width - 1 : out[l] \in SumsOver(size)
      PROVE  /\ next' \in Nat /\ carry' \in SumsOver(size)
             /\ calculated' \in [0..size - 1 -> SumsOver(size)]
  <2>1. /\ next' = next + width /\ carry' = Add(carry, out[width - 1])
        /\ calculated' = [k \in 0..size - 1 |->
             IF k \in next..next + width - 1 THEN Add(carry, out[k - next]) ELSE calculated[k]]
    BY <1>5, SameSums DEF OneThread!VectorTurn
  <2>2. ASSUME NEW l \in 0..width - 1 PROVE Add(carry, out[l]) \in SumsOver(size)
    <3>1. out[l] \in SumsOver(size)
      BY <1>5
    <3> QED
      BY <1>2, <3>1, SumTypes
  <2>3. width - 1 \in 0..width - 1 /\ next + width \in Nat
    BY <1>2
  <2>4. \A k \in 0..size - 1 : k \in next..next + width - 1 => k - next \in 0..width - 1
    BY <1>2
  <2>5. \A k \in 0..size - 1 :
          (IF k \in next..next + width - 1 THEN Add(carry, out[k - next]) ELSE calculated[k])
            \in SumsOver(size)
    BY <1>2, <2>2, <2>4
  <2> QED
    BY <2>1, <2>2, <2>3, <2>5
<1>6. CASE OneThread!SseTurn
  <2> DEFINE out == OneThread!scan_SSE(OneThread!Vector(4))
  <2>1. 4 \in {4, 8} /\ OneThread!VectorTurn(4, out)
    BY <1>6 DEF OneThread!SseTurn
  <2>2. \A l \in 0..4 - 1 : out[l] \in SumsOver(size)
    BY <1>2, LaneTypes
  <2> HIDE DEF out
  <2> QED
    BY <1>5, <2>1, <2>2
<1>7. CASE OneThread!AvxTurn
  <2> DEFINE out == OneThread!scan_AVX(OneThread!Vector(8))
  <2>1. 8 \in {4, 8} /\ OneThread!VectorTurn(8, out)
    BY <1>7 DEF OneThread!AvxTurn
  <2>2. \A l \in 0..8 - 1 : out[l] \in SumsOver(size)
    BY <1>2, LaneTypes
  <2> HIDE DEF out
  <2> QED
    BY <1>5, <2>1, <2>2
<1> QED
  BY <1>3, <1>4, <1>6, <1>7

LEMMA OmpTypesStutter ==
  ASSUME OmpTypes, UNCHANGED <<size, calculated, ompVars, seqVars>>
  PROVE  OmpTypes'
<1>1. /\ size' = size /\ suma' = suma /\ pc' = pc /\ i' = i /\ sum' = sum /\ offset' = offset
      /\ singles' = singles /\ tmp' = tmp /\ calculated' = calculated /\ next' = next
      /\ carry' = carry
  BY DEF ompVars, seqVars
<1>2. TypeOK'
  BY <1>1 DEF OmpTypes, TypeOK
<1>3. OneThread!TypeOK'
  BY <1>1 DEF OmpTypes, OneThread!TypeOK, OneThread!SumsOver, OneThread!Wrong
<1> QED
  BY <1>2, <1>3 DEF OmpTypes

LEMMA CallTypes ==
  ASSUME OmpTypes, CallInv, GpuTypes, ScanNext
  PROVE  OmpTypes'
<1>1. size \in Nat
  BY DEF GpuTypes
<1>2. CASE UNCHANGED scanVars
  BY <1>2, OmpTypesStutter DEF scanVars
<1>3. CASE \/ Sequential("STD", OneThread!StdTurn) \/ Sequential("SSE", OneThread!SseTurn)
           \/ Sequential("AVX", OneThread!AvxTurn)
  BY <1>1, <1>3, SequentialTypes DEF Sequential
<1>4. CASE Parallel
  <2>1. PICK u \in Threads : func = "OMP_SSE" /\ Step(u)
    BY <1>4 DEF Parallel
  <2>2. TypeOK'
    BY <2>1, TypeStep DEF OmpTypes
  <2>3. size' = size /\ next' = next /\ carry' = carry
    BY <1>4, <2>1, Frame DEF CallInv, ScanOmpInv, Parallel, seqVars
  <2>4. OneThread!TypeOK'
    BY <2>3 DEF OmpTypes, OneThread!TypeOK, OneThread!SumsOver, OneThread!Wrong
  <2> QED
    BY <2>2, <2>4 DEF OmpTypes
<1>5. CASE OnGpu
  <2>1. Gpu!Next /\ size' = size /\ UNCHANGED <<ompVars, seqVars>>
    BY <1>5 DEF OnGpu
  <2>2. CASE calculated' = calculated
    BY <2>1, <2>2, OmpTypesStutter
  <2>3. CASE calculated' = d_Dst
    <3>1. /\ suma' = suma /\ pc' = pc /\ i' = i /\ sum' = sum /\ offset' = offset
          /\ singles' = singles /\ tmp' = tmp /\ next' = next /\ carry' = carry
      BY <2>1 DEF ompVars, seqVars
    <3>2. d_Dst \in [0..size - 1 -> SumsOver(size)]
      BY GpuSums DEF GpuTypes, Gpu!TypeOK
    <3>3. TypeOK'
      BY <2>1, <2>3, <3>1, <3>2 DEF OmpTypes, TypeOK
    <3>4. OneThread!TypeOK'
      BY <2>1, <3>1 DEF OmpTypes, OneThread!TypeOK, OneThread!SumsOver, OneThread!Wrong
    <3> QED
      BY <3>3, <3>4 DEF OmpTypes
  <2>4. calculated' = calculated \/ calculated' = d_Dst
    BY <2>1 DEF Gpu!Next, Gpu!Enqueue, Gpu!Refused, Gpu!GroupEnds, Gpu!ReadBuffer, Gpu!Item,
      Gpu!Fill, Gpu!Load, Gpu!Save, Gpu!Return, Gpu!LoadTotal, Gpu!AddTotal, Gpu!Advance
  <2> QED
    BY <2>2, <2>3, <2>4
<1> QED
  BY <1>2, <1>3, <1>4, <1>5 DEF ScanNext, Call

\* The types of a call of a scan.
THEOREM ScanCalls == AlgSpec => []ScanTypes
<1>1. AlgInit => ScanTypes
  <2> SUFFICES ASSUME AlgInit, app = "scan" PROVE OmpTypes /\ NoSides /\ IdleMatrix /\ IdleConv
    BY DEF ScanTypes
  <2>1. Init /\ OneThread!Init /\ NoSides /\ IdleMatrix /\ IdleConv
    BY DEF AlgInit, ScanInit
  <2>2. TypeOK
    BY <2>1, TypeInitially
  <2>3. OneThread!TypeOK
    <3>1. size \in Nat
      BY <2>1, ScanAssumption DEF Init
    <3>2. next = 0 /\ carry = Zero
      BY <2>1, SameSums DEF OneThread!Init
    <3> QED
      BY <3>1, <3>2 DEF OneThread!TypeOK, OneThread!SumsOver, Zero
  <2> QED
    BY <2>1, <2>2, <2>3 DEF OmpTypes
<1>2. AlgInv /\ GpuCall /\ ScanTypes /\ [AlgNext]_algVars => ScanTypes'
  <2> SUFFICES ASSUME AlgInv, GpuCall, ScanTypes, [AlgNext]_algVars, app' = "scan"
               PROVE  OmpTypes' /\ NoSides' /\ IdleMatrix' /\ IdleConv'
    BY DEF ScanTypes
  <2>1. app' = app /\ app = "scan"
    BY DEF AlgNext, algVars, input
  <2>2. OmpTypes /\ NoSides /\ IdleMatrix /\ IdleConv /\ CallInv /\ GpuTypes
    BY <2>1 DEF ScanTypes, AlgInv, GpuCall
  <2>3. \/ ScanNext /\ UNCHANGED <<row, col, filter_length, matVars, convVars>>
        \/ UNCHANGED algVars
    BY <2>1 DEF AlgNext
  <2>4. UNCHANGED <<row, col, filter_length, matVars, convVars>>
    BY <2>3 DEF algVars, input
  <2>5. NoSides' /\ IdleMatrix' /\ IdleConv'
    BY <2>2, <2>4 DEF NoSides, IdleMatrix, IdleConv, matVars, convVars
  <2>6. CASE ScanNext
    BY <2>2, <2>5, <2>6, CallTypes
  <2>7. CASE UNCHANGED algVars
    BY <2>2, <2>5, <2>7, OmpTypesStutter DEF algVars, scanOnly, seqVars
  <2> QED
    BY <2>3, <2>6, <2>7
<1> QED
  BY <1>1, <1>2, Calls, GpuCalls, PTL DEF AlgSpec

\* Whatever is called, the variables of its function have their types and those of the
\* others stay as they are.
THEOREM Types == AlgSpec => []AlgTypeOK
<1> DEFINE Apps == app \in {"scan", "matrix", "conv"}
<1>1. AlgSpec => []Apps
  <2>1. AlgInit => Apps
    BY DEF AlgInit
  <2>2. Apps /\ [AlgNext]_algVars => Apps'
    BY DEF AlgNext, algVars, input
  <2> QED
    BY <2>1, <2>2, PTL DEF AlgSpec
<1>2. Apps /\ ScanTypes /\ GpuCall /\ MatrixCall /\ ConvCall => AlgTypeOK
  <2> SUFFICES ASSUME Apps, ScanTypes, GpuCall, MatrixCall, ConvCall PROVE AlgTypeOK
    OBVIOUS
  <2>1. CASE app = "scan"
    BY <2>1 DEF ScanTypes, OmpTypes, GpuCall, GpuTypes, ScanTypeOK, AlgTypeOK
  <2>2. CASE app = "matrix"
    BY <2>2, MatrixTypesOK DEF MatrixCall, AlgTypeOK
  <2>3. CASE app = "conv"
    BY <2>3 DEF ConvCall, ConvInv, AlgTypeOK
  <2> QED
    BY <2>1, <2>2, <2>3
<1> HIDE DEF Apps
<1> QED
  BY <1>1, <1>2, ScanCalls, GpuCalls, MatrixCalls, ConvCalls, PTL

===============================================================================
