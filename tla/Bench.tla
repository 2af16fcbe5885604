-------------------------------- MODULE Bench --------------------------------
(***************************************************************************)
(* One run of the benchmark: App::setModes, run, processDir/processList,   *)
(* process and calculate (app/app.cpp, app/scan/scanapp.cpp, and the same  *)
(* control in matrixapp.cpp and convapp.cpp).                              *)
(*                                                                         *)
(* A run opens its log, goes through its input files, and for each file    *)
(* either calculates one mode, and checks it against another one (-s), or  *)
(* calculates a range of modes (-m a, c, g).  A calculation repeats a      *)
(* function of funcList between read_before and read_after of the meter.   *)
(*                                                                         *)
(* A result is known by how often the product, scan or convolution is in   *)
(* it (the matrix functions of the CPU add to what they find, all others   *)
(* overwrite it) and, for a scan, by whether an element is part of its own *)
(* sum.  Energy is counted in executions of the function.                  *)
(***************************************************************************)
EXTENDS Integers, Sequences, FiniteSets

CONSTANTS
  Apps,            \* the algorithms that may be asked for (-a)
  Machines,        \* the builds looked at, and what the machine has for a GPU
  ModeRequests,    \* the numbers that may be given to -m
  SanityRequests,  \* the numbers that may be given to -s
  Repeats,         \* the repeat counts that may be given to -r
  IntLimit,        \* the first number an int cannot hold, 2^31
  MaxFiles,        \* bound: file arguments, or directory entries
  MaxFileCount,    \* MAX_FILE_COUNT, 10 in the code
  MaxTimes         \* MAX_TIMEARRAY_COUNT, 1000 in the code

ASSUME BenchAssumption ==
  /\ Apps \subseteq {"matrix", "scan", "conv"}
  /\ Machines \subseteq [build : {"x86", "avx", "arm"},
                         gpu : {"not_built", "disabled", "unloaded", "enabled"}]
  /\ ModeRequests \subseteq Nat
  /\ SanityRequests \subseteq Nat
  /\ Repeats \subseteq Nat \ {0}
  /\ IntLimit \in Nat \ {0}
  /\ MaxFiles \in Nat
  /\ MaxFileCount \in Nat
  /\ MaxTimes \in Nat

VARIABLES
  pc,         \* where the program is
  conf,       \* what setModes stored, and the machine the program runs on
  log,        \* App::debugFile
  files,      \* the files, or directory entries, still to be processed
  status,     \* what run returns
  role,       \* what the calculation is for: "single", "sanity", "sequence"
  last,       \* the end of the range of modes, startIndex + count
  calc,       \* the locals of calculate
  live,       \* the objects of the current file that exist
  results,    \* what is in the results C and D
  verdict,    \* what the sanity check of this file printed
  leaked,     \* results of earlier files that nothing refers to any more
  tried,      \* the modes calculated for this file, in order
  failed,     \* a function has returned false
  measuring,  \* the meter: a measurement is open
  energy,     \* the meter: executions measured
  reported    \* the meter: what read_after returned last

meterVars == <<measuring, energy, reported>>
vars == <<pc, conf, log, files, status, role, last, calc, live, results, verdict,
          leaked, tried, failed, measuring, energy, reported>>

-----------------------------------------------------------------------------
(* The tables of functions.                                                *)

NoSanity == 65535    \* INVALID_SANITY: no table has this many functions

\* MULTYPE_CPU_MAX, SCANTYPE_CPU_MAX, CONVTYPE_CPU_MAX of the build with __AVX__ or not,
\* or with __ARM__
CpuMax(c) == CASE c.app = "matrix" -> 4
               [] c.app = "scan"   -> [x86 |-> 3, avx |-> 4, arm |-> 1][c.build]
               [] c.app = "conv"   -> 2

\* MULTYPE_MAX, SCANTYPE_MAX, CONVTYPE_MAX: getFuncModeCount(FUNCTYPE_ALL)
ModeMax(c) ==
  CpuMax(c) + CASE c.gpu = "not_built" -> 0
                [] c.app = "matrix"    -> IF c.build = "arm" THEN 3 ELSE 4
                [] c.app = "scan"      -> 1
                [] c.app = "conv"      -> 3

\* The check setModes makes of -m and -s.
ExistsInclusive(n) == n <= ModeMax(conf)
Exists(n) == n < ModeMax(conf)

\* A GPU function gives up when no GPU was found; nothing else returns false.
OnGpu(mode) == mode >= CpuMax(conf)
Fails(mode) == OnGpu(mode) /\ conf.gpu = "disabled"

\* The product is added to the result, or replaces it.
AccumulatesEverywhere(mode) == ~OnGpu(mode)
Accumulates(mode) == conf.app = "matrix" /\ ~OnGpu(mode)

\* What is in a result before any function ran, and after the function of a mode
\* found c in it.  Element i of a scan is the sum of the first i + upto elements:
\* the functions of the CPU scan inclusively, that of the GPU exclusively.  A GPU
\* function whose kernel was not loaded returns true and computes nothing.
Nothing == [products |-> 0, upto |-> 0]
Computed(mode, c) ==
  IF OnGpu(mode) /\ conf.gpu = "unloaded"
  THEN c
  ELSE [products |-> IF Accumulates(mode) THEN c.products + 1 ELSE 1,
        upto     |-> IF conf.app = "scan" /\ ~OnGpu(mode) THEN 1 ELSE 0]

\* compare finds no difference at all.  Scan::compare takes element i of C and
\* element i + 1 of D, the others compare element by element.
Same(c, d) ==
  /\ c.products = d.products
  /\ c.upto = d.upto + IF conf.app = "scan" THEN 1 ELSE 0

\* The range of modes a sequence goes through, as <<startIndex, startIndex + count>>.
\* Without OpenCL the matrix and scan switches have no case for SEQTYPE_GPU.
ModeRange(c) ==
  CASE c.seq = "cpu" -> <<0, CpuMax(c)>>
    [] c.seq = "gpu" /\ (c.app = "conv" \/ c.gpu # "not_built")
                     -> <<CpuMax(c), ModeMax(c)>>
    [] OTHER         -> <<0, ModeMax(c)>>

Configurations ==
  [app : Apps, build : {"x86", "avx", "arm"},
   gpu : {"not_built", "disabled", "unloaded", "enabled"}, mode : Int,
   seq : {"none", "cpu", "gpu", "all"}, sanity : Int, repeat : Nat, print : BOOLEAN, time : BOOLEAN]

\* The locals of calculate: the mode, the parameter repeat, the loop counter,
\* the executions added to t_total, the entries of sTime written, and whether
\* `calculated' was returned.
NoCalc == [mode |-> 0, repeat |-> 0, i |-> 0, timed |-> 0, stamps |-> {}, ok |-> FALSE]

TypeOK ==
  /\ pc \in {"main", "run", "files", "begin", "repeat", "report", "result", "free", "exit", "aborted"}
  /\ conf \in Configurations
  /\ log \in {"none", "open", "closed"}
  /\ files \in Seq({"good", "bad", "other"})
  /\ status \in BOOLEAN
  /\ role \in {"single", "sanity", "sequence"}
  /\ last \in Int
  /\ calc.mode \in Int /\ calc.i <= calc.repeat /\ calc.timed <= calc.i
  /\ calc.stamps \subseteq 0..MaxTimes
  /\ live \subseteq {"A", "C", "D"}
  /\ results \in [{"C", "D"} -> [products : Nat, upto : {0, 1}]]
  /\ verdict \in {"none", "passed", "failed"}
  /\ leaked \in 0..MaxFiles
  /\ tried \in Seq(Int)
  /\ failed \in BOOLEAN
  /\ measuring \in BOOLEAN
  /\ energy \in Nat
  /\ reported \in Nat

\* The constructor of App, and of the meter.
Init ==
  /\ pc = "main"
  /\ \E app \in Apps, m \in Machines :
       conf = [app |-> app, build |-> m.build, gpu |-> m.gpu, mode |-> 0, seq |-> "none",
               sanity |-> NoSanity, repeat |-> 1, print |-> TRUE, time |-> FALSE]
  /\ log = "none"
  /\ files = <<>>
  /\ status = FALSE
  /\ role = "single"
  /\ last = 0
  /\ calc = NoCalc
  /\ live = {}
  /\ results = [o \in {"C", "D"} |-> Nothing]
  /\ verdict = "none"
  /\ leaked = 0
  /\ tried = <<>>
  /\ failed = FALSE
  /\ measuring = FALSE
  /\ energy = 0
  /\ reported = 0

calcVars == <<role, last, calc, live, results, verdict, leaked, tried, failed>>

-----------------------------------------------------------------------------
(* The run.                                                                *)

\* atoi: a number too large for an int wraps.
Atoi(n) == ((n + IntLimit) % (2 * IntLimit)) - IntLimit

\* The options as main hands them to setModes.
Options ==
  [mode   : {Atoi(m) : m \in ModeRequests},
   seq    : {"none", "cpu", "gpu", "all"},
   sanity : {Atoi(s) : s \in SanityRequests} \cup {NoSanity},
   repeat : Repeats, print : BOOLEAN, time : BOOLEAN]

\* A mode beyond the table leaves the default; a sanity mode has not to be beyond the
\* table, needs a single mode, and not to be the mode asked for.
SetModes(o) ==
  /\ pc = "main"
  /\ pc' = "run"
  /\ conf' = [conf EXCEPT
                !.mode   = IF Exists(o.mode) THEN o.mode ELSE @,
                !.seq    = o.seq,
                !.sanity = IF Exists(o.sanity) /\ o.seq = "none" /\ o.sanity # o.mode
                           THEN o.sanity ELSE @,
                !.print  = o.print,
                !.time   = o.time,
                !.repeat = o.repeat]
  /\ UNCHANGED <<log, files, status, calcVars, meterVars>>

\* "-c" among the arguments: a file is created, or usage is printed, and run
\* returns.
Create ==
  /\ pc = "run"
  /\ pc' = "exit"
  /\ status' \in BOOLEAN
  /\ UNCHANGED <<conf, log, files, calcVars, meterVars>>

\* printStart could not open the log.
NoLog ==
  /\ pc = "run"
  /\ conf.print
  /\ pc' = "exit"
  /\ status' = FALSE
  /\ UNCHANGED <<conf, log, files, calcVars, meterVars>>

\* The log is open, but not the directory.
NoDirectory ==
  /\ pc = "run"
  /\ pc' = "exit"
  /\ status' = FALSE
  /\ log' = IF conf.print THEN "closed" ELSE log
  /\ UNCHANGED <<conf, files, calcVars, meterVars>>

\* printStart, then the files named on the command line, or, without any, the
\* directory's entries: inputs that load, inputs that do not, and what is skipped.
Contents(kinds) == UNION {[1..n -> kinds] : n \in 0..MaxFiles}
Start ==
  /\ pc = "run"
  /\ pc' = "files"
  /\ log' = IF conf.print THEN "open" ELSE log
  /\ \/ \E args \in Contents({"good", "bad"}) \ {<<>>} :
           files' = SubSeq(args, 1, IF Len(args) < MaxFileCount THEN Len(args) ELSE MaxFileCount)
     \/ files' \in Contents({"good", "bad", "other"})
  /\ UNCHANGED <<conf, status, calcVars, meterVars>>

\* The end of run: the log is closed if there is one.
Return(s) ==
  /\ pc' = "exit"
  /\ status' = s
  /\ log' = IF log = "open" THEN "closed" ELSE log
  /\ UNCHANGED <<conf, files, calcVars, meterVars>>

\* All files are done, or the next one cannot be loaded, which ends the run.
EndRun == pc = "files" /\ files = <<>> /\ Return(TRUE)
LoadFails == pc = "files" /\ files # <<>> /\ Head(files) = "bad" /\ Return(FALSE)

\* An entry that is no regular file, has another name, or is a checksum.
Skip ==
  /\ pc = "files"
  /\ files # <<>> /\ Head(files) = "other"
  /\ files' = Tail(files)
  /\ UNCHANGED <<pc, conf, log, status, calcVars, meterVars>>

\* process loads its input A, and starts on the single mode or on the first mode
\* of the sequence.  The sequence of a GPU that is not built is empty for conv.
Load ==
  /\ pc = "files"
  /\ files # <<>> /\ Head(files) = "good"
  /\ live' = {"A"}
  /\ verdict' = "none"
  /\ tried' = <<>>
  /\ IF conf.seq = "none"
     THEN /\ role' = "single"
          /\ calc' = [NoCalc EXCEPT !.mode = conf.mode, !.repeat = conf.repeat]
          /\ last' = conf.mode + 1
     ELSE /\ role' = "sequence"
          /\ calc' = [NoCalc EXCEPT !.mode = ModeRange(conf)[1], !.repeat = conf.repeat]
          /\ last' = ModeRange(conf)[2]
  /\ pc' = IF calc'.mode < last' THEN "begin" ELSE "free"
  /\ UNCHANGED <<conf, log, files, status, results, leaked, failed, meterVars>>

-----------------------------------------------------------------------------
(* calculate.                                                              *)

Result == IF role = "sanity" THEN "D" ELSE "C"

\* The result is allocated and zeroed.  read_before opens a measurement or does
\* not (no meter, or a failure): its result is not looked at.
Begin ==
  /\ pc = "begin"
  /\ calc.mode >= 0
  /\ pc' = "repeat"
  /\ live' = live \cup {Result}
  /\ results' = [results EXCEPT ![Result] = Nothing]
  /\ tried' = Append(tried, calc.mode)
  /\ \/ measuring' = TRUE /\ energy' = 0
     \/ UNCHANGED <<measuring, energy>>
  /\ UNCHANGED <<conf, log, files, status, role, last, calc, verdict, leaked, failed, reported>>

\* A result, or what -c creates, does not fit into memory: its constructor throws, and
\* nobody catches that.
OutOfMemory ==
  /\ pc \in {"begin", "run"}
  /\ pc' = "aborted"
  /\ UNCHANGED <<conf, log, files, status, calcVars, meterVars>>

\* A negative mode indexes what lies before the table; nothing is said of what follows.
BeforeTable ==
  /\ pc = "begin"
  /\ calc.mode < 0
  /\ pc' = "aborted"
  /\ UNCHANGED <<conf, log, files, status, calcVars, meterVars>>

\* for (int i = 0; i < repeat; i++)
RepeatsOneMore == calc.i <= calc.repeat
Repeating == calc.i < calc.repeat

\* One turn of the repeat loop.  The first of several is a warm-up and not timed.
Execute ==
  /\ pc = "repeat"
  /\ Repeating
  /\ ~Fails(calc.mode)
  /\ results' = [results EXCEPT ![Result] = Computed(calc.mode, @)]
  /\ energy' = IF measuring THEN energy + 1 ELSE energy
  /\ LET timed == calc.i > 0 \/ calc.repeat = 1 IN
       calc' = [calc EXCEPT
                  !.i = @ + 1,
                  !.timed = IF timed THEN @ + 1 ELSE @,
                  !.stamps = IF timed /\ conf.time /\ calc.i < MaxTimes
                             THEN @ \cup {calc.i} ELSE @]
  /\ UNCHANGED <<pc, conf, log, files, status, role, last, live, verdict, leaked, tried,
                 failed, measuring, reported>>

\* The function returns false: the result is deleted and read_after not called.
FailKeepsResult ==
  /\ pc = "repeat"
  /\ Repeating
  /\ Fails(calc.mode)
  /\ calc' = [calc EXCEPT !.ok = FALSE]
  /\ failed' = TRUE
  /\ pc' = "result"
  /\ UNCHANGED <<conf, log, files, status, role, last, live, results, verdict, leaked,
                 tried, meterVars>>

Fail ==
  /\ pc = "repeat"
  /\ Repeating
  /\ Fails(calc.mode)
  /\ live' = live \ {Result}
  /\ calc' = [calc EXCEPT !.ok = FALSE]
  /\ failed' = TRUE
  /\ pc' = "result"
  /\ UNCHANGED <<conf, log, files, status, role, last, results, verdict, leaked, tried,
                 meterVars>>

\* The loop is done: read_after.
MeasuredWithoutReadAfter ==
  /\ pc = "repeat"
  /\ ~Repeating
  /\ pc' = "report"
  /\ UNCHANGED <<conf, log, files, status, calcVars, meterVars>>

Measured ==
  /\ pc = "repeat"
  /\ ~Repeating
  /\ pc' = "report"
  /\ measuring' = FALSE
  /\ reported' = IF measuring THEN energy ELSE 0
  /\ UNCHANGED <<conf, log, files, status, calcVars, energy>>

\* What calculate prints and what it divides by.
Printed == IF conf.time /\ calc.repeat > 1
           THEN {i \in 1..calc.repeat - 1 : i < MaxTimes}
           ELSE {}
DivisorAll == calc.repeat
Divisor == IF calc.repeat > 1 THEN calc.repeat - 1 ELSE calc.repeat

Report ==
  /\ pc = "report"
  /\ pc' = "result"
  /\ calc' = [calc EXCEPT !.ok = TRUE]
  /\ UNCHANGED <<conf, log, files, status, role, last, live, results, verdict, leaked,
                 tried, failed, meterVars>>

-----------------------------------------------------------------------------
(* What process does with the results.                                     *)

\* The single mode is done, and there is a result and a mode to check it with.
CheckNext ==
  /\ pc = "result"
  /\ role = "single" /\ calc.ok /\ conf.sanity # NoSanity
  /\ role' = "sanity"
  /\ calc' = [NoCalc EXCEPT !.mode = conf.sanity, !.repeat = 1]
  /\ pc' = "begin"
  /\ UNCHANGED <<conf, log, files, status, last, live, results, verdict, leaked, tried,
                 failed, meterVars>>

\* The single mode is done, and that is all: its result is not deleted.
KeepSingle ==
  /\ pc = "result"
  /\ role = "single" /\ ~(calc.ok /\ conf.sanity # NoSanity)
  /\ pc' = "free"
  /\ UNCHANGED <<conf, log, files, status, calcVars, meterVars>>

\* compare, if the other mode has a result; then both are deleted.  A difference is
\* reported when it exceeds EPSILON, which depends on the input.
Compare ==
  /\ pc = "result"
  /\ role = "sanity"
  /\ verdict' \in IF calc.ok
                  THEN {"passed"} \cup IF Same(results["C"], results["D"]) THEN {} ELSE {"failed"}
                  ELSE {verdict}
  /\ live' = live \ {"C", "D"}
  /\ pc' = "free"
  /\ UNCHANGED <<conf, log, files, status, role, last, calc, results, leaked, tried,
                 failed, meterVars>>

\* The result of a mode of a sequence is deleted if there is one, and the next
\* mode is calculated.
NextModeUnlessFailed ==
  /\ pc = "result"
  /\ role = "sequence"
  /\ live' = IF calc.ok THEN live \ {"C"} ELSE live
  /\ calc' = [NoCalc EXCEPT !.mode = calc.mode + 1, !.repeat = conf.repeat]
  /\ pc' = IF calc.ok /\ calc.mode + 1 < last THEN "begin" ELSE "free"
  /\ UNCHANGED <<conf, log, files, status, role, last, results, verdict, leaked, tried,
                 failed, meterVars>>

NextMode ==
  /\ pc = "result"
  /\ role = "sequence"
  /\ live' = IF calc.ok THEN live \ {"C"} ELSE live
  /\ calc' = [NoCalc EXCEPT !.mode = calc.mode + 1, !.repeat = conf.repeat]
  /\ pc' = IF calc.mode + 1 < last THEN "begin" ELSE "free"
  /\ UNCHANGED <<conf, log, files, status, role, last, results, verdict, leaked, tried,
                 failed, meterVars>>

\* A is deleted and process returns true; nothing refers to what is left.
Free ==
  /\ pc = "free"
  /\ pc' = "files"
  /\ files' = Tail(files)
  /\ live' = {}
  /\ leaked' = leaked + Cardinality(live \ {"A"})
  /\ UNCHANGED <<conf, log, status, role, last, calc, results, verdict, tried, failed,
                 meterVars>>

-----------------------------------------------------------------------------
(* The specification.                                                      *)

Exited == pc \in {"exit", "aborted"} /\ UNCHANGED vars

Next ==
  \/ (\E o \in Options : SetModes(o)) \/ Create \/ NoLog \/ NoDirectory \/ Start
  \/ EndRun \/ LoadFails \/ Skip \/ Load
  \/ Begin \/ OutOfMemory \/ BeforeTable \/ Execute \/ Fail \/ Measured \/ Report
  \/ CheckNext \/ KeepSingle \/ Compare \/ NextMode \/ Free
  \/ Exited

Spec == Init /\ [][Next]_vars

-----------------------------------------------------------------------------
(* Properties.                                                             *)

\* calculate never leaves the table of functions, whatever -m and -s ask for and
\* whatever the build has, except with a number that atoi makes negative, which no check
\* refuses; and a mode is checked with another one, except mode 0, which also stands for
\* an -m beyond the table.
ModeInTable ==
  /\ pc \in {"begin", "repeat"} => calc.mode < ModeMax(conf)
  /\ pc = "begin" /\ calc.mode < 0 => role # "sequence" /\ calc.mode \in {conf.mode, conf.sanity}
  /\ role = "sanity" => calc.mode # conf.mode \/ conf.mode = 0

\* A sequence calculates every mode of its range once and in order, also when
\* some of them fail.
SequenceComplete ==
  pc = "free" /\ role = "sequence" =>
    /\ Len(tried) = ModeRange(conf)[2] - ModeRange(conf)[1]
    /\ \A k \in 1..Len(tried) : tried[k] = ModeRange(conf)[1] + k - 1

\* Of all that is allocated for a file only a result nobody asked to check
\* outlives it; in particular a failed function leaves nothing behind.
OnlyUncheckedResultsLeak ==
  leaked > 0 => conf.seq = "none" /\ conf.sanity = NoSanity

\* The average divides the total by the number of executions that were added to
\* it, which is not zero, and the time values printed were all stored.
ReportedTimes ==
  pc = "report" =>
    /\ Divisor = calc.timed /\ Divisor > 0
    /\ Printed \subseteq calc.stamps

\* power.h: read_before and read_after come in pairs, and what read_after returns
\* is the energy of the executions in between, the warm-up included.
Meter == INSTANCE PowerMeter

\* As long as no function fails the calculations use the meter as it expects.
MeterPaired == [][failed' \/ Meter!Next]_meterVars

\* A sanity check fails for three reasons only, where all functions are taken to
\* compute the right result (Algorithms says for which sizes): a product of the CPU
\* that was repeated has been added up; a scan is not one of the CPU checked with
\* the GPU, which is what Scan::compare expects; or a kernel that was not loaded
\* has computed nothing.
FailureExplained ==
  verdict = "failed" =>
    \/ conf.app = "matrix" /\ ~OnGpu(conf.mode) /\ conf.repeat > 1
    \/ conf.app = "scan" /\ ~(~OnGpu(conf.mode) /\ OnGpu(conf.sanity))
    \/ conf.gpu = "unloaded" /\ (OnGpu(conf.mode) \/ OnGpu(conf.sanity))

\* README.md:96 says the sanity mode compares results "if they are same".  All
\* functions are taken to compute the right result, so no comparison may fail.
SanityAgrees == verdict # "failed"

=============================================================================
