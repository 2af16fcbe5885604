----------------------------- MODULE Bench_proofs -----------------------------
(***************************************************************************)
(* Lemmas about one step of the benchmark run, for every application,      *)
(* build, table, request and number of files.  Program_proofs lifts them   *)
(* to the whole program, of which a step of the run is one step.           *)
(***************************************************************************)
EXTENDS Bench, FiniteSetTheorems, SequenceTheorems, TLAPS

-----------------------------------------------------------------------------
(* A step of the run, whatever the options are.                            *)

Settings == [mode : Int, seq : {"none", "cpu", "gpu", "all"}, sanity : Int,
             repeat : Nat \ {0}, print : BOOLEAN, time : BOOLEAN]

BenchStep ==
  \/ (\E o \in Settings : SetModes(o)) \/ Create \/ NoLog \/ NoDirectory \/ Start
  \/ EndRun \/ LoadFails \/ Skip \/ Load
  \/ Begin \/ OutOfMemory \/ BeforeTable \/ Execute \/ Fail \/ Measured \/ Report
  \/ CheckNext \/ KeepSingle \/ Compare \/ NextMode \/ Free
  \/ UNCHANGED vars

Calculating == {"begin", "repeat", "report", "result"}
Busy == Calculating \cup {"free"}

Calcs == [mode : Int, repeat : Nat, i : Nat, timed : Nat, stamps : SUBSET (0..MaxTimes),
          ok : BOOLEAN]

\* What TypeOK leaves out: the shape of the locals, that there is a file while one is
\* processed, and that each file leaks one result at most.
TypeInv ==
  /\ TypeOK
  /\ calc \in Calcs
  /\ conf.repeat > 0
  /\ pc \in Busy => files # <<>>
  /\ leaked + Len(files) <= MaxFiles
  /\ pc \in {"main", "run"} => leaked = 0 /\ files = <<>>
  /\ pc = "free" => live \subseteq {"A", "C"}

\* The modes setModes accepts.
ModesInv ==
  /\ conf.mode < ModeMax(conf)
  /\ conf.sanity # NoSanity =>
       /\ conf.sanity < ModeMax(conf)
       /\ conf.sanity # conf.mode \/ conf.mode = 0
       /\ conf.seq = "none"
  /\ pc = "main" => conf.mode = 0 /\ conf.sanity = NoSanity /\ conf.seq = "none"

\* What each calculation is for, and with which mode.
RoleInv ==
  /\ pc \in Busy => (role = "sequence" <=> conf.seq # "none")
  /\ role = "sanity" => conf.sanity # NoSanity /\ calc.mode = conf.sanity
  /\ pc \in Calculating =>
       /\ role = "single" => calc.mode = conf.mode
       /\ role = "sequence" =>
            /\ calc.mode \in ModeRange(conf)[1]..last - 1
            /\ last = ModeRange(conf)[2]
       /\ calc.repeat = IF role = "sanity" THEN 1 ELSE conf.repeat

\* The modes of a sequence that have been calculated.
TriedInv ==
  pc \in Busy /\ role = "sequence" =>
    /\ Len(tried) = CASE pc = "begin" -> calc.mode - ModeRange(conf)[1]
                      [] pc = "free"  -> ModeRange(conf)[2] - ModeRange(conf)[1]
                      [] OTHER        -> calc.mode + 1 - ModeRange(conf)[1]
    /\ \A k \in 1..Len(tried) : tried[k] = ModeRange(conf)[1] + k - 1

\* How far the repeat loop is, and which turns were timed.
TimesInv ==
  /\ pc = "begin" => calc.i = 0 /\ calc.timed = 0
  /\ pc \in {"begin", "repeat", "report"} => calc.repeat > 0
  /\ pc \in {"repeat", "report"} =>
       /\ calc.i <= calc.repeat
       /\ calc.timed = IF calc.repeat > 1 /\ calc.i > 0 THEN calc.i - 1 ELSE calc.i
       /\ conf.time /\ calc.repeat > 1 => {k \in 1..calc.i - 1 : k < MaxTimes} \subseteq calc.stamps
  /\ pc = "report" => calc.i = calc.repeat

\* What n executions of a mode leave in a result, in the configuration c.
After(c, mode, n) ==
  LET onGpu == mode >= CpuMax(c) IN
    IF n = 0 \/ (onGpu /\ c.gpu = "unloaded")
    THEN Nothing
    ELSE [products |-> IF c.app = "matrix" /\ ~onGpu THEN n ELSE 1,
          upto     |-> IF c.app = "scan" /\ ~onGpu THEN 1 ELSE 0]

ResultsInv ==
  /\ pc \in {"repeat", "report"} => results[Result] = After(conf, calc.mode, calc.i)
  /\ pc = "result" /\ calc.ok => results[Result] = After(conf, calc.mode, calc.repeat)
  /\ pc \in Calculating /\ role = "sanity" => results["C"] = After(conf, conf.mode, conf.repeat)
  /\ pc = "main" => verdict = "none"
  /\ FailureExplained

\* The results that exist.
LiveInv ==
  /\ pc = "begin" => live \subseteq IF role = "sanity" THEN {"A", "C"} ELSE {"A"}
  /\ pc \in {"repeat", "report"} => live \subseteq {"A", "C", Result}
  /\ pc = "result" /\ role # "sanity" => live \subseteq IF calc.ok THEN {"A", "C"} ELSE {"A"}
  /\ pc = "free" => (conf.seq = "none" /\ conf.sanity = NoSanity) \/ live \subseteq {"A"}
  /\ pc = "main" => leaked = 0
  /\ OnlyUncheckedResultsLeak

\* The meter measures during the repeat loop, and the log is open during the run.
OpenInv ==
  /\ measuring => pc = "repeat" \/ failed
  /\ log = "open" => pc \in Busy \cup {"files", "aborted"}

-----------------------------------------------------------------------------
(* The tables.                                                             *)

\* Every table has modes of the CPU, and far fewer in all than NoSanity; the range of a
\* sequence is within it.
LEMMA Tables ==
  ASSUME NEW c \in Configurations
  PROVE  /\ CpuMax(c) \in 1..4
         /\ ModeMax(c) \in CpuMax(c)..8
         /\ ModeRange(c) \in {<<0, CpuMax(c)>>, <<CpuMax(c), ModeMax(c)>>, <<0, ModeMax(c)>>}
         /\ ModeRange(c)[1] \in 0..ModeRange(c)[2]
         /\ ModeRange(c)[2] \in 0..ModeMax(c)
<1>1. /\ c.app \in {"matrix", "scan", "conv"}
      /\ c.build \in {"x86", "avx", "arm"}
  BY BenchAssumption DEF BenchAssumption, Configurations
<1>2. CpuMax(c) \in 1..4
  BY <1>1 DEF CpuMax
<1>3. ModeMax(c) \in CpuMax(c)..8
  <2>1. CASE c.app = "matrix"
    BY <1>1, <2>1 DEF ModeMax, CpuMax
  <2>2. CASE c.app = "scan"
    BY <1>1, <2>2 DEF ModeMax, CpuMax
  <2>3. CASE c.app = "conv"
    BY <1>1, <2>3 DEF ModeMax, CpuMax
  <2>4. QED
    BY <1>1, <2>1, <2>2, <2>3
<1>4. ModeRange(c) \in {<<0, CpuMax(c)>>, <<CpuMax(c), ModeMax(c)>>, <<0, ModeMax(c)>>}
  BY DEF ModeRange
<1>5. QED
  BY <1>2, <1>3, <1>4

\* The table depends on nothing that setModes stores.
LEMMA SameTable ==
  ASSUME NEW c, NEW d, c.app = d.app, c.build = d.build, c.gpu = d.gpu
  PROVE  CpuMax(c) = CpuMax(d) /\ ModeMax(c) = ModeMax(d)
<1>1. CpuMax(c) = CpuMax(d)
  BY DEF CpuMax
<1>2. QED
  BY <1>1 DEF ModeMax

\* What SetModes leaves of the configuration, and what it makes of it.
LEMMA SetConf ==
  ASSUME conf \in Configurations, NEW o \in Settings, SetModes(o)
  PROVE  /\ conf' \in Configurations
         /\ conf'.app = conf.app /\ conf'.build = conf.build /\ conf'.gpu = conf.gpu
         /\ CpuMax(conf') = CpuMax(conf) /\ ModeMax(conf') = ModeMax(conf)
         /\ conf'.mode = IF Exists(o.mode) THEN o.mode ELSE conf.mode
         /\ conf'.seq = o.seq
         /\ conf'.sanity = IF Exists(o.sanity) /\ o.seq = "none" /\ o.sanity # o.mode
                           THEN o.sanity ELSE conf.sanity
         /\ conf'.repeat = o.repeat
<1>1. /\ conf' \in Configurations
      /\ conf'.app = conf.app /\ conf'.build = conf.build /\ conf'.gpu = conf.gpu
      /\ conf'.mode = IF Exists(o.mode) THEN o.mode ELSE conf.mode
      /\ conf'.seq = o.seq
      /\ conf'.sanity = IF Exists(o.sanity) /\ o.seq = "none" /\ o.sanity # o.mode
                        THEN o.sanity ELSE conf.sanity
      /\ conf'.repeat = o.repeat
  BY DEF SetModes, Settings, Configurations
<1>2. QED
  BY <1>1, SameTable

-----------------------------------------------------------------------------
(* Types.                                                                  *)

\* The sequences a run may start with.
LEMMA ContentsSeq ==
  ASSUME NEW kinds, NEW s \in Contents(kinds)
  PROVE  s \in Seq(kinds) /\ Len(s) \in 0..MaxFiles
<1>1. PICK n \in 0..MaxFiles : s \in [1..n -> kinds]
  BY DEF Contents
<1>2. n \in Nat /\ Len(s) = n
  BY <1>1, BenchAssumption DEF BenchAssumption
<1>3. QED
  BY <1>1, <1>2

LEMMA StartTypes ==
  ASSUME Start
  PROVE  files' \in Seq({"good", "bad", "other"}) /\ Len(files') \in 0..MaxFiles
<1>1. CASE \E args \in Contents({"good", "bad"}) \ {<<>>} :
             files' = SubSeq(args, 1, IF Len(args) < MaxFileCount THEN Len(args) ELSE MaxFileCount)
  <2>1. PICK args \in Contents({"good", "bad"}) :
          files' = SubSeq(args, 1, IF Len(args) < MaxFileCount THEN Len(args) ELSE MaxFileCount)
    BY <1>1
  <2>2. args \in Seq({"good", "bad"}) /\ Len(args) \in 0..MaxFiles
    BY ContentsSeq
  <2>3. PICK n \in 0..Len(args) : files' = SubSeq(args, 1, n)
    BY <2>1, <2>2, BenchAssumption DEF BenchAssumption
  <2>4. /\ SubSeq(args, 1, n) \in Seq({"good", "bad", "other"})
        /\ Len(SubSeq(args, 1, n)) = n
    BY <2>2, SubSeqProperties
  <2>5. QED
    BY <2>2, <2>3, <2>4, BenchAssumption DEF BenchAssumption
<1>2. CASE files' \in Contents({"good", "bad", "other"})
  BY <1>2, ContentsSeq
<1>3. QED
  BY <1>1, <1>2 DEF Start

LEMMA TailOfFiles ==
  ASSUME files \in Seq({"good", "bad", "other"}), files # <<>>
  PROVE  Tail(files) \in Seq({"good", "bad", "other"}) /\ Len(Tail(files)) = Len(files) - 1
BY HeadTailProperties

\* At most one result is left when a file is done.
LEMMA OneResult ==
  ASSUME NEW s, s \subseteq {"C"}
  PROVE  Cardinality(s) \in 0..1
<1>1. IsFiniteSet({"C"}) /\ Cardinality({"C"}) = 1
  BY FS_Singleton
<1>2. IsFiniteSet(s) /\ Cardinality(s) <= Cardinality({"C"})
  BY <1>1, FS_Subset
<1>3. QED
  BY <1>1, <1>2, FS_CardinalityType

\* What a function makes of a result.
LEMMA ComputedType ==
  ASSUME NEW mode, NEW c \in [products : Nat, upto : {0, 1}]
  PROVE  Computed(mode, c) \in [products : Nat, upto : {0, 1}]
BY DEF Computed

\* What TypeInv says of the locals of calculate.
CalcType == calc \in Calcs /\ calc.i <= calc.repeat /\ calc.timed <= calc.i

\* The locals at the start of a calculation, and after a turn of the loop.
LEMMA NewCalc ==
  ASSUME NEW m \in Int, NEW r \in Nat, calc' = [NoCalc EXCEPT !.mode = m, !.repeat = r]
  PROVE  /\ calc'.mode = m /\ calc'.repeat = r /\ calc'.i = 0 /\ calc'.timed = 0
         /\ CalcType'
<1> DEFINE c == [mode |-> m, repeat |-> r, i |-> 0, timed |-> 0, stamps |-> {}, ok |-> FALSE]
<1>1. /\ c \in Calcs /\ c.i <= c.repeat /\ c.timed <= c.i
      /\ c.mode = m /\ c.repeat = r /\ c.i = 0 /\ c.timed = 0
  BY DEF Calcs
<1>2. calc' = c
  BY DEF NoCalc
<1> HIDE DEF c
<1>3. CalcType'
  BY <1>1, <1>2 DEF CalcType
<1>4. QED
  BY <1>1, <1>2, <1>3

LEMMA TurnCalc ==
  ASSUME CalcType, Execute
  PROVE  CalcType'
<1>1. /\ calc.i \in Nat /\ calc.repeat \in Nat /\ calc.timed \in Nat /\ calc.timed <= calc.i
      /\ calc.mode \in Int /\ calc.ok \in BOOLEAN
      /\ calc.stamps \in SUBSET (0..MaxTimes)
      /\ calc.i + 1 <= calc.repeat
  BY DEF Execute, Repeating, CalcType, Calcs
<1>2. PICK timed \in {calc.timed, calc.timed + 1},
           stamps \in {calc.stamps} \cup {calc.stamps \cup {n} : n \in 0..MaxTimes} :
        calc' = [calc EXCEPT !.i = @ + 1, !.timed = timed, !.stamps = stamps]
  <2>1. calc.i < MaxTimes => calc.i \in 0..MaxTimes
    BY <1>1, BenchAssumption DEF BenchAssumption
  <2>2. QED
    BY <2>1 DEF Execute
<1>3. timed \in Nat /\ timed <= calc.i + 1 /\ stamps \in SUBSET (0..MaxTimes)
  BY <1>1
<1>4. calc' = [mode |-> calc.mode, repeat |-> calc.repeat, i |-> calc.i + 1, timed |-> timed,
               stamps |-> stamps, ok |-> calc.ok]
  BY <1>2 DEF CalcType, Calcs
<1>5. calc' \in Calcs
  BY <1>1, <1>3, <1>4 DEF Calcs
<1>6. QED
  BY <1>1, <1>3, <1>4, <1>5 DEF CalcType

\* A step that ends the run, in whatever way, leaves its data alone.
LEMMA LastStep ==
  ASSUME TypeInv, UNCHANGED <<conf, files, calcVars, meterVars>>,
         pc' \in {"exit", "aborted"}, log' \in {"none", "open", "closed"}, status' \in BOOLEAN
  PROVE  TypeInv'
<1>1. UNCHANGED <<calc, conf, files, role, last, live, results, verdict, leaked, tried, failed,
                  measuring, energy, reported>>
  BY DEF calcVars, meterVars
<1>2. TypeOK'
  BY <1>1 DEF TypeInv, TypeOK
<1>3. QED
  BY <1>1, <1>2 DEF TypeInv, Busy, Calculating

LEMMA TypeStep == TypeInv /\ LiveInv /\ BenchStep => TypeInv'
<1> SUFFICES ASSUME TypeInv, LiveInv, BenchStep PROVE TypeInv'
  OBVIOUS
<1> USE DEF TypeInv, TypeOK, Calculating, Busy, meterVars, calcVars
<1>a. CalcType' => calc'.mode \in Int /\ calc'.stamps \subseteq 0..MaxTimes
  BY DEF CalcType, Calcs
<1>1. ASSUME NEW o \in Settings, SetModes(o) PROVE TypeInv'
  <2>1. conf' \in Configurations /\ conf'.repeat > 0
    BY <1>1, SetConf DEF Settings
  <2>2. QED
    BY <1>1, <2>1 DEF SetModes
<1>2. CASE Create \/ NoLog \/ NoDirectory \/ OutOfMemory \/ BeforeTable
  <2>1. /\ UNCHANGED <<conf, files, calcVars, meterVars>> /\ pc' \in {"exit", "aborted"}
        /\ status' \in {status, FALSE} \cup BOOLEAN /\ log' \in {log, "closed"}
    BY <1>2 DEF Create, NoLog, NoDirectory, OutOfMemory, BeforeTable
  <2>2. QED
    BY <2>1, LastStep
<1>3. CASE Start
  <2>1. files' \in Seq({"good", "bad", "other"}) /\ Len(files') \in 0..MaxFiles
    BY <1>3, StartTypes
  <2>2. /\ pc = "run" /\ pc' = "files" /\ log' \in {log, "open"}
        /\ UNCHANGED <<conf, status, calcVars, meterVars>>
    BY <1>3 DEF Start
  <2>3. leaked' + Len(files') <= MaxFiles
    BY <2>1, <2>2, BenchAssumption DEF BenchAssumption
  <2>4. QED
    BY <2>1, <2>2, <2>3
<1>4. CASE EndRun \/ LoadFails
  <2>1. /\ UNCHANGED <<conf, files, calcVars, meterVars>> /\ pc' = "exit"
        /\ status' \in BOOLEAN /\ log' \in {log, "closed"}
    BY <1>4 DEF EndRun, LoadFails, Return
  <2>2. QED
    BY <2>1, LastStep
<1>5. CASE Skip
  <2>1. Tail(files) \in Seq({"good", "bad", "other"}) /\ Len(Tail(files)) = Len(files) - 1
    BY <1>5, TailOfFiles DEF Skip
  <2>2. /\ pc = "files" /\ files' = Tail(files)
        /\ UNCHANGED <<pc, conf, log, status, calcVars, meterVars>>
    BY <1>5 DEF Skip
  <2>3. leaked + Len(Tail(files)) <= MaxFiles
    BY <2>1, BenchAssumption DEF BenchAssumption
  <2>4. QED
    BY <2>1, <2>2, <2>3
<1>6. CASE Load
  <2>1. ModeRange(conf)[1] \in Int /\ ModeRange(conf)[2] \in Int
    BY Tables
  <2>2. CalcType'
    <3>1. PICK m \in Int : calc' = [NoCalc EXCEPT !.mode = m, !.repeat = conf.repeat]
      BY <1>6, <2>1 DEF Load, Configurations
    <3>2. conf.repeat \in Nat
      BY DEF Configurations
    <3>3. QED
      BY <3>1, <3>2, NewCalc
  <2>9. last' \in {conf.mode + 1, ModeRange(conf)[2]}
    BY <1>6 DEF Load
  <2>5. last' \in Int
    <3>1. conf.mode \in Int
      BY DEF Configurations
    <3> HIDE DEF TypeInv
    <3>2. QED
      BY <2>1, <2>9, <3>1
  <2>3. /\ pc' \in {"begin", "free"} /\ live' = {"A"} /\ verdict' = "none" /\ tried' = <<>>
        /\ role' \in {"single", "sequence"} /\ files # <<>> /\ pc = "files"
        /\ UNCHANGED <<conf, log, files, status, results, leaked, failed, meterVars>>
    BY <1>6 DEF Load
  <2>4. /\ calc' \in Calcs /\ calc'.mode \in Int /\ calc'.stamps \subseteq 0..MaxTimes
        /\ calc'.i <= calc'.repeat /\ calc'.timed <= calc'.i
    BY <2>2, <1>a DEF CalcType
  <2>6. tried' \in Seq(Int) /\ live' \subseteq {"A", "C", "D"}
    BY <2>3
  <2>7. TypeOK'
    BY <2>3, <2>4, <2>5, <2>6
  <2>8. QED
    BY <2>3, <2>4, <2>7
<1>7. CASE Begin
  <2>1. results' \in [{"C", "D"} -> [products : Nat, upto : {0, 1}]]
    BY <1>7 DEF Begin, Nothing, Result
  <2>2. tried' \in Seq(Int)
    BY <1>7 DEF Begin
  <2>3. live' \subseteq {"A", "C", "D"}
    BY <1>7 DEF Begin, Result
  <2>4. measuring' \in BOOLEAN
    BY <1>7 DEF Begin
  <2>5. energy' \in Nat
    BY <1>7 DEF Begin
  <2>6. /\ pc = "begin" /\ pc' = "repeat"
        /\ UNCHANGED <<conf, log, files, status, role, last, calc, verdict, leaked, failed,
                       reported>>
    BY <1>7 DEF Begin
  <2>7. QED
    BY <2>1, <2>2, <2>3, <2>4, <2>5, <2>6
<1>8. CASE Execute
  <2>1. results' \in [{"C", "D"} -> [products : Nat, upto : {0, 1}]]
    BY <1>8, ComputedType DEF Execute, Result
  <2>2. CalcType'
    BY <1>8, TurnCalc DEF CalcType
  <2>3. energy' \in Nat /\ pc = "repeat"
        /\ UNCHANGED <<pc, conf, log, files, status, role, last, live, verdict, leaked, tried,
                       failed, measuring, reported>>
    BY <1>8 DEF Execute
  <2>4. QED
    BY <2>1, <2>2, <2>3, <1>a DEF CalcType
<1>9. CASE Fail
  <2>1. CalcType'
    BY <1>9 DEF Fail, CalcType, Calcs
  <2>2. /\ live' \subseteq live /\ failed' = TRUE /\ pc = "repeat" /\ pc' = "result"
        /\ UNCHANGED <<conf, log, files, status, role, last, results, verdict, leaked, tried,
                       meterVars>>
    BY <1>9 DEF Fail
  <2>3. QED
    BY <2>1, <2>2, <1>a DEF CalcType
<1>10. CASE Measured
  BY <1>10 DEF Measured
<1>11. CASE Report
  <2>1. CalcType'
    BY <1>11 DEF Report, CalcType, Calcs
  <2>2. /\ pc = "report" /\ pc' = "result"
        /\ UNCHANGED <<conf, log, files, status, role, last, live, results, verdict, leaked,
                       tried, failed, meterVars>>
    BY <1>11 DEF Report
  <2>3. QED
    BY <2>1, <2>2, <1>a DEF CalcType
<1>12. CASE CheckNext
  <2>1. CalcType'
    BY <1>12, NewCalc DEF CheckNext, Configurations
  <2>2. /\ role' = "sanity" /\ pc = "result" /\ pc' = "begin"
        /\ UNCHANGED <<conf, log, files, status, last, live, results, verdict, leaked, tried,
                       failed, meterVars>>
    BY <1>12 DEF CheckNext
  <2>3. QED
    BY <2>1, <2>2, <1>a DEF CalcType
<1>13. CASE KeepSingle
  BY <1>13 DEF KeepSingle, LiveInv
<1>14. CASE Compare
  <2>1. verdict' \in {"none", "passed", "failed"}
    BY <1>14 DEF Compare
  <2>2. QED
    BY <1>14, <2>1 DEF Compare
<1>15. CASE NextMode
  <2>1. CalcType'
    <3>1. calc.mode + 1 \in Int /\ conf.repeat \in Nat
      BY DEF Configurations
    <3>2. calc' = [NoCalc EXCEPT !.mode = calc.mode + 1, !.repeat = conf.repeat]
      BY <1>15 DEF NextMode
    <3>3. QED
      BY <3>1, <3>2, NewCalc
  <2>2. /\ live' \subseteq live /\ live \subseteq {"A", "C"}
        /\ pc = "result" /\ pc' \in {"begin", "free"}
        /\ UNCHANGED <<conf, log, files, status, role, last, results, verdict, leaked, tried,
                       failed, meterVars>>
    BY <1>15 DEF NextMode, LiveInv
  <2>3. QED
    BY <2>1, <2>2, <1>a DEF CalcType
<1>16. CASE Free
  <2>1. live \ {"A"} \subseteq {"C"} /\ files # <<>>
    BY <1>16 DEF Free
  <2>2. Tail(files) \in Seq({"good", "bad", "other"}) /\ Len(Tail(files)) = Len(files) - 1
    BY <2>1, TailOfFiles
  <2>3. Cardinality(live \ {"A"}) \in 0..1
    BY <2>1, OneResult
  <2>5. leaked' = leaked + Cardinality(live \ {"A"}) /\ files' = Tail(files)
    BY <1>16 DEF Free
  <2>6. leaked' \in 0..MaxFiles /\ leaked' + Len(files') <= MaxFiles
    <3>1. leaked \in Nat /\ leaked + Len(files) <= MaxFiles /\ MaxFiles \in Nat
          /\ Len(Tail(files)) \in Nat
      BY <2>2, BenchAssumption DEF BenchAssumption
    <3> HIDE DEF TypeInv
    <3>2. QED
      BY <2>2, <2>3, <2>5, <3>1
  <2>7. /\ pc' = "files" /\ live' = {}
        /\ UNCHANGED <<conf, log, status, role, last, calc, results, verdict, tried, failed,
                       meterVars>>
    BY <1>16 DEF Free
  <2>8. calc' = calc /\ UNCHANGED <<measuring, energy, reported>>
    BY <2>7
  <2>9. TypeOK'
    BY <2>2, <2>5, <2>6, <2>7, <2>8
  <2>10. QED
    BY <2>6, <2>7, <2>8, <2>9
<1>17. CASE UNCHANGED vars
  BY <1>17 DEF vars
<1>18. QED
  BY <1>1, <1>2, <1>3, <1>4, <1>5, <1>6, <1>7, <1>8, <1>9, <1>10, <1>11, <1>12, <1>13,
     <1>14, <1>15, <1>16, <1>17 DEF BenchStep

-----------------------------------------------------------------------------
(* The modes, and what they are calculated for.                            *)

\* Only setModes changes the configuration, and only while nothing has been started.
LEMMA ConfKept ==
  ASSUME BenchStep
  PROVE  \/ \E o \in Settings : SetModes(o)
         \/ conf' = conf /\ (pc' = "main" => pc = "main") /\ (pc = "main" => UNCHANGED vars)
<1> USE DEF meterVars, calcVars
<1>1. CASE \E o \in Settings : SetModes(o)
  BY <1>1
<1>2. CASE Create \/ NoLog \/ NoDirectory \/ OutOfMemory \/ BeforeTable \/ Start
  BY <1>2 DEF Create, NoLog, NoDirectory, OutOfMemory, BeforeTable, Start
<1>3. CASE EndRun \/ LoadFails \/ Skip \/ Load \/ Free
  BY <1>3 DEF EndRun, LoadFails, Return, Skip, Load, Free
<1>4. CASE Begin \/ Execute \/ Fail \/ Measured \/ Report
  BY <1>4 DEF Begin, Execute, Fail, Measured, Report
<1>5. CASE CheckNext \/ KeepSingle \/ Compare \/ NextMode
  BY <1>5 DEF CheckNext, KeepSingle, Compare, NextMode
<1>6. CASE UNCHANGED vars
  BY <1>6 DEF vars
<1>7. QED
  BY <1>1, <1>2, <1>3, <1>4, <1>5, <1>6 DEF BenchStep

LEMMA ModesStep == TypeInv /\ ModesInv /\ BenchStep => ModesInv'
<1> SUFFICES ASSUME TypeInv, ModesInv, BenchStep PROVE ModesInv'
  OBVIOUS
<1>1. conf \in Configurations
  BY DEF TypeInv, TypeOK
<1>2. ASSUME NEW o \in Settings, SetModes(o) PROVE ModesInv'
  <2>1. /\ pc = "main" /\ pc' = "run"
        /\ conf.mode = 0 /\ conf.sanity = NoSanity /\ 0 < ModeMax(conf)
    BY <1>1, <1>2, Tables DEF SetModes, ModesInv
  <2>2. /\ ModeMax(conf') = ModeMax(conf)
        /\ conf'.mode = IF o.mode < ModeMax(conf) THEN o.mode ELSE 0
        /\ conf'.seq = o.seq
        /\ conf'.sanity = IF o.sanity < ModeMax(conf) /\ o.seq = "none" /\ o.sanity # o.mode
                          THEN o.sanity ELSE NoSanity
    BY <1>1, <1>2, <2>1, SetConf DEF Exists
  <2>3. ModeMax(conf)' = ModeMax(conf)
    BY <2>2 DEF ModeMax, CpuMax
  <2>4. QED
    BY <2>1, <2>2, <2>3 DEF ModesInv
<1>3. CASE conf' = conf /\ (pc' = "main" => pc = "main")
  BY <1>3 DEF ModesInv, ModeMax, CpuMax
<1>4. QED
  BY <1>2, <1>3, ConfKept

LEMMA RoleStep == TypeInv /\ ModesInv /\ RoleInv /\ BenchStep => RoleInv'
<1> SUFFICES ASSUME TypeInv, ModesInv, RoleInv, BenchStep PROVE RoleInv'
  OBVIOUS
<1> USE DEF RoleInv, Calculating, Busy, meterVars, calcVars
<1>1. ASSUME NEW o \in Settings, SetModes(o) PROVE RoleInv'
  <2>1. pc = "main" /\ pc' = "run" /\ conf.sanity = NoSanity /\ role # "sanity" /\ role' = role
    BY <1>1 DEF SetModes, ModesInv
  <2>2. QED
    BY <2>1
<1>2. CASE conf' = conf
  <2>a. conf \in Configurations /\ ModeRange(conf)' = ModeRange(conf)
    BY <1>2 DEF TypeInv, TypeOK
  <2>1. CASE Create \/ NoLog \/ NoDirectory \/ OutOfMemory \/ BeforeTable \/ Start
    BY <2>1 DEF Create, NoLog, NoDirectory, OutOfMemory, BeforeTable, Start
  <2>2. CASE EndRun \/ LoadFails \/ Skip \/ Free
    BY <2>2 DEF EndRun, LoadFails, Return, Skip, Free
  <2>3. CASE Load
    <3>1. CASE conf.seq = "none"
      <4>1. /\ calc' = [NoCalc EXCEPT !.mode = conf.mode, !.repeat = conf.repeat]
            /\ role' = "single"
        BY <2>3, <3>1 DEF Load
      <4>2. QED
        BY <1>2, <3>1, <4>1, <2>a, NewCalc DEF Configurations
    <3>2. CASE conf.seq # "none"
      <4>1. /\ calc' = [NoCalc EXCEPT !.mode = ModeRange(conf)[1], !.repeat = conf.repeat]
            /\ role' = "sequence" /\ last' = ModeRange(conf)[2]
            /\ pc' = IF calc'.mode < last' THEN "begin" ELSE "free"
        BY <2>3, <3>2 DEF Load
      <4>2. ModeRange(conf)[1] \in Int /\ ModeRange(conf)[2] \in Int
        BY <2>a, Tables
      <4>3. calc'.mode = ModeRange(conf)[1] /\ calc'.repeat = conf.repeat
        BY <4>1, <4>2, <2>a, NewCalc DEF Configurations
      <4>4. QED
        BY <1>2, <3>2, <4>1, <4>2, <4>3, <2>a
    <3>3. QED
      BY <3>1, <3>2
  <2>4. CASE Begin
    BY <1>2, <2>a, <2>4 DEF Begin
  <2>5. CASE Execute
    <3>1. calc'.mode = calc.mode /\ calc'.repeat = calc.repeat
      BY <2>5 DEF Execute, TypeInv, Calcs
    <3>2. UNCHANGED <<pc, conf, role, last>>
      BY <2>5 DEF Execute
    <3>3. QED
      BY <3>1, <3>2, <2>a
  <2>6. CASE Fail \/ Report
    <3>1. calc'.mode = calc.mode /\ calc'.repeat = calc.repeat
      BY <2>6 DEF Fail, Report, TypeInv, Calcs
    <3>2. UNCHANGED <<conf, role, last>> /\ pc \in Calculating
      BY <2>6 DEF Fail, Report
    <3>3. QED
      BY <3>1, <3>2, <2>a
  <2>7. CASE Measured \/ KeepSingle \/ Compare
    BY <1>2, <2>a, <2>7 DEF Measured, KeepSingle, Compare
  <2>8. CASE CheckNext
    <3>1. /\ calc' = [NoCalc EXCEPT !.mode = conf.sanity, !.repeat = 1]
          /\ role' = "sanity" /\ role = "single" /\ conf.sanity # NoSanity /\ pc = "result"
      BY <2>8 DEF CheckNext
    <3>2. conf.sanity \in Int
      BY <2>a DEF Configurations
    <3>3. calc'.mode = conf.sanity /\ calc'.repeat = 1
      BY <3>1, <3>2, NewCalc
    <3>4. QED
      BY <1>2, <3>1, <3>3
  <2>9. CASE NextMode
    <3>1. /\ calc' = [NoCalc EXCEPT !.mode = calc.mode + 1, !.repeat = conf.repeat]
          /\ role = "sequence" /\ role' = role /\ last' = last /\ pc = "result"
          /\ pc' = IF calc.mode + 1 < last THEN "begin" ELSE "free"
      BY <2>9 DEF NextMode
    <3>2. calc.mode \in Int /\ calc.mode + 1 \in Int /\ conf.repeat \in Nat /\ last \in Int
      BY <2>a DEF Configurations, TypeInv, TypeOK
    <3>3. calc'.mode = calc.mode + 1 /\ calc'.repeat = conf.repeat
      BY <3>1, <3>2, NewCalc
    <3>4. ModeRange(conf)[1] \in Int
      BY <2>a, Tables
    <3>5. QED
      BY <1>2, <2>a, <3>1, <3>2, <3>3, <3>4
  <2>10. CASE UNCHANGED vars
    BY <2>a, <2>10 DEF vars
  <2>11. CASE \E o \in Settings : SetModes(o)
    BY <1>1, <2>11
  <2>12. QED
    BY <2>1, <2>2, <2>3, <2>4, <2>5, <2>6, <2>7, <2>8, <2>9, <2>10, <2>11 DEF BenchStep
<1>3. QED
  BY <1>1, <1>2, ConfKept

\* The modes calculated so far.
LEMMA TriedStep == TypeInv /\ RoleInv /\ TriedInv /\ BenchStep => TriedInv'
<1> SUFFICES ASSUME TypeInv, RoleInv, TriedInv, BenchStep PROVE TriedInv'
  OBVIOUS
<1> USE DEF TriedInv, Calculating, Busy, meterVars, calcVars
<1>1. ASSUME NEW o \in Settings, SetModes(o) PROVE TriedInv'
  BY <1>1 DEF SetModes
<1>2. CASE conf' = conf
  <2>a. /\ conf \in Configurations /\ ModeRange(conf)' = ModeRange(conf)
        /\ calc.mode \in Int /\ tried \in Seq(Int)
    BY <1>2 DEF TypeInv, TypeOK
  <2>b. ModeRange(conf)[1] \in Nat /\ ModeRange(conf)[2] \in Nat
        /\ ModeRange(conf)[1] <= ModeRange(conf)[2]
    BY <2>a, Tables
  <2>1. CASE Create \/ NoLog \/ NoDirectory \/ OutOfMemory \/ BeforeTable \/ Start
    BY <2>1 DEF Create, NoLog, NoDirectory, OutOfMemory, BeforeTable, Start
  <2>2. CASE EndRun \/ LoadFails \/ Skip \/ Free
    BY <2>2 DEF EndRun, LoadFails, Return, Skip, Free
  <2>3. CASE Load
    <3>1. tried' = <<>> /\ pc' \in {"begin", "free"}
      BY <2>3 DEF Load
    <3>2. CASE conf.seq = "none"
      BY <2>3, <3>2 DEF Load
    <3>3. CASE conf.seq # "none"
      <4>1. /\ calc' = [NoCalc EXCEPT !.mode = ModeRange(conf)[1], !.repeat = conf.repeat]
            /\ last' = ModeRange(conf)[2]
            /\ pc' = IF calc'.mode < last' THEN "begin" ELSE "free"
        BY <2>3, <3>3 DEF Load
      <4>a. ModeRange(conf)[1] \in Int /\ conf.repeat \in Nat
        BY <2>a, <2>b DEF Configurations
      <4>2. calc'.mode = ModeRange(conf)[1]
        BY <4>1, <4>a, NewCalc
      <4>3. QED
        BY <3>1, <4>1, <4>2, <2>a, <2>b
    <3>4. QED
      BY <3>2, <3>3
  <2>4. CASE Begin
    <3>1. /\ pc = "begin" /\ pc' = "repeat" /\ calc' = calc /\ role' = role
          /\ tried' = Append(tried, calc.mode)
      BY <2>4 DEF Begin
    <3>2. CASE role = "sequence"
      <4>1. Len(tried) = calc.mode - ModeRange(conf)[1]
        BY <3>1, <3>2
      <4>2. /\ Len(tried') = Len(tried) + 1
            /\ \A k \in 1..Len(tried) : tried'[k] = tried[k]
            /\ tried'[Len(tried) + 1] = calc.mode
        BY <3>1, <2>a
      <4>3. \A k \in 1..Len(tried) : tried[k] = ModeRange(conf)[1] + k - 1
        BY <3>1, <3>2
      <4>4. Len(tried) \in Nat /\ calc.mode = ModeRange(conf)[1] + Len(tried)
        BY <4>1, <2>a, <2>b
      <4>5. ASSUME NEW k \in 1..Len(tried') PROVE tried'[k] = ModeRange(conf)[1] + k - 1
        <5>1. CASE k <= Len(tried)
          BY <4>2, <4>3, <4>4, <4>5, <5>1
        <5>2. CASE k = Len(tried) + 1
          BY <4>2, <4>4, <5>2, <2>a, <2>b
        <5>3. QED
          BY <4>2, <4>4, <5>1, <5>2
      <4>6. Len(tried') = calc.mode + 1 - ModeRange(conf)[1]
        BY <4>2, <4>4, <2>a, <2>b
      <4>7. QED
        BY <1>2, <3>1, <4>5, <4>6, <2>a
    <3>3. QED
      BY <3>1, <3>2
  <2>5. CASE Execute \/ Fail \/ Report
    <3>1. calc'.mode = calc.mode
      BY <2>5 DEF Execute, Fail, Report, TypeInv, Calcs
    <3>2. /\ UNCHANGED <<conf, role, tried>>
          /\ pc \in {"repeat", "report"} /\ pc' \in {"repeat", "report", "result"}
      BY <2>5 DEF Execute, Fail, Report
    <3>3. QED
      BY <3>1, <3>2, <2>a
  <2>6. CASE Measured
    BY <2>6, <2>a DEF Measured
  <2>7. CASE CheckNext \/ KeepSingle \/ Compare
    BY <2>7 DEF CheckNext, KeepSingle, Compare
  <2>8. CASE NextMode
    <3>1. /\ calc' = [NoCalc EXCEPT !.mode = calc.mode + 1, !.repeat = conf.repeat]
          /\ role = "sequence" /\ UNCHANGED <<role, tried>> /\ pc = "result"
          /\ pc' = IF calc.mode + 1 < last THEN "begin" ELSE "free"
      BY <2>8 DEF NextMode
    <3>2. calc.mode + 1 \in Int /\ conf.repeat \in Nat
      BY <2>a DEF Configurations
    <3>3. calc'.mode = calc.mode + 1
      BY <3>1, <3>2, NewCalc
    <3>4. calc.mode \in ModeRange(conf)[1]..last - 1 /\ last = ModeRange(conf)[2]
      BY <3>1 DEF RoleInv
    <3>5. Len(tried) = calc.mode + 1 - ModeRange(conf)[1]
      BY <3>1
    <3>6. \A k \in 1..Len(tried') : tried'[k] = ModeRange(conf)[1] + k - 1
      BY <3>1
    <3>7. CASE calc.mode + 1 < last
      <4>1. pc' = "begin" /\ Len(tried') = calc'.mode - ModeRange(conf)[1]
        <5>1. pc' = "begin" /\ Len(tried') = Len(tried)
          BY <3>1, <3>7
        <5> HIDE DEF TriedInv
        <5>2. QED
          BY <2>a, <2>b, <3>3, <3>5, <5>1
      <4>2. QED
        BY <1>2, <2>a, <3>6, <4>1
    <3>8. CASE ~(calc.mode + 1 < last)
      <4>1. calc.mode + 1 = ModeRange(conf)[2]
        BY <2>a, <2>b, <3>4, <3>8
      <4>2. pc' = "free" /\ Len(tried') = ModeRange(conf)[2] - ModeRange(conf)[1]
        <5>1. pc' = "free" /\ Len(tried') = Len(tried)
          BY <3>1, <3>8
        <5> HIDE DEF TriedInv
        <5>2. Len(tried) = ModeRange(conf)[2] - ModeRange(conf)[1]
          BY <2>a, <2>b, <3>5, <4>1
        <5>3. QED
          BY <5>1, <5>2
      <4>3. QED
        BY <1>2, <2>a, <3>6, <4>2
    <3>9. QED
      BY <3>7, <3>8
  <2>9. CASE UNCHANGED vars
    BY <2>a, <2>9 DEF vars
  <2>10. CASE \E o \in Settings : SetModes(o)
    BY <1>1, <2>10
  <2>11. QED
    BY <2>1, <2>2, <2>3, <2>4, <2>5, <2>6, <2>7, <2>8, <2>9, <2>10 DEF BenchStep
<1>3. QED
  BY <1>1, <1>2, ConfKept

-----------------------------------------------------------------------------
(* The repeat loop.                                                        *)

\* One turn: the executions timed are all but the first of several.
LEMMA TurnTimes ==
  ASSUME TypeInv, TimesInv, Execute
  PROVE  TimesInv'
<1> USE DEF TimesInv
<1>1. /\ calc.i \in Nat /\ calc.repeat \in Nat /\ calc.timed \in Nat
      /\ calc.i + 1 <= calc.repeat /\ pc = "repeat" /\ pc' = "repeat" /\ conf' = conf
      /\ MaxTimes \in Nat
  BY BenchAssumption DEF Execute, Repeating, TypeInv, Calcs, BenchAssumption
<1>2. /\ calc'.i = calc.i + 1 /\ calc'.repeat = calc.repeat
      /\ calc'.timed = IF calc.i > 0 \/ calc.repeat = 1 THEN calc.timed + 1 ELSE calc.timed
      /\ calc'.stamps = IF (calc.i > 0 \/ calc.repeat = 1) /\ conf.time /\ calc.i < MaxTimes
                        THEN calc.stamps \cup {calc.i} ELSE calc.stamps
  BY DEF Execute, TypeInv, Calcs
<1>3. calc'.timed = IF calc'.repeat > 1 /\ calc'.i > 0 THEN calc'.i - 1 ELSE calc'.i
  BY <1>1, <1>2
<1>4. conf.time /\ calc.repeat > 1
        => {k \in 1..calc'.i - 1 : k < MaxTimes} \subseteq calc'.stamps
  <2> SUFFICES ASSUME conf.time, calc.repeat > 1, NEW k \in 1..calc'.i - 1, k < MaxTimes
               PROVE  k \in calc'.stamps
    OBVIOUS
  <2>1. CASE k = calc.i
    BY <1>1, <1>2, <2>1
  <2>2. CASE k # calc.i
    <3>1. k \in 1..calc.i - 1
      BY <1>1, <1>2, <2>2
    <3>2. k \in calc.stamps
      BY <1>1, <3>1
    <3>3. QED
      BY <1>2, <3>2
  <2>3. QED
    BY <2>1, <2>2
<1>5. calc'.i \in Nat /\ calc'.i <= calc'.repeat /\ calc'.repeat > 0
  BY <1>1, <1>2
<1>6. QED
  BY <1>1, <1>2, <1>3, <1>4, <1>5

\* Where a calculation starts its locals are those of its mode.
LEMMA FreshCalc ==
  ASSUME TypeInv, Load \/ CheckNext \/ NextMode
  PROVE  /\ calc'.i = 0 /\ calc'.timed = 0 /\ calc'.repeat \in Nat \ {0}
         /\ pc' \in {"begin", "free"}
<1>1. /\ conf \in Configurations /\ conf.repeat \in Nat \ {0} /\ calc.mode + 1 \in Int
      /\ conf.mode \in Int /\ conf.sanity \in Int /\ ModeRange(conf)[1] \in Int
  <2>1. conf \in Configurations /\ conf.repeat > 0 /\ calc.mode \in Int
    BY DEF TypeInv, TypeOK
  <2>2. conf.repeat \in Nat /\ conf.mode \in Int /\ conf.sanity \in Int
    BY <2>1 DEF Configurations
  <2>3. ModeRange(conf)[1] \in Int
    BY <2>1, Tables
  <2>4. QED
    BY <2>1, <2>2, <2>3
<1>2. PICK m \in Int, r \in Nat \ {0} : calc' = [NoCalc EXCEPT !.mode = m, !.repeat = r]
  <2>1. CASE Load
    BY <1>1, <2>1 DEF Load
  <2>2. CASE CheckNext
    <3>1. calc' = [NoCalc EXCEPT !.mode = conf.sanity, !.repeat = 1]
      BY <2>2 DEF CheckNext
    <3>2. 1 \in Nat \ {0}
      OBVIOUS
    <3>3. QED
      BY <1>1, <3>1, <3>2
  <2>3. CASE NextMode
    BY <1>1, <2>3 DEF NextMode
  <2>4. QED
    BY <2>1, <2>2, <2>3
<1>3. calc'.i = 0 /\ calc'.timed = 0 /\ calc'.repeat = r
  BY <1>2, NewCalc
<1>4. pc' \in {"begin", "free"}
  BY DEF Load, CheckNext, NextMode
<1>5. QED
  BY <1>3, <1>4

LEMMA TimesStep == TypeInv /\ TimesInv /\ BenchStep => TimesInv'
<1> SUFFICES ASSUME TypeInv, TimesInv, BenchStep PROVE TimesInv'
  OBVIOUS
<1> USE DEF TimesInv, meterVars, calcVars
<1>1. CASE \E o \in Settings : SetModes(o)
  BY <1>1 DEF SetModes
<1>2. CASE Create \/ NoLog \/ NoDirectory \/ OutOfMemory \/ BeforeTable \/ Start
  BY <1>2 DEF Create, NoLog, NoDirectory, OutOfMemory, BeforeTable, Start
<1>3. CASE EndRun \/ LoadFails \/ Skip \/ Free
  BY <1>3 DEF EndRun, LoadFails, Return, Skip, Free
<1>4. CASE Load \/ CheckNext \/ NextMode
  BY <1>4, FreshCalc
<1>5. CASE Begin
  <2>1. calc.repeat \in Nat
    BY DEF TypeInv, Calcs
  <2>2. QED
    BY <1>5, <2>1 DEF Begin
<1>6. CASE Execute
  BY <1>6, TurnTimes
<1>7. CASE Fail \/ Report \/ KeepSingle \/ Compare
  BY <1>7 DEF Fail, Report, KeepSingle, Compare
<1>8. CASE Measured
  BY <1>8 DEF Measured, Repeating, TypeInv, Calcs
<1>10. CASE UNCHANGED vars
  BY <1>10 DEF vars
<1>11. QED
  BY <1>1, <1>2, <1>3, <1>4, <1>5, <1>6, <1>7, <1>8, <1>10 DEF BenchStep

-----------------------------------------------------------------------------
(* The results.                                                            *)

\* One more execution.
LEMMA OneMore ==
  ASSUME NEW mode, NEW n \in Nat
  PROVE  Computed(mode, After(conf, mode, n)) = After(conf, mode, n + 1)
<1>1. Nothing.products = 0
  BY DEF Nothing
<1>2. QED
  BY <1>1 DEF Computed, After, Accumulates, OnGpu

\* Why the results of two modes can differ.
LEMMA WhyDifferent ==
  ASSUME conf \in Configurations, conf.repeat > 0,
         ~Same(After(conf, conf.mode, conf.repeat), After(conf, conf.sanity, 1))
  PROVE  \/ conf.app = "matrix" /\ ~OnGpu(conf.mode) /\ conf.repeat > 1
         \/ conf.app = "scan" /\ ~(~OnGpu(conf.mode) /\ OnGpu(conf.sanity))
         \/ conf.gpu = "unloaded" /\ (OnGpu(conf.mode) \/ OnGpu(conf.sanity))
<1> SUFFICES ASSUME ~(conf.app = "matrix" /\ ~OnGpu(conf.mode) /\ conf.repeat > 1),
                    ~(conf.app = "scan" /\ ~(~OnGpu(conf.mode) /\ OnGpu(conf.sanity))),
                    ~(conf.gpu = "unloaded" /\ (OnGpu(conf.mode) \/ OnGpu(conf.sanity)))
             PROVE  Same(After(conf, conf.mode, conf.repeat), After(conf, conf.sanity, 1))
  OBVIOUS
<1>1. conf.repeat \in Nat \ {0}
  BY DEF Configurations
<1>2. /\ After(conf, conf.mode, conf.repeat).products = 1
      /\ After(conf, conf.mode, conf.repeat).upto = IF conf.app = "scan" THEN 1 ELSE 0
  BY <1>1 DEF After, OnGpu
<1>3. /\ After(conf, conf.sanity, 1).products = 1
      /\ After(conf, conf.sanity, 1).upto = 0
  <2>1. CASE conf.app = "scan"
    BY <2>1 DEF After, OnGpu
  <2>2. CASE conf.app # "scan"
    BY <2>2 DEF After, OnGpu
  <2>3. QED
    BY <2>1, <2>2
<1>4. QED
  BY <1>2, <1>3 DEF Same

LEMMA ResultsStep ==
  TypeInv /\ RoleInv /\ TimesInv /\ ResultsInv /\ BenchStep => ResultsInv'
<1> SUFFICES ASSUME TypeInv, RoleInv, TimesInv, ResultsInv, BenchStep PROVE ResultsInv'
  OBVIOUS
<1> USE DEF ResultsInv, Calculating, Result, meterVars, calcVars
<1>1. ASSUME NEW o \in Settings, SetModes(o) PROVE ResultsInv'
  BY <1>1 DEF SetModes, FailureExplained
<1>2. CASE conf' = conf /\ (pc' = "main" => pc = "main")
  <2>a. verdict' = verdict => FailureExplained'
    BY <1>2 DEF OnGpu, CpuMax, FailureExplained
  <2>b. /\ results \in [{"C", "D"} -> [products : Nat, upto : {0, 1}]]
        /\ calc.i \in Nat /\ role \in {"single", "sanity", "sequence"}
    BY DEF TypeInv, TypeOK, Calcs
  <2>1. CASE Create \/ NoLog \/ NoDirectory \/ OutOfMemory \/ BeforeTable \/ Start
    BY <2>a, <2>1 DEF Create, NoLog, NoDirectory, OutOfMemory, BeforeTable, Start
  <2>2. CASE EndRun \/ LoadFails \/ Skip \/ Free
    BY <2>a, <2>2 DEF EndRun, LoadFails, Return, Skip, Free
  <2>3. CASE Load
    BY <2>3 DEF Load, FailureExplained
  <2>4. CASE Begin
    <3>1. calc.i = 0 /\ After(conf, calc.mode, 0) = Nothing
      BY <2>4 DEF Begin, TimesInv, After
    <3>2. /\ results'[Result] = Nothing /\ (Result # "C" => results'["C"] = results["C"])
          /\ UNCHANGED <<conf, role, calc, verdict>> /\ pc = "begin" /\ pc' = "repeat"
      BY <2>4, <2>b DEF Begin
    <3>3. QED
      BY <2>a, <3>1, <3>2
  <2>5. CASE Execute
    <3>1. /\ calc'.mode = calc.mode /\ calc'.i = calc.i + 1
          /\ UNCHANGED <<conf, role, verdict, pc>> /\ pc = "repeat"
      BY <2>5 DEF Execute, TypeInv, Calcs
    <3>2. /\ results'[Result] = Computed(calc.mode, results[Result])
          /\ (Result # "C" => results'["C"] = results["C"])
      BY <2>5, <2>b DEF Execute
    <3>3. results'[Result] = After(conf, calc.mode, calc.i + 1)
      BY <2>b, <3>1, <3>2, OneMore
    <3>4. QED
      BY <2>a, <3>1, <3>2, <3>3
  <2>6. CASE Fail
    <3>1. calc'.ok = FALSE
      BY <2>6 DEF Fail, TypeInv, Calcs
    <3>2. QED
      BY <2>a, <2>6, <3>1 DEF Fail
  <2>7. CASE Measured
    BY <2>a, <2>7 DEF Measured
  <2>8. CASE Report
    <3>1. calc.i = calc.repeat
      BY <2>8 DEF Report, TimesInv
    <3>2. calc'.mode = calc.mode /\ calc'.repeat = calc.repeat
      BY <2>8 DEF Report, TypeInv, Calcs
    <3>3. QED
      BY <2>a, <2>8, <3>1, <3>2 DEF Report
  <2>9. CASE CheckNext
    <3>1. calc.mode = conf.mode /\ calc.repeat = conf.repeat
      BY <2>9 DEF CheckNext, RoleInv
    <3>2. results["C"] = After(conf, conf.mode, conf.repeat)
      BY <2>9, <3>1 DEF CheckNext
    <3>3. UNCHANGED <<conf, results, verdict>> /\ pc' = "begin"
      BY <2>9 DEF CheckNext
    <3>4. QED
      BY <2>a, <3>2, <3>3
  <2>10. CASE KeepSingle \/ NextMode
    BY <2>a, <2>10 DEF KeepSingle, NextMode
  <2>11. CASE Compare
    <3>1. pc = "result" /\ role = "sanity" /\ pc' = "free" /\ UNCHANGED <<conf, results, role>>
      BY <2>11 DEF Compare
    <3>2. CASE calc.ok /\ ~Same(results["C"], results["D"])
      <4>1. calc.mode = conf.sanity /\ calc.repeat = 1
        BY <3>1 DEF RoleInv
      <4>2. /\ results["C"] = After(conf, conf.mode, conf.repeat)
            /\ results["D"] = After(conf, conf.sanity, 1)
        BY <3>1, <3>2, <4>1
      <4>3. conf \in Configurations /\ conf.repeat > 0
        BY DEF TypeInv, TypeOK
      <4>4. \/ conf.app = "matrix" /\ ~OnGpu(conf.mode) /\ conf.repeat > 1
            \/ conf.app = "scan" /\ ~(~OnGpu(conf.mode) /\ OnGpu(conf.sanity))
            \/ conf.gpu = "unloaded" /\ (OnGpu(conf.mode) \/ OnGpu(conf.sanity))
        BY <3>2, <4>2, <4>3, WhyDifferent
      <4>5. FailureExplained'
        BY <1>2, <4>4 DEF FailureExplained, OnGpu, CpuMax
      <4>6. QED
        BY <3>1, <4>5
    <3>3. CASE ~calc.ok
      <4>1. verdict' = verdict
        BY <2>11, <3>3 DEF Compare
      <4>2. QED
        BY <2>a, <3>1, <4>1
    <3>4. CASE Same(results["C"], results["D"]) /\ calc.ok
      <4>1. verdict' = "passed"
        BY <2>11, <3>4 DEF Compare
      <4>2. QED
        BY <3>1, <4>1 DEF FailureExplained
    <3>5. QED
      BY <3>2, <3>3, <3>4
  <2>12. CASE UNCHANGED vars
    BY <2>a, <2>12 DEF vars
  <2>13. CASE \E o \in Settings : SetModes(o)
    BY <1>1, <2>13
  <2>14. QED
    BY <2>1, <2>2, <2>3, <2>4, <2>5, <2>6, <2>7, <2>8, <2>9, <2>10, <2>11, <2>12, <2>13
    DEF BenchStep
<1>3. QED
  BY <1>1, <1>2, ConfKept

-----------------------------------------------------------------------------
(* What is live, measured and open.                                        *)

LEMMA LiveStep == TypeInv /\ RoleInv /\ LiveInv /\ BenchStep => LiveInv'
<1> SUFFICES ASSUME TypeInv, RoleInv, LiveInv, BenchStep PROVE LiveInv'
  OBVIOUS
<1> USE DEF LiveInv, OnlyUncheckedResultsLeak, meterVars, calcVars
<1>1. ASSUME NEW o \in Settings, SetModes(o) PROVE LiveInv'
  BY <1>1 DEF SetModes
<1>2. CASE conf' = conf /\ (pc' = "main" => pc = "main")
  <2>1. CASE Create \/ NoLog \/ NoDirectory \/ OutOfMemory \/ BeforeTable \/ Start
    BY <1>2, <2>1 DEF Create, NoLog, NoDirectory, OutOfMemory, BeforeTable, Start
  <2>2. CASE EndRun \/ LoadFails \/ Skip
    BY <1>2, <2>2 DEF EndRun, LoadFails, Return, Skip
  <2>3. CASE Load
    BY <1>2, <2>3 DEF Load
  <2>4. CASE Begin
    BY <1>2, <2>4 DEF Begin, Result
  <2>5. CASE Execute
    BY <1>2, <2>5 DEF Execute, Result
  <2>6. CASE Fail
    BY <1>2, <2>6 DEF Fail, Result, TypeInv, TypeOK
  <2>7. CASE Measured \/ Report
    <3>1. /\ pc' \in {"report", "result"} /\ pc \in {"repeat", "report"}
          /\ UNCHANGED <<conf, role, live, leaked>>
      BY <2>7 DEF Measured, Report
    <3>2. pc' = "result" => calc'.ok = TRUE
      BY <2>7 DEF Measured, Report, TypeInv, Calcs
    <3>3. QED
      BY <1>2, <3>1, <3>2 DEF Result
  <2>8. CASE CheckNext
    BY <1>2, <2>8 DEF CheckNext
  <2>9. CASE KeepSingle
    BY <1>2, <2>9 DEF KeepSingle, RoleInv, Busy, Calculating
  <2>10. CASE Compare
    BY <1>2, <2>10 DEF Compare, TypeInv, TypeOK
  <2>11. CASE NextMode
    BY <1>2, <2>11 DEF NextMode
  <2>12. CASE Free
    <3>1. /\ pc = "free" /\ pc' = "files" /\ conf' = conf /\ leaked \in Nat
          /\ leaked' = leaked + Cardinality(live \ {"A"})
      BY <2>12, BenchAssumption DEF Free, TypeInv, TypeOK, BenchAssumption
    <3>2. CASE live \subseteq {"A"}
      <4>1. live \ {"A"} = {} /\ Cardinality({}) = 0
        BY <3>2, FS_EmptySet
      <4>2. leaked' = leaked
        BY <3>1, <4>1
      <4>3. QED
        BY <3>1, <4>2
    <3>3. CASE conf.seq = "none" /\ conf.sanity = NoSanity
      BY <3>1, <3>3
    <3>4. QED
      BY <3>1, <3>2, <3>3
  <2>13. CASE UNCHANGED vars
    BY <2>13 DEF vars, Result
  <2>14. CASE \E o \in Settings : SetModes(o)
    BY <1>1, <2>14
  <2>15. QED
    BY <2>1, <2>2, <2>3, <2>4, <2>5, <2>6, <2>7, <2>8, <2>9, <2>10, <2>11, <2>12, <2>13,
       <2>14 DEF BenchStep
<1>3. QED
  BY <1>1, <1>2, ConfKept

LEMMA OpenStep == OpenInv /\ BenchStep => OpenInv'
<1> SUFFICES ASSUME OpenInv, BenchStep PROVE OpenInv'
  OBVIOUS
<1> USE DEF OpenInv, Busy, Calculating, meterVars, calcVars
<1>1. CASE \E o \in Settings : SetModes(o)
  BY <1>1 DEF SetModes
<1>2. CASE Create \/ NoLog \/ NoDirectory \/ OutOfMemory \/ BeforeTable \/ Start
  BY <1>2 DEF Create, NoLog, NoDirectory, OutOfMemory, BeforeTable, Start
<1>3. CASE EndRun \/ LoadFails \/ Skip \/ Load \/ Free
  BY <1>3 DEF EndRun, LoadFails, Return, Skip, Load, Free
<1>4. CASE Begin \/ Execute \/ Fail \/ Measured \/ Report
  BY <1>4 DEF Begin, Execute, Fail, Measured, Report
<1>5. CASE CheckNext \/ KeepSingle \/ Compare \/ NextMode
  BY <1>5 DEF CheckNext, KeepSingle, Compare, NextMode
<1>6. CASE UNCHANGED vars
  BY <1>6 DEF vars
<1>7. QED
  BY <1>1, <1>2, <1>3, <1>4, <1>5, <1>6 DEF BenchStep
=============================================================================
