---------------------------- MODULE Program_proofs ----------------------------
(***************************************************************************)
(* What holds of every run of the whole program: for every application,    *)
(* build, GPU, computer, option and file, and whatever OpenCL refuses.     *)
(*                                                                         *)
(* A step of main is a step of the benchmark run or leaves it alone, so    *)
(* the lemmas of Bench_proofs carry over; what is added here is which      *)
(* handle is live in which stage of main.                                  *)
(***************************************************************************)
EXTENDS Program, Bench_proofs

-----------------------------------------------------------------------------
(* The invariant.                                                          *)

BenchInv ==
  /\ TypeInv /\ ModesInv /\ RoleInv /\ TriedInv /\ TimesInv /\ ResultsInv
  /\ LiveInv /\ OpenInv

\* main runs the benchmark in one of its stages.
StageInv ==
  /\ stage \in {"cpu", "gpu", "options", "app", "query", "run", "unload", "delete", "done", "usage"}
  /\ opts \in Settings
  /\ stage \notin {"run", "unload", "delete", "done"} => pc = "main"
  /\ stage \in {"unload", "delete", "done"} => pc \in {"main", "exit"}

\* Between new GPU and delete gpu the object is there, and the platform exactly when it
\* is enabled; the kernels are there while the application is, if they could be loaded.
Opened == {"options", "app", "query", "run", "unload", "delete", "usage"}
Platform == {"platforms", "devices", "context"}
Loading == {"program", "queue"}
HandleInv ==
  /\ stage \in {"cpu", "gpu"} => ~enabled /\ \A h \in Handles : handle[h] = "unset"
  /\ stage \in Opened => handle["gpu"] = "live"
  /\ stage \in Opened =>
       /\ enabled <=> conf.gpu \in {"unloaded", "enabled"}
       /\ \A h \in Platform : handle[h] = "live" <=> enabled
  /\ \A h \in Loading : handle[h] = "live" => stage = "run" /\ conf.gpu = "enabled"
  /\ stage = "run" /\ conf.gpu = "enabled" => loaded /\ \A h \in Loading : handle[h] = "live"
  /\ loaded => conf.gpu = "enabled"
  /\ stage = "done" => \A h \in Handles : handle[h] # "live"

IsSeq(s) == \E S : s \in Seq(S)
Models(c) == Len(c.models)

\* How many lines have been read, and which are left.
LinesRead == Len(CpuInfo(computer)) - Len(lines)
LinesInv ==
  /\ computer \in Computers
  /\ IsSeq(lines) /\ LinesRead \in Nat
  /\ \A k \in 1..Len(lines) : lines[k] = CpuInfo(computer)[LinesRead + k]

\* What has been stored after so many lines.
NoneStored == ~overrun /\ \A i \in 0..MAX_CORE_COUNT - 1 : cores[i] = "unset"
IntelInv ==
  /\ LinesRead <= 4 * coreCount /\ 4 * coreCount < LinesRead + 4
  /\ IF computer.vendor = "GenuineIntel"
     THEN /\ LinesRead >= 2 => type = "intel"
          /\ \A i \in 0..MAX_CORE_COUNT - 1 :
               cores[i] = IF 4 * i + 3 <= LinesRead THEN IntelType(computer.models[i + 1]) ELSE "unset"
          /\ overrun => coreCount > MAX_CORE_COUNT
     ELSE type # "intel" /\ NoneStored
ArmInv ==
  /\ LinesRead <= 3 * coreCount /\ 3 * coreCount < LinesRead + 3
  /\ LinesRead >= 2 => type = "arm"
  /\ \A i \in 0..MAX_CORE_COUNT - 1 :
       cores[i] = IF 3 * i + 3 <= LinesRead THEN ArmType(computer.models[i + 1]) ELSE "unset"
  /\ overrun => coreCount > MAX_CORE_COUNT
OldArmInv ==
  /\ coreCount = IF LinesRead <= Models(computer) THEN LinesRead ELSE Models(computer)
  /\ type = "unknown" /\ NoneStored

DetectInv ==
  /\ LinesInv
  /\ computer.system # "Linux" => lines = <<>> /\ coreCount = 0 /\ NoneStored
  /\ computer.system = "Linux" =>
       CASE computer.vendor = "ARM"     -> ArmInv
         [] computer.vendor = "old_ARM" -> OldArmInv
         [] OTHER                       -> IntelInv

\* What is known of the CPU while main looks at it and until it goes on.
CoresInv == (stage = "cpu" => DetectInv) /\ CoresKnown

ProgramInv ==
  /\ BenchInv /\ StageInv /\ GpuTypeOK /\ CpuTypeOK /\ CoresInv
  /\ HandleInv /\ HandlesValid

-----------------------------------------------------------------------------
(* The run.                                                                *)

\* What atoi returns is a number.
LEMMA AtoiType == ASSUME NEW n \in Nat PROVE Atoi(n) \in Int
<1>1. (n + IntLimit) % (2 * IntLimit) \in Int
  BY BenchAssumption DEF BenchAssumption
<1>2. QED
  BY <1>1, BenchAssumption DEF Atoi, BenchAssumption

\* The constructor of App.
LEMMA BenchInit == Init => BenchInv
<1> SUFFICES ASSUME Init PROVE BenchInv
  OBVIOUS
<1>1. /\ conf \in Configurations /\ conf.mode = 0 /\ conf.seq = "none" /\ conf.sanity = NoSanity
      /\ conf.repeat = 1
  BY BenchAssumption DEF Init, Configurations, BenchAssumption, NoSanity
<1>2. CalcType /\ calc.mode \in Int /\ calc.stamps \subseteq 0..MaxTimes
  BY DEF Init, NoCalc, CalcType, Calcs
<1>3. results \in [{"C", "D"} -> [products : Nat, upto : {0, 1}]]
  BY DEF Init, Nothing
<1>4. files \in Seq({"good", "bad", "other"}) /\ Len(files) = 0 /\ tried \in Seq(Int)
  BY DEF Init
<1>5. TypeInv
  <2>1. /\ pc = "main" /\ log = "none" /\ files = <<>> /\ role = "single"
        /\ last = 0 /\ live = {} /\ verdict = "none" /\ leaked = 0
        /\ energy = 0 /\ reported = 0
    BY DEF Init
  <2>a. status \in BOOLEAN /\ failed \in BOOLEAN /\ measuring \in BOOLEAN
    BY DEF Init
  <2>2. MaxFiles \in Nat /\ leaked \in 0..MaxFiles /\ leaked + Len(files) <= MaxFiles
    BY <1>4, <2>1, BenchAssumption DEF BenchAssumption
  <2>3. TypeOK
    BY <1>1, <1>2, <1>3, <1>4, <2>1, <2>a, <2>2 DEF TypeOK, CalcType
  <2>4. QED
    BY <1>1, <1>2, <1>4, <2>1, <2>2, <2>3 DEF TypeInv, Busy, Calculating, CalcType
<1>6. ModesInv
  BY <1>1, Tables DEF ModesInv
<1>7. RoleInv /\ TriedInv /\ TimesInv
  BY DEF Init, RoleInv, TriedInv, TimesInv, Busy, Calculating
<1>8. ResultsInv
  BY DEF Init, ResultsInv, FailureExplained, Calculating
<1>9. LiveInv /\ OpenInv
  BY DEF Init, LiveInv, OnlyUncheckedResultsLeak, OpenInv
<1>10. QED
  BY <1>5, <1>6, <1>7, <1>8, <1>9 DEF BenchInv

LEMMA BenchKept == BenchInv /\ BenchStep => BenchInv'
BY TypeStep, ModesStep, RoleStep, TriedStep, TimesStep, ResultsStep, LiveStep, OpenStep
DEF BenchInv

\* main does not touch the run but in its stage "run", where it hands it the options.
LEMMA StepOfRun ==
  ASSUME opts \in Settings, [ProgramNext]_programVars
  PROVE  BenchStep
<1>1. CASE NewCpu \/ NewGpu \/ Option \/ LeaveOptions \/ Query \/ NewApp \/ DeleteApp
            \/ DeletePower \/ DeleteAll \/ Ended
  BY <1>1 DEF NewCpu, NewGpu, Option, LeaveOptions, Query, NewApp, DeleteApp, DeletePower,
     DeleteAll, Ended, programVars, BenchStep
<1>2. CASE Run
  BY <1>2 DEF Run, RunStep, Step, BenchStep
<1>3. CASE UNCHANGED programVars
  BY <1>3 DEF programVars, BenchStep
<1>4. QED
  BY <1>1, <1>2, <1>3 DEF ProgramNext

\* What of the configuration never changes.
LEMMA MachineKept ==
  ASSUME BenchInv, BenchStep
  PROVE  /\ conf'.app = conf.app /\ conf'.build = conf.build /\ conf'.gpu = conf.gpu
         /\ conf \in Configurations
<1>1. conf \in Configurations
  BY DEF BenchInv, TypeInv, TypeOK
<1>2. QED
  BY <1>1, ConfKept, SetConf

-----------------------------------------------------------------------------
(* The stages of main.                                                     *)

LEMMA OptionTypes ==
  ASSUME opts \in Settings, Option
  PROVE  opts' \in Settings
<1>1. \A m \in ModeRequests \cup SanityRequests : Atoi(m) \in Int
  BY AtoiType, BenchAssumption DEF BenchAssumption
<1>2. \A r \in Repeats \cup {1} : r \in Nat \ {0}
  BY BenchAssumption DEF BenchAssumption
<1>3. CASE \E m \in ModeRequests : opts' = [opts EXCEPT !.mode = Atoi(m)]
  BY <1>1, <1>3 DEF Settings
<1>4. CASE \E q \in {"cpu", "gpu", "all"} : opts' = [opts EXCEPT !.seq = q]
  BY <1>4 DEF Settings
<1>5. CASE \E s \in SanityRequests : opts' = [opts EXCEPT !.sanity = Atoi(s)]
  BY <1>1, <1>5 DEF Settings
<1>6. CASE \E r \in Repeats \cup {1} : opts' = [opts EXCEPT !.repeat = r]
  BY <1>2, <1>6 DEF Settings
<1>7. CASE \E p \in BOOLEAN : opts' = [opts EXCEPT !.print = p]
  BY <1>7 DEF Settings
<1>8. CASE \E t \in BOOLEAN : opts' = [opts EXCEPT !.time = t]
  BY <1>8 DEF Settings
<1>9. QED
  BY <1>3, <1>4, <1>5, <1>6, <1>7, <1>8 DEF Option

LEMMA NoOptionsType == NoOptions \in Settings
BY DEF NoOptions, Settings, NoSanity

LEMMA StageStep == StageInv /\ [ProgramNext]_programVars => StageInv'
<1> SUFFICES ASSUME StageInv, [ProgramNext]_programVars PROVE StageInv'
  OBVIOUS
<1> USE DEF StageInv
<1>1. CASE NewCpu \/ NewGpu \/ Query \/ NewApp \/ DeleteApp \/ DeletePower \/ DeleteAll
  BY <1>1 DEF NewCpu, NewGpu, Query, NewApp, DeleteApp, DeletePower, DeleteAll, vars
<1>2. CASE Option
  <2>1. stage = "options" /\ stage' = stage /\ pc' = pc
    BY <1>2 DEF Option, vars
  <2>2. QED
    BY <1>2, <2>1, OptionTypes
<1>3. CASE LeaveOptions
  BY <1>3, NoOptionsType DEF LeaveOptions, vars
<1>4. CASE Run
  <2>1. stage = "run" /\ stage' = stage /\ opts' \in Settings
    BY <1>4, NoOptionsType DEF Run, RunStep, Step
  <2>2. QED
    BY <2>1
<1>5. CASE UNCHANGED programVars
  BY <1>5 DEF programVars, mainVars, vars
<1>6. QED
  BY <1>1, <1>2, <1>3, <1>4, <1>5 DEF ProgramNext, Ended

-----------------------------------------------------------------------------
(* The GPU and its handles.                                                *)

LEMMA SetType ==
  ASSUME GpuTypeOK, NEW hs, NEW state \in {"unset", "live", "released"}
  PROVE  Set(hs, state) \in [Handles -> {"unset", "live", "released"}]
BY DEF GpuTypeOK, Set

LEMMA SetValue ==
  ASSUME NEW hs, NEW state, NEW h \in Handles
  PROVE  Set(hs, state)[h] = IF h \in hs THEN state ELSE handle[h]
BY DEF Set

LEMMA UseType ==
  ASSUME GpuTypeOK, NEW hs \in SUBSET Handles, Use(hs)
  PROVE  misused' \subseteq Handles
BY DEF GpuTypeOK, Use

\* What each step of the run uses are handles.
LEMMA StepUses ==
  ASSUME Run
  PROVE  /\ stage = "run" /\ UNCHANGED <<handle, enabled, loaded, stage, cpuVars>>
         /\ \E hs \in {{}, Construct, Kernel, Compute, Compute \cup Destruct, Destruct} : Use(hs)
BY DEF Run, RunStep, Step

LEMMA GpuTypeStep == GpuTypeOK /\ [ProgramNext]_programVars => GpuTypeOK'
<1> SUFFICES ASSUME GpuTypeOK, [ProgramNext]_programVars PROVE GpuTypeOK'
  OBVIOUS
<1>1. CASE NewGpu
  <2>1. CASE NotBuilt \/ PlatformFound
    BY <2>1, SetType DEF NotBuilt, PlatformFound, GpuTypeOK
  <2>2. CASE PlatformMissing
    <3>1. PICK gone : handle' = [Set(gone, "released") EXCEPT !["gpu"] = "live"]
      BY <2>2 DEF PlatformMissing
    <3>2. Set(gone, "released") \in [Handles -> {"unset", "live", "released"}]
      BY SetType
    <3>3. handle' \in [Handles -> {"unset", "live", "released"}]
      BY <3>1, <3>2
    <3>4. QED
      BY <2>2, <3>3 DEF PlatformMissing, GpuTypeOK
  <2>3. QED
    BY <1>1, <2>1, <2>2 DEF NewGpu
<1>2. CASE Query
  <2>1. CASE PlatformQuery
    BY <2>1, UseType DEF PlatformQuery, GpuTypeOK, Handles
  <2>2. CASE UNCHANGED gpuVars
    BY <2>2 DEF gpuVars, GpuTypeOK
  <2>3. QED
    BY <1>2, <2>1, <2>2 DEF Query
<1>3. CASE NewApp
  <2>1. PICK hs \in {{"gpu", "devices", "context"}, {"gpu"}} : Use(hs)
    BY <1>3 DEF NewApp, LoadGPUKernel
  <2>2. misused' \subseteq Handles
    BY <2>1, UseType DEF Handles
  <2>3. enabled' = enabled
    BY <1>3 DEF NewApp, LoadGPUKernel
  <2>4. /\ \/ loaded' = loaded \/ loaded' = TRUE
        /\ \/ handle' = handle
           \/ \E set : \E state \in {handle["program"], "live", "released"} :
                handle' = Set(set, state)
    BY <1>3 DEF NewApp, LoadGPUKernel, NoProgram, NoQueue, Kernels
  <2>5. handle["program"] \in {"unset", "live", "released"}
    BY DEF GpuTypeOK, Handles
  <2>6. handle' \in [Handles -> {"unset", "live", "released"}]
    BY <2>4, <2>5, SetType DEF GpuTypeOK
  <2>7. QED
    BY <2>2, <2>3, <2>4, <2>6 DEF GpuTypeOK
<1>4. CASE Run
  <2>1. PICK hs \in SUBSET Handles : Use(hs)
    BY <1>4, StepUses DEF Construct, Kernel, Mapping, Compute, Destruct, Handles
  <2>2. QED
    BY <1>4, <2>1, UseType, StepUses DEF GpuTypeOK
<1>5. CASE DeleteApp
  <2>1. PICK hs \in {{"gpu", "program", "queue"}, {}} : Use(hs)
    BY <1>5 DEF DeleteApp, UnLoadGPUKernel
  <2>2. misused' \subseteq Handles
    BY <2>1, UseType DEF Handles
  <2>3. QED
    BY <1>5, <2>2, SetType DEF DeleteApp, UnLoadGPUKernel, GpuTypeOK
<1>6. CASE DeleteAll
  <2>1. PICK hs \in {{"gpu", "platforms", "devices", "context"}, {"gpu"}} : Use(hs)
    BY <1>6 DEF DeleteAll, DeleteGpu
  <2>2. misused' \subseteq Handles
    BY <2>1, UseType DEF Handles
  <2>3. QED
    BY <1>6, <2>2, SetType DEF DeleteAll, DeleteGpu, GpuTypeOK
<1>7. CASE NewCpu \/ Option \/ LeaveOptions \/ DeletePower \/ UNCHANGED programVars
  BY <1>7 DEF NewCpu, Option, LeaveOptions, DeletePower, programVars, gpuVars, GpuTypeOK
<1>8. QED
  BY <1>1, <1>2, <1>3, <1>4, <1>5, <1>6, <1>7 DEF ProgramNext, Ended

-----------------------------------------------------------------------------
(* The CPU.                                                                *)

LEMMA StoreType ==
  ASSUME CpuTypeOK, NEW t \in CoreTypes, StoreCore(t)
  PROVE  cores' \in [0..MAX_CORE_COUNT - 1 -> CoreTypes \cup {"unset"}] /\ overrun' \in BOOLEAN
BY DEF CpuTypeOK, StoreCore

LEMMA CpuTypeStep == CpuTypeOK /\ [ProgramNext]_programVars => CpuTypeOK'
<1> SUFFICES ASSUME CpuTypeOK, [ProgramNext]_programVars PROVE CpuTypeOK'
  OBVIOUS
<1>1. CASE NewCpu /\ ReadLine
  <2> DEFINE line == Head(lines)
  <2> HIDE DEF line
  <2>1. /\ Processor(line) \/ Vendor(line) \/ Model(line) \/ Part(line)
        /\ UNCHANGED <<computer, powerCoreCount>>
    BY <1>1 DEF ReadLine, line
  <2>2. CASE Processor(line)
    BY <2>1, <2>2 DEF Processor, CpuTypeOK
  <2>3. CASE Vendor(line)
    BY <2>1, <2>3 DEF Vendor, CpuTypeOK
  <2>4. CASE Model(line)
    <3>1. IntelType(line.value) \in CoreTypes
      BY DEF IntelType, CoreTypes
    <3>2. QED
      BY <2>1, <2>4, <3>1, StoreType DEF Model, CpuTypeOK
  <2>5. CASE Part(line)
    <3>1. ArmType(line.value) \in CoreTypes
      BY DEF ArmType, CoreTypes
    <3>2. QED
      BY <2>1, <2>5, <3>1, StoreType DEF Part, CpuTypeOK
  <2>6. QED
    BY <2>1, <2>2, <2>3, <2>4, <2>5
<1>2. CASE NewCpu /\ CountCores
  <2>1. powerCoreCount' \in {0, 1, coreCount}
    BY <1>2 DEF CountCores
  <2>2. QED
    BY <1>2, <2>1 DEF CountCores, CpuTypeOK
<1>3. CASE NewGpu
  BY <1>3 DEF NewGpu, ForgetCpu, CpuTypeOK
<1>4. CASE Option \/ LeaveOptions \/ Query \/ NewApp \/ DeleteApp \/ DeletePower \/ DeleteAll
  BY <1>4 DEF Option, LeaveOptions, Query, NewApp, DeleteApp, DeletePower, DeleteAll, cpuVars,
     CpuTypeOK
<1>5. CASE Run
  BY <1>5, StepUses DEF cpuVars, CpuTypeOK
<1>6. CASE UNCHANGED programVars
  BY <1>6 DEF programVars, cpuVars, CpuTypeOK
<1>7. QED
  BY <1>1, <1>2, <1>3, <1>4, <1>5, <1>6 DEF ProgramNext, NewCpu, Ended

-----------------------------------------------------------------------------
(* The lines of /proc/cpuinfo, and what is made of them: in the end each       *)
(* core has its type.                                                      *)

\* Where a line lies, if each processor has four, and if each has three.
LEMMA FourEach ==
  ASSUME NEW m \in Nat
  PROVE  /\ \A k \in 1..4 * m : ((k - 1) \div 4) + 1 \in 1..m /\ ((k - 1) % 4) + 1 \in 1..4
         /\ \A i \in 0..m - 1, j \in 1..4 : /\ 4 * i + j \in 1..4 * m
                                            /\ ((4 * i + j - 1) \div 4) + 1 = i + 1
                                            /\ ((4 * i + j - 1) % 4) + 1 = j
OBVIOUS

LEMMA ThreeEach ==
  ASSUME NEW m \in Nat
  PROVE  /\ \A k \in 1..3 * m : ((k - 1) \div 3) + 1 \in 1..m /\ ((k - 1) % 3) + 1 \in 1..3
         /\ \A i \in 0..m - 1, j \in 1..3 : /\ 3 * i + j \in 1..3 * m
                                            /\ ((3 * i + j - 1) \div 3) + 1 = i + 1
                                            /\ ((3 * i + j - 1) % 3) + 1 = j
OBVIOUS

\* Four lines for a processor of Intel, or of a vendor the program does not know.
LEMMA IntelLines ==
  ASSUME NEW c \in Computers, c.system = "Linux", c.vendor \notin {"ARM", "old_ARM"}
  PROVE  /\ IsSeq(CpuInfo(c)) /\ Len(CpuInfo(c)) = 4 * Models(c)
         /\ \A i \in 0..Models(c) - 1 :
              /\ CpuInfo(c)[4 * i + 1] = Line("processor", "")
              /\ CpuInfo(c)[4 * i + 2] = Line("vendor_id", c.vendor)
              /\ CpuInfo(c)[4 * i + 3] = Line("model", c.models[i + 1])
              /\ CpuInfo(c)[4 * i + 4] = Line("model_name", c.vendor)
<1> DEFINE block(m) == <<Line("processor", ""), Line("vendor_id", c.vendor), Line("model", m),
                         Line("model_name", c.vendor)>>
           at(k) == block(c.models[((k - 1) \div 4) + 1])[((k - 1) % 4) + 1]
           info == [k \in 1..4 * Models(c) |-> at(k)]
<1>0. Models(c) \in Nat
  BY ComputersAssumption DEF Models
<1>1. \A m : Block(c.vendor, m) = block(m)
  BY DEF Block
<1>2. \A m : /\ Len(block(m)) = 4
             /\ block(m)[1] = Line("processor", "") /\ block(m)[2] = Line("vendor_id", c.vendor)
             /\ block(m)[3] = Line("model", m) /\ block(m)[4] = Line("model_name", c.vendor)
  OBVIOUS
<1> HIDE DEF block
<1>4. CpuInfo(c) = info
  <2>1. Len(Block(c.vendor, c.models[1])) = 4
    BY <1>1, <1>2
  <2> QED
    BY <1>1, <2>1 DEF CpuInfo, Models
<1>6. ASSUME NEW i \in 0..Models(c) - 1, NEW j \in 1..4
      PROVE  info[4 * i + j] = block(c.models[i + 1])[j]
  <2> DEFINE k == 4 * i + j
  <2>1. k \in 1..4 * Models(c) /\ ((k - 1) \div 4) + 1 = i + 1 /\ ((k - 1) % 4) + 1 = j
    BY FourEach, <1>0
  <2>2. info[k] = at(k)
    BY <2>1
  <2>3. at(k) = block(c.models[i + 1])[j]
    BY <2>1
  <2> QED
    BY <2>2, <2>3
<1>7. 4 * Models(c) \in Nat
  BY <1>0
<1> HIDE DEF at
<1>8. Len(info) = 4 * Models(c) /\ info \in Seq({info[k] : k \in 1..4 * Models(c)})
  BY <1>7
<1> HIDE DEF info
<1>9. ASSUME NEW i \in 0..Models(c) - 1
      PROVE  /\ info[4 * i + 1] = block(c.models[i + 1])[1]
             /\ info[4 * i + 2] = block(c.models[i + 1])[2]
             /\ info[4 * i + 3] = block(c.models[i + 1])[3]
             /\ info[4 * i + 4] = block(c.models[i + 1])[4]
  BY <1>6
<1> QED
  BY <1>2, <1>4, <1>8, <1>9 DEF IsSeq

\* Three for one of ARM.
LEMMA ArmLines ==
  ASSUME NEW c \in Computers, c.system = "Linux", c.vendor = "ARM"
  PROVE  /\ IsSeq(CpuInfo(c)) /\ Len(CpuInfo(c)) = 3 * Models(c)
         /\ \A i \in 0..Models(c) - 1 :
              /\ CpuInfo(c)[3 * i + 1] = Line("processor", "")
              /\ CpuInfo(c)[3 * i + 2] = Line("model_name", "ARMv7")
              /\ CpuInfo(c)[3 * i + 3] = Line("CPU_part", c.models[i + 1])
<1> DEFINE block(m) == <<Line("processor", ""), Line("model_name", "ARMv7"), Line("CPU_part", m)>>
           at(k) == block(c.models[((k - 1) \div 3) + 1])[((k - 1) % 3) + 1]
           info == [k \in 1..3 * Models(c) |-> at(k)]
<1>0. Models(c) \in Nat
  BY ComputersAssumption DEF Models
<1>1. \A m : Block(c.vendor, m) = block(m)
  BY DEF Block
<1>2. \A m : /\ Len(block(m)) = 3
             /\ block(m)[1] = Line("processor", "") /\ block(m)[2] = Line("model_name", "ARMv7")
             /\ block(m)[3] = Line("CPU_part", m)
  OBVIOUS
<1> HIDE DEF block
<1>4. CpuInfo(c) = info
  <2>1. Len(Block(c.vendor, c.models[1])) = 3
    BY <1>1, <1>2
  <2> QED
    BY <1>1, <2>1 DEF CpuInfo, Models
<1>6. ASSUME NEW i \in 0..Models(c) - 1, NEW j \in 1..3
      PROVE  info[3 * i + j] = block(c.models[i + 1])[j]
  <2> DEFINE k == 3 * i + j
  <2>1. k \in 1..3 * Models(c) /\ ((k - 1) \div 3) + 1 = i + 1 /\ ((k - 1) % 3) + 1 = j
    BY ThreeEach, <1>0
  <2>2. info[k] = at(k)
    BY <2>1
  <2>3. at(k) = block(c.models[i + 1])[j]
    BY <2>1
  <2> QED
    BY <2>2, <2>3
<1>7. 3 * Models(c) \in Nat
  BY <1>0
<1> HIDE DEF at
<1>8. Len(info) = 3 * Models(c) /\ info \in Seq({info[k] : k \in 1..3 * Models(c)})
  BY <1>7
<1> HIDE DEF info
<1>9. ASSUME NEW i \in 0..Models(c) - 1
      PROVE  /\ info[3 * i + 1] = block(c.models[i + 1])[1]
             /\ info[3 * i + 2] = block(c.models[i + 1])[2]
             /\ info[3 * i + 3] = block(c.models[i + 1])[3]
  BY <1>6
<1> QED
  BY <1>2, <1>4, <1>8, <1>9 DEF IsSeq

\* One for each of the older ones, and the part at the end.
LEMMA OldLines ==
  ASSUME NEW c \in Computers, c.system = "Linux", c.vendor = "old_ARM"
  PROVE  /\ IsSeq(CpuInfo(c)) /\ Len(CpuInfo(c)) = Models(c) + 1
         /\ \A k \in 1..Models(c) : CpuInfo(c)[k] = Line("processor", "")
         /\ CpuInfo(c)[Models(c) + 1] = Line("CPU_part", c.models[1])
<1> DEFINE block == <<Line("processor", "")>>
           part == Line("CPU_part", c.models[1])
           processor == Line("processor", "")
           all == [k \in 1..Models(c) |-> processor]
<1>0. Models(c) \in Nat
  BY ComputersAssumption DEF Models
<1>1. \A m : Block(c.vendor, m) = block
  BY DEF Block
<1>2. Len(block) = 1 /\ block[1] = Line("processor", "")
  OBVIOUS
<1>4. \A k \in 1..Models(c) : (k - 1) % 1 = 0
  BY <1>0
<1> HIDE DEF block
<1>5. CpuInfo(c) = all \o <<part>>
  <2>1. Len(Block(c.vendor, c.models[1])) = 1
    BY <1>1, <1>2
  <2>2. [k \in 1..1 * Len(c.models) |->
           Block(c.vendor, c.models[((k - 1) \div 1) + 1])[((k - 1) % 1) + 1]] = all
    <3>1. ASSUME NEW k \in 1..Models(c)
          PROVE  Block(c.vendor, c.models[((k - 1) \div 1) + 1])[((k - 1) % 1) + 1]
                   = Line("processor", "")
      <4>1. ((k - 1) % 1) + 1 = 1
        BY <1>4, <3>1
      <4> QED
        BY <1>1, <1>2, <4>1
    <3>2. 1 * Len(c.models) = Models(c)
      BY <1>0 DEF Models
    <3> QED
      BY <3>1, <3>2
  <2> QED
    BY <2>1, <2>2 DEF CpuInfo, Models
<1>6. \A k \in 1..Models(c) : all[k] = processor
  OBVIOUS
<1> HIDE DEF part, processor
<1>7. all \in Seq({processor, part}) /\ Len(all) = Models(c)
  BY <1>0, <1>6
<1> HIDE DEF all
<1>8. <<part>> \in Seq({processor, part}) /\ Len(<<part>>) = 1 /\ <<part>>[1] = part
  OBVIOUS
<1>9. /\ CpuInfo(c) \in Seq({processor, part}) /\ Len(CpuInfo(c)) = Models(c) + 1
      /\ \A k \in 1..Models(c) : CpuInfo(c)[k] = processor
      /\ CpuInfo(c)[Models(c) + 1] = part
  BY <1>0, <1>5, <1>6, <1>7, <1>8, ConcatProperties
<1> QED
  BY <1>9 DEF part, processor, IsSeq

LEMMA LineRead ==
  ASSUME LinesInv, IsSeq(CpuInfo(computer)), ReadLine
  PROVE  /\ LinesInv' /\ LinesRead' = LinesRead + 1
         /\ LinesRead + 1 <= Len(CpuInfo(computer))
         /\ Head(lines) = CpuInfo(computer)[LinesRead + 1]
<1> DEFINE info == CpuInfo(computer)
<1>1. computer' = computer /\ lines # <<>> /\ lines' = Tail(lines) /\ info' = info
  BY DEF ReadLine
<1>2. PICK S : lines \in Seq(S)
  BY DEF LinesInv, IsSeq
<1>3. Len(info) \in Nat
  BY LenProperties DEF IsSeq
<1> HIDE DEF info
<1>4. /\ Len(lines) \in Nat \ {0} /\ lines' \in Seq(S) /\ Len(lines') = Len(lines) - 1
      /\ \A k \in 1..Len(lines') : lines'[k] = lines[k + 1]
      /\ Head(lines) = lines[1]
  BY <1>1, <1>2, EmptySeq, HeadTailProperties
<1>5. LinesRead = Len(info) - Len(lines) /\ LinesRead' = Len(info) - Len(lines')
  BY <1>1 DEF LinesRead, info
<1>6. LinesRead' = LinesRead + 1 /\ LinesRead \in Nat /\ LinesRead + 1 <= Len(info)
  BY <1>3, <1>4, <1>5 DEF LinesInv
<1>7. \A k \in 1..Len(lines) : lines[k] = info[LinesRead + k]
  BY DEF LinesInv, info
<1>8. ASSUME NEW k \in 1..Len(lines') PROVE lines'[k] = info[LinesRead' + k]
  <2>1. lines'[k] = info[LinesRead + (k + 1)] /\ LinesRead + (k + 1) = LinesRead' + k
    BY <1>4, <1>6, <1>7
  <2> QED
    BY <2>1
<1> QED
  BY <1>1, <1>4, <1>6, <1>7, <1>8 DEF LinesInv, IsSeq, info

\* What one line does.
LEMMA LineDoes ==
  ASSUME ReadLine, NEW k, NEW v, Head(lines) = Line(k, v)
  PROVE  /\ UNCHANGED <<computer, powerCoreCount>>
         /\ k = "processor" => coreCount' = coreCount + 1 /\ UNCHANGED <<type, cores, overrun>>
         /\ k # "processor" => coreCount' = coreCount
         /\ k = "vendor_id" => /\ type' = IF v = "GenuineIntel" THEN "intel" ELSE type
                               /\ UNCHANGED <<cores, overrun>>
         /\ k = "model_name" => /\ type' = IF v = "ARMv7" THEN "arm" ELSE type
                                /\ UNCHANGED <<cores, overrun>>
         /\ k = "model" => /\ type' = type
                           /\ IF type = "intel" THEN StoreCore(IntelType(v))
                              ELSE UNCHANGED <<cores, overrun>>
         /\ k = "CPU_part" => /\ type' = type
                              /\ IF type = "arm" THEN StoreCore(ArmType(v))
                                 ELSE UNCHANGED <<cores, overrun>>
<1>1. Line(k, v).key = k /\ Line(k, v).value = v
  BY DEF Line
<1> QED
  BY <1>1 DEF ReadLine, Processor, Vendor, Model, Part

LEMMA IntelStep ==
  ASSUME CpuTypeOK, DetectInv, ReadLine, computer.system = "Linux",
         computer.vendor \notin {"ARM", "old_ARM"}
  PROVE  IntelInv'
<1> DEFINE p == LinesRead
           m == Models(computer)
           info == CpuInfo(computer)
<1>1. /\ IsSeq(info) /\ Len(info) = 4 * m
      /\ \A i \in 0..m - 1 :
           /\ info[4 * i + 1] = Line("processor", "")
           /\ info[4 * i + 2] = Line("vendor_id", computer.vendor)
           /\ info[4 * i + 3] = Line("model", computer.models[i + 1])
           /\ info[4 * i + 4] = Line("model_name", computer.vendor)
  BY IntelLines DEF DetectInv, LinesInv
<1>2. /\ p \in Nat /\ p' = p + 1 /\ p + 1 <= 4 * m /\ Head(lines) = info[p + 1]
      /\ computer' = computer
  BY <1>1, LineRead DEF DetectInv, LinesInv, ReadLine
<1>3. m \in Nat /\ MAX_CORE_COUNT \in Nat /\ coreCount \in Nat
  BY ComputersAssumption DEF DetectInv, LinesInv, CpuTypeOK, Models
<1>4. IntelInv /\ DOMAIN cores = 0..MAX_CORE_COUNT - 1
  BY DEF DetectInv, CpuTypeOK
<1> HIDE DEF p, m, info
<1>5. PICK i \in 0..m - 1 : p \in 4 * i..4 * i + 3
  <2>1. p \div 4 \in 0..m - 1 /\ p \in 4 * (p \div 4)..4 * (p \div 4) + 3
    BY <1>2, <1>3
  <2> QED
    BY <2>1
<1>6. p <= 4 * coreCount /\ 4 * coreCount < p + 4
  BY <1>4 DEF IntelInv, p
<1>a. ASSUME UNCHANGED <<cores, overrun>>, p # 4 * i + 2,
             coreCount' \in Nat, coreCount' >= coreCount,
             p' <= 4 * coreCount' /\ 4 * coreCount' < p' + 4,
             IF computer.vendor = "GenuineIntel" THEN p' >= 2 => type' = "intel" ELSE type' # "intel"
      PROVE  IntelInv'
  <2>1. \A j \in 0..MAX_CORE_COUNT - 1 : 4 * j + 3 <= p <=> 4 * j + 3 <= p'
    BY <1>2, <1>3, <1>5, <1>a
  <2>2. CASE computer.vendor = "GenuineIntel"
    <3>1. \A j \in 0..MAX_CORE_COUNT - 1 :
            cores'[j] = IF 4 * j + 3 <= p' THEN IntelType(computer.models[j + 1]) ELSE "unset"
      BY <1>4, <1>a, <2>1, <2>2 DEF IntelInv, p
    <3>2. overrun' => coreCount' > MAX_CORE_COUNT
      BY <1>3, <1>4, <1>a, <2>2 DEF IntelInv
    <3> QED
      BY <1>2, <1>a, <2>2, <3>1, <3>2 DEF IntelInv, p
  <2>3. CASE computer.vendor # "GenuineIntel"
    BY <1>2, <1>4, <1>a, <2>3 DEF IntelInv, NoneStored, p
  <2> QED
    BY <2>2, <2>3
<1>7. CASE p = 4 * i
  <2>1. Head(lines) = Line("processor", "")
    BY <1>1, <1>2, <1>7
  <2>2. coreCount' = coreCount + 1 /\ UNCHANGED <<type, cores, overrun>>
    BY <2>1, LineDoes
  <2>3. /\ coreCount' \in Nat /\ coreCount' >= coreCount
        /\ p' <= 4 * coreCount' /\ 4 * coreCount' < p' + 4 /\ p # 4 * i + 2
        /\ p' >= 2 => p >= 2
    BY <1>2, <1>3, <1>5, <1>6, <1>7, <2>2
  <2>4. IF computer.vendor = "GenuineIntel" THEN p' >= 2 => type' = "intel" ELSE type' # "intel"
    BY <1>4, <2>2, <2>3 DEF IntelInv, p
  <2> QED
    BY <1>a, <2>2, <2>3, <2>4
<1>8. CASE p = 4 * i + 1
  <2>1. Head(lines) = Line("vendor_id", computer.vendor)
    <3>1. p + 1 = 4 * i + 2
      BY <1>5, <1>8
    <3> QED
      BY <1>1, <1>2, <3>1
  <2>2. /\ coreCount' = coreCount /\ UNCHANGED <<cores, overrun>>
        /\ type' = IF computer.vendor = "GenuineIntel" THEN "intel" ELSE type
    BY <2>1, LineDoes
  <2>3. p' <= 4 * coreCount' /\ 4 * coreCount' < p' + 4 /\ p # 4 * i + 2
    BY <1>2, <1>3, <1>5, <1>6, <1>8, <2>2
  <2>4. IF computer.vendor = "GenuineIntel" THEN p' >= 2 => type' = "intel" ELSE type' # "intel"
    BY <1>4, <2>2 DEF IntelInv
  <2> QED
    BY <1>3, <1>a, <2>2, <2>3, <2>4
<1>b. CASE p = 4 * i + 3
  <2>1. Head(lines) = Line("model_name", computer.vendor)
    <3>1. p + 1 = 4 * i + 4
      BY <1>5, <1>b
    <3> QED
      BY <1>1, <1>2, <3>1
  <2>2. /\ coreCount' = coreCount /\ UNCHANGED <<cores, overrun>>
        /\ type' = IF computer.vendor = "ARMv7" THEN "arm" ELSE type
    BY <2>1, LineDoes
  <2>3. p' <= 4 * coreCount' /\ 4 * coreCount' < p' + 4 /\ p # 4 * i + 2 /\ p >= 2
    BY <1>2, <1>3, <1>5, <1>6, <1>b, <2>2
  <2>4. IF computer.vendor = "GenuineIntel" THEN p' >= 2 => type' = "intel" ELSE type' # "intel"
    BY <1>4, <2>2, <2>3 DEF IntelInv, p
  <2> QED
    BY <1>3, <1>a, <2>2, <2>3, <2>4
<1>9. CASE p = 4 * i + 2
  <2>1. Head(lines) = Line("model", computer.models[i + 1])
    <3>1. p + 1 = 4 * i + 3
      BY <1>5, <1>9
    <3> QED
      BY <1>1, <1>2, <3>1
  <2>2. /\ coreCount' = coreCount /\ type' = type
        /\ IF type = "intel" THEN StoreCore(IntelType(computer.models[i + 1]))
           ELSE UNCHANGED <<cores, overrun>>
    BY <2>1, LineDoes
  <2>3. coreCount = i + 1
    BY <1>3, <1>5, <1>6, <1>9
  <2>4. p' <= 4 * coreCount' /\ 4 * coreCount' < p' + 4
    BY <1>2, <1>3, <1>5, <1>9, <2>2, <2>3
  <2>5. CASE computer.vendor = "GenuineIntel"
    <3>1. type = "intel" /\ type' = "intel"
      BY <1>4, <1>5, <1>9, <2>2, <2>5 DEF IntelInv, p
    <3>2. \A j \in 0..MAX_CORE_COUNT - 1 : j # i => (4 * j + 3 <= p <=> 4 * j + 3 <= p')
      BY <1>2, <1>3, <1>5, <1>9
    <3>3. 4 * i + 3 <= p' /\ coreCount - 1 = i
      BY <1>2, <1>5, <1>9, <2>3
    <3>4. CASE i \in 0..MAX_CORE_COUNT - 1
      <4>1. cores' = [cores EXCEPT ![i] = IntelType(computer.models[i + 1])] /\ overrun' = overrun
        BY <1>4, <2>2, <3>1, <3>3, <3>4 DEF StoreCore
      <4>2. \A j \in 0..MAX_CORE_COUNT - 1 :
              cores'[j] = IF 4 * j + 3 <= p' THEN IntelType(computer.models[j + 1]) ELSE "unset"
        BY <1>4, <2>5, <3>2, <3>3, <3>4, <4>1 DEF IntelInv, p
      <4> QED
        BY <1>2, <1>4, <2>2, <2>4, <2>5, <3>1, <4>1, <4>2 DEF IntelInv, p
    <3>5. CASE i \notin 0..MAX_CORE_COUNT - 1
      <4>1. cores' = cores /\ overrun' /\ coreCount' > MAX_CORE_COUNT
        BY <1>3, <1>4, <1>5, <2>2, <2>3, <3>1, <3>3, <3>5 DEF StoreCore
      <4>2. \A j \in 0..MAX_CORE_COUNT - 1 :
              cores'[j] = IF 4 * j + 3 <= p' THEN IntelType(computer.models[j + 1]) ELSE "unset"
        BY <1>4, <2>5, <3>2, <3>5, <4>1 DEF IntelInv, p
      <4> QED
        BY <1>2, <2>4, <2>5, <3>1, <4>1, <4>2 DEF IntelInv, p
    <3> QED
      BY <3>4, <3>5
  <2>6. CASE computer.vendor # "GenuineIntel"
    BY <1>2, <1>4, <2>2, <2>4, <2>6 DEF IntelInv, NoneStored, p
  <2> QED
    BY <2>5, <2>6
<1> QED
  BY <1>5, <1>7, <1>8, <1>9, <1>b

LEMMA ArmStep ==
  ASSUME CpuTypeOK, DetectInv, ReadLine, computer.system = "Linux", computer.vendor = "ARM"
  PROVE  ArmInv'
<1> DEFINE p == LinesRead
           m == Models(computer)
           info == CpuInfo(computer)
<1>1. /\ IsSeq(info) /\ Len(info) = 3 * m
      /\ \A i \in 0..m - 1 :
           /\ info[3 * i + 1] = Line("processor", "")
           /\ info[3 * i + 2] = Line("model_name", "ARMv7")
           /\ info[3 * i + 3] = Line("CPU_part", computer.models[i + 1])
  BY ArmLines DEF DetectInv, LinesInv
<1>2. /\ p \in Nat /\ p' = p + 1 /\ p + 1 <= 3 * m /\ Head(lines) = info[p + 1]
      /\ computer' = computer
  BY <1>1, LineRead DEF DetectInv, LinesInv, ReadLine
<1>3. m \in Nat /\ MAX_CORE_COUNT \in Nat /\ coreCount \in Nat
  BY ComputersAssumption DEF DetectInv, LinesInv, CpuTypeOK, Models
<1>4. ArmInv /\ DOMAIN cores = 0..MAX_CORE_COUNT - 1
  BY DEF DetectInv, CpuTypeOK
<1> HIDE DEF p, m, info
<1>5. PICK i \in 0..m - 1 : p \in 3 * i..3 * i + 2
  <2>1. p \div 3 \in 0..m - 1 /\ p \in 3 * (p \div 3)..3 * (p \div 3) + 2
    BY <1>2, <1>3
  <2> QED
    BY <2>1
<1>6. p <= 3 * coreCount /\ 3 * coreCount < p + 3
  BY <1>4 DEF ArmInv, p
<1>a. ASSUME UNCHANGED <<cores, overrun>>, p # 3 * i + 2,
             coreCount' \in Nat, coreCount' >= coreCount,
             p' <= 3 * coreCount' /\ 3 * coreCount' < p' + 3,
             p' >= 2 => type' = "arm"
      PROVE  ArmInv'
  <2>1. \A j \in 0..MAX_CORE_COUNT - 1 : 3 * j + 3 <= p <=> 3 * j + 3 <= p'
    BY <1>2, <1>3, <1>5, <1>a
  <2>2. \A j \in 0..MAX_CORE_COUNT - 1 :
          cores'[j] = IF 3 * j + 3 <= p' THEN ArmType(computer.models[j + 1]) ELSE "unset"
    BY <1>4, <1>a, <2>1 DEF ArmInv, p
  <2>3. overrun' => coreCount' > MAX_CORE_COUNT
    BY <1>3, <1>4, <1>a DEF ArmInv
  <2> QED
    BY <1>2, <1>a, <2>2, <2>3 DEF ArmInv, p
<1>7. CASE p = 3 * i
  <2>1. Head(lines) = Line("processor", "")
    BY <1>1, <1>2, <1>7
  <2>2. coreCount' = coreCount + 1 /\ UNCHANGED <<type, cores, overrun>>
    BY <2>1, LineDoes
  <2>3. /\ coreCount' \in Nat /\ coreCount' >= coreCount
        /\ p' <= 3 * coreCount' /\ 3 * coreCount' < p' + 3 /\ p # 3 * i + 2
        /\ p' >= 2 => p >= 2
    BY <1>2, <1>3, <1>5, <1>6, <1>7, <2>2
  <2>4. p' >= 2 => type' = "arm"
    BY <1>4, <2>2, <2>3 DEF ArmInv, p
  <2> QED
    BY <1>a, <2>2, <2>3, <2>4
<1>8. CASE p = 3 * i + 1
  <2>1. Head(lines) = Line("model_name", "ARMv7")
    <3>1. p + 1 = 3 * i + 2
      BY <1>5, <1>8
    <3> QED
      BY <1>1, <1>2, <3>1
  <2>2. coreCount' = coreCount /\ type' = "arm" /\ UNCHANGED <<cores, overrun>>
    BY <2>1, LineDoes
  <2>3. p' <= 3 * coreCount' /\ 3 * coreCount' < p' + 3 /\ p # 3 * i + 2
    BY <1>2, <1>3, <1>5, <1>6, <1>8, <2>2
  <2> QED
    BY <1>3, <1>a, <2>2, <2>3
<1>9. CASE p = 3 * i + 2
  <2>1. Head(lines) = Line("CPU_part", computer.models[i + 1])
    <3>1. p + 1 = 3 * i + 3
      BY <1>5, <1>9
    <3> QED
      BY <1>1, <1>2, <3>1
  <2>2. type = "arm"
    BY <1>4, <1>5, <1>9 DEF ArmInv, p
  <2>3. coreCount' = coreCount /\ type' = "arm" /\ StoreCore(ArmType(computer.models[i + 1]))
    BY <2>1, <2>2, LineDoes
  <2>4. coreCount = i + 1
    BY <1>3, <1>5, <1>6, <1>9
  <2>5. p' <= 3 * coreCount' /\ 3 * coreCount' < p' + 3
    BY <1>2, <1>3, <1>5, <1>9, <2>3, <2>4
  <2>6. \A j \in 0..MAX_CORE_COUNT - 1 : j # i => (3 * j + 3 <= p <=> 3 * j + 3 <= p')
    BY <1>2, <1>3, <1>5, <1>9
  <2>7. 3 * i + 3 <= p' /\ coreCount - 1 = i
    BY <1>2, <1>5, <1>9, <2>4
  <2>8. CASE i \in 0..MAX_CORE_COUNT - 1
    <3>1. cores' = [cores EXCEPT ![i] = ArmType(computer.models[i + 1])] /\ overrun' = overrun
      BY <1>4, <2>3, <2>7, <2>8 DEF StoreCore
    <3>2. \A j \in 0..MAX_CORE_COUNT - 1 :
            cores'[j] = IF 3 * j + 3 <= p' THEN ArmType(computer.models[j + 1]) ELSE "unset"
      BY <1>4, <2>6, <2>7, <2>8, <3>1 DEF ArmInv, p
    <3> QED
      BY <1>2, <1>4, <2>3, <2>5, <3>1, <3>2 DEF ArmInv, p
  <2>9. CASE i \notin 0..MAX_CORE_COUNT - 1
    <3>1. cores' = cores /\ overrun' /\ coreCount' > MAX_CORE_COUNT
      BY <1>3, <1>4, <1>5, <2>3, <2>4, <2>7, <2>9 DEF StoreCore
    <3>2. \A j \in 0..MAX_CORE_COUNT - 1 :
            cores'[j] = IF 3 * j + 3 <= p' THEN ArmType(computer.models[j + 1]) ELSE "unset"
      BY <1>4, <2>6, <2>9, <3>1 DEF ArmInv, p
    <3> QED
      BY <1>2, <2>3, <2>5, <3>1, <3>2 DEF ArmInv, p
  <2> QED
    BY <2>8, <2>9
<1> QED
  BY <1>5, <1>7, <1>8, <1>9

LEMMA OldArmStep ==
  ASSUME CpuTypeOK, DetectInv, ReadLine, computer.system = "Linux", computer.vendor = "old_ARM"
  PROVE  OldArmInv'
<1> DEFINE p == LinesRead
           m == Models(computer)
           info == CpuInfo(computer)
<1>1. /\ IsSeq(info) /\ Len(info) = m + 1
      /\ \A k \in 1..m : info[k] = Line("processor", "")
      /\ info[m + 1] = Line("CPU_part", computer.models[1])
  BY OldLines DEF DetectInv, LinesInv
<1>2. /\ p \in Nat /\ p' = p + 1 /\ p + 1 <= m + 1 /\ Head(lines) = info[p + 1]
      /\ computer' = computer /\ m' = m
  BY <1>1, LineRead DEF DetectInv, LinesInv, ReadLine
<1>3. m \in Nat
  BY ComputersAssumption DEF DetectInv, LinesInv, Models
<1>4. OldArmInv
  BY DEF DetectInv
<1> HIDE DEF p, m, info
<1>5. coreCount = p /\ type = "unknown" /\ NoneStored
  BY <1>2, <1>3, <1>4 DEF OldArmInv, p, m
<1>6. CASE p < m
  <2>1. Head(lines) = Line("processor", "")
    <3>1. p + 1 \in 1..m
      BY <1>2, <1>3, <1>6
    <3> QED
      BY <1>1, <1>2, <3>1
  <2>2. coreCount' = p' /\ p' <= m /\ UNCHANGED <<type, cores, overrun>>
    <3>1. coreCount' = coreCount + 1 /\ UNCHANGED <<type, cores, overrun>>
      BY <2>1, LineDoes
    <3> QED
      BY <1>2, <1>3, <1>5, <1>6, <3>1
  <2> QED
    BY <1>2, <1>5, <2>2 DEF OldArmInv, NoneStored, p, m
<1>7. CASE p = m
  <2>1. Head(lines) = Line("CPU_part", computer.models[1])
    BY <1>1, <1>2, <1>7
  <2>2. coreCount' = m /\ ~(p' <= m) /\ UNCHANGED <<type, cores, overrun>>
    BY <1>2, <1>3, <1>5, <1>7, <2>1, LineDoes
  <2> QED
    BY <1>2, <1>5, <2>2 DEF OldArmInv, NoneStored, p, m
<1> QED
  BY <1>2, <1>3, <1>6, <1>7

LEMMA ReadStep == CpuTypeOK /\ DetectInv /\ ReadLine => DetectInv'
<1> SUFFICES ASSUME CpuTypeOK, DetectInv, ReadLine PROVE DetectInv'
  OBVIOUS
<1>1. computer' = computer /\ lines # <<>>
  BY DEF ReadLine
<1>2. computer.system = "Linux" /\ computer \in Computers
  BY <1>1 DEF DetectInv, LinesInv
<1>3. IsSeq(CpuInfo(computer))
  BY <1>2, ArmLines, OldLines, IntelLines
<1>4. LinesInv'
  BY <1>3, LineRead DEF DetectInv
<1>5. CASE computer.vendor = "ARM"
  BY <1>1, <1>2, <1>4, <1>5, ArmStep DEF DetectInv
<1>6. CASE computer.vendor = "old_ARM"
  BY <1>1, <1>2, <1>4, <1>6, OldArmStep DEF DetectInv
<1>7. CASE computer.vendor \notin {"ARM", "old_ARM"}
  BY <1>1, <1>2, <1>4, <1>7, IntelStep DEF DetectInv
<1> QED
  BY <1>5, <1>6, <1>7

LEMMA DetectInitially == CpuInit => DetectInv
<1> SUFFICES ASSUME CpuInit PROVE DetectInv
  OBVIOUS
<1> DEFINE info == CpuInfo(computer)
<1>1. /\ computer \in Computers /\ lines = info /\ type = "unknown" /\ coreCount = 0
      /\ NoneStored
  BY DEF CpuInit, NoneStored
<1>2. Models(computer) \in Nat \ {0} /\ MAX_CORE_COUNT \in Nat
  BY <1>1, ComputersAssumption DEF Models
<1>3. IsSeq(info) /\ (computer.system # "Linux" => info = <<>>)
  <2>1. CASE computer.system = "Linux"
    BY <1>1, <2>1, ArmLines, OldLines, IntelLines
  <2>2. CASE computer.system # "Linux"
    <3>1. info = <<>>
      BY <2>2 DEF CpuInfo
    <3>2. <<>> \in Seq({})
      OBVIOUS
    <3> QED
      BY <2>2, <3>1, <3>2 DEF IsSeq
  <2> QED
    BY <2>1, <2>2
<1>4. Len(info) \in Nat
  BY <1>3, LenProperties DEF IsSeq
<1>5. LinesRead = 0
  BY <1>1, <1>4 DEF LinesRead
<1> HIDE DEF info
<1>6. LinesInv
  BY <1>1, <1>3, <1>5 DEF LinesInv, info
<1>7. ArmInv /\ OldArmInv /\ IntelInv
  BY <1>1, <1>2, <1>5 DEF ArmInv, OldArmInv, IntelInv, NoneStored
<1> QED
  BY <1>1, <1>3, <1>6, <1>7 DEF DetectInv

\* What the constructor makes of it.
LEMMA Counted == CpuTypeOK /\ DetectInv /\ CountCores => CoresKnown'
<1> SUFFICES ASSUME CpuTypeOK, DetectInv, CountCores PROVE CoresKnown'
  OBVIOUS
<1> DEFINE models == computer.models
<1>1. /\ lines = <<>> /\ UNCHANGED <<computer, coreCount, cores, overrun>>
      /\ powerCoreCount' \in
            CASE ~Detected -> {0}
              [] Detected /\ cores[0] = "unset" -> {1, coreCount}
              [] OTHER -> {IF cores[0] \in PerCore THEN coreCount ELSE 1}
  BY DEF CountCores
<1>2. /\ Len(models) \in Nat \ {0} /\ MAX_CORE_COUNT \in Nat \ {0} /\ coreCount \in Nat
      /\ computer.vendor = "ARM" => \A i \in 1..Len(models) : models[i] \notin Known
      /\ DOMAIN cores = 0..MAX_CORE_COUNT - 1
  BY ComputersAssumption DEF DetectInv, LinesInv, CpuTypeOK
<1>3. LinesRead = Len(CpuInfo(computer)) /\ computer \in Computers
  <2>1. PICK S : CpuInfo(computer) \in Seq(S) \/ computer.system # "Linux"
    BY ArmLines, OldLines, IntelLines DEF DetectInv, LinesInv, IsSeq
  <2>2. computer.system # "Linux" => Len(CpuInfo(computer)) = 0
    BY DEF CpuInfo
  <2>3. Len(CpuInfo(computer)) \in Nat /\ Len(lines) = 0
    BY <1>1, <2>1, <2>2, LenProperties, EmptySeq
  <2> QED
    BY <2>3 DEF LinesRead, DetectInv, LinesInv
<1>4. CpuUndefined' <=> CpuUndefined
  BY <1>1 DEF CpuUndefined
<1>5. Detected <=> computer.system = "other" \/ coreCount > 0
  BY DEF Detected
<1>6. 0 \in 0..MAX_CORE_COUNT - 1
  BY <1>2
<1>7. CASE computer.system # "Linux"
  <2>1. coreCount = 0 /\ NoneStored /\ ~CpuUndefined
    BY <1>2, <1>7 DEF DetectInv, NoneStored, CpuUndefined
  <2>2. cores[0] = "unset"
    BY <1>6, <2>1 DEF NoneStored
  <2>3. powerCoreCount' = 0 <=> ~Detected \/ (computer.system = "other" /\ powerCoreCount' # 1)
    BY <1>1, <1>5, <2>1, <2>2
  <2> QED
    BY <1>1, <1>4, <1>7, <2>1, <2>3 DEF CoresKnown, Detected, NoneStored
<1>8. CASE computer.system = "Linux"
  <2>a. computer.vendor = "ARM" => LinesRead = 3 * Len(models) /\ ArmInv
    BY <1>3, <1>8, ArmLines DEF DetectInv, Models
  <2>b. computer.vendor = "old_ARM" => LinesRead = Len(models) + 1 /\ OldArmInv
    BY <1>3, <1>8, OldLines DEF DetectInv, Models
  <2>c. computer.vendor \notin {"ARM", "old_ARM"} => LinesRead = 4 * Len(models) /\ IntelInv
    BY <1>3, <1>8, IntelLines DEF DetectInv, Models
  <2>1. coreCount = Len(models)
    <3>1. CASE computer.vendor = "ARM"
      BY <1>2, <2>a, <3>1 DEF ArmInv
    <3>2. CASE computer.vendor = "old_ARM"
      BY <1>2, <2>b, <3>2 DEF OldArmInv, Models
    <3>3. CASE computer.vendor \notin {"ARM", "old_ARM"}
      BY <1>2, <2>c, <3>3 DEF IntelInv
    <3> QED
      BY <3>1, <3>2, <3>3
  <2>2. Detected /\ computer.system # "other"
    BY <1>2, <1>5, <1>8, <2>1
  <2>3. powerCoreCount' # 0
    BY <1>1, <1>2, <2>1, <2>2
  <2>4. overrun => coreCount > MAX_CORE_COUNT
    BY <2>a, <2>b, <2>c DEF ArmInv, OldArmInv, IntelInv, NoneStored
  <2> DEFINE Type(i) == IF computer.vendor = "ARM" THEN ArmType(models[i]) ELSE IntelType(models[i])
  <2>5. ASSUME computer.vendor \in {"GenuineIntel", "ARM"}, NEW i \in 0..MAX_CORE_COUNT - 1,
               i < coreCount
        PROVE  cores[i] = Type(i + 1)
    <3>1. CASE computer.vendor = "ARM"
      <4>1. 3 * i + 3 <= LinesRead
        BY <1>2, <2>a, <2>1, <2>5, <3>1
      <4> QED
        BY <2>a, <2>5, <3>1, <4>1 DEF ArmInv
    <3>2. CASE computer.vendor = "GenuineIntel"
      <4>1. 4 * i + 3 <= LinesRead
        BY <1>2, <2>c, <2>1, <2>5, <3>2
      <4> QED
        BY <2>c, <2>5, <3>2, <4>1 DEF IntelInv
    <3> QED
      BY <2>5, <3>1, <3>2
  <2>6. CpuUndefined => coreCount > MAX_CORE_COUNT \/ computer.vendor \notin {"GenuineIntel", "ARM"}
    <3>1. \A i : Type(i) # "unset"
      BY DEF ArmType, IntelType, Known, PerCore
    <3> QED
      BY <1>2, <2>4, <2>5, <3>1 DEF CpuUndefined
  <2>7. ASSUME ~CpuUndefined
        PROVE  /\ \A i \in 1..Len(models) : cores[i - 1] = Type(i)
               /\ powerCoreCount' = IF models[1] \in PerCore THEN Len(models) ELSE 1
    <3>1. coreCount <= MAX_CORE_COUNT /\ cores[0] # "unset"
      BY <1>2, <1>6, <2>1, <2>7 DEF CpuUndefined
    <3>2. computer.vendor \in {"GenuineIntel", "ARM"}
      BY <1>6, <2>b, <2>c, <3>1 DEF OldArmInv, IntelInv, NoneStored
    <3>3. ASSUME NEW i \in 1..Len(models) PROVE cores[i - 1] = Type(i)
      <4>1. i - 1 \in 0..MAX_CORE_COUNT - 1 /\ i - 1 < coreCount /\ (i - 1) + 1 = i
        BY <1>2, <2>1, <3>1
      <4> QED
        BY <2>5, <3>2, <4>1
    <3>4. cores[0] \in PerCore <=> models[1] \in PerCore
      <4>1. cores[0] = Type(1) /\ 1 \in 1..Len(models)
        BY <1>2, <3>3
      <4> QED
        BY <1>2, <4>1 DEF ArmType, IntelType, Known, PerCore
    <3>5. powerCoreCount' = IF cores[0] \in PerCore THEN coreCount ELSE 1
      BY <1>1, <2>2, <3>1
    <3> QED
      BY <2>1, <3>3, <3>4, <3>5
  <2> QED
    BY <1>1, <1>4, <1>8, <2>1, <2>2, <2>3, <2>4, <2>6, <2>7 DEF CoresKnown, Detected
<1> QED
  BY <1>7, <1>8

LEMMA CoresStep == CpuTypeOK /\ CoresInv /\ [ProgramNext]_programVars => CoresInv'
<1> SUFFICES ASSUME CpuTypeOK, CoresInv, [ProgramNext]_programVars PROVE CoresInv'
  OBVIOUS
<1>1. CASE NewCpu
  <2>1. stage = "cpu" /\ DetectInv
    BY <1>1 DEF NewCpu, CoresInv
  <2>2. CASE ReadLine /\ UNCHANGED stage
    BY <2>1, <2>2, ReadStep DEF CoresInv, CoresKnown
  <2>3. CASE CountCores /\ stage' = "gpu"
    BY <2>1, <2>3, Counted DEF CoresInv
  <2> QED
    BY <1>1, <2>2, <2>3 DEF NewCpu
<1>2. CASE NewGpu \/ Option \/ LeaveOptions \/ Query \/ NewApp \/ DeleteApp \/ DeletePower
            \/ DeleteAll
  BY <1>2 DEF NewGpu, Option, LeaveOptions, Query, NewApp, DeleteApp, DeletePower, DeleteAll,
     CoresInv, CoresKnown
<1>3. CASE Run
  BY <1>3 DEF Run, RunStep, Step, CoresInv, CoresKnown
<1>4. CASE UNCHANGED programVars
  <2>1. UNCHANGED cpuVars /\ stage' = stage
    BY <1>4 DEF programVars, mainVars
  <2>2. (DetectInv' <=> DetectInv) /\ (CoresKnown' <=> CoresKnown)
    BY <2>1 DEF cpuVars, DetectInv, LinesInv, LinesRead, ArmInv, OldArmInv, IntelInv, NoneStored,
       CoresKnown, Detected, CpuUndefined
  <2> QED
    BY <2>1, <2>2 DEF CoresInv
<1> QED
  BY <1>1, <1>2, <1>3, <1>4 DEF ProgramNext, Ended

-----------------------------------------------------------------------------
(* Which handle is live when.                                              *)

LEMMA HandleStep ==
  BenchInv /\ StageInv /\ GpuTypeOK /\ HandleInv /\ [ProgramNext]_programVars => HandleInv'
<1> SUFFICES ASSUME BenchInv, StageInv, GpuTypeOK, HandleInv, [ProgramNext]_programVars PROVE HandleInv'
  OBVIOUS
<1> USE DEF HandleInv, Opened, Platform, Loading, Handles
<1>0. conf'.gpu = conf.gpu /\ conf.gpu \in {"not_built", "disabled", "unloaded", "enabled"}
  BY StepOfRun, MachineKept DEF StageInv, Configurations
<1>1. CASE NewCpu
  BY <1>1, <1>0 DEF NewCpu, gpuVars
<1>2. CASE NewGpu
  <2>0. stage = "gpu" /\ stage' = "options" /\ loaded' = loaded /\ UNCHANGED conf
    BY <1>2 DEF NewGpu, NotBuilt, PlatformMissing, PlatformFound, vars
  <2>1. CASE conf.gpu = "not_built"
    <3>1. NotBuilt
      BY <1>2, <2>1 DEF NewGpu
    <3>2. QED
      BY <1>0, <2>0, <2>1, <3>1 DEF NotBuilt, Set
  <2>2. CASE conf.gpu = "disabled"
    <3>1. PlatformMissing
      BY <1>2, <2>2 DEF NewGpu
    <3>2. QED
      BY <1>0, <2>0, <2>2, <3>1 DEF PlatformMissing, Set
  <2>3. CASE conf.gpu \in {"unloaded", "enabled"}
    <3>1. PlatformFound
      BY <1>2, <2>3 DEF NewGpu
    <3>2. QED
      BY <1>0, <2>0, <2>3, <3>1 DEF PlatformFound, Set
  <2>4. QED
    BY <1>0, <2>1, <2>2, <2>3
<1>3. CASE Option \/ LeaveOptions \/ Query \/ DeletePower
  <2>1. UNCHANGED <<handle, enabled, loaded>> /\ stage # "run" /\ stage' # "run" /\ stage' # "done"
    BY <1>3 DEF Option, LeaveOptions, Query, DeletePower, PlatformQuery, gpuVars
  <2>2. stage \in Opened /\ (stage' \in Opened)
    BY <1>3 DEF Option, LeaveOptions, Query, DeletePower
  <2>3. QED
    BY <1>0, <2>1, <2>2
<1>4. CASE NewApp
  <2>0. stage = "app" /\ stage' = "run" /\ enabled' = enabled
    BY <1>4 DEF NewApp, LoadGPUKernel
  <2>1. CASE conf.gpu = "unloaded"
    <3>1. enabled /\ (NoProgram \/ NoQueue)
      BY <1>4, <2>0, <2>1 DEF NewApp, LoadGPUKernel
    <3>2. /\ \A h \in Handles \ {"program"} : handle'[h] = handle[h]
          /\ handle'["program"] # "live" /\ loaded' = loaded
      BY <2>0, <3>1 DEF NoProgram, NoQueue, Set
    <3>3. QED
      BY <1>0, <2>0, <2>1, <3>1, <3>2
  <2>2. CASE conf.gpu = "enabled"
    <3>1. enabled /\ Kernels
      BY <1>4, <2>0, <2>2 DEF NewApp, LoadGPUKernel
    <3>2. QED
      BY <1>0, <2>0, <2>2, <3>1 DEF Kernels, Set
  <2>3. CASE conf.gpu \in {"not_built", "disabled"}
    <3>1. UNCHANGED <<handle, loaded>>
      BY <1>4, <2>0, <2>3 DEF NewApp, LoadGPUKernel
    <3>2. QED
      BY <1>0, <2>0, <2>3, <3>1
  <2>4. QED
    BY <1>0, <2>1, <2>2, <2>3
<1>5. CASE Run
  BY <1>0, <1>5, StepUses
<1>6. CASE DeleteApp
  <2>1. stage = "run" /\ stage' = "unload" /\ UNCHANGED <<enabled, loaded>>
    BY <1>6 DEF DeleteApp, UnLoadGPUKernel
  <2>2. /\ \A h \in Handles \ Loading : handle'[h] = handle[h]
        /\ \A h \in Loading : handle'[h] # "live"
    BY <1>6, <2>1 DEF DeleteApp, UnLoadGPUKernel, Set
  <2>3. QED
    BY <1>0, <2>1, <2>2
<1>7. CASE DeleteAll
  BY <1>0, <1>7 DEF DeleteAll, DeleteGpu, Set
<1>8. CASE UNCHANGED programVars
  BY <1>0, <1>8 DEF programVars, gpuVars, mainVars
<1>9. QED
  BY <1>1, <1>2, <1>3, <1>4, <1>5, <1>6, <1>7, <1>8 DEF ProgramNext, Ended

-----------------------------------------------------------------------------
(* How the handles are used.                                               *)

\* The uses HandlesValid admits.
Admitted(hs) ==
  \A h \in hs :
    \/ handle[h] = "live"
    \/ conf.gpu = "unloaded" /\ h \in Loading
    \/ conf.gpu = "disabled" /\ h # "gpu" /\ (h = "queue" => conf.build = "arm")

LEMMA AdmittedUse ==
  ASSUME HandlesValid, NEW hs, Admitted(hs), Use(hs),
         conf'.gpu = conf.gpu, conf'.build = conf.build
  PROVE  HandlesValid'
<1>1. \A h \in misused' : h \in misused \/ (h \in hs /\ handle[h] # "live")
  BY DEF Use
<1>2. conf.gpu = "unloaded" => misused' \subseteq Loading
  BY <1>1 DEF Admitted, HandlesValid, Loading
<1>3. misused' # {} => conf.gpu \in {"disabled", "unloaded"}
  BY <1>1 DEF Admitted, HandlesValid
<1>4. "gpu" \notin misused'
  BY <1>1 DEF Admitted, HandlesValid, Loading
<1>5. conf.gpu = "disabled" /\ conf.build # "arm" => "queue" \notin misused'
  BY <1>1 DEF Admitted, HandlesValid
<1>6. QED
  BY <1>2, <1>3, <1>4, <1>5 DEF HandlesValid, Loading

\* The objects, and the functions of the GPU.
LEMMA RunUses ==
  ASSUME BenchInv, HandleInv, Run
  PROVE  \E hs : Use(hs) /\ Admitted(hs)
<1> USE DEF HandleInv, Opened, Platform, Loading, Handles
<1>1. stage = "run" /\ conf.gpu \in {"not_built", "disabled", "unloaded", "enabled"}
  BY StepUses DEF BenchInv, TypeInv, TypeOK, Configurations
<1>2. Admitted(Construct) /\ Admitted(Kernel) /\ Admitted(Destruct)
  BY <1>1 DEF Admitted, Construct, Kernel, Destruct, Mapping, Built
<1>3. Admitted(Compute)
  BY <1>1 DEF Admitted, Compute, Built
<1>4. Admitted({}) /\ Admitted(Compute \cup Destruct)
  BY <1>2, <1>3 DEF Admitted
<1>5. QED
  BY <1>2, <1>3, <1>4, StepUses

LEMMA ValidStep ==
  BenchInv /\ StageInv /\ HandleInv /\ HandlesValid /\ [ProgramNext]_programVars => HandlesValid'
<1> SUFFICES ASSUME BenchInv, StageInv, HandleInv, HandlesValid, [ProgramNext]_programVars PROVE HandlesValid'
  OBVIOUS
<1> USE DEF HandleInv, Opened, Platform, Loading, Handles
<1>0. /\ conf'.gpu = conf.gpu /\ conf'.build = conf.build
      /\ conf.gpu \in {"not_built", "disabled", "unloaded", "enabled"}
  BY StepOfRun, MachineKept DEF StageInv, Configurations
<1>1. CASE NewCpu \/ NewGpu \/ Option \/ LeaveOptions \/ DeletePower \/ UNCHANGED programVars
  <2>1. misused' = misused
    BY <1>1 DEF NewCpu, NewGpu, NotBuilt, PlatformMissing, PlatformFound, Option, LeaveOptions,
       DeletePower, gpuVars, programVars
  <2>2. QED
    BY <1>0, <2>1 DEF HandlesValid
<1>2. CASE Query
  <2>1. CASE Built
    <3>1. PICK arrays \in SUBSET {"platforms", "devices"} :
            (enabled => arrays = {"platforms", "devices"}) /\ Use(arrays)
      BY <1>2, <2>1 DEF Query, PlatformQuery
    <3>2. Admitted(arrays)
      BY <1>0, <1>2, <2>1, <3>1 DEF Query, Admitted, Built
    <3>3. QED
      BY <1>0, <3>1, <3>2, AdmittedUse
  <2>2. CASE ~Built
    BY <1>0, <1>2, <2>2 DEF Query, gpuVars, HandlesValid
  <2>3. QED
    BY <2>1, <2>2
<1>3. CASE NewApp
  <2>1. PICK hs \in {{"gpu", "devices", "context"}, {"gpu"}} :
          Use(hs) /\ (hs # {"gpu"} => enabled)
    BY <1>3 DEF NewApp, LoadGPUKernel
  <2>2. Admitted(hs)
    BY <1>0, <1>3, <2>1 DEF NewApp, Admitted
  <2>3. QED
    BY <1>0, <2>1, <2>2, AdmittedUse
<1>4. CASE Run
  BY <1>0, <1>4, RunUses, AdmittedUse
<1>5. CASE DeleteApp
  <2>1. PICK hs \in {{"gpu", "program", "queue"}, {}} : Use(hs) /\ (hs # {} => loaded)
    BY <1>5 DEF DeleteApp, UnLoadGPUKernel
  <2>2. Admitted(hs)
    BY <1>0, <1>5, <2>1 DEF DeleteApp, Admitted
  <2>3. QED
    BY <1>0, <2>1, <2>2, AdmittedUse
<1>6. CASE DeleteAll
  <2>1. PICK hs \in {{"gpu", "platforms", "devices", "context"}, {"gpu"}} :
          Use(hs) /\ (hs # {"gpu"} => enabled)
    BY <1>6 DEF DeleteAll, DeleteGpu
  <2>2. Admitted(hs)
    BY <1>0, <1>6, <2>1 DEF DeleteAll, Admitted
  <2>3. QED
    BY <1>0, <2>1, <2>2, AdmittedUse
<1>7. QED
  BY <1>1, <1>2, <1>3, <1>4, <1>5, <1>6 DEF ProgramNext, Ended

-----------------------------------------------------------------------------
(* The program.                                                            *)

\* Every reachable state satisfies the invariant.
THEOREM Invariant == ProgramSpec => []ProgramInv
<1>1. ProgramInit => ProgramInv
  <2> SUFFICES ASSUME ProgramInit PROVE ProgramInv
    OBVIOUS
  <2>1. BenchInv /\ pc = "main"
    BY BenchInit DEF ProgramInit, Init
  <2>2. StageInv
    BY <2>1, NoOptionsType DEF ProgramInit, StageInv
  <2>3. GpuTypeOK /\ HandleInv /\ HandlesValid
    BY DEF ProgramInit, GpuInit, GpuTypeOK, HandleInv, HandlesValid, Opened, Loading, Handles
  <2>4. CpuTypeOK
    BY DEF ProgramInit, CpuInit, CpuTypeOK
  <2>5. CoresInv
    BY DetectInitially DEF ProgramInit, CoresInv, CoresKnown
  <2>6. QED
    BY <2>1, <2>2, <2>3, <2>4, <2>5 DEF ProgramInv
<1>2. ProgramInv /\ [ProgramNext]_programVars => ProgramInv'
  <2> SUFFICES ASSUME ProgramInv, [ProgramNext]_programVars PROVE ProgramInv'
    OBVIOUS
  <2>1. BenchInv'
    BY StepOfRun, BenchKept DEF ProgramInv, StageInv
  <2>2. QED
    BY <2>1, StageStep, GpuTypeStep, CpuTypeStep, CoresStep, HandleStep, ValidStep
       DEF ProgramInv
<1>3. QED
  BY <1>1, <1>2, PTL DEF ProgramSpec

\* Every variable stays in its type, whatever the options and the files are.
THEOREM Types == ProgramSpec => []ProgramTypeOK
<1>1. ProgramInv => ProgramTypeOK
  BY DEF ProgramInv, BenchInv, TypeInv, StageInv, Settings, ProgramTypeOK
<1>2. QED
  BY <1>1, Invariant, PTL

\* calculate indexes the table of functions within its bounds, but for a negative number,
\* and never checks a mode with itself, but for mode 0.
THEOREM ModesInTable == ProgramSpec => []ModeInTable
<1>1. ProgramInv => ModeInTable
  <2> SUFFICES ASSUME ProgramInv PROVE ModeInTable
    OBVIOUS
  <2> USE DEF ProgramInv, BenchInv
  <2>1. /\ conf \in Configurations /\ role \in {"single", "sanity", "sequence"}
        /\ calc.mode \in Int /\ last \in Int
    BY DEF TypeInv, TypeOK
  <2>2. /\ ModeRange(conf)[1] \in 0..ModeRange(conf)[2] /\ ModeRange(conf)[2] \in 0..ModeMax(conf)
        /\ ModeMax(conf) \in Int
    BY <2>1, Tables
  <2>3. ASSUME pc \in {"begin", "repeat"} PROVE calc.mode < ModeMax(conf)
    <3>1. CASE role = "single"
      BY <2>3, <3>1 DEF RoleInv, ModesInv, Calculating
    <3>2. CASE role = "sanity"
      BY <2>3, <3>2 DEF RoleInv, ModesInv, Calculating
    <3>3. CASE role = "sequence"
      BY <2>1, <2>2, <2>3, <3>3 DEF RoleInv, Calculating
    <3>4. QED
      BY <2>1, <3>1, <3>2, <3>3
  <2>4. ASSUME pc = "begin", calc.mode < 0
        PROVE  role # "sequence" /\ calc.mode \in {conf.mode, conf.sanity}
    BY <2>1, <2>2, <2>4 DEF RoleInv, Calculating
  <2>5. role = "sanity" => calc.mode # conf.mode \/ conf.mode = 0
    BY DEF RoleInv, ModesInv
  <2>6. QED
    BY <2>3, <2>4, <2>5 DEF ModeInTable
<1>2. QED
  BY <1>1, Invariant, PTL

\* A sequence goes through all modes of its range, also when functions fail on the way.
THEOREM SequencesComplete == ProgramSpec => []SequenceComplete
<1>1. ProgramInv => SequenceComplete
  BY DEF ProgramInv, BenchInv, TriedInv, Busy, SequenceComplete
<1>2. QED
  BY <1>1, Invariant, PTL

\* The average is over the executions that were timed, and the times printed were stored.
THEOREM TimesReported == ProgramSpec => []ReportedTimes
<1>1. ProgramInv => ReportedTimes
  <2> SUFFICES ASSUME ProgramInv, pc = "report" PROVE
                 /\ Divisor = calc.timed /\ Divisor > 0
                 /\ Printed \subseteq calc.stamps
    BY DEF ReportedTimes
  <2> USE DEF ProgramInv, BenchInv
  <2>1. /\ calc.repeat \in Nat /\ calc.repeat > 0 /\ calc.i = calc.repeat
        /\ calc.timed = IF calc.repeat > 1 /\ calc.i > 0 THEN calc.i - 1 ELSE calc.i
        /\ conf.time /\ calc.repeat > 1
             => {k \in 1..calc.i - 1 : k < MaxTimes} \subseteq calc.stamps
    BY DEF TypeInv, Calcs, TimesInv
  <2>2. Divisor = calc.timed /\ Divisor > 0
    BY <2>1 DEF Divisor
  <2>3. Printed \subseteq calc.stamps
    BY <2>1 DEF Printed
  <2>4. QED
    BY <2>2, <2>3
<1>2. QED
  BY <1>1, Invariant, PTL

\* A sanity check fails for the three reasons there are, and for no other.
THEOREM FailuresExplained == ProgramSpec => []FailureExplained
<1>1. ProgramInv => FailureExplained
  BY DEF ProgramInv, BenchInv, ResultsInv
<1>2. QED
  BY <1>1, Invariant, PTL

\* A computer whose cores the array holds, and whose vendor the program knows, has the type
\* of each core found, and the meters look at as many cores as they should.
THEOREM CoresDetected == ProgramSpec => []CoresKnown
<1>1. ProgramInv => CoresKnown
  BY DEF ProgramInv, CoresInv
<1>2. QED
  BY <1>1, Invariant, PTL

\* No handle is used that is not live, except those OpenCL refused.
THEOREM HandlesUsed == ProgramSpec => []HandlesValid
<1>1. ProgramInv => HandlesValid
  BY DEF ProgramInv
<1>2. QED
  BY <1>1, Invariant, PTL

\* Whatever path main took, what it made is gone at its end.
THEOREM Released == ProgramSpec => []ReleasedAtExit
<1>1. ProgramInv => ReleasedAtExit
  BY DEF ProgramInv, BenchInv, StageInv, HandleInv, LiveInv, OpenInv, Busy, Calculating,
     ReleasedAtExit
<1>2. QED
  BY <1>1, Invariant, PTL

\* As long as no function has failed the run calls the meter as power.h expects.
THEOREM MeterUse == ProgramSpec => MeterPaired
<1>1. ProgramInv /\ [ProgramNext]_programVars => [failed' \/ Meter!Next]_meterVars
  <2> SUFFICES ASSUME ProgramInv, ProgramNext PROVE failed' \/ Meter!Next \/ UNCHANGED meterVars
    BY DEF programVars, vars, meterVars
  <2>1. BenchStep /\ OpenInv
    BY StepOfRun DEF ProgramInv, BenchInv, StageInv
  <2> USE DEF meterVars, calcVars
  <2>2. CASE Begin
    BY <2>1, <2>2 DEF Begin, OpenInv, Meter!Next, Meter!Begin, Meter!Reset
  <2>3. CASE Execute
    BY <2>3 DEF Execute, Meter!Next, Meter!Sample
  <2>4. CASE Measured
    <3>1. measuring \in BOOLEAN
      BY DEF ProgramInv, BenchInv, TypeInv, TypeOK
    <3>2. CASE measuring
      BY <2>4, <3>2 DEF Measured, Meter!Next, Meter!End
    <3>3. CASE ~measuring
      <4>1. measuring = FALSE
        BY <3>1, <3>3
      <4>2. reported' = 0 /\ energy' = energy /\ measuring' = measuring
        BY <2>4, <3>3, <4>1 DEF Measured
      <4>3. QED
        BY <3>3, <4>2 DEF Meter!Next, Meter!EndUnopened
    <3>4. QED
      BY <3>2, <3>3
  <2>5. CASE (\E o \in Settings : SetModes(o)) \/ Create \/ NoLog \/ NoDirectory \/ OutOfMemory
              \/ BeforeTable \/ Start \/ EndRun \/ LoadFails \/ Skip \/ Load \/ Free
    BY <2>5 DEF SetModes, Create, NoLog, NoDirectory, OutOfMemory, BeforeTable, Start, EndRun,
       LoadFails, Return, Skip, Load, Free
  <2>6. CASE Fail \/ Report \/ CheckNext \/ KeepSingle \/ Compare \/ NextMode \/ UNCHANGED vars
    BY <2>6 DEF Fail, Report, CheckNext, KeepSingle, Compare, NextMode, vars
  <2>7. QED
    BY <2>1, <2>2, <2>3, <2>4, <2>5, <2>6 DEF BenchStep
<1>2. QED
  BY <1>1, Invariant, PTL DEF ProgramSpec, MeterPaired
=============================================================================
