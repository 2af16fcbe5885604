----------------------------------- MODULE Cpu ---------------------------------
(***************************************************************************)
(* The class CPU (cpu.cpp): /proc/cpuinfo is read line by line, and the    *)
(* type of each core stored.  How many cores the msr and perf meters look  *)
(* at depends on it.                                                       *)
(*                                                                         *)
(* The array of cores has a fixed size, which nothing checks, and is not   *)
(* initialised.                                                            *)
(***************************************************************************)
EXTENDS Integers, Sequences

CONSTANTS
  MAX_CORE_COUNT,  \* 16 in the code
  Computers        \* what the program may run on: [system, vendor, models], where
                   \* models has one model, or part, for each processor

VARIABLES
  computer,        \* the one it runs on
  lines,           \* the lines of /proc/cpuinfo still to be read
  type,            \* CPU::type
  coreCount, powerCoreCount,
  cores,           \* CPU::cores
  overrun          \* a core was stored outside of the array

cpuVars == <<computer, lines, type, coreCount, powerCoreCount, cores, overrun>>

\* What the kernel says of a processor; older ARM kernels name the type once, in
\* a line the program does not look at, and one part at the end.
Line(k, v) == [key |-> k, value |-> v]
Block(vendor, model) ==
  CASE vendor = "ARM" -> <<Line("processor", ""), Line("model_name", "ARMv7"), Line("CPU_part", model)>>
    [] vendor = "old_ARM" -> <<Line("processor", "")>>
    [] OTHER -> <<Line("processor", ""), Line("vendor_id", vendor), Line("model", model),
                  Line("model_name", vendor)>>
\* One after the other, for each processor.
CpuInfo(c) ==
  LET size == Len(Block(c.vendor, c.models[1]))
      all  == [k \in 1..size * Len(c.models) |->
                 Block(c.vendor, c.models[((k - 1) \div size) + 1])[((k - 1) % size) + 1]]
  IN CASE c.system # "Linux" -> <<>>
       [] c.system = "Linux" /\ c.vendor = "old_ARM" -> all \o <<Line("CPU_part", c.models[1])>>
       [] OTHER -> all

\* The models the program knows
PerCore == {"HASWELL", "HASWELL_EP", "BROADWELL"}
Known == PerCore \cup {"SANDYBRIDGE", "SANDYBRIDGE_EP", "IVYBRIDGE", "IVYBRIDGE_EP"}

\* A computer has a processor; and ARM's parts are no models of Intel's.
ASSUME ComputersAssumption ==
  /\ MAX_CORE_COUNT \in Nat \ {0}
  /\ \A c \in Computers :
       /\ Len(c.models) \in Nat \ {0}
       /\ c.vendor = "ARM" => \A i \in 1..Len(c.models) : c.models[i] \notin Known

CoreTypes == Known \cup {"UNKNOWN", "A15", "A7"}

CpuTypeOK ==
  /\ computer \in Computers
  /\ type \in {"unknown", "intel", "arm"}
  /\ coreCount \in Nat /\ powerCoreCount \in Nat
  /\ cores \in [0..MAX_CORE_COUNT - 1 -> CoreTypes \cup {"unset"}]
  /\ overrun \in BOOLEAN

CpuInit ==
  /\ computer \in Computers
  /\ lines = CpuInfo(computer)
  /\ type = "unknown"
  /\ coreCount = 0 /\ powerCoreCount = 0
  /\ cores = [i \in 0..MAX_CORE_COUNT - 1 |-> "unset"]
  /\ overrun = FALSE

-----------------------------------------------------------------------------
(* detectCPU.                                                              *)

Processor(line) ==
  /\ line.key = "processor"
  /\ coreCount' = coreCount + 1
  /\ UNCHANGED <<type, cores, overrun>>

\* The lines that say what the processor is.
Vendor(line) ==
  /\ \/ line.key = "vendor_id" /\ type' = IF line.value = "GenuineIntel" THEN "intel" ELSE type
     \/ line.key = "model_name" /\ type' = IF line.value = "ARMv7" THEN "arm" ELSE type
  /\ UNCHANGED <<coreCount, cores, overrun>>

StoreCoreAtCount(t) ==
  IF coreCount \in DOMAIN cores
  THEN cores' = [cores EXCEPT ![coreCount] = t] /\ UNCHANGED overrun
  ELSE overrun' = TRUE /\ UNCHANGED cores

StoreCore(t) ==
  IF coreCount - 1 \in DOMAIN cores
  THEN cores' = [cores EXCEPT ![coreCount - 1] = t] /\ UNCHANGED overrun
  ELSE overrun' = TRUE /\ UNCHANGED cores

IntelType(model) == IF model \in Known THEN model ELSE "UNKNOWN"
Model(line) ==
  /\ line.key = "model"
  /\ IF type = "intel" THEN StoreCore(IntelType(line.value)) ELSE UNCHANGED <<cores, overrun>>
  /\ UNCHANGED <<type, coreCount>>

ArmType(part) == IF part = "0xC0F" THEN "A15" ELSE "A7"
Part(line) ==
  /\ line.key = "CPU_part"
  /\ IF type = "arm" THEN StoreCore(ArmType(line.value)) ELSE UNCHANGED <<cores, overrun>>
  /\ UNCHANGED <<type, coreCount>>

ReadLine ==
  /\ lines # <<>>
  /\ lines' = Tail(lines)
  /\ Processor(Head(lines)) \/ Vendor(Head(lines)) \/ Model(Head(lines)) \/ Part(Head(lines))
  /\ UNCHANGED <<computer, powerCoreCount>>

\* The constructor: detectCPU succeeds with a core, and on systems it does not know.
Detected == computer.system = "other" \/ coreCount > 0
CountCores ==
  /\ lines = <<>>
  /\ powerCoreCount' \in
       CASE ~Detected -> {0}
         [] Detected /\ cores[0] = "unset" -> {1, coreCount}
         [] OTHER -> {IF cores[0] \in PerCore THEN coreCount ELSE 1}
  /\ UNCHANGED <<computer, lines, type, coreCount, cores, overrun>>

\* names[] is indexed by the type of a core that was never set, or of one outside of
\* the array.
CpuUndefined ==
  \/ overrun \/ coreCount > MAX_CORE_COUNT
  \/ \E i \in DOMAIN cores : i < coreCount /\ cores[i] = "unset"

=============================================================================
