--------------------------------- MODULE Program -------------------------------
(***************************************************************************)
(* The whole program (main.cpp): the CPU is looked at (Cpu) and the GPU    *)
(* opened (Gpu), the options are read one by one, the application loads    *)
(* its kernels and runs (Bench), and everything that has been made is      *)
(* deleted again.  The objects of the run, the input A with its B and the  *)
(* results C and D, are of class Function: in a build with OpenCL each     *)
(* takes its kernels and buffers from the handles of Gpu, also those that  *)
(* only the CPU calculates.                                                *)
(*                                                                         *)
(* Using a handle that is not live is undefined: the call may fail, or the *)
(* program may end there.                                                  *)
(***************************************************************************)
EXTENDS Bench, Gpu, Cpu

VARIABLES
  stage,  \* where main is
  opts    \* its locals modeID, seqID, sanityID, print_enabled, time_enabled and repeat

mainVars == <<stage, opts>>
programVars == <<vars, gpuVars, cpuVars, mainVars>>

ProgramTypeOK ==
  /\ TypeOK
  /\ GpuTypeOK
  /\ CpuTypeOK
  /\ opts.mode \in Int /\ opts.sanity \in Int /\ opts.repeat \in Nat
  /\ stage \in {"cpu", "gpu", "options", "app", "query", "run", "unload", "delete", "done", "usage"}

NoOptions == [mode |-> 0, seq |-> "none", sanity |-> NoSanity, repeat |-> 1,
              print |-> TRUE, time |-> FALSE]

ProgramInit == Init /\ GpuInit /\ CpuInit /\ stage = "cpu" /\ opts = NoOptions

-----------------------------------------------------------------------------
(* main.                                                                   *)

Built == conf.gpu # "not_built"

NewCpu ==
  /\ stage = "cpu"
  /\ \/ ReadLine /\ UNCHANGED stage
     \/ CountCores /\ stage' = "gpu"
  /\ UNCHANGED <<vars, gpuVars, opts>>

\* What the CPU is decides nothing more here than the name of a log, and is forgotten.
ForgetCpu ==
  /\ computer' = CHOOSE c \in Computers : TRUE
  /\ lines' = <<>> /\ type' = "unknown" /\ overrun' = FALSE
  /\ coreCount' = 0 /\ powerCoreCount' = 0
  /\ cores' = [i \in 0..MAX_CORE_COUNT - 1 |-> "unset"]

NewGpu ==
  /\ stage = "gpu"
  /\ \/ conf.gpu = "not_built" /\ NotBuilt
     \/ conf.gpu = "disabled" /\ PlatformMissing
     \/ conf.gpu \in {"unloaded", "enabled"} /\ PlatformFound
  /\ ForgetCpu
  /\ stage' = "options"
  /\ UNCHANGED <<vars, opts>>

\* One option with its value; a later one overrides an earlier one, but -m with a number
\* does not take back a sequence.  A number that is none is ignored, and -r out of its
\* range counts as 1.  (-a and -o are what Init and the meter are.)
Option ==
  /\ stage = "options"
  /\ \/ \E m \in ModeRequests   : opts' = [opts EXCEPT !.mode = Atoi(m)]
     \/ \E q \in {"cpu", "gpu", "all"} : opts' = [opts EXCEPT !.seq = q]
     \/ \E s \in SanityRequests : opts' = [opts EXCEPT !.sanity = Atoi(s)]
     \/ \E r \in Repeats \cup {1} : opts' = [opts EXCEPT !.repeat = r]
     \/ \E p \in BOOLEAN : opts' = [opts EXCEPT !.print = p]
     \/ \E t \in BOOLEAN : opts' = [opts EXCEPT !.time = t]
  /\ UNCHANGED <<vars, gpuVars, cpuVars, stage>>

\* -q; -h; an option without its value, with which main returns at once or reads what
\* is no argument; or the end of the options.
LeaveOptions ==
  /\ stage = "options"
  /\ \/ stage' \in {"query", "delete", "usage"} /\ opts' = NoOptions
     \/ stage' = "app" /\ UNCHANGED opts
  /\ UNCHANGED <<vars, gpuVars, cpuVars>>

Query ==
  /\ stage = "query"
  /\ IF Built THEN PlatformQuery ELSE UNCHANGED gpuVars
  /\ stage' = "delete"
  /\ UNCHANGED <<vars, cpuVars, opts>>

NewApp ==
  /\ stage = "app"
  /\ IF conf.gpu = "unloaded" THEN LoadGPUKernel(NoProgram) \/ LoadGPUKernel(NoQueue)
                              ELSE LoadGPUKernel(Kernels)
  /\ stage' = "run"
  /\ UNCHANGED <<vars, cpuVars, opts>>

DeleteApp ==
  /\ stage = "run" /\ pc = "exit"
  /\ UnLoadGPUKernel
  /\ stage' = "unload"
  /\ UNCHANGED <<vars, cpuVars, opts>>

\* delete power touches nothing the GPU has.
DeletePower ==
  /\ stage = "unload"
  /\ stage' = "delete"
  /\ UNCHANGED <<vars, gpuVars, cpuVars, opts>>

DeleteAll ==
  /\ stage = "delete"
  /\ DeleteGpu
  /\ stage' = "done"
  /\ UNCHANGED <<vars, cpuVars, opts>>

-----------------------------------------------------------------------------
(* What the steps of the run use.                                          *)

\* initFuncs, with FuncList::set, and allocMem: the kernels come from the program, the
\* buffer from the context; __ARM__ maps it through the queue.
Kernel == IF Built THEN {"gpu", "program"} ELSE {}
Mapping == IF Built /\ conf.build = "arm" THEN {"gpu", "queue"} ELSE {}
Construct == Kernel \cup Mapping \cup IF Built THEN {"context"} ELSE {}

\* The destructors release the object's own buffers and kernels.
Destruct == Mapping

\* The GPU functions look at getEnabled only.
Compute == IF OnGpu(calc.mode) /\ Built
           THEN {"gpu"} \cup IF enabled THEN {"context", "queue"} ELSE {}
           ELSE {}

\* A step of the run that uses hs.  Memory that could not be mapped is NULL, and its
\* first use the end.
Step(step, hs) ==
  /\ stage = "run"
  /\ ~(conf.build = "arm" /\ "queue" \in misused)
  /\ step
  /\ Use(hs)
  /\ UNCHANGED <<handle, enabled, loaded, cpuVars, stage>>

RunStep ==
  \/ Step(NoLog \/ NoDirectory \/ Start \/ EndRun \/ Skip, {})
  \/ Step(Measured \/ Report \/ CheckNext \/ KeepSingle \/ BeforeTable, {})
  \/ \E hs \in {{}, Construct} : Step(Create, hs)
  \/ \E hs \in {{}, Kernel, Construct} : Step(LoadFails, hs)
  \/ Step(Load \/ Begin \/ OutOfMemory, Construct)
  \/ Step(Execute, Compute)
  \/ Step(Fail, Compute \cup Destruct)
  \/ Step(Compare \/ NextMode \/ Free, Destruct)

\* setModes is handed the options, which are not looked at again.
Run ==
  \/ Step(SetModes(opts), {}) /\ opts' = NoOptions
  \/ RunStep /\ UNCHANGED opts

\* The program has returned, or an exception or undefined behaviour has ended it.
Ended ==
  /\ \/ stage \in {"done", "usage"} \/ pc = "aborted" \/ misused # {}
     \/ stage = "gpu" /\ CpuUndefined
  /\ UNCHANGED programVars

ProgramNext ==
  \/ NewCpu \/ NewGpu \/ Option \/ LeaveOptions \/ Query \/ NewApp \/ Run
  \/ DeleteApp \/ DeletePower \/ DeleteAll \/ Ended

ProgramSpec == ProgramInit /\ [][ProgramNext]_programVars

-----------------------------------------------------------------------------
(* Properties.                                                             *)

\* Each core has the type /proc/cpuinfo gives for it, and the meters that read counters
\* look at one core or at all there are, of an Intel or a new ARM computer that has no
\* more cores than the array: the lines of a core follow its number.  Others leave cores
\* unset, which is undefined, or are stored outside of the array.
CoresKnown ==
  stage = "gpu" =>
    LET models == computer.models IN
      /\ computer.system = "Linux" => coreCount = Len(models)
      /\ powerCoreCount = 0 <=> ~Detected \/ (computer.system = "other" /\ powerCoreCount # 1)
      /\ overrun => coreCount > MAX_CORE_COUNT
      /\ CpuUndefined => coreCount > MAX_CORE_COUNT \/ computer.vendor \notin {"GenuineIntel", "ARM"}
      /\ ~CpuUndefined /\ computer.system = "Linux" =>
           /\ \A i \in 1..Len(models) :
                cores[i - 1] = IF computer.vendor = "ARM" THEN ArmType(models[i]) ELSE IntelType(models[i])
           /\ powerCoreCount = IF models[1] \in PerCore THEN Len(models) ELSE 1

\* No handle is used before it is created or after it is released, and none released
\* twice, whatever fails on the way; except that nothing keeps the functions from the
\* kernels and the queue that could not be loaded, nor, without a GPU, the objects from
\* the context and the program and the query from its arrays.
HandlesValid ==
  /\ "gpu" \notin misused
  /\ misused # {} => conf.gpu \in {"disabled", "unloaded"}
  /\ conf.gpu = "unloaded" => misused \subseteq {"program", "queue"}
  /\ conf.gpu = "disabled" /\ conf.build # "arm" => "queue" \notin misused

\* A program that deletes what it has made leaves no handle behind, whichever error path
\* it took, and of its results only those nobody asked to check; its log is closed; and
\* the meter it deletes measures no more, unless a function failed.
ReleasedAtExit ==
  stage = "done" =>
    /\ \A h \in Handles : handle[h] # "live"
    /\ OnlyUncheckedResultsLeak
    /\ log # "open"
    /\ measuring => failed

\* gpu.cpp:60 says "No GPU Devices found, GPU tests will not be run!!!": the others are,
\* and use nothing of the GPU.
CpuNeedsNoGpu ==
  conf.gpu = "disabled" /\ stage = "run" => misused = {}

=============================================================================
