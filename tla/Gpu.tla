----------------------------------- MODULE Gpu ---------------------------------
(***************************************************************************)
(* The class GPU (gpu.cpp), the kernels an application loads into it, and  *)
(* the OpenCL handles it shares with the functions of the benchmark.       *)
(*                                                                         *)
(* A handle that was never created, or was released, is used all the same  *)
(* if no test is in the way; that is noted in misused.  OpenCL is external *)
(* and may fail in every call; a failed clCreate... leaves NULL.           *)
(***************************************************************************)
EXTENDS Naturals

VARIABLES
  handle,   \* the fields of GPU and the object itself: "unset", "live" or "released"
  enabled,  \* GPU::enabled
  loaded,   \* App::gpu_kernel_loaded
  misused   \* the handles that were used without being live

gpuVars == <<handle, enabled, loaded, misused>>

Handles == {"gpu", "platforms", "devices", "context", "program", "queue"}

GpuTypeOK ==
  /\ handle \in [Handles -> {"unset", "live", "released"}]
  /\ enabled \in BOOLEAN
  /\ loaded \in BOOLEAN
  /\ misused \subseteq Handles

GpuInit ==
  /\ handle = [h \in Handles |-> "unset"]
  /\ enabled = FALSE
  /\ loaded = FALSE
  /\ misused = {}

Use(hs) == misused' = misused \cup {h \in hs : handle[h] # "live"}
Set(hs, state) == [h \in Handles |-> IF h \in hs THEN state ELSE handle[h]]

-----------------------------------------------------------------------------
(* The constructor, which calls platformInit, and the destructor.          *)

NotBuilt ==
  /\ handle' = Set({"gpu"}, "live")
  /\ UNCHANGED <<enabled, loaded, misused>>

\* What the five ways out of platformInit have released again.
PlatformMissing ==
  /\ \E gone \in {{}, {"platforms"}, {"platforms", "context"},
                  {"platforms", "context", "devices"}} :
       handle' = [Set(gone, "released") EXCEPT !["gpu"] = "live"]
  /\ UNCHANGED <<enabled, loaded, misused>>

PlatformFound ==
  /\ handle' = Set({"gpu", "platforms", "devices", "context"}, "live")
  /\ enabled' = TRUE
  /\ UNCHANGED <<loaded, misused>>

\* platformQuery walks arrays whose lengths nobody has set, or both are kept, when
\* platformInit failed.
PlatformQuery ==
  /\ \E arrays \in SUBSET {"platforms", "devices"} :
       /\ enabled => arrays = {"platforms", "devices"}
       /\ Use(arrays)
  /\ UNCHANGED <<handle, enabled, loaded>>

\* delete gpu; platformDeInit if it is enabled
DeleteGpu ==
  /\ Use(IF enabled THEN {"gpu", "platforms", "devices", "context"} ELSE {"gpu"})
  /\ handle' = Set({"gpu"} \cup IF enabled THEN {"platforms", "devices", "context"} ELSE {},
                   "released")
  /\ UNCHANGED <<enabled, loaded>>

-----------------------------------------------------------------------------
(* loadGPUKernel and unLoadGPUKernel of an application.                    *)

\* createBuildProgramFromFile: the file cannot be read, or the program not be created,
\* or not be built.
NoProgram ==
  /\ \E state \in {handle["program"], "released"} : handle' = Set({"program"}, state)
  /\ UNCHANGED loaded

\* createCommandQueue fails; the program is released again.
NoQueueKeepsProgram == handle' = Set({"program"}, "live") /\ UNCHANGED loaded
NoQueue == handle' = Set({"program"}, "released") /\ UNCHANGED loaded

Kernels == handle' = Set({"program", "queue"}, "live") /\ loaded' = TRUE

LoadGPUKernel(outcome) ==
  /\ \/ enabled /\ outcome /\ Use({"gpu", "devices", "context"})
     \/ ~enabled /\ UNCHANGED <<handle, loaded>> /\ Use({"gpu"})
  /\ UNCHANGED enabled

UnLoadAlways ==
  /\ handle' = Set({"program", "queue"}, "released")
  /\ Use({"gpu", "program", "queue"})
  /\ UNCHANGED <<enabled, loaded>>

UnLoadGPUKernel ==
  /\ handle' = IF loaded THEN Set({"program", "queue"}, "released") ELSE handle
  /\ Use(IF loaded THEN {"gpu", "program", "queue"} ELSE {})
  /\ UNCHANGED <<enabled, loaded>>

=============================================================================
