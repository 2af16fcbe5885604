--------------------------------- MODULE Perf ----------------------------------
(***************************************************************************)
(* The "perf" power meter (power/power_perf.cpp), built with one RAPL      *)
(* domain: read_before looks the event up under /sys and opens it for      *)
(* every core, read_after reads and closes those that are open.            *)
(*                                                                         *)
(* The kernel's events are external: each counts what its core uses from   *)
(* the moment it is opened.  Whoever calls is in Meters, which shares the  *)
(* variables up to `used' and states what is assumed of the constants.     *)
(***************************************************************************)
EXTENDS Naturals

CONSTANTS
  core_count,  \* cores the event is opened for
  Garbage      \* what an event that was not looked up may count to

VARIABLES
  pc,             \* where the main thread is
  faulty,         \* the environment may fail
  reported,       \* what the last read_after returned
  i,              \* the loop counter of both functions
  used,           \* the energy every core has used so far
  event,          \* Power_PERF::fd
  opened,         \* the kernel: used when the event was opened
  known,          \* perf_type, perf_config and perf_scale have been read
  perf_consumed

perfVars == <<event, opened, known, perf_consumed>>

Cores == 0..core_count - 1

TypeOK ==
  /\ event \in [Cores -> {"none", "open", "failed", "closed"}]
  /\ opened \in [Cores -> Nat]
  /\ known \in BOOLEAN
  /\ perf_consumed \in Nat

Init ==
  /\ event = [c \in Cores |-> "none"]
  /\ opened = [c \in Cores |-> 0]
  /\ known = FALSE
  /\ perf_consumed = 0

-----------------------------------------------------------------------------

\* open_perf, whose result is not looked at: what the files cannot tell is what it
\* was before.
ReadBefore ==
  /\ pc = "idle"
  /\ pc' = "before"
  /\ i' = 0
  /\ known' \in IF faulty THEN {known, TRUE} ELSE {TRUE}
  /\ UNCHANGED <<reported, event, opened, perf_consumed>>

\* start_perf, whose result is not looked at either.
Before ==
  /\ pc = "before"
  /\ i < core_count
  /\ \/ event' = [event EXCEPT ![i] = "open"] /\ opened' = [opened EXCEPT ![i] = used[i]]
     \/ faulty /\ event' = [event EXCEPT ![i] = "failed"] /\ UNCHANGED opened
  /\ i' = i + 1
  /\ UNCHANGED <<pc, reported, known, perf_consumed>>

ReturnBefore ==
  /\ pc = "before"
  /\ i = core_count
  /\ pc' = "work"
  /\ UNCHANGED <<reported, i, perfVars>>

ReadAfter ==
  /\ pc = "work"
  /\ pc' = "after"
  /\ i' = 0
  /\ perf_consumed' = 0
  /\ UNCHANGED <<reported, event, opened, known>>

\* One turn of read_after's loop: fd[id] != -1.  A read that fails counts as 0.
Count(c) == IF known THEN {used[c] - opened[c]} ELSE Garbage
After ==
  /\ pc = "after"
  /\ i < core_count
  /\ \/ /\ event[i] # "failed"
        /\ \E value \in Count(i) \cup (IF faulty THEN {0} ELSE {}) :
             perf_consumed' = perf_consumed + value
        /\ event' = [event EXCEPT ![i] = "closed"]
     \/ event[i] = "failed" /\ UNCHANGED <<event, perf_consumed>>
  /\ i' = i + 1
  /\ UNCHANGED <<pc, reported, opened, known>>

ReturnAfter ==
  /\ pc = "after"
  /\ i = core_count
  /\ pc' = "idle"
  /\ reported' = perf_consumed
  /\ UNCHANGED <<i, perfVars>>

Next == ReadBefore \/ Before \/ ReturnBefore \/ ReadAfter \/ After \/ ReturnAfter

=============================================================================
