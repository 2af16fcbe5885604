---------------------------------- MODULE Msr ----------------------------------
(***************************************************************************)
(* The "msr" power meter (power/power_msr.cpp): for every core read_before *)
(* opens the core's msr file and reads its energy unit and its energy      *)
(* counter, read_after reads the counter again and closes the file.        *)
(*                                                                         *)
(* The counters (MSR_PP0_ENERGY_STATUS) are external: they go on while     *)
(* they are read, one core after the other, and are Wrap wide.  Whoever    *)
(* calls is in Meters, which shares the variables up to `used' and states  *)
(* what is assumed of the constants.                                       *)
(***************************************************************************)
EXTENDS Integers, Functions

CONSTANTS
  core_count,  \* cores that have a counter of their own
  Wrap,        \* 2^32 for the real counter
  Coarse       \* the unit that goes with a failed read: pow(0.5, 0) in the code,
               \* as a multiple of the right one

VARIABLES
  pc,          \* where the main thread is
  faulty,      \* the environment may fail
  reported,    \* what the last read_after returned
  i,           \* the loop counter of both functions
  used,        \* the energy every core has used so far
  fd,          \* Power_MSR::fd
  units,       \* Power_MSR::cpu_energy_units, the right one being 1
  pp0_before,
  pp0_after

msrVars == <<fd, units, pp0_before, pp0_after>>

Cores == 0..core_count - 1

TypeOK ==
  /\ fd \in [Cores -> {"none", "open", "failed", "closed"}]
  /\ units \in [Cores -> {1, Coarse}]
  /\ pp0_before \in Nat
  /\ pp0_after \in Nat

Init ==
  /\ fd = [c \in Cores |-> "none"]
  /\ units = [c \in Cores |-> 1]
  /\ pp0_before = 0
  /\ pp0_after = 0

-----------------------------------------------------------------------------

\* read_msr: the counter, or 0 if it cannot be read.
Register(c) == used[c] % Wrap
ReadMsr(c, ok) == IF ok THEN Register(c) ELSE 0
MayRead(d) == IF d # "open" THEN {FALSE} ELSE IF faulty THEN BOOLEAN ELSE {TRUE}

ReadBeforeKeepsSum ==
  /\ pc = "idle"
  /\ pc' = "before"
  /\ i' = 0
  /\ UNCHANGED <<reported, msrVars>>

ReadBefore ==
  /\ pc = "idle"
  /\ pc' = "before"
  /\ i' = 0
  /\ pp0_before' = 0
  /\ UNCHANGED <<reported, fd, units, pp0_after>>

\* One turn of read_before's loop.  Nobody looks at open_msr's result.
Before ==
  /\ pc = "before"
  /\ i < core_count
  /\ \E d \in IF faulty THEN {"open", "failed"} ELSE {"open"} :
       /\ fd' = [fd EXCEPT ![i] = d]
       /\ \E unit, energy \in MayRead(d) :
            /\ units' = [units EXCEPT ![i] = IF unit THEN 1 ELSE Coarse]
            /\ pp0_before' = pp0_before + ReadMsr(i, energy) * units'[i]
  /\ i' = i + 1
  /\ UNCHANGED <<pc, reported, pp0_after>>

ReturnBefore ==
  /\ pc = "before"
  /\ i = core_count
  /\ pc' = "work"
  /\ UNCHANGED <<reported, i, msrVars>>

ReadAfter ==
  /\ pc = "work"
  /\ pc' = "after"
  /\ i' = 0
  /\ pp0_after' = 0
  /\ UNCHANGED <<reported, fd, units, pp0_before>>

\* One turn of read_after's loop.
After ==
  /\ pc = "after"
  /\ i < core_count
  /\ \E energy \in MayRead(fd[i]) : pp0_after' = pp0_after + ReadMsr(i, energy) * units[i]
  /\ fd' = [fd EXCEPT ![i] = "closed"]
  /\ i' = i + 1
  /\ UNCHANGED <<pc, reported, units, pp0_before>>

ReturnAfter ==
  /\ pc = "after"
  /\ i = core_count
  /\ pc' = "idle"
  /\ reported' = pp0_after - pp0_before
  /\ UNCHANGED <<i, msrVars>>

Next == ReadBefore \/ Before \/ ReturnBefore \/ ReadAfter \/ After \/ ReturnAfter

=============================================================================
