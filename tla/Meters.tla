--------------------------------- MODULE Meters --------------------------------
(***************************************************************************)
(* The meters behind Power (power/power.cpp) and the loop that uses them:  *)
(* newInstance makes the meter asked for, if the build has it, and the     *)
(* calculate functions of app/ call its read_before, run the benchmark,    *)
(* and call its read_after, unless a benchmark function fails.             *)
(*                                                                         *)
(* This module composes Ina, SmartReal, Msr and Perf; the spc meter has a  *)
(* caller of its own in SmartCalc.  One meter exists in a run.  Meanwhile  *)
(* the cores use energy, whatever the program does.                        *)
(***************************************************************************)
EXTENDS Integers, Sequences, Functions

CONSTANTS
  Builds,       \* "arm" (__ARM__), "linux" (__linux__) or "other"
  Modes,        \* the POWER_MODES asked for
  MaxSessions,  \* bound: calls of read_before
  MaxUsed,      \* bound: energy a core uses
  MaxTicks, SENSOR_MAX, StatusTries, core_count, Wrap, Coarse, Garbage

ASSUME MetersAssumption ==
  /\ Builds \subseteq {"arm", "linux", "other"}
  /\ Modes \subseteq {"off", "msr", "perf", "ina", "smartreal"}
  /\ MaxSessions \in Nat
  /\ MaxUsed \in Nat
  /\ SENSOR_MAX \in Nat \ {0} /\ MaxTicks \in Nat /\ StatusTries \in Nat \ {0}
  /\ core_count \in Nat /\ Wrap \in Nat \ {0} /\ Coarse \in Nat /\ Garbage \subseteq Nat

VARIABLES
  meter,      \* the class of the object newInstance made
  faulty,     \* the environment may fail in this run
  used,       \* the energy every core has used so far
  pc, reported, initialized, i, consumed,     \* shared by the meters
  sensor, enabled, sync, mon,                       \* Ina
  handle, toDev, fromDev, device,                   \* SmartReal
  fd, units, pp0_before, pp0_after,                 \* Msr
  event, opened, known, perf_consumed,              \* Perf
  session,    \* calls of read_before so far
  abandoned,  \* a benchmark function has failed: read_after was not called
  spent       \* history of a run without faults: `used' at the call and the return of
              \* the last read_before and of read_after; and whether the device of
              \* SmartReal was off at the first

vars == <<meter, faulty, used, pc, reported, initialized, i, consumed, sensor, enabled,
          sync, mon, handle, toDev, fromDev, device, fd, units, pp0_before, pp0_after,
          event, opened, known, perf_consumed, session, abandoned, spent>>

InaMeter  == INSTANCE Ina
RealMeter == INSTANCE SmartReal
MsrMeter  == INSTANCE Msr
PerfMeter == INSTANCE Perf

Cores == 0..core_count - 1

\* Power::newInstance: a build without the meter has a Power, which measures nothing.
newInstance(mode, build) ==
  CASE mode = "smartreal"                             -> "smartreal"
    [] mode = "ina" /\ build = "arm"                  -> "ina"
    [] mode \in {"msr", "perf"} /\ build = "linux"    -> mode
    [] OTHER                                          -> "off"

TypeOK ==
  /\ meter \in {"off", "msr", "perf", "ina", "smartreal"}
  /\ faulty \in BOOLEAN
  /\ used \in [Cores -> 0..MaxUsed]
  /\ reported \in Int
  /\ initialized \in BOOLEAN
  /\ i \in Nat
  /\ consumed \in Nat
  /\ session \in 0..MaxSessions
  /\ abandoned \in BOOLEAN
  /\ InaMeter!TypeOK /\ RealMeter!TypeOK /\ MsrMeter!TypeOK /\ PerfMeter!TypeOK

Init ==
  /\ \E mode \in Modes, build \in Builds : meter = newInstance(mode, build)
  /\ faulty \in BOOLEAN
  /\ used = [c \in Cores |-> 0]
  /\ pc = "idle"
  /\ reported = 0
  /\ initialized = FALSE
  /\ i = 0
  /\ consumed = 0
  /\ InaMeter!Init /\ RealMeter!Init /\ MsrMeter!Init /\ PerfMeter!Init
  /\ meter # "ina" => \A s \in DOMAIN enabled : ~enabled[s]
  /\ meter # "smartreal" => ~device.running
  /\ session = 0
  /\ abandoned = FALSE
  /\ spent = [called |-> used, opened |-> used, closing |-> used, done |-> used, off |-> TRUE]

-----------------------------------------------------------------------------
(* The base class.                                                         *)

NoReadBefore == pc = "idle" /\ pc' = "work" /\ UNCHANGED reported
NoReadAfter  == pc = "work" /\ pc' = "idle" /\ reported' = 0

-----------------------------------------------------------------------------
(* The caller.                                                             *)

inaVars  == <<sensor, enabled, sync, mon>>
realVars == <<handle, toDev, fromDev, device>>
msrVars  == <<fd, units, pp0_before, pp0_after>>
perfVars == <<event, opened, known, perf_consumed>>

\* A step of the meter that exists.
MeterStep ==
  \/ /\ meter = "ina" /\ InaMeter!Next
     /\ UNCHANGED <<realVars, msrVars, perfVars>>
  \/ /\ meter = "smartreal" /\ RealMeter!Next
     /\ UNCHANGED <<inaVars, msrVars, perfVars>>
  \/ /\ meter = "msr" /\ MsrMeter!Next
     /\ UNCHANGED <<initialized, consumed, inaVars, realVars, perfVars>>
  \/ /\ meter = "perf" /\ PerfMeter!Next
     /\ UNCHANGED <<initialized, consumed, inaVars, realVars, msrVars>>
  \/ /\ meter = "off" /\ (NoReadBefore \/ NoReadAfter)
     /\ UNCHANGED <<initialized, i, consumed, inaVars, realVars, msrVars, perfVars>>

\* The calls and returns of the two functions, noted.
Note ==
  LET call == pc = "idle" /\ pc' # "idle" IN
    /\ call => session < MaxSessions
    /\ session' = IF call THEN session + 1 ELSE session
    /\ spent' = IF faulty THEN spent ELSE
                [called  |-> IF call THEN used ELSE spent.called,
                 opened  |-> IF pc # "work" /\ pc' = "work" THEN used ELSE spent.opened,
                 closing |-> IF pc = "work" /\ pc' # "work" THEN used ELSE spent.closing,
                 done    |-> IF pc # "idle" /\ pc' = "idle" THEN used ELSE spent.done,
                 off     |-> IF call THEN ~device.running ELSE spent.off]

Step == MeterStep /\ Note /\ UNCHANGED <<meter, faulty, used, abandoned>>

\* A benchmark function returns false, and calculate returns without read_after.
Abandon ==
  /\ pc = "work"
  /\ faulty
  /\ pc' = "idle"
  /\ abandoned' = TRUE
  /\ UNCHANGED <<meter, faulty, used, reported, initialized, i, consumed, session, spent>>
  /\ UNCHANGED <<inaVars, realVars, msrVars, perfVars>>

\* Time passes, and a core has used some energy.  (Ina counts samples instead.)
Consume ==
  /\ meter \in {"smartreal", "msr", "perf"}
  /\ pc # "idle"
  /\ \E c \in Cores :
       /\ used[c] < MaxUsed
       /\ used' = [used EXCEPT ![c] = @ + 1]
  /\ UNCHANGED <<meter, faulty, pc, reported, initialized, i, consumed, session,
                 abandoned, spent>>
  /\ UNCHANGED <<inaVars, realVars, msrVars, perfVars>>

Finished ==
  /\ \/ pc = "undefined"
     \/ pc = "idle" /\ session = MaxSessions
  /\ UNCHANGED vars

Next == Step \/ Abandon \/ Consume \/ Finished

Spec == Init /\ [][Next]_vars

-----------------------------------------------------------------------------
(* Properties.                                                             *)

\* The monitor of the ina meter lies within its sensors, mutex and condition
\* variable, whatever fails, also in a measurement that the caller abandons.  A
\* read_before beside the monitor left over by that is undefined and ends the run.
InaConfined == InaMeter!Confined

\* What a meter has opened it has closed when read_after returns.  The exceptions
\* are those the code has: an ina meter whose read_before failed, an spr meter
\* whose read_after failed and returned 0, and a caller that skips read_after.
NothingLeftOpen ==
  pc = "idle" /\ ~abandoned =>
    /\ (\E s \in 0..SENSOR_MAX - 1 : sensor[s].fd = "open") => ~initialized
    /\ handle = "open" => initialized /\ reported = 0 /\ faulty
    /\ \A c \in Cores : fd[c] # "open" /\ event[c] # "open"

\* What is reported is what the cores have used during the measurement: all they
\* used between the return of read_before and the call of read_after, and nothing
\* from outside the two calls, although the counters of the cores are read one
\* after the other while they go on.  This is for an environment that does not
\* fail, counters that do not wrap, and a SmartPower nobody had left running.
Wrapped == \E c \in Cores : spent.called[c] \div Wrap # spent.done[c] \div Wrap
ReportsThisMeasurement ==
  /\ pc = "idle" /\ session > 0 /\ ~faulty
  /\ \/ meter = "msr" /\ ~Wrapped
     \/ meter = "perf"
     \/ meter = "smartreal" /\ spent.off
  => /\ SumFunction(spent.closing) - SumFunction(spent.opened) <= reported
     /\ reported <= SumFunction(spent.done) - SumFunction(spent.called)

\* A SmartPower that a fault-free measurement has used does not run afterwards,
\* whether it ran before or not, so that the next measurement starts anew.
DeviceStopped ==
  meter = "smartreal" /\ ~faulty /\ pc = "idle" /\ session > 0 /\ toDev = <<>>
    => ~device.running

\* The ina meter does what power.h promises: it counts samples between read_before
\* and read_after only, all of them, and reports 0 when it was not initialised.
Ina == INSTANCE PowerMeter WITH
  measuring <- \/ pc \in {"signal", "join", "stop"}
               \/ pc = "work" /\ initialized,
  energy    <- consumed,
  reported  <- reported

InaImplementsMeter ==
  [][meter = "ina" /\ ~abandoned' => Ina!Next \/ UNCHANGED Ina!meterVars]_vars

=============================================================================
