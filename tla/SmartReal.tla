------------------------------- MODULE SmartReal -------------------------------
(***************************************************************************)
(* The "spr" power meter (power/power_smart_real.cpp): read_before opens a *)
(* SmartPower over HID and starts its own energy meter unless it runs      *)
(* already, read_after toggles it again and asks for the energy.           *)
(*                                                                         *)
(* One action is one HID call.  The device is external: it handles its     *)
(* requests in order, and its energy counts from the moment it is started. *)
(* The caller is in Meters, which shares the variables up to `used' and    *)
(* states what is assumed of the constants.                                *)
(***************************************************************************)
EXTENDS Naturals, Sequences, Functions

CONSTANT StatusTries  \* reads before either loop gives up: 10 in the code

VARIABLES
  pc,           \* where the main thread is
  faulty,       \* the environment may fail, and the device be slow
  reported,     \* what the last read_after returned
  initialized,  \* Power_SMARTREAL::initialized
  i,            \* `count'
  consumed,     \* Power_SMARTREAL::consumed
  used,         \* the energy every core has used so far
  handle,       \* what Power_SMARTREAL::device refers to
  toDev,        \* requests the device has not handled
  fromDev,      \* replies nobody has read
  device        \* the device: running, since when, and its energy when stopped

realVars == <<handle, toDev, fromDev, device>>

TypeOK ==
  /\ handle \in {"none", "null", "open", "closed"}
  /\ toDev \in Seq({"status", "toggle", "data"})
  /\ fromDev \in Seq([kind : {"status", "data"}, on : BOOLEAN, energy : Nat])
  /\ device \in [running : BOOLEAN, since : Nat, energy : Nat]

\* Somebody may have left the device running.
Init ==
  /\ handle = "none"
  /\ toDev = <<>>
  /\ fromDev = <<>>
  /\ device \in [running : BOOLEAN, since : {0}, energy : {0}]

-----------------------------------------------------------------------------
(* The device, and the HID calls.                                          *)

Energy == IF device.running THEN SumFunction(used) - device.since ELSE device.energy

Device ==
  /\ toDev # <<>>
  /\ toDev' = Tail(toDev)
  /\ IF Head(toDev) = "toggle"
     THEN /\ device' = [running |-> ~device.running, since |-> SumFunction(used),
                        energy |-> IF device.running THEN Energy ELSE 0]
          /\ UNCHANGED fromDev
     ELSE /\ fromDev' = Append(fromDev, [kind |-> Head(toDev), on |-> device.running,
                                         energy |-> Energy])
          /\ UNCHANGED device
  /\ UNCHANGED <<pc, reported, initialized, i, consumed, handle>>

\* The next HID call finds the device done, unless it is slow.
Settled == faulty \/ toDev = <<>>

Write(r) == Settled /\ toDev' = Append(toDev, r)
Ignored == Settled /\ faulty /\ UNCHANGED toDev
HidClose == Settled /\ handle' = "closed" /\ fromDev' = <<>>

-----------------------------------------------------------------------------
(* read_before.                                                            *)

\* hid_open; a NULL handle is used all the same.
ReadBefore ==
  /\ pc = "idle"
  /\ initialized' = FALSE
  /\ consumed' = 0
  /\ \/ handle' = "open" /\ pc' = "status"
     \/ faulty /\ handle' = "null" /\ pc' = "undefined"
  /\ UNCHANGED <<reported, i, toDev, fromDev, device>>

\* readStatus
StatusRequest ==
  /\ pc = "status"
  /\ \/ Write("status") /\ pc' = "poll" /\ i' = StatusTries
     \/ Ignored /\ pc' = "fail" /\ UNCHANGED i
  /\ UNCHANGED <<reported, initialized, consumed, handle, fromDev, device>>

\* while (count--)
MoreTriesOffByOne == i >= 0
MoreTries == i > 0

\* A non-blocking hid_read finds the reply asked for, which ends the loop, or
\* another one, or none.
Poll(kind, found) ==
  /\ Settled
  /\ MoreTries
  /\ i' = i - 1
  /\ \/ fromDev = <<>> /\ UNCHANGED <<fromDev, pc, consumed>>
     \/ /\ fromDev # <<>>
        /\ fromDev' = Tail(fromDev)
        /\ IF Head(fromDev).kind = kind THEN found ELSE UNCHANGED <<pc, consumed>>

\* The tries are used up, or hid_read fails.
Unanswered == Settled /\ (~MoreTries \/ faulty)

\* A device that does not run is started.
AfterStatusAlways(on) == "start"
AfterStatus(on) == IF on THEN "ready" ELSE "start"
StatusPoll ==
  /\ pc = "poll"
  /\ \/ Poll("status", pc' = AfterStatus(Head(fromDev).on) /\ UNCHANGED consumed)
     \/ Unanswered /\ pc' = "fail" /\ UNCHANGED <<i, consumed, fromDev>>
  /\ UNCHANGED <<reported, initialized, handle, toDev, device>>

ToggleStart ==
  /\ pc = "start"
  /\ \/ Write("toggle") /\ pc' = "ready"
     \/ Ignored /\ pc' = "fail"
  /\ UNCHANGED <<reported, initialized, i, consumed, handle, fromDev, device>>

\* read_before returns.  A device that is not slow has started by then.
Ready ==
  /\ pc = "ready"
  /\ Settled
  /\ pc' = "work"
  /\ initialized' = TRUE
  /\ UNCHANGED <<reported, i, consumed, realVars>>

FailBefore ==
  /\ pc = "fail"
  /\ HidClose
  /\ pc' = "work"
  /\ UNCHANGED <<reported, initialized, i, consumed, toDev, device>>

-----------------------------------------------------------------------------
(* read_after.                                                             *)

ReadAfter ==
  /\ pc = "work"
  /\ \/ initialized /\ pc' = "stop" /\ UNCHANGED reported
     \/ ~initialized /\ pc' = "idle" /\ reported' = 0
  /\ UNCHANGED <<initialized, i, consumed, realVars>>

\* toggleStart(true), whose result is not looked at.
StopDevice ==
  /\ pc = "stop"
  /\ Write("toggle") \/ Ignored
  /\ pc' = "data"
  /\ UNCHANGED <<reported, initialized, i, consumed, handle, fromDev, device>>

\* An error returns false, which is 0, and leaves the handle open.
GiveUp == pc' = "idle" /\ reported' = 0

DataRequest ==
  /\ pc = "data"
  /\ \/ Write("data") /\ pc' = "await" /\ i' = StatusTries /\ UNCHANGED reported
     \/ Ignored /\ GiveUp /\ UNCHANGED i
  /\ UNCHANGED <<initialized, consumed, handle, fromDev, device>>

DataPoll ==
  /\ pc = "await"
  /\ \/ /\ Poll("data", pc' = "close" /\ consumed' = Head(fromDev).energy)
        /\ UNCHANGED reported
     \/ MoreTries /\ Settled /\ faulty /\ GiveUp /\ UNCHANGED <<i, consumed, fromDev>>
     \/ ~MoreTries /\ Settled /\ pc' = "close" /\ UNCHANGED <<i, consumed, fromDev, reported>>
  /\ UNCHANGED <<initialized, handle, toDev, device>>

FinishAfterKeepsHandle ==
  /\ pc = "close"
  /\ pc' = "idle"
  /\ reported' = consumed
  /\ UNCHANGED <<initialized, i, consumed, realVars>>

FinishAfter ==
  /\ pc = "close"
  /\ HidClose
  /\ pc' = "idle"
  /\ reported' = consumed
  /\ UNCHANGED <<initialized, i, consumed, toDev, device>>

Next ==
  \/ Device \/ ReadBefore \/ StatusRequest \/ StatusPoll \/ ToggleStart \/ Ready \/ FailBefore
  \/ ReadAfter \/ StopDevice \/ DataRequest \/ DataPoll \/ FinishAfter

=============================================================================
