------------------------------ MODULE SmartCalc -------------------------------
(***************************************************************************)
(* The "spc" power meter (power/power_smart_calc.cpp): the main thread     *)
(* opens a SmartPower over HID, starts it and a monitor thread             *)
(* (read_before), runs a benchmark function, then signals and joins the    *)
(* monitor and reads the energy (read_after).  The monitor wakes every     *)
(* SMART_WAIT = 250 ms, reads the answer to its previous request, asks for *)
(* the next one and adds the last power it knows to `consumed'.            *)
(*                                                                         *)
(* One action is one step between two points where the other thread or the *)
(* device can be noticed: a HID call, a mutex operation, a wait.  The      *)
(* caller is the repeat loop of ScanApp::calculate, MatrixApp::calculate   *)
(* and ConvApp::calculate.  The device is external: it takes requests in   *)
(* order and answers them in order.                                        *)
(***************************************************************************)
EXTENDS Naturals, Sequences

CONSTANTS
  MaxSessions,  \* bound: read_before is called at most this often
  MaxTicks,     \* bound: the monitor times out at most this often in a session
  StatusTries,  \* reads readStatus makes before it gives up (10 in the code)
  Faults        \* what the environment may do wrong

FaultKinds ==
  { "open",      \* hid_open returns NULL
    "io",        \* hid_read or hid_write returns -1
    "init",      \* a pthread object cannot be created
    "wait",      \* pthread_cond_timedwait fails with something else
    "spurious",  \* pthread_cond_timedwait returns 0 without a signal
    "function",  \* a benchmark function returns false
    "slow" }     \* the device answers after the host has moved on

ASSUME BoundsAssumption ==
  /\ MaxSessions \in Nat
  /\ MaxTicks \in Nat
  /\ StatusTries \in Nat
ASSUME FaultsAssumption == Faults \subseteq FaultKinds

VARIABLES
  main,         \* where the main thread is
  session,      \* read_before calls so far
  initialized,  \* Power_SMARTCALC::initialized
  handle,       \* what Power_SMARTCALC::device refers to
  sync,         \* mMutex and mCond are initialised
  lock,         \* owner of mMutex
  mon,          \* where the monitor thread is
  initial,      \* the monitor's local `initial'
  tries,        \* `count' in readStatus
  curWatt,      \* Power_SMARTCALC::curWatt
  consumed,     \* the powers added to Power_SMARTCALC::consumed, in order
  returned,     \* what the last read_after returned
  toDev,        \* requests written and not yet handled by the device
  fromDev,      \* replies the device has sent and nobody has read
  running       \* the device is measuring

mainVars == <<main, session, initialized, tries, returned>>
devVars == <<toDev, fromDev, running>>
vars == <<main, session, initialized, handle, sync, lock, mon, initial, tries,
          curWatt, consumed, returned, toDev, fromDev, running>>

-----------------------------------------------------------------------------
(* Data.  A power is known by where it came from: <<s, k>> was measured    *)
(* for the k-th request of session s.  The member curWatt has no           *)
(* initialiser, so before the first reply it holds no reading at all.      *)

Unread == <<0, 0>>
Powers == Nat \X Nat

StatusReply(on) == [kind |-> "status", on |-> on, watt |-> Unread]
DataReply(w)    == [kind |-> "data", on |-> FALSE, watt |-> w]
Replies  == [kind : {"status", "data"}, on : BOOLEAN, watt : Powers]

Request(k) == [kind |-> k, watt |-> Unread]
DataRequest(w) == [kind |-> "data", watt |-> w]
Requests == [kind : {"status", "toggle", "data"}, watt : Powers]

Energy   == Seq(Powers)    \* the powers added, one per sample
OutQueue == Seq(Requests)
InQueue  == Seq(Replies)

MainPoints == {"idle", "open", "request", "poll", "start", "init", "work",
               "lock", "signal", "unlock", "join", "stop", "close",
               "fail", "undefined"}
MonPoints  == {"none", "ready", "waiting", "woken", "expired", "read", "write",
               "ended"}
Live       == {"ready", "waiting", "woken", "expired", "read", "write"}

TypeOK ==
  /\ main \in MainPoints
  /\ session \in Nat
  /\ initialized \in BOOLEAN
  /\ handle \in {"none", "null", "open", "closed"}
  /\ sync \in BOOLEAN
  /\ lock \in {"free", "main", "monitor"}
  /\ mon \in MonPoints
  /\ initial \in BOOLEAN
  /\ tries \in Nat
  /\ curWatt \in Powers
  /\ consumed \in Energy
  /\ returned \in Energy
  /\ toDev \in OutQueue
  /\ fromDev \in InQueue
  /\ running \in BOOLEAN

\* Somebody may have left the device running.
Init ==
  /\ main = "idle"
  /\ session = 0
  /\ initialized = FALSE
  /\ handle = "none"
  /\ sync = FALSE
  /\ lock = "free"
  /\ mon = "none"
  /\ initial = FALSE
  /\ tries = 0
  /\ curWatt = Unread
  /\ consumed = <<>>
  /\ returned = <<>>
  /\ toDev = <<>>
  /\ fromDev = <<>>
  /\ running \in BOOLEAN

-----------------------------------------------------------------------------
(* The device and the HID calls.                                           *)

\* The device handles its oldest request.
Device ==
  /\ toDev # <<>>
  /\ LET r == Head(toDev) IN
       /\ running' = IF r.kind = "toggle" THEN ~running ELSE running
       /\ fromDev' = CASE r.kind = "status" -> Append(fromDev, StatusReply(running))
                       [] r.kind = "data"   -> Append(fromDev, DataReply(r.watt))
                       [] OTHER             -> fromDev
  /\ toDev' = Tail(toDev)
  /\ UNCHANGED <<main, session, initialized, handle, sync, lock, mon, initial,
                 tries, curWatt, consumed, returned>>

\* The host's next HID call finds the device done, unless it is a slow one.
Settled == "slow" \in Faults \/ toDev = <<>>

Write(r) == Settled /\ toDev' = Append(toDev, r)
IOError  == Settled /\ "io" \in Faults

-----------------------------------------------------------------------------
(* The main thread: read_before.                                           *)

ReadBeforeKeepsEnergy ==
  /\ main = "idle"
  /\ session < MaxSessions
  /\ main' = "open"
  /\ session' = session + 1
  /\ initialized' = FALSE
  /\ UNCHANGED <<handle, sync, lock, mon, initial, tries, curWatt, consumed, returned,
                 devVars>>

ReadBefore ==
  /\ main = "idle"
  /\ session < MaxSessions
  /\ main' = "open"
  /\ session' = session + 1
  /\ initialized' = FALSE
  /\ consumed' = <<>>
  /\ UNCHANGED <<handle, sync, lock, mon, initial, tries, curWatt, returned, devVars>>

\* hid_open, then hid_set_nonblocking.  A NULL handle is reported and used all
\* the same.
HidOpen ==
  /\ main = "open"
  /\ \/ /\ handle' = "open"
        /\ main' = "request"
     \/ /\ "open" \in Faults
        /\ handle' = "null"
        /\ main' = "undefined"
  /\ UNCHANGED <<session, initialized, sync, lock, mon, initial, tries, curWatt,
                 consumed, returned, devVars>>

\* readStatus writes its request.
StatusRequest ==
  /\ main = "request"
  /\ \/ /\ Write(Request("status"))
        /\ main' = "poll"
        /\ tries' = StatusTries
     \/ /\ IOError
        /\ main' = "fail"
        /\ UNCHANGED <<toDev, tries>>
  /\ UNCHANGED <<session, initialized, handle, sync, lock, mon, initial, curWatt,
                 consumed, returned, fromDev, running>>

\* while (count--)
MoreTriesOffByOne == tries >= 0
MoreTries == tries > 0

\* read_before starts a device that is not measuring.
AfterStatusUnchecked(on) == "start"
AfterStatus(on) == IF on THEN "init" ELSE "start"

\* One turn of readStatus' loop: a non-blocking read that finds nothing, finds
\* another reply, or finds the status and ends the loop.
StatusPoll ==
  /\ main = "poll"
  /\ Settled
  /\ \/ /\ ~MoreTries
        /\ main' = "fail"
        /\ UNCHANGED <<tries, fromDev>>
     \/ /\ IOError
        /\ MoreTries
        /\ main' = "fail"
        /\ UNCHANGED <<tries, fromDev>>
     \/ /\ MoreTries
        /\ fromDev = <<>>
        /\ tries' = tries - 1
        /\ UNCHANGED <<main, fromDev>>
     \/ /\ MoreTries
        /\ fromDev # <<>>
        /\ fromDev' = Tail(fromDev)
        /\ tries' = tries - 1
        /\ main' = IF Head(fromDev).kind # "status" THEN main
                   ELSE AfterStatus(Head(fromDev).on)
  /\ UNCHANGED <<session, initialized, handle, sync, lock, mon, initial, curWatt,
                 consumed, returned, toDev, running>>

\* toggleStart: only the write is checked.
ToggleStart ==
  /\ main = "start"
  /\ \/ Write(Request("toggle")) /\ main' = "init"
     \/ IOError /\ main' = "fail" /\ UNCHANGED toDev
  /\ UNCHANGED <<session, initialized, handle, sync, lock, mon, initial, tries,
                 curWatt, consumed, returned, fromDev, running>>

\* hid_close frees the handle and the replies queued in it.
HidClose == Settled /\ handle' = "closed" /\ fromDev' = <<>>

\* The error path of readStatus and toggleStart: read_before returns false, and
\* calculate runs its function all the same.
FailBefore ==
  /\ main = "fail"
  /\ HidClose
  /\ main' = "work"
  /\ UNCHANGED <<session, initialized, sync, lock, mon, initial, tries, curWatt,
                 consumed, returned, toDev, running>>

\* pthread_mutex_init, pthread_cond_init, pthread_create: all of them, or an
\* error path that undoes those that succeeded.  Initialising a mutex and a
\* condition variable that a monitor is using is undefined.
CreateMonitor ==
  /\ main = "init"
  /\ \/ /\ mon \notin Live
        /\ sync' = TRUE
        /\ mon' = "ready"
        /\ initial' = TRUE
        /\ initialized' = TRUE
        /\ main' = "work"
        /\ UNCHANGED <<handle, fromDev>>
     \/ /\ mon \in Live
        /\ main' = "undefined"
        /\ UNCHANGED <<handle, fromDev, sync, mon, initial, initialized>>
     \/ /\ "init" \in Faults
        /\ mon \notin Live
        /\ HidClose
        /\ main' = "work"
        /\ UNCHANGED <<sync, mon, initial, initialized>>
  /\ UNCHANGED <<session, lock, tries, curWatt, consumed, returned, toDev, running>>

-----------------------------------------------------------------------------
(* The main thread: the caller and read_after.                             *)

\* The repeat loop ends and read_after is called; without `initialized' it
\* returns 0 at once.
FinishWork ==
  /\ main = "work"
  /\ \/ initialized /\ main' = "lock" /\ UNCHANGED returned
     \/ ~initialized /\ main' = "idle" /\ returned' = <<>>
  /\ UNCHANGED <<session, initialized, handle, sync, lock, mon, initial, tries,
                 curWatt, consumed, devVars>>

\* A benchmark function returns false: calculate returns without read_after.
AbandonWork ==
  /\ main = "work"
  /\ "function" \in Faults
  /\ main' = "idle"
  /\ UNCHANGED <<session, initialized, handle, sync, lock, mon, initial, tries,
                 curWatt, consumed, returned, devVars>>

LockToSignal ==
  /\ main = "lock"
  /\ lock = "free"
  /\ lock' = "main"
  /\ main' = "signal"
  /\ UNCHANGED <<session, initialized, handle, sync, mon, initial, tries, curWatt,
                 consumed, returned, devVars>>

\* pthread_cond_signal wakes a thread that waits and does nothing otherwise.
Signal ==
  /\ main = "signal"
  /\ mon' = IF mon = "waiting" THEN "woken" ELSE mon
  /\ main' = "unlock"
  /\ UNCHANGED <<session, initialized, handle, sync, lock, initial, tries, curWatt,
                 consumed, returned, devVars>>

Unlock ==
  /\ main = "unlock"
  /\ lock' = "free"
  /\ main' = "join"
  /\ UNCHANGED <<session, initialized, handle, sync, mon, initial, tries, curWatt,
                 consumed, returned, devVars>>

JoinWithoutWaiting ==
  /\ main = "join"
  /\ main' = "stop"
  /\ UNCHANGED <<session, initialized, handle, sync, lock, mon, initial, tries, curWatt,
                 consumed, returned, devVars>>

Join ==
  /\ main = "join"
  /\ mon = "ended"
  /\ mon' = "none"
  /\ main' = "stop"
  /\ UNCHANGED <<session, initialized, handle, sync, lock, initial, tries, curWatt,
                 consumed, returned, devVars>>

\* toggleStart(true), whose result is ignored.
StopDevice ==
  /\ main = "stop"
  /\ \/ Write(Request("toggle"))
     \/ IOError /\ UNCHANGED toDev
  /\ main' = "close"
  /\ UNCHANGED <<session, initialized, handle, sync, lock, mon, initial, tries,
                 curWatt, consumed, returned, fromDev, running>>

\* hid_close, the two destroys, and the return; `initialized' stays set.
FinishAfter ==
  /\ main = "close"
  /\ HidClose
  /\ sync' = FALSE
  /\ returned' = consumed
  /\ main' = "idle"
  /\ UNCHANGED <<session, initialized, lock, mon, initial, tries, curWatt, consumed,
                 toDev, running>>

-----------------------------------------------------------------------------
(* The monitor thread: runMonitor.                                         *)

\* pthread_mutex_lock, the deadline, and pthread_cond_timedwait, which gives
\* the mutex back: nothing in between is shared.
MonWait ==
  /\ main # "undefined"
  /\ mon = "ready"
  /\ lock = "free"
  /\ mon' = "waiting"
  /\ UNCHANGED <<mainVars, handle, sync, lock, initial, curWatt, consumed, devVars>>

\* The deadline passes.  The thread has left the wait, and takes the mutex back
\* in the step after.
MonExpire ==
  /\ main # "undefined"
  /\ mon = "waiting"
  /\ Len(consumed) < MaxTicks
  /\ mon' = "expired"
  /\ UNCHANGED <<mainVars, handle, sync, lock, initial, curWatt, consumed, devVars>>

\* POSIX lets the wait return 0 without a signal.
MonSpurious ==
  /\ main # "undefined"
  /\ mon = "waiting"
  /\ "spurious" \in Faults
  /\ mon' = "woken"
  /\ UNCHANGED <<mainVars, handle, sync, lock, initial, curWatt, consumed, devVars>>

\* Any other result is printed and the loop goes round.
MonWaitError ==
  /\ main # "undefined"
  /\ mon = "waiting"
  /\ "wait" \in Faults
  /\ lock = "free"
  /\ mon' = "ready"
  /\ UNCHANGED <<mainVars, handle, sync, lock, initial, curWatt, consumed, devVars>>

\* The wait returned 0: the thread unlocks and ends.
MonStopGoesOn ==
  /\ main # "undefined"
  /\ mon = "woken"
  /\ lock = "free"
  /\ mon' = "ready"
  /\ UNCHANGED <<mainVars, handle, sync, lock, initial, curWatt, consumed, devVars>>

MonStop ==
  /\ main # "undefined"
  /\ mon = "woken"
  /\ lock = "free"
  /\ mon' = "ended"
  /\ UNCHANGED <<mainVars, handle, sync, lock, initial, curWatt, consumed, devVars>>

\* The wait returned ETIMEDOUT: getSensorDatas, with the mutex held.
MonSampleAlwaysInitial ==
  /\ main # "undefined"
  /\ mon = "expired"
  /\ lock = "free"
  /\ lock' = "monitor"
  /\ mon' = "write"
  /\ UNCHANGED <<mainVars, handle, sync, initial, curWatt, consumed, devVars>>

MonSample ==
  /\ main # "undefined"
  /\ mon = "expired"
  /\ lock = "free"
  /\ lock' = "monitor"
  /\ mon' = IF initial THEN "write" ELSE "read"
  /\ initial' = FALSE
  /\ UNCHANGED <<mainVars, handle, sync, curWatt, consumed, devVars>>

\* A HID call on a handle that was closed under the monitor.
MonLostHandle ==
  /\ mon \in {"read", "write"}
  /\ handle # "open"
  /\ main # "undefined"
  /\ main' = "undefined"
  /\ UNCHANGED <<session, initialized, tries, returned, handle, sync, lock, mon,
                 initial, curWatt, consumed, devVars>>

\* An error in getSensorDatas ends the thread.
MonFailKeepsLock ==
  /\ IOError
  /\ mon' = "ended"
  /\ UNCHANGED lock

MonFail ==
  /\ IOError
  /\ lock' = "free"
  /\ mon' = "ended"

\* The non-blocking hid_read: nothing, another reply, or a new power.
MonRead ==
  /\ main # "undefined"
  /\ mon = "read"
  /\ handle = "open"
  /\ Settled
  /\ \/ /\ MonFail
        /\ UNCHANGED <<fromDev, curWatt>>
     \/ /\ fromDev = <<>>
        /\ mon' = "write"
        /\ UNCHANGED <<lock, fromDev, curWatt>>
     \/ /\ fromDev # <<>>
        /\ curWatt' = IF Head(fromDev).kind = "data" THEN Head(fromDev).watt ELSE curWatt
        /\ fromDev' = Tail(fromDev)
        /\ mon' = "write"
        /\ UNCHANGED lock
  /\ UNCHANGED <<mainVars, handle, sync, initial, consumed, toDev, running>>

\* The next request; if it could be written, the power known is added and the
\* mutex released.
MonWrite ==
  /\ main # "undefined"
  /\ mon = "write"
  /\ handle = "open"
  /\ \/ /\ MonFail
        /\ UNCHANGED <<toDev, consumed>>
     \/ /\ Write(DataRequest(<<session, Len(consumed) + 1>>))
        /\ consumed' = Append(consumed, curWatt)
        /\ lock' = "free"
        /\ mon' = "ready"
  /\ UNCHANGED <<mainVars, handle, sync, initial, curWatt, fromDev, running>>

-----------------------------------------------------------------------------
(* The specification.                                                      *)

\* The program has made its last measurement, or left defined behaviour.
Finished ==
  /\ \/ main = "idle" /\ session = MaxSessions
     \/ main = "undefined"
  /\ UNCHANGED vars

Main ==
  \/ ReadBefore \/ HidOpen \/ StatusRequest \/ StatusPoll \/ ToggleStart
  \/ FailBefore \/ CreateMonitor \/ FinishWork \/ AbandonWork \/ LockToSignal
  \/ Signal \/ Unlock \/ Join \/ StopDevice \/ FinishAfter

Monitor ==
  \/ MonWait \/ MonExpire \/ MonSpurious \/ MonWaitError \/ MonStop \/ MonSample
  \/ MonLostHandle \/ MonRead \/ MonWrite

Next == Main \/ Monitor \/ Device \/ Finished

Spec == Init /\ [][Next]_vars

\* The threads are scheduled, benchmark functions end, deadlines pass and the
\* device answers.  The main thread gets the mutex in the end (strong fairness):
\* the monitor leaves it free for 250 ms after each of its turns.
Fairness ==
  /\ \A a \in {"work", "signal", "unlock", "join", "stop", "close"} :
       WF_vars(main = a /\ Main)
  /\ SF_vars(LockToSignal)
  /\ WF_vars(MonWait) /\ WF_vars(MonExpire) /\ WF_vars(MonStop)
  /\ WF_vars(MonSample) /\ WF_vars(MonRead) /\ WF_vars(MonWrite)
  /\ WF_vars(Device)

FairSpec == Spec /\ Fairness

-----------------------------------------------------------------------------
(* Properties.                                                             *)

\* A monitor that is alive has its device open and its mutex and condition
\* variable in existence, and the main thread is between the call that created
\* it and the join.  read_before and read_after order the hid_close, the two
\* destroys and the join to get this; it needs a caller that always pairs them.
Measuring == {"work", "lock", "signal", "unlock", "join"}
MonitorConfined ==
  "function" \notin Faults /\ mon \in Live =>
    main \in Measuring /\ handle = "open" /\ sync /\ initialized

\* As long as hid_open succeeds and calculate never skips read_after, nobody uses
\* a NULL or closed handle and nobody initialises a mutex in use.
NoUndefined ==
  {"open", "function"} \cap Faults = {} => main # "undefined"

\* Whatever fails, read_after destroys the mutex and the condition variable only when no
\* monitor uses them, also after a measurement that the caller has abandoned.  What
\* read_before or a delete of the meter does beside the monitor left over by that is not
\* what this says: the one ends in undefined, the other is not modelled.
SyncOutlivesMonitor == mon \in Live => sync

\* The mutex is held by the monitor only while it talks to the device and by the
\* main thread only around the signal: an error in getSensorDatas, and a monitor
\* that ends, leave it free.
MutexHeldInside ==
  /\ lock = "monitor" => mon \in {"read", "write"}
  /\ lock = "main" => main \in {"signal", "unlock"}

\* STARTSTOP toggles, and the write that stops the device may fail unnoticed.
\* All the same, a device that has handled what it was sent is measuring while
\* the benchmark runs under a monitor: readStatus resynchronises the next session.
MeasuresRunningDevice ==
  ({"function", "slow"} \cap Faults = {} /\ main = "work" /\ mon \in Live
     /\ toDev = <<>>) => running

\* From the second sample of a session on, what is added is the device's answer
\* to the request of the sample before, in this session.
SampleFresh ==
  {"function", "slow"} \cap Faults = {} =>
    \A i \in 2..Len(consumed) : consumed[i] = <<session, i - 1>>

\* README.md:59 says the energy is computed from the data gathered every 250 ms.
\* The first sample of a session is added before any reply was read.
EverySampleGathered ==
  \A i \in 1..Len(consumed) : consumed[i][1] = session

\* pthread_cond_signal is not remembered, so a monitor that was not waiting misses
\* it.  But read_after always gets to its signal, and returns if the monitor was
\* waiting for it or had ended before.
HeardSignalReturns ==
  /\ (main = "lock") ~> (main = "signal")
  /\ (main = "unlock" /\ mon \in {"woken", "ended"}) ~> (main = "idle")

\* README.md:55 promises the energy of the running benchmark: a measurement that
\* was started is reported in the end.
MeasurementReported == (main = "lock") ~> (main = "idle")

\* The meter is what power.h promises: samples are added only between read_before
\* and read_after, and what read_after returns is what was added.
Meter == INSTANCE PowerMeter WITH
  measuring <- \/ main \in {"lock", "signal", "unlock", "join", "stop", "close"}
               \/ main = "work" /\ initialized,
  energy    <- Len(consumed),
  reported  <- Len(returned)

ImplementsMeter == Meter!Spec

=============================================================================
