------------------------------- MODULE HidApple --------------------------------
(***************************************************************************)
(* A HID device as power/hid_apple.cpp keeps it: a read thread in a Core   *)
(* Foundation run loop whose callbacks queue reports and note the removal  *)
(* of the device, and a caller that opens, reads, writes and closes.       *)
(*                                                                         *)
(* The two meet at two barriers.  A barrier is the code's own, from a      *)
(* mutex, a condition variable and a count, and its wait tests nothing     *)
(* after it wakes: a spurious wakeup leaves it early.                      *)
(*                                                                         *)
(* Core Foundation and IOKit are external: a callback runs on the thread   *)
(* in whose run loop the device is scheduled, while it runs; the caller    *)
(* never runs its own.  A source stays signalled until it is performed.    *)
(* CFRunLoopStop within a callback makes the run return Stopped.           *)
(***************************************************************************)
EXTENDS Naturals, Sequences

CONSTANTS
  MaxReports,  \* bound: the reports the device sends
  Limit,       \* what num_queued is compared with: 30 in the code
  Faults       \* what may go wrong: "unplug", "submit" (a write fails), "events" (the
               \* run loop ends), "barrier" (a wait in a barrier wakes by itself)

VARIABLES
  user,      \* where the caller is
  blocking,  \* dev->blocking
  reading,   \* the deadline of the read it waits in, "no" outside
  result, taken,  \* what its last call returned, and the last report it was given
  reader,    \* where the read thread is
  mutex,     \* dev->mutex is held by the caller between two of its steps
  shutdown,  \* dev->shutdown_thread
  queue,     \* dev->input_reports
  sent,      \* reports the device has sent
  plugged,   \* the device is connected
  disconnected, \* dev->disconnected
  scheduled,    \* the device is scheduled in the run loop of the read thread, with its
                \* callbacks registered
  source,       \* dev->run_loop and dev->source are "unset", set ("quiet"), or the
                \* source is signalled ("signalled")
  barrier,      \* dev->barrier and dev->shutdown_barrier: their count and who waits
  early,        \* a wait in a barrier has returned before the barrier was full
  undefined     \* the run loop was used when there was none

userVars == <<blocking, reading, result, taken>>
appleVars == <<disconnected, scheduled, source, barrier, early, undefined>>
vars == <<user, userVars, reader, mutex, shutdown, queue, sent, plugged, appleVars>>

Barriers == {"start", "stop"}

TypeOK ==
  /\ user \in {"none", "arrive", "start", "idle", "sleepy", "waiting", "woken", "expired",
               "flag", "signal", "meet", "stop", "join", "free", "closed"}
  /\ blocking \in BOOLEAN
  /\ reading \in {"no", "never", "later"}
  /\ result \in {"none", "data", "nothing", "error", "written"}
  /\ taken \in Nat
  /\ reader \in {"none", "setup", "arrive", "start", "loop", "run", "stopped", "broadcast",
                 "meet", "stop", "ended"}
  /\ mutex \in BOOLEAN
  /\ shutdown \in BOOLEAN
  /\ queue \in Seq(1..MaxReports)
  /\ sent \in Nat
  /\ plugged \in BOOLEAN
  /\ disconnected \in BOOLEAN
  /\ scheduled \in BOOLEAN
  /\ source \in {"unset", "quiet", "signalled"}
  /\ \A b \in Barriers : barrier[b].count \in 0..1 /\ barrier[b].waits \subseteq {"user", "reader"}
  /\ early \in BOOLEAN
  /\ undefined \in BOOLEAN

Init ==
  /\ user = "none"
  /\ blocking = TRUE
  /\ reading = "no"
  /\ result = "none"
  /\ taken = 0
  /\ reader = "none"
  /\ mutex = FALSE
  /\ shutdown = FALSE
  /\ queue = <<>>
  /\ sent = 0
  /\ plugged = TRUE
  /\ disconnected = FALSE
  /\ scheduled = FALSE
  /\ source = "unset"
  /\ barrier = [b \in Barriers |-> [count |-> 0, waits |-> {}]]
  /\ early = FALSE
  /\ undefined = FALSE

-----------------------------------------------------------------------------
(* pthread_barrier_wait of lines 75-92: the second to arrive wakes the     *)
(* first.                                                                  *)

Arrive(b, who) ==
  barrier' = [barrier EXCEPT ![b] =
    IF @.count = 1 THEN [count |-> 0, waits |-> {}]
    ELSE [count |-> 1, waits |-> {who}]]
Released(b, who) == who \notin barrier[b].waits

WakeInBarrier ==
  /\ "barrier" \in Faults
  /\ \E b \in Barriers : \E who \in barrier[b].waits :
       barrier' = [barrier EXCEPT ![b].waits = @ \ {who}]
  /\ early' = TRUE
  /\ UNCHANGED <<user, userVars, reader, mutex, shutdown, queue, sent, plugged, disconnected,
                 scheduled, source, undefined>>

-----------------------------------------------------------------------------
(* The device.                                                             *)

Unplug ==
  /\ "unplug" \in Faults
  /\ plugged
  /\ plugged' = FALSE
  /\ UNCHANGED <<user, userVars, reader, mutex, shutdown, queue, sent, appleVars>>

-----------------------------------------------------------------------------
(* The read thread.                                                        *)

\* The source and the run loop, before the barrier.
Setup ==
  /\ reader = "setup"
  /\ reader' = "arrive"
  /\ scheduled' = TRUE
  /\ source' = "quiet"
  /\ UNCHANGED <<user, userVars, mutex, shutdown, queue, sent, plugged, disconnected, barrier,
                 early, undefined>>

ReaderArrives ==
  /\ reader = "arrive"
  /\ Arrive("start", "reader")
  /\ reader' = "start"
  /\ UNCHANGED <<user, userVars, mutex, shutdown, queue, sent, plugged, disconnected, scheduled,
                 source, early, undefined>>

ReaderStarts ==
  /\ reader = "start"
  /\ Released("start", "reader")
  /\ reader' = "loop"
  /\ UNCHANGED <<user, userVars, mutex, shutdown, queue, sent, plugged, appleVars>>

Loop ==
  /\ reader = "loop"
  /\ reader' = IF shutdown \/ disconnected THEN "broadcast" ELSE "run"
  /\ UNCHANGED <<user, userVars, mutex, shutdown, queue, sent, plugged, appleVars>>

Wake == user' = IF user = "waiting" THEN "woken" ELSE user

\* hid_report_callback: the report is appended; with more than Limit others before
\* the last one the oldest is dropped; whoever waits is signalled.
Enqueue(q, r) == Append(IF Len(q) - 1 > Limit THEN Tail(q) ELSE q, r)
ReportCallback ==
  /\ reader = "run"
  /\ scheduled /\ plugged /\ sent < MaxReports
  /\ ~mutex
  /\ sent' = sent + 1
  /\ queue' = Enqueue(queue, sent')
  /\ Wake
  /\ UNCHANGED <<userVars, reader, mutex, shutdown, plugged, appleVars>>

RemovalOnlyNoted ==
  /\ reader = "run"
  /\ scheduled /\ ~plugged
  /\ disconnected' = TRUE
  /\ UNCHANGED <<user, userVars, reader, mutex, shutdown, queue, sent, plugged, scheduled, source,
                 barrier, early, undefined>>

\* hid_device_removal_callback: it stops the run loop too.
RemovalCallback ==
  /\ reader = "run"
  /\ scheduled /\ ~plugged
  /\ disconnected' = TRUE
  /\ reader' = "stopped"
  /\ UNCHANGED <<user, userVars, mutex, shutdown, queue, sent, plugged, scheduled, source,
                 barrier, early, undefined>>

\* perform_signal_callback
SignalCallback ==
  /\ reader = "run"
  /\ source = "signalled"
  /\ source' = "quiet"
  /\ reader' = "stopped"
  /\ UNCHANGED <<user, userVars, mutex, shutdown, queue, sent, plugged, disconnected, scheduled,
                 barrier, early, undefined>>

\* The run returns after 1000 seconds, or because nothing is left to run.
RunTimedOut ==
  /\ reader = "run"
  /\ reader' = "loop"
  /\ UNCHANGED <<user, userVars, mutex, shutdown, queue, sent, plugged, appleVars>>

RunFinished ==
  /\ reader = "run"
  /\ "events" \in Faults
  /\ disconnected' = TRUE
  /\ reader' = "broadcast"
  /\ UNCHANGED <<user, userVars, mutex, shutdown, queue, sent, plugged, scheduled, source,
                 barrier, early, undefined>>

\* A run that was stopped counts as an error.
RunStopped ==
  /\ reader = "stopped"
  /\ shutdown' = TRUE
  /\ reader' = "broadcast"
  /\ UNCHANGED <<user, userVars, mutex, queue, sent, plugged, appleVars>>

\* Then IOHIDDeviceClose, which nothing here depends on, and the way to the barrier.
Broadcast ==
  /\ reader = "broadcast"
  /\ ~mutex
  /\ Wake
  /\ reader' = "meet"
  /\ UNCHANGED <<userVars, mutex, shutdown, queue, sent, plugged, appleVars>>

\* The thread must not end before hid_close is past CFRunLoopWakeUp.
EndWithoutMeeting ==
  /\ reader = "meet"
  /\ reader' = "ended"
  /\ UNCHANGED <<user, userVars, mutex, shutdown, queue, sent, plugged, appleVars>>

MeetUser ==
  /\ reader = "meet"
  /\ Arrive("stop", "reader")
  /\ reader' = "stop"
  /\ UNCHANGED <<user, userVars, mutex, shutdown, queue, sent, plugged, disconnected, scheduled,
                 source, early, undefined>>

ReaderEnds ==
  /\ reader = "stop"
  /\ Released("stop", "reader")
  /\ reader' = "ended"
  /\ UNCHANGED <<user, userVars, mutex, shutdown, queue, sent, plugged, appleVars>>

-----------------------------------------------------------------------------
(* The caller.                                                             *)

\* hid_open_path, once IOHIDDeviceOpen has succeeded.
Open ==
  /\ user = "none"
  /\ user' = "arrive"
  /\ reader' = "setup"
  /\ UNCHANGED <<userVars, mutex, shutdown, queue, sent, plugged, appleVars>>

UserArrives ==
  /\ user = "arrive"
  /\ Arrive("start", "user")
  /\ user' = "start"
  /\ UNCHANGED <<userVars, reader, mutex, shutdown, queue, sent, plugged, disconnected, scheduled,
                 source, early, undefined>>

Opened ==
  /\ user = "start"
  /\ Released("start", "user")
  /\ user' = "idle"
  /\ UNCHANGED <<userVars, reader, mutex, shutdown, queue, sent, plugged, appleVars>>

SetNonblocking ==
  /\ user = "idle"
  /\ blocking' \in BOOLEAN
  /\ UNCHANGED <<user, reading, result, taken, reader, mutex, shutdown, queue, sent, plugged,
                 appleVars>>

\* hid_write: set_report
Write ==
  /\ user = "idle"
  /\ \/ plugged /\ ~disconnected /\ result' = "written"
     \/ (~plugged \/ disconnected \/ "submit" \in Faults) /\ result' = "error"
  /\ UNCHANGED <<user, blocking, reading, taken, reader, mutex, shutdown, queue, sent, plugged,
                 appleVars>>

Return(r) == result' = r /\ user' = "idle" /\ reading' = "no"

TakeReport ==
  /\ queue # <<>>
  /\ Return("data")
  /\ taken' = Head(queue)
  /\ queue' = Tail(queue)

ReadTimeout(deadline) ==
  /\ user = "idle"
  /\ ~mutex
  /\ \/ TakeReport /\ UNCHANGED mutex
     \/ /\ queue = <<>>
        /\ \/ (disconnected \/ shutdown) /\ Return("error") /\ UNCHANGED mutex
           \/ /\ ~disconnected /\ ~shutdown /\ deadline = "now"
              /\ Return("nothing") /\ UNCHANGED mutex
           \/ /\ ~disconnected /\ ~shutdown /\ deadline # "now"
              /\ reading' = deadline
              /\ mutex' = TRUE
              /\ user' = "sleepy"
              /\ UNCHANGED result
        /\ UNCHANGED <<taken, queue>>
  /\ UNCHANGED <<blocking, reader, shutdown, sent, plugged, appleVars>>

Read ==
  \/ ReadTimeout(IF blocking THEN "never" ELSE "now")  \* hid_read
  \/ ReadTimeout("later")                              \* hid_read_timeout

Sleep ==
  /\ user = "sleepy"
  /\ user' = "waiting"
  /\ mutex' = FALSE
  /\ UNCHANGED <<userVars, reader, shutdown, queue, sent, plugged, appleVars>>

Spurious ==
  /\ user = "waiting"
  /\ user' = "woken"
  /\ UNCHANGED <<userVars, reader, mutex, shutdown, queue, sent, plugged, appleVars>>

Expire ==
  /\ user = "waiting"
  /\ reading = "later"
  /\ user' = "expired"
  /\ UNCHANGED <<userVars, reader, mutex, shutdown, queue, sent, plugged, appleVars>>

\* cond_wait and cond_timedwait after a wakeup: the end of the device comes before
\* what is queued.
Awake ==
  /\ user = "woken"
  /\ ~mutex
  /\ \/ (shutdown \/ disconnected) /\ Return("error") /\ UNCHANGED <<taken, queue, mutex>>
     \/ ~shutdown /\ ~disconnected /\ TakeReport /\ UNCHANGED mutex
     \/ /\ ~shutdown /\ ~disconnected /\ queue = <<>>
        /\ user' = "sleepy"
        /\ mutex' = TRUE
        /\ UNCHANGED <<reading, result, taken, queue>>
  /\ UNCHANGED <<blocking, reader, shutdown, sent, plugged, appleVars>>

Expired ==
  /\ user = "expired"
  /\ ~mutex
  /\ Return("nothing")
  /\ UNCHANGED <<blocking, taken, reader, mutex, shutdown, queue, sent, plugged, appleVars>>

\* dev->run_loop and dev->source can be used: they were stored, and the thread lives.
RunLoopExists == source # "unset" /\ reader # "ended"
UseRunLoop == undefined' = (undefined \/ ~RunLoopExists)

\* hid_close: the callbacks are taken back and the device leaves the run loop.
Close ==
  /\ user = "idle"
  /\ IF disconnected
     THEN UNCHANGED <<scheduled, undefined>>
     ELSE scheduled' = FALSE /\ UseRunLoop
  /\ user' = "flag"
  /\ UNCHANGED <<userVars, reader, mutex, shutdown, queue, sent, plugged, disconnected, source,
                 barrier, early>>

CloseFlag ==
  /\ user = "flag"
  /\ shutdown' = TRUE
  /\ user' = "signal"
  /\ UNCHANGED <<userVars, reader, mutex, queue, sent, plugged, appleVars>>

\* CFRunLoopSourceSignal and CFRunLoopWakeUp
CloseSignal ==
  /\ user = "signal"
  /\ UseRunLoop
  /\ source' = IF source = "unset" THEN "unset" ELSE "signalled"
  /\ user' = "meet"
  /\ UNCHANGED <<userVars, reader, mutex, shutdown, queue, sent, plugged, disconnected, scheduled,
                 barrier, early>>

CloseMeet ==
  /\ user = "meet"
  /\ Arrive("stop", "user")
  /\ user' = "stop"
  /\ UNCHANGED <<userVars, reader, mutex, shutdown, queue, sent, plugged, disconnected, scheduled,
                 source, early, undefined>>

CloseMet ==
  /\ user = "stop"
  /\ Released("stop", "user")
  /\ user' = "join"
  /\ UNCHANGED <<userVars, reader, mutex, shutdown, queue, sent, plugged, appleVars>>

\* pthread_join; then the device is closed, and the queue and dev are freed.
CloseFree ==
  /\ user = "join"
  /\ reader = "ended"
  /\ queue' = <<>>
  /\ user' = "closed"
  /\ UNCHANGED <<userVars, reader, mutex, shutdown, sent, plugged, appleVars>>

-----------------------------------------------------------------------------
(* The specification.                                                      *)

\* The read thread, reports and the time limit of the run aside.
Callback == RemovalCallback \/ SignalCallback
ReadThread ==
  \/ Setup \/ ReaderArrives \/ ReaderStarts \/ Loop
  \/ Callback \/ RunStopped \/ Broadcast \/ MeetUser \/ ReaderEnds

\* The caller inside one of its calls, deadlines and spurious wakeups aside.
InCall ==
  \/ UserArrives \/ Opened \/ Sleep \/ Awake \/ Expired
  \/ CloseFlag \/ CloseSignal \/ CloseMeet \/ CloseMet \/ CloseFree

Next ==
  \/ ReadThread \/ ReportCallback \/ RunTimedOut \/ RunFinished \/ InCall
  \/ Open \/ SetNonblocking \/ Read \/ Write \/ Spurious \/ Expire \/ Close
  \/ WakeInBarrier \/ Unplug
  \/ user = "closed" /\ UNCHANGED vars

-----------------------------------------------------------------------------
(* What the properties of Hid ask of this backend.                         *)

\* The device is gone, or its thread stops.
Broken == ~plugged \/ reader \in {"broadcast", "meet", "stop", "ended"}

\* A caller that sleeps has nothing to be woken for: its queue is empty, and the read
\* thread has not passed its broadcast.
SleepsForReason ==
  user = "waiting" => queue = <<>> /\ reader \notin {"meet", "stop", "ended"}

=============================================================================
