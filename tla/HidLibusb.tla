------------------------------ MODULE HidLibusb ------------------------------
(***************************************************************************)
(* A HID device as power/hid_libusb.cpp keeps it: a read thread that has   *)
(* one libusb transfer in flight and queues what it brings, and a caller   *)
(* that opens the device, reads reports from the queue, blocking or not,   *)
(* and closes it again.  The meters of power_smart_calc.cpp and            *)
(* power_smart_real.cpp are such callers.                                  *)
(*                                                                         *)
(* One action is one step between two points where the other thread can be *)
(* noticed.  The queue and the condition variable are only touched under   *)
(* dev->mutex; shutdown_thread is not protected by it.  libusb and the     *)
(* device are external: a transfer that is cancelled already cannot be     *)
(* cancelled again, and the comment at line 709 says so of one that is not *)
(* pending.                                                                *)
(***************************************************************************)
EXTENDS Naturals, Sequences

CONSTANTS
  MaxReports,  \* bound: the reports the device sends
  Limit,       \* what num_queued is compared with: 30 in the code
  Faults       \* what may go wrong: "unplug", "submit", "events"

VARIABLES
  user,      \* where the caller is
  blocking,  \* dev->blocking
  reading,   \* the deadline of the read it waits in, "no" outside
  result,    \* what its last call returned
  taken,     \* the last report it was given
  reader,    \* where the read thread is
  mutex,     \* dev->mutex is held by the caller between two of its steps
  shutdown,  \* dev->shutdown_thread
  queue,     \* dev->input_reports
  transfer,  \* what libusb knows of dev->transfer
  sent,      \* reports the device has sent; report n is the n-th of them
  plugged    \* the device is connected

userVars == <<blocking, reading, result, taken>>
usbVars == <<transfer, sent, plugged>>
vars == <<user, userVars, reader, mutex, shutdown, queue, usbVars>>

\* A transfer is not submitted, in flight, being cancelled, or has ended and
\* waits for its callback with the status given.
Ended == {"completed", "timed_out", "no_device", "failed", "cancelled"}
Transfers == {"none", "idle", "pending", "cancelling", "freed"} \cup Ended

TypeOK ==
  /\ user \in {"none", "barrier", "idle", "sleepy", "waiting", "woken", "expired",
               "cancel", "join", "closed"}
  /\ reading \in {"no", "never", "later"}
  /\ blocking \in BOOLEAN
  /\ result \in {"none", "data", "nothing", "error", "written"}
  /\ taken \in Nat
  /\ reader \in {"none", "submit", "barrier", "loop", "events", "resubmit", "cancel",
                 "drain", "broadcast", "ended"}
  /\ mutex \in BOOLEAN
  /\ shutdown \in BOOLEAN
  /\ queue \in Seq(1..MaxReports)
  /\ transfer \in Transfers
  /\ sent \in Nat
  /\ plugged \in BOOLEAN

Init ==
  /\ user = "none"
  /\ reading = "no"
  /\ blocking = TRUE
  /\ result = "none"
  /\ taken = 0
  /\ reader = "none"
  /\ mutex = FALSE
  /\ shutdown = FALSE
  /\ queue = <<>>
  /\ transfer = "none"
  /\ sent = 0
  /\ plugged = TRUE

-----------------------------------------------------------------------------
(* libusb and the device.                                                  *)

\* A transfer in flight ends.
EndTransfer ==
  /\ \/ /\ transfer = "pending" /\ plugged /\ sent < MaxReports
        /\ transfer' = "completed"
        /\ sent' = sent + 1
     \/ /\ transfer = "pending" /\ plugged
        /\ transfer' \in {"timed_out", "failed"}
        /\ UNCHANGED sent
     \/ /\ transfer = "pending" /\ ~plugged
        /\ transfer' = "no_device"
        /\ UNCHANGED sent
     \/ /\ transfer = "cancelling"
        /\ transfer' = "cancelled"
        /\ UNCHANGED sent
  /\ UNCHANGED <<user, userVars, reader, mutex, shutdown, queue, plugged>>

Unplug ==
  /\ "unplug" \in Faults
  /\ plugged
  /\ plugged' = FALSE
  /\ UNCHANGED <<user, userVars, reader, mutex, shutdown, queue, transfer, sent>>

\* libusb_submit_transfer; nobody looks at its result.
Submit ==
  \/ plugged /\ transfer' = "pending"
  \/ (~plugged \/ "submit" \in Faults) /\ transfer' = "idle"

\* libusb_cancel_transfer returns 0 for a transfer in flight only.
Cancel(ok) ==
  /\ ok = (transfer = "pending")
  /\ transfer' = IF ok THEN "cancelling" ELSE transfer

-----------------------------------------------------------------------------
(* The read thread.                                                        *)

\* The first submission, before the barrier.
FirstSubmit ==
  /\ reader = "submit"
  /\ Submit
  /\ reader' = "barrier"
  /\ UNCHANGED <<user, userVars, mutex, shutdown, queue, sent, plugged>>

Loop ==
  /\ reader = "loop"
  /\ reader' = IF shutdown THEN "cancel" ELSE "events"
  /\ UNCHANGED <<user, userVars, mutex, shutdown, queue, usbVars>>

\* pthread_cond_signal and pthread_cond_broadcast: there is one thread to wake.
Wake == user' = IF user = "waiting" THEN "woken" ELSE user

\* The list of reports q after report r was attached to its end.
EnqueueBlank(q, r) == Append(q, 0)
EnqueueAtRoot(q, r) == <<r>> \o q
Enqueue(q, r) == Append(IF Len(q) - 1 > Limit THEN Tail(q) ELSE q, r)

\* read_callback with a report: it is appended; the empty queue is signalled; with
\* more than Limit others before the last one the oldest is dropped.
CallbackReport ==
  /\ transfer = "completed"
  /\ ~mutex
  /\ queue' = Enqueue(queue, sent)
  /\ IF queue = <<>> THEN Wake ELSE UNCHANGED user
  /\ transfer' = "idle"
  /\ reader' = "resubmit"
  /\ UNCHANGED shutdown

\* read_callback without one: a timeout, or an unknown code.
CallbackEmpty ==
  /\ transfer \in {"timed_out", "failed"}
  /\ transfer' = "idle"
  /\ reader' = "resubmit"
  /\ UNCHANGED <<user, queue, shutdown>>

\* read_callback of a transfer that is not submitted again.
CallbackShutdown(next) ==
  /\ transfer \in {"cancelled", "no_device"}
  /\ shutdown' = TRUE
  /\ transfer' = "idle"
  /\ reader' = next
  /\ UNCHANGED <<user, queue>>

\* libusb_handle_events runs the callback of a transfer that has ended; without
\* one it returns after a while; or it fails.
NoEvent(returns, fails) ==
  /\ \/ transfer \notin Ended /\ reader' = returns
     \/ "events" \in Faults /\ reader' = fails
  /\ UNCHANGED <<user, shutdown, queue, transfer>>

\* In the loop a failure is the end of the loop.
HandleEvents ==
  /\ reader = "events"
  /\ CallbackReport \/ CallbackEmpty \/ CallbackShutdown("loop") \/ NoEvent("loop", "cancel")
  /\ UNCHANGED <<userVars, mutex, sent, plugged>>

\* The end of read_callback, in the loop.
Resubmit ==
  /\ reader = "resubmit"
  /\ Submit
  /\ reader' = "loop"
  /\ UNCHANGED <<user, userVars, mutex, shutdown, queue, sent, plugged>>

\* The thread stops: it cancels the transfer, and if it could, waits for that.
StopTransfer ==
  /\ reader = "cancel"
  /\ \E ok \in BOOLEAN : Cancel(ok) /\ reader' = IF ok THEN "drain" ELSE "broadcast"
  /\ UNCHANGED <<user, userVars, mutex, shutdown, queue, sent, plugged>>

Drain ==
  /\ reader = "drain"
  /\ CallbackShutdown("broadcast") \/ NoEvent("broadcast", "broadcast")
  /\ UNCHANGED <<userVars, mutex, sent, plugged>>

BroadcastUnlocked ==
  /\ reader = "broadcast"
  /\ Wake
  /\ reader' = "ended"
  /\ UNCHANGED <<userVars, mutex, shutdown, queue, usbVars>>

Broadcast ==
  /\ reader = "broadcast"
  /\ ~mutex
  /\ Wake
  /\ reader' = "ended"
  /\ UNCHANGED <<userVars, mutex, shutdown, queue, usbVars>>

-----------------------------------------------------------------------------
(* The caller.                                                             *)

\* hid_open_path: new_hid_device, pthread_create, and the barrier.
Open ==
  /\ user = "none"
  /\ user' = "barrier"
  /\ reader' = "submit"
  /\ UNCHANGED <<userVars, mutex, shutdown, queue, usbVars>>

Opened ==
  /\ user = "barrier" /\ reader = "barrier"
  /\ user' = "idle" /\ reader' = "loop"
  /\ UNCHANGED <<userVars, mutex, shutdown, queue, usbVars>>

SetNonblocking ==
  /\ user = "idle"
  /\ blocking' \in BOOLEAN
  /\ UNCHANGED <<user, reading, result, taken, reader, mutex, shutdown, queue, usbVars>>

\* hid_write: a control or an interrupt transfer of its own, which touches nothing of
\* dev and which an unplugged device cannot take.
Write ==
  /\ user = "idle"
  /\ \/ plugged /\ result' = "written"
     \/ (~plugged \/ "submit" \in Faults) /\ result' = "error"
  /\ UNCHANGED <<user, blocking, reading, taken, reader, mutex, shutdown, queue, usbVars>>

Return(r) == result' = r /\ user' = "idle" /\ reading' = "no"

\* return_data
TakeReport ==
  /\ queue # <<>>
  /\ Return("data")
  /\ taken' = Head(queue)
  /\ queue' = Tail(queue)

\* hid_read_timeout with a deadline of -1, 0 or more: what is queued, the error
\* of a device that is gone, nothing, or the way into the wait with the mutex held.
ReadTimeout(deadline) ==
  /\ user = "idle"
  /\ ~mutex
  /\ \/ TakeReport /\ UNCHANGED mutex
     \/ /\ queue = <<>>
        /\ \/ shutdown /\ Return("error") /\ UNCHANGED mutex
           \/ ~shutdown /\ deadline = "now" /\ Return("nothing") /\ UNCHANGED mutex
           \/ /\ ~shutdown /\ deadline # "now"
              /\ reading' = deadline
              /\ mutex' = TRUE
              /\ user' = "sleepy"
              /\ UNCHANGED result
        /\ UNCHANGED <<taken, queue>>
  /\ UNCHANGED <<blocking, reader, shutdown, usbVars>>

Read ==
  \/ ReadTimeout(IF blocking THEN "never" ELSE "now")    \* hid_read
  \/ ReadTimeout("later")                                \* hid_read_timeout

\* pthread_cond_wait and pthread_cond_timedwait
Sleep ==
  /\ user = "sleepy"
  /\ user' = "waiting"
  /\ mutex' = FALSE
  /\ UNCHANGED <<userVars, reader, shutdown, queue, usbVars>>

Spurious ==
  /\ user = "waiting"
  /\ user' = "woken"
  /\ UNCHANGED <<userVars, reader, mutex, shutdown, queue, usbVars>>

Expire ==
  /\ user = "waiting"
  /\ reading = "later"
  /\ user' = "expired"
  /\ UNCHANGED <<userVars, reader, mutex, shutdown, queue, usbVars>>

\* The wait returned 0, and the mutex is held again.
Awake ==
  /\ user = "woken"
  /\ ~mutex
  /\ \/ TakeReport /\ UNCHANGED mutex
     \/ queue = <<>> /\ shutdown /\ Return("error") /\ UNCHANGED <<taken, queue, mutex>>
     \/ /\ queue = <<>> /\ ~shutdown
        /\ user' = "sleepy"
        /\ mutex' = TRUE
        /\ UNCHANGED <<reading, result, taken, queue>>
  /\ UNCHANGED <<blocking, reader, shutdown, usbVars>>

\* The wait returned ETIMEDOUT: the read returns 0 whatever has arrived since.
Expired ==
  /\ user = "expired"
  /\ ~mutex
  /\ Return("nothing")
  /\ UNCHANGED <<blocking, taken, reader, mutex, shutdown, queue, usbVars>>

\* hid_close stops the read thread: shutdown_thread, then the transfer.
CloseWithoutShutdown ==
  /\ user = "idle"
  /\ user' = "cancel"
  /\ UNCHANGED <<userVars, reader, mutex, shutdown, queue, usbVars>>

Close ==
  /\ user = "idle"
  /\ shutdown' = TRUE
  /\ user' = "cancel"
  /\ UNCHANGED <<userVars, reader, mutex, queue, usbVars>>

CloseCancel ==
  /\ user = "cancel"
  /\ \E ok \in BOOLEAN : Cancel(ok)
  /\ user' = "join"
  /\ UNCHANGED <<userVars, reader, mutex, shutdown, queue, sent, plugged>>

\* pthread_join; then the transfer, the handle, the queue and dev are freed.
CloseFree ==
  /\ user = "join"
  /\ reader = "ended"
  /\ user' = "closed"
  /\ transfer' = "freed"
  /\ queue' = <<>>
  /\ UNCHANGED <<userVars, reader, mutex, shutdown, sent, plugged>>

-----------------------------------------------------------------------------
(* The specification.                                                      *)

Closed == user = "closed" /\ UNCHANGED vars

ReadThread ==
  FirstSubmit \/ Loop \/ HandleEvents \/ Resubmit \/ StopTransfer \/ Drain \/ Broadcast

\* The caller inside one of its calls, deadlines and spurious wakeups aside.
InCall == Opened \/ Sleep \/ Awake \/ Expired \/ CloseCancel \/ CloseFree

\* libusb ends a transfer that is cancelled or whose device is gone.
MustEnd == (transfer = "cancelling" \/ ~plugged) /\ EndTransfer

Next ==
  \/ ReadThread \/ InCall
  \/ Open \/ SetNonblocking \/ Read \/ Write \/ Spurious \/ Expire \/ Close
  \/ EndTransfer \/ Unplug \/ Closed

Spec == Init /\ [][Next]_vars

-----------------------------------------------------------------------------
(* What the properties of Hid ask of this backend.                         *)

\* The number of reports that have reached the queue or been lost on the way.
Arrived == IF transfer = "completed" THEN sent - 1 ELSE sent

\* The device is gone, or its thread stops.
Broken == ~plugged \/ reader \in {"cancel", "drain", "broadcast", "ended"}

\* Nobody will hear of the device again: a submission failed, whose result nobody
\* looks at (lines 670 and 694), or libusb_handle_events did, and the thread has
\* left its loop without setting shutdown_thread (line 703).
Deaf ==
  \/ transfer = "idle" /\ reader \in {"barrier", "loop", "events"}
  \/ ~shutdown /\ reader \in {"cancel", "drain", "broadcast", "ended"}

\* A caller that sleeps has nothing to be woken for: its queue is empty, and if
\* the read thread has ended on shutdown_thread, it has been told (the comment at
\* lines 716-720).
SleepsForReason ==
  user = "waiting" => queue = <<>> /\ ~(shutdown /\ reader = "ended")

-----------------------------------------------------------------------------
(* Properties.                                                             *)

\* hid_libusb.cpp:727-731 says the transfer "can be safely cleaned up after the
\* call to pthread_join()": libusb does not have it any more when it is freed.
FreesIdleTransfer == [][transfer' = "freed" => transfer = "idle"]_vars

=============================================================================
