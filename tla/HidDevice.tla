------------------------------- MODULE HidDevice -------------------------------
(***************************************************************************)
(* What power/hidapi.h promises of an open HID device, whatever the        *)
(* backend: reports are read in the order they arrived, each once; a read  *)
(* waits as long as its caller allows; and it fails only when the device   *)
(* or what drives it is broken.  hid_libusb.cpp, hid_apple.cpp and         *)
(* hid_linux.cpp are shown to implement it (Hid).                          *)
(*                                                                         *)
(* The number of reports kept for a caller that does not read is bounded:  *)
(* beyond it a backend drops the oldest or the newest one.                 *)
(***************************************************************************)
EXTENDS Naturals, Sequences

CONSTANT Capacity  \* the reports a device keeps

VARIABLES
  state,    \* "none", "open" or "closed"
  arrived,  \* how many reports have arrived; report n is the n-th of them
  queue,    \* those that have not been read or dropped
  reading,  \* the deadline of the read in progress: "never", "later", "now", or "no" read
  result,   \* what the last call returned
  taken,    \* the last report that was read
  broken    \* the device is gone, or nobody serves it any more

vars == <<state, arrived, queue, reading, result, taken, broken>>

Init ==
  /\ state = "none"
  /\ arrived = 0
  /\ queue = <<>>
  /\ reading = "no"
  /\ result = "none"
  /\ taken = 0
  /\ broken = FALSE

Open ==
  /\ state = "none"
  /\ state' = "open"
  /\ UNCHANGED <<arrived, queue, reading, result, taken, broken>>

Break ==
  /\ broken' = TRUE
  /\ UNCHANGED <<state, arrived, queue, reading, result, taken>>

Arrive ==
  /\ state = "open"
  /\ arrived' = arrived + 1
  /\ \/ Len(queue) < Capacity /\ queue' = Append(queue, arrived')
     \/ Len(queue) = Capacity /\ queue' \in {queue, Append(Tail(queue), arrived')}
  /\ UNCHANGED <<state, reading, result, taken, broken>>

\* hid_read and hid_read_timeout: a read that is not answered at once waits.
Begin(deadline) ==
  /\ reading' = deadline
  /\ UNCHANGED <<queue, result, taken>>

\* "The first byte will contain the Report number", 0 if there is nothing, -1 on error.
Answer(deadline) ==
  /\ reading' = "no"
  /\ \/ /\ queue # <<>>
        /\ result' = "data" /\ taken' = Head(queue) /\ queue' = Tail(queue)
     \/ /\ deadline = "later" \/ (deadline = "now" /\ queue = <<>>)
        /\ result' = "nothing" /\ UNCHANGED <<taken, queue>>
     \/ /\ broken
        /\ result' = "error" /\ UNCHANGED <<taken, queue>>

Read ==
  /\ state = "open"
  /\ \/ reading = "no" /\ \E d \in {"never", "later", "now"} : Begin(d) \/ Answer(d)
     \/ reading # "no" /\ Answer(reading)
  /\ UNCHANGED <<state, arrived, broken>>

\* hid_write, which the device may refuse
Write ==
  /\ state = "open" /\ reading = "no"
  /\ result' \in {"written", "error"}
  /\ UNCHANGED <<state, arrived, queue, reading, taken, broken>>

\* hid_close: what has not been read, and what is on its way, is lost.
Close ==
  /\ state = "open" /\ reading = "no"
  /\ state' = "closed"
  /\ queue' = <<>>
  /\ arrived' \in {arrived, arrived + 1}
  /\ UNCHANGED <<reading, result, taken, broken>>

Next == Open \/ Break \/ Arrive \/ Read \/ Write \/ Close

Spec == Init /\ [][Next]_vars

=============================================================================
