------------------------------- MODULE HidLinux --------------------------------
(***************************************************************************)
(* A HID device as power/hid_linux.cpp keeps it: a descriptor of a hidraw  *)
(* node, which the Makefile's x86-64 Linux build uses.  It has no thread;  *)
(* the kernel queues the reports, and a read is a poll and a read.         *)
(*                                                                         *)
(* The kernel is external: it keeps Capacity reports and drops what comes  *)
(* then; poll returns when there is a report or the device has gone; read  *)
(* waits for either unless the descriptor is non-blocking.  Kernels before *)
(* 2.6.34 put a byte before each report of a device that numbers them;     *)
(* hid_read_timeout takes it off again when it knows the kernel and the    *)
(* device.                                                                 *)
(***************************************************************************)
EXTENDS Naturals, Sequences

CONSTANTS
  MaxReports,   \* bound: the reports the device sends
  Capacity,     \* the reports the kernel keeps
  Faults,       \* what may go wrong: "unplug", "submit" (a write fails), "ioctl"
  Descriptors,  \* the report descriptors looked at: [bytes, numbered]
  Kernels       \* the kernels looked at: [old, release] with what sscanf finds in it

VARIABLES
  user,      \* where the caller is
  blocking,  \* dev->blocking, and the descriptor without O_NONBLOCK
  reading,   \* the deadline of the read in progress, "no" outside
  result, taken,  \* what the last call returned, and the last report it was given
  queue,     \* the reports the kernel keeps
  sent,      \* reports the device has sent
  plugged,   \* the device is connected
  device,    \* the report descriptor of the device
  kernel,    \* the kernel
  uses_numbered_reports  \* dev->uses_numbered_reports

hidrawVars == <<device, kernel, uses_numbered_reports>>
vars == <<user, blocking, reading, result, taken, queue, sent, plugged, hidrawVars>>

TypeOK ==
  /\ user \in {"none", "idle", "poll", "read", "closed"}
  /\ blocking \in BOOLEAN
  /\ reading \in {"no", "never", "later", "now"}
  /\ result \in {"none", "data", "nothing", "error", "written"}
  /\ taken \in Nat
  /\ queue \in Seq(1..MaxReports)
  /\ sent \in Nat
  /\ plugged \in BOOLEAN
  /\ device \in Descriptors
  /\ kernel \in Kernels
  /\ uses_numbered_reports \in BOOLEAN

Init ==
  /\ user = "none"
  /\ blocking = TRUE
  /\ reading = "no"
  /\ result = "none"
  /\ taken = 0
  /\ queue = <<>>
  /\ sent = 0
  /\ plugged = TRUE
  /\ device \in Descriptors
  /\ kernel \in Kernels
  /\ uses_numbered_reports = FALSE

-----------------------------------------------------------------------------
(* Opening.                                                                *)

\* How many bytes item i of a descriptor and its data take: a long item says so in
\* its second byte, a short one in its last two bits.
ItemLength(bytes, i) ==
  IF bytes[i] >= 240
  THEN 3 + IF i < Len(bytes) THEN bytes[i + 1] ELSE 0
  ELSE 1 + IF bytes[i] % 4 = 3 THEN 4 ELSE bytes[i] % 4

ReportID == 133

\* uses_numbered_reports(): the items are walked up to one with key 0x85.
NumberedFrom(bytes) ==
  LET from[i \in Nat] ==
        i <= Len(bytes) /\ (bytes[i] = ReportID \/ from[i + ItemLength(bytes, i)])
  IN from[1]

\* What is left 0 if uname's release has not three numbers: then every kernel is old.
KernelIsOld == kernel.old \/ kernel.release # 3

\* hid_open_path, once open() has succeeded: a descriptor that cannot be read leaves
\* uses_numbered_reports as it is.
Open ==
  /\ user = "none"
  /\ user' = "idle"
  /\ \/ NumberedFrom(device.bytes) /\ uses_numbered_reports' = TRUE
     \/ ~NumberedFrom(device.bytes) /\ uses_numbered_reports' = FALSE
     \/ "ioctl" \in Faults /\ UNCHANGED uses_numbered_reports
  /\ UNCHANGED <<blocking, reading, result, taken, queue, sent, plugged, device, kernel>>

-----------------------------------------------------------------------------
(* The device and the kernel.                                              *)

Send ==
  /\ user \notin {"none", "closed"}
  /\ plugged /\ sent < MaxReports
  /\ sent' = sent + 1
  /\ queue' = IF Len(queue) < Capacity THEN Append(queue, sent') ELSE queue
  /\ UNCHANGED <<user, blocking, reading, result, taken, plugged, hidrawVars>>

Unplug ==
  /\ "unplug" \in Faults
  /\ plugged
  /\ plugged' = FALSE
  /\ UNCHANGED <<user, blocking, reading, result, taken, queue, sent, hidrawVars>>

-----------------------------------------------------------------------------
(* The caller.                                                             *)

SetNonblocking ==
  /\ user = "idle"
  /\ blocking' \in BOOLEAN
  /\ UNCHANGED <<user, reading, result, taken, queue, sent, plugged, hidrawVars>>

Write ==
  /\ user = "idle"
  /\ \/ plugged /\ result' = "written"
     \/ (~plugged \/ "submit" \in Faults) /\ result' = "error"
  /\ UNCHANGED <<user, blocking, reading, taken, queue, sent, plugged, hidrawVars>>

\* hid_read_timeout; without a deadline of 0 it polls first.
ReadTimeout(deadline) ==
  /\ user = "idle"
  /\ reading' = deadline
  /\ user' = IF deadline = "now" THEN "read" ELSE "poll"
  /\ UNCHANGED <<blocking, result, taken, queue, sent, plugged, hidrawVars>>

Read ==
  \/ ReadTimeout(IF blocking THEN "never" ELSE "now")  \* hid_read
  \/ \E d \in {"later", "now"} : ReadTimeout(d)        \* hid_read_timeout

Return(r) == result' = r /\ user' = "idle" /\ reading' = "no"

Poll ==
  /\ user = "poll"
  /\ queue # <<>> \/ ~plugged
  /\ user' = "read"
  /\ UNCHANGED <<blocking, reading, result, taken, queue, sent, plugged, hidrawVars>>

PollTimeout ==
  /\ user = "poll"
  /\ reading = "later"
  /\ queue = <<>> /\ plugged
  /\ Return("nothing")
  /\ UNCHANGED <<blocking, taken, queue, sent, plugged, hidrawVars>>

\* The work around the kernel's byte: it is applied to what read() returned.
Chop == uses_numbered_reports /\ KernelIsOld
ExtraByte == device.numbered /\ kernel.old

\* A report that keeps a byte it should not have, or lost one of its own, is none
\* the device sent: 0.
ReadReport ==
  /\ queue # <<>>
  /\ taken' = IF Chop = ExtraByte THEN Head(queue) ELSE 0
  /\ queue' = Tail(queue)
  /\ Return("data")

\* EAGAIN counts as 0 bytes, from which one is taken off.
ReadNothing ==
  /\ queue = <<>> /\ plugged /\ ~blocking
  /\ Return(IF Chop THEN "error" ELSE "nothing")
  /\ UNCHANGED <<taken, queue>>

ReadGone ==
  /\ queue = <<>> /\ ~plugged
  /\ Return("error")
  /\ UNCHANGED <<taken, queue>>

ReadSyscall ==
  /\ user = "read"
  /\ ReadReport \/ ReadNothing \/ ReadGone
  /\ UNCHANGED <<blocking, sent, plugged, hidrawVars>>

Close ==
  /\ user = "idle"
  /\ user' = "closed"
  /\ queue' = <<>>
  /\ UNCHANGED <<blocking, reading, result, taken, sent, plugged, hidrawVars>>

-----------------------------------------------------------------------------

InCall == Poll \/ PollTimeout \/ ReadSyscall

Next ==
  \/ Open \/ SetNonblocking \/ Read \/ Write \/ InCall \/ Close
  \/ Send \/ Unplug
  \/ user = "closed" /\ UNCHANGED vars

\* hid_open_path has misjudged the kernel or the device: the release could not be
\* parsed, the descriptor could not be read, or the device uses a longer Report ID.
Misjudged == Chop # ExtraByte

\* The descriptor blocks although the caller asked for no wait: hid_read_timeout(0)
\* goes straight to read().
BlocksAnyway == user = "read" /\ reading = "now" /\ blocking

=============================================================================
