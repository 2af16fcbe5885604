----------------------------------- MODULE Hid ---------------------------------
(***************************************************************************)
(* The HID library (power/hidapi.h) with each of its three backends: a     *)
(* caller opens a device (HidOpen), and what was opened is then read,      *)
(* written and closed in the way of the backend.  Whatever the backend,    *)
(* the device the caller sees is the one of HidDevice.                     *)
(***************************************************************************)
EXTENDS HidOpen

CONSTANTS
  MaxReports,  \* bound: the reports the device sends
  Limit,       \* what num_queued is compared with: 30 in the code
  Faults,      \* "unplug", "submit", "events", "barrier", "ioctl"
  Descriptors, Kernels  \* HidLinux

ASSUME HidAssumption ==
  /\ MaxReports \in Nat
  /\ Limit \in Nat
  /\ Faults \subseteq {"unplug", "submit", "events", "barrier", "ioctl"}
  /\ \A d \in Descriptors : d.bytes \in Seq(0..255) /\ d.numbered \in BOOLEAN
  /\ Kernels \subseteq [old : BOOLEAN, release : 0..3]

VARIABLES
  user, blocking, reading, result, taken, queue, sent, plugged,  \* every backend
  reader, mutex, shutdown,                                       \* those with a thread
  transfer,                                                      \* HidLibusb
  disconnected, scheduled, source, barrier, early, undefined,    \* HidApple
  device, kernel, uses_numbered_reports                          \* HidLinux

Capacity == Limit + 2

Libusb == INSTANCE HidLibusb WITH Faults <- Faults \cap {"unplug", "submit", "events"}
Apple  == INSTANCE HidApple
Linux  == INSTANCE HidLinux

threadVars == <<reader, mutex, shutdown>>
appleVars  == <<disconnected, scheduled, source, barrier, early, undefined>>
hidrawVars == <<device, kernel, uses_numbered_reports>>
callVars   == <<user, blocking, reading, result, taken, queue, sent, plugged>>
sessionVars == <<callVars, threadVars, transfer, appleVars, hidrawVars>>
vars == <<backend, openVars, sessionVars>>

TypeOK ==
  /\ OpenTypeOK
  /\ CASE backend = "libusb" -> Libusb!TypeOK
       [] backend = "apple"  -> Apple!TypeOK
       [] backend = "hidraw" -> Linux!TypeOK

\* Only the hidraw backend looks at the kernel and at the report descriptor.
Init ==
  /\ OpenInit /\ Libusb!Init /\ Apple!Init /\ Linux!Init
  /\ backend # "hidraw" =>
       device = (CHOOSE d \in Descriptors : TRUE) /\ kernel = (CHOOSE k \in Kernels : TRUE)

-----------------------------------------------------------------------------

\* hid_open goes on, or returns a device whose session begins: what was needed to
\* find it is forgotten.
Opening == user = "none" /\ OpenNext /\ UNCHANGED sessionVars

Begin(open) ==
  /\ opening = "returned" /\ good_open
  /\ open
  /\ bus' = [p \in 1..Places |-> NoDevice]
  /\ changes' = 0 /\ seen' = 0 /\ path' = NULL /\ alt' = 0
  /\ handle' = [of |-> NoDevice, state |-> "none"]
  /\ good_open' = FALSE /\ threads' = 0 /\ refused' = FALSE
  /\ UNCHANGED <<backend, opening>>

NotFound == opening = "returned" /\ ~good_open /\ user = "none" /\ UNCHANGED vars

Session(step) == user # "none" /\ step /\ UNCHANGED <<backend, openVars>>

OnLibusb ==
  /\ backend = "libusb"
  /\ Begin(Libusb!Open) \/ Session(Libusb!Next)
  /\ UNCHANGED <<appleVars, hidrawVars>>
OnApple ==
  /\ backend = "apple"
  /\ Begin(Apple!Open) \/ Session(Apple!Next)
  /\ UNCHANGED <<transfer, hidrawVars>>
OnLinux ==
  /\ backend = "hidraw"
  /\ Begin(Linux!Open) \/ Session(Linux!Next)
  /\ UNCHANGED <<threadVars, transfer, appleVars>>

Next == Opening \/ NotFound \/ OnLibusb \/ OnApple \/ OnLinux

Spec == Init /\ [][Next]_vars

\* The threads are scheduled, a deadline passes (it is absolute, so a thread that is
\* woken again and again meets it too), libusb ends a transfer that is cancelled or
\* whose device is gone, and a run loop, however often it is entered again, runs the
\* callbacks that are due.  It need not come to the end of its 1000 seconds.
Fairness ==
  /\ WF_(Libusb!vars)(backend = "libusb" /\ Libusb!ReadThread)
  /\ WF_(Libusb!vars)(backend = "libusb" /\ Libusb!InCall)
  /\ WF_(Libusb!vars)(backend = "libusb" /\ Libusb!MustEnd)
  /\ SF_(Libusb!vars)(backend = "libusb" /\ Libusb!Expire)
  /\ WF_(Apple!vars)(backend = "apple" /\ Apple!ReadThread)
  /\ WF_(Apple!vars)(backend = "apple" /\ Apple!InCall)
  /\ SF_(Apple!vars)(backend = "apple" /\ Apple!Callback)
  /\ SF_(Apple!vars)(backend = "apple" /\ Apple!Expire)
  /\ WF_(Linux!vars)(backend = "hidraw" /\ Linux!InCall)

FairSpec == Spec /\ Fairness

-----------------------------------------------------------------------------
(* Properties.                                                             *)

\* The session, seen through hidapi.h: whether it is open, the reports that have arrived,
\* and whether the device is gone or not served any more.
DeviceState ==
  CASE user = "none"   -> "none"
    [] user = "closed" -> "closed"
    [] OTHER -> "open"
DeviceArrived == IF backend = "libusb" THEN Libusb!Arrived ELSE sent
DeviceBroken ==
  \/ ~plugged
  \/ backend = "libusb" /\ Libusb!Broken
  \/ backend = "apple" /\ Apple!Broken

Device == INSTANCE HidDevice WITH
  state <- DeviceState, arrived <- DeviceArrived, broken <- DeviceBroken

\* A hidraw read whose work around does not fit: it takes a byte off a report, leaves
\* one on, or takes one off no report at all.
ChoppedWrongly ==
  /\ backend = "hidraw" /\ user = "read"
  /\ Linux!Misjudged \/ (queue = <<>> /\ Linux!Chop)
  /\ Linux!ReadSyscall

\* Each backend implements the device hidapi.h describes: reports are read in order and
\* once, whatever the caller, the callbacks and the end of the read thread interleave;
\* the queue is bounded; a read waits as its deadline says, and fails only when the
\* device is gone or not served any more.  Excepted is the work around of the hidraw
\* backend where it does not fit.
ImplementsDevice == Device!Init /\ [][Device!Next \/ ChoppedWrongly]_(Device!vars)

\* A caller of a backend with a thread never sleeps over a report, nor over the end of
\* the thread (the comment at hid_libusb.cpp:716-720).
NoLostWakeup ==
  /\ backend = "libusb" => Libusb!SleepsForReason
  /\ backend = "apple" => Apple!SleepsForReason

\* A read with a deadline returns, and so does one without when the device is unplugged;
\* except where libusb does not hear of the device any more, and where a hidraw
\* descriptor blocks.
MustReturn == reading \in {"later", "now"} \/ (reading = "never" /\ ~plugged)
ReadReturns ==
  MustReturn ~>
    \/ reading = "no"
    \/ backend = "libusb" /\ Libusb!Deaf
    \/ backend = "hidraw" /\ Linux!BlocksAnyway

\* hid_close returns, whatever the read thread is doing when it is called and whatever
\* the device does.
CloseReturns == (user \in {"cancel", "flag"}) ~> (user = "closed")

\* hid_close of hid_apple.cpp uses the run loop and the source of the read thread only
\* while they exist: the two barriers see to it, unless a wait in one of them wakes by
\* itself.
RunLoopValid == undefined => early

=============================================================================
