-------------------------------- MODULE HidOpen --------------------------------
(***************************************************************************)
(* hid_open: the devices on the bus are enumerated, the first one with the *)
(* vendor and product of the meter is chosen, and its path is opened.  The *)
(* three backends differ in what a path says and in what opening it does.  *)
(* Devices may be plugged in and out all the while.                        *)
(*                                                                         *)
(* The meters pass no serial number.  External: a device that is plugged   *)
(* in gets a USB address nobody had before, but perhaps the hidraw node or *)
(* the IOHIDDevice of one that has gone; an interface that is claimed      *)
(* cannot be claimed through another handle.                               *)
(***************************************************************************)
EXTENDS Naturals, Sequences, FiniteSets

CONSTANTS
  Places,      \* where something can be plugged in, in the order of the lists
  MaxChanges   \* bound: devices plugged in or out

ASSUME PlacesAssumption == Places \in Nat \ {0} /\ MaxChanges \in Nat

VARIABLES
  backend,    \* "libusb", "apple" or "hidraw"
  bus,        \* the device at each place, or NoDevice
  changes,    \* how often the bus has changed
  seen,       \* and how often when it was enumerated
  opening,    \* "enumerate", "open", "altsettings" (libusb) or "returned"
  path,       \* path_to_open, or NULL
  alt,        \* libusb: the HID altsettings of the path that were visited
  handle,     \* dev->device_handle: the device and whether the handle is "open"
  good_open,  \* libusb: good_open; else that the open succeeded
  threads,    \* libusb: read threads that were started
  refused     \* a call to open or claim a device that is there has failed

openVars == <<bus, changes, seen, opening, path, alt, handle, good_open, threads, refused>>

\* A device is known by when it was plugged in.  A meter may give its interface two
\* HID altsettings, have no active configuration, no node that udev knows, or be
\* reached without USB.
Kinds == {"meter", "meter with two altsettings", "meter not configured",
          "meter without node", "meter without USB", "other"}
NoDevice == [id |-> 0, kind |-> "none"]
NewDevice(n) == [id : {n}, kind : Kinds]
NULL == <<>>
NoHandle == [of |-> NoDevice, state |-> "none"]

IsMeter(d) == d.kind \notin {"none", "other"}
Altsettings(d) == IF d.kind = "meter with two altsettings" THEN 2 ELSE 1

OpenTypeOK ==
  /\ backend \in {"libusb", "apple", "hidraw"}
  /\ \A p \in 1..Places : bus[p] = NoDevice \/ (bus[p].id \in Nat /\ bus[p].kind \in Kinds)
  /\ changes \in Nat /\ seen \in Nat
  /\ opening \in {"enumerate", "open", "altsettings", "returned"}
  /\ alt \in 0..2
  /\ handle.state \in {"none", "open", "closed"}
  /\ good_open \in BOOLEAN
  /\ threads \in Nat
  /\ refused \in BOOLEAN

OpenInit ==
  /\ backend \in {"libusb", "apple", "hidraw"}
  /\ bus \in {b \in [1..Places -> {NoDevice} \cup UNION {NewDevice(p) : p \in 1..Places}] :
                \A p \in 1..Places : b[p].id \in {0, p}}
  /\ changes = 0 /\ seen = 0
  /\ opening = "enumerate"
  /\ path = NULL
  /\ alt = 0
  /\ handle = NoHandle
  /\ good_open = FALSE
  /\ threads = 0
  /\ refused = FALSE

-----------------------------------------------------------------------------
(* The bus.                                                                *)

Replug ==
  /\ changes < MaxChanges /\ opening # "returned"
  /\ changes' = changes + 1
  /\ \E p \in 1..Places :
       bus' \in {[bus EXCEPT ![p] = d] :
                   d \in IF bus[p] = NoDevice THEN NewDevice(Places + changes') ELSE {NoDevice}}
  /\ UNCHANGED <<backend, seen, opening, path, alt, handle, good_open, threads, refused>>

-----------------------------------------------------------------------------
(* Paths.                                                                  *)

\* make_path of hid_libusb.cpp: bus, address and interface.
LibusbPath(p) == <<bus[p].id>>
\* make_path of hid_apple.cpp: vendor, product and where the IOHIDDevice is.
ApplePath(p) == <<IsMeter(bus[p]), p>>
\* udev_device_get_devnode
HidrawPath(p) == IF bus[p].kind = "meter without node" THEN NULL ELSE <<p>>

Path(p) == CASE backend = "libusb" -> LibusbPath(p)
             [] backend = "apple"  -> ApplePath(p)
             [] backend = "hidraw" -> HidrawPath(p)

\* hid_enumerate: the places of the records, in the order of the list.  libusb knows
\* the devices on USB, and of one that is not configured the first configuration;
\* hidraw leaves out a device without a USB parent.
LibusbRecords == {p \in 1..Places : IsMeter(bus[p]) /\ bus[p].kind # "meter without USB"}
AppleRecords  == {p \in 1..Places : IsMeter(bus[p])}
HidrawRecords == {p \in 1..Places : IsMeter(bus[p]) /\ bus[p].kind # "meter without USB"}

Records == CASE backend = "libusb" -> LibusbRecords
             [] backend = "apple"  -> AppleRecords
             [] backend = "hidraw" -> HidrawRecords

\* hid_open: the first record decides, also if its path is NULL.
EnumerateAndChoose ==
  /\ opening = "enumerate"
  /\ seen' = changes
  /\ \/ Records = {} /\ path' = NULL
     \/ \E p \in Records : (\A q \in Records : p <= q) /\ path' = Path(p)
  /\ opening' = IF path' = NULL THEN "returned" ELSE "open"
  /\ UNCHANGED <<backend, bus, changes, alt, handle, good_open, threads, refused>>

-----------------------------------------------------------------------------
(* hid_open_path.                                                          *)

Found == {p \in 1..Places : bus[p] # NoDevice /\ Path(p) = path}
FoundConfigured == {p \in Found : bus[p].kind # "meter not configured"}

Return == opening' = "returned"

\* hidraw: whatever has the node now; apple: whatever has the path now.
OpenAt(p) ==
  /\ Return
  /\ \/ /\ handle' = [of |-> bus[p], state |-> "open"]
        /\ good_open' = TRUE
        /\ UNCHANGED refused
     \/ refused' = TRUE /\ UNCHANGED <<handle, good_open>>

OpenPathAtOnce ==
  /\ backend \in {"hidraw", "apple"}
  /\ opening = "open"
  /\ \/ \E p \in Found : OpenAt(p)
     \/ Found = {} /\ Return /\ UNCHANGED <<handle, good_open, refused>>
  /\ UNCHANGED <<backend, bus, changes, seen, path, alt, threads>>

\* libusb: a list of the devices is made, and the one with the path, if it is there and
\* configured, is visited with each of its HID altsettings.
FindPath ==
  /\ backend = "libusb"
  /\ opening = "open"
  /\ \/ FoundConfigured = {} /\ Return /\ UNCHANGED handle
     \/ \E p \in FoundConfigured :
          opening' = "altsettings" /\ handle' = [of |-> bus[p], state |-> "none"]
  /\ UNCHANGED <<backend, bus, changes, seen, path, alt, good_open, threads, refused>>

\* What it does next; the first failure ends the visit.
Altsetting ==
  /\ opening = "altsettings"
  /\ alt < Altsettings(handle.of)
  /\ UNCHANGED <<backend, bus, changes, seen, path, opening>>

\* libusb_open fails: the other altsettings are left out.
AltNotOpened ==
  /\ Altsetting
  /\ alt' = Altsettings(handle.of)
  /\ refused' = TRUE
  /\ UNCHANGED <<handle, good_open, threads>>

\* The kernel driver cannot be detached or the interface not be claimed: the handle
\* is closed, whatever an altsetting before has opened.
AltNotClaimedButGood ==
  /\ Altsetting
  /\ alt' = Altsettings(handle.of)
  /\ handle' = [handle EXCEPT !.state = "closed"]
  /\ good_open' = TRUE
  /\ refused' = TRUE
  /\ UNCHANGED threads

AltNotClaimed ==
  /\ Altsetting
  /\ alt' = Altsettings(handle.of)
  /\ handle' = [handle EXCEPT !.state = "closed"]
  /\ good_open' = FALSE
  /\ refused' = TRUE
  /\ UNCHANGED threads

\* The interface is claimed, and the read thread has been started.
AltOpened ==
  /\ Altsetting
  /\ threads = 0
  /\ \E p \in 1..Places : bus[p] = handle.of
  /\ alt' = alt + 1
  /\ handle' = [handle EXCEPT !.state = "open"]
  /\ good_open' = TRUE
  /\ threads' = threads + 1
  /\ UNCHANGED refused

\* dev is returned, or freed if good_open is not set.
AllVisited ==
  /\ opening = "altsettings"
  /\ alt = Altsettings(handle.of)
  /\ Return
  /\ UNCHANGED <<backend, bus, changes, seen, path, alt, handle, good_open, threads, refused>>

OpenNext ==
  \/ Replug \/ EnumerateAndChoose \/ OpenPathAtOnce
  \/ FindPath \/ AltNotOpened \/ AltNotClaimed \/ AltOpened \/ AllVisited

-----------------------------------------------------------------------------
(* Properties.                                                             *)

\* What hid_open returns is an open handle of a device with the vendor and product it
\* was asked for, although the bus may change between the enumeration and the open; and
\* when it returns NULL, nothing is left that still uses the device.  Excepted are a
\* hidraw node, which after a change may belong to another device, and the second HID
\* altsetting of an interface, which libusb opens again in vain: dev is freed under the
\* read thread that the first has started.  Nothing else keeps a meter from being opened
\* but a call that fails, a first meter without a node, or one without a configuration.
OpensRequested ==
  opening = "returned" =>
    /\ good_open => /\ handle.state = "open"
                    /\ IsMeter(handle.of) \/ (backend = "hidraw" /\ changes > seen)
    /\ ~good_open => threads = 0 \/ Altsettings(handle.of) = 2
    /\ changes = 0 /\ ~refused /\ Records # {} =>
         good_open \/ \E p \in Records : bus[p].kind \in {"meter without node", "meter not configured"}

=============================================================================
