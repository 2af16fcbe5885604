------------------------------ MODULE Hid_proofs ------------------------------
(***************************************************************************)
(* What holds of the HID library with each of its three backends, for any  *)
(* number of reports, any limit of the queue, any faults, report           *)
(* descriptors and kernels.                                                *)
(*                                                                         *)
(* First what hid_open returns, for any number of places and however often *)
(* the bus changes while it is at work.  Then an inductive invariant of a  *)
(* device in use, and that each backend implements the device of           *)
(* HidDevice.  A step of the read thread, of a callback, of the kernel or  *)
(* of the caller is one step of that device or none; the invariant says    *)
(* what the steps rest on: who reads has not closed, who gives up has a    *)
(* deadline, and who is told of an error has a device that is broken.      *)
(***************************************************************************)
EXTENDS Hid, TLAPS

-----------------------------------------------------------------------------
(* The invariant.                                                          *)

Devices == {NoDevice} \cup [id : Nat \ {0}, kind : Kinds]

OpenVarsInv ==
  /\ OpenTypeOK
  /\ bus \in [1..Places -> Devices]
  /\ handle \in [of : Devices, state : {"none", "open", "closed"}]
  /\ seen <= changes

\* No address is given twice.
AddressInv ==
  /\ \A p \in 1..Places : bus[p].id <= Places + changes
  /\ \A p, q \in 1..Places : bus[p].id = bus[q].id => bus[p].id = 0 \/ p = q

\* What a path says of the devices it leads to.
PathInv ==
  opening \in {"open", "altsettings"} =>
    /\ backend = "libusb" =>
         \E n \in 1..Places + changes :
           /\ path = <<n>>
           /\ \A p \in 1..Places : bus[p].id = n => IsMeter(bus[p])
    /\ backend = "apple" => \E p \in 1..Places : path = <<TRUE, p>>
    /\ backend = "hidraw" =>
         \E p \in 1..Places : path = <<p>> /\ (changes = seen => IsMeter(bus[p]))
    /\ changes = 0 => \E p \in Records : Path(p) = path

\* The handle, and what the visit of the altsettings has made of it.
VisitInv ==
  /\ good_open <=> handle.state = "open"
  /\ opening = "enumerate" => threads = 0 /\ alt = 0 /\ ~good_open
  /\ opening = "open" => threads = 0 /\ alt = 0 /\ ~good_open
  /\ opening = "altsettings" =>
       /\ backend = "libusb" /\ IsMeter(handle.of)
       /\ alt > 0 /\ ~refused => good_open
  /\ threads > 0 =>
       /\ opening \in {"altsettings", "returned"}
       /\ alt > 0
       /\ good_open \/ Altsettings(handle.of) = 2

OpenedInv == OpenVarsInv /\ AddressInv /\ PathInv /\ VisitInv /\ OpensRequested

-----------------------------------------------------------------------------
(* The devices.                                                            *)

\* The record of a device, and how many altsettings it has.
LEMMA DeviceFacts ==
  /\ NoDevice \in Devices /\ NoDevice.id = 0 /\ ~IsMeter(NoDevice)
  /\ \A d \in Devices : /\ d.id \in Nat
                        /\ d.id = 0 <=> d = NoDevice
                        /\ d # NoDevice => d.kind \in Kinds
                        /\ Altsettings(d) \in 1..2
  /\ \A n \in Nat \ {0} : NewDevice(n) \subseteq Devices /\ \A d \in NewDevice(n) : d.id = n
<1>1. NoDevice \in Devices /\ NoDevice.id = 0 /\ ~IsMeter(NoDevice) /\ Altsettings(NoDevice) = 1
  BY DEF Devices, NoDevice, IsMeter, Altsettings
<1>2. ASSUME NEW d \in [id : Nat \ {0}, kind : Kinds]
      PROVE  d.id \in Nat \ {0} /\ d.kind \in Kinds /\ Altsettings(d) \in 1..2
  <2>1. d.id \in Nat \ {0} /\ d.kind \in Kinds
    BY <1>2
  <2> QED
    BY <2>1 DEF Altsettings
<1>3. ASSUME NEW n \in Nat \ {0}, NEW d \in NewDevice(n)
      PROVE  d \in Devices /\ d.id = n
  BY <1>3 DEF NewDevice, Devices
<1> QED
  BY <1>1, <1>2, <1>3 DEF Devices

\* The records of hid_enumerate.
LEMMA RecordsAreMeters == OpenVarsInv => \A p \in Records : p \in 1..Places /\ IsMeter(bus[p])
PROOF BY DEF OpenVarsInv, OpenTypeOK, Records, LibusbRecords, AppleRecords, HidrawRecords

LEMMA OpenInitially == OpenInit => OpenedInv
<1> SUFFICES ASSUME OpenInit PROVE OpenedInv
  OBVIOUS
<1> USE PlacesAssumption
<1>1. bus \in [1..Places -> Devices] /\ \A p \in 1..Places : bus[p].id \in {0, p}
  BY DeviceFacts DEF OpenInit
<1>2. OpenVarsInv
  <2>1. \A p \in 1..Places : bus[p] = NoDevice \/ (bus[p].id \in Nat /\ bus[p].kind \in Kinds)
    BY <1>1, DeviceFacts
  <2>2. handle \in [of : Devices, state : {"none", "open", "closed"}]
    BY DeviceFacts DEF OpenInit, NoHandle
  <2>3. handle.state = "none"
    BY DEF OpenInit, NoHandle
  <2>4. /\ backend \in {"libusb", "apple", "hidraw"} /\ opening = "enumerate"
        /\ changes = 0 /\ seen = 0 /\ alt = 0 /\ threads = 0
        /\ good_open \in BOOLEAN /\ refused \in BOOLEAN
    BY DEF OpenInit
  <2> QED
    BY <1>1, <2>1, <2>2, <2>3, <2>4 DEF OpenVarsInv, OpenTypeOK
<1>3. AddressInv
  BY <1>1 DEF OpenInit, AddressInv
<1>4. PathInv /\ VisitInv /\ OpensRequested
  BY DEF OpenInit, PathInv, VisitInv, OpensRequested, NoHandle
<1> QED
  BY <1>2, <1>3, <1>4 DEF OpenedInv

-----------------------------------------------------------------------------
(* The steps.                                                              *)

\* What is plugged in has a new address; the record of a device that has gone is empty.
LEMMA ReplugKeeps == OpenedInv /\ Replug => OpenedInv'
<1> SUFFICES ASSUME OpenedInv, Replug PROVE OpenedInv'
  OBVIOUS
<1> USE PlacesAssumption
<1>0. OpenVarsInv /\ AddressInv /\ PathInv /\ VisitInv
  BY DEF OpenedInv
<1>1. PICK p \in 1..Places, d \in Devices :
        /\ bus' = [bus EXCEPT ![p] = d]
        /\ d.id \in {0, Places + changes'}
  <2>1. PICK p \in 1..Places :
          \E d \in IF bus[p] = NoDevice THEN NewDevice(Places + changes') ELSE {NoDevice} :
            bus' = [bus EXCEPT ![p] = d]
    BY DEF Replug
  <2>2. Places + changes' \in Nat \ {0}
    BY <1>0 DEF Replug, OpenVarsInv, OpenTypeOK
  <2> QED
    BY <2>1, <2>2, DeviceFacts
<1>2. /\ changes \in Nat /\ changes' = changes + 1 /\ opening # "returned"
      /\ UNCHANGED <<backend, seen, opening, path, alt, handle, good_open, threads, refused>>
  BY <1>0 DEF Replug, OpenVarsInv, OpenTypeOK
<1>3. /\ bus \in [1..Places -> Devices] /\ bus' \in [1..Places -> Devices]
      /\ bus'[p] = d /\ \A q \in 1..Places \ {p} : bus'[q] = bus[q]
  BY <1>0, <1>1 DEF OpenVarsInv
<1>4. \A q \in 1..Places : bus[q].id \in Nat /\ bus'[q].id \in Nat
  BY <1>3, DeviceFacts
<1>5. OpenVarsInv'
  BY <1>0, <1>2, <1>3, DeviceFacts DEF OpenVarsInv, OpenTypeOK
<1>6. AddressInv'
  BY <1>0, <1>1, <1>2, <1>3, <1>4 DEF AddressInv
<1>7. PathInv'
  <2> SUFFICES ASSUME opening \in {"open", "altsettings"} PROVE PathInv'
    BY <1>2 DEF PathInv
  <2>1. ASSUME backend = "libusb"
        PROVE  \E n \in 1..Places + changes' :
                 path = <<n>> /\ \A q \in 1..Places : bus'[q].id = n => IsMeter(bus'[q])
    BY <1>0, <1>1, <1>2, <1>3, <1>4, <2>1 DEF PathInv
  <2>2. backend = "hidraw" =>
          \E q \in 1..Places : path = <<q>> /\ (changes' = seen => IsMeter(bus'[q]))
    <3>1. backend = "hidraw" => \E q \in 1..Places : path = <<q>>
      BY <1>0 DEF PathInv
    <3>2. changes' # seen
      BY <1>0, <1>2 DEF OpenVarsInv, OpenTypeOK
    <3> QED
      BY <3>1, <3>2
  <2>3. backend = "apple" => \E q \in 1..Places : path = <<TRUE, q>>
    BY <1>0 DEF PathInv
  <2>4. changes' # 0
    BY <1>2
  <2> QED
    BY <1>2, <2>1, <2>2, <2>3, <2>4 DEF PathInv
<1>8. VisitInv'
  BY <1>0, <1>2 DEF VisitInv
<1>9. OpensRequested'
  BY <1>2 DEF OpensRequested
<1> QED
  BY <1>5, <1>6, <1>7, <1>8, <1>9 DEF OpenedInv

\* The first record decides; without one, or without its node, NULL is returned.
LEMMA EnumerateKeeps == OpenedInv /\ EnumerateAndChoose => OpenedInv'
<1> SUFFICES ASSUME OpenedInv, EnumerateAndChoose PROVE OpenedInv'
  OBVIOUS
<1> USE PlacesAssumption
<1>0. OpenVarsInv /\ AddressInv /\ PathInv /\ VisitInv
  BY DEF OpenedInv
<1>1. /\ opening = "enumerate" /\ seen' = changes
      /\ opening' = IF path' = NULL THEN "returned" ELSE "open"
      /\ UNCHANGED <<backend, bus, changes, alt, handle, good_open, threads, refused>>
      /\ UNCHANGED <<Records, AddressInv>>
  BY DEF EnumerateAndChoose, Records, LibusbRecords, AppleRecords, HidrawRecords, AddressInv
<1>2. /\ changes \in Nat /\ bus \in [1..Places -> Devices]
      /\ threads = 0 /\ ~good_open /\ handle.state # "open" /\ alt = 0
  BY <1>0, <1>1 DEF OpenVarsInv, OpenTypeOK, VisitInv
<1>3. OpenVarsInv'
  BY <1>0, <1>1 DEF OpenVarsInv, OpenTypeOK
<1>4. \A p \in 1..Places : Path(p)' = Path(p)
  BY <1>1 DEF Path, LibusbPath, ApplePath, HidrawPath
<1>5. CASE Records = {} /\ path' = NULL
  <2>1. PathInv' /\ VisitInv' /\ OpensRequested'
    BY <1>1, <1>2, <1>5 DEF PathInv, VisitInv, OpensRequested
  <2> QED
    BY <1>0, <1>1, <1>3, <2>1 DEF OpenedInv
<1>6. ASSUME NEW p \in Records, path' = Path(p) PROVE OpenedInv'
  <2>1. p \in 1..Places /\ IsMeter(bus[p]) /\ bus[p] \in Devices
    BY <1>0, <1>2, <1>6, RecordsAreMeters
  <2>2. bus[p].id \in 1..Places + changes
    BY <1>0, <1>2, <2>1, DeviceFacts DEF AddressInv
  <2>3. VisitInv'
    BY <1>0, <1>1, <1>2 DEF VisitInv
  <2>4. backend = "libusb" => path' = <<bus[p].id>>
    BY <1>6 DEF Path, LibusbPath
  <2>5. backend = "apple" => path' = <<TRUE, p>>
    BY <1>6, <2>1 DEF Path, ApplePath
  <2>6. backend = "hidraw" => path' = IF bus[p].kind = "meter without node" THEN NULL ELSE <<p>>
    BY <1>6, <2>1 DEF Path, HidrawPath
  <2>7. backend \in {"libusb", "apple", "hidraw"}
    BY <1>0 DEF OpenVarsInv, OpenTypeOK
  <2>8. \A q \in 1..Places : bus[q].id = bus[p].id => IsMeter(bus[q])
    BY <1>0, <2>1, <2>2 DEF AddressInv
  <2>9. PathInv'
    BY <1>1, <1>2, <1>4, <1>6, <2>1, <2>2, <2>4, <2>5, <2>6, <2>7, <2>8 DEF PathInv
  <2>10. opening' = "returned" => bus[p].kind = "meter without node"
    <3>1. <<bus[p].id>> # NULL /\ <<TRUE, p>> # NULL /\ <<p>> # NULL
      BY DEF NULL
    <3>2. opening' = "returned" => path' = NULL
      BY <1>1
    <3> QED
      BY <2>4, <2>5, <2>6, <2>7, <3>1, <3>2
  <2>11. OpensRequested'
    BY <1>1, <1>2, <1>6, <2>10 DEF OpensRequested
  <2> QED
    BY <1>0, <1>1, <1>3, <2>3, <2>9, <2>11 DEF OpenedInv
<1> QED
  BY <1>5, <1>6 DEF EnumerateAndChoose

\* What has the path now is a meter, but for a node that may have changed hands.
LEMMA FoundIsMeter ==
  ASSUME OpenedInv, opening = "open", NEW p \in Found
  PROVE  /\ p \in 1..Places /\ bus[p] \in Devices
         /\ IsMeter(bus[p]) \/ (backend = "hidraw" /\ changes > seen)
<1> USE PlacesAssumption
<1>0. OpenVarsInv /\ PathInv
  BY DEF OpenedInv
<1>1. p \in 1..Places /\ bus[p] \in Devices /\ Path(p) = path
  BY <1>0 DEF OpenVarsInv, Found
<1>2. backend = "libusb" => IsMeter(bus[p])
  <2> SUFFICES ASSUME backend = "libusb" PROVE IsMeter(bus[p])
    OBVIOUS
  <2>1. PICK n \in 1..Places + changes :
          path = <<n>> /\ \A q \in 1..Places : bus[q].id = n => IsMeter(bus[q])
    BY <1>0 DEF PathInv
  <2>2. bus[p].id = n
    BY <1>1, <2>1 DEF Path, LibusbPath
  <2> QED
    BY <1>1, <2>1, <2>2
<1>3. backend = "apple" => IsMeter(bus[p])
  <2> SUFFICES ASSUME backend = "apple" PROVE IsMeter(bus[p])
    OBVIOUS
  <2>1. PICK q \in 1..Places : path = <<TRUE, q>>
    BY <1>0 DEF PathInv
  <2>2. <<IsMeter(bus[p]), p>> = <<TRUE, q>>
    BY <1>1, <2>1 DEF Path, ApplePath
  <2>3. IsMeter(bus[p]) = TRUE
    BY <2>2
  <2> QED
    BY <2>3
<1>4. backend = "hidraw" => IsMeter(bus[p]) \/ changes > seen
  <2> SUFFICES ASSUME backend = "hidraw" PROVE IsMeter(bus[p]) \/ changes > seen
    OBVIOUS
  <2>1. PICK q \in 1..Places : path = <<q>> /\ (changes = seen => IsMeter(bus[q]))
    BY <1>0 DEF PathInv
  <2>2. NULL # <<q>> /\ (<<p>> = <<q>> => p = q)
    BY DEF NULL
  <2>3. p = q
    BY <1>1, <2>1, <2>2 DEF Path, HidrawPath
  <2> QED
    BY <1>0, <2>1, <2>3 DEF OpenVarsInv, OpenTypeOK
<1> QED
  BY <1>0, <1>1, <1>2, <1>3, <1>4 DEF OpenVarsInv, OpenTypeOK

\* On a bus that has not changed the path that was chosen leads to a device.
LEMMA RecordFound ==
  ASSUME OpenedInv, opening = "open", changes = 0
  PROVE  \E p \in Records : p \in Found
<1>1. PICK p \in Records : Path(p) = path
  BY DEF OpenedInv, PathInv
<1>2. p \in 1..Places /\ IsMeter(bus[p])
  BY RecordsAreMeters DEF OpenedInv
<1>3. p \in Found
  BY <1>1, <1>2, DeviceFacts DEF Found
<1> QED
  BY <1>3

LEMMA OpenPathKeeps == OpenedInv /\ OpenPathAtOnce => OpenedInv'
<1> SUFFICES ASSUME OpenedInv, OpenPathAtOnce PROVE OpenedInv'
  OBVIOUS
<1>0. OpenVarsInv /\ AddressInv /\ PathInv /\ VisitInv
  BY DEF OpenedInv
<1>1. /\ opening = "open" /\ opening' = "returned" /\ backend # "libusb"
      /\ UNCHANGED <<backend, bus, changes, seen, path, alt, threads>>
      /\ UNCHANGED <<Records, AddressInv>>
      /\ threads = 0 /\ ~good_open
  BY <1>0 DEF OpenPathAtOnce, OpenAt, Return, Records, LibusbRecords, AppleRecords, HidrawRecords,
              AddressInv, VisitInv
<1>2. PathInv'
  BY <1>1 DEF PathInv
<1>3. ASSUME NEW p \in Found, OpenAt(p) PROVE OpenedInv'
  <2>1. CASE handle' = [of |-> bus[p], state |-> "open"] /\ good_open' = TRUE /\ UNCHANGED refused
    <3>1. /\ bus[p] \in Devices
          /\ IsMeter(bus[p]) \/ (backend = "hidraw" /\ changes > seen)
      BY <1>1, FoundIsMeter
    <3>2. OpenVarsInv'
      BY <1>0, <1>1, <2>1, <3>1 DEF OpenVarsInv, OpenTypeOK
    <3>3. VisitInv' /\ OpensRequested'
      BY <1>1, <2>1, <3>1 DEF VisitInv, OpensRequested
    <3> QED
      BY <1>0, <1>1, <1>2, <3>2, <3>3 DEF OpenedInv
  <2>2. CASE refused' = TRUE /\ UNCHANGED <<handle, good_open>>
    <3>1. OpenVarsInv' /\ VisitInv' /\ OpensRequested'
      BY <1>0, <1>1, <2>2 DEF OpenVarsInv, OpenTypeOK, VisitInv, OpensRequested
    <3> QED
      BY <1>0, <1>1, <1>2, <3>1 DEF OpenedInv
  <2> QED
    BY <1>3, <2>1, <2>2 DEF OpenAt
<1>4. CASE Found = {} /\ UNCHANGED <<handle, good_open, refused>>
  <2>1. OpenVarsInv' /\ VisitInv'
    BY <1>0, <1>1, <1>4 DEF OpenVarsInv, OpenTypeOK, VisitInv
  <2>2. changes # 0
    BY <1>1, <1>4, RecordFound
  <2>3. OpensRequested'
    BY <1>1, <1>4, <2>2 DEF OpensRequested
  <2> QED
    BY <1>0, <1>1, <1>2, <2>1, <2>3 DEF OpenedInv
<1> QED
  BY <1>3, <1>4 DEF OpenPathAtOnce

LEMMA FindPathKeeps == OpenedInv /\ FindPath => OpenedInv'
<1> SUFFICES ASSUME OpenedInv, FindPath PROVE OpenedInv'
  OBVIOUS
<1>0. OpenVarsInv /\ AddressInv /\ PathInv /\ VisitInv
  BY DEF OpenedInv
<1>1. /\ opening = "open" /\ backend = "libusb"
      /\ UNCHANGED <<backend, bus, changes, seen, path, alt, good_open, threads, refused>>
      /\ UNCHANGED <<Records, AddressInv>>
      /\ threads = 0 /\ alt = 0 /\ ~good_open
  BY <1>0 DEF FindPath, Records, LibusbRecords, AppleRecords, HidrawRecords, AddressInv, VisitInv
<1>2. \A p \in 1..Places : Path(p)' = Path(p)
  BY <1>1 DEF Path, LibusbPath, ApplePath, HidrawPath
<1>3. CASE FoundConfigured = {} /\ opening' = "returned" /\ UNCHANGED handle
  <2>1. OpenVarsInv' /\ VisitInv' /\ PathInv'
    BY <1>0, <1>1, <1>3 DEF OpenVarsInv, OpenTypeOK, VisitInv, PathInv
  <2>2. changes = 0 => \E p \in Records : bus[p].kind = "meter not configured"
    BY <1>1, <1>3, RecordFound DEF FoundConfigured
  <2>3. OpensRequested'
    BY <1>1, <2>2 DEF OpensRequested
  <2> QED
    BY <1>0, <1>1, <2>1, <2>3 DEF OpenedInv
<1>4. ASSUME NEW p \in FoundConfigured,
             opening' = "altsettings", handle' = [of |-> bus[p], state |-> "none"]
      PROVE  OpenedInv'
  <2>1. bus[p] \in Devices /\ IsMeter(bus[p])
    BY <1>1, FoundIsMeter DEF FoundConfigured
  <2>2. OpenVarsInv'
    BY <1>0, <1>1, <1>4, <2>1 DEF OpenVarsInv, OpenTypeOK
  <2>3. VisitInv' /\ OpensRequested'
    BY <1>1, <1>4, <2>1 DEF VisitInv, OpensRequested
  <2>4. PathInv'
    BY <1>0, <1>1, <1>2, <1>4 DEF PathInv, Records, LibusbRecords
  <2> QED
    BY <1>0, <1>1, <2>2, <2>3, <2>4 DEF OpenedInv
<1> QED
  BY <1>3, <1>4 DEF FindPath, Return

\* The altsettings: each either is opened or ends the visit.
LEMMA AltsettingKeeps ==
  OpenedInv /\ (AltNotOpened \/ AltNotClaimed \/ AltOpened \/ AllVisited) => OpenedInv'
<1> SUFFICES ASSUME OpenedInv, AltNotOpened \/ AltNotClaimed \/ AltOpened \/ AllVisited
             PROVE  OpenedInv'
  OBVIOUS
<1>0. OpenVarsInv /\ AddressInv /\ PathInv /\ VisitInv
  BY DEF OpenedInv
<1>1. /\ opening = "altsettings" /\ opening' \in {"altsettings", "returned"}
      /\ UNCHANGED <<backend, bus, changes, seen, path>>
      /\ UNCHANGED <<Records, AddressInv>>
  BY DEF AltNotOpened, AltNotClaimed, AltOpened, AllVisited, Altsetting, Return,
         Records, LibusbRecords, AppleRecords, HidrawRecords, AddressInv
<1>2. \A p \in 1..Places : Path(p)' = Path(p)
  BY <1>1 DEF Path, LibusbPath, ApplePath, HidrawPath
<1>3. PathInv'
  BY <1>0, <1>1, <1>2, RecordsAreMeters DEF PathInv
<1>4. /\ handle \in [of : Devices, state : {"none", "open", "closed"}]
      /\ handle.of \in Devices /\ Altsettings(handle.of) \in 1..2 /\ alt \in 0..2 /\ threads \in Nat
      /\ backend = "libusb" /\ IsMeter(handle.of)
  BY <1>0, <1>1, DeviceFacts DEF OpenVarsInv, OpenTypeOK, VisitInv
<1>5. handle' \in [of : {handle.of}, state : {"none", "open", "closed"}]
  BY <1>4 DEF AltNotOpened, AltNotClaimed, AltOpened, AllVisited, Altsetting
<1>6. handle'.of = handle.of /\ handle'.state \in {"none", "open", "closed"}
  BY <1>5
<1>7. OpenVarsInv'
  <2>1. alt' \in 0..2 /\ threads' \in Nat
    BY <1>4 DEF AltNotOpened, AltNotClaimed, AltOpened, AllVisited, Altsetting
  <2>2. good_open \in BOOLEAN /\ refused \in BOOLEAN
    BY <1>0 DEF OpenVarsInv, OpenTypeOK
  <2>3. good_open' \in BOOLEAN /\ refused' \in BOOLEAN
    BY <2>2 DEF AltNotOpened, AltNotClaimed, AltOpened, AllVisited, Altsetting
  <2> QED
    BY <1>0, <1>1, <1>4, <1>5, <1>6, <2>1, <2>3 DEF OpenVarsInv, OpenTypeOK
<1>8. VisitInv' /\ OpensRequested'
  <2>1. CASE AltNotOpened
    <3>1. /\ opening' = opening /\ alt' = Altsettings(handle.of) /\ refused' = TRUE
          /\ UNCHANGED <<handle, good_open, threads>>
          /\ alt < Altsettings(handle.of)
      BY <2>1 DEF AltNotOpened, Altsetting
    <3> QED
      BY <1>0, <1>1, <1>4, <3>1 DEF VisitInv, OpensRequested
  <2>2. CASE AltNotClaimed
    <3>1. /\ opening' = opening /\ alt' = Altsettings(handle.of) /\ refused' = TRUE
          /\ handle'.state = "closed" /\ good_open' = FALSE /\ threads' = threads
          /\ alt < Altsettings(handle.of)
      BY <1>4, <2>2 DEF AltNotClaimed, Altsetting
    <3>2. threads > 0 => Altsettings(handle.of) = 2
      BY <1>0, <1>4, <3>1 DEF VisitInv
    <3> QED
      BY <1>0, <1>1, <1>4, <1>6, <3>1, <3>2 DEF VisitInv, OpensRequested
  <2>3. CASE AltOpened
    <3>1. /\ opening' = opening /\ alt' = alt + 1 /\ handle'.state = "open" /\ good_open' = TRUE
      BY <1>4, <2>3 DEF AltOpened, Altsetting
    <3> QED
      BY <1>0, <1>1, <1>4, <1>6, <3>1 DEF VisitInv, OpensRequested
  <2>4. CASE AllVisited
    <3>1. /\ opening' = "returned" /\ alt = Altsettings(handle.of)
          /\ UNCHANGED <<alt, handle, good_open, threads, refused>>
      BY <2>4 DEF AllVisited, Return
    <3>2. /\ alt > 0 /\ (~refused => good_open) /\ (good_open => handle.state = "open")
          /\ ~good_open => threads = 0 \/ Altsettings(handle.of) = 2
      BY <1>0, <1>1, <1>4, <3>1 DEF VisitInv
    <3>3. VisitInv'
      BY <1>0, <1>1, <3>1, <3>2 DEF VisitInv
    <3>4. /\ (~refused' => good_open') /\ (good_open' => handle'.state = "open")
          /\ ~good_open' => threads' = 0 \/ Altsettings(handle'.of) = 2
          /\ IsMeter(handle'.of)
      BY <1>4, <3>1, <3>2
    <3>5. OpensRequested'
      BY <3>4 DEF OpensRequested
    <3> QED
      BY <3>3, <3>5
  <2> QED
    BY <2>1, <2>2, <2>3, <2>4
<1> QED
  BY <1>0, <1>1, <1>3, <1>7, <1>8 DEF OpenedInv

\* Every step of hid_open, and every change of the bus meanwhile.
LEMMA OpenStep == OpenedInv /\ OpenNext => OpenedInv'
PROOF BY ReplugKeeps, EnumerateKeeps, OpenPathKeeps, FindPathKeeps, AltsettingKeeps DEF OpenNext

-----------------------------------------------------------------------------
(* The invariant of each backend.                                          *)

Bounded == Len(queue) <= Capacity /\ sent <= MaxReports

Waiting == {"sleepy", "waiting", "woken", "expired"}

\* The mutex is held on the way into the wait only; who waits has a deadline.
CallerInv ==
  /\ mutex <=> user = "sleepy"
  /\ user \in Waiting <=> reading # "no"
  /\ user = "expired" => reading = "later"

Stopping == {"cancel", "drain", "broadcast", "ended"}
LibusbInv ==
  /\ Libusb!TypeOK
  /\ Bounded
  /\ CallerInv
  /\ user = "none" => reader = "none" /\ transfer = "none"
  /\ user = "closed" => reader = "ended"
  /\ reader = "none" => user = "none"
  /\ reader = "submit" => transfer = "none"
  /\ reader = "resubmit" => transfer = "idle"
  /\ transfer = "completed" => sent > 0
  /\ transfer = "no_device" => ~plugged
  /\ transfer \in {"cancelling", "cancelled"} =>
       user \in {"join", "closed"} \/ reader \in Stopping \ {"cancel"}
  /\ shutdown => ~plugged \/ reader \in Stopping \/ user \in {"cancel", "join", "closed"}
  /\ user \in {"sleepy", "waiting"} => queue = <<>> /\ (reader = "ended" => ~shutdown)

\* Who has arrived at the barriers of hid_apple.cpp.
UserStarted == user \notin {"none", "arrive"}
ReaderStarted == reader \notin {"none", "setup", "arrive"}
UserStopped == user \in {"stop", "join", "closed"}
ReaderStopped == reader \in {"stop", "ended"}
BarrierOf(b, userIn, readerIn) ==
  /\ userIn = readerIn => barrier[b] = [count |-> 0, waits |-> {}]
  /\ userIn /\ ~readerIn => barrier[b] = [count |-> 1, waits |-> {"user"}]
  /\ readerIn /\ ~userIn => barrier[b] = [count |-> 1, waits |-> {"reader"}]

\* As long as no wait has woken by itself a barrier holds whoever comes first until the
\* other is there: the run loop exists until hid_close has used it for the last time.
BarrierInv ==
  ~early =>
    /\ BarrierOf("start", UserStarted, ReaderStarted)
    /\ UserStarted /\ user # "start" => ReaderStarted
    /\ ReaderStarted /\ reader # "start" => UserStarted
    /\ BarrierOf("stop", UserStopped, ReaderStopped)
    /\ user \in {"join", "closed"} => ReaderStopped
    /\ reader = "ended" => UserStopped
    /\ reader \notin {"none", "setup"} => source # "unset"
    /\ ~undefined

Leaving == {"broadcast", "meet", "stop", "ended"}
AppleInv ==
  /\ Apple!TypeOK
  /\ barrier \in [{"start", "stop"} -> [count : 0..1, waits : SUBSET {"user", "reader"}]]
  /\ Bounded
  /\ CallerInv
  /\ user = "none" <=> reader = "none"
  /\ user = "closed" => reader = "ended"
  /\ disconnected => ~plugged \/ reader \in Leaving
  /\ shutdown => reader \in Leaving \/ user \in {"signal", "meet", "stop", "join", "closed"}
  /\ reader \in Leaving => shutdown \/ disconnected
  /\ user \in {"sleepy", "waiting"} => queue = <<>> /\ reader \notin Leaving \ {"broadcast"}
  /\ BarrierInv

LinuxInv ==
  /\ Linux!TypeOK
  /\ Bounded
  /\ user \in {"poll", "read"} <=> reading # "no"
  /\ reading = "never" => blocking

HidInv ==
  /\ OpenedInv
  /\ user # "none" => opening = "returned"
  /\ backend = "libusb" => LibusbInv
  /\ backend = "apple" => AppleInv
  /\ backend # "apple" => ~undefined
  /\ backend = "hidraw" => LinuxInv

-----------------------------------------------------------------------------
(* The queue.                                                              *)

LEMMA Bounds == MaxReports \in Nat /\ Limit \in Nat /\ Capacity = Limit + 2
PROOF BY HidAssumption DEF Capacity

\* A report that arrives when Capacity of them are kept takes the place of the oldest.
LEMMA Enqueued ==
  ASSUME NEW q \in Seq(1..MaxReports), Len(q) <= Capacity, NEW r \in 1..MaxReports
  PROVE  /\ Libusb!Enqueue(q, r) = Apple!Enqueue(q, r)
         /\ Libusb!Enqueue(q, r) \in Seq(1..MaxReports)
         /\ Len(Libusb!Enqueue(q, r)) <= Capacity
         /\ Libusb!Enqueue(q, r) = IF Len(q) < Capacity THEN Append(q, r) ELSE Append(Tail(q), r)
<1> DEFINE rest == IF Len(q) - 1 > Limit THEN Tail(q) ELSE q
<1>1. Len(q) \in Nat /\ (Len(q) - 1 > Limit => q # <<>>)
  BY Bounds
<1>2. rest \in Seq(1..MaxReports) /\ Len(rest) + 1 <= Capacity
  <2>1. CASE Len(q) - 1 > Limit
    BY <1>1, <2>1, Bounds
  <2>2. CASE ~(Len(q) - 1 > Limit)
    BY <1>1, <2>2, Bounds
  <2> QED
    BY <2>1, <2>2
<1>3. Append(rest, r) \in Seq(1..MaxReports) /\ Len(Append(rest, r)) = Len(rest) + 1
  BY <1>2
<1>4. Libusb!Enqueue(q, r) = Append(rest, r) /\ Apple!Enqueue(q, r) = Append(rest, r)
  BY DEF Libusb!Enqueue, Apple!Enqueue
<1>5. rest = IF Len(q) < Capacity THEN q ELSE Tail(q)
  BY <1>1, Bounds
<1>6. Append(rest, r) = IF Len(q) < Capacity THEN Append(q, r) ELSE Append(Tail(q), r)
  BY <1>5
<1> HIDE DEF rest
<1> QED
  BY <1>2, <1>3, <1>4, <1>6

\* What is left when the oldest report is taken.
LEMMA Taken ==
  ASSUME queue \in Seq(1..MaxReports), queue # <<>>
  PROVE  /\ Head(queue) \in 1..MaxReports /\ Head(queue) \in Nat
         /\ Tail(queue) \in Seq(1..MaxReports) /\ Len(Tail(queue)) = Len(queue) - 1
PROOF BY Bounds

-----------------------------------------------------------------------------
(* libusb.                                                                 *)

LEMMA LibusbStep == LibusbInv /\ Libusb!Next => LibusbInv'
<1> SUFFICES ASSUME LibusbInv, Libusb!Next PROVE LibusbInv'
  OBVIOUS
<1> USE Bounds DEF LibusbInv, Libusb!TypeOK, Bounded, CallerInv, Waiting, Stopping,
        Libusb!Transfers, Libusb!Ended, Libusb!userVars, Libusb!usbVars, Libusb!vars
<1>1. CASE Libusb!FirstSubmit
  BY <1>1 DEF Libusb!FirstSubmit, Libusb!Submit
<1>3. CASE Libusb!HandleEvents
  <2>1. CASE Libusb!CallbackReport
    <3>1. /\ reader = "events" /\ transfer = "completed" /\ ~mutex
          /\ queue' = Libusb!Enqueue(queue, sent)
          /\ transfer' = "idle" /\ reader' = "resubmit"
          /\ user' \in {user, "woken"} /\ (user' # user => user = "waiting")
          /\ user = "waiting" => user' = "woken"
          /\ UNCHANGED <<blocking, reading, result, taken, mutex, shutdown, sent, plugged>>
      BY <1>3, <2>1 DEF Libusb!HandleEvents, Libusb!CallbackReport, Libusb!Wake
    <3>2. queue' \in Seq(1..MaxReports) /\ Len(queue') <= Capacity
      BY <3>1, Enqueued
    <3> QED
      BY <3>1, <3>2
  <2>2. CASE Libusb!CallbackEmpty
    BY <1>3, <2>2 DEF Libusb!HandleEvents, Libusb!CallbackEmpty
  <2>3. CASE Libusb!CallbackShutdown("loop")
    <3>1. /\ reader = "events" /\ reader' = "loop" /\ transfer \in {"cancelled", "no_device"}
          /\ transfer' = "idle" /\ shutdown' \in BOOLEAN
          /\ UNCHANGED <<user, blocking, reading, result, taken, queue, mutex, sent, plugged>>
      BY <1>3, <2>3 DEF Libusb!HandleEvents, Libusb!CallbackShutdown
    <3>2. shutdown' => ~plugged' \/ user' \in {"cancel", "join", "closed"}
      BY <3>1
    <3> QED
      BY <3>1, <3>2
  <2>4. CASE Libusb!NoEvent("loop", "cancel")
    BY <1>3, <2>4 DEF Libusb!HandleEvents, Libusb!NoEvent
  <2> QED
    BY <1>3, <2>1, <2>2, <2>3, <2>4 DEF Libusb!HandleEvents
<1>2. CASE Libusb!Loop
  BY <1>2 DEF Libusb!Loop
<1>4. CASE Libusb!Resubmit
  BY <1>4 DEF Libusb!Resubmit, Libusb!Submit
<1>5. CASE Libusb!StopTransfer
  BY <1>5 DEF Libusb!StopTransfer, Libusb!Cancel
<1>6. CASE Libusb!Drain
  <2>1. /\ reader = "drain" /\ reader' = "broadcast"
        /\ transfer' \in {"idle", transfer}
        /\ shutdown' \in BOOLEAN
        /\ UNCHANGED <<user, blocking, reading, result, taken, queue, mutex, sent, plugged>>
    BY <1>6 DEF Libusb!Drain, Libusb!CallbackShutdown, Libusb!NoEvent
  <2> QED
    BY <2>1
<1>7. CASE Libusb!Broadcast
  BY <1>7 DEF Libusb!Broadcast, Libusb!Wake
<1>8. CASE Libusb!Opened
  BY <1>8 DEF Libusb!Opened
<1>9. CASE Libusb!Sleep
  <2>1. /\ user = "sleepy" /\ user' = "waiting" /\ mutex' \in BOOLEAN /\ ~mutex'
        /\ UNCHANGED <<blocking, reading, result, taken, reader, shutdown, queue, transfer, sent, plugged>>
    BY <1>9 DEF Libusb!Sleep
  <2> QED
    BY <2>1
<1>10. CASE Libusb!Awake
  <2>1. /\ user = "woken" /\ ~mutex
        /\ UNCHANGED <<blocking, reader, shutdown, transfer, sent, plugged>>
    BY <1>10 DEF Libusb!Awake
  <2>2. CASE Libusb!TakeReport /\ UNCHANGED mutex
    <3>1. /\ user' = "idle" /\ reading' = "no" /\ result' = "data"
          /\ queue # <<>> /\ taken' = Head(queue) /\ queue' = Tail(queue) /\ mutex' = mutex
      BY <2>2 DEF Libusb!TakeReport, Libusb!Return
    <3> QED
      BY <2>1, <3>1, Taken
  <2>3. CASE queue = <<>> /\ shutdown /\ Libusb!Return("error") /\ UNCHANGED <<taken, queue, mutex>>
    BY <2>1, <2>3 DEF Libusb!Return
  <2>4. CASE /\ queue = <<>> /\ ~shutdown
             /\ user' = "sleepy"
             /\ mutex' = TRUE
             /\ UNCHANGED <<reading, result, taken, queue>>
    BY <2>1, <2>4
  <2> QED
    BY <1>10, <2>2, <2>3, <2>4 DEF Libusb!Awake
<1>11. CASE Libusb!Expired
  BY <1>11 DEF Libusb!Expired, Libusb!Return
<1>12. CASE Libusb!CloseCancel
  BY <1>12 DEF Libusb!CloseCancel, Libusb!Cancel
<1>13. CASE Libusb!CloseFree
  BY <1>13 DEF Libusb!CloseFree
<1>14. CASE Libusb!Open
  BY <1>14 DEF Libusb!Open
<1>15. CASE Libusb!SetNonblocking
  BY <1>15 DEF Libusb!SetNonblocking
<1>16. CASE Libusb!Read
  <2>1. PICK deadline \in {"never", "now", "later"} : Libusb!ReadTimeout(deadline)
    BY <1>16 DEF Libusb!Read
  <2>2. /\ user = "idle" /\ ~mutex
        /\ UNCHANGED <<blocking, reader, shutdown, transfer, sent, plugged>>
    BY <2>1 DEF Libusb!ReadTimeout
  <2>3. CASE Libusb!TakeReport /\ UNCHANGED mutex
    <3>1. /\ user' = "idle" /\ reading' = "no" /\ result' = "data"
          /\ queue # <<>> /\ taken' = Head(queue) /\ queue' = Tail(queue) /\ mutex' = mutex
      BY <2>3 DEF Libusb!TakeReport, Libusb!Return
    <3> QED
      BY <2>2, <3>1, Taken
  <2>4. CASE /\ user' = "idle" /\ reading' = "no" /\ result' \in {"error", "nothing"}
             /\ UNCHANGED <<taken, queue, mutex>>
    BY <2>2, <2>4
  <2>5. CASE /\ queue = <<>> /\ ~shutdown /\ deadline # "now"
             /\ reading' = deadline /\ mutex' = TRUE /\ user' = "sleepy"
             /\ UNCHANGED <<taken, queue, result>>
    BY <2>2, <2>5
  <2> QED
    BY <2>1, <2>3, <2>4, <2>5 DEF Libusb!ReadTimeout, Libusb!Return
<1>17. CASE Libusb!Write
  BY <1>17 DEF Libusb!Write
<1>18. CASE Libusb!Spurious
  BY <1>18 DEF Libusb!Spurious
<1>19. CASE Libusb!Expire
  BY <1>19 DEF Libusb!Expire
<1>20. CASE Libusb!Close
  BY <1>20 DEF Libusb!Close
<1>21. CASE Libusb!EndTransfer
  BY <1>21 DEF Libusb!EndTransfer
<1>22. CASE Libusb!Unplug
  <2>1. /\ plugged' \in BOOLEAN /\ ~plugged'
        /\ UNCHANGED <<user, blocking, reading, result, taken, reader, mutex, shutdown, queue, transfer, sent>>
    BY <1>22 DEF Libusb!Unplug
  <2> QED
    BY <2>1
<1>23. CASE Libusb!Closed
  BY <1>23 DEF Libusb!Closed
<1> HIDE DEF LibusbInv
<1> QED
  BY <1>1, <1>2, <1>3, <1>4, <1>5, <1>6, <1>7, <1>8, <1>9, <1>10, <1>11, <1>12, <1>13, <1>14, <1>15,
     <1>16, <1>17, <1>18, <1>19, <1>20, <1>21, <1>22, <1>23
  DEF Libusb!Next, Libusb!ReadThread, Libusb!InCall

-----------------------------------------------------------------------------
(* The barriers of hid_apple.cpp.                                          *)

BarrierType ==
  barrier \in [{"start", "stop"} -> [count : 0..1, waits : SUBSET {"user", "reader"}]]

\* The first to arrive waits, the second lets it go.
LEMMA ArriveFacts ==
  ASSUME BarrierType, NEW b \in {"start", "stop"}, NEW who \in {"user", "reader"},
         Apple!Arrive(b, who)
  PROVE  /\ BarrierType'
         /\ \A c \in {"start", "stop"} \ {b} : barrier'[c] = barrier[c]
         /\ barrier[b] = [count |-> 0, waits |-> {}] =>
              barrier'[b] = [count |-> 1, waits |-> {who}]
         /\ \A other : barrier[b] = [count |-> 1, waits |-> {other}] =>
              barrier'[b] = [count |-> 0, waits |-> {}]
<1> DEFINE next == IF barrier[b].count = 1 THEN [count |-> 0, waits |-> {}]
                   ELSE [count |-> 1, waits |-> {who}]
<1>1. barrier' = [barrier EXCEPT ![b] = next]
  BY DEF Apple!Arrive
<1>2. next \in [count : 0..1, waits : SUBSET {"user", "reader"}]
  OBVIOUS
<1>3. BarrierType' /\ barrier'[b] = next
      /\ \A c \in {"start", "stop"} \ {b} : barrier'[c] = barrier[c]
  BY <1>1, <1>2 DEF BarrierType
<1>4. barrier[b] = [count |-> 0, waits |-> {}] => next = [count |-> 1, waits |-> {who}]
  OBVIOUS
<1>5. \A other : barrier[b] = [count |-> 1, waits |-> {other}] => next = [count |-> 0, waits |-> {}]
  OBVIOUS
<1> QED
  BY <1>3, <1>4, <1>5

-----------------------------------------------------------------------------
(* macOS.                                                                  *)

LEMMA AppleStep == AppleInv /\ Apple!Next => AppleInv'
<1> SUFFICES ASSUME AppleInv, Apple!Next PROVE AppleInv'
  OBVIOUS
<1> USE Bounds DEF AppleInv, Apple!TypeOK, Bounded, CallerInv, Waiting, Leaving, BarrierInv,
        BarrierOf, UserStarted, ReaderStarted, UserStopped, ReaderStopped, Apple!Barriers,
        Apple!userVars, Apple!appleVars, Apple!vars
<1>1. CASE Apple!Setup
  BY <1>1 DEF Apple!Setup
<1>2. CASE Apple!ReaderStarts
  BY <1>2 DEF Apple!ReaderStarts, Apple!Released
<1>3. CASE Apple!Loop
  BY <1>3 DEF Apple!Loop
<1>4. CASE Apple!RemovalCallback
  BY <1>4 DEF Apple!RemovalCallback
<1>5. CASE Apple!SignalCallback
  BY <1>5 DEF Apple!SignalCallback
<1>6. CASE Apple!RunTimedOut
  BY <1>6 DEF Apple!RunTimedOut
<1>7. CASE Apple!RunFinished
  BY <1>7 DEF Apple!RunFinished
<1>8. CASE Apple!RunStopped
  BY <1>8 DEF Apple!RunStopped
<1>9. CASE Apple!Broadcast
  BY <1>9 DEF Apple!Broadcast, Apple!Wake
<1>10. CASE Apple!ReaderEnds
  BY <1>10 DEF Apple!ReaderEnds, Apple!Released
<1>11. CASE Apple!Open
  BY <1>11 DEF Apple!Open
<1>12. CASE Apple!Opened
  BY <1>12 DEF Apple!Opened, Apple!Released
<1>13. CASE Apple!SetNonblocking
  BY <1>13 DEF Apple!SetNonblocking
<1>14. CASE Apple!Write
  BY <1>14 DEF Apple!Write
<1>15. CASE Apple!Spurious
  BY <1>15 DEF Apple!Spurious
<1>16. CASE Apple!Expire
  BY <1>16 DEF Apple!Expire
<1>17. CASE Apple!Expired
  BY <1>17 DEF Apple!Expired, Apple!Return
<1>18. CASE Apple!CloseFlag
  BY <1>18 DEF Apple!CloseFlag
<1>19. CASE Apple!CloseSignal
  BY <1>19 DEF Apple!CloseSignal, Apple!UseRunLoop, Apple!RunLoopExists
<1>20. CASE Apple!CloseMet
  BY <1>20 DEF Apple!CloseMet, Apple!Released
<1>21. CASE Apple!CloseFree
  BY <1>21 DEF Apple!CloseFree
<1>22. CASE Apple!ReaderArrives
  <2>1. /\ reader = "arrive" /\ reader' = "start" /\ Apple!Arrive("start", "reader")
        /\ UNCHANGED <<user, Apple!userVars, mutex, shutdown, queue, sent, plugged, disconnected,
                       scheduled, source, early, undefined>>
    BY <1>22 DEF Apple!ReaderArrives
  <2>2. BarrierType'
    BY <2>1, ArriveFacts DEF BarrierType
  <2>3. \A c \in {"start", "stop"} : barrier'[c].count \in 0..1 /\ barrier'[c].waits \subseteq {"user", "reader"}
    BY <2>2 DEF BarrierType
  <2>4. /\ barrier'["stop"] = barrier["stop"]
        /\ barrier["start"] = [count |-> 0, waits |-> {}] =>
             barrier'["start"] = [count |-> 1, waits |-> {"reader"}]
        /\ barrier["start"] = [count |-> 1, waits |-> {"user"}] =>
             barrier'["start"] = [count |-> 0, waits |-> {}]
    BY <2>1, ArriveFacts DEF BarrierType
  <2>5. BarrierInv'
    BY <2>1, <2>4
  <2> QED
    BY <2>1, <2>2, <2>3, <2>5 DEF BarrierType
<1>23. CASE Apple!UserArrives
  <2>1. /\ user = "arrive" /\ user' = "start" /\ Apple!Arrive("start", "user")
        /\ UNCHANGED <<reader, Apple!userVars, mutex, shutdown, queue, sent, plugged, disconnected,
                       scheduled, source, early, undefined>>
    BY <1>23 DEF Apple!UserArrives
  <2>2. BarrierType'
    BY <2>1, ArriveFacts DEF BarrierType
  <2>3. \A c \in {"start", "stop"} : barrier'[c].count \in 0..1 /\ barrier'[c].waits \subseteq {"user", "reader"}
    BY <2>2 DEF BarrierType
  <2>4. /\ barrier'["stop"] = barrier["stop"]
        /\ barrier["start"] = [count |-> 0, waits |-> {}] =>
             barrier'["start"] = [count |-> 1, waits |-> {"user"}]
        /\ barrier["start"] = [count |-> 1, waits |-> {"reader"}] =>
             barrier'["start"] = [count |-> 0, waits |-> {}]
    BY <2>1, ArriveFacts DEF BarrierType
  <2>5. BarrierInv'
    BY <2>1, <2>4
  <2> QED
    BY <2>1, <2>2, <2>3, <2>5 DEF BarrierType
<1>24. CASE Apple!MeetUser
  <2>1. /\ reader = "meet" /\ reader' = "stop" /\ Apple!Arrive("stop", "reader")
        /\ UNCHANGED <<user, Apple!userVars, mutex, shutdown, queue, sent, plugged, disconnected,
                       scheduled, source, early, undefined>>
    BY <1>24 DEF Apple!MeetUser
  <2>2. BarrierType'
    BY <2>1, ArriveFacts DEF BarrierType
  <2>3. \A c \in {"start", "stop"} : barrier'[c].count \in 0..1 /\ barrier'[c].waits \subseteq {"user", "reader"}
    BY <2>2 DEF BarrierType
  <2>4. /\ barrier'["start"] = barrier["start"]
        /\ barrier["stop"] = [count |-> 0, waits |-> {}] =>
             barrier'["stop"] = [count |-> 1, waits |-> {"reader"}]
        /\ barrier["stop"] = [count |-> 1, waits |-> {"user"}] =>
             barrier'["stop"] = [count |-> 0, waits |-> {}]
    BY <2>1, ArriveFacts DEF BarrierType
  <2>5. BarrierInv'
    BY <2>1, <2>4
  <2> QED
    BY <2>1, <2>2, <2>3, <2>5 DEF BarrierType
<1>25. CASE Apple!CloseMeet
  <2>1. /\ user = "meet" /\ user' = "stop" /\ Apple!Arrive("stop", "user")
        /\ UNCHANGED <<reader, Apple!userVars, mutex, shutdown, queue, sent, plugged, disconnected,
                       scheduled, source, early, undefined>>
    BY <1>25 DEF Apple!CloseMeet
  <2>2. BarrierType'
    BY <2>1, ArriveFacts DEF BarrierType
  <2>3. \A c \in {"start", "stop"} : barrier'[c].count \in 0..1 /\ barrier'[c].waits \subseteq {"user", "reader"}
    BY <2>2 DEF BarrierType
  <2>4. /\ barrier'["start"] = barrier["start"]
        /\ barrier["stop"] = [count |-> 0, waits |-> {}] =>
             barrier'["stop"] = [count |-> 1, waits |-> {"user"}]
        /\ barrier["stop"] = [count |-> 1, waits |-> {"reader"}] =>
             barrier'["stop"] = [count |-> 0, waits |-> {}]
    BY <2>1, ArriveFacts DEF BarrierType
  <2>5. BarrierInv'
    BY <2>1, <2>4
  <2> QED
    BY <2>1, <2>2, <2>3, <2>5 DEF BarrierType
<1>26. CASE Apple!Unplug
  <2>1. /\ plugged' \in BOOLEAN /\ ~plugged'
        /\ UNCHANGED <<user, blocking, reading, result, taken, reader, mutex, shutdown, queue, sent,
                       disconnected, scheduled, source, barrier, early, undefined>>
    BY <1>26 DEF Apple!Unplug
  <2> QED
    BY <2>1
<1>27. CASE Apple!Sleep
  <2>1. /\ user = "sleepy" /\ user' = "waiting" /\ mutex' \in BOOLEAN /\ ~mutex'
        /\ UNCHANGED <<blocking, reading, result, taken, reader, shutdown, queue, sent, plugged,
                       disconnected, scheduled, source, barrier, early, undefined>>
    BY <1>27 DEF Apple!Sleep
  <2> QED
    BY <2>1
<1>28. CASE Apple!Close
  <2>1. /\ user = "idle" /\ user' = "flag" /\ scheduled' \in BOOLEAN /\ undefined' \in BOOLEAN
        /\ undefined' => undefined \/ source = "unset" \/ reader = "ended"
        /\ UNCHANGED <<blocking, reading, result, taken, reader, mutex, shutdown, queue, sent, plugged,
                       disconnected, source, barrier, early>>
    BY <1>28 DEF Apple!Close, Apple!UseRunLoop, Apple!RunLoopExists
  <2> QED
    BY <2>1
<1>29. CASE Apple!ReportCallback
  <2>1. /\ reader = "run" /\ sent < MaxReports /\ ~mutex
        /\ sent' = sent + 1 /\ queue' = Apple!Enqueue(queue, sent')
        /\ user' \in {user, "woken"} /\ (user' # user => user = "waiting")
        /\ user = "waiting" => user' = "woken"
        /\ UNCHANGED <<blocking, reading, result, taken, reader, mutex, shutdown, plugged,
                       disconnected, scheduled, source, barrier, early, undefined>>
    BY <1>29 DEF Apple!ReportCallback, Apple!Wake
  <2>2. sent' \in 1..MaxReports
    BY <2>1
  <2>3. queue' \in Seq(1..MaxReports) /\ Len(queue') <= Capacity
    BY <2>1, <2>2, Enqueued
  <2> QED
    BY <2>1, <2>2, <2>3
<1>30. CASE Apple!Awake
  <2>1. /\ user = "woken" /\ ~mutex
        /\ UNCHANGED <<blocking, reader, shutdown, sent, plugged, disconnected, scheduled, source, barrier,
                       early, undefined>>
    BY <1>30 DEF Apple!Awake
  <2>2. CASE Apple!TakeReport /\ UNCHANGED mutex
    <3>1. /\ user' = "idle" /\ reading' = "no" /\ result' = "data"
          /\ queue # <<>> /\ taken' = Head(queue) /\ queue' = Tail(queue) /\ mutex' = mutex
      BY <2>2 DEF Apple!TakeReport, Apple!Return
    <3> QED
      BY <2>1, <3>1, Taken
  <2>3. CASE Apple!Return("error") /\ UNCHANGED <<taken, queue, mutex>>
    BY <2>1, <2>3 DEF Apple!Return
  <2>4. CASE /\ ~shutdown /\ ~disconnected /\ queue = <<>>
             /\ user' = "sleepy"
             /\ mutex' = TRUE
             /\ UNCHANGED <<reading, result, taken, queue>>
    BY <2>1, <2>4
  <2> QED
    BY <1>30, <2>2, <2>3, <2>4 DEF Apple!Awake
<1>31. CASE Apple!Read
  <2>1. PICK deadline \in {"never", "now", "later"} : Apple!ReadTimeout(deadline)
    BY <1>31 DEF Apple!Read
  <2>2. /\ user = "idle" /\ ~mutex
        /\ UNCHANGED <<blocking, reader, shutdown, sent, plugged, disconnected, scheduled, source, barrier,
                       early, undefined>>
    BY <2>1 DEF Apple!ReadTimeout
  <2>3. CASE Apple!TakeReport /\ UNCHANGED mutex
    <3>1. /\ user' = "idle" /\ reading' = "no" /\ result' = "data"
          /\ queue # <<>> /\ taken' = Head(queue) /\ queue' = Tail(queue) /\ mutex' = mutex
      BY <2>3 DEF Apple!TakeReport, Apple!Return
    <3> QED
      BY <2>2, <3>1, Taken
  <2>4. CASE /\ user' = "idle" /\ reading' = "no" /\ result' \in {"error", "nothing"}
             /\ UNCHANGED <<taken, queue, mutex>>
    BY <2>2, <2>4
  <2>5. CASE /\ queue = <<>> /\ ~disconnected /\ ~shutdown /\ deadline # "now"
             /\ reading' = deadline /\ mutex' = TRUE /\ user' = "sleepy"
             /\ UNCHANGED <<taken, queue, result>>
    BY <2>2, <2>5
  <2> QED
    BY <2>1, <2>3, <2>4, <2>5 DEF Apple!ReadTimeout, Apple!Return
<1>32. CASE Apple!WakeInBarrier
  <2>1. /\ early' = TRUE
        /\ UNCHANGED <<user, blocking, reading, result, taken, reader, mutex, shutdown, queue, sent, plugged,
                       disconnected, scheduled, source, undefined>>
    BY <1>32 DEF Apple!WakeInBarrier
  <2>2. BarrierType'
    <3>1. PICK b \in {"start", "stop"}, who \in {"user", "reader"} :
            barrier' = [barrier EXCEPT ![b].waits = @ \ {who}]
      BY <1>32 DEF Apple!WakeInBarrier
    <3> DEFINE next == [barrier[b] EXCEPT !.waits = @ \ {who}]
    <3>2. next \in [count : 0..1, waits : SUBSET {"user", "reader"}]
      OBVIOUS
    <3>3. barrier' = [barrier EXCEPT ![b] = next]
      BY <3>1
    <3> QED
      BY <3>2, <3>3 DEF BarrierType
  <2>3. \A c \in {"start", "stop"} : barrier'[c].count \in 0..1 /\ barrier'[c].waits \subseteq {"user", "reader"}
    BY <2>2 DEF BarrierType
  <2> QED
    BY <2>1, <2>2, <2>3 DEF BarrierType
<1>33. CASE user = "closed" /\ UNCHANGED Apple!vars
  BY <1>33
<1> HIDE DEF AppleInv
<1> QED
  BY <1>1, <1>2, <1>3, <1>4, <1>5, <1>6, <1>7, <1>8, <1>9, <1>10, <1>11, <1>12, <1>13,
     <1>14, <1>15, <1>16, <1>17, <1>18, <1>19, <1>20, <1>21, <1>22, <1>23, <1>24, <1>25,
     <1>26, <1>27, <1>28, <1>29, <1>30, <1>31, <1>32, <1>33
  DEF Apple!Next, Apple!ReadThread, Apple!Callback, Apple!InCall

-----------------------------------------------------------------------------
(* hidraw.                                                                 *)

LEMMA LinuxStep == LinuxInv /\ Linux!Next => LinuxInv'
<1> SUFFICES ASSUME LinuxInv, Linux!Next PROVE LinuxInv'
  OBVIOUS
<1> USE Bounds DEF LinuxInv, Linux!TypeOK, Bounded, Linux!hidrawVars, Linux!vars
<1>1. CASE Linux!Open
  BY <1>1 DEF Linux!Open
<1>2. CASE Linux!SetNonblocking
  BY <1>2 DEF Linux!SetNonblocking
<1>3. CASE Linux!Read
  BY <1>3 DEF Linux!Read, Linux!ReadTimeout
<1>4. CASE Linux!Write
  BY <1>4 DEF Linux!Write
<1>5. CASE Linux!Poll
  BY <1>5 DEF Linux!Poll
<1>6. CASE Linux!PollTimeout
  BY <1>6 DEF Linux!PollTimeout, Linux!Return
<1>7. CASE Linux!ReadSyscall
  <2>1. /\ user = "read" /\ user' = "idle" /\ reading' = "no"
        /\ UNCHANGED <<blocking, sent, plugged, device, kernel, uses_numbered_reports>>
    BY <1>7 DEF Linux!ReadSyscall, Linux!ReadReport, Linux!ReadNothing, Linux!ReadGone, Linux!Return
  <2>2. CASE Linux!ReadReport
    <3>1. /\ queue # <<>> /\ queue' = Tail(queue) /\ result' = "data"
          /\ taken' \in {Head(queue), 0}
      BY <2>2 DEF Linux!ReadReport, Linux!Return
    <3>2. taken' \in Nat
      BY <3>1, Taken
    <3> QED
      BY <2>1, <3>1, <3>2, Taken
  <2>3. CASE Linux!ReadNothing \/ Linux!ReadGone
    <3>1. result' \in {"nothing", "error"} /\ UNCHANGED <<taken, queue>>
      BY <2>3 DEF Linux!ReadNothing, Linux!ReadGone, Linux!Return
    <3> QED
      BY <2>1, <3>1
  <2> QED
    BY <1>7, <2>2, <2>3 DEF Linux!ReadSyscall
<1>8. CASE Linux!Close
  BY <1>8 DEF Linux!Close
<1>9. CASE Linux!Send
  <2>1. /\ sent < MaxReports /\ sent' = sent + 1
        /\ queue' = IF Len(queue) < Capacity THEN Append(queue, sent') ELSE queue
        /\ UNCHANGED <<user, blocking, reading, result, taken, plugged, device, kernel,
                       uses_numbered_reports>>
    BY <1>9 DEF Linux!Send
  <2>2. sent' \in 1..MaxReports /\ queue \in Seq(1..MaxReports) /\ Len(queue) \in Nat
    BY <2>1
  <2>3. /\ Append(queue, sent') \in Seq(1..MaxReports)
        /\ Len(Append(queue, sent')) = Len(queue) + 1
    BY <2>2
  <2>4. queue' \in Seq(1..MaxReports) /\ Len(queue') <= Capacity
    <3>1. CASE Len(queue) < Capacity
      <4>1. queue' = Append(queue, sent')
        BY <2>1, <3>1
      <4> QED
        BY <2>2, <2>3, <3>1, <4>1
    <3>2. CASE ~(Len(queue) < Capacity)
      BY <2>1, <3>2
    <3> QED
      BY <3>1, <3>2
  <2> QED
    BY <2>1, <2>2, <2>4
<1>10. CASE Linux!Unplug
  <2>1. /\ plugged' \in BOOLEAN
        /\ UNCHANGED <<user, blocking, reading, result, taken, queue, sent, device, kernel,
                       uses_numbered_reports>>
    BY <1>10 DEF Linux!Unplug
  <2> QED
    BY <2>1
<1>11. CASE user = "closed" /\ UNCHANGED Linux!vars
  BY <1>11
<1> HIDE DEF LinuxInv
<1> QED
  BY <1>1, <1>2, <1>3, <1>4, <1>5, <1>6, <1>7, <1>8, <1>9, <1>10, <1>11
  DEF Linux!Next, Linux!InCall

-----------------------------------------------------------------------------
(* The caller of hid_open and what it has opened.                          *)

LEMMA LibusbUnchanged ==
  UNCHANGED <<callVars, threadVars, transfer>> => UNCHANGED LibusbInv
PROOF BY DEF callVars, threadVars, LibusbInv, Libusb!TypeOK, Bounded, CallerInv

LEMMA AppleUnchanged ==
  UNCHANGED <<callVars, threadVars, appleVars>> => UNCHANGED AppleInv
PROOF BY DEF callVars, threadVars, appleVars, AppleInv, Apple!TypeOK, Bounded, CallerInv, BarrierInv,
             BarrierOf, UserStarted, ReaderStarted, UserStopped, ReaderStopped

LEMMA LinuxUnchanged ==
  UNCHANGED <<callVars, hidrawVars>> => UNCHANGED LinuxInv
PROOF BY DEF callVars, hidrawVars, LinuxInv, Linux!TypeOK, Bounded

LEMMA OpenedUnchanged ==
  UNCHANGED <<backend, openVars>> => UNCHANGED OpenedInv
PROOF BY DEF openVars, OpenedInv, OpenVarsInv, OpenTypeOK, AddressInv, PathInv, VisitInv,
             OpensRequested, Records, LibusbRecords, AppleRecords, HidrawRecords, Path, LibusbPath,
             ApplePath, HidrawPath

\* A session begins where nothing of the search is left.
LEMMA BeginKeeps ==
  ASSUME OpenedInv, NEW open, Begin(open)
  PROVE  OpenedInv' /\ opening' = "returned" /\ backend' = backend
<1> USE PlacesAssumption
<1>1. /\ opening = "returned" /\ opening' = "returned" /\ backend' = backend
      /\ bus' = [p \in 1..Places |-> NoDevice]
      /\ changes' = 0 /\ seen' = 0 /\ alt' = 0 /\ threads' = 0
      /\ handle' = [of |-> NoDevice, state |-> "none"]
      /\ good_open' \in BOOLEAN /\ ~good_open' /\ refused' \in BOOLEAN
  BY DEF Begin
<1>2. \A p \in 1..Places : bus'[p] = NoDevice
  BY <1>1
<1>3. /\ handle' \in [of : Devices, state : {"none", "open", "closed"}]
      /\ handle'.state = "none" /\ bus' \in [1..Places -> Devices]
  BY <1>1, DeviceFacts
<1>4. OpenVarsInv'
  BY <1>1, <1>2, <1>3 DEF OpenedInv, OpenVarsInv, OpenTypeOK
<1>5. AddressInv'
  BY <1>1, <1>2, DeviceFacts DEF AddressInv
<1>6. Records' = {}
  <2>1. \A p \in 1..Places : ~IsMeter(bus'[p])
    BY <1>2, DeviceFacts
  <2> QED
    BY <1>4, <2>1 DEF OpenVarsInv, OpenTypeOK, Records, LibusbRecords, AppleRecords, HidrawRecords
<1>7. PathInv' /\ VisitInv' /\ OpensRequested'
  BY <1>1, <1>3, <1>6 DEF PathInv, VisitInv, OpensRequested
<1> QED
  BY <1>1, <1>4, <1>5, <1>7 DEF OpenedInv

LEMMA HidInitially == Init => HidInv
<1> SUFFICES ASSUME Init PROVE HidInv
  OBVIOUS
<1>1. OpenedInv
  BY OpenInitially DEF Init
<1>2. /\ user = "none" /\ reading = "no" /\ result = "none" /\ taken = 0 /\ sent = 0
      /\ reader = "none" /\ transfer = "none" /\ queue \in Seq(1..MaxReports) /\ Len(queue) = 0
      /\ blocking \in BOOLEAN /\ plugged \in BOOLEAN
      /\ mutex \in BOOLEAN /\ ~mutex /\ shutdown \in BOOLEAN /\ ~shutdown
  <2>1. /\ user = "none" /\ reading = "no" /\ result = "none" /\ taken = 0 /\ sent = 0
        /\ reader = "none" /\ transfer = "none" /\ queue = <<>>
    BY DEF Init, Libusb!Init
  <2>2. /\ blocking \in BOOLEAN /\ plugged \in BOOLEAN
        /\ mutex \in BOOLEAN /\ ~mutex /\ shutdown \in BOOLEAN /\ ~shutdown
    BY DEF Init, Libusb!Init
  <2> QED
    BY <2>1, <2>2
<1>3. /\ disconnected \in BOOLEAN /\ ~disconnected /\ scheduled \in BOOLEAN /\ source = "unset"
      /\ early \in BOOLEAN /\ undefined \in BOOLEAN /\ ~undefined
      /\ barrier = [b \in {"start", "stop"} |-> [count |-> 0, waits |-> {}]]
  BY DEF Init, Apple!Init, Apple!Barriers
<1>4. LibusbInv
  BY <1>2, Bounds DEF LibusbInv, Libusb!TypeOK, Libusb!Transfers, Bounded, CallerInv, Waiting, Stopping
<1>5. AppleInv
  <2>1. BarrierType /\ barrier["start"] = [count |-> 0, waits |-> {}]
        /\ barrier["stop"] = [count |-> 0, waits |-> {}]
    BY <1>3 DEF BarrierType
  <2>2. \A b \in {"start", "stop"} :
          barrier[b].count \in 0..1 /\ barrier[b].waits \subseteq {"user", "reader"}
    BY <2>1 DEF BarrierType
  <2>3. Apple!TypeOK
    BY <1>2, <1>3, <2>2 DEF Apple!TypeOK, Apple!Barriers
  <2>4. BarrierInv
    BY <1>2, <1>3, <2>1 DEF BarrierInv, BarrierOf, UserStarted, ReaderStarted, UserStopped, ReaderStopped
  <2> QED
    BY <1>2, <1>3, <2>1, <2>3, <2>4, Bounds DEF AppleInv, BarrierType, Bounded, CallerInv, Waiting,
                                                Leaving
<1>6. LinuxInv
  <2>1. device \in Descriptors /\ kernel \in Kernels /\ uses_numbered_reports \in BOOLEAN
    BY DEF Init, Linux!Init
  <2> QED
    BY <1>2, <2>1, Bounds DEF LinuxInv, Linux!TypeOK, Bounded
<1> QED
  BY <1>1, <1>2, <1>3, <1>4, <1>5, <1>6 DEF HidInv

LEMMA HidStep == HidInv /\ [Next]_vars => HidInv'
<1> SUFFICES ASSUME HidInv, [Next]_vars PROVE HidInv'
  OBVIOUS
<1>1. OpenedInv /\ (user # "none" => opening = "returned")
  BY DEF HidInv
<1>2. CASE Opening
  <2>1. user = "none" /\ UNCHANGED <<sessionVars, backend>> /\ OpenedInv'
    BY <1>1, <1>2, OpenStep DEF Opening, OpenNext, Replug, EnumerateAndChoose, OpenPathAtOnce, FindPath,
         Altsetting, AltNotOpened, AltNotClaimed, AltOpened, AllVisited
  <2>2. UNCHANGED <<LibusbInv, AppleInv, LinuxInv>> /\ user' = user /\ undefined' = undefined
    BY <2>1, LibusbUnchanged, AppleUnchanged, LinuxUnchanged DEF sessionVars, callVars, appleVars
  <2> QED
    BY <2>1, <2>2 DEF HidInv
<1>3. CASE NotFound \/ UNCHANGED vars
  <2>1. UNCHANGED <<backend, openVars, sessionVars>>
    BY <1>3 DEF NotFound, vars
  <2>2. UNCHANGED <<OpenedInv, LibusbInv, AppleInv, LinuxInv>>
    BY <2>1, OpenedUnchanged, LibusbUnchanged, AppleUnchanged, LinuxUnchanged DEF sessionVars
  <2> QED
    BY <2>1, <2>2 DEF HidInv, sessionVars, callVars, appleVars, openVars
<1>4. ASSUME NEW open, NEW step, Begin(open) \/ Session(step)
      PROVE  OpenedInv' /\ opening' = "returned" /\ backend' = backend
  BY <1>1, <1>4, BeginKeeps, OpenedUnchanged DEF Session, openVars
<1>5. CASE OnLibusb
  <2>1. backend = "libusb" /\ OpenedInv' /\ opening' = "returned" /\ backend' = backend
    BY <1>4, <1>5 DEF OnLibusb
  <2>2. Libusb!Next /\ undefined' = undefined
    BY <1>5 DEF OnLibusb, Begin, Session, Libusb!Next, appleVars
  <2> QED
    BY <2>1, <2>2, LibusbStep DEF HidInv
<1>6. CASE OnApple
  <2>1. backend = "apple" /\ OpenedInv' /\ opening' = "returned" /\ backend' = backend
    BY <1>4, <1>6 DEF OnApple
  <2>2. Apple!Next
    BY <1>6 DEF OnApple, Begin, Session, Apple!Next
  <2> QED
    BY <2>1, <2>2, AppleStep DEF HidInv
<1>7. CASE OnLinux
  <2>1. backend = "hidraw" /\ OpenedInv' /\ opening' = "returned" /\ backend' = backend
    BY <1>4, <1>7 DEF OnLinux
  <2>2. Linux!Next /\ undefined' = undefined
    BY <1>7 DEF OnLinux, Begin, Session, Linux!Next, appleVars
  <2> QED
    BY <2>1, <2>2, LinuxStep DEF HidInv
<1> QED
  BY <1>2, <1>3, <1>5, <1>6, <1>7 DEF Next

\* Every reachable state satisfies the invariant.
THEOREM Invariant == Spec => []HidInv
<1>1. Init => HidInv
  BY HidInitially
<1>2. HidInv /\ [Next]_vars => HidInv'
  BY HidStep
<1> QED
  BY <1>1, <1>2, PTL DEF Spec

-----------------------------------------------------------------------------
(* What follows.                                                           *)

\* The variables have their types, whichever backend is in use; that the queue is bounded
\* is part of Implementation.
THEOREM Types == Spec => []TypeOK
<1>1. HidInv => TypeOK
  <2> SUFFICES ASSUME HidInv PROVE TypeOK
    OBVIOUS
  <2>1. OpenTypeOK /\ backend \in {"libusb", "apple", "hidraw"}
    BY DEF HidInv, OpenedInv, OpenVarsInv, OpenTypeOK
  <2>2. /\ backend = "libusb" => Libusb!TypeOK
        /\ backend = "apple" => Apple!TypeOK
        /\ backend = "hidraw" => Linux!TypeOK
    BY DEF HidInv, LibusbInv, AppleInv, LinuxInv
  <2> QED
    BY <2>1, <2>2 DEF TypeOK
<1> QED
  BY <1>1, Invariant, PTL

\* Whatever the read thread, the callbacks and the end of the device do, a caller does
\* not sleep over a report or over the end of the thread.
THEOREM Wakeups == Spec => []NoLostWakeup
<1>1. HidInv => NoLostWakeup
  BY DEF HidInv, LibusbInv, AppleInv, NoLostWakeup, Libusb!SleepsForReason, Apple!SleepsForReason, Leaving
<1> QED
  BY <1>1, Invariant, PTL

\* The run loop of hid_apple.cpp is used only while it exists, unless a wait in one of
\* the barriers wakes by itself.
THEOREM RunLoop == Spec => []RunLoopValid
<1>1. HidInv => RunLoopValid
  BY DEF HidInv, OpenedInv, OpenVarsInv, OpenTypeOK, AppleInv, BarrierInv, RunLoopValid
<1> QED
  BY <1>1, Invariant, PTL

\* hid_open returns an open handle of a device that was asked for, or leaves nothing
\* behind that uses it, however often the bus changes meanwhile.
THEOREM Opens == Spec => []OpensRequested
<1>1. HidInv => OpensRequested
  BY DEF HidInv, OpenedInv
<1> QED
  BY <1>1, Invariant, PTL

-----------------------------------------------------------------------------
(* The device that hidapi.h lets a caller see.                             *)

LEMMA States ==
  /\ user = "none" => DeviceState = "none"
  /\ user = "closed" => DeviceState = "closed"
  /\ user \notin {"none", "closed"} => DeviceState = "open"
  /\ user' = "none" => DeviceState' = "none"
  /\ user' = "closed" => DeviceState' = "closed"
  /\ user' \notin {"none", "closed"} => DeviceState' = "open"
PROOF BY DEF DeviceState

\* A report that arrives, whether its backend then drops the oldest one or the newest.
LEMMA ArriveStep ==
  ASSUME DeviceState = "open", DeviceState' = "open", DeviceArrived' = DeviceArrived + 1,
         queue \in Seq(1..MaxReports), Len(queue) <= Capacity,
         \/ Len(queue) < Capacity /\ queue' = Append(queue, DeviceArrived')
         \/ ~(Len(queue) < Capacity) /\ queue' \in {queue, Append(Tail(queue), DeviceArrived')},
         DeviceBroken' <=> DeviceBroken, UNCHANGED <<reading, result, taken>>
  PROVE  Device!Next
<1>1. Len(queue) \in Nat /\ Capacity \in Nat
  BY Bounds
<1>2. \/ Len(queue) < Capacity /\ queue' = Append(queue, DeviceArrived')
      \/ Len(queue) = Capacity /\ queue' \in {queue, Append(Tail(queue), DeviceArrived')}
  BY <1>1
<1>3. UNCHANGED <<DeviceState, reading, result, taken, DeviceBroken>>
  OBVIOUS
<1>4. Device!Arrive
  BY <1>2, <1>3 DEF Device!Arrive
<1> QED
  BY <1>4 DEF Device!Next

\* A read that is answered at once, one that has to wait, and one that has waited.
LEMMA AnswerStep ==
  ASSUME DeviceState = "open", DeviceState' = "open", NEW deadline \in {"never", "later", "now"},
         reading = "no" \/ reading = deadline,
         Device!Answer(deadline), DeviceArrived' = DeviceArrived, DeviceBroken' <=> DeviceBroken
  PROVE  Device!Next
<1>1. Device!Read
  BY DEF Device!Read
<1> QED
  BY <1>1 DEF Device!Next

LEMMA WaitStep ==
  ASSUME DeviceState = "open", DeviceState' = "open", NEW deadline \in {"never", "later", "now"},
         reading = "no", reading' = deadline, UNCHANGED <<queue, result, taken>>,
         DeviceArrived' = DeviceArrived, DeviceBroken' <=> DeviceBroken
  PROVE  Device!Next
<1>1. Device!Read
  BY DEF Device!Read, Device!Begin
<1> QED
  BY <1>1 DEF Device!Next

\* The device goes, or what serves it stops.
LEMMA BreakStep ==
  ASSUME DeviceBroken', UNCHANGED <<DeviceState, DeviceArrived, queue, reading, result, taken>>
  PROVE  Device!Next
PROOF BY DEF Device!Next, Device!Break

LEMMA Stutter ==
  ASSUME DeviceBroken' <=> DeviceBroken,
         UNCHANGED <<DeviceState, DeviceArrived, queue, reading, result, taken>>
  PROVE  UNCHANGED Device!vars
PROOF BY DEF Device!vars

LEMMA WriteStep ==
  ASSUME DeviceState = "open", DeviceState' = "open", reading = "no",
         result' \in {"written", "error"},
         UNCHANGED <<DeviceArrived, queue, reading, taken>>, DeviceBroken' <=> DeviceBroken
  PROVE  Device!Next
PROOF BY DEF Device!Next, Device!Write

LEMMA CloseStep ==
  ASSUME DeviceState = "open", DeviceState' = "closed", reading = "no", queue' = <<>>,
         DeviceArrived' \in {DeviceArrived, DeviceArrived + 1},
         UNCHANGED <<reading, result, taken>>, DeviceBroken' <=> DeviceBroken
  PROVE  Device!Next
PROOF BY DEF Device!Next, Device!Close

LEMMA OpenedStep ==
  ASSUME DeviceState = "none", DeviceState' = "open", DeviceBroken' <=> DeviceBroken,
         UNCHANGED <<DeviceArrived, queue, reading, result, taken>>
  PROVE  Device!Next
PROOF BY DEF Device!Next, Device!Open

-----------------------------------------------------------------------------
(* libusb.                                                                 *)

LEMMA LibusbImplements ==
  ASSUME LibusbInv, backend = "libusb", backend' = backend, Libusb!Next
  PROVE  [Device!Next]_(Device!vars)
<1> USE DEF LibusbInv, Libusb!TypeOK, Bounded, CallerInv, Waiting, Stopping, Libusb!Ended,
        Libusb!userVars, Libusb!usbVars
<1>0. /\ DeviceArrived = IF transfer = "completed" THEN sent - 1 ELSE sent
      /\ DeviceArrived' = IF transfer' = "completed" THEN sent' - 1 ELSE sent'
      /\ DeviceBroken <=> ~plugged \/ reader \in Stopping
      /\ DeviceBroken' <=> ~plugged' \/ reader' \in Stopping
  BY DEF DeviceArrived, DeviceBroken, Libusb!Arrived, Libusb!Broken
<1>1. CASE Libusb!FirstSubmit
  <2>1. /\ DeviceBroken' <=> DeviceBroken
        /\ UNCHANGED <<DeviceState, DeviceArrived, queue, reading, result, taken>>
    BY <1>0, <1>1, States DEF Libusb!FirstSubmit, Libusb!Submit
  <2> QED
    BY <2>1, Stutter
<1>2. CASE Libusb!Resubmit
  <2>1. /\ DeviceBroken' <=> DeviceBroken
        /\ UNCHANGED <<DeviceState, DeviceArrived, queue, reading, result, taken>>
    BY <1>0, <1>2, States DEF Libusb!Resubmit, Libusb!Submit
  <2> QED
    BY <2>1, Stutter
<1>3. CASE Libusb!StopTransfer
  <2>1. /\ DeviceBroken' <=> DeviceBroken
        /\ UNCHANGED <<DeviceState, DeviceArrived, queue, reading, result, taken>>
    BY <1>0, <1>3, States DEF Libusb!StopTransfer, Libusb!Cancel
  <2> QED
    BY <2>1, Stutter
<1>4. CASE Libusb!Drain
  <2>1. /\ DeviceBroken' <=> DeviceBroken
        /\ UNCHANGED <<DeviceState, DeviceArrived, queue, reading, result, taken>>
    BY <1>0, <1>4, States DEF Libusb!Drain, Libusb!CallbackShutdown, Libusb!NoEvent
  <2> QED
    BY <2>1, Stutter
<1>5. CASE Libusb!Broadcast
  <2>1. /\ DeviceBroken' <=> DeviceBroken
        /\ UNCHANGED <<DeviceState, DeviceArrived, queue, reading, result, taken>>
    BY <1>0, <1>5, States DEF Libusb!Broadcast, Libusb!Wake
  <2> QED
    BY <2>1, Stutter
<1>6. CASE Libusb!Opened
  <2>1. /\ DeviceBroken' <=> DeviceBroken
        /\ UNCHANGED <<DeviceState, DeviceArrived, queue, reading, result, taken>>
    BY <1>0, <1>6, States DEF Libusb!Opened
  <2> QED
    BY <2>1, Stutter
<1>7. CASE Libusb!SetNonblocking
  <2>1. /\ DeviceBroken' <=> DeviceBroken
        /\ UNCHANGED <<DeviceState, DeviceArrived, queue, reading, result, taken>>
    BY <1>0, <1>7, States DEF Libusb!SetNonblocking
  <2> QED
    BY <2>1, Stutter
<1>8. CASE Libusb!Sleep
  <2>1. /\ DeviceBroken' <=> DeviceBroken
        /\ UNCHANGED <<DeviceState, DeviceArrived, queue, reading, result, taken>>
    BY <1>0, <1>8, States DEF Libusb!Sleep
  <2> QED
    BY <2>1, Stutter
<1>9. CASE Libusb!Spurious
  <2>1. /\ DeviceBroken' <=> DeviceBroken
        /\ UNCHANGED <<DeviceState, DeviceArrived, queue, reading, result, taken>>
    BY <1>0, <1>9, States DEF Libusb!Spurious
  <2> QED
    BY <2>1, Stutter
<1>10. CASE Libusb!Expire
  <2>1. /\ DeviceBroken' <=> DeviceBroken
        /\ UNCHANGED <<DeviceState, DeviceArrived, queue, reading, result, taken>>
    BY <1>0, <1>10, States DEF Libusb!Expire
  <2> QED
    BY <2>1, Stutter
<1>11. CASE Libusb!Close
  <2>1. /\ DeviceBroken' <=> DeviceBroken
        /\ UNCHANGED <<DeviceState, DeviceArrived, queue, reading, result, taken>>
    BY <1>0, <1>11, States DEF Libusb!Close
  <2> QED
    BY <2>1, Stutter
<1>12. CASE Libusb!CloseCancel
  <2>1. /\ DeviceBroken' <=> DeviceBroken
        /\ UNCHANGED <<DeviceState, DeviceArrived, queue, reading, result, taken>>
    BY <1>0, <1>12, States DEF Libusb!CloseCancel, Libusb!Cancel
  <2> QED
    BY <2>1, Stutter
<1>13. CASE Libusb!EndTransfer
  <2>1. /\ DeviceBroken' <=> DeviceBroken
        /\ UNCHANGED <<DeviceState, DeviceArrived, queue, reading, result, taken>>
    BY <1>0, <1>13, States DEF Libusb!EndTransfer
  <2> QED
    BY <2>1, Stutter
<1>14. CASE Libusb!Closed
  <2>1. /\ DeviceBroken' <=> DeviceBroken
        /\ UNCHANGED <<DeviceState, DeviceArrived, queue, reading, result, taken>>
    BY <1>0, <1>14, States DEF Libusb!Closed, Libusb!vars
  <2> QED
    BY <2>1, Stutter
<1>15. CASE Libusb!Loop
  <2>1. /\ UNCHANGED <<DeviceState, DeviceArrived, queue, reading, result, taken>>
        /\ DeviceBroken' \/ (DeviceBroken' <=> DeviceBroken)
    BY <1>0, <1>15, States DEF Libusb!Loop
  <2> QED
    BY <2>1, Stutter, BreakStep
<1>16. CASE Libusb!Unplug
  <2>1. /\ UNCHANGED <<DeviceState, DeviceArrived, queue, reading, result, taken>>
        /\ DeviceBroken'
    BY <1>0, <1>16, States DEF Libusb!Unplug
  <2> QED
    BY <2>1, BreakStep
<1>17. CASE Libusb!HandleEvents
  <2>1. CASE Libusb!CallbackReport
    <3>1. /\ reader = "events" /\ reader' = "resubmit" /\ queue' = Libusb!Enqueue(queue, sent)
          /\ transfer = "completed" /\ transfer' = "idle"
          /\ user' \in {user, "woken"} /\ (user' # user => user = "waiting")
          /\ UNCHANGED <<blocking, reading, result, taken, sent, plugged>>
      BY <1>17, <2>1 DEF Libusb!HandleEvents, Libusb!CallbackReport, Libusb!Wake
    <3>2. DeviceState = "open" /\ DeviceState' = "open"
      BY <3>1, States
    <3>3. DeviceArrived' = sent /\ DeviceArrived' = DeviceArrived + 1 /\ sent \in 1..MaxReports
      BY <1>0, <3>1
    <3>4. DeviceBroken' <=> DeviceBroken
      BY <1>0, <3>1
    <3>5. queue' = IF Len(queue) < Capacity THEN Append(queue, DeviceArrived')
                   ELSE Append(Tail(queue), DeviceArrived')
      BY <3>1, <3>3, Enqueued
    <3> QED
      BY <3>1, <3>2, <3>3, <3>4, <3>5, ArriveStep
  <2>2. CASE Libusb!CallbackEmpty \/ Libusb!CallbackShutdown("loop")
    <3>1. /\ DeviceBroken' <=> DeviceBroken
          /\ UNCHANGED <<DeviceState, DeviceArrived, queue, reading, result, taken>>
      BY <1>0, <1>17, <2>2, States
      DEF Libusb!HandleEvents, Libusb!CallbackEmpty, Libusb!CallbackShutdown
    <3> QED
      BY <3>1, Stutter
  <2>3. CASE Libusb!NoEvent("loop", "cancel")
    <3>1. /\ UNCHANGED <<DeviceState, DeviceArrived, queue, reading, result, taken>>
          /\ DeviceBroken' \/ (DeviceBroken' <=> DeviceBroken)
      BY <1>0, <1>17, <2>3, States DEF Libusb!HandleEvents, Libusb!NoEvent
    <3> QED
      BY <3>1, Stutter, BreakStep
  <2> QED
    BY <1>17, <2>1, <2>2, <2>3 DEF Libusb!HandleEvents
<1>18. CASE Libusb!Awake
  <2>1. /\ user = "woken" /\ reading \in {"never", "later"} /\ DeviceState = "open"
        /\ UNCHANGED <<reader, shutdown, transfer, sent, plugged>>
    BY <1>18, States DEF Libusb!Awake
  <2>2. (DeviceBroken' <=> DeviceBroken) /\ DeviceArrived' = DeviceArrived
    BY <1>0, <2>1
  <2>3. CASE Libusb!TakeReport
    <3>1. user' = "idle" /\ Device!Answer(reading)
      BY <2>3 DEF Libusb!TakeReport, Libusb!Return, Device!Answer
    <3> QED
      BY <2>1, <2>2, <3>1, States, AnswerStep
  <2>4. CASE shutdown /\ Libusb!Return("error") /\ UNCHANGED <<taken, queue>>
    <3>1. DeviceBroken
      BY <1>0, <2>1, <2>4
    <3>2. user' = "idle" /\ Device!Answer(reading)
      BY <2>4, <3>1 DEF Libusb!Return, Device!Answer
    <3> QED
      BY <2>1, <2>2, <3>2, States, AnswerStep
  <2>5. CASE user' = "sleepy" /\ UNCHANGED <<reading, result, taken, queue>>
    BY <2>1, <2>2, <2>5, States, Stutter
  <2> QED
    BY <1>18, <2>3, <2>4, <2>5 DEF Libusb!Awake
<1>19. CASE Libusb!Expired
  <2>1. /\ user = "expired" /\ user' = "idle" /\ reading = "later" /\ reading' = "no"
        /\ result' = "nothing" /\ UNCHANGED <<taken, queue>>
        /\ UNCHANGED <<reader, shutdown, transfer, sent, plugged>>
    BY <1>19 DEF Libusb!Expired, Libusb!Return
  <2>2. (DeviceBroken' <=> DeviceBroken) /\ DeviceArrived' = DeviceArrived
    BY <1>0, <2>1
  <2>3. Device!Answer(reading)
    BY <2>1 DEF Device!Answer
  <2> QED
    BY <2>1, <2>2, <2>3, States, AnswerStep
<1>20. CASE Libusb!Read
  <2>1. PICK deadline \in {"never", "later", "now"} : Libusb!ReadTimeout(deadline)
    BY <1>20 DEF Libusb!Read
  <2>2. /\ user = "idle" /\ reading = "no" /\ DeviceState = "open"
        /\ UNCHANGED <<reader, shutdown, transfer, sent, plugged>>
    BY <2>1, States DEF Libusb!ReadTimeout
  <2>3. (DeviceBroken' <=> DeviceBroken) /\ DeviceArrived' = DeviceArrived
    BY <1>0, <2>2
  <2>4. CASE Libusb!TakeReport
    <3>1. user' = "idle" /\ Device!Answer(deadline)
      BY <2>4 DEF Libusb!TakeReport, Libusb!Return, Device!Answer
    <3> QED
      BY <2>2, <2>3, <3>1, States, AnswerStep
  <2>5. CASE shutdown /\ Libusb!Return("error") /\ UNCHANGED <<taken, queue>>
    <3>1. DeviceBroken
      BY <1>0, <2>2, <2>5
    <3>2. user' = "idle" /\ Device!Answer(deadline)
      BY <2>5, <3>1 DEF Libusb!Return, Device!Answer
    <3> QED
      BY <2>2, <2>3, <3>2, States, AnswerStep
  <2>6. CASE queue = <<>> /\ deadline = "now" /\ Libusb!Return("nothing") /\ UNCHANGED <<taken, queue>>
    <3>1. user' = "idle" /\ Device!Answer(deadline)
      BY <2>6 DEF Libusb!Return, Device!Answer
    <3> QED
      BY <2>2, <2>3, <3>1, States, AnswerStep
  <2>7. CASE reading' = deadline /\ user' = "sleepy" /\ UNCHANGED <<result, taken, queue>>
    BY <2>2, <2>3, <2>7, States, WaitStep
  <2> QED
    BY <2>1, <2>4, <2>5, <2>6, <2>7 DEF Libusb!ReadTimeout
<1>21. CASE Libusb!Write
  <2>1. /\ DeviceState = "open" /\ DeviceState' = "open" /\ reading = "no"
        /\ result' \in {"written", "error"}
        /\ UNCHANGED <<DeviceArrived, queue, reading, taken>> /\ (DeviceBroken' <=> DeviceBroken)
    BY <1>0, <1>21, States DEF Libusb!Write
  <2> QED
    BY <2>1, WriteStep
<1>22. CASE Libusb!CloseFree
  <2>1. /\ DeviceState = "open" /\ DeviceState' = "closed" /\ reading = "no" /\ queue' = <<>>
        /\ UNCHANGED <<reading, result, taken>> /\ (DeviceBroken' <=> DeviceBroken)
    BY <1>0, <1>22, States DEF Libusb!CloseFree
  <2>2. DeviceArrived' \in {DeviceArrived, DeviceArrived + 1}
    BY <1>0, <1>22 DEF Libusb!CloseFree
  <2> QED
    BY <2>1, <2>2, CloseStep
<1>23. CASE Libusb!Open
  <2>1. /\ DeviceState = "none" /\ DeviceState' = "open"
        /\ UNCHANGED <<DeviceArrived, queue, reading, result, taken>> /\ (DeviceBroken' <=> DeviceBroken)
    BY <1>0, <1>23, States DEF Libusb!Open
  <2> QED
    BY <2>1, OpenedStep
<1> QED
  BY <1>1, <1>2, <1>3, <1>4, <1>5, <1>6, <1>7, <1>8, <1>9, <1>10, <1>11, <1>12, <1>13,
     <1>14, <1>15, <1>16, <1>17, <1>18, <1>19, <1>20, <1>21, <1>22, <1>23
  DEF Libusb!Next, Libusb!ReadThread, Libusb!InCall

-----------------------------------------------------------------------------
(* macOS.                                                                  *)

LEMMA AppleImplements ==
  ASSUME AppleInv, backend = "apple", backend' = backend, Apple!Next
  PROVE  [Device!Next]_(Device!vars)
<1> DEFINE Stopped == {"broadcast", "meet", "stop", "ended"}
<1> USE DEF AppleInv, Apple!TypeOK, Bounded, CallerInv, Waiting, Leaving, Apple!userVars, Apple!appleVars
<1>0. /\ DeviceArrived = sent /\ DeviceArrived' = sent'
      /\ DeviceBroken <=> ~plugged \/ reader \in Stopped
      /\ DeviceBroken' <=> ~plugged' \/ reader' \in Stopped
  BY DEF DeviceArrived, DeviceBroken, Apple!Broken
<1>1. CASE Apple!Setup
  <2>1. /\ DeviceBroken' <=> DeviceBroken
        /\ UNCHANGED <<DeviceState, DeviceArrived, queue, reading, result, taken>>
    BY <1>0, <1>1, States DEF Apple!Setup
  <2> QED
    BY <2>1, Stutter
<1>2. CASE Apple!ReaderArrives
  <2>1. /\ DeviceBroken' <=> DeviceBroken
        /\ UNCHANGED <<DeviceState, DeviceArrived, queue, reading, result, taken>>
    BY <1>0, <1>2, States DEF Apple!ReaderArrives
  <2> QED
    BY <2>1, Stutter
<1>3. CASE Apple!ReaderStarts
  <2>1. /\ DeviceBroken' <=> DeviceBroken
        /\ UNCHANGED <<DeviceState, DeviceArrived, queue, reading, result, taken>>
    BY <1>0, <1>3, States DEF Apple!ReaderStarts
  <2> QED
    BY <2>1, Stutter
<1>4. CASE Apple!SignalCallback
  <2>1. /\ DeviceBroken' <=> DeviceBroken
        /\ UNCHANGED <<DeviceState, DeviceArrived, queue, reading, result, taken>>
    BY <1>0, <1>4, States DEF Apple!SignalCallback
  <2> QED
    BY <2>1, Stutter
<1>5. CASE Apple!RunTimedOut
  <2>1. /\ DeviceBroken' <=> DeviceBroken
        /\ UNCHANGED <<DeviceState, DeviceArrived, queue, reading, result, taken>>
    BY <1>0, <1>5, States DEF Apple!RunTimedOut
  <2> QED
    BY <2>1, Stutter
<1>6. CASE Apple!RemovalCallback
  <2>1. /\ DeviceBroken' <=> DeviceBroken
        /\ UNCHANGED <<DeviceState, DeviceArrived, queue, reading, result, taken>>
    BY <1>0, <1>6, States DEF Apple!RemovalCallback
  <2> QED
    BY <2>1, Stutter
<1>7. CASE Apple!Broadcast
  <2>1. /\ DeviceBroken' <=> DeviceBroken
        /\ UNCHANGED <<DeviceState, DeviceArrived, queue, reading, result, taken>>
    BY <1>0, <1>7, States DEF Apple!Broadcast, Apple!Wake
  <2> QED
    BY <2>1, Stutter
<1>8. CASE Apple!MeetUser
  <2>1. /\ DeviceBroken' <=> DeviceBroken
        /\ UNCHANGED <<DeviceState, DeviceArrived, queue, reading, result, taken>>
    BY <1>0, <1>8, States DEF Apple!MeetUser
  <2> QED
    BY <2>1, Stutter
<1>9. CASE Apple!ReaderEnds
  <2>1. /\ DeviceBroken' <=> DeviceBroken
        /\ UNCHANGED <<DeviceState, DeviceArrived, queue, reading, result, taken>>
    BY <1>0, <1>9, States DEF Apple!ReaderEnds
  <2> QED
    BY <2>1, Stutter
<1>10. CASE Apple!UserArrives
  <2>1. /\ DeviceBroken' <=> DeviceBroken
        /\ UNCHANGED <<DeviceState, DeviceArrived, queue, reading, result, taken>>
    BY <1>0, <1>10, States DEF Apple!UserArrives
  <2> QED
    BY <2>1, Stutter
<1>11. CASE Apple!Opened
  <2>1. /\ DeviceBroken' <=> DeviceBroken
        /\ UNCHANGED <<DeviceState, DeviceArrived, queue, reading, result, taken>>
    BY <1>0, <1>11, States DEF Apple!Opened
  <2> QED
    BY <2>1, Stutter
<1>12. CASE Apple!SetNonblocking
  <2>1. /\ DeviceBroken' <=> DeviceBroken
        /\ UNCHANGED <<DeviceState, DeviceArrived, queue, reading, result, taken>>
    BY <1>0, <1>12, States DEF Apple!SetNonblocking
  <2> QED
    BY <2>1, Stutter
<1>13. CASE Apple!Sleep
  <2>1. /\ DeviceBroken' <=> DeviceBroken
        /\ UNCHANGED <<DeviceState, DeviceArrived, queue, reading, result, taken>>
    BY <1>0, <1>13, States DEF Apple!Sleep
  <2> QED
    BY <2>1, Stutter
<1>14. CASE Apple!Spurious
  <2>1. /\ DeviceBroken' <=> DeviceBroken
        /\ UNCHANGED <<DeviceState, DeviceArrived, queue, reading, result, taken>>
    BY <1>0, <1>14, States DEF Apple!Spurious
  <2> QED
    BY <2>1, Stutter
<1>15. CASE Apple!Expire
  <2>1. /\ DeviceBroken' <=> DeviceBroken
        /\ UNCHANGED <<DeviceState, DeviceArrived, queue, reading, result, taken>>
    BY <1>0, <1>15, States DEF Apple!Expire
  <2> QED
    BY <2>1, Stutter
<1>16. CASE Apple!Close
  <2>1. /\ DeviceBroken' <=> DeviceBroken
        /\ UNCHANGED <<DeviceState, DeviceArrived, queue, reading, result, taken>>
    BY <1>0, <1>16, States DEF Apple!Close
  <2> QED
    BY <2>1, Stutter
<1>17. CASE Apple!CloseFlag
  <2>1. /\ DeviceBroken' <=> DeviceBroken
        /\ UNCHANGED <<DeviceState, DeviceArrived, queue, reading, result, taken>>
    BY <1>0, <1>17, States DEF Apple!CloseFlag
  <2> QED
    BY <2>1, Stutter
<1>18. CASE Apple!CloseSignal
  <2>1. /\ DeviceBroken' <=> DeviceBroken
        /\ UNCHANGED <<DeviceState, DeviceArrived, queue, reading, result, taken>>
    BY <1>0, <1>18, States DEF Apple!CloseSignal
  <2> QED
    BY <2>1, Stutter
<1>19. CASE Apple!CloseMeet
  <2>1. /\ DeviceBroken' <=> DeviceBroken
        /\ UNCHANGED <<DeviceState, DeviceArrived, queue, reading, result, taken>>
    BY <1>0, <1>19, States DEF Apple!CloseMeet
  <2> QED
    BY <2>1, Stutter
<1>20. CASE Apple!CloseMet
  <2>1. /\ DeviceBroken' <=> DeviceBroken
        /\ UNCHANGED <<DeviceState, DeviceArrived, queue, reading, result, taken>>
    BY <1>0, <1>20, States DEF Apple!CloseMet
  <2> QED
    BY <2>1, Stutter
<1>21. CASE Apple!WakeInBarrier
  <2>1. /\ DeviceBroken' <=> DeviceBroken
        /\ UNCHANGED <<DeviceState, DeviceArrived, queue, reading, result, taken>>
    BY <1>0, <1>21, States DEF Apple!WakeInBarrier
  <2> QED
    BY <2>1, Stutter
<1>22. CASE user = "closed" /\ UNCHANGED Apple!vars
  <2>1. /\ DeviceBroken' <=> DeviceBroken
        /\ UNCHANGED <<DeviceState, DeviceArrived, queue, reading, result, taken>>
    BY <1>0, <1>22, States DEF Apple!vars
  <2> QED
    BY <2>1, Stutter
<1>23. CASE Apple!Loop
  <2>1. /\ UNCHANGED <<DeviceState, DeviceArrived, queue, reading, result, taken>>
        /\ DeviceBroken' \/ (DeviceBroken' <=> DeviceBroken)
    BY <1>0, <1>23, States DEF Apple!Loop
  <2> QED
    BY <2>1, Stutter, BreakStep
<1>24. CASE Apple!RunFinished
  <2>1. /\ UNCHANGED <<DeviceState, DeviceArrived, queue, reading, result, taken>>
        /\ DeviceBroken' \/ (DeviceBroken' <=> DeviceBroken)
    BY <1>0, <1>24, States DEF Apple!RunFinished
  <2> QED
    BY <2>1, Stutter, BreakStep
<1>25. CASE Apple!RunStopped
  <2>1. /\ UNCHANGED <<DeviceState, DeviceArrived, queue, reading, result, taken>>
        /\ DeviceBroken' \/ (DeviceBroken' <=> DeviceBroken)
    BY <1>0, <1>25, States DEF Apple!RunStopped
  <2> QED
    BY <2>1, Stutter, BreakStep
<1>26. CASE Apple!Unplug
  <2>1. /\ UNCHANGED <<DeviceState, DeviceArrived, queue, reading, result, taken>>
        /\ DeviceBroken' \/ (DeviceBroken' <=> DeviceBroken)
    BY <1>0, <1>26, States DEF Apple!Unplug
  <2> QED
    BY <2>1, Stutter, BreakStep
<1>27. CASE Apple!ReportCallback
  <2>1. /\ reader = "run" /\ sent < MaxReports /\ sent' = sent + 1
        /\ queue' = Apple!Enqueue(queue, sent')
        /\ user' \in {user, "woken"} /\ (user' # user => user = "waiting")
        /\ UNCHANGED <<reader, reading, result, taken, plugged>>
    BY <1>27 DEF Apple!ReportCallback, Apple!Wake
  <2>2. DeviceState = "open" /\ DeviceState' = "open"
    BY <2>1, States
  <2>3. DeviceArrived' = DeviceArrived + 1 /\ sent' \in 1..MaxReports
    BY <1>0, <2>1, Bounds
  <2>4. DeviceBroken' <=> DeviceBroken
    BY <1>0, <2>1
  <2>5. queue' = IF Len(queue) < Capacity THEN Append(queue, DeviceArrived')
                 ELSE Append(Tail(queue), DeviceArrived')
    BY <1>0, <2>1, <2>3, Enqueued
  <2> QED
    BY <2>1, <2>2, <2>3, <2>4, <2>5, ArriveStep
<1>28. CASE Apple!Awake
  <2>1. /\ user = "woken" /\ reading \in {"never", "later"} /\ DeviceState = "open"
        /\ UNCHANGED <<reader, shutdown, sent, plugged>>
    BY <1>28, States DEF Apple!Awake
  <2>2. (DeviceBroken' <=> DeviceBroken) /\ DeviceArrived' = DeviceArrived
    BY <1>0, <2>1
  <2>3. CASE Apple!TakeReport
    <3>1. user' = "idle" /\ Device!Answer(reading)
      BY <2>3 DEF Apple!TakeReport, Apple!Return, Device!Answer
    <3> QED
      BY <2>1, <2>2, <3>1, States, AnswerStep
  <2>4. CASE (shutdown \/ disconnected) /\ Apple!Return("error") /\ UNCHANGED <<taken, queue>>
    <3>1. DeviceBroken
      BY <1>0, <2>1, <2>4
    <3>2. user' = "idle" /\ Device!Answer(reading)
      BY <2>4, <3>1 DEF Apple!Return, Device!Answer
    <3> QED
      BY <2>1, <2>2, <3>2, States, AnswerStep
  <2>5. CASE user' = "sleepy" /\ UNCHANGED <<reading, result, taken, queue>>
    BY <2>1, <2>2, <2>5, States, Stutter
  <2> QED
    BY <1>28, <2>3, <2>4, <2>5 DEF Apple!Awake
<1>29. CASE Apple!Expired
  <2>1. /\ user = "expired" /\ user' = "idle" /\ reading = "later" /\ reading' = "no"
        /\ result' = "nothing" /\ UNCHANGED <<taken, queue>>
        /\ UNCHANGED <<reader, shutdown, sent, plugged>>
    BY <1>29 DEF Apple!Expired, Apple!Return
  <2>2. (DeviceBroken' <=> DeviceBroken) /\ DeviceArrived' = DeviceArrived
    BY <1>0, <2>1
  <2>3. Device!Answer(reading)
    BY <2>1 DEF Device!Answer
  <2> QED
    BY <2>1, <2>2, <2>3, States, AnswerStep
<1>30. CASE Apple!Read
  <2>1. PICK deadline \in {"never", "later", "now"} : Apple!ReadTimeout(deadline)
    BY <1>30 DEF Apple!Read
  <2>2. /\ user = "idle" /\ reading = "no" /\ DeviceState = "open"
        /\ UNCHANGED <<reader, shutdown, sent, plugged>>
    BY <2>1, States DEF Apple!ReadTimeout
  <2>3. (DeviceBroken' <=> DeviceBroken) /\ DeviceArrived' = DeviceArrived
    BY <1>0, <2>2
  <2>4. CASE Apple!TakeReport
    <3>1. user' = "idle" /\ Device!Answer(deadline)
      BY <2>4 DEF Apple!TakeReport, Apple!Return, Device!Answer
    <3> QED
      BY <2>2, <2>3, <3>1, States, AnswerStep
  <2>5. CASE (shutdown \/ disconnected) /\ Apple!Return("error") /\ UNCHANGED <<taken, queue>>
    <3>1. DeviceBroken
      BY <1>0, <2>2, <2>5
    <3>2. user' = "idle" /\ Device!Answer(deadline)
      BY <2>5, <3>1 DEF Apple!Return, Device!Answer
    <3> QED
      BY <2>2, <2>3, <3>2, States, AnswerStep
  <2>6. CASE queue = <<>> /\ deadline = "now" /\ Apple!Return("nothing") /\ UNCHANGED <<taken, queue>>
    <3>1. user' = "idle" /\ Device!Answer(deadline)
      BY <2>6 DEF Apple!Return, Device!Answer
    <3> QED
      BY <2>2, <2>3, <3>1, States, AnswerStep
  <2>7. CASE reading' = deadline /\ user' = "sleepy" /\ UNCHANGED <<result, taken, queue>>
    BY <2>2, <2>3, <2>7, States, WaitStep
  <2> QED
    BY <2>1, <2>4, <2>5, <2>6, <2>7 DEF Apple!ReadTimeout
<1>31. CASE Apple!Write
  <2>1. /\ DeviceState = "open" /\ DeviceState' = "open" /\ reading = "no"
        /\ result' \in {"written", "error"}
        /\ UNCHANGED <<DeviceArrived, queue, reading, taken>> /\ (DeviceBroken' <=> DeviceBroken)
    BY <1>0, <1>31, States DEF Apple!Write
  <2> QED
    BY <2>1, WriteStep
<1>32. CASE Apple!CloseFree
  <2>1. /\ DeviceState = "open" /\ DeviceState' = "closed" /\ reading = "no" /\ queue' = <<>>
        /\ UNCHANGED <<reading, result, taken>> /\ (DeviceBroken' <=> DeviceBroken)
    BY <1>0, <1>32, States DEF Apple!CloseFree
  <2>2. DeviceArrived' \in {DeviceArrived, DeviceArrived + 1}
    BY <1>0, <1>32 DEF Apple!CloseFree
  <2> QED
    BY <2>1, <2>2, CloseStep
<1>33. CASE Apple!Open
  <2>1. /\ DeviceState = "none" /\ DeviceState' = "open"
        /\ UNCHANGED <<DeviceArrived, queue, reading, result, taken>> /\ (DeviceBroken' <=> DeviceBroken)
    BY <1>0, <1>33, States DEF Apple!Open
  <2> QED
    BY <2>1, OpenedStep
<1> QED
  BY <1>1, <1>2, <1>3, <1>4, <1>5, <1>6, <1>7, <1>8, <1>9, <1>10, <1>11, <1>12, <1>13,
     <1>14, <1>15, <1>16, <1>17, <1>18, <1>19, <1>20, <1>21, <1>22, <1>23, <1>24, <1>25,
     <1>26, <1>27, <1>28, <1>29, <1>30, <1>31, <1>32, <1>33
  DEF Apple!Next, Apple!ReadThread, Apple!Callback, Apple!InCall

-----------------------------------------------------------------------------
(* hidraw.                                                                 *)

LEMMA LinuxImplements ==
  ASSUME LinuxInv, backend = "hidraw", backend' = backend, Linux!Next
  PROVE  [Device!Next \/ ChoppedWrongly]_(Device!vars)
<1> USE DEF LinuxInv, Linux!TypeOK, Bounded, Linux!hidrawVars
<1>0. /\ DeviceArrived = sent /\ DeviceArrived' = sent'
      /\ DeviceBroken <=> ~plugged
      /\ DeviceBroken' <=> ~plugged'
  BY DEF DeviceArrived, DeviceBroken
<1>1. CASE Linux!SetNonblocking
  <2>1. /\ DeviceBroken' <=> DeviceBroken
        /\ UNCHANGED <<DeviceState, DeviceArrived, queue, reading, result, taken>>
    BY <1>0, <1>1, States DEF Linux!SetNonblocking
  <2> QED
    BY <2>1, Stutter
<1>2. CASE Linux!Poll
  <2>1. /\ DeviceBroken' <=> DeviceBroken
        /\ UNCHANGED <<DeviceState, DeviceArrived, queue, reading, result, taken>>
    BY <1>0, <1>2, States DEF Linux!Poll
  <2> QED
    BY <2>1, Stutter
<1>3. CASE user = "closed" /\ UNCHANGED Linux!vars
  <2>1. /\ DeviceBroken' <=> DeviceBroken
        /\ UNCHANGED <<DeviceState, DeviceArrived, queue, reading, result, taken>>
    BY <1>0, <1>3, States DEF Linux!vars
  <2> QED
    BY <2>1, Stutter
<1>4. CASE Linux!Unplug
  <2>1. /\ UNCHANGED <<DeviceState, DeviceArrived, queue, reading, result, taken>>
        /\ DeviceBroken'
    BY <1>0, <1>4, States DEF Linux!Unplug
  <2> QED
    BY <2>1, BreakStep
<1>5. CASE Linux!Send
  <2>1. /\ user' = user /\ user \notin {"none", "closed"} /\ sent < MaxReports /\ sent' = sent + 1
        /\ queue' = IF Len(queue) < Capacity THEN Append(queue, sent') ELSE queue
        /\ UNCHANGED <<reading, result, taken, plugged>>
    BY <1>5 DEF Linux!Send
  <2>2. DeviceState = "open" /\ DeviceState' = "open"
    BY <2>1, States
  <2>3. DeviceArrived' = DeviceArrived + 1 /\ (DeviceBroken' <=> DeviceBroken)
    BY <1>0, <2>1
  <2>4. \/ Len(queue) < Capacity /\ queue' = Append(queue, DeviceArrived')
        \/ ~(Len(queue) < Capacity) /\ queue' = queue
    BY <1>0, <2>1
  <2> QED
    BY <2>1, <2>2, <2>3, <2>4, ArriveStep
<1>6. CASE Linux!Read
  <2>1. PICK deadline \in {"never", "later", "now"} : Linux!ReadTimeout(deadline)
    BY <1>6 DEF Linux!Read
  <2>2. /\ user = "idle" /\ reading = "no" /\ user' \in {"read", "poll"} /\ reading' = deadline
        /\ UNCHANGED <<result, taken, queue, sent, plugged>>
    BY <2>1 DEF Linux!ReadTimeout
  <2>3. (DeviceBroken' <=> DeviceBroken) /\ DeviceArrived' = DeviceArrived
    BY <1>0, <2>2
  <2> QED
    BY <2>2, <2>3, States, WaitStep
<1>7. CASE Linux!PollTimeout
  <2>1. /\ user = "poll" /\ user' = "idle" /\ reading = "later" /\ reading' = "no"
        /\ result' = "nothing" /\ UNCHANGED <<taken, queue, sent, plugged>>
    BY <1>7 DEF Linux!PollTimeout, Linux!Return
  <2>2. (DeviceBroken' <=> DeviceBroken) /\ DeviceArrived' = DeviceArrived
    BY <1>0, <2>1
  <2>3. Device!Answer(reading)
    BY <2>1 DEF Device!Answer
  <2> QED
    BY <2>1, <2>2, <2>3, States, AnswerStep
<1>8. CASE Linux!ReadSyscall
  <2> SUFFICES ASSUME ~ChoppedWrongly PROVE Device!Next
    OBVIOUS
  <2>1. /\ user = "read" /\ user' = "idle" /\ reading \in {"never", "later", "now"} /\ reading' = "no"
        /\ UNCHANGED <<sent, plugged>>
    BY <1>8 DEF Linux!ReadSyscall, Linux!ReadReport, Linux!ReadNothing, Linux!ReadGone, Linux!Return
  <2>2. (DeviceBroken' <=> DeviceBroken) /\ DeviceArrived' = DeviceArrived
    BY <1>0, <2>1
  <2>3. ~Linux!Misjudged /\ ~(queue = <<>> /\ Linux!Chop)
    BY <1>8, <2>1 DEF ChoppedWrongly
  <2>4. CASE Linux!ReadReport
    <3>1. Device!Answer(reading)
      BY <2>1, <2>3, <2>4 DEF Linux!ReadReport, Linux!Return, Linux!Misjudged, Device!Answer
    <3> QED
      BY <2>1, <2>2, <3>1, States, AnswerStep
  <2>5. CASE Linux!ReadNothing
    <3>1. reading # "never"
      BY <2>5 DEF Linux!ReadNothing
    <3>2. Device!Answer(reading)
      BY <2>1, <2>3, <2>5, <3>1 DEF Linux!ReadNothing, Linux!Return, Device!Answer
    <3> QED
      BY <2>1, <2>2, <3>2, States, AnswerStep
  <2>6. CASE Linux!ReadGone
    <3>1. Device!Answer(reading)
      BY <1>0, <2>1, <2>6 DEF Linux!ReadGone, Linux!Return, Device!Answer
    <3> QED
      BY <2>1, <2>2, <3>1, States, AnswerStep
  <2> QED
    BY <1>8, <2>4, <2>5, <2>6 DEF Linux!ReadSyscall
<1>9. CASE Linux!Write
  <2>1. /\ DeviceState = "open" /\ DeviceState' = "open" /\ reading = "no"
        /\ result' \in {"written", "error"}
        /\ UNCHANGED <<DeviceArrived, queue, reading, taken>> /\ (DeviceBroken' <=> DeviceBroken)
    BY <1>0, <1>9, States DEF Linux!Write
  <2> QED
    BY <2>1, WriteStep
<1>10. CASE Linux!Close
  <2>1. /\ DeviceState = "open" /\ DeviceState' = "closed" /\ reading = "no" /\ queue' = <<>>
        /\ UNCHANGED <<DeviceArrived, reading, result, taken>> /\ (DeviceBroken' <=> DeviceBroken)
    BY <1>0, <1>10, States DEF Linux!Close
  <2> QED
    BY <2>1, CloseStep
<1>11. CASE Linux!Open
  <2>1. /\ DeviceState = "none" /\ DeviceState' = "open"
        /\ UNCHANGED <<DeviceArrived, queue, reading, result, taken>> /\ (DeviceBroken' <=> DeviceBroken)
    BY <1>0, <1>11, States DEF Linux!Open
  <2> QED
    BY <2>1, OpenedStep
<1> QED
  BY <1>1, <1>2, <1>3, <1>4, <1>5, <1>6, <1>7, <1>8, <1>9, <1>10, <1>11
  DEF Linux!Next, Linux!InCall

-----------------------------------------------------------------------------
(* The library.                                                            *)

LEMMA HidImplements ==
  ASSUME HidInv, [Next]_vars
  PROVE  [Device!Next \/ ChoppedWrongly]_(Device!vars)
<1>1. CASE Opening \/ NotFound \/ UNCHANGED vars
  <2>1. UNCHANGED <<backend, callVars, threadVars, transfer>>
    BY <1>1 DEF Opening, NotFound, vars, sessionVars, OpenNext, Replug, EnumerateAndChoose,
                OpenPathAtOnce, FindPath, Altsetting, AltNotOpened, AltNotClaimed, AltOpened, AllVisited
  <2>2. /\ DeviceBroken' <=> DeviceBroken
        /\ UNCHANGED <<DeviceState, DeviceArrived, queue, reading, result, taken>>
    BY <2>1 DEF callVars, threadVars, DeviceState, DeviceArrived, DeviceBroken, Libusb!Arrived,
                Libusb!Broken, Apple!Broken
  <2> QED
    BY <2>2, Stutter
<1>2. CASE OnLibusb
  <2>1. backend = "libusb" /\ backend' = backend /\ LibusbInv /\ Libusb!Next
    BY <1>2 DEF HidInv, OnLibusb, Begin, Session, Libusb!Next
  <2> QED
    BY <2>1, LibusbImplements
<1>3. CASE OnApple
  <2>1. backend = "apple" /\ backend' = backend /\ AppleInv /\ Apple!Next
    BY <1>3 DEF HidInv, OnApple, Begin, Session, Apple!Next
  <2> QED
    BY <2>1, AppleImplements
<1>4. CASE OnLinux
  <2>1. backend = "hidraw" /\ backend' = backend /\ LinuxInv /\ Linux!Next
    BY <1>4 DEF HidInv, OnLinux, Begin, Session, Linux!Next
  <2> QED
    BY <2>1, LinuxImplements
<1> QED
  BY <1>1, <1>2, <1>3, <1>4 DEF Next

\* Whatever the backend, reports are read in the order they arrived, each once; a read
\* waits as its deadline says; and it fails only when the device is gone or nobody serves
\* it any more.  Excepted are the reads of hidraw whose work around does not fit.
THEOREM Implementation == Spec => ImplementsDevice
<1>1. Init => Device!Init
  <2> SUFFICES ASSUME Init PROVE Device!Init
    OBVIOUS
  <2>1. /\ user = "none" /\ sent = 0 /\ transfer = "none" /\ queue = <<>> /\ reading = "no"
        /\ result = "none" /\ taken = 0 /\ reader = "none"
    BY DEF Init, Libusb!Init
  <2>2. plugged
    BY DEF Init, Libusb!Init
  <2>3. DeviceState = "none" /\ DeviceArrived = 0
    BY <2>1, States DEF DeviceArrived, Libusb!Arrived
  <2>4. ~DeviceBroken
    BY <2>1, <2>2 DEF DeviceBroken, Libusb!Broken, Apple!Broken
  <2> QED
    BY <2>1, <2>3, <2>4 DEF Device!Init
<1>2. HidInv /\ [Next]_vars => [Device!Next \/ ChoppedWrongly]_(Device!vars)
  BY HidImplements
<1>3. Spec => []HidInv
  BY Invariant
<1> QED
  BY <1>1, <1>2, <1>3, PTL DEF Spec, ImplementsDevice

===============================================================================
