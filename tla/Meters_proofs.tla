----------------------------- MODULE Meters_proofs -----------------------------
(***************************************************************************)
(* What holds of the meters for any number of sensors and cores, any       *)
(* number of measurements, and any builds and modes: the monitor of the    *)
(* ina meter lives inside its sensors, what read_before has opened         *)
(* read_after closes, the ina meter implements PowerMeter, a SmartPower    *)
(* is left as it should be, and what msr, perf and smartreal report is     *)
(* what the cores have used during the measurement.                        *)
(***************************************************************************)
EXTENDS Meters, FiniteSetTheorems, TLAPS

-----------------------------------------------------------------------------
(* The invariant of the control.  What is reported is in it only where it  *)
(* is zero: the sums over the cores have an invariant of their own below.  *)

SensorSet == 0..SENSOR_MAX - 1

StateInv ==
  /\ meter \in {"off", "msr", "perf", "ina", "smartreal"}
  /\ faulty \in BOOLEAN /\ abandoned \in BOOLEAN /\ initialized \in BOOLEAN
  /\ i \in Nat
  /\ session \in Nat
  /\ sensor \in [SensorSet -> [fd : {"none", "open", "failed", "closed"}, enable : BOOLEAN]]
  /\ enabled \in [SensorSet -> BOOLEAN]
  /\ sync \in BOOLEAN
  /\ mon \in {"none", "ended", "ready", "waiting", "woken", "expired"}
  /\ handle \in {"none", "null", "open", "closed"}
  /\ fd \in [Cores -> {"none", "open", "failed", "closed"}]
  /\ event \in [Cores -> {"none", "open", "failed", "closed"}]
  /\ abandoned => faulty

OffInv == meter = "off" => pc \in {"idle", "work"}

\* ina: the sensors are opened and enabled one by one before the monitor starts, which
\* is joined before they are closed; without a caller that skips read_after the monitor
\* lives within a measurement.
Live == {"ready", "waiting", "woken", "expired"}
Measuring == pc \in {"signal", "join", "stop"} \/ (pc = "work" /\ initialized)
InaInv ==
  /\ meter # "ina" => mon = "none" /\ \A s \in SensorSet : sensor[s].fd = "none"
  /\ meter = "ina" =>
       /\ pc \in {"idle", "open", "work", "signal", "join", "stop", "undefined"}
       /\ pc = "open" =>
            /\ ~initialized /\ consumed = 0 /\ i <= SENSOR_MAX
            /\ \A s \in SensorSet : s < i => sensor[s].fd = "open" /\ enabled[s]
       /\ pc \in {"open", "stop"} => mon \notin Live
       /\ mon \in Live => sync /\ \A s \in SensorSet : sensor[s].fd = "open" /\ enabled[s]
       /\ mon \in Live /\ ~abandoned => Measuring
       /\ pc = "idle" /\ initialized /\ ~abandoned => \A s \in SensorSet : sensor[s].fd # "open"

\* msr and perf: read_after has closed what its loop has passed.
MsrInv ==
  /\ meter # "msr" => \A c \in Cores : fd[c] = "none"
  /\ meter = "msr" =>
       /\ pc \in {"idle", "before", "work", "after"}
       /\ pc = "after" => i <= core_count /\ \A c \in Cores : c < i => fd[c] # "open"
       /\ pc = "idle" /\ ~abandoned => \A c \in Cores : fd[c] # "open"

PerfInv ==
  /\ meter # "perf" => \A c \in Cores : event[c] = "none"
  /\ meter = "perf" =>
       /\ pc \in {"idle", "before", "work", "after"}
       /\ pc = "after" => i <= core_count /\ \A c \in Cores : c < i => event[c] # "open"
       /\ pc = "idle" /\ ~abandoned => \A c \in Cores : event[c] # "open"

\* spr: where the handle may be left open.
RealInv ==
  /\ meter # "smartreal" => handle = "none"
  /\ meter = "smartreal" =>
       /\ pc \in {"stop", "data", "await", "close"} => initialized
       /\ pc = "work" /\ ~initialized => handle # "open"
       /\ pc = "idle" /\ handle = "open" /\ ~abandoned => initialized /\ reported = 0 /\ faulty

\* spr without faults: one request is on its way at most, its reply is the next thing
\* that is read, and the device is toggled so that it runs during the measurement.
Asked(request) ==
  \/ toDev = <<request>> /\ fromDev = <<>>
  \/ /\ toDev = <<>> /\ Len(fromDev) = 1
     /\ Head(fromDev).kind = request /\ Head(fromDev).on = device.running /\ Tail(fromDev) = <<>>
Quiet == toDev = <<>> /\ fromDev = <<>>
Toggled(to) ==
  /\ fromDev = <<>>
  /\ \/ toDev = <<>> /\ device.running = to
     \/ toDev = <<"toggle">> /\ device.running = ~to

FaultlessInv ==
  meter = "smartreal" /\ ~faulty =>
    /\ pc \in {"idle", "status", "poll", "start", "ready", "work", "stop", "data", "await", "close"}
    /\ device.running \in BOOLEAN
    /\ pc \in {"idle", "status", "start", "work", "stop", "close"} => Quiet
    /\ pc = "idle" /\ session > 0 => ~device.running
    /\ pc = "poll" => Asked("status") /\ i > 0
    /\ pc = "start" => ~device.running
    /\ pc = "ready" => Toggled(TRUE)
    /\ pc \in {"work", "stop"} => device.running /\ initialized
    /\ pc = "data" => Toggled(FALSE)
    /\ pc = "await" => Asked("data") /\ i > 0 /\ ~device.running
    /\ pc = "close" => ~device.running

MetersInv == StateInv /\ OffInv /\ InaInv /\ MsrInv /\ PerfInv /\ RealInv /\ FaultlessInv

-----------------------------------------------------------------------------
(* The steps.                                                              *)

LEMMA Constants ==
  /\ SENSOR_MAX \in Nat \ {0} /\ StatusTries \in Nat \ {0} /\ core_count \in Nat
  /\ InaMeter!Sensors = SensorSet /\ InaMeter!Live = Live
  /\ MsrMeter!Cores = Cores /\ PerfMeter!Cores = Cores
PROOF BY MetersAssumption DEF InaMeter!Sensors, SensorSet, InaMeter!Live, Live, MsrMeter!Cores,
         PerfMeter!Cores, Cores

LEMMA MetersInitially == Init => MetersInv
<1> SUFFICES ASSUME Init PROVE MetersInv
  OBVIOUS
<1>1. /\ pc = "idle" /\ i = 0 /\ session = 0 /\ mon = "none" /\ handle = "none"
      /\ meter \in {"off", "msr", "perf", "ina", "smartreal"}
      /\ faulty \in BOOLEAN /\ abandoned \in BOOLEAN /\ initialized \in BOOLEAN /\ sync \in BOOLEAN
      /\ ~abandoned /\ ~initialized
      /\ device.running \in BOOLEAN /\ toDev = <<>> /\ fromDev = <<>>
  BY MetersAssumption DEF Init, newInstance, InaMeter!Init, RealMeter!Init
<1>2. /\ sensor = [s \in SensorSet |-> [fd |-> "none", enable |-> FALSE]]
      /\ enabled \in [SensorSet -> BOOLEAN]
      /\ fd = [c \in Cores |-> "none"] /\ event = [c \in Cores |-> "none"]
  BY Constants DEF Init, InaMeter!Init, MsrMeter!Init, PerfMeter!Init
<1>3. sensor \in [SensorSet -> [fd : {"none", "open", "failed", "closed"}, enable : BOOLEAN]]
      /\ \A s \in SensorSet : sensor[s].fd = "none"
  BY <1>2
<1>4. StateInv
  BY <1>1, <1>2, <1>3 DEF StateInv
<1>5. OffInv /\ InaInv /\ MsrInv /\ PerfInv /\ RealInv /\ FaultlessInv
  BY <1>1, <1>2, <1>3 DEF OffInv, InaInv, MsrInv, PerfInv, RealInv, FaultlessInv, Live, Quiet
<1> QED
  BY <1>4, <1>5 DEF MetersInv

\* One more sensor is open.
LEMMA OneSensor ==
  ASSUME StateInv, NEW r \in [fd : {"none", "open", "failed", "closed"}, enable : BOOLEAN],
         i < SENSOR_MAX, sensor' = [sensor EXCEPT ![i] = r]
  PROVE  /\ sensor' \in [SensorSet -> [fd : {"none", "open", "failed", "closed"}, enable : BOOLEAN]]
         /\ i \in SensorSet /\ sensor'[i] = r
         /\ \A s \in SensorSet : s # i => sensor'[s] = sensor[s]
PROOF BY Constants DEF StateInv, SensorSet

LEMMA InaStep ==
  ASSUME StateInv, InaInv, meter = "ina", meter' = meter, faulty' = faulty, abandoned' = abandoned,
         InaMeter!Next
  PROVE  /\ InaInv'
         /\ initialized' \in BOOLEAN /\ i' \in Nat /\ enabled' \in [SensorSet -> BOOLEAN]
         /\ sensor' \in [SensorSet -> [fd : {"none", "open", "failed", "closed"}, enable : BOOLEAN]]
         /\ sync' \in BOOLEAN
         /\ mon' \in {"none", "ended", "ready", "waiting", "woken", "expired"}
<1> USE Constants DEF InaInv, Live, Measuring, InaMeter!inaVars
<1>0. /\ initialized \in BOOLEAN /\ i \in Nat /\ enabled \in [SensorSet -> BOOLEAN]
      /\ sensor \in [SensorSet -> [fd : {"none", "open", "failed", "closed"}, enable : BOOLEAN]]
      /\ sync \in BOOLEAN
      /\ mon \in {"none", "ended", "ready", "waiting", "woken", "expired"}
      /\ faulty \in BOOLEAN /\ abandoned \in BOOLEAN
  BY DEF StateInv
<1>1. CASE InaMeter!ReadBefore
  <2>1. /\ pc = "idle" /\ UNCHANGED <<sensor, enabled, sync, mon>>
        /\ \/ mon \in Live /\ pc' = "undefined" /\ UNCHANGED <<initialized, i, consumed>>
           \/ /\ mon \notin Live /\ pc' = "open" /\ initialized' \in BOOLEAN /\ ~initialized'
              /\ i' = 0 /\ consumed' = 0
    BY <1>1 DEF InaMeter!ReadBefore
  <2> QED
    BY <1>0, <2>1 DEF SensorSet
<1>2. CASE InaMeter!OpenSensor
  <2>1. /\ pc = "open" /\ i < SENSOR_MAX /\ UNCHANGED <<initialized, consumed, sync, mon>>
        /\ i \in SensorSet
    BY <1>0, <1>2 DEF InaMeter!OpenSensor, SensorSet
  <2>2. CASE /\ sensor' = [sensor EXCEPT ![i] = [fd |-> "open", enable |-> TRUE]]
             /\ enabled' = [enabled EXCEPT ![i] = TRUE]
             /\ i' = i + 1
             /\ UNCHANGED pc
    <3>1. /\ sensor' \in [SensorSet -> [fd : {"none", "open", "failed", "closed"}, enable : BOOLEAN]]
          /\ sensor'[i].fd = "open" /\ \A s \in SensorSet : s # i => sensor'[s] = sensor[s]
      BY <2>1, <2>2, OneSensor
    <3>2. /\ enabled' \in [SensorSet -> BOOLEAN] /\ enabled'[i]
          /\ \A s \in SensorSet : s # i => enabled'[s] = enabled[s]
      BY <1>0, <2>1, <2>2
    <3>3. \A s \in SensorSet : s < i' => sensor'[s].fd = "open" /\ enabled'[s]
      BY <1>0, <2>1, <2>2, <3>1, <3>2 DEF SensorSet
    <3> QED
      BY <1>0, <2>1, <2>2, <3>1, <3>2, <3>3
  <2>3. CASE /\ \/ sensor' = [sensor EXCEPT ![i].fd = "failed"]
                \/ sensor' = [sensor EXCEPT ![i].fd = "open"]
                \/ ~enabled[i] /\ sensor' = [sensor EXCEPT ![i] = [fd |-> "open", enable |-> TRUE]]
             /\ pc' = "work"
             /\ UNCHANGED <<enabled, i>>
    <3>1. \E r \in [fd : {"none", "open", "failed", "closed"}, enable : BOOLEAN] :
            sensor' = [sensor EXCEPT ![i] = r]
      <4> DEFINE r(f) == [sensor[i] EXCEPT !.fd = f]
      <4>1. \A f \in {"failed", "open"} :
              r(f) \in [fd : {"none", "open", "failed", "closed"}, enable : BOOLEAN]
        BY <1>0, <2>1
      <4>2. [fd |-> "open", enable |-> TRUE]
              \in [fd : {"none", "open", "failed", "closed"}, enable : BOOLEAN]
        OBVIOUS
      <4>3. \/ sensor' = [sensor EXCEPT ![i] = r("failed")]
            \/ sensor' = [sensor EXCEPT ![i] = r("open")]
            \/ sensor' = [sensor EXCEPT ![i] = [fd |-> "open", enable |-> TRUE]]
        BY <2>3
      <4> HIDE DEF r
      <4> QED
        BY <4>1, <4>2, <4>3
    <3>2. sensor' \in [SensorSet -> [fd : {"none", "open", "failed", "closed"}, enable : BOOLEAN]]
      BY <2>1, <3>1, OneSensor
    <3> QED
      BY <1>0, <2>1, <2>3, <3>2
  <2> QED
    BY <1>2, <2>2, <2>3 DEF InaMeter!OpenSensor
<1>3. CASE InaMeter!CreateMonitor
  <2>1. /\ pc = "open" /\ i = SENSOR_MAX /\ pc' = "work"
        /\ UNCHANGED <<i, consumed, sensor, enabled>>
        /\ \A s \in SensorSet : sensor[s].fd = "open" /\ enabled[s]
    BY <1>0, <1>3 DEF InaMeter!CreateMonitor, SensorSet
  <2>2. \/ /\ sync' \in BOOLEAN /\ sync' /\ mon' = "ready"
           /\ initialized' \in BOOLEAN /\ initialized'
        \/ UNCHANGED <<sync, mon, initialized>>
    BY <1>3 DEF InaMeter!CreateMonitor
  <2> QED
    BY <1>0, <2>1, <2>2
<1>4. CASE InaMeter!ReadAfter
  BY <1>0, <1>4 DEF InaMeter!ReadAfter
<1>5. CASE InaMeter!Signal
  BY <1>0, <1>5 DEF InaMeter!Signal
<1>6. CASE InaMeter!Join
  BY <1>0, <1>6 DEF InaMeter!Join
<1>7. CASE InaMeter!StopSensors
  <2>1. /\ pc = "stop" /\ pc' = "idle" /\ UNCHANGED <<initialized, i, consumed, mon>>
        /\ sync' \in BOOLEAN
    BY <1>7 DEF InaMeter!StopSensors
  <2>2. enabled' \in [SensorSet -> BOOLEAN]
    BY <1>0, <1>7 DEF InaMeter!StopSensors
  <2>3. sensor' = [s \in SensorSet |-> [fd |-> "closed", enable |-> FALSE]]
    BY <1>7 DEF InaMeter!StopSensors
  <2>4. sensor' \in [SensorSet -> [fd : {"none", "open", "failed", "closed"}, enable : BOOLEAN]]
        /\ \A s \in SensorSet : sensor'[s].fd # "open"
    BY <2>3
  <2> QED
    BY <1>0, <2>1, <2>2, <2>4
<1>8. CASE InaMeter!Monitor
  <2>1. PICK from \in Live, to \in Live \cup {"ended"} :
          /\ pc # "undefined" /\ mon = from /\ mon' = to
          /\ UNCHANGED <<pc, initialized, i, sensor, enabled, sync>>
    BY <1>8 DEF InaMeter!Monitor, InaMeter!Wait, InaMeter!Expire, InaMeter!Spurious,
                InaMeter!WaitError, InaMeter!Stop, InaMeter!Sample, InaMeter!SampleFails, InaMeter!Moves
  <2> QED
    BY <1>0, <2>1
<1> QED
  BY <1>1, <1>2, <1>3, <1>4, <1>5, <1>6, <1>7, <1>8 DEF InaMeter!Next, InaMeter!Main

\* A core's file is opened or closed.
LEMMA OneCore ==
  ASSUME NEW f, NEW d \in {"none", "open", "failed", "closed"}, i \in Nat, i < core_count,
         f \in [Cores -> {"none", "open", "failed", "closed"}]
  PROVE  /\ [f EXCEPT ![i] = d] \in [Cores -> {"none", "open", "failed", "closed"}]
         /\ i \in Cores /\ [f EXCEPT ![i] = d][i] = d
         /\ \A c \in Cores : c # i => [f EXCEPT ![i] = d][c] = f[c]
PROOF BY Constants DEF Cores

LEMMA MsrStep ==
  ASSUME StateInv, MsrInv, meter = "msr", meter' = meter, abandoned' = abandoned, MsrMeter!Next
  PROVE  MsrInv' /\ i' \in Nat /\ fd' \in [Cores -> {"none", "open", "failed", "closed"}]
<1> USE Constants DEF MsrInv, MsrMeter!msrVars
<1>0. i \in Nat /\ fd \in [Cores -> {"none", "open", "failed", "closed"}]
  BY DEF StateInv
<1>1. CASE MsrMeter!ReadBefore
  BY <1>0, <1>1 DEF MsrMeter!ReadBefore
<1>2. CASE MsrMeter!Before
  <2>1. PICK d \in {"open", "failed"} : fd' = [fd EXCEPT ![i] = d]
    BY <1>2 DEF MsrMeter!Before
  <2>2. pc = "before" /\ pc' = pc /\ i < core_count /\ i' = i + 1
    BY <1>2 DEF MsrMeter!Before
  <2> QED
    BY <1>0, <2>1, <2>2, OneCore
<1>3. CASE MsrMeter!ReturnBefore
  BY <1>0, <1>3 DEF MsrMeter!ReturnBefore
<1>4. CASE MsrMeter!ReadAfter
  BY <1>0, <1>4 DEF MsrMeter!ReadAfter, Cores
<1>5. CASE MsrMeter!After
  <2>1. /\ pc = "after" /\ pc' = pc /\ i < core_count /\ i' = i + 1
        /\ fd' = [fd EXCEPT ![i] = "closed"]
    BY <1>5 DEF MsrMeter!After
  <2>2. fd' \in [Cores -> {"none", "open", "failed", "closed"}]
        /\ i \in Cores /\ fd'[i] = "closed" /\ \A c \in Cores : c # i => fd'[c] = fd[c]
    BY <1>0, <2>1, OneCore
  <2>3. \A c \in Cores : c < i' => fd'[c] # "open"
    BY <1>0, <2>1, <2>2 DEF Cores
  <2> QED
    BY <1>0, <2>1, <2>2, <2>3
<1>6. CASE MsrMeter!ReturnAfter
  BY <1>0, <1>6 DEF MsrMeter!ReturnAfter, Cores
<1> QED
  BY <1>1, <1>2, <1>3, <1>4, <1>5, <1>6 DEF MsrMeter!Next

LEMMA PerfStep ==
  ASSUME StateInv, PerfInv, meter = "perf", meter' = meter, abandoned' = abandoned, PerfMeter!Next
  PROVE  PerfInv' /\ i' \in Nat /\ event' \in [Cores -> {"none", "open", "failed", "closed"}]
<1> USE Constants DEF PerfInv, PerfMeter!perfVars
<1>0. i \in Nat /\ event \in [Cores -> {"none", "open", "failed", "closed"}]
  BY DEF StateInv
<1>1. CASE PerfMeter!ReadBefore
  BY <1>0, <1>1 DEF PerfMeter!ReadBefore
<1>2. CASE PerfMeter!Before
  <2>1. PICK d \in {"open", "failed"} : event' = [event EXCEPT ![i] = d]
    BY <1>2 DEF PerfMeter!Before
  <2>2. pc = "before" /\ pc' = pc /\ i < core_count /\ i' = i + 1
    BY <1>2 DEF PerfMeter!Before
  <2> QED
    BY <1>0, <2>1, <2>2, OneCore
<1>3. CASE PerfMeter!ReturnBefore
  BY <1>0, <1>3 DEF PerfMeter!ReturnBefore
<1>4. CASE PerfMeter!ReadAfter
  BY <1>0, <1>4 DEF PerfMeter!ReadAfter, Cores
<1>5. CASE PerfMeter!After
  <2>1. /\ pc = "after" /\ pc' = pc /\ i < core_count /\ i' = i + 1
        /\ \/ event' = [event EXCEPT ![i] = "closed"]
           \/ event[i] = "failed" /\ event' = event
    BY <1>5 DEF PerfMeter!After
  <2>2. /\ event' \in [Cores -> {"none", "open", "failed", "closed"}]
        /\ i \in Cores /\ event'[i] \in {"closed", "failed"}
        /\ \A c \in Cores : c # i => event'[c] = event[c]
    <3>1. CASE event' = [event EXCEPT ![i] = "closed"]
      BY <1>0, <2>1, <3>1, OneCore
    <3>2. CASE event[i] = "failed" /\ event' = event
      BY <1>0, <2>1, <3>2 DEF Cores
    <3> QED
      BY <2>1, <3>1, <3>2
  <2>3. \A c \in Cores : c < i' => event'[c] # "open"
    BY <1>0, <2>1, <2>2 DEF Cores
  <2> QED
    BY <1>0, <2>1, <2>2, <2>3
<1>6. CASE PerfMeter!ReturnAfter
  BY <1>0, <1>6 DEF PerfMeter!ReturnAfter, Cores
<1> QED
  BY <1>1, <1>2, <1>3, <1>4, <1>5, <1>6 DEF PerfMeter!Next

\* A sequence of one message.
LEMMA OneMessage ==
  ASSUME NEW e
  PROVE  Append(<<>>, e) = <<e>> /\ <<e>> # <<>> /\ Len(<<e>>) = 1 /\ Head(<<e>>) = e /\ Tail(<<e>>) = <<>>
OBVIOUS

\* A HID poll takes a reply, or finds none.
LEMMA PollFacts ==
  ASSUME NEW kind, NEW found, RealMeter!Poll(kind, found), i \in Nat
  PROVE  /\ RealMeter!Settled /\ i > 0 /\ i' = i - 1 /\ i' \in Nat
         /\ \/ fromDev = <<>> /\ UNCHANGED <<fromDev, pc, consumed>>
            \/ fromDev # <<>> /\ fromDev' = Tail(fromDev) /\ Head(fromDev).kind = kind /\ found
            \/ /\ fromDev # <<>> /\ fromDev' = Tail(fromDev) /\ Head(fromDev).kind # kind
               /\ UNCHANGED <<pc, consumed>>
PROOF BY DEF RealMeter!Poll, RealMeter!MoreTries

LEMMA RealStep ==
  ASSUME StateInv, RealInv, FaultlessInv, meter = "smartreal",
         UNCHANGED <<meter, faulty, abandoned>>, RealMeter!Next,
         session' = IF pc = "idle" /\ pc' # "idle" THEN session + 1 ELSE session
  PROVE  /\ RealInv' /\ FaultlessInv'
         /\ initialized' \in BOOLEAN /\ i' \in Nat
         /\ handle' \in {"none", "null", "open", "closed"}
<1> USE Constants DEF RealInv, FaultlessInv, Asked, Quiet, Toggled, RealMeter!realVars,
        RealMeter!Settled
<1>0. /\ initialized \in BOOLEAN /\ i \in Nat /\ faulty \in BOOLEAN /\ abandoned \in BOOLEAN
      /\ handle \in {"none", "null", "open", "closed"} /\ session \in Nat
  BY DEF StateInv
<1>1. CASE RealMeter!Device
  <2>1. /\ UNCHANGED <<pc, initialized, i, handle, reported, session>> /\ toDev # <<>>
        /\ toDev' = Tail(toDev)
    BY <1>0, <1>1 DEF RealMeter!Device
  <2>2. RealInv'
    BY <1>0, <2>1
  <2>3. FaultlessInv'
    <3> SUFFICES ASSUME ~faulty PROVE FaultlessInv'
      BY <2>1
    <3>1. \/ pc \in {"poll", "await"} /\ Head(toDev) \in {"status", "data"} /\ fromDev = <<>>
             /\ Head(toDev) = (IF pc = "poll" THEN "status" ELSE "data") /\ toDev = <<Head(toDev)>>
          \/ pc \in {"ready", "data"} /\ toDev = <<"toggle">> /\ fromDev = <<>>
      BY <2>1
    <3>2. CASE pc \in {"poll", "await"}
      <4>1. toDev' = <<>> /\ device' = device /\ Head(toDev) # "toggle"
        BY <2>1, <3>1, <3>2, <1>1 DEF RealMeter!Device
      <4>2. PICK r : fromDev' = Append(fromDev, r) /\ r.kind = Head(toDev) /\ r.on = device.running
        BY <1>1, <4>1 DEF RealMeter!Device
      <4>3. fromDev' = <<r>>
        BY <3>1, <3>2, <4>2, OneMessage
      <4> QED
        BY <2>1, <3>1, <3>2, <4>1, <4>2, <4>3, OneMessage
    <3>3. CASE pc \in {"ready", "data"}
      <4>1. toDev' = <<>> /\ Head(toDev) = "toggle"
        BY <2>1, <3>1, <3>3, OneMessage
      <4>2. fromDev' = fromDev /\ device'.running = ~device.running
        BY <1>1, <4>1 DEF RealMeter!Device
      <4> QED
        BY <2>1, <3>1, <3>3, <4>1, <4>2
    <3> QED
      BY <3>1, <3>2, <3>3
  <2> QED
    BY <1>0, <2>1, <2>2, <2>3
<1>2. CASE RealMeter!ReadBefore
  BY <1>0, <1>2 DEF RealMeter!ReadBefore
<1>3. CASE RealMeter!StatusRequest
  <2>1. /\ pc = "status" /\ UNCHANGED <<initialized, handle, reported, fromDev, device, session>>
        /\ \/ toDev' = Append(toDev, "status") /\ pc' = "poll" /\ i' = StatusTries
           \/ faulty /\ pc' = "fail" /\ i' = i
    BY <1>3 DEF RealMeter!StatusRequest, RealMeter!Write, RealMeter!Ignored
  <2>2. RealInv' /\ i' \in Nat
    BY <1>0, <2>1
  <2>3. ~faulty => Quiet /\ toDev' = <<"status">> /\ pc' = "poll" /\ i' > 0
    BY <2>1, OneMessage
  <2>4. FaultlessInv'
    BY <1>0, <2>1, <2>3
  <2> QED
    BY <1>0, <2>1, <2>2, <2>4
<1>4. CASE RealMeter!StatusPoll
  <2>1. /\ pc = "poll" /\ UNCHANGED <<initialized, handle, reported, toDev, device, session>>
        /\ faulty \/ toDev = <<>>
        /\ \/ RealMeter!Poll("status", pc' = RealMeter!AfterStatus(Head(fromDev).on) /\ UNCHANGED consumed)
           \/ RealMeter!Unanswered /\ pc' = "fail" /\ i' = i
    BY <1>4 DEF RealMeter!StatusPoll, RealMeter!Poll, RealMeter!Unanswered
  <2>2. CASE RealMeter!Unanswered /\ pc' = "fail" /\ i' = i
    <3>1. faulty
      BY <1>0, <2>1, <2>2 DEF RealMeter!Unanswered, RealMeter!MoreTries
    <3> QED
      BY <1>0, <2>1, <2>2, <3>1
  <2>3. CASE RealMeter!Poll("status", pc' = RealMeter!AfterStatus(Head(fromDev).on) /\ UNCHANGED consumed)
    <3>1. /\ i > 0 /\ i' = i - 1 /\ i' \in Nat /\ pc' \in {"poll", "start", "ready"}
          /\ \/ fromDev = <<>>
             \/ /\ fromDev' = Tail(fromDev) /\ Head(fromDev).kind = "status"
                /\ pc' = IF Head(fromDev).on THEN "ready" ELSE "start"
             \/ fromDev # <<>> /\ Head(fromDev).kind # "status"
      BY <1>0, <2>1, <2>3, PollFacts DEF RealMeter!AfterStatus
    <3>2. RealInv'
      BY <1>0, <2>1, <3>1
    <3>3. FaultlessInv'
      <4> SUFFICES ASSUME ~faulty PROVE FaultlessInv'
        BY <2>1
      <4>1. fromDev # <<>> /\ Head(fromDev).kind = "status" /\ Head(fromDev).on = device.running
            /\ Tail(fromDev) = <<>>
        BY <2>1
      <4> QED
        BY <2>1, <3>1, <4>1
    <3> QED
      BY <1>0, <2>1, <3>1, <3>2, <3>3
  <2> QED
    BY <2>1, <2>2, <2>3
<1>5. CASE RealMeter!ToggleStart
  <2>1. /\ pc = "start" /\ UNCHANGED <<initialized, i, handle, reported, fromDev, device, session>>
        /\ \/ toDev' = Append(toDev, "toggle") /\ pc' = "ready"
           \/ faulty /\ pc' = "fail"
    BY <1>5 DEF RealMeter!ToggleStart, RealMeter!Write, RealMeter!Ignored
  <2> QED
    BY <1>0, <2>1, OneMessage
<1>6. CASE RealMeter!Ready
  <2>1. /\ pc = "ready" /\ pc' = "work" /\ initialized' \in BOOLEAN /\ initialized'
        /\ faulty \/ toDev = <<>>
        /\ UNCHANGED <<reported, i, consumed, handle, toDev, fromDev, device, session>>
    BY <1>6 DEF RealMeter!Ready
  <2> QED
    BY <1>0, <2>1
<1>7. CASE RealMeter!FailBefore
  BY <1>0, <1>7 DEF RealMeter!FailBefore, RealMeter!HidClose
<1>8. CASE RealMeter!ReadAfter
  BY <1>0, <1>8 DEF RealMeter!ReadAfter
<1>9. CASE RealMeter!StopDevice
  <2>1. /\ pc = "stop" /\ pc' = "data"
        /\ UNCHANGED <<initialized, i, handle, reported, fromDev, device, session>>
        /\ toDev' = Append(toDev, "toggle") \/ faulty
    BY <1>9 DEF RealMeter!StopDevice, RealMeter!Write, RealMeter!Ignored
  <2> QED
    BY <1>0, <2>1, OneMessage
<1>10. CASE RealMeter!DataRequest
  <2>1. /\ pc = "data" /\ UNCHANGED <<initialized, handle, fromDev, device, session>>
        /\ \/ /\ faulty \/ toDev = <<>>
              /\ toDev' = Append(toDev, "data") /\ pc' = "await" /\ i' = StatusTries
           \/ faulty /\ pc' = "idle" /\ reported' = 0 /\ i' = i
    BY <1>10 DEF RealMeter!DataRequest, RealMeter!Write, RealMeter!Ignored, RealMeter!GiveUp
  <2>2. RealInv' /\ i' \in Nat
    BY <1>0, <2>1
  <2>3. ~faulty => Quiet /\ toDev' = <<"data">> /\ pc' = "await" /\ i' > 0 /\ ~device.running
    <3>1. ~faulty => Toggled(FALSE) /\ toDev = <<>> /\ toDev' = Append(toDev, "data") /\ pc' = "await"
                     /\ i' > 0
      BY <2>1
    <3>2. toDev = <<>> /\ Toggled(FALSE) => Quiet /\ ~device.running
      BY OneMessage
    <3> QED
      BY <3>1, <3>2, OneMessage
  <2>4. FaultlessInv'
    BY <1>0, <2>1, <2>3
  <2> QED
    BY <1>0, <2>1, <2>2, <2>4
<1>11. CASE RealMeter!DataPoll
  <2>1. /\ pc = "await" /\ UNCHANGED <<initialized, handle, toDev, device, session>>
        /\ faulty \/ toDev = <<>>
    BY <1>11 DEF RealMeter!DataPoll, RealMeter!Poll
  <2>2. CASE faulty /\ pc' = "idle" /\ reported' = 0 /\ i' = i
    BY <1>0, <2>1, <2>2
  <2>3. CASE ~RealMeter!MoreTries /\ pc' = "close" /\ i' = i
    <3>1. faulty
      BY <1>0, <2>1, <2>3 DEF RealMeter!MoreTries
    <3> QED
      BY <1>0, <2>1, <2>3, <3>1
  <2>4. CASE RealMeter!Poll("data", pc' = "close" /\ consumed' = Head(fromDev).energy)
    <3>1. /\ i > 0 /\ i' = i - 1 /\ i' \in Nat /\ pc' \in {"await", "close"}
          /\ \/ fromDev = <<>>
             \/ fromDev' = Tail(fromDev) /\ Head(fromDev).kind = "data" /\ pc' = "close"
             \/ fromDev # <<>> /\ Head(fromDev).kind # "data"
      BY <1>0, <2>1, <2>4, PollFacts
    <3>2. RealInv'
      BY <1>0, <2>1, <3>1
    <3>3. FaultlessInv'
      <4> SUFFICES ASSUME ~faulty PROVE FaultlessInv'
        BY <2>1
      <4>1. toDev = <<>> /\ Asked("data")
        BY <2>1
      <4>2. fromDev # <<>> /\ Head(fromDev).kind = "data" /\ Tail(fromDev) = <<>>
        BY <4>1
      <4> QED
        BY <2>1, <3>1, <4>1, <4>2
    <3> QED
      BY <1>0, <2>1, <3>1, <3>2, <3>3
  <2> QED
    BY <1>11, <2>2, <2>3, <2>4 DEF RealMeter!DataPoll, RealMeter!GiveUp
<1>12. CASE RealMeter!FinishAfter
  BY <1>0, <1>12 DEF RealMeter!FinishAfter, RealMeter!HidClose
<1> QED
  BY <1>1, <1>2, <1>3, <1>4, <1>5, <1>6, <1>7, <1>8, <1>9, <1>10, <1>11, <1>12 DEF RealMeter!Next

-----------------------------------------------------------------------------
(* The meters together.                                                    *)

LEMMA MetersStep == MetersInv /\ [Next]_vars => MetersInv'
<1> SUFFICES ASSUME MetersInv, [Next]_vars PROVE MetersInv'
  OBVIOUS
<1>0. StateInv /\ OffInv /\ InaInv /\ MsrInv /\ PerfInv /\ RealInv /\ FaultlessInv
  BY DEF MetersInv
<1>1. CASE Step
  <2>1. /\ meter' = meter /\ faulty' = faulty /\ abandoned' = abandoned
        /\ session' = IF pc = "idle" /\ pc' # "idle" THEN session + 1 ELSE session
        /\ session' \in Nat
    BY <1>0, <1>1 DEF Step, Note, StateInv
  <2>2. CASE meter = "ina"
    <3>1. InaMeter!Next /\ UNCHANGED <<handle, fd, event>>
      BY <1>1, <2>2 DEF Step, MeterStep, realVars, msrVars, perfVars
    <3>2. StateInv' /\ InaInv'
      BY <1>0, <2>1, <2>2, <3>1, InaStep DEF StateInv
    <3>3. OffInv' /\ MsrInv' /\ PerfInv' /\ RealInv' /\ FaultlessInv'
      BY <1>0, <2>1, <2>2, <3>1 DEF OffInv, MsrInv, PerfInv, RealInv, FaultlessInv
    <3> QED
      BY <3>2, <3>3 DEF MetersInv
  <2>3. CASE meter = "smartreal"
    <3>1. RealMeter!Next /\ UNCHANGED <<sensor, enabled, sync, mon, fd, event>>
      BY <1>1, <2>3 DEF Step, MeterStep, inaVars, msrVars, perfVars
    <3>2. StateInv' /\ RealInv' /\ FaultlessInv'
      BY <1>0, <2>1, <2>3, <3>1, RealStep DEF StateInv
    <3>3. OffInv' /\ MsrInv' /\ PerfInv' /\ InaInv'
      BY <1>0, <2>1, <2>3, <3>1 DEF OffInv, MsrInv, PerfInv, InaInv
    <3> QED
      BY <3>2, <3>3 DEF MetersInv
  <2>4. CASE meter = "msr"
    <3>1. MsrMeter!Next /\ UNCHANGED <<initialized, sensor, enabled, sync, mon, handle, event>>
      BY <1>1, <2>4 DEF Step, MeterStep, inaVars, realVars, perfVars
    <3>2. StateInv' /\ MsrInv'
      BY <1>0, <2>1, <2>4, <3>1, MsrStep DEF StateInv
    <3>3. OffInv' /\ InaInv' /\ PerfInv' /\ RealInv' /\ FaultlessInv'
      BY <1>0, <2>1, <2>4, <3>1 DEF OffInv, InaInv, PerfInv, RealInv, FaultlessInv
    <3> QED
      BY <3>2, <3>3 DEF MetersInv
  <2>5. CASE meter = "perf"
    <3>1. PerfMeter!Next /\ UNCHANGED <<initialized, sensor, enabled, sync, mon, handle, fd>>
      BY <1>1, <2>5 DEF Step, MeterStep, inaVars, realVars, msrVars
    <3>2. StateInv' /\ PerfInv'
      BY <1>0, <2>1, <2>5, <3>1, PerfStep DEF StateInv
    <3>3. OffInv' /\ InaInv' /\ MsrInv' /\ RealInv' /\ FaultlessInv'
      BY <1>0, <2>1, <2>5, <3>1 DEF OffInv, InaInv, MsrInv, RealInv, FaultlessInv
    <3> QED
      BY <3>2, <3>3 DEF MetersInv
  <2>6. CASE meter = "off"
    <3>1. /\ pc' \in {"idle", "work"}
          /\ UNCHANGED <<initialized, i, sensor, enabled, sync, mon, handle, fd, event>>
      BY <1>1, <2>6 DEF Step, MeterStep, NoReadBefore, NoReadAfter, inaVars, realVars, msrVars, perfVars
    <3>2. StateInv'
      BY <1>0, <2>1, <2>6, <3>1 DEF StateInv
    <3>3. OffInv' /\ InaInv' /\ MsrInv' /\ PerfInv' /\ RealInv' /\ FaultlessInv'
      BY <1>0, <2>1, <2>6, <3>1 DEF OffInv, InaInv, MsrInv, PerfInv, RealInv, FaultlessInv
    <3> QED
      BY <3>2, <3>3 DEF MetersInv
  <2> QED
    BY <1>0, <2>2, <2>3, <2>4, <2>5, <2>6 DEF StateInv
<1>2. CASE Abandon
  <2>1. /\ pc' = "idle" /\ faulty /\ abandoned' \in BOOLEAN /\ abandoned'
        /\ UNCHANGED <<meter, faulty, initialized, i, session, sensor, enabled, sync, mon, handle,
                       fd, event>>
    BY <1>2 DEF Abandon, inaVars, realVars, msrVars, perfVars
  <2>2. StateInv'
    BY <1>0, <2>1 DEF StateInv
  <2>3. OffInv' /\ InaInv' /\ MsrInv' /\ PerfInv' /\ RealInv' /\ FaultlessInv'
    BY <1>0, <2>1 DEF OffInv, InaInv, MsrInv, PerfInv, RealInv, FaultlessInv
  <2> QED
    BY <2>2, <2>3 DEF MetersInv
<1>3. CASE Consume \/ Finished \/ UNCHANGED vars
  <2>1. UNCHANGED <<meter, faulty, abandoned, pc, reported, initialized, i, consumed, session, sensor,
                    enabled, sync, mon, handle, toDev, fromDev, device, fd, event>>
    BY <1>3 DEF Consume, Finished, vars, inaVars, realVars, msrVars, perfVars
  <2>2. StateInv'
    BY <1>0, <2>1 DEF StateInv
  <2>3. OffInv' /\ InaInv' /\ MsrInv' /\ PerfInv' /\ RealInv'
    BY <1>0, <2>1 DEF OffInv, InaInv, Measuring, MsrInv, PerfInv, RealInv
  <2>4. FaultlessInv'
    BY <1>0, <2>1 DEF FaultlessInv, Asked, Quiet, Toggled
  <2> QED
    BY <2>2, <2>3, <2>4 DEF MetersInv
<1> QED
  BY <1>1, <1>2, <1>3 DEF Next

\* Every reachable state satisfies the invariant.
THEOREM Invariant == Spec => []MetersInv
<1>1. Init => MetersInv
  BY MetersInitially
<1>2. MetersInv /\ [Next]_vars => MetersInv'
  BY MetersStep
<1> QED
  BY <1>1, <1>2, PTL DEF Spec

-----------------------------------------------------------------------------
(* What follows.                                                           *)

\* The monitor of the ina meter lies within its sensors, mutex and condition variable,
\* whatever fails, until a read_before beside a monitor left over is undefined.
THEOREM Monitor == Spec => []InaConfined
<1>1. MetersInv => InaConfined
  BY Constants DEF MetersInv, InaInv, InaConfined, InaMeter!Confined, InaMeter!Readable, Live
<1> QED
  BY <1>1, Invariant, PTL

\* What read_before has opened is closed when read_after returns, but where the code
\* leaves it open.
THEOREM Closed == Spec => []NothingLeftOpen
<1>1. MetersInv => NothingLeftOpen
  <2> SUFFICES ASSUME MetersInv, pc = "idle", ~abandoned
               PROVE  /\ (\E s \in 0..SENSOR_MAX - 1 : sensor[s].fd = "open") => ~initialized
                      /\ handle = "open" => initialized /\ reported = 0 /\ faulty
                      /\ \A c \in Cores : fd[c] # "open" /\ event[c] # "open"
    BY DEF NothingLeftOpen
  <2>1. (\E s \in 0..SENSOR_MAX - 1 : sensor[s].fd = "open") => ~initialized
    BY DEF MetersInv, InaInv, SensorSet
  <2>2. handle = "open" => initialized /\ reported = 0 /\ faulty
    BY DEF MetersInv, RealInv
  <2>3. \A c \in Cores : fd[c] # "open" /\ event[c] # "open"
    BY DEF MetersInv, MsrInv, PerfInv
  <2> QED
    BY <2>1, <2>2, <2>3
<1> QED
  BY <1>1, Invariant, PTL

\* A SmartPower that a fault-free measurement has used does not run afterwards, whether
\* it ran before or not.
THEOREM Stopped == Spec => []DeviceStopped
<1>1. MetersInv => DeviceStopped
  BY DEF MetersInv, FaultlessInv, DeviceStopped
<1> QED
  BY <1>1, Invariant, PTL

\* The ina meter counts samples between read_before and read_after only, all of them,
\* and reports 0 when it was not initialised, as power.h promises.
THEOREM Implementation == Spec => InaImplementsMeter
<1>1. ASSUME MetersInv, [Next]_vars, meter = "ina", ~abandoned'
      PROVE  Ina!Next \/ UNCHANGED Ina!meterVars
  <2> USE DEF Ina!meterVars, Ina!Next, InaMeter!inaVars
  <2>0. InaInv /\ (abandoned => abandoned')
    BY <1>1 DEF MetersInv, Next, Step, Abandon, Consume, Finished, vars
  <2>1. CASE Step
    <3>1. InaMeter!Next
      BY <1>1, <2>1 DEF Step, MeterStep
    <3>2. CASE InaMeter!ReadBefore
      BY <2>0, <3>2 DEF InaMeter!ReadBefore, Ina!Reset
    <3>3. CASE InaMeter!OpenSensor
      BY <1>1, <2>0, <3>3 DEF InaMeter!OpenSensor, InaInv
    <3>4. CASE InaMeter!CreateMonitor
      BY <1>1, <2>0, <3>4 DEF InaMeter!CreateMonitor, InaInv, Ina!Begin
    <3>5. CASE InaMeter!ReadAfter
      BY <3>5 DEF InaMeter!ReadAfter, Ina!EndUnopened
    <3>6. CASE InaMeter!Signal \/ InaMeter!Join
      BY <3>6 DEF InaMeter!Signal, InaMeter!Join
    <3>7. CASE InaMeter!StopSensors
      BY <3>7 DEF InaMeter!StopSensors, Ina!End
    <3>8. CASE InaMeter!Sample
      <4>1. Measuring
        BY <1>1, <2>0, <3>8 DEF InaMeter!Sample, InaMeter!Moves, InaInv, Live
      <4> QED
        BY <3>8, <4>1 DEF InaMeter!Sample, InaMeter!Moves, Ina!Sample, Measuring
    <3>9. CASE InaMeter!Monitor /\ ~InaMeter!Sample
      BY <3>9 DEF InaMeter!Monitor, InaMeter!Wait, InaMeter!Expire, InaMeter!Spurious,
                  InaMeter!WaitError, InaMeter!Stop, InaMeter!SampleFails, InaMeter!Moves
    <3> QED
      BY <3>1, <3>2, <3>3, <3>4, <3>5, <3>6, <3>7, <3>8, <3>9 DEF InaMeter!Next, InaMeter!Main
  <2>2. CASE Abandon
    BY <1>1, <2>2 DEF Abandon
  <2>3. CASE Consume \/ Finished \/ UNCHANGED vars
    BY <2>3 DEF Consume, Finished, vars
  <2> QED
    BY <1>1, <2>1, <2>2, <2>3 DEF Next
<1>2. MetersInv /\ [Next]_vars =>
        [meter = "ina" /\ ~abandoned' => Ina!Next \/ UNCHANGED Ina!meterVars]_vars
  BY <1>1
<1> QED
  BY <1>2, Invariant, PTL DEF Spec, InaImplementsMeter

-----------------------------------------------------------------------------
(* Sums over finite sets.  The fold by which SumFunction adds the cores up *)
(* is a CHOOSE of a recursive function: it has to be shown that there is   *)
(* one, and that the order it takes does not matter.                       *)

\* What inductions over numbers and over finite sets rest on.
LEMMA Least ==
  ASSUME NEW T, T \subseteq Nat, T # {}
  PROVE  \E n \in T : \A m \in T : n <= m
<1> DEFINE R == OpToRel(<, Nat)
<1>1. \A m, n \in Nat : m < n => <<m, n>> \in R
  BY DEF OpToRel
<1>2. IsWellFoundedOn(R, Nat)
  BY NatLessThanWellFounded
<1> HIDE DEF R
<1>3. PICK n \in T : \A m \in T : ~(<<m, n>> \in R)
  BY <1>2, WFMin
<1>4. ASSUME NEW m \in T PROVE n <= m
  <2>1. m \in Nat /\ n \in Nat
    OBVIOUS
  <2>2. ~(m < n)
    BY <1>1, <1>3, <2>1
  <2> QED
    BY <2>1, <2>2
<1> QED
  BY <1>4

\* Of a set of finite sets, one is not larger than any other.
LEMMA Smallest ==
  ASSUME NEW C, C # {}, \A s \in C : IsFiniteSet(s)
  PROVE  \E s \in C : \A u \in C : Cardinality(s) <= Cardinality(u)
<1> DEFINE T == {n \in Nat : \E s \in C : Cardinality(s) = n}
<1>1. \A s \in C : Cardinality(s) \in T
  BY FS_CardinalityType
<1>2. T \subseteq Nat /\ T # {}
  BY <1>1
<1> HIDE DEF T
<1>3. PICK n \in T : \A m \in T : n <= m
  BY <1>2, Least
<1>4. PICK s \in C : Cardinality(s) = n
  BY DEF T
<1> QED
  BY <1>1, <1>3, <1>4

\* The element a sum begins with, and the recursion by which it goes on.
FirstOf(s) == CHOOSE x \in s : TRUE
Rest(s) == s \ {FirstOf(s)}
SumsUp(g, f, S) == g = [s \in SUBSET S |-> IF s = {} THEN 0 ELSE f[FirstOf(s)] + g[Rest(s)]]

\* What is left of a finite set without the element the sum begins with.
LEMMA Rests ==
  ASSUME NEW s, IsFiniteSet(s), s # {}
  PROVE  /\ FirstOf(s) \in s /\ IsFiniteSet(Rest(s)) /\ Rest(s) \subseteq s
         /\ Cardinality(s) \in Nat /\ Cardinality(Rest(s)) = Cardinality(s) - 1
BY FS_RemoveElement, FS_CardinalityType DEF FirstOf, Rest

\* The fold of the library is that recursion.
LEMMA SumExpands ==
  ASSUME NEW f, NEW S
  PROVE  SumFunctionOnSet(f, S) = (CHOOSE g : SumsUp(g, f, S))[S]
BY DEF SumFunctionOnSet, FoldFunctionOnSet, MapThenFoldSet, SumsUp, FirstOf, Rest

\* The recursion has a solution: step by step one for larger and larger sets.
LEMMA SumExists ==
  ASSUME NEW f, NEW S, IsFiniteSet(S)
  PROVE  \E g : SumsUp(g, f, S)
<1> DEFINE Up(n) == {s \in SUBSET S : Cardinality(s) <= n}
           Solved(n) == \E g : g = [s \in Up(n) |-> IF s = {} THEN 0 ELSE f[FirstOf(s)] + g[Rest(s)]]
<1>1. \A s \in SUBSET S : IsFiniteSet(s) /\ Cardinality(s) \in Nat
  BY FS_Subset, FS_CardinalityType
<1>2. Solved(0)
  <2>1. \A s \in Up(0) : s = {}
    BY <1>1, FS_EmptySet
  <2>2. [s \in Up(0) |-> 0] = [s \in Up(0) |->
           IF s = {} THEN 0 ELSE f[FirstOf(s)] + [u \in Up(0) |-> 0][Rest(s)]]
    BY <2>1
  <2> QED
    BY <2>2
<1>3. ASSUME NEW n \in Nat, Solved(n) PROVE Solved(n + 1)
  <2>1. PICK g : g = [s \in Up(n) |-> IF s = {} THEN 0 ELSE f[FirstOf(s)] + g[Rest(s)]]
    BY <1>3
  <2> DEFINE h == [s \in Up(n + 1) |-> IF s = {} THEN 0 ELSE f[FirstOf(s)] + g[Rest(s)]]
  <2>2. \A s \in Up(n) : s \in Up(n + 1)
    BY <1>1
  <2>3. \A s \in Up(n) : h[s] = g[s]
    BY <2>1, <2>2, Zenon
  <2>4. \A s \in Up(n + 1) : s # {} => Rest(s) \in Up(n)
    BY <1>1, Rests
  <2> HIDE DEF Up
  <2>5. \A s \in Up(n + 1) : s # {} => h[Rest(s)] = g[Rest(s)]
    BY <2>3, <2>4
  <2>6. h = [s \in Up(n + 1) |-> IF s = {} THEN 0 ELSE f[FirstOf(s)] + h[Rest(s)]]
    BY <2>5
  <2> QED
    BY <2>6
<1> HIDE DEF Solved
<1>4. Solved(Cardinality(S))
  <2> DEFINE T == {n \in Nat : ~Solved(n)}
  <2>1. CASE T = {}
    BY <2>1, FS_CardinalityType
  <2>2. CASE T # {}
    <3>0. T \subseteq Nat
      OBVIOUS
    <3> HIDE DEF T
    <3>1. PICK n \in T : \A m \in T : n <= m
      BY <2>2, <3>0, Least
    <3>2. n \in Nat /\ ~Solved(n)
      BY DEF T
    <3>3. n # 0 /\ n - 1 \in Nat
      BY <1>2, <3>2
    <3>5. n - 1 \notin T
      BY <3>1, <3>2
    <3>6. Solved(n - 1)
      BY <3>3, <3>5 DEF T
    <3>7. (n - 1) + 1 = n
      BY <3>2
    <3> QED
      BY <1>3, <3>2, <3>3, <3>6, <3>7
  <2> QED
    BY <2>1, <2>2
<1>5. Up(Cardinality(S)) = SUBSET S
  BY <1>1, FS_Subset
<1> QED
  BY <1>4, <1>5 DEF SumsUp, Solved

\* The sum over s, from the recursion over the subsets of S.
SumOn(f, s, S) == (CHOOSE g : SumsUp(g, f, S))[s]

\* What the recursion says.
LEMMA SumRecursion ==
  ASSUME NEW f, NEW S, IsFiniteSet(S)
  PROVE  /\ SumOn(f, {}, S) = 0
         /\ \A s \in SUBSET S : s # {} => SumOn(f, s, S) = f[FirstOf(s)] + SumOn(f, Rest(s), S)
<1> DEFINE g == CHOOSE h : SumsUp(h, f, S)
<1>1. SumsUp(g, f, S)
  BY SumExists
<1>2. \A s : SumOn(f, s, S) = g[s]
  BY DEF SumOn
<1> HIDE DEF g
<1> QED
  BY <1>1, <1>2 DEF SumsUp

\* A sum of integers is one.
LEMMA SumIsInt ==
  ASSUME NEW S, IsFiniteSet(S), NEW f \in [S -> Int], NEW s \in SUBSET S
  PROVE  SumOn(f, s, S) \in Int
<1> DEFINE C == {u \in SUBSET S : SumOn(f, u, S) \notin Int}
<1>1. CASE C = {}
  BY <1>1
<1>2. CASE C # {}
  <2>0. \A u \in C : IsFiniteSet(u) /\ u \subseteq S /\ SumOn(f, u, S) \notin Int
    BY FS_Subset
  <2>00. \A u \in SUBSET S : u \notin C => SumOn(f, u, S) \in Int
    OBVIOUS
  <2> HIDE DEF C
  <2>1. PICK u \in C : \A v \in C : Cardinality(u) <= Cardinality(v)
    BY <1>2, <2>0, Smallest
  <2>2. u # {}
    <3>1. SumOn(f, {}, S) \in Int
      BY SumRecursion
    <3> QED
      BY <2>0, <3>1
  <2>3. Rest(u) \notin C /\ Rest(u) \subseteq S /\ FirstOf(u) \in S
    BY <2>0, <2>1, <2>2, Rests
  <2>4. SumOn(f, Rest(u), S) \in Int
    BY <2>00, <2>3
  <2>5. SumOn(f, u, S) = f[FirstOf(u)] + SumOn(f, Rest(u), S)
    BY <2>0, <2>2, SumRecursion
  <2> QED
    BY <2>0, <2>3, <2>4, <2>5
<1> QED
  BY <1>1, <1>2

\* The order of the elements does not matter.
LEMMA SumTakes ==
  ASSUME NEW S, IsFiniteSet(S), NEW f \in [S -> Int], NEW s \in SUBSET S, NEW x \in s
  PROVE  SumOn(f, s, S) = f[x] + SumOn(f, s \ {x}, S)
<1> DEFINE P(u) == \A y \in u : SumOn(f, u, S) = f[y] + SumOn(f, u \ {y}, S)
           C == {u \in SUBSET S : ~P(u)}
<1>1. CASE C = {}
  BY <1>1
<1>2. CASE C # {}
  <2>1. /\ \A u \in C : IsFiniteSet(u) /\ u \subseteq S
        /\ \A u \in C : ~P(u)
        /\ \A u \in SUBSET S : u \notin C => P(u)
    BY FS_Subset
  <2> HIDE DEF C
  <2>2. PICK u \in C : \A v \in C : Cardinality(u) <= Cardinality(v)
    BY <1>2, <2>1, Smallest
  <2>3. PICK y \in u : SumOn(f, u, S) # f[y] + SumOn(f, u \ {y}, S)
    BY <2>1
  <2> DEFINE z == FirstOf(u)
  <2>4. /\ z \in u /\ u \subseteq S /\ IsFiniteSet(u) /\ u # {} /\ Rest(u) = u \ {z}
    BY <2>1, <2>3, Rests DEF Rest
  <2>5. SumOn(f, u, S) = f[z] + SumOn(f, u \ {z}, S)
    <3>1. SumOn(f, u, S) = f[FirstOf(u)] + SumOn(f, Rest(u), S)
      BY <2>4, SumRecursion
    <3> QED
      BY <2>4, <3>1
  <2> HIDE DEF z
  <2>6. y # z
    BY <2>3, <2>5
  <2>7. P(u \ {z}) /\ P(u \ {y})
    <3>1. ASSUME NEW w \in u PROVE u \ {w} \notin C
      <4>1. Cardinality(u \ {w}) = Cardinality(u) - 1 /\ Cardinality(u) \in Nat
        BY <2>4, FS_RemoveElement, FS_CardinalityType
      <4> QED
        BY <2>2, <4>1
    <3> HIDE DEF P
    <3> QED
      BY <2>1, <2>4, <3>1
  <2>8. SumOn(f, u \ {z}, S) = f[y] + SumOn(f, (u \ {z}) \ {y}, S)
    BY <2>6, <2>7
  <2>9. SumOn(f, u \ {y}, S) = f[z] + SumOn(f, (u \ {y}) \ {z}, S)
    BY <2>4, <2>6, <2>7
  <2>10. (u \ {z}) \ {y} = (u \ {y}) \ {z}
    OBVIOUS
  <2>11. f[y] \in Int /\ f[z] \in Int /\ SumOn(f, (u \ {z}) \ {y}, S) \in Int
    BY <2>4, SumIsInt
  <2> DEFINE m == SumOn(f, (u \ {z}) \ {y}, S)
  <2>12. SumOn(f, u, S) = f[z] + (f[y] + m) /\ SumOn(f, u \ {y}, S) = f[z] + m /\ m \in Int
    BY <2>5, <2>8, <2>9, <2>10, <2>11
  <2> HIDE DEF m
  <2> QED
    BY <2>3, <2>11, <2>12
<1> QED
  BY <1>1, <1>2

\* The sum is the same in larger sets.
LEMMA SumWithin ==
  ASSUME NEW S, NEW R, IsFiniteSet(S), IsFiniteSet(R), NEW f, NEW s, s \subseteq S, s \subseteq R
  PROVE  SumOn(f, s, S) = SumOn(f, s, R)
<1> DEFINE P(u) == SumOn(f, u, S) = SumOn(f, u, R)
           C == {u \in SUBSET s : ~P(u)}
<1>1. CASE C = {}
  BY <1>1
<1>2. CASE C # {}
  <2>1. /\ \A u \in C : IsFiniteSet(u) /\ u \subseteq s /\ ~P(u)
        /\ \A u \in SUBSET s : u \notin C => P(u)
    BY FS_Subset
  <2> HIDE DEF C
  <2>2. PICK u \in C : \A v \in C : Cardinality(u) <= Cardinality(v)
    BY <1>2, <2>1, Smallest
  <2>3. u # {}
    <3>1. P({})
      BY SumRecursion
    <3> HIDE DEF P
    <3> QED
      BY <2>1, <3>1
  <2>4. Rest(u) \notin C /\ Rest(u) \subseteq s
    BY <2>1, <2>2, <2>3, Rests
  <2>5. P(Rest(u))
    BY <2>1, <2>4
  <2>6. /\ SumOn(f, u, S) = f[FirstOf(u)] + SumOn(f, Rest(u), S)
        /\ SumOn(f, u, R) = f[FirstOf(u)] + SumOn(f, Rest(u), R)
    BY <2>1, <2>3, SumRecursion
  <2> QED
    BY <2>1, <2>5, <2>6
<1> QED
  BY <1>1, <1>2

\* The sum over all cores, and over those before n.
Sum(f) == SumFunction(f)
SumTo(f, n) == SumFunctionOnSet(f, 0..n - 1)

\* There are finitely many cores, numbered from 0.
LEMMA CoresFinite == IsFiniteSet(Cores) /\ core_count \in Nat /\ Cores = 0..core_count - 1
BY MetersAssumption, FS_Interval DEF Cores

\* The sum over the cores before n is one over a subset of the cores.
LEMMA SumToOn ==
  ASSUME NEW f, NEW n \in 0..core_count
  PROVE  SumTo(f, n) = SumOn(f, 0..n - 1, Cores) /\ 0..n - 1 \in SUBSET Cores
<1>1. 0..n - 1 \subseteq Cores /\ n - 1 \in Int /\ 0 \in Int
  BY CoresFinite
<1>2. IsFiniteSet(0..n - 1)
  BY <1>1, FS_Interval
<1>3. SumTo(f, n) = SumOn(f, 0..n - 1, 0..n - 1)
  BY SumExpands DEF SumTo, SumOn
<1>4. SumOn(f, 0..n - 1, 0..n - 1) = SumOn(f, 0..n - 1, Cores)
  BY <1>1, <1>2, CoresFinite, SumWithin
<1> QED
  BY <1>1, <1>3, <1>4

\* The sum over the cores grows with each core, as the loops of the meters compute it.
LEMMA CoreSums ==
  ASSUME NEW f \in [Cores -> Int]
  PROVE  /\ SumTo(f, 0) = 0
         /\ \A n \in Cores : SumTo(f, n + 1) = SumTo(f, n) + f[n]
         /\ \A n \in 0..core_count : SumTo(f, n) \in Int
         /\ Sum(f) = SumTo(f, core_count)
<1>1. SumTo(f, 0) = 0
  <2>1. 0..0 - 1 = {} /\ 0 \in 0..core_count
    BY CoresFinite
  <2>2. SumTo(f, 0) = SumOn(f, {}, Cores)
    BY <2>1, SumToOn
  <2> QED
    BY <2>2, CoresFinite, SumRecursion
<1>2. ASSUME NEW n \in 0..core_count PROVE SumTo(f, n) \in Int
  BY SumToOn, CoresFinite, SumIsInt
<1>3. ASSUME NEW n \in Cores PROVE SumTo(f, n + 1) = SumTo(f, n) + f[n]
  <2>1. /\ n \in 0..core_count /\ n + 1 \in 0..core_count
        /\ (n + 1) - 1 = n /\ n \in 0..n /\ (0..n) \ {n} = 0..n - 1
    BY CoresFinite
  <2>2. SumTo(f, n + 1) = SumOn(f, 0..n, Cores) /\ 0..n \in SUBSET Cores
    BY <2>1, SumToOn
  <2>3. SumOn(f, 0..n, Cores) = f[n] + SumOn(f, (0..n) \ {n}, Cores)
    <3>1. n \in 0..n /\ 0..n \in SUBSET Cores /\ IsFiniteSet(Cores)
      BY <2>1, <2>2, CoresFinite
    <3> QED
      BY <3>1, SumTakes
  <2>4. SumTo(f, n) = SumOn(f, 0..n - 1, Cores)
    BY <2>1, SumToOn
  <2>5. SumTo(f, n + 1) = f[n] + SumTo(f, n)
    BY <2>1, <2>2, <2>3, <2>4
  <2> QED
    BY <1>2, <2>1, <2>5
<1>4. Sum(f) = SumTo(f, core_count)
  BY CoresFinite DEF Sum, SumTo, SumFunction
<1> QED
  BY <1>1, <1>2, <1>3, <1>4

\* Larger values have a larger sum.
LEMMA SumMonotone ==
  ASSUME NEW f \in [Cores -> Int], NEW g \in [Cores -> Int]
  PROVE  \A n \in 0..core_count :
           (\A c \in Cores : c < n => f[c] <= g[c]) => SumTo(f, n) <= SumTo(g, n)
<1> DEFINE P(n) == (\A c \in Cores : c < n => f[c] <= g[c]) => SumTo(f, n) <= SumTo(g, n)
           T == {n \in 0..core_count : ~P(n)}
<1>1. P(0)
  BY CoreSums
<1>2. ASSUME NEW n \in Cores, P(n) PROVE P(n + 1)
  <2> SUFFICES ASSUME \A c \in Cores : c < n + 1 => f[c] <= g[c]
               PROVE  SumTo(f, n + 1) <= SumTo(g, n + 1)
    OBVIOUS
  <2>1. n \in Nat /\ n \in 0..core_count /\ \A c \in Cores : c \in Int
    BY CoresFinite
  <2>2. SumTo(f, n) <= SumTo(g, n) /\ f[n] <= g[n]
    BY <1>2, <2>1
  <2>3. /\ SumTo(f, n + 1) = SumTo(f, n) + f[n] /\ SumTo(g, n + 1) = SumTo(g, n) + g[n]
        /\ SumTo(f, n) \in Int /\ SumTo(g, n) \in Int /\ f[n] \in Int /\ g[n] \in Int
    BY <2>1, CoreSums
  <2> QED
    BY <2>2, <2>3
<1> HIDE DEF P
<1>3. CASE T = {}
  BY <1>3 DEF P
<1>4. CASE T # {}
  <2>1. T \subseteq Nat
    OBVIOUS
  <2>2. PICK n \in T : \A m \in T : n <= m
    BY <1>4, <2>1, Least
  <2>3. n \in 0..core_count /\ ~P(n) /\ n # 0 /\ core_count \in Nat
    BY <1>1, CoresFinite
  <2>4. n - 1 \in Cores /\ n - 1 \in 0..core_count /\ (n - 1) + 1 = n
    BY <2>3, CoresFinite
  <2>5. P(n - 1)
    BY <2>2, <2>3, <2>4
  <2> QED
    BY <1>2, <2>3, <2>4, <2>5
<1> QED
  BY <1>3, <1>4

\* The sum of sums, core by core, is the sum of the two.
LEMMA SumAdds ==
  ASSUME NEW f \in [Cores -> Int], NEW g \in [Cores -> Int], NEW h \in [Cores -> Int],
         \A c \in Cores : h[c] = f[c] + g[c]
  PROVE  \A n \in 0..core_count : SumTo(h, n) = SumTo(f, n) + SumTo(g, n)
<1> DEFINE P(n) == SumTo(h, n) = SumTo(f, n) + SumTo(g, n)
           T == {n \in 0..core_count : ~P(n)}
<1>1. P(0)
  BY CoreSums
<1>2. ASSUME NEW n \in Cores, P(n) PROVE P(n + 1)
  <2>1. n \in Nat /\ n \in 0..core_count
    BY CoresFinite
  <2>2. SumTo(h, n) = SumTo(f, n) + SumTo(g, n) /\ h[n] = f[n] + g[n]
    BY <1>2
  <2>3. /\ SumTo(f, n + 1) = SumTo(f, n) + f[n] /\ SumTo(g, n + 1) = SumTo(g, n) + g[n]
        /\ SumTo(h, n + 1) = SumTo(h, n) + h[n]
        /\ SumTo(f, n) \in Int /\ SumTo(g, n) \in Int /\ f[n] \in Int /\ g[n] \in Int
    BY <2>1, CoreSums
  <2> QED
    BY <2>2, <2>3
<1> HIDE DEF P
<1>3. CASE T = {}
  BY <1>3 DEF P
<1>4. CASE T # {}
  <2>1. T \subseteq Nat
    OBVIOUS
  <2>2. PICK n \in T : \A m \in T : n <= m
    BY <1>4, <2>1, Least
  <2>3. n \in 0..core_count /\ ~P(n) /\ n # 0 /\ core_count \in Nat
    BY <1>1, CoresFinite
  <2>4. n - 1 \in Cores /\ n - 1 \in 0..core_count /\ (n - 1) + 1 = n
    BY <2>3, CoresFinite
  <2>5. P(n - 1)
    BY <2>2, <2>3, <2>4
  <2> QED
    BY <1>2, <2>3, <2>4, <2>5
<1> QED
  BY <1>3, <1>4

-----------------------------------------------------------------------------
(* What the cores have used, and what their counters show of it.           *)

\* Energies of the cores; one is below another if every core has used less or as much;
\* the counters of msr, which wrap; the difference, which perf counts; and whether no
\* counter wraps between the two.
Uses == [Cores -> Nat]
Below(f, g) == \A c \in Cores : f[c] <= g[c]
Counters(f) == [c \in Cores |-> f[c] % Wrap]
Minus(f, g) == [c \in Cores |-> f[c] - g[c]]
SameTurn(f, g) == \A c \in Cores : f[c] \div Wrap = g[c] \div Wrap

\* The sums of energies, counters and differences are numbers.
LEMMA UseTypes ==
  ASSUME NEW f \in Uses, NEW g \in Uses
  PROVE  /\ f \in [Cores -> Int] /\ Counters(f) \in [Cores -> Int] /\ Minus(f, g) \in [Cores -> Int]
         /\ Sum(f) \in Nat /\ Sum(Counters(f)) \in Int /\ Sum(Minus(f, g)) \in Int
<1>1. f \in [Cores -> Int] /\ Minus(f, g) \in [Cores -> Int] /\ \A c \in Cores : f[c] >= 0
  BY DEF Uses, Minus
<1>2. Counters(f) \in [Cores -> Int]
  <2>1. \A a \in Nat : a % Wrap \in Int
    BY MetersAssumption
  <2> QED
    BY <2>1 DEF Uses, Counters
<1>3. core_count \in 0..core_count
  BY CoresFinite
<1>4. Sum(f) \in Int /\ Sum(Counters(f)) \in Int /\ Sum(Minus(f, g)) \in Int
  BY <1>1, <1>2, <1>3, CoreSums
<1>5. Sum(f) >= 0
  <2> DEFINE z == [c \in Cores |-> 0]
  <2>1. z \in [Cores -> Int] /\ \A c \in Cores : z[c] = z[c] + z[c] /\ z[c] <= f[c]
    BY <1>1
  <2> HIDE DEF z
  <2>2. SumTo(z, core_count) = SumTo(z, core_count) + SumTo(z, core_count)
    BY <1>3, <2>1, SumAdds
  <2>3. SumTo(z, core_count) = 0
    <3>1. SumTo(z, core_count) \in Int
      BY <1>3, <2>1, CoreSums
    <3>2. \A n \in Int : n = n + n => n = 0
      OBVIOUS
    <3> QED
      BY <2>2, <3>1, <3>2
  <2>4. SumTo(z, core_count) <= SumTo(f, core_count)
    BY <1>1, <1>3, <2>1, SumMonotone
  <2>5. SumTo(f, core_count) = Sum(f)
    BY <1>1, CoreSums
  <2> QED
    BY <1>4, <2>3, <2>4, <2>5
<1> QED
  BY <1>1, <1>2, <1>4, <1>5

\* SumMonotone for all cores and for those before n.
LEMMA SumsBelow ==
  ASSUME NEW f \in [Cores -> Int], NEW g \in [Cores -> Int], Below(f, g)
  PROVE  Sum(f) <= Sum(g) /\ \A n \in 0..core_count : SumTo(f, n) <= SumTo(g, n)
<1>1. \A n \in 0..core_count : SumTo(f, n) <= SumTo(g, n)
  BY SumMonotone DEF Below
<1> QED
  BY <1>1, CoresFinite, CoreSums

\* The sum of the differences is the difference of the sums.
LEMMA MinusSums ==
  ASSUME NEW f \in Uses, NEW g \in Uses
  PROVE  Sum(Minus(f, g)) = Sum(f) - Sum(g)
<1>1. /\ f \in [Cores -> Int] /\ g \in [Cores -> Int] /\ Minus(f, g) \in [Cores -> Int]
      /\ Sum(f) \in Int /\ Sum(g) \in Int /\ Sum(Minus(f, g)) \in Int
  BY UseTypes
<1>2. \A c \in Cores : f[c] = Minus(f, g)[c] + g[c]
  BY DEF Minus, Uses
<1>3. SumTo(f, core_count) = SumTo(Minus(f, g), core_count) + SumTo(g, core_count)
  <2>1. core_count \in 0..core_count
    BY CoresFinite
  <2> QED
    BY <1>1, <1>2, <2>1, SumAdds
<1>4. Sum(f) = Sum(Minus(f, g)) + Sum(g)
  BY <1>1, <1>3, CoreSums
<1> QED
  BY <1>1, <1>4

\* A counter that has not wrapped has gone on as its core has.
LEMMA Turns ==
  ASSUME NEW a \in Nat, NEW b \in Nat, NEW c \in Nat, a <= b, b <= c, a \div Wrap = c \div Wrap
  PROVE  /\ a \div Wrap = b \div Wrap
         /\ a % Wrap <= b % Wrap /\ (b % Wrap) - (a % Wrap) = b - a
<1>0. Wrap \in Nat \ {0}
  BY MetersAssumption
<1>1. /\ a \div Wrap <= b \div Wrap /\ b \div Wrap <= c \div Wrap
      /\ a \div Wrap \in Nat /\ b \div Wrap \in Nat /\ c \div Wrap \in Nat
  BY <1>0
<1>2. a \div Wrap = b \div Wrap
  BY <1>1
<1>3. ASSUME NEW n \in Nat PROVE n = Wrap * (n \div Wrap) + (n % Wrap)
  BY <1>0
<1> DEFINE q == Wrap * (a \div Wrap)
<1>4. q \in Int /\ a % Wrap \in Int /\ b % Wrap \in Int
  BY <1>0, <1>1
<1>5. a = q + (a % Wrap) /\ b = q + (b % Wrap)
  <2>1. b = Wrap * (b \div Wrap) + (b % Wrap)
    BY <1>3
  <2>2. a = Wrap * (a \div Wrap) + (a % Wrap)
    BY <1>3
  <2> QED
    BY <1>2, <2>1, <2>2
<1> DEFINE ra == a % Wrap
           rb == b % Wrap
<1>6. ra \in Int /\ rb \in Int /\ a = q + ra /\ b = q + rb
  BY <1>4, <1>5
<1> HIDE DEF q, ra, rb
<1>7. ra <= rb /\ rb - ra = b - a
  BY <1>4, <1>6
<1> QED
  BY <1>2, <1>7 DEF ra, rb

\* Counters that do not wrap in between differ, in sum, by what the cores have used.
LEMMA CounterSums ==
  ASSUME NEW f \in Uses, NEW g \in Uses, SameTurn(f, g)
  PROVE  Sum(Counters(g)) - Sum(Counters(f)) = Sum(g) - Sum(f)
<1> DEFINE base == [c \in Cores |-> Wrap * (f[c] \div Wrap)]
<1>1. Wrap \in Nat \ {0}
  BY MetersAssumption
<1>2. \A a \in Nat : Wrap * (a \div Wrap) \in Int /\ a = (a % Wrap) + Wrap * (a \div Wrap)
  BY <1>1
<1>3. /\ base \in [Cores -> Int]
      /\ \A c \in Cores : f[c] = Counters(f)[c] + base[c]
      /\ \A c \in Cores : g[c] = Counters(g)[c] + base[c]
  BY <1>2 DEF Uses, Counters, SameTurn
<1> HIDE DEF base
<1>4. /\ f \in [Cores -> Int] /\ g \in [Cores -> Int]
      /\ Counters(f) \in [Cores -> Int] /\ Counters(g) \in [Cores -> Int]
      /\ Sum(Counters(f)) \in Int /\ Sum(Counters(g)) \in Int
  BY UseTypes
<1>5. core_count \in 0..core_count
  BY CoresFinite
<1>6. /\ SumTo(f, core_count) = SumTo(Counters(f), core_count) + SumTo(base, core_count)
      /\ SumTo(g, core_count) = SumTo(Counters(g), core_count) + SumTo(base, core_count)
      /\ SumTo(base, core_count) \in Int
  <2> SUFFICES ASSUME NEW h \in {f, g}
               PROVE  SumTo(h, core_count) = SumTo(Counters(h), core_count) + SumTo(base, core_count)
    BY <1>3, <1>5, CoreSums
  <2>1. /\ h \in [Cores -> Int] /\ Counters(h) \in [Cores -> Int] /\ base \in [Cores -> Int]
        /\ \A c \in Cores : h[c] = Counters(h)[c] + base[c]
    BY <1>3, <1>4
  <2>2. \A m \in 0..core_count : SumTo(h, m) = SumTo(Counters(h), m) + SumTo(base, m)
    BY ONLY <2>1, SumAdds
  <2> QED
    BY <1>5, <2>2
<1>7. /\ Sum(f) = Sum(Counters(f)) + SumTo(base, core_count)
      /\ Sum(g) = Sum(Counters(g)) + SumTo(base, core_count)
  BY <1>4, <1>6, CoreSums
<1> QED
  BY <1>4, <1>6, <1>7

-----------------------------------------------------------------------------
(* The types.                                                              *)

\* The types, and what is noted at the event and at the device is not later than now.
UsedInv ==
  /\ TypeOK
  /\ \A c \in Cores : opened[c] <= used[c]
  /\ device.since <= SumFunction(used)

LEMMA UsedFacts ==
  ASSUME TypeOK
  PROVE  /\ used \in Uses /\ \A c \in Cores : used[c] \in Nat /\ used[c] % Wrap \in Nat
         /\ Sum(used) \in Nat /\ SumFunction(used) = Sum(used)
<1>1. used \in Uses /\ \A c \in Cores : used[c] \in Nat
  BY MetersAssumption DEF TypeOK, Uses
<1>2. \A n \in Nat : n % Wrap \in Nat
  BY MetersAssumption
<1> QED
  BY <1>1, <1>2, UseTypes DEF Sum

LEMMA MsrTypes ==
  ASSUME UsedInv, MsrMeter!Next, i \in Nat
  PROVE  MsrMeter!TypeOK' /\ reported' \in Int /\ i' \in Nat
<1>1. /\ fd \in [Cores -> {"none", "open", "failed", "closed"}] /\ units \in [Cores -> {1, Coarse}]
      /\ pp0_before \in Nat /\ pp0_after \in Nat /\ reported \in Int
  BY Constants DEF UsedInv, TypeOK, MsrMeter!TypeOK
<1>2. Coarse \in Nat /\ core_count \in Nat
  BY MetersAssumption
<1>3. SUFFICES /\ fd' \in [Cores -> {"none", "open", "failed", "closed"}]
               /\ units' \in [Cores -> {1, Coarse}]
               /\ pp0_before' \in Nat /\ pp0_after' \in Nat /\ reported' \in Int /\ i' \in Nat
  BY Constants DEF MsrMeter!TypeOK
<1>4. \A a, b, u \in Nat : a + b * u \in Nat
  OBVIOUS
<1>5. \A c \in Cores, ok \in BOOLEAN : MsrMeter!ReadMsr(c, ok) \in Nat
  BY UsedFacts DEF UsedInv, MsrMeter!ReadMsr, MsrMeter!Register
<1>6. \A d : MsrMeter!MayRead(d) \subseteq BOOLEAN
  BY DEF MsrMeter!MayRead
<1>7. CASE MsrMeter!Before
  <2>1. PICK d \in (IF faulty THEN {"open", "failed"} ELSE {"open"}) :
          /\ fd' = [fd EXCEPT ![i] = d]
          /\ \E unit, energy \in MsrMeter!MayRead(d) :
               /\ units' = [units EXCEPT ![i] = IF unit THEN 1 ELSE Coarse]
               /\ pp0_before' = pp0_before + MsrMeter!ReadMsr(i, energy) * units'[i]
    BY <1>7, Zenon DEF MsrMeter!Before
  <2>2. PICK unit, energy \in MsrMeter!MayRead(d) :
          /\ units' = [units EXCEPT ![i] = IF unit THEN 1 ELSE Coarse]
          /\ pp0_before' = pp0_before + MsrMeter!ReadMsr(i, energy) * units'[i]
    BY <2>1
  <2>3. i \in Cores /\ i' \in Nat /\ pp0_after' = pp0_after /\ reported' = reported
    BY <1>2, <1>7 DEF MsrMeter!Before, Cores
  <2>4. units' \in [Cores -> {1, Coarse}] /\ units'[i] \in Nat
    BY <1>1, <1>2, <2>2, <2>3
  <2>5. MsrMeter!ReadMsr(i, energy) \in Nat
    BY <1>5, <1>6, <2>3
  <2> HIDE DEF MsrMeter!ReadMsr
  <2>6. pp0_before' \in Nat
    BY <1>1, <1>4, <2>2, <2>4, <2>5
  <2> QED
    BY <1>1, <2>1, <2>3, <2>4, <2>6
<1>8. CASE MsrMeter!After
  <2>1. PICK energy \in MsrMeter!MayRead(fd[i]) :
          pp0_after' = pp0_after + MsrMeter!ReadMsr(i, energy) * units[i]
    BY <1>8 DEF MsrMeter!After
  <2>2. /\ i \in Cores /\ i' \in Nat /\ pp0_before' = pp0_before /\ reported' = reported
        /\ units' = units /\ fd' = [fd EXCEPT ![i] = "closed"]
    BY <1>2, <1>8 DEF MsrMeter!After, Cores
  <2>3. MsrMeter!ReadMsr(i, energy) \in Nat /\ units[i] \in Nat
    BY <1>1, <1>2, <1>5, <1>6, <2>2
  <2>4. pp0_after' \in Nat
    BY <1>1, <1>4, <2>1, <2>3
  <2> QED
    BY <1>1, <2>2, <2>4
<1>9. CASE MsrMeter!ReadBefore \/ MsrMeter!ReturnBefore \/ MsrMeter!ReadAfter \/ MsrMeter!ReturnAfter
  BY <1>1, <1>9 DEF MsrMeter!ReadBefore, MsrMeter!ReturnBefore, MsrMeter!ReadAfter,
    MsrMeter!ReturnAfter, MsrMeter!msrVars
<1> QED
  BY <1>7, <1>8, <1>9 DEF MsrMeter!Next

LEMMA PerfTypes ==
  ASSUME UsedInv, PerfMeter!Next, i \in Nat
  PROVE  /\ PerfMeter!TypeOK' /\ reported' \in Int /\ i' \in Nat
         /\ \A c \in Cores : opened'[c] <= used[c]
<1>1. /\ event \in [Cores -> {"none", "open", "failed", "closed"}] /\ opened \in [Cores -> Nat]
      /\ known \in BOOLEAN /\ perf_consumed \in Nat /\ reported \in Int
      /\ \A c \in Cores : opened[c] <= used[c]
  BY Constants DEF UsedInv, TypeOK, PerfMeter!TypeOK
<1>2. core_count \in Nat /\ Garbage \subseteq Nat
  BY MetersAssumption
<1>3. \A c \in Cores : used[c] \in Nat
  BY UsedFacts DEF UsedInv
<1>4. SUFFICES /\ event' \in [Cores -> {"none", "open", "failed", "closed"}]
               /\ opened' \in [Cores -> Nat] /\ \A c \in Cores : opened'[c] <= used[c]
               /\ known' \in BOOLEAN /\ perf_consumed' \in Nat /\ reported' \in Int /\ i' \in Nat
  BY Constants DEF PerfMeter!TypeOK
<1>5. CASE PerfMeter!Before
  <2>1. /\ i \in Cores /\ i' \in Nat /\ UNCHANGED <<reported, known, perf_consumed>>
        /\ \/ event' = [event EXCEPT ![i] = "open"] /\ opened' = [opened EXCEPT ![i] = used[i]]
           \/ event' = [event EXCEPT ![i] = "failed"] /\ opened' = opened
    BY <1>2, <1>5 DEF PerfMeter!Before, Cores
  <2> QED
    BY <1>1, <1>3, <2>1
<1>6. CASE PerfMeter!After
  <2>1. /\ i \in Cores /\ i' \in Nat /\ UNCHANGED <<reported, known, opened>>
        /\ event' = [event EXCEPT ![i] = "closed"] \/ event' = event
        /\ \/ perf_consumed' = perf_consumed
           \/ \E value \in PerfMeter!Count(i) \cup {0} : perf_consumed' = perf_consumed + value
    BY <1>2, <1>6 DEF PerfMeter!After, Cores
  <2>2. PerfMeter!Count(i) \subseteq Nat
    <3>1. used[i] - opened[i] \in Nat
      BY <1>1, <1>3, <2>1
    <3> QED
      BY <1>2, <3>1 DEF PerfMeter!Count
  <2>3. perf_consumed' \in Nat
    BY <1>1, <2>1, <2>2
  <2>4. event' \in [Cores -> {"none", "open", "failed", "closed"}]
    BY <1>1, <2>1
  <2> QED
    BY <1>1, <2>1, <2>3, <2>4
<1>7. CASE \/ PerfMeter!ReadBefore \/ PerfMeter!ReturnBefore \/ PerfMeter!ReadAfter
           \/ PerfMeter!ReturnAfter
  <2>1. /\ event' = event /\ opened' = opened /\ i' \in {0, i}
        /\ perf_consumed' \in {0, perf_consumed} /\ reported' \in {reported, perf_consumed}
    BY <1>7 DEF PerfMeter!ReadBefore, PerfMeter!ReturnBefore, PerfMeter!ReadAfter,
      PerfMeter!ReturnAfter, PerfMeter!perfVars
  <2>2. known' \in {known, TRUE}
    BY <1>7 DEF PerfMeter!ReadBefore, PerfMeter!ReturnBefore, PerfMeter!ReadAfter,
      PerfMeter!ReturnAfter, PerfMeter!perfVars
  <2>3. known' \in BOOLEAN
    BY <1>1, <2>2, Zenon
  <2>4. perf_consumed' \in Nat /\ reported' \in Int /\ i' \in Nat
    BY <1>1, <2>1
  <2> QED
    BY <1>1, <2>1, <2>3, <2>4
<1> QED
  BY <1>5, <1>6, <1>7 DEF PerfMeter!Next

LEMMA SameSum == \A f : RealMeter!SumFunction(f) = SumFunction(f)
BY DEF RealMeter!SumFunction, SumFunction, RealMeter!SumFunctionOnSet, SumFunctionOnSet,
  RealMeter!FoldFunctionOnSet, FoldFunctionOnSet, RealMeter!MapThenFoldSet, MapThenFoldSet

LEMMA MessageTypes ==
  ASSUME NEW S, NEW q \in Seq(S)
  PROVE  /\ q # <<>> => Head(q) \in S /\ Tail(q) \in Seq(S)
         /\ \A e \in S : Append(q, e) \in Seq(S)
         /\ <<>> \in Seq(S)
OBVIOUS

Requests == {"status", "toggle", "data"}
Replies == [kind : {"status", "data"}, on : BOOLEAN, energy : Nat]

LEMMA RealTypes ==
  ASSUME UsedInv, StateInv, RealMeter!Next
  PROVE  /\ RealMeter!TypeOK' /\ reported' \in Int /\ consumed' \in Nat
         /\ device'.since <= SumFunction(used)
<1>1. /\ handle \in {"none", "null", "open", "closed"} /\ toDev \in Seq(Requests)
      /\ fromDev \in Seq(Replies) /\ device \in [running : BOOLEAN, since : Nat, energy : Nat]
      /\ reported \in Int /\ consumed \in Nat /\ device.since <= SumFunction(used)
  BY DEF UsedInv, TypeOK, RealMeter!TypeOK, Requests, Replies
<1>2. SumFunction(used) \in Nat
  BY UsedFacts DEF UsedInv
<1>3. SUFFICES /\ handle' \in {"none", "null", "open", "closed"} /\ toDev' \in Seq(Requests)
               /\ fromDev' \in Seq(Replies)
               /\ device' \in [running : BOOLEAN, since : Nat, energy : Nat]
               /\ reported' \in Int /\ consumed' \in Nat /\ device'.since <= SumFunction(used)
  BY DEF RealMeter!TypeOK, Requests, Replies
<1>4. ASSUME NEW kind, NEW found, RealMeter!Poll(kind, found)
      PROVE  /\ fromDev' = fromDev \/ (fromDev # <<>> /\ fromDev' = Tail(fromDev))
             /\ consumed' = consumed \/ (fromDev # <<>> /\ found)
  BY <1>4 DEF RealMeter!Poll
<1>5. /\ fromDev # <<>> => Head(fromDev) \in Replies /\ Tail(fromDev) \in Seq(Replies)
      /\ <<>> \in Seq(Replies)
      /\ \A r \in Requests : Append(toDev, r) \in Seq(Requests)
  BY <1>1, MessageTypes
<1>6. CASE RealMeter!Device
  <2>1. RealMeter!Energy \in Nat
    BY <1>1, <1>2, SameSum DEF RealMeter!Energy
  <2>2. /\ toDev # <<>> /\ toDev' = Tail(toDev) /\ UNCHANGED <<handle, reported, consumed>>
    BY <1>6 DEF RealMeter!Device
  <2>3. toDev' \in Seq(Requests) /\ Head(toDev) \in Requests
    BY <1>1, <2>2, MessageTypes
  <2>4. CASE Head(toDev) = "toggle"
    <3>1. /\ device' = [running |-> ~device.running, since |-> SumFunction(used),
                        energy |-> IF device.running THEN RealMeter!Energy ELSE 0]
          /\ fromDev' = fromDev
      BY <1>6, <2>4, SameSum DEF RealMeter!Device
    <3>2. device' \in [running : BOOLEAN, since : Nat, energy : Nat]
      BY <1>1, <1>2, <2>1, <3>1
    <3>3. device'.since = SumFunction(used)
      BY <3>1
    <3> QED
      BY <1>1, <1>2, <2>2, <2>3, <3>1, <3>2, <3>3
  <2>5. CASE Head(toDev) # "toggle"
    <3>1. /\ fromDev' = Append(fromDev, [kind |-> Head(toDev), on |-> device.running,
                                         energy |-> RealMeter!Energy])
          /\ device' = device
      BY <1>6, <2>5 DEF RealMeter!Device
    <3>2. Head(toDev) \in {"status", "data"}
      BY <2>3, <2>5 DEF Requests
    <3>3. [kind |-> Head(toDev), on |-> device.running, energy |-> RealMeter!Energy] \in Replies
      BY <1>1, <2>1, <3>2 DEF Replies
    <3>4. fromDev' \in Seq(Replies)
      BY <1>1, <3>1, <3>3, MessageTypes
    <3> QED
      BY <1>1, <2>2, <2>3, <3>1, <3>4
  <2> QED
    BY <2>4, <2>5
<1>7. CASE RealMeter!StatusRequest \/ RealMeter!ToggleStart \/ RealMeter!StopDevice \/ RealMeter!DataRequest
  <2>1. /\ toDev' = toDev \/ \E r \in Requests : toDev' = Append(toDev, r)
        /\ UNCHANGED <<handle, fromDev, device, consumed>>
        /\ reported' = reported \/ reported' = 0
    BY <1>7 DEF RealMeter!StatusRequest, RealMeter!ToggleStart, RealMeter!StopDevice,
      RealMeter!DataRequest, RealMeter!Write, RealMeter!Ignored, RealMeter!GiveUp, Requests
  <2>2. toDev' \in Seq(Requests)
    BY <1>1, <1>5, <2>1
  <2>3. reported' \in Int
    BY <1>1, <2>1
  <2> QED
    BY <1>1, <2>1, <2>2, <2>3
<1>8. CASE RealMeter!StatusPoll
  <2>1. /\ UNCHANGED <<handle, reported, toDev, device>>
        /\ fromDev' = fromDev \/ (fromDev # <<>> /\ fromDev' = Tail(fromDev))
        /\ consumed' = consumed
    <3>1. /\ UNCHANGED <<handle, reported, toDev, device>>
          /\ \/ RealMeter!Poll("status", pc' = RealMeter!AfterStatus(Head(fromDev).on) /\ UNCHANGED consumed)
             \/ UNCHANGED <<consumed, fromDev>>
      BY <1>8 DEF RealMeter!StatusPoll
    <3> QED
      BY <1>4, <3>1
  <2> QED
    BY <1>1, <1>5, <2>1
<1>9. CASE RealMeter!DataPoll
  <2>1. /\ UNCHANGED <<handle, toDev, device>>
        /\ fromDev' = fromDev \/ (fromDev # <<>> /\ fromDev' = Tail(fromDev))
        /\ consumed' = consumed \/ (fromDev # <<>> /\ consumed' = Head(fromDev).energy)
        /\ reported' = reported \/ reported' = 0
    <3>1. /\ UNCHANGED <<handle, toDev, device>>
          /\ \/ RealMeter!Poll("data", pc' = "close" /\ consumed' = Head(fromDev).energy)
                /\ UNCHANGED reported
             \/ UNCHANGED <<consumed, fromDev>> /\ (reported' = 0 \/ reported' = reported)
      BY <1>9 DEF RealMeter!DataPoll, RealMeter!GiveUp
    <3> QED
      BY <1>4, <3>1
  <2>2. consumed' \in Nat
    BY <1>1, <1>5, <2>1 DEF Replies
  <2>3. fromDev' \in Seq(Replies)
    BY <1>1, <1>5, <2>1
  <2>4. reported' \in Int
    BY <1>1, <2>1
  <2> QED
    BY <1>1, <2>1, <2>2, <2>3, <2>4
<1>10. CASE RealMeter!ReadBefore \/ RealMeter!Ready \/ RealMeter!ReadAfter
  <2>1. /\ UNCHANGED <<toDev, fromDev, device>> /\ handle' \in {handle, "open", "null"}
        /\ consumed' \in {consumed, 0} /\ reported' \in {reported, 0}
    BY <1>10 DEF RealMeter!ReadBefore, RealMeter!Ready, RealMeter!ReadAfter, RealMeter!realVars
  <2> QED
    BY <1>1, <2>1
<1>11. CASE RealMeter!FailBefore \/ RealMeter!FinishAfter
  <2>1. /\ UNCHANGED <<toDev, device, consumed>> /\ handle' = "closed" /\ fromDev' = <<>>
        /\ reported' \in {reported, consumed}
    BY <1>11 DEF RealMeter!FailBefore, RealMeter!FinishAfter, RealMeter!HidClose
  <2> QED
    BY <1>1, <1>5, <2>1
<1> QED
  BY <1>6, <1>7, <1>8, <1>9, <1>10, <1>11 DEF RealMeter!Next

LEMMA InaTypes ==
  ASSUME UsedInv, InaMeter!Next
  PROVE  consumed' \in Nat /\ reported' \in Int
<1>1. consumed \in Nat /\ reported \in Int
  BY DEF UsedInv, TypeOK
<1>2. consumed' \in {0, consumed, consumed + 1} /\ reported' \in {0, reported, consumed}
  BY DEF InaMeter!Next, InaMeter!Main, InaMeter!Monitor, InaMeter!ReadBefore, InaMeter!OpenSensor,
    InaMeter!CreateMonitor, InaMeter!ReadAfter, InaMeter!Signal, InaMeter!Join,
    InaMeter!StopSensors, InaMeter!Wait, InaMeter!Expire, InaMeter!Spurious, InaMeter!WaitError,
    InaMeter!Stop, InaMeter!Sample, InaMeter!SampleFails, InaMeter!Moves, InaMeter!inaVars
<1> QED
  BY <1>1, <1>2

LEMMA SameTypes ==
  ASSUME TypeOK
  PROVE  /\ UNCHANGED realVars => RealMeter!TypeOK'
         /\ UNCHANGED msrVars => MsrMeter!TypeOK'
         /\ UNCHANGED perfVars => PerfMeter!TypeOK'
<1>1. UNCHANGED realVars => RealMeter!TypeOK'
  BY DEF TypeOK, realVars, RealMeter!TypeOK
<1>2. UNCHANGED msrVars => MsrMeter!TypeOK'
  BY Constants DEF TypeOK, msrVars, MsrMeter!TypeOK
<1>3. UNCHANGED perfVars => PerfMeter!TypeOK'
  BY Constants DEF TypeOK, perfVars, PerfMeter!TypeOK
<1> QED
  BY <1>1, <1>2, <1>3

LEMMA UsedInitially == Init => UsedInv
<1> SUFFICES ASSUME Init PROVE UsedInv
  OBVIOUS
<1>1. StateInv
  BY MetersInitially DEF MetersInv
<1>2. /\ MaxUsed \in Nat /\ MaxSessions \in Nat /\ core_count \in Nat
  BY MetersAssumption
<1>3. used = [c \in Cores |-> 0] /\ reported = 0 /\ consumed = 0 /\ session = 0
  BY DEF Init
<1>4. used \in [Cores -> 0..MaxUsed] /\ used \in Uses
  BY <1>2, <1>3 DEF Uses
<1>5. /\ handle = "none" /\ toDev = <<>> /\ fromDev = <<>>
      /\ device \in [running : BOOLEAN, since : {0}, energy : {0}]
  BY DEF Init, RealMeter!Init
<1>6. RealMeter!TypeOK
  BY <1>5, MessageTypes DEF RealMeter!TypeOK
<1>7. MsrMeter!TypeOK
  BY DEF Init, MsrMeter!Init, MsrMeter!TypeOK
<1>8. PerfMeter!TypeOK /\ \A c \in Cores : opened[c] = 0
  BY Constants DEF Init, PerfMeter!Init, PerfMeter!TypeOK
<1>9. TypeOK
  <2>1. InaMeter!TypeOK
    BY <1>1, Constants DEF StateInv, InaMeter!TypeOK, Live
  <2> QED
    BY <1>1, <1>2, <1>3, <1>4, <1>6, <1>7, <1>8, <2>1 DEF TypeOK, StateInv
<1>10. device.since = 0 /\ Sum(used) \in Nat
  BY <1>4, <1>5, UseTypes
<1> QED
  BY <1>3, <1>8, <1>9, <1>10 DEF UsedInv, Sum

LEMMA UsedStep ==
  ASSUME MetersInv, UsedInv, [Next]_vars
  PROVE  UsedInv'
<1>1. StateInv /\ StateInv'
  BY MetersStep DEF MetersInv
<1>2. InaMeter!TypeOK'
  BY <1>1, Constants DEF StateInv, InaMeter!TypeOK, Live
<1>3. TypeOK /\ (\A c \in Cores : opened[c] <= used[c]) /\ device.since <= SumFunction(used)
  BY DEF UsedInv
<1>4. SUFFICES /\ used' \in [Cores -> 0..MaxUsed] /\ reported' \in Int /\ consumed' \in Nat
               /\ session' \in 0..MaxSessions
               /\ RealMeter!TypeOK' /\ MsrMeter!TypeOK' /\ PerfMeter!TypeOK'
               /\ \A c \in Cores : opened'[c] <= used'[c]
               /\ device'.since <= SumFunction(used')
  BY <1>1, <1>2 DEF UsedInv, TypeOK, StateInv
<1>5. MaxSessions \in Nat
  BY MetersAssumption
<1>6. CASE Step
  <2>1. used' = used /\ MeterStep /\ session' \in 0..MaxSessions
    <3>1. session \in 0..MaxSessions
      BY <1>3 DEF TypeOK
    <3> QED
      BY <1>5, <1>6, <3>1 DEF Step, Note
  <2>2. used' \in [Cores -> 0..MaxUsed] /\ reported \in Int /\ consumed \in Nat /\ i \in Nat
    BY <1>3, <2>1 DEF TypeOK
  <2>3. CASE meter = "ina"
    <3>1. InaMeter!Next /\ UNCHANGED <<realVars, msrVars, perfVars>>
      BY <2>1, <2>3 DEF MeterStep
    <3>2. opened' = opened /\ device' = device
      BY <3>1 DEF perfVars, realVars
    <3> QED
      BY <1>3, <2>1, <2>2, <3>1, <3>2, InaTypes, SameTypes
  <2>4. CASE meter = "smartreal"
    <3>1. RealMeter!Next /\ UNCHANGED <<msrVars, perfVars>>
      BY <2>1, <2>4 DEF MeterStep
    <3>2. opened' = opened
      BY <3>1 DEF perfVars
    <3> QED
      BY <1>1, <1>3, <2>1, <2>2, <3>1, <3>2, RealTypes, SameTypes
  <2>5. CASE meter = "msr"
    <3>1. MsrMeter!Next /\ UNCHANGED <<consumed, realVars, perfVars>>
      BY <2>1, <2>5 DEF MeterStep
    <3>2. opened' = opened /\ device' = device /\ consumed' = consumed
      BY <3>1 DEF perfVars, realVars
    <3> QED
      BY <1>3, <2>1, <2>2, <3>1, <3>2, MsrTypes, SameTypes
  <2>6. CASE meter = "perf"
    <3>1. PerfMeter!Next /\ UNCHANGED <<consumed, realVars, msrVars>>
      BY <2>1, <2>6 DEF MeterStep
    <3>2. device' = device /\ consumed' = consumed
      BY <3>1 DEF realVars
    <3> QED
      BY <1>3, <2>1, <2>2, <3>1, <3>2, PerfTypes, SameTypes
  <2>7. CASE meter = "off"
    <3>1. /\ UNCHANGED <<consumed, realVars, msrVars, perfVars>> /\ reported' \in {0, reported}
      BY <2>1, <2>7 DEF MeterStep, NoReadBefore, NoReadAfter
    <3>2. opened' = opened /\ device' = device /\ consumed' = consumed
      BY <3>1 DEF perfVars, realVars
    <3> QED
      BY <1>3, <2>1, <2>2, <3>1, <3>2, SameTypes
  <2> QED
    BY <1>1, <2>3, <2>4, <2>5, <2>6, <2>7 DEF StateInv
<1>7. CASE Consume
  <2>1. /\ UNCHANGED <<reported, consumed, session, realVars, msrVars, perfVars>>
        /\ opened' = opened /\ device' = device
    BY <1>7 DEF Consume, realVars, perfVars
  <2>2. PICK c \in Cores : used[c] < MaxUsed /\ used' = [used EXCEPT ![c] = @ + 1]
    BY <1>7 DEF Consume
  <2>3. used \in [Cores -> 0..MaxUsed] /\ MaxUsed \in Nat
    BY <1>3, MetersAssumption DEF TypeOK
  <2>4. used' \in [Cores -> 0..MaxUsed] /\ \A d \in Cores : used[d] <= used'[d]
    BY <2>2, <2>3
  <2>5. used \in Uses /\ used' \in Uses
    BY <2>3, <2>4 DEF Uses
  <2>6. Sum(used) <= Sum(used') /\ Sum(used) \in Nat /\ Sum(used') \in Nat
    BY <2>4, <2>5, UseTypes, SumsBelow DEF Below
  <2>7. opened \in [Cores -> Nat] /\ device.since \in Nat
    BY <1>3, Constants DEF TypeOK, PerfMeter!TypeOK, RealMeter!TypeOK
  <2>8. \A d \in Cores : opened'[d] <= used'[d]
    BY <1>3, <2>1, <2>4, <2>5, <2>7 DEF Uses
  <2>9. device'.since <= SumFunction(used')
    BY <1>3, <2>1, <2>6, <2>7 DEF Sum
  <2>10. RealMeter!TypeOK' /\ MsrMeter!TypeOK' /\ PerfMeter!TypeOK'
    BY <1>3, <2>1, SameTypes
  <2> QED
    BY <1>3, <2>1, <2>4, <2>8, <2>9, <2>10 DEF TypeOK
<1>8. CASE Abandon \/ Finished \/ UNCHANGED vars
  <2>1. /\ UNCHANGED <<used, reported, consumed, session, realVars, msrVars, perfVars>>
        /\ opened' = opened /\ device' = device
    BY <1>8 DEF Abandon, Finished, vars, realVars, msrVars, perfVars
  <2> QED
    BY <1>3, <2>1, SameTypes DEF TypeOK
<1> QED
  BY <1>6, <1>7, <1>8 DEF Next

\* The variables of all meters have their types, whatever fails.
THEOREM Types == Spec => []TypeOK
<1>1. Spec => []UsedInv
  BY UsedInitially, UsedStep, Invariant, PTL DEF Spec
<1>2. UsedInv => TypeOK
  BY DEF UsedInv
<1> QED
  BY <1>1, <1>2, PTL

-----------------------------------------------------------------------------
(* What is reported.                                                       *)

\* Where read_before is, and the meters whose measurements are noted in `spent'.
Opening == pc \in {"before", "status", "poll", "start", "ready"}
Counting == ~faulty /\ meter \in {"msr", "perf", "smartreal"}

\* The four moments of a measurement without faults lie one after the other.
SpentInv ==
  /\ spent \in [called : Uses, opened : Uses, closing : Uses, done : Uses, off : BOOLEAN]
  /\ Counting =>
       /\ Below(spent.called, used)
       /\ ~Opening => Below(spent.called, spent.opened) /\ Below(spent.opened, used)
       /\ ~Opening /\ pc # "work" => Below(spent.opened, spent.closing) /\ Below(spent.closing, used)
       /\ pc = "idle" => Below(spent.closing, spent.done) /\ Below(spent.done, used)

\* msr: each loop has opened, or not yet closed, the files it says it has; what it has
\* added up lies between the counters of its cores when it began and those of now.
MsrValues ==
  meter = "msr" /\ ~faulty =>
    /\ \A c \in Cores : units[c] = 1
    /\ pc = "before" => i <= core_count /\ \A c \in Cores : c < i => fd[c] = "open"
    /\ pc = "work" => \A c \in Cores : fd[c] = "open"
    /\ pc = "after" => i <= core_count /\ \A c \in Cores : c >= i => fd[c] = "open"
    /\ SameTurn(spent.called, used) =>
         /\ pc = "before" =>
              /\ SumTo(Counters(spent.called), i) <= pp0_before
              /\ pp0_before <= SumTo(Counters(used), i)
         /\ pc \in {"work", "after"} =>
              /\ Sum(Counters(spent.called)) <= pp0_before
              /\ pp0_before <= Sum(Counters(spent.opened))
         /\ pc = "after" =>
              /\ SumTo(Counters(spent.closing), i) <= pp0_after
              /\ pp0_after <= SumTo(Counters(used), i)

\* perf: the same of its events, which start to count between the call of read_before
\* and its return.
PerfValues ==
  meter = "perf" /\ ~faulty =>
    /\ pc # "idle" => known
    /\ pc = "before" =>
         /\ i <= core_count
         /\ \A c \in Cores : c < i => event[c] = "open" /\ spent.called[c] <= opened[c]
    /\ pc \in {"work", "after"} => Below(spent.called, opened) /\ Below(opened, spent.opened)
    /\ pc = "work" => \A c \in Cores : event[c] = "open"
    /\ pc = "after" =>
         /\ i <= core_count /\ \A c \in Cores : c >= i => event[c] = "open"
         /\ SumTo(Minus(spent.closing, opened), i) <= perf_consumed
         /\ perf_consumed <= SumTo(Minus(used, opened), i)

\* smartreal: the device has started between the call of read_before and its return,
\* and what it measured is what is read; e is right with the cores at u.
Measured(s, u, e) ==
  /\ Sum(s.closing) - Sum(s.opened) <= e
  /\ e <= Sum(u) - Sum(s.called)

RealValues ==
  meter = "smartreal" /\ ~faulty /\ spent.off =>
    /\ pc \in {"status", "poll"} => ~device.running
    /\ pc \in {"ready", "work", "stop", "data"} /\ device.running =>
         Sum(spent.called) <= device.since
    /\ pc \in {"work", "stop", "data"} /\ device.running => device.since <= Sum(spent.opened)
    /\ pc \in {"data", "await"} /\ ~device.running => Measured(spent, used, device.energy)
    /\ pc = "await" /\ fromDev # <<>> => Measured(spent, used, Head(fromDev).energy)
    /\ pc = "close" => Measured(spent, used, consumed)

\* Where read_after is.
Ending == pc \in {"after", "stop", "data", "await", "close"}

\* Without faults the calls and returns of both functions follow each other.
LEMMA Transitions ==
  ASSUME MetersInv, MetersInv', MeterStep, Counting, UNCHANGED <<meter, faulty>>
  PROVE  \/ pc' = pc
         \/ pc = "idle" /\ Opening'
         \/ Opening /\ Opening'
         \/ Opening /\ pc' = "work"
         \/ pc = "work" /\ Ending'
         \/ Ending /\ Ending'
         \/ Ending /\ pc' = "idle"
<1> USE DEF Opening, Ending
<1>1. CASE meter = "msr"
  <2>1. MsrMeter!Next
    BY <1>1 DEF MeterStep
  <2> QED
    BY <2>1 DEF MsrMeter!Next, MsrMeter!ReadBefore, MsrMeter!Before, MsrMeter!ReturnBefore,
      MsrMeter!ReadAfter, MsrMeter!After, MsrMeter!ReturnAfter
<1>2. CASE meter = "perf"
  <2>1. PerfMeter!Next
    BY <1>2 DEF MeterStep
  <2> QED
    BY <2>1 DEF PerfMeter!Next, PerfMeter!ReadBefore, PerfMeter!Before, PerfMeter!ReturnBefore,
      PerfMeter!ReadAfter, PerfMeter!After, PerfMeter!ReturnAfter
<1>3. CASE meter = "smartreal"
  <2>1. RealMeter!Next
    BY <1>3 DEF MeterStep
  <2>2. ~faulty /\ meter' = "smartreal" /\ ~faulty'
    BY <1>3 DEF Counting
  <2>3. pc' # "fail" /\ (pc = "work" => initialized)
    BY <1>3, <2>2 DEF MetersInv, FaultlessInv
  <2>4. CASE RealMeter!StatusPoll \/ RealMeter!DataPoll
    <3>1. ASSUME NEW kind, NEW found, RealMeter!Poll(kind, found) PROVE pc' = pc \/ found
      BY <3>1 DEF RealMeter!Poll
    <3>2. CASE RealMeter!StatusPoll
      <4>1. pc = "poll" /\ (pc' \in {"fail", pc} \/ pc' = RealMeter!AfterStatus(Head(fromDev).on))
        BY <3>1, <3>2 DEF RealMeter!StatusPoll
      <4> QED
        BY <2>3, <4>1 DEF RealMeter!AfterStatus
    <3>3. CASE RealMeter!DataPoll
      <4>1. pc = "await" /\ pc' \in {"idle", "close", pc}
        BY <3>1, <3>3 DEF RealMeter!DataPoll, RealMeter!GiveUp
      <4> QED
        BY <4>1
    <3> QED
      BY <2>4, <3>2, <3>3
  <2>5. CASE RealMeter!Device
    BY <2>5 DEF RealMeter!Device
  <2>6. CASE RealMeter!ReadBefore \/ RealMeter!StatusRequest \/ RealMeter!ToggleStart
    BY <2>2, <2>6 DEF RealMeter!ReadBefore, RealMeter!StatusRequest, RealMeter!ToggleStart,
      RealMeter!Ignored
  <2>7. CASE RealMeter!Ready \/ RealMeter!FailBefore
    <3>1. pc # "fail"
      BY <1>3, <2>2 DEF MetersInv, FaultlessInv
    <3> QED
      BY <2>7, <3>1 DEF RealMeter!Ready, RealMeter!FailBefore
  <2>8. CASE RealMeter!ReadAfter \/ RealMeter!StopDevice
    BY <2>3, <2>8 DEF RealMeter!ReadAfter, RealMeter!StopDevice
  <2>9. CASE RealMeter!DataRequest \/ RealMeter!FinishAfter
    BY <2>9 DEF RealMeter!DataRequest, RealMeter!FinishAfter, RealMeter!GiveUp
  <2> QED
    BY <2>1, <2>4, <2>5, <2>6, <2>7, <2>8, <2>9 DEF RealMeter!Next
<1> QED
  BY <1>1, <1>2, <1>3 DEF Counting

\* What Note writes down in a run without faults.
LEMMA Noted ==
  ASSUME Note, ~faulty
  PROVE  /\ spent'.called = IF pc = "idle" /\ pc' # "idle" THEN used ELSE spent.called
         /\ spent'.opened = IF pc # "work" /\ pc' = "work" THEN used ELSE spent.opened
         /\ spent'.closing = IF pc = "work" /\ pc' # "work" THEN used ELSE spent.closing
         /\ spent'.done = IF pc # "idle" /\ pc' = "idle" THEN used ELSE spent.done
         /\ spent'.off = IF pc = "idle" /\ pc' # "idle" THEN ~device.running ELSE spent.off
         /\ spent' = [called |-> spent'.called, opened |-> spent'.opened,
                      closing |-> spent'.closing, done |-> spent'.done, off |-> spent'.off]
BY DEF Note

LEMMA SpentInitially == Init => SpentInv
<1> SUFFICES ASSUME Init PROVE SpentInv
  OBVIOUS
<1>1. used \in Uses /\ \A c \in Cores : used[c] = 0
  BY DEF Init, Uses
<1>2. spent = [called |-> used, opened |-> used, closing |-> used, done |-> used, off |-> TRUE]
  BY DEF Init
<1>3. Below(used, used)
  BY <1>1 DEF Below
<1> QED
  BY <1>1, <1>2, <1>3 DEF SpentInv

LEMMA SpentStep ==
  ASSUME MetersInv, UsedInv, SpentInv, [Next]_vars
  PROVE  SpentInv'
<1>1. MetersInv'
  BY MetersStep
<1>2. used \in Uses /\ device.running \in BOOLEAN
  BY UsedFacts DEF UsedInv, TypeOK, RealMeter!TypeOK
<1>3. Below(used, used)
  BY <1>2 DEF Below, Uses
<1>4. meter' = meter /\ faulty' = faulty
  BY DEF Next, Step, Abandon, Consume, Finished, vars
<1>5. CASE Step
  <2>1. used' = used /\ MeterStep /\ Note
    BY <1>5 DEF Step
  <2>2. CASE faulty
    <3>1. spent' = spent
      BY <2>1, <2>2 DEF Note
    <3> QED
      BY <1>4, <2>2, <3>1 DEF SpentInv, Counting
  <2>3. CASE ~faulty
    <3>1. spent' \in [called : Uses, opened : Uses, closing : Uses, done : Uses, off : BOOLEAN]
      <4>1. /\ spent'.called \in Uses /\ spent'.opened \in Uses /\ spent'.closing \in Uses
            /\ spent'.done \in Uses /\ spent'.off \in BOOLEAN
        BY <1>2, <2>1, <2>3, Noted DEF SpentInv
      <4> QED
        BY <2>1, <2>3, <4>1, Noted
    <3>2. ASSUME Counting
          PROVE  /\ Below(spent'.called, used)
                 /\ ~Opening' => Below(spent'.called, spent'.opened) /\ Below(spent'.opened, used)
                 /\ ~Opening' /\ pc' # "work" =>
                      Below(spent'.opened, spent'.closing) /\ Below(spent'.closing, used)
                 /\ pc' = "idle" => Below(spent'.closing, spent'.done) /\ Below(spent'.done, used)
      <4> DEFINE new == spent'
      <4>1. \/ pc' = pc
            \/ pc = "idle" /\ Opening'
            \/ Opening /\ Opening'
            \/ Opening /\ pc' = "work"
            \/ pc = "work" /\ Ending'
            \/ Ending /\ Ending'
            \/ Ending /\ pc' = "idle"
        BY <1>1, <1>4, <2>1, <3>2, Transitions
      <4>2. /\ new.called = IF pc = "idle" /\ pc' # "idle" THEN used ELSE spent.called
            /\ new.opened = IF pc # "work" /\ pc' = "work" THEN used ELSE spent.opened
            /\ new.closing = IF pc = "work" /\ pc' # "work" THEN used ELSE spent.closing
            /\ new.done = IF pc # "idle" /\ pc' = "idle" THEN used ELSE spent.done
        BY <2>1, <2>3, Noted
      <4>3. /\ Below(spent.called, used)
            /\ ~Opening => Below(spent.called, spent.opened) /\ Below(spent.opened, used)
            /\ ~Opening /\ pc # "work" =>
                 Below(spent.opened, spent.closing) /\ Below(spent.closing, used)
            /\ pc = "idle" => Below(spent.closing, spent.done) /\ Below(spent.done, used)
        BY <3>2 DEF SpentInv
      <4> HIDE DEF new
      <4> SUFFICES /\ Below(new.called, used)
                   /\ ~Opening' => Below(new.called, new.opened) /\ Below(new.opened, used)
                   /\ ~Opening' /\ pc' # "work" =>
                        Below(new.opened, new.closing) /\ Below(new.closing, used)
                   /\ pc' = "idle" => Below(new.closing, new.done) /\ Below(new.done, used)
        BY DEF new
      <4>4. /\ Opening <=> pc \in {"before", "status", "poll", "start", "ready"}
            /\ Opening' <=> pc' \in {"before", "status", "poll", "start", "ready"}
            /\ Ending <=> pc \in {"after", "stop", "data", "await", "close"}
            /\ Ending' <=> pc' \in {"after", "stop", "data", "await", "close"}
        BY DEF Opening, Ending
      <4>5. CASE pc' = pc
        BY <4>2, <4>3, <4>4, <4>5
      <4>6. CASE pc = "idle" /\ Opening'
        BY <1>3, <4>2, <4>4, <4>6
      <4>7. CASE Opening /\ Opening'
        BY <4>2, <4>3, <4>4, <4>7
      <4>8. CASE Opening /\ pc' = "work"
        BY <1>3, <4>2, <4>3, <4>4, <4>8
      <4>9. CASE pc = "work" /\ Ending'
        BY <1>3, <4>2, <4>3, <4>4, <4>9
      <4>10. CASE Ending /\ Ending'
        BY <4>2, <4>3, <4>4, <4>10
      <4>11. CASE Ending /\ pc' = "idle"
        BY <1>3, <4>2, <4>3, <4>4, <4>11
      <4> QED
        BY <4>1, <4>5, <4>6, <4>7, <4>8, <4>9, <4>10, <4>11
    <3>3. Counting' => Counting
      BY <1>4 DEF Counting
    <3> QED
      BY <2>1, <3>1, <3>2, <3>3 DEF SpentInv
  <2> QED
    BY <2>2, <2>3
<1>6. CASE Consume
  <2>1. spent' = spent /\ pc' = pc /\ pc # "idle"
    BY <1>6 DEF Consume
  <2>2. PICK c \in Cores : used' = [used EXCEPT ![c] = @ + 1]
    BY <1>6 DEF Consume
  <2>3. \A f \in Uses : Below(f, used) => Below(f, used')
    <3>1. \A d \in Cores : used[d] \in Nat /\ used'[d] \in Nat /\ used[d] <= used'[d]
      BY <1>2, <2>2 DEF Uses
    <3>2. ASSUME NEW f \in Uses, Below(f, used), NEW d \in Cores PROVE f[d] <= used'[d]
      BY <3>1, <3>2 DEF Below, Uses
    <3> QED
      BY <3>2 DEF Below
  <2>4. (Opening' <=> Opening) /\ (Counting' <=> Counting)
    BY <1>4, <2>1 DEF Opening, Counting
  <2> QED
    BY <2>1, <2>3, <2>4 DEF SpentInv
<1>7. CASE Abandon
  <2>1. spent' = spent /\ faulty
    BY <1>7 DEF Abandon
  <2> QED
    BY <1>4, <2>1 DEF SpentInv, Counting
<1>8. CASE Finished \/ UNCHANGED vars
  <2>1. UNCHANGED <<spent, pc, used, meter, faulty>>
    BY <1>8 DEF Finished, vars
  <2> QED
    BY <2>1 DEF SpentInv, Counting, Opening, Below
<1> QED
  BY <1>5, <1>6, <1>7, <1>8 DEF Next

\* Turns for all cores.
LEMMA Between ==
  ASSUME NEW f \in Uses, NEW g \in Uses, NEW h \in Uses, Below(f, g), Below(g, h), SameTurn(f, h)
  PROVE  /\ SameTurn(f, g) /\ SameTurn(g, h)
         /\ Below(Counters(f), Counters(g)) /\ Below(Counters(g), Counters(h))
<1>1. ASSUME NEW c \in Cores
      PROVE  /\ f[c] \in Nat /\ g[c] \in Nat /\ h[c] \in Nat /\ f[c] <= g[c] /\ g[c] <= h[c]
             /\ f[c] \div Wrap = h[c] \div Wrap
  BY DEF Uses, Below, SameTurn
<1>2. ASSUME NEW c \in Cores
      PROVE  f[c] \div Wrap = g[c] \div Wrap /\ f[c] % Wrap <= g[c] % Wrap
  BY <1>1, Turns
<1>3. ASSUME NEW c \in Cores
      PROVE  g[c] \div Wrap = h[c] \div Wrap /\ g[c] % Wrap <= h[c] % Wrap
  <2>1. g[c] \div Wrap = h[c] \div Wrap
    BY <1>1, <1>2
  <2> QED
    BY <1>1, <2>1, Turns
<1> QED
  BY <1>2, <1>3 DEF SameTurn, Below, Counters

\* The types of what is noted.
LEMMA SpentFacts ==
  ASSUME UsedInv, SpentInv
  PROVE  /\ used \in Uses /\ spent.called \in Uses /\ spent.opened \in Uses
         /\ spent.closing \in Uses /\ spent.done \in Uses /\ spent.off \in BOOLEAN
         /\ i \in Nat /\ core_count \in Nat /\ \A c \in Cores : c \in Nat
BY UsedFacts, CoresFinite DEF UsedInv, SpentInv, TypeOK

\* One turn of the loops of msr: the counter of core n is added to what lies between
\* the counters of the cores before it at f and at g, where g is now.
LEMMA MsrTurn ==
  ASSUME NEW f \in Uses, NEW g \in Uses, NEW n \in Cores, NEW x \in Nat,
         Below(f, g), SameTurn(f, g),
         SumTo(Counters(f), n) <= x, x <= SumTo(Counters(g), n)
  PROVE  /\ SumTo(Counters(f), n + 1) <= x + (g[n] % Wrap)
         /\ x + (g[n] % Wrap) <= SumTo(Counters(g), n + 1)
<1>1. Below(g, g)
  BY DEF Below, Uses
<1>2. Below(Counters(f), Counters(g))
  BY <1>1, Between
<1>3. Counters(f)[n] <= Counters(g)[n] /\ Counters(g)[n] = g[n] % Wrap
  BY <1>2 DEF Below, Counters
<1>4. /\ SumTo(Counters(f), n + 1) = SumTo(Counters(f), n) + Counters(f)[n]
      /\ SumTo(Counters(g), n + 1) = SumTo(Counters(g), n) + Counters(g)[n]
      /\ SumTo(Counters(f), n) \in Int /\ SumTo(Counters(g), n) \in Int
      /\ Counters(f)[n] \in Int /\ Counters(g)[n] \in Int
  <2>1. Counters(f) \in [Cores -> Int] /\ Counters(g) \in [Cores -> Int] /\ n \in 0..core_count
    <3>1. Counters(f) \in [Cores -> Int]
      BY UseTypes
    <3>2. Counters(g) \in [Cores -> Int]
      BY UseTypes
    <3> QED
      BY <3>1, <3>2, CoresFinite
  <2> QED
    BY <2>1, CoreSums
<1> HIDE DEF Counters
<1> QED
  BY <1>3, <1>4

\* A step of msr keeps the bounds, and the last one reports what they say.
LEMMA MsrReport ==
  ASSUME MetersInv, UsedInv, SpentInv, MsrValues, meter = "msr", ~faulty,
         MsrMeter!Next, Note, UNCHANGED <<meter, faulty, used>>
  PROVE  MsrValues' /\ ReportsThisMeasurement'
<1> DEFINE new == spent'
<1>1. /\ used \in Uses /\ spent.called \in Uses /\ spent.opened \in Uses
      /\ spent.closing \in Uses /\ i \in Nat /\ core_count \in Nat
      /\ (\A c \in Cores : c \in Nat) /\ pp0_before \in Nat /\ pp0_after \in Nat
      /\ core_count \in 0..core_count /\ Cores = 0..core_count - 1
      /\ pc \in {"idle", "before", "work", "after"}
  <2>1. pp0_before \in Nat /\ pp0_after \in Nat /\ pc \in {"idle", "before", "work", "after"}
    BY DEF UsedInv, TypeOK, MsrMeter!TypeOK, MetersInv, MsrInv
  <2> QED
    BY <2>1, SpentFacts, CoresFinite
<1>2. /\ new.called = IF pc = "idle" /\ pc' # "idle" THEN used ELSE spent.called
      /\ new.opened = IF pc # "work" /\ pc' = "work" THEN used ELSE spent.opened
      /\ new.closing = IF pc = "work" /\ pc' # "work" THEN used ELSE spent.closing
      /\ new.done = IF pc # "idle" /\ pc' = "idle" THEN used ELSE spent.done
  BY Noted
<1>3. /\ Below(spent.called, used)
      /\ pc \in {"work", "after"} => Below(spent.called, spent.opened) /\ Below(spent.opened, used)
      /\ pc = "after" => Below(spent.opened, spent.closing) /\ Below(spent.closing, used)
  BY DEF SpentInv, Counting, Opening
<1>4. /\ \A c \in Cores : units[c] = 1
      /\ pc = "before" => i <= core_count /\ \A c \in Cores : c < i => fd[c] = "open"
      /\ pc = "work" => \A c \in Cores : fd[c] = "open"
      /\ pc = "after" => i <= core_count /\ \A c \in Cores : c >= i => fd[c] = "open"
  BY DEF MsrValues
<1>5. SameTurn(spent.called, used) =>
         /\ pc = "before" =>
              /\ SumTo(Counters(spent.called), i) <= pp0_before
              /\ pp0_before <= SumTo(Counters(used), i)
         /\ pc \in {"work", "after"} =>
              /\ Sum(Counters(spent.called)) <= pp0_before
              /\ pp0_before <= Sum(Counters(spent.opened))
         /\ pc = "after" =>
              /\ SumTo(Counters(spent.closing), i) <= pp0_after
              /\ pp0_after <= SumTo(Counters(used), i)
  BY DEF MsrValues
<1>6. \A f \in Uses : SumTo(Counters(f), 0) = 0 /\ Sum(Counters(f)) = SumTo(Counters(f), core_count)
                      /\ Below(f, f) /\ SameTurn(f, f)
  <2>1. \A f \in Uses : Below(f, f) /\ SameTurn(f, f)
    BY DEF Uses, Below, SameTurn
  <2> QED
    BY <2>1, UseTypes, CoreSums
<1>7. units \in [Cores -> {1, Coarse}] /\ fd \in [Cores -> {"none", "open", "failed", "closed"}]
  BY Constants DEF UsedInv, TypeOK, MsrMeter!TypeOK
<1> DEFINE Values ==
      /\ \A c \in Cores : units'[c] = 1
      /\ pc' = "before" => i' <= core_count /\ \A c \in Cores : c < i' => fd'[c] = "open"
      /\ pc' = "work" => \A c \in Cores : fd'[c] = "open"
      /\ pc' = "after" => i' <= core_count /\ \A c \in Cores : c >= i' => fd'[c] = "open"
    Bounds ==
      SameTurn(new.called, used) =>
         /\ pc' = "before" =>
              /\ SumTo(Counters(new.called), i') <= pp0_before'
              /\ pp0_before' <= SumTo(Counters(used), i')
         /\ pc' \in {"work", "after"} =>
              /\ Sum(Counters(new.called)) <= pp0_before'
              /\ pp0_before' <= Sum(Counters(new.opened))
         /\ pc' = "after" =>
              /\ SumTo(Counters(new.closing), i') <= pp0_after'
              /\ pp0_after' <= SumTo(Counters(used), i')
    Right ==
      pc' = "idle" /\ SameTurn(new.called, new.done) =>
         /\ Sum(new.closing) - Sum(new.opened) <= reported'
         /\ reported' <= Sum(new.done) - Sum(new.called)
<1>8. SUFFICES Values /\ Bounds /\ Right
  <2>1. Values /\ Bounds => MsrValues'
    BY DEF MsrValues
  <2>2. ~Wrapped' <=> SameTurn(new.called, new.done)
    BY DEF Wrapped, SameTurn
  <2>3. Right => ReportsThisMeasurement'
    BY <2>2 DEF ReportsThisMeasurement, Sum
  <2> QED
    BY <2>1, <2>3
<1> HIDE DEF new
<1>9. CASE MsrMeter!ReadBefore
  <2>1. /\ pc = "idle" /\ pc' = "before" /\ i' = 0 /\ pp0_before' = 0 /\ units' = units
        /\ new.called = used
    BY <1>2, <1>9 DEF MsrMeter!ReadBefore
  <2> QED
    BY <1>1, <1>4, <1>6, <2>1
<1>10. CASE MsrMeter!Before
  <2>1. PICK d \in (IF faulty THEN {"open", "failed"} ELSE {"open"}) :
          /\ fd' = [fd EXCEPT ![i] = d]
          /\ \E unit, energy \in MsrMeter!MayRead(d) :
               /\ units' = [units EXCEPT ![i] = IF unit THEN 1 ELSE Coarse]
               /\ pp0_before' = pp0_before + MsrMeter!ReadMsr(i, energy) * units'[i]
    BY <1>10, Zenon DEF MsrMeter!Before
  <2>2. d = "open" /\ MsrMeter!MayRead(d) = {TRUE}
    BY DEF MsrMeter!MayRead
  <2>3. /\ pc = "before" /\ i < core_count /\ i' = i + 1 /\ pc' = pc /\ reported' = reported
        /\ new.called = spent.called /\ new.opened = spent.opened /\ new.closing = spent.closing
    BY <1>2, <1>10 DEF MsrMeter!Before
  <2>4. i \in Cores
    BY <1>1, <2>3
  <2>5. units' = [units EXCEPT ![i] = 1] /\ pp0_before' = pp0_before + (used[i] % Wrap) * units'[i]
    BY <2>1, <2>2 DEF MsrMeter!ReadMsr, MsrMeter!Register
  <2>6. (\A c \in Cores : units'[c] = 1) /\ pp0_before' = pp0_before + (used[i] % Wrap)
    <3>1. \A c \in Cores : units'[c] = 1
      BY <1>4, <1>7, <2>4, <2>5
    <3>2. used[i] % Wrap \in Int
      BY <1>1, <2>4, MetersAssumption DEF Uses
    <3> QED
      BY <2>4, <2>5, <3>1, <3>2
  <2>7. Values
    BY <1>1, <1>4, <1>7, <2>1, <2>2, <2>3, <2>4, <2>6
  <2>8. Bounds
    <3> SUFFICES ASSUME SameTurn(spent.called, used)
                 PROVE  /\ SumTo(Counters(spent.called), i + 1) <= pp0_before'
                        /\ pp0_before' <= SumTo(Counters(used), i + 1)
      BY <2>3
    <3> QED
      BY <1>1, <1>3, <1>5, <2>3, <2>4, <2>6, MsrTurn
  <2> QED
    BY <2>3, <2>7, <2>8
<1>11. CASE MsrMeter!ReturnBefore
  <2>1. /\ pc = "before" /\ i = core_count /\ pc' = "work" /\ units' = units /\ fd' = fd
        /\ pp0_before' = pp0_before
        /\ new.called = spent.called /\ new.opened = used
    BY <1>2, <1>11 DEF MsrMeter!ReturnBefore, MsrMeter!msrVars
  <2>2. Values
    BY <1>1, <1>4, <2>1
  <2>3. Bounds
    BY <1>1, <1>5, <1>6, <2>1
  <2> QED
    BY <2>1, <2>2, <2>3
<1>12. CASE MsrMeter!ReadAfter
  <2>1. /\ pc = "work" /\ pc' = "after" /\ i' = 0 /\ pp0_after' = 0 /\ units' = units /\ fd' = fd
        /\ pp0_before' = pp0_before
        /\ new.called = spent.called /\ new.opened = spent.opened /\ new.closing = used
    BY <1>2, <1>12 DEF MsrMeter!ReadAfter
  <2>2. Values
    BY <1>1, <1>4, <2>1
  <2>3. Bounds
    BY <1>1, <1>5, <1>6, <2>1
  <2> QED
    BY <2>1, <2>2, <2>3
<1>13. CASE MsrMeter!After
  <2>1. /\ pc = "after" /\ i < core_count /\ i' = i + 1 /\ pc' = pc /\ units' = units
        /\ pp0_before' = pp0_before /\ fd' = [fd EXCEPT ![i] = "closed"]
        /\ \E energy \in MsrMeter!MayRead(fd[i]) :
             pp0_after' = pp0_after + MsrMeter!ReadMsr(i, energy) * units[i]
        /\ new.called = spent.called /\ new.opened = spent.opened /\ new.closing = spent.closing
    BY <1>2, <1>13 DEF MsrMeter!After
  <2>2. i \in Cores /\ fd[i] = "open" /\ units[i] = 1
    BY <1>1, <1>4, <2>1
  <2>3. MsrMeter!MayRead(fd[i]) = {TRUE}
    BY <2>2 DEF MsrMeter!MayRead
  <2>4. pp0_after' = pp0_after + (used[i] % Wrap)
    <3>1. used[i] % Wrap \in Int
      BY <1>1, <2>2, MetersAssumption DEF Uses
    <3>2. pp0_after' = pp0_after + (used[i] % Wrap) * units[i]
      BY <2>1, <2>3 DEF MsrMeter!ReadMsr, MsrMeter!Register
    <3>3. \A n \in Int : n * 1 = n
      OBVIOUS
    <3> QED
      BY <2>2, <3>1, <3>2, <3>3
  <2>5. Values
    BY <1>1, <1>4, <1>7, <2>1, <2>2
  <2>6. Bounds
    <3> SUFFICES ASSUME SameTurn(spent.called, used)
                 PROVE  /\ Sum(Counters(spent.called)) <= pp0_before
                        /\ pp0_before <= Sum(Counters(spent.opened))
                        /\ SumTo(Counters(spent.closing), i + 1) <= pp0_after'
                        /\ pp0_after' <= SumTo(Counters(used), i + 1)
      BY <2>1
    <3>1. Below(spent.called, spent.closing)
      <4>1. \A c \in Cores : spent.called[c] <= spent.opened[c] /\ spent.opened[c] <= spent.closing[c]
        BY <1>3, <2>1 DEF Below
      <4> QED
        <5>1. ASSUME NEW c \in Cores
              PROVE  spent.called[c] \in Nat /\ spent.opened[c] \in Nat /\ spent.closing[c] \in Nat
          BY <1>1 DEF Uses
        <5>2. ASSUME NEW c \in Cores PROVE spent.called[c] <= spent.closing[c]
          BY <4>1, <5>1
        <5> QED
          BY <5>2 DEF Below
    <3>2. SameTurn(spent.closing, used)
      BY <1>1, <1>3, <2>1, <3>1, Between
    <3> QED
      BY <1>1, <1>3, <1>5, <2>1, <2>2, <2>4, <3>2, MsrTurn
  <2> QED
    BY <2>1, <2>5, <2>6
<1>14. CASE MsrMeter!ReturnAfter
  <2>1. /\ pc = "after" /\ i = core_count /\ pc' = "idle" /\ units' = units
        /\ reported' = pp0_after - pp0_before
        /\ new.called = spent.called /\ new.opened = spent.opened /\ new.closing = spent.closing
        /\ new.done = used
    BY <1>2, <1>14 DEF MsrMeter!ReturnAfter, MsrMeter!msrVars
  <2>2. Values /\ Bounds
    BY <1>4, <2>1
  <2>3. Right
    <3> SUFFICES ASSUME SameTurn(spent.called, used)
                 PROVE  /\ Sum(spent.closing) - Sum(spent.opened) <= pp0_after - pp0_before
                        /\ pp0_after - pp0_before <= Sum(used) - Sum(spent.called)
      BY <2>1
    <3>1. /\ Sum(Counters(spent.called)) <= pp0_before
          /\ pp0_before <= Sum(Counters(spent.opened))
          /\ Sum(Counters(spent.closing)) <= pp0_after
          /\ pp0_after <= Sum(Counters(used))
      BY <1>1, <1>5, <1>6, <2>1
    <3>2. SameTurn(spent.opened, spent.closing)
      <4>1. SameTurn(spent.opened, used)
        BY <1>1, <1>3, <2>1, Between
      <4> QED
        BY <1>1, <1>3, <2>1, <4>1, Between
    <3>3. Sum(Counters(spent.closing)) - Sum(Counters(spent.opened)) = Sum(spent.closing) - Sum(spent.opened)
      BY <1>1, <3>2, CounterSums
    <3>4. Sum(Counters(used)) - Sum(Counters(spent.called)) = Sum(used) - Sum(spent.called)
      BY <1>1, CounterSums
    <3>5. \A f \in Uses : Sum(Counters(f)) \in Int
      BY UseTypes
    <3> QED
      BY <1>1, <3>1, <3>3, <3>4, <3>5
  <2> QED
    BY <2>2, <2>3
<1> QED
  BY <1>9, <1>10, <1>11, <1>12, <1>13, <1>14 DEF MsrMeter!Next

\* So does a step of perf.
LEMMA PerfReport ==
  ASSUME MetersInv, UsedInv, SpentInv, PerfValues, meter = "perf", ~faulty,
         PerfMeter!Next, Note, UNCHANGED <<meter, faulty, used>>
  PROVE  PerfValues' /\ ReportsThisMeasurement'
<1> DEFINE new == spent'
<1>1. /\ used \in Uses /\ spent.called \in Uses /\ spent.opened \in Uses
      /\ spent.closing \in Uses /\ i \in Nat /\ core_count \in Nat
      /\ (\A c \in Cores : c \in Nat) /\ perf_consumed \in Nat
      /\ core_count \in 0..core_count /\ Cores = 0..core_count - 1
      /\ pc \in {"idle", "before", "work", "after"}
  <2>1. perf_consumed \in Nat /\ pc \in {"idle", "before", "work", "after"}
    BY DEF UsedInv, TypeOK, PerfMeter!TypeOK, MetersInv, PerfInv
  <2> QED
    BY <2>1, SpentFacts, CoresFinite
<1>2. /\ new.called = IF pc = "idle" /\ pc' # "idle" THEN used ELSE spent.called
      /\ new.opened = IF pc # "work" /\ pc' = "work" THEN used ELSE spent.opened
      /\ new.closing = IF pc = "work" /\ pc' # "work" THEN used ELSE spent.closing
      /\ new.done = IF pc # "idle" /\ pc' = "idle" THEN used ELSE spent.done
  BY Noted
<1>3. /\ Below(spent.called, used)
      /\ pc \in {"work", "after"} => Below(spent.called, spent.opened) /\ Below(spent.opened, used)
      /\ pc = "after" => Below(spent.opened, spent.closing) /\ Below(spent.closing, used)
  BY DEF SpentInv, Counting, Opening
<1>4. /\ pc # "idle" => known
      /\ pc = "before" =>
           /\ i <= core_count
           /\ \A c \in Cores : c < i => event[c] = "open" /\ spent.called[c] <= opened[c]
      /\ pc \in {"work", "after"} => Below(spent.called, opened) /\ Below(opened, spent.opened)
      /\ pc = "work" => \A c \in Cores : event[c] = "open"
      /\ pc = "after" =>
           /\ i <= core_count /\ \A c \in Cores : c >= i => event[c] = "open"
           /\ SumTo(Minus(spent.closing, opened), i) <= perf_consumed
           /\ perf_consumed <= SumTo(Minus(used, opened), i)
  BY DEF PerfValues
<1>5. /\ opened \in Uses /\ event \in [Cores -> {"none", "open", "failed", "closed"}]
      /\ \A c \in Cores : opened[c] <= used[c]
  BY Constants DEF UsedInv, TypeOK, PerfMeter!TypeOK, Uses
<1> DEFINE Values ==
      /\ pc' # "idle" => known'
      /\ pc' = "before" =>
           /\ i' <= core_count
           /\ \A c \in Cores : c < i' => event'[c] = "open" /\ new.called[c] <= opened'[c]
      /\ pc' \in {"work", "after"} => Below(new.called, opened') /\ Below(opened', new.opened)
      /\ pc' = "work" => \A c \in Cores : event'[c] = "open"
      /\ pc' = "after" => i' <= core_count /\ \A c \in Cores : c >= i' => event'[c] = "open"
    Bounds ==
      pc' = "after" =>
        /\ SumTo(Minus(new.closing, opened'), i') <= perf_consumed'
        /\ perf_consumed' <= SumTo(Minus(used, opened'), i')
    Right ==
      pc' = "idle" =>
         /\ Sum(new.closing) - Sum(new.opened) <= reported'
         /\ reported' <= Sum(new.done) - Sum(new.called)
<1>6. SUFFICES Values /\ Bounds /\ Right
  <2>1. Values /\ Bounds => PerfValues'
    BY DEF PerfValues
  <2>2. Right => ReportsThisMeasurement'
    BY DEF ReportsThisMeasurement, Sum
  <2> QED
    BY <2>1, <2>2
<1> HIDE DEF new
<1>7. CASE PerfMeter!ReadBefore
  <2>1. pc = "idle" /\ pc' = "before" /\ i' = 0 /\ known' = TRUE
    BY <1>7 DEF PerfMeter!ReadBefore
  <2> QED
    BY <1>1, <2>1
<1>8. CASE PerfMeter!Before
  <2>1. /\ pc = "before" /\ i < core_count /\ i' = i + 1 /\ pc' = pc /\ known' = known
        /\ event' = [event EXCEPT ![i] = "open"] /\ opened' = [opened EXCEPT ![i] = used[i]]
        /\ new.called = spent.called
    BY <1>2, <1>8 DEF PerfMeter!Before
  <2>2. i \in Cores /\ spent.called[i] <= used[i]
    BY <1>1, <1>3, <2>1 DEF Below
  <2>3. ASSUME NEW c \in Cores, c < i + 1
        PROVE  event'[c] = "open" /\ spent.called[c] <= opened'[c]
    <3>1. CASE c = i
      BY <1>5, <2>1, <2>2, <3>1 DEF Uses
    <3>2. CASE c # i
      <4>1. c < i /\ event'[c] = event[c] /\ opened'[c] = opened[c]
        BY <1>1, <1>5, <2>1, <2>3, <3>2
      <4> QED
        BY <1>4, <2>1, <4>1
    <3> QED
      BY <3>1, <3>2
  <2> QED
    BY <1>1, <1>4, <2>1, <2>3
<1>9. CASE PerfMeter!ReturnBefore
  <2>1. /\ pc = "before" /\ i = core_count /\ pc' = "work" /\ known' = known
        /\ event' = event /\ opened' = opened
        /\ new.called = spent.called /\ new.opened = used
    BY <1>2, <1>9 DEF PerfMeter!ReturnBefore, PerfMeter!perfVars
  <2>2. \A c \in Cores : c < i
    BY <1>1, <2>1
  <2>3. Below(spent.called, opened) /\ Below(opened, used)
    BY <1>4, <1>5, <2>1, <2>2 DEF Below
  <2> QED
    BY <1>4, <2>1, <2>2, <2>3
<1>10. CASE PerfMeter!ReadAfter
  <2>1. /\ pc = "work" /\ pc' = "after" /\ i' = 0 /\ perf_consumed' = 0 /\ known' = known
        /\ event' = event /\ opened' = opened
        /\ new.called = spent.called /\ new.opened = spent.opened /\ new.closing = used
    BY <1>2, <1>10 DEF PerfMeter!ReadAfter
  <2>2. SumTo(Minus(used, opened), 0) = 0
    BY <1>1, <1>5, UseTypes, CoreSums
  <2>3. Bounds
    BY <2>1, <2>2
  <2> QED
    BY <1>1, <1>4, <2>1, <2>3
<1>11. CASE PerfMeter!After
  <2>1. /\ pc = "after" /\ i < core_count /\ i' = i + 1 /\ pc' = pc /\ known' = known
        /\ opened' = opened
        /\ new.called = spent.called /\ new.opened = spent.opened /\ new.closing = spent.closing
    BY <1>2, <1>11 DEF PerfMeter!After
  <2>2. i \in Cores /\ event[i] = "open" /\ known
    BY <1>1, <1>4, <2>1
  <2>3. perf_consumed' = perf_consumed + (used[i] - opened[i]) /\ event' = [event EXCEPT ![i] = "closed"]
    BY <1>11, <2>2 DEF PerfMeter!After, PerfMeter!Count
  <2>4. Values
    BY <1>1, <1>4, <1>5, <2>1, <2>2, <2>3
  <2>5. ASSUME NEW f \in Uses
        PROVE  /\ SumTo(Minus(f, opened), i + 1) = SumTo(Minus(f, opened), i) + (f[i] - opened[i])
               /\ SumTo(Minus(f, opened), i) \in Int
    <3>1. Minus(f, opened)[i] = f[i] - opened[i]
      BY <2>2 DEF Minus
    <3>2. Minus(f, opened) \in [Cores -> Int]
      BY <1>5, UseTypes
    <3>3. i \in 0..core_count
      BY <1>1, <2>2
    <3> QED
      BY <2>2, <3>1, <3>2, <3>3, CoreSums
  <2>6. spent.closing[i] <= used[i] /\ spent.closing[i] \in Nat /\ used[i] \in Nat /\ opened[i] \in Nat
    BY <1>1, <1>3, <1>5, <2>1, <2>2 DEF Below, Uses
  <2>7. Bounds
    <3>1. /\ SumTo(Minus(spent.closing, opened), i) <= perf_consumed
          /\ perf_consumed <= SumTo(Minus(used, opened), i)
      BY <1>4, <2>1
    <3>2. /\ SumTo(Minus(spent.closing, opened), i + 1)
               = SumTo(Minus(spent.closing, opened), i) + (spent.closing[i] - opened[i])
          /\ SumTo(Minus(spent.closing, opened), i) \in Int
      BY <1>1, <2>5
    <3>3. /\ SumTo(Minus(used, opened), i + 1) = SumTo(Minus(used, opened), i) + (used[i] - opened[i])
          /\ SumTo(Minus(used, opened), i) \in Int
      BY <1>1, <2>5
    <3>4. /\ SumTo(Minus(spent.closing, opened), i + 1) <= perf_consumed'
          /\ perf_consumed' <= SumTo(Minus(used, opened), i + 1)
      <4>1. perf_consumed \in Nat /\ perf_consumed' = perf_consumed + (used[i] - opened[i])
        BY <1>1, <2>3
      <4>2. /\ spent.closing[i] - opened[i] <= used[i] - opened[i]
            /\ spent.closing[i] - opened[i] \in Int /\ used[i] - opened[i] \in Int
        BY <2>6
      <4> QED
        BY <3>1, <3>2, <3>3, <4>1, <4>2
    <3> QED
      BY <2>1, <3>4
  <2> QED
    BY <2>1, <2>4, <2>7
<1>12. CASE PerfMeter!ReturnAfter
  <2>1. /\ pc = "after" /\ i = core_count /\ pc' = "idle" /\ reported' = perf_consumed
        /\ new.called = spent.called /\ new.opened = spent.opened /\ new.closing = spent.closing
        /\ new.done = used
    BY <1>2, <1>12 DEF PerfMeter!ReturnAfter
  <2>2. /\ Sum(Minus(spent.closing, opened)) <= perf_consumed
        /\ perf_consumed <= Sum(Minus(used, opened))
    <3>1. Minus(spent.closing, opened) \in [Cores -> Int] /\ Minus(used, opened) \in [Cores -> Int]
      BY <1>1, <1>5, UseTypes
    <3>2. /\ Sum(Minus(spent.closing, opened)) = SumTo(Minus(spent.closing, opened), core_count)
          /\ Sum(Minus(used, opened)) = SumTo(Minus(used, opened), core_count)
      BY <3>1, CoreSums
    <3> QED
      BY <1>4, <2>1, <3>2
  <2>3. /\ Sum(Minus(spent.closing, opened)) = Sum(spent.closing) - Sum(opened)
        /\ Sum(Minus(used, opened)) = Sum(used) - Sum(opened)
    BY <1>1, <1>5, MinusSums
  <2>4. Sum(spent.called) <= Sum(opened) /\ Sum(opened) <= Sum(spent.opened)
    BY <1>1, <1>4, <1>5, <2>1, UseTypes, SumsBelow
  <2>5. /\ Sum(spent.called) \in Nat /\ Sum(opened) \in Nat /\ Sum(spent.opened) \in Nat
        /\ Sum(spent.closing) \in Nat /\ Sum(used) \in Nat
    BY <1>1, <1>5, UseTypes
  <2> QED
    BY <1>1, <2>1, <2>2, <2>3, <2>4, <2>5
<1> QED
  BY <1>7, <1>8, <1>9, <1>10, <1>11, <1>12 DEF PerfMeter!Next

\* What is right stays right when the cores use more.
LEMMA MeasuredLater ==
  ASSUME NEW s \in [called : Uses, opened : Uses, closing : Uses, done : Uses, off : BOOLEAN],
         NEW f \in Uses, NEW g \in Uses, Below(f, g), NEW e \in Nat, Measured(s, f, e)
  PROVE  Measured(s, g, e)
<1>1. Sum(f) <= Sum(g) /\ Sum(f) \in Nat /\ Sum(g) \in Nat /\ Sum(s.called) \in Nat
  BY UseTypes, SumsBelow
<1> QED
  BY <1>1 DEF Measured

\* A step of smartreal, or of its device, keeps its bounds too.
LEMMA RealReport ==
  ASSUME MetersInv, UsedInv, SpentInv, RealValues, meter = "smartreal", ~faulty,
         RealMeter!Next, Note, UNCHANGED <<meter, faulty, used>>
  PROVE  RealValues' /\ ReportsThisMeasurement'
<1> DEFINE new == spent'
<1>1. /\ used \in Uses /\ spent.called \in Uses /\ spent.opened \in Uses
      /\ spent.closing \in Uses /\ device \in [running : BOOLEAN, since : Nat, energy : Nat]
      /\ \A f \in Uses : Sum(f) \in Nat
      /\ device.since <= Sum(used) /\ RealMeter!SumFunction(used) = Sum(used)
  <2>1. device \in [running : BOOLEAN, since : Nat, energy : Nat] /\ device.since <= Sum(used)
    BY DEF UsedInv, TypeOK, RealMeter!TypeOK, Sum
  <2> QED
    BY <2>1, SpentFacts, UseTypes, SameSum DEF Sum
<1>2. /\ new.called = IF pc = "idle" /\ pc' # "idle" THEN used ELSE spent.called
      /\ new.opened = IF pc # "work" /\ pc' = "work" THEN used ELSE spent.opened
      /\ new.closing = IF pc = "work" /\ pc' # "work" THEN used ELSE spent.closing
      /\ new.done = IF pc # "idle" /\ pc' = "idle" THEN used ELSE spent.done
      /\ new.off = IF pc = "idle" /\ pc' # "idle" THEN ~device.running ELSE spent.off
  BY Noted
<1>3. /\ Below(spent.called, used)
      /\ pc \notin {"before", "status", "poll", "start", "ready"} =>
           Below(spent.called, spent.opened) /\ Below(spent.opened, used)
      /\ pc \in {"stop", "data", "await", "close"} =>
           Below(spent.opened, spent.closing) /\ Below(spent.closing, used)
  BY DEF SpentInv, Counting, Opening
<1>4. /\ Sum(spent.called) <= Sum(used)
      /\ pc \in {"stop", "data", "await", "close"} => Sum(spent.closing) <= Sum(used)
  BY <1>1, <1>3, UseTypes, SumsBelow
<1>5. spent.off =>
        /\ pc \in {"status", "poll"} => ~device.running
        /\ pc \in {"ready", "work", "stop", "data"} /\ device.running =>
             Sum(spent.called) <= device.since
        /\ pc \in {"work", "stop", "data"} /\ device.running => device.since <= Sum(spent.opened)
        /\ pc \in {"data", "await"} /\ ~device.running => Measured(spent, used, device.energy)
        /\ pc = "await" /\ fromDev # <<>> => Measured(spent, used, Head(fromDev).energy)
        /\ pc = "close" => Measured(spent, used, consumed)
  BY DEF RealValues
<1>6. /\ pc \in {"idle", "status", "poll", "start", "ready", "work", "stop", "data", "await", "close"}
      /\ pc \in {"idle", "status", "start", "work", "stop", "close"} => Quiet
      /\ pc = "poll" => Asked("status") /\ i > 0
      /\ pc = "start" => ~device.running
      /\ pc = "ready" => Toggled(TRUE)
      /\ pc \in {"work", "stop"} => device.running /\ initialized
      /\ pc = "data" => Toggled(FALSE)
      /\ pc = "await" => Asked("data") /\ i > 0 /\ ~device.running
      /\ pc = "close" => ~device.running
  BY DEF MetersInv, FaultlessInv
<1> DEFINE Values ==
      new.off =>
        /\ pc' \in {"status", "poll"} => ~device'.running
        /\ pc' \in {"ready", "work", "stop", "data"} /\ device'.running =>
             Sum(new.called) <= device'.since
        /\ pc' \in {"work", "stop", "data"} /\ device'.running => device'.since <= Sum(new.opened)
        /\ pc' \in {"data", "await"} /\ ~device'.running => Measured(new, used, device'.energy)
        /\ pc' = "await" /\ fromDev' # <<>> => Measured(new, used, Head(fromDev').energy)
        /\ pc' = "close" => Measured(new, used, consumed')
    Right ==
      pc' = "idle" /\ new.off =>
         /\ Sum(new.closing) - Sum(new.opened) <= reported'
         /\ reported' <= Sum(new.done) - Sum(new.called)
<1>7. SUFFICES Values /\ Right
  <2>1. Values => RealValues'
    BY DEF RealValues
  <2>2. Right => ReportsThisMeasurement'
    BY DEF ReportsThisMeasurement, Sum
  <2> QED
    BY <2>1, <2>2
<1>8. ASSUME NEW e PROVE Measured(new, used, e) <=>
        /\ Sum(new.closing) - Sum(new.opened) <= e
        /\ e <= Sum(used) - Sum(new.called)
  BY DEF Measured
<1>9. ASSUME NEW e PROVE Measured(spent, used, e) <=>
        /\ Sum(spent.closing) - Sum(spent.opened) <= e
        /\ e <= Sum(used) - Sum(spent.called)
  BY DEF Measured
<1> HIDE DEF new
<1>10. CASE RealMeter!Device
  <2>1. /\ pc' = pc /\ consumed' = consumed /\ toDev # <<>> /\ new.called = spent.called
        /\ new.opened = spent.opened /\ new.closing = spent.closing /\ new.off = spent.off
    BY <1>2, <1>10 DEF RealMeter!Device
  <2>2. pc \in {"poll", "ready", "data", "await"}
    BY <1>6, <2>1 DEF Quiet
  <2>3. CASE pc \in {"ready", "data"}
    <3>1. toDev = <<"toggle">> /\ fromDev' = fromDev
      BY <1>6, <1>10, <2>1, <2>3 DEF Toggled, RealMeter!Device
    <3>2. device' = [running |-> ~device.running, since |-> Sum(used),
                     energy |-> IF device.running THEN Sum(used) - device.since ELSE 0]
      BY <1>1, <1>10, <3>1 DEF RealMeter!Device, RealMeter!Energy
    <3>3. CASE pc = "ready"
      <4>1. ~device.running
        BY <1>6, <3>1, <3>3 DEF Toggled
      <4> QED
        BY <1>4, <2>1, <3>2, <3>3, <4>1
    <3>4. CASE pc = "data"
      <4>1. device.running
        BY <1>6, <3>1, <3>4 DEF Toggled
      <4>2. device'.energy = Sum(used) - device.since /\ ~device'.running
        BY <3>2, <4>1
      <4>3. spent.off => Measured(new, used, device'.energy)
        <5>1. spent.off => Sum(spent.called) <= device.since /\ device.since <= Sum(spent.opened)
          BY <1>5, <3>4, <4>1
        <5>2. /\ Sum(spent.called) \in Nat /\ Sum(spent.opened) \in Nat /\ Sum(spent.closing) \in Nat
              /\ Sum(used) \in Nat /\ device.since \in Nat
          BY <1>1
        <5> QED
          BY <1>4, <1>8, <2>1, <3>4, <4>2, <5>1, <5>2
      <4> QED
        BY <2>1, <3>4, <4>2, <4>3
    <3> QED
      BY <2>3, <3>3, <3>4
  <2>4. CASE pc \in {"poll", "await"}
    <3>1. toDev # <<"toggle">> /\ Head(toDev) # "toggle" /\ fromDev = <<>>
      BY <1>6, <2>1, <2>4 DEF Asked
    <3>2. /\ device' = device
          /\ fromDev' = Append(fromDev, [kind |-> Head(toDev), on |-> device.running,
                                         energy |-> RealMeter!Energy])
      BY <1>10, <3>1 DEF RealMeter!Device
    <3>3. Head(fromDev').energy = RealMeter!Energy
      BY <3>1, <3>2
    <3>4. pc = "await" => RealMeter!Energy = device.energy /\ ~device.running
      BY <1>6 DEF RealMeter!Energy
    <3> QED
      BY <1>5, <1>8, <1>9, <2>1, <2>4, <3>2, <3>3, <3>4
  <2> QED
    BY <2>2, <2>3, <2>4
<1>11. CASE RealMeter!ReadBefore
  <2>1. pc = "idle" /\ pc' = "status" /\ device' = device /\ new.off = ~device.running
    BY <1>2, <1>11 DEF RealMeter!ReadBefore
  <2> QED
    BY <2>1
<1>12. CASE RealMeter!StatusRequest
  <2>1. pc = "status" /\ pc' = "poll" /\ device' = device /\ new.off = spent.off
    BY <1>2, <1>12 DEF RealMeter!StatusRequest, RealMeter!Ignored
  <2> QED
    BY <1>5, <2>1
<1>13. CASE RealMeter!StatusPoll
  <2>1. pc = "poll" /\ device' = device /\ i > 0 /\ Asked("status")
    BY <1>6, <1>13 DEF RealMeter!StatusPoll
  <2>2. pc' = pc \/ (fromDev # <<>> /\ pc' = RealMeter!AfterStatus(Head(fromDev).on))
    BY <1>13, <2>1 DEF RealMeter!StatusPoll, RealMeter!Poll, RealMeter!Unanswered, RealMeter!MoreTries
  <2>3. new.off = spent.off
    BY <1>2, <2>1
  <2>4. spent.off => pc' \in {"poll", "start"}
    <3>1. spent.off /\ fromDev # <<>> => ~Head(fromDev).on
      BY <1>5, <2>1 DEF Asked
    <3> QED
      BY <2>1, <2>2, <3>1 DEF RealMeter!AfterStatus
  <2> QED
    BY <1>5, <2>1, <2>3, <2>4
<1>14. CASE RealMeter!ToggleStart
  <2>1. pc = "start" /\ pc' = "ready" /\ device' = device /\ ~device.running
    BY <1>6, <1>14 DEF RealMeter!ToggleStart, RealMeter!Ignored
  <2> QED
    BY <2>1
<1>15. CASE RealMeter!Ready \/ RealMeter!FailBefore
  <2>1. /\ pc = "ready" /\ pc' = "work" /\ device' = device
    BY <1>6, <1>15 DEF RealMeter!Ready, RealMeter!FailBefore, RealMeter!realVars
  <2>2. new.called = spent.called /\ new.opened = used /\ new.off = spent.off
    BY <1>2, <2>1
  <2> QED
    BY <1>1, <1>5, <2>1, <2>2
<1>16. CASE RealMeter!ReadAfter
  <2>1. /\ pc = "work" /\ pc' = "stop" /\ device' = device
    BY <1>6, <1>16 DEF RealMeter!ReadAfter, RealMeter!realVars
  <2>2. new.called = spent.called /\ new.opened = spent.opened /\ new.off = spent.off
    BY <1>2, <2>1
  <2> QED
    BY <1>5, <2>1, <2>2
<1>17. CASE RealMeter!StopDevice
  <2>1. /\ pc = "stop" /\ pc' = "data" /\ device' = device /\ device.running
    BY <1>6, <1>17 DEF RealMeter!StopDevice
  <2>2. new.called = spent.called /\ new.opened = spent.opened /\ new.off = spent.off
    BY <1>2, <2>1
  <2> QED
    BY <1>5, <2>1, <2>2
<1>18. CASE RealMeter!DataRequest
  <2>1. /\ pc = "data" /\ pc' = "await" /\ device' = device /\ fromDev' = fromDev
        /\ toDev = <<>>
    BY <1>18 DEF RealMeter!DataRequest, RealMeter!Ignored, RealMeter!Write, RealMeter!Settled
  <2>2. /\ new.called = spent.called /\ new.opened = spent.opened /\ new.off = spent.off
        /\ new.closing = spent.closing
    BY <1>2, <2>1
  <2>3. fromDev = <<>> /\ ~device.running
    BY <1>6, <2>1 DEF Toggled
  <2> QED
    BY <1>5, <1>8, <1>9, <2>1, <2>2, <2>3
<1>19. CASE RealMeter!DataPoll
  <2>1. pc = "await" /\ device' = device /\ i > 0 /\ Asked("data") /\ ~device.running
    BY <1>6, <1>19 DEF RealMeter!DataPoll
  <2>2. \/ pc' = pc /\ fromDev' = <<>>
        \/ fromDev # <<>> /\ pc' = "close" /\ consumed' = Head(fromDev).energy
    <3>1. RealMeter!Poll("data", pc' = "close" /\ consumed' = Head(fromDev).energy)
      BY <1>19, <2>1 DEF RealMeter!DataPoll, RealMeter!MoreTries
    <3>2. fromDev # <<>> => Head(fromDev).kind = "data"
      BY <2>1 DEF Asked
    <3> QED
      BY <3>1, <3>2 DEF RealMeter!Poll
  <2>3. /\ new.called = spent.called /\ new.opened = spent.opened /\ new.off = spent.off
        /\ new.closing = spent.closing
    BY <1>2, <2>1, <2>2
  <2> QED
    BY <1>5, <1>8, <1>9, <2>1, <2>2, <2>3
<1>20. CASE RealMeter!FinishAfter
  <2>1. pc = "close" /\ pc' = "idle" /\ reported' = consumed
    BY <1>20 DEF RealMeter!FinishAfter
  <2>2. /\ new.called = spent.called /\ new.opened = spent.opened /\ new.off = spent.off
        /\ new.closing = spent.closing /\ new.done = used
    BY <1>2, <2>1
  <2> QED
    BY <1>5, <1>9, <2>1, <2>2
<1> QED
  BY <1>10, <1>11, <1>12, <1>13, <1>14, <1>15, <1>16, <1>17, <1>18, <1>19, <1>20
  DEF RealMeter!Next

\* The invariant of what is reported.  It rests on MetersInv.
ReportInv == UsedInv /\ SpentInv /\ MsrValues /\ PerfValues /\ RealValues /\ ReportsThisMeasurement

LEMMA ReportInitially == Init => MsrValues /\ PerfValues /\ RealValues /\ ReportsThisMeasurement
<1> SUFFICES ASSUME Init PROVE MsrValues /\ PerfValues /\ RealValues /\ ReportsThisMeasurement
  OBVIOUS
<1>1. pc = "idle" /\ session = 0 /\ \A c \in Cores : units[c] = 1
  BY DEF Init, MsrMeter!Init, MsrMeter!Cores, Cores
<1> QED
  BY <1>1 DEF MsrValues, PerfValues, RealValues, ReportsThisMeasurement

\* What the cores use meanwhile does not make the bounds wrong.
LEMMA ReportLater ==
  ASSUME MetersInv, ReportInv, Consume
  PROVE  MsrValues' /\ PerfValues' /\ RealValues' /\ ReportsThisMeasurement'
<1>1. /\ UNCHANGED <<meter, faulty, pc, reported, consumed, i, spent, session>>
      /\ UNCHANGED <<fromDev, device, fd, units, pp0_before, pp0_after>>
      /\ UNCHANGED <<event, opened, known, perf_consumed>> /\ pc # "idle"
  BY DEF Consume, realVars, msrVars, perfVars
<1>2. /\ used \in Uses /\ spent.called \in Uses /\ spent.opened \in Uses
      /\ spent.closing \in Uses /\ i \in Nat /\ core_count \in Nat
      /\ spent \in [called : Uses, opened : Uses, closing : Uses, done : Uses, off : BOOLEAN]
      /\ device \in [running : BOOLEAN, since : Nat, energy : Nat] /\ consumed \in Nat
      /\ fromDev # <<>> => Head(fromDev).energy \in Nat
      /\ opened \in Uses /\ pp0_before \in Nat /\ pp0_after \in Nat /\ perf_consumed \in Nat
  <2>1. /\ device \in [running : BOOLEAN, since : Nat, energy : Nat] /\ consumed \in Nat
        /\ fromDev \in Seq(Replies) /\ pp0_before \in Nat /\ pp0_after \in Nat
        /\ perf_consumed \in Nat /\ opened \in Uses
    BY Constants DEF ReportInv, UsedInv, TypeOK, RealMeter!TypeOK, MsrMeter!TypeOK,
      PerfMeter!TypeOK, Replies, Uses
  <2>2. fromDev # <<>> => Head(fromDev).energy \in Nat
    <3>1. fromDev # <<>> => Head(fromDev) \in Replies
      BY <2>1, MessageTypes
    <3> QED
      BY <3>1 DEF Replies
  <2>3. spent \in [called : Uses, opened : Uses, closing : Uses, done : Uses, off : BOOLEAN]
    BY DEF ReportInv, SpentInv
  <2> QED
    BY <2>1, <2>2, <2>3, SpentFacts DEF ReportInv
<1>3. PICK c \in Cores : used' = [used EXCEPT ![c] = @ + 1]
  BY DEF Consume
<1>4. /\ used' \in Uses /\ Below(used, used')
  <2>1. used \in [Cores -> Nat]
    BY <1>2 DEF Uses
  <2>2. used' \in [Cores -> Nat]
    BY <1>3, <2>1
  <2>3. ASSUME NEW d \in Cores PROVE used[d] <= used'[d]
    BY <1>3, <2>1
  <2> QED
    BY <2>2, <2>3 DEF Uses, Below
<1>5. ASSUME NEW f \in Uses PROVE f \in [Cores -> Int] /\ Counters(f) \in [Cores -> Int]
  BY UseTypes
<1>6. MsrValues'
  <2> SUFFICES ASSUME meter = "msr", ~faulty PROVE MsrValues'
    BY <1>1 DEF MsrValues
  <2>1. Below(spent.called, used)
    BY DEF ReportInv, SpentInv, Counting
  <2>2. SameTurn(spent.called, used') =>
          SameTurn(spent.called, used) /\ Below(Counters(used), Counters(used'))
    BY <1>2, <1>4, <2>1, Between
  <2>3. SameTurn(spent.called, used') /\ i <= core_count =>
          SumTo(Counters(used), i) <= SumTo(Counters(used'), i)
    <3>1. Counters(used) \in [Cores -> Int] /\ Counters(used') \in [Cores -> Int]
      BY <1>2, <1>4, <1>5
    <3>2. i <= core_count => i \in 0..core_count
      BY <1>2
    <3> QED
      BY <2>2, <3>1, <3>2, SumsBelow
  <2>4. i <= core_count => \A f \in Uses : SumTo(Counters(f), i) \in Int
    <3>1. i <= core_count => i \in 0..core_count
      BY <1>2
    <3>2. ASSUME NEW f \in Uses, i \in 0..core_count
          PROVE  SumTo(Counters(f), i) \in Int
      <4>1. Counters(f) \in [Cores -> Int]
        BY <1>5
      <4> QED
        BY <3>2, <4>1, CoreSums
    <3> QED
      BY <3>1, <3>2
  <2> DEFINE a == SumTo(Counters(used), i)
             b == SumTo(Counters(used'), i)
  <2>5. MsrValues
    BY DEF ReportInv
  <2>6. SameTurn(spent.called, used') =>
         /\ pc = "before" =>
              /\ SumTo(Counters(spent.called), i) <= pp0_before
              /\ pp0_before <= b
         /\ pc \in {"work", "after"} =>
              /\ Sum(Counters(spent.called)) <= pp0_before
              /\ pp0_before <= Sum(Counters(spent.opened))
         /\ pc = "after" =>
              /\ SumTo(Counters(spent.closing), i) <= pp0_after
              /\ pp0_after <= b
    <3> SUFFICES ASSUME SameTurn(spent.called, used')
                 PROVE  /\ pc = "before" =>
                             /\ SumTo(Counters(spent.called), i) <= pp0_before
                             /\ pp0_before <= b
                        /\ pc \in {"work", "after"} =>
                             /\ Sum(Counters(spent.called)) <= pp0_before
                             /\ pp0_before <= Sum(Counters(spent.opened))
                        /\ pc = "after" =>
                             /\ SumTo(Counters(spent.closing), i) <= pp0_after
                             /\ pp0_after <= b
      OBVIOUS
    <3>1. /\ pc = "before" =>
               /\ i <= core_count
               /\ SumTo(Counters(spent.called), i) <= pp0_before
               /\ pp0_before <= a
          /\ pc \in {"work", "after"} =>
               /\ Sum(Counters(spent.called)) <= pp0_before
               /\ pp0_before <= Sum(Counters(spent.opened))
          /\ pc = "after" =>
               /\ i <= core_count
               /\ SumTo(Counters(spent.closing), i) <= pp0_after
               /\ pp0_after <= a
      BY <2>2, <2>5 DEF MsrValues
    <3>2. i <= core_count => a <= b /\ a \in Int /\ b \in Int
      BY <1>2, <1>4, <2>3, <2>4
    <3> HIDE DEF a, b
    <3> QED
      BY <1>2, <3>1, <3>2
  <2> QED
    BY <1>1, <2>5, <2>6 DEF MsrValues
<1>7. PerfValues'
  <2> SUFFICES ASSUME meter = "perf", ~faulty PROVE PerfValues'
    BY <1>1 DEF PerfValues
  <2> DEFINE a == SumTo(Minus(used, opened), i)
             b == SumTo(Minus(used', opened), i)
  <2>1. i <= core_count => a <= b /\ a \in Int /\ b \in Int
    <3>1. Minus(used, opened) \in [Cores -> Int] /\ Minus(used', opened) \in [Cores -> Int]
      BY <1>2, <1>4, UseTypes
    <3>2. Below(Minus(used, opened), Minus(used', opened))
      <4>1. ASSUME NEW d \in Cores PROVE used[d] - opened[d] <= used'[d] - opened[d]
        <5>1. used[d] \in Nat /\ used'[d] \in Nat /\ opened[d] \in Nat
          BY <1>2, <1>4 DEF Uses
        <5>2. used[d] <= used'[d]
          BY <1>4 DEF Below
        <5> QED
          BY <5>1, <5>2
      <4> QED
        BY <4>1 DEF Below, Minus
    <3>3. i <= core_count => i \in 0..core_count
      BY <1>2
    <3>4. i <= core_count => a <= b
      BY <3>1, <3>2, <3>3, SumsBelow
    <3>5. i <= core_count => a \in Int /\ b \in Int
      BY <3>1, <3>3, CoreSums
    <3> QED
      BY <3>4, <3>5
  <2>2. PerfValues
    BY DEF ReportInv
  <2>3. pc = "after" => perf_consumed <= b
    <3>1. pc = "after" => perf_consumed <= a /\ i <= core_count
      BY <2>2 DEF PerfValues
    <3> HIDE DEF a, b
    <3> QED
      BY <1>2, <2>1, <3>1
  <2> QED
    BY <1>1, <2>2, <2>3 DEF PerfValues
<1>8. RealValues'
  <2>1. \A e \in Nat : Measured(spent, used, e) => Measured(spent, used', e)
    BY <1>2, <1>4, MeasuredLater
  <2>2. RealValues
    BY DEF ReportInv
  <2>3. device.energy \in Nat
    BY <1>2
  <2> QED
    BY <1>1, <1>2, <2>1, <2>2, <2>3 DEF RealValues
<1> QED
  BY <1>1, <1>6, <1>7, <1>8 DEF ReportsThisMeasurement

LEMMA ReportStep ==
  ASSUME MetersInv, ReportInv, [Next]_vars
  PROVE  ReportInv'
<1>1. UsedInv' /\ SpentInv'
  BY UsedStep, SpentStep DEF ReportInv
<1>2. meter' = meter /\ faulty' = faulty
  BY DEF Next, Step, Abandon, Consume, Finished, vars
<1>3. SUFFICES MsrValues' /\ PerfValues' /\ RealValues' /\ ReportsThisMeasurement'
  BY <1>1 DEF ReportInv
<1>4. CASE faulty \/ meter \notin {"msr", "perf", "smartreal"}
  BY <1>2, <1>4 DEF MsrValues, PerfValues, RealValues, ReportsThisMeasurement
<1>5. CASE ~faulty /\ Step
  <2>1. MeterStep /\ Note /\ UNCHANGED <<meter, faulty, used>>
    BY <1>5 DEF Step
  <2>2. CASE meter = "msr"
    <3>1. MsrMeter!Next
      BY <2>1, <2>2 DEF MeterStep
    <3>2. MsrValues' /\ ReportsThisMeasurement'
      BY <1>5, <2>1, <2>2, <3>1, MsrReport DEF ReportInv
    <3> QED
      BY <1>2, <2>2, <3>2 DEF PerfValues, RealValues
  <2>3. CASE meter = "perf"
    <3>1. PerfMeter!Next
      BY <2>1, <2>3 DEF MeterStep
    <3>2. PerfValues' /\ ReportsThisMeasurement'
      BY <1>5, <2>1, <2>3, <3>1, PerfReport DEF ReportInv
    <3> QED
      BY <1>2, <2>3, <3>2 DEF MsrValues, RealValues
  <2>4. CASE meter = "smartreal"
    <3>1. RealMeter!Next
      BY <2>1, <2>4 DEF MeterStep
    <3>2. RealValues' /\ ReportsThisMeasurement'
      BY <1>5, <2>1, <2>4, <3>1, RealReport DEF ReportInv
    <3> QED
      BY <1>2, <2>4, <3>2 DEF MsrValues, PerfValues
  <2> QED
    BY <1>4, <2>2, <2>3, <2>4
<1>6. CASE Consume
  BY <1>6, ReportLater
<1>7. CASE ~faulty /\ Abandon
  BY <1>7 DEF Abandon
<1>8. CASE Finished \/ UNCHANGED vars
  <2>1. UNCHANGED vars
    BY <1>8 DEF Finished
  <2> QED
    BY <2>1 DEF vars, ReportInv, MsrValues, PerfValues, RealValues, ReportsThisMeasurement, Wrapped
<1> QED
  BY <1>4, <1>5, <1>6, <1>7, <1>8 DEF Next

\* What msr, perf and smartreal report is what the cores have used during the
\* measurement: all they used between the return of read_before and the call of
\* read_after, and nothing from outside the two calls.
THEOREM Reports == Spec => []ReportsThisMeasurement
<1>1. Init => MetersInv /\ ReportInv
  BY MetersInitially, UsedInitially, SpentInitially, ReportInitially DEF ReportInv
<1>2. MetersInv /\ ReportInv /\ [Next]_vars => (MetersInv /\ ReportInv)'
  BY MetersStep, ReportStep
<1>3. ReportInv => ReportsThisMeasurement
  BY DEF ReportInv
<1> QED
  BY <1>1, <1>2, <1>3, PTL DEF Spec

==============================================================================
