--------------------------- MODULE SmartCalc_proofs ---------------------------
(***************************************************************************)
(* Theorems about the spc meter, for every bound, every number of status   *)
(* reads and every set of faults.                                          *)
(***************************************************************************)
EXTENDS SmartCalc, TLAPS

-----------------------------------------------------------------------------
(* Types.                                                                  *)

LEMMA UnreadType == Unread \in Powers
  BY DEF Unread, Powers

LEMMA RequestType == ASSUME NEW k \in {"status", "toggle", "data"}
                     PROVE  Request(k) \in Requests
  BY UnreadType DEF Request, Requests

LEMMA DataRequestType == ASSUME NEW s \in Nat, NEW k \in Nat
                         PROVE  DataRequest(<<s, k>>) \in Requests
<1>1. <<s, k>> \in Powers
  BY DEF Powers
<1>2. QED
  BY <1>1 DEF DataRequest, Requests

LEMMA ReplyType == ASSUME NEW on \in BOOLEAN, NEW w \in Powers
                   PROVE  StatusReply(on) \in Replies /\ DataReply(w) \in Replies
  BY UnreadType DEF StatusReply, DataReply, Replies

LEMMA EnergyOps ==
  /\ <<>> \in Energy
  /\ \A e \in Energy, w \in Powers : Append(e, w) \in Energy
  /\ \A e \in Energy : Len(e) \in Nat
  BY DEF Energy

LEMMA OutQueueOps ==
  /\ <<>> \in OutQueue
  /\ \A q \in OutQueue, r \in Requests : Append(q, r) \in OutQueue
  /\ \A q \in OutQueue : q # <<>> => Head(q) \in Requests /\ Tail(q) \in OutQueue
  BY DEF OutQueue

LEMMA InQueueOps ==
  /\ <<>> \in InQueue
  /\ \A q \in InQueue, r \in Replies : Append(q, r) \in InQueue
  /\ \A q \in InQueue : q # <<>> => Head(q) \in Replies /\ Tail(q) \in InQueue
  BY DEF InQueue

\* Every step keeps the types: the queues hold requests and replies, the energy
\* is a sequence of powers, and the counters are natural numbers.
THEOREM TypeCorrect == Spec => []TypeOK
<1>1. Init => TypeOK
  BY UnreadType, EnergyOps, OutQueueOps, InQueueOps DEF Init, TypeOK, MainPoints, MonPoints
<1>2. TypeOK /\ [Next]_vars => TypeOK'
  <2> SUFFICES ASSUME TypeOK, [Next]_vars PROVE TypeOK'
    OBVIOUS
  <2> USE DEF MainPoints, MonPoints
  <2>q. /\ toDev \in OutQueue
        /\ fromDev \in InQueue
        /\ consumed \in Energy
        /\ curWatt \in Powers
        /\ running \in BOOLEAN
        /\ session \in Nat
    BY DEF TypeOK
  <2>1. CASE ReadBefore
    <3>1. consumed' \in Energy
      BY EnergyOps, <2>1 DEF ReadBefore
    <3>2. session' \in Nat
      BY <2>1, <2>q DEF ReadBefore
    <3>3. UNCHANGED <<handle, sync, lock, mon, initial, tries, curWatt, returned,
                      toDev, fromDev, running>>
      BY <2>1 DEF ReadBefore, devVars
    <3>4. main' \in MainPoints /\ initialized' \in BOOLEAN
      BY <2>1 DEF ReadBefore
    <3>5. QED
      BY <3>1, <3>2, <3>3, <3>4 DEF TypeOK
  <2>2. CASE HidOpen
    BY <2>2 DEF HidOpen, TypeOK, devVars
  <2>3. CASE StatusRequest
    <3>1. toDev' \in OutQueue
      <4>1. Request("status") \in Requests
        BY RequestType
      <4>2. QED
        BY OutQueueOps, <2>3, <2>q, <4>1 DEF StatusRequest, Write
    <3>2. QED
      BY <2>3, <3>1, BoundsAssumption DEF StatusRequest, TypeOK
  <2>4. CASE StatusPoll
    <3>1. fromDev' \in InQueue
      BY InQueueOps, <2>4, <2>q DEF StatusPoll, MoreTries, AfterStatus
    <3>2. QED
      BY <2>4, <3>1 DEF StatusPoll, MoreTries, AfterStatus, TypeOK
  <2>5. CASE ToggleStart
    <3>1. toDev' \in OutQueue
      <4>1. Request("toggle") \in Requests
        BY RequestType
      <4>2. QED
        BY OutQueueOps, <2>5, <2>q, <4>1 DEF ToggleStart, Write
    <3>2. QED
      BY <2>5, <3>1 DEF ToggleStart, TypeOK
  <2>6. CASE FailBefore
    <3>1. fromDev' \in InQueue
      BY InQueueOps, <2>6, <2>q DEF FailBefore, HidClose
    <3>2. QED
      BY <2>6, <3>1 DEF FailBefore, TypeOK, HidClose
  <2>7. CASE CreateMonitor
    <3>1. fromDev' \in InQueue
      BY InQueueOps, <2>7, <2>q DEF CreateMonitor, HidClose
    <3>2. /\ main' \in MainPoints /\ mon' \in MonPoints /\ handle' \in {handle, "closed"}
          /\ sync' \in BOOLEAN /\ initial' \in BOOLEAN /\ initialized' \in BOOLEAN
      BY <2>7 DEF CreateMonitor, TypeOK, HidClose
    <3>3. UNCHANGED <<session, lock, tries, curWatt, consumed, returned, toDev, running>>
      BY <2>7 DEF CreateMonitor
    <3>4. QED
      BY <3>1, <3>2, <3>3 DEF TypeOK
  <2>8. CASE FinishWork
    <3>1. returned' \in Energy
      BY EnergyOps, <2>8 DEF FinishWork, TypeOK
    <3>2. QED
      BY <2>8, <3>1 DEF FinishWork, TypeOK, devVars
  <2>9. CASE AbandonWork
    BY <2>9 DEF AbandonWork, TypeOK, devVars
  <2>10. CASE LockToSignal
    BY <2>10 DEF LockToSignal, TypeOK, devVars
  <2>11. CASE Signal
    BY <2>11 DEF Signal, TypeOK, devVars
  <2>12. CASE Unlock
    BY <2>12 DEF Unlock, TypeOK, devVars
  <2>13. CASE Join
    BY <2>13 DEF Join, TypeOK, devVars
  <2>14. CASE StopDevice
    <3>1. toDev' \in OutQueue
      <4>1. Request("toggle") \in Requests
        BY RequestType
      <4>2. QED
        BY OutQueueOps, <2>14, <2>q, <4>1 DEF StopDevice, Write
    <3>2. QED
      BY <2>14, <3>1 DEF StopDevice, TypeOK
  <2>15. CASE FinishAfter
    <3>1. fromDev' \in InQueue
      BY InQueueOps, <2>15, <2>q DEF FinishAfter, HidClose
    <3>2. QED
      BY <2>15, <3>1 DEF FinishAfter, TypeOK, HidClose
  <2>16. CASE MonWait
    BY <2>16 DEF MonWait, TypeOK, mainVars, devVars
  <2>17. CASE MonExpire
    BY <2>17 DEF MonExpire, TypeOK, mainVars, devVars
  <2>18. CASE MonSpurious
    BY <2>18 DEF MonSpurious, TypeOK, mainVars, devVars
  <2>19. CASE MonWaitError
    BY <2>19 DEF MonWaitError, TypeOK, mainVars, devVars
  <2>20. CASE MonStop
    BY <2>20 DEF MonStop, TypeOK, mainVars, devVars
  <2>21. CASE MonSample
    BY <2>21 DEF MonSample, TypeOK, mainVars, devVars
  <2>22. CASE MonLostHandle
    BY <2>22 DEF MonLostHandle, TypeOK, mainVars, devVars
  <2>23. CASE MonRead
    <3>1. fromDev' \in InQueue
      BY InQueueOps, <2>23, <2>q DEF MonRead
    <3>2. curWatt' \in Powers
      <4>1. fromDev # <<>> => Head(fromDev).watt \in Powers
        BY <2>q, InQueueOps DEF Replies
      <4>2. QED
        BY <2>23, <2>q, <4>1 DEF MonRead
    <3>3. QED
      BY <2>23, <3>1, <3>2 DEF MonFail, MonRead, TypeOK, mainVars, devVars
  <2>24. CASE MonWrite
    <3>1. toDev' \in OutQueue
      <4>1. DataRequest(<<session, Len(consumed) + 1>>) \in Requests
        BY <2>q, EnergyOps, DataRequestType
      <4>2. QED
        BY OutQueueOps, <2>24, <2>q, <4>1 DEF MonWrite, Write
    <3>2. consumed' \in Energy
      BY EnergyOps, <2>24, <2>q DEF MonWrite
    <3>3. QED
      BY <2>24, <3>1, <3>2 DEF MonFail, MonWrite, TypeOK, mainVars, devVars
  <2>25. CASE Device
    <3>1. /\ Head(toDev) \in Requests
          /\ toDev' \in OutQueue
      BY OutQueueOps, <2>25, <2>q DEF Device
    <3>2. StatusReply(running) \in Replies /\ DataReply(Head(toDev).watt) \in Replies
      BY <2>q, <3>1, ReplyType DEF Requests
    <3>3. fromDev' \in InQueue
      BY InQueueOps, <2>25, <2>q, <3>2 DEF Device
    <3>4. running' \in BOOLEAN
      BY <2>25, <2>q DEF Device
    <3>5. QED
      BY <2>25, <3>1, <3>3, <3>4 DEF Device, TypeOK
  <2>26. CASE Finished \/ UNCHANGED vars
    BY <2>26 DEF Finished, vars, TypeOK
  <2>27. QED
    BY <2>1, <2>2, <2>3, <2>4, <2>5, <2>6, <2>7, <2>8, <2>9, <2>10, <2>11, <2>12, <2>13,
       <2>14, <2>15, <2>16, <2>17, <2>18, <2>19, <2>20, <2>21, <2>22, <2>23, <2>24, <2>25, <2>26
       DEF Next, Main, Monitor
<1>3. QED
  BY <1>1, <1>2, PTL DEF Spec

-----------------------------------------------------------------------------
(* Lifetimes.                                                              *)

\* SyncOutlivesMonitor is not inductive: the destroys of read_after rely on the
\* join before them, which leaves no monitor.
SyncInv ==
  /\ SyncOutlivesMonitor
  /\ main \in {"stop", "close"} => mon \notin Live

\* read_after does not destroy the mutex or the condition variable of a live monitor,
\* under all faults.  A read_before beside a monitor that calculate has left over ends
\* in undefined, and what follows it is not claimed.
THEOREM SyncSafety == Spec => []SyncOutlivesMonitor
<1> USE DEF SyncInv, SyncOutlivesMonitor, Live
<1>1. Init => SyncInv
  BY DEF Init
<1>2. SyncInv /\ [Next]_vars => SyncInv'
  <2> SUFFICES ASSUME SyncInv, [Next]_vars PROVE SyncInv'
    OBVIOUS
  <2>1. CASE ReadBefore \/ HidOpen
    BY <2>1 DEF ReadBefore, HidOpen
  <2>2. CASE StatusRequest
    BY <2>2 DEF StatusRequest
  <2>3. CASE StatusPoll
    BY <2>3 DEF StatusPoll, MoreTries, AfterStatus
  <2>4. CASE ToggleStart
    BY <2>4 DEF ToggleStart
  <2>5. CASE FailBefore
    BY <2>5 DEF FailBefore, HidClose
  <2>6. CASE CreateMonitor
    BY <2>6 DEF CreateMonitor, HidClose
  <2>7. CASE FinishWork
    BY <2>7 DEF FinishWork
  <2>8. CASE AbandonWork
    BY <2>8 DEF AbandonWork
  <2>9. CASE LockToSignal \/ Signal \/ Unlock
    BY <2>9 DEF LockToSignal, Signal, Unlock
  <2>10. CASE Join
    BY <2>10 DEF Join
  <2>11. CASE StopDevice
    BY <2>11 DEF StopDevice
  <2>12. CASE FinishAfter
    BY <2>12 DEF FinishAfter, HidClose
  <2>13. CASE MonWait
    BY <2>13 DEF MonWait, mainVars
  <2>14. CASE MonExpire \/ MonSpurious \/ MonWaitError
    BY <2>14 DEF MonExpire, MonSpurious, MonWaitError, mainVars
  <2>15. CASE MonStop
    BY <2>15 DEF MonStop, mainVars
  <2>16. CASE MonSample
    BY <2>16 DEF MonSample, mainVars
  <2>17. CASE MonLostHandle
    BY <2>17 DEF MonLostHandle, mainVars
  <2>18. CASE MonRead
    BY <2>18 DEF MonRead, MonFail, mainVars
  <2>19. CASE MonWrite
    BY <2>19 DEF MonWrite, MonFail, mainVars
  <2>20. CASE Device
    BY <2>20 DEF Device
  <2>21. CASE Finished \/ UNCHANGED vars
    BY <2>21 DEF Finished, vars
  <2>22. QED
    BY <2>1, <2>2, <2>3, <2>4, <2>5, <2>6, <2>7, <2>8, <2>9, <2>10, <2>11, <2>12,
       <2>13, <2>14, <2>15, <2>16, <2>17, <2>18, <2>19, <2>20, <2>21
       DEF Next, Main, Monitor
<1>3. QED
  BY <1>1, <1>2, PTL DEF Spec

\* What pairing read_before with read_after gives: a live monitor lies within the
\* measurement that created it, and until then the measurement is empty.
PairedInv ==
  /\ mon \in Live => main \in Measuring /\ handle = "open" /\ sync /\ initialized
  /\ main \in {"request", "poll", "start", "init"} => handle = "open"
  /\ main \in {"open", "request", "poll", "start", "init", "fail"} =>
       ~initialized /\ consumed = <<>>
  /\ main = "undefined" => "open" \in Faults

\* The invariant holds for a caller that always pairs the two calls.
THEOREM Pairing == ASSUME "function" \notin Faults
                   PROVE  Spec => []PairedInv
<1> USE DEF PairedInv, Live, Measuring
<1>1. Init => PairedInv
  BY DEF Init
<1>2. TypeOK /\ PairedInv /\ [Next]_vars => PairedInv'
  <2> SUFFICES ASSUME TypeOK, PairedInv, [Next]_vars PROVE PairedInv'
    OBVIOUS
  <2>1. CASE ReadBefore \/ HidOpen
    BY <2>1 DEF ReadBefore, HidOpen
  <2>2. CASE StatusRequest
    BY <2>2 DEF StatusRequest
  <2>3. CASE StatusPoll
    BY <2>3 DEF StatusPoll, MoreTries, AfterStatus
  <2>4. CASE ToggleStart
    BY <2>4 DEF ToggleStart
  <2>5. CASE FailBefore
    BY <2>5 DEF FailBefore, HidClose
  <2>6. CASE CreateMonitor
    BY <2>6 DEF CreateMonitor, HidClose
  <2>7. CASE FinishWork
    BY <2>7 DEF FinishWork
  <2>8. CASE AbandonWork
    BY <2>8 DEF AbandonWork
  <2>9. CASE LockToSignal \/ Signal \/ Unlock
    BY <2>9 DEF LockToSignal, Signal, Unlock
  <2>10. CASE Join
    BY <2>10 DEF Join
  <2>11. CASE StopDevice
    BY <2>11 DEF StopDevice
  <2>12. CASE FinishAfter
    BY <2>12 DEF FinishAfter, HidClose
  <2>13. CASE MonWait
    BY <2>13 DEF MonWait, mainVars
  <2>14. CASE MonExpire \/ MonSpurious \/ MonWaitError
    BY <2>14 DEF MonExpire, MonSpurious, MonWaitError, mainVars
  <2>15. CASE MonStop
    BY <2>15 DEF MonStop, mainVars
  <2>16. CASE MonSample
    BY <2>16 DEF MonSample, mainVars
  <2>17. CASE MonLostHandle
    BY <2>17 DEF MonLostHandle, mainVars
  <2>18. CASE MonRead
    BY <2>18 DEF MonRead, MonFail, mainVars
  <2>19. CASE MonWrite
    BY <2>19 DEF MonWrite, MonFail, mainVars
  <2>20. CASE Device
    BY <2>20 DEF Device
  <2>21. CASE Finished \/ UNCHANGED vars
    BY <2>21 DEF Finished, vars
  <2>22. QED
    BY <2>1, <2>2, <2>3, <2>4, <2>5, <2>6, <2>7, <2>8, <2>9, <2>10, <2>11, <2>12,
       <2>13, <2>14, <2>15, <2>16, <2>17, <2>18, <2>19, <2>20, <2>21
       DEF Next, Main, Monitor
<1>3. QED
  BY <1>1, <1>2, TypeCorrect, PTL DEF Spec

\* With such a caller the monitor never outlives its device, mutex, condition
\* variable or measurement, and the main thread frees none of them under it.
THEOREM Confinement == Spec => []MonitorConfined
<1>1. CASE "function" \in Faults
  <2>1. MonitorConfined
    BY <1>1 DEF MonitorConfined
  <2>2. QED
    BY <2>1, PTL
<1>2. CASE "function" \notin Faults
  <2>1. PairedInv => MonitorConfined
    BY DEF PairedInv, MonitorConfined
  <2>2. QED
    BY <1>2, <2>1, Pairing, PTL
<1>3. QED
  BY <1>1, <1>2

\* If hid_open never fails either, the program's behaviour stays defined.
THEOREM Definedness == Spec => []NoUndefined
<1>1. CASE {"open", "function"} \cap Faults # {}
  <2>1. NoUndefined
    BY <1>1 DEF NoUndefined
  <2>2. QED
    BY <2>1, PTL
<1>2. CASE {"open", "function"} \cap Faults = {}
  <2>1. "function" \notin Faults /\ "open" \notin Faults
    BY <1>2
  <2>2. PairedInv => NoUndefined
    BY <2>1 DEF PairedInv, NoUndefined
  <2>3. QED
    BY <2>1, <2>2, Pairing, PTL
<1>3. QED
  BY <1>1, <1>2

-----------------------------------------------------------------------------
(* Refinement.                                                             *)

LEMMA EnergyLen ==
  /\ Len(<<>>) = 0
  /\ \A e \in Energy, w \in Powers : Len(Append(e, w)) = Len(e) + 1
  BY DEF Energy

\* Under a caller that pairs the two calls, Power_SMARTCALC keeps the promise of
\* power.h: no sample is added outside a measurement, none is lost, and read_after
\* returns what was added since read_before, or nothing if that had failed.
THEOREM Refinement == ASSUME "function" \notin Faults
                      PROVE  Spec => ImplementsMeter
<1> USE DEF Meter!Init, Meter!Reset, Meter!Begin, Meter!Sample, Meter!End,
            Meter!EndUnopened, Meter!Next, Meter!meterVars
<1>1. Init => Meter!Init
  BY EnergyLen DEF Init
<1>2. TypeOK /\ PairedInv /\ [Next]_vars => [Meter!Next]_(Meter!meterVars)
  <2> SUFFICES ASSUME TypeOK, PairedInv, [Next]_vars
               PROVE  [Meter!Next]_(Meter!meterVars)
    OBVIOUS
  <2> USE DEF PairedInv, Live, Measuring
  <2>q. consumed \in Energy /\ curWatt \in Powers /\ initialized \in BOOLEAN
    BY DEF TypeOK
  <2>1. CASE ReadBefore
    BY <2>1, <2>q, EnergyLen DEF ReadBefore
  <2>2. CASE HidOpen
    BY <2>2 DEF HidOpen
  <2>3. CASE StatusRequest
    BY <2>3 DEF StatusRequest
  <2>4. CASE StatusPoll
    BY <2>4 DEF StatusPoll, MoreTries, AfterStatus
  <2>5. CASE ToggleStart
    BY <2>5 DEF ToggleStart
  <2>6. CASE FailBefore
    BY <2>6 DEF FailBefore, HidClose
  <2>7. CASE CreateMonitor
    BY <2>7, <2>q, EnergyLen DEF CreateMonitor, HidClose
  <2>8. CASE FinishWork
    BY <2>8, <2>q, EnergyLen DEF FinishWork
  <2>9. CASE AbandonWork
    BY <2>9 DEF AbandonWork
  <2>10. CASE LockToSignal \/ Signal \/ Unlock
    BY <2>10 DEF LockToSignal, Signal, Unlock
  <2>11. CASE Join \/ StopDevice
    BY <2>11 DEF Join, StopDevice
  <2>12. CASE FinishAfter
    BY <2>12, <2>q, EnergyLen DEF FinishAfter, HidClose
  <2>13. CASE MonWait
    BY <2>13 DEF MonWait, mainVars
  <2>14. CASE MonExpire \/ MonSpurious \/ MonWaitError
    BY <2>14 DEF MonExpire, MonSpurious, MonWaitError, mainVars
  <2>15. CASE MonStop
    BY <2>15 DEF MonStop, mainVars
  <2>16. CASE MonSample
    BY <2>16 DEF MonSample, mainVars
  <2>17. CASE MonLostHandle
    BY <2>17 DEF MonLostHandle, mainVars
  <2>18. CASE MonRead
    BY <2>18 DEF MonRead, MonFail, mainVars
  <2>19. CASE MonWrite
    BY <2>19, <2>q, EnergyLen DEF MonWrite, MonFail, mainVars
  <2>20. CASE Device
    BY <2>20 DEF Device
  <2>21. CASE Finished \/ UNCHANGED vars
    BY <2>21 DEF Finished, vars
  <2>22. QED
    BY <2>1, <2>2, <2>3, <2>4, <2>5, <2>6, <2>7, <2>8, <2>9, <2>10, <2>11, <2>12,
       <2>13, <2>14, <2>15, <2>16, <2>17, <2>18, <2>19, <2>20, <2>21
       DEF Next, Main, Monitor
<1>3. QED
  BY <1>1, <1>2, TypeCorrect, Pairing, PTL DEF Spec, ImplementsMeter, Meter!Spec

-----------------------------------------------------------------------------
(* The mutex.                                                              *)

\* MutexHeldInside is not inductive: it does not say that who is inside holds the
\* mutex, which is what keeps the other thread out.
LockInv ==
  /\ lock = "monitor" <=> mon \in {"read", "write"}
  /\ lock = "main" <=> main \in {"signal", "unlock"}

\* Under all faults, also in a measurement that the caller abandons, the mutex is held by
\* whoever talks to the device or signals, and by nobody else: no error path leaves it locked.
THEOREM Locking == Spec => []MutexHeldInside
<1> USE DEF LockInv
<1>1. Init => LockInv
  BY DEF Init
<1>2. LockInv /\ [Next]_vars => LockInv'
  <2> SUFFICES ASSUME LockInv, [Next]_vars PROVE LockInv'
    OBVIOUS
  <2>1. CASE ReadBefore \/ HidOpen
    BY <2>1 DEF ReadBefore, HidOpen
  <2>2. CASE StatusRequest
    BY <2>2 DEF StatusRequest
  <2>3. CASE StatusPoll
    BY <2>3 DEF StatusPoll, MoreTries, AfterStatus
  <2>4. CASE ToggleStart
    BY <2>4 DEF ToggleStart
  <2>5. CASE FailBefore
    BY <2>5 DEF FailBefore, HidClose
  <2>6. CASE CreateMonitor
    BY <2>6 DEF CreateMonitor, HidClose, Live
  <2>7. CASE FinishWork
    BY <2>7 DEF FinishWork
  <2>8. CASE AbandonWork
    BY <2>8 DEF AbandonWork
  <2>9. CASE LockToSignal \/ Signal \/ Unlock
    BY <2>9 DEF LockToSignal, Signal, Unlock
  <2>10. CASE Join
    BY <2>10 DEF Join
  <2>11. CASE StopDevice
    BY <2>11 DEF StopDevice
  <2>12. CASE FinishAfter
    BY <2>12 DEF FinishAfter, HidClose
  <2>13. CASE MonWait
    BY <2>13 DEF MonWait, mainVars
  <2>14. CASE MonExpire \/ MonSpurious \/ MonWaitError
    BY <2>14 DEF MonExpire, MonSpurious, MonWaitError, mainVars
  <2>15. CASE MonStop
    BY <2>15 DEF MonStop, mainVars
  <2>16. CASE MonSample
    BY <2>16 DEF MonSample, mainVars
  <2>17. CASE MonLostHandle
    BY <2>17 DEF MonLostHandle
  <2>18. CASE MonRead
    BY <2>18 DEF MonRead, MonFail, mainVars
  <2>19. CASE MonWrite
    BY <2>19 DEF MonWrite, MonFail, mainVars
  <2>20. CASE Device
    BY <2>20 DEF Device
  <2>21. CASE Finished \/ UNCHANGED vars
    BY <2>21 DEF Finished, vars
  <2>22. QED
    BY <2>1, <2>2, <2>3, <2>4, <2>5, <2>6, <2>7, <2>8, <2>9, <2>10, <2>11, <2>12,
       <2>13, <2>14, <2>15, <2>16, <2>17, <2>18, <2>19, <2>20, <2>21
       DEF Next, Main, Monitor
<1>3. LockInv => MutexHeldInside
  BY DEF MutexHeldInside
<1>4. QED
  BY <1>1, <1>2, <1>3, PTL DEF Spec

-----------------------------------------------------------------------------
(* What the host and the device say to each other.                         *)

\* Queues of at most one entry.
LEMMA OneEntry == ASSUME NEW x
                  PROVE  /\ <<x>> # <<>>
                         /\ Head(<<x>>) = x
                         /\ Tail(<<x>>) = <<>>
                         /\ Append(<<>>, x) = <<x>>
  OBVIOUS

\* What Append does to the elements of an energy.
LEMMA EnergyAppend == ASSUME NEW e \in Energy, NEW w \in Powers
                      PROVE  /\ Len(Append(e, w)) = Len(e) + 1
                             /\ Append(e, w)[Len(e) + 1] = w
                             /\ \A k \in 1..Len(e) : Append(e, w)[k] = e[k]
  BY DEF Energy

LEMMA ReplyFields == ASSUME NEW w, NEW on
                     PROVE  /\ DataRequest(w).kind = "data" /\ DataRequest(w).watt = w
                            /\ DataReply(w).kind = "data" /\ DataReply(w).watt = w
                            /\ StatusReply(on).kind = "status" /\ StatusReply(on).on = on
                            /\ Request("status").kind = "status"
                            /\ Request("toggle").kind = "toggle"
  BY DEF DataRequest, DataReply, StatusReply, Request

Quiet == toDev = <<>> /\ fromDev = <<>>
InFlight(request, reply) ==
  \/ toDev = <<request>> /\ fromDev = <<>>
  \/ toDev = <<>> /\ fromDev = <<reply>>
DataInFlight(n) == InFlight(DataRequest(<<session, n>>), DataReply(<<session, n>>))
\* The device measures, or will when it handles its request.
Started ==
  \/ Quiet /\ running
  \/ toDev = <<Request("toggle")>> /\ fromDev = <<>> /\ ~running

\* With a device that is not slow at most one request or reply is on its way, and the
\* main thread knows which: nothing at the start of a measurement, the status of the
\* device in readStatus, and a device that has been started at the creation of the
\* monitor.
ExchangeInv ==
  /\ main \in {"idle", "open", "request"} => Quiet
  /\ main = "poll" => Quiet \/ InFlight(Request("status"), StatusReply(running))
  /\ main = "start" => Quiet /\ ~running
  /\ main = "init" => Started
  /\ main = "fail" => toDev = <<>>
  /\ main = "work" /\ ~initialized => Quiet

\* Between its samples the monitor has one request out, that of its last sample, and
\* reads the reply to it before it adds the next one.
MonitorInv ==
  mon \in Live =>
    /\ IF Len(consumed) = 0 THEN Started ELSE running
    /\ IF initial THEN Len(consumed) = 0 ELSE mon # "write" => Len(consumed) > 0
    /\ mon \in {"read", "write"} => ~initial
    /\ Len(consumed) > 0 => IF mon = "write" THEN Quiet /\ curWatt = <<session, Len(consumed)>>
                            ELSE DataInFlight(Len(consumed))

FreshInv == \A k \in 2..Len(consumed) : consumed[k] = <<session, k - 1>>

\* The conversation with the device, for a caller that always pairs the two calls.
THEOREM Conversation == ASSUME {"function", "slow"} \cap Faults = {}
                        PROVE  Spec => [](ExchangeInv /\ MonitorInv /\ FreshInv)
<1>f. "function" \notin Faults /\ "slow" \notin Faults
  OBVIOUS
<1>1. Init => ExchangeInv /\ MonitorInv /\ FreshInv
  BY EnergyLen DEF Init, ExchangeInv, MonitorInv, FreshInv, Quiet, Live
<1>2. TypeOK /\ PairedInv /\ ExchangeInv /\ MonitorInv /\ FreshInv /\ [Next]_vars
        => ExchangeInv' /\ MonitorInv' /\ FreshInv'
  <2> SUFFICES ASSUME TypeOK, PairedInv, ExchangeInv, MonitorInv, FreshInv, [Next]_vars
               PROVE  ExchangeInv' /\ MonitorInv' /\ FreshInv'
    OBVIOUS
  <2> USE DEF PairedInv, ExchangeInv, MonitorInv, FreshInv, Quiet, InFlight, DataInFlight,
              Started, Live, Measuring
  <2>s. Settled => toDev = <<>>
    BY <1>f DEF Settled
  <2>t. consumed \in Energy /\ curWatt \in Powers /\ Len(consumed) \in Nat
    BY EnergyOps DEF TypeOK
  <2>1. CASE ReadBefore \/ HidOpen
    BY <2>1, EnergyLen DEF ReadBefore, HidOpen, devVars
  <2>2. CASE StatusRequest
    BY <2>2, <2>s, OneEntry DEF StatusRequest, Write, IOError
  <2>3. CASE StatusPoll
    <3>1. main = "poll" /\ toDev = <<>> /\ fromDev \in {<<>>, <<StatusReply(running)>>}
      BY <2>3, <2>s, OneEntry DEF StatusPoll
    <3>2. UNCHANGED <<toDev, running, mon, initialized, consumed>>
      BY <2>3 DEF StatusPoll
    <3>3. mon \notin Live
      BY <3>1
    <3>4. \/ main' = "poll" /\ fromDev' = <<>>
          \/ main' = "fail"
          \/ main' = AfterStatus(running) /\ fromDev' = <<>>
      BY <2>3, <3>1, OneEntry, ReplyFields DEF StatusPoll
    <3>5. QED
      BY <3>1, <3>2, <3>3, <3>4 DEF AfterStatus
  <2>4. CASE ToggleStart
    BY <2>4, <2>s, OneEntry DEF ToggleStart, Write, IOError
  <2>5. CASE FailBefore
    BY <2>5 DEF FailBefore, HidClose
  <2>6. CASE CreateMonitor
    BY <2>6, <2>s, EnergyLen DEF CreateMonitor, HidClose
  <2>7. CASE FinishWork
    BY <2>7 DEF FinishWork, devVars
  <2>8. CASE AbandonWork
    BY <2>8, <1>f DEF AbandonWork
  <2>9. CASE LockToSignal \/ Signal \/ Unlock
    BY <2>9 DEF LockToSignal, Signal, Unlock, devVars
  <2>10. CASE Join
    BY <2>10 DEF Join, devVars
  <2>11. CASE StopDevice
    BY <2>11 DEF StopDevice
  <2>12. CASE FinishAfter
    BY <2>12, <2>s DEF FinishAfter, HidClose
  <2>13. CASE MonWait
    BY <2>13 DEF MonWait, mainVars, devVars
  <2>14. CASE MonExpire \/ MonSpurious \/ MonWaitError
    BY <2>14 DEF MonExpire, MonSpurious, MonWaitError, mainVars, devVars
  <2>15. CASE MonStop
    BY <2>15 DEF MonStop, mainVars, devVars
  <2>16. CASE MonSample
    BY <2>16, <2>t DEF MonSample, mainVars, devVars
  <2>17. CASE MonLostHandle
    BY <2>17 DEF MonLostHandle, mainVars, devVars
  <2>18. CASE MonRead
    <3>1. /\ mon = "read" /\ Len(consumed) > 0 /\ running
          /\ toDev = <<>> /\ fromDev = <<DataReply(<<session, Len(consumed)>>)>>
      BY <2>18, <2>s, <2>t, OneEntry DEF MonRead
    <3>2. UNCHANGED <<toDev, running, main, initialized, consumed, session, initial>>
      BY <2>18 DEF MonRead, mainVars
    <3>3. \/ mon' = "ended" /\ UNCHANGED fromDev
          \/ mon' = "write" /\ fromDev' = <<>> /\ curWatt' = <<session, Len(consumed)>>
      BY <2>18, <3>1, OneEntry, ReplyFields DEF MonRead, MonFail
    <3>4. main \in Measuring /\ initialized
      BY <3>1
    <3>5. QED
      BY <3>1, <3>2, <3>3, <3>4
  <2>19. CASE MonWrite
    <3>1. mon = "write" /\ ~initial /\ main \in Measuring /\ initialized
      BY <2>19 DEF MonWrite
    <3>2. UNCHANGED <<main, initialized, session, initial, fromDev, running>>
      BY <2>19 DEF MonWrite, mainVars
    <3>3. CASE MonFail
      BY <2>19, <3>1, <3>2, <3>3, <2>s DEF MonWrite, MonFail
    <3>4. CASE ~MonFail
      <4> DEFINE n == Len(consumed)
      <4>1. /\ toDev' = Append(toDev, DataRequest(<<session, n + 1>>)) /\ toDev = <<>>
            /\ consumed' = Append(consumed, curWatt)
            /\ mon' = "ready"
        BY <2>19, <3>4, <2>s DEF MonWrite, Write
      <4>2. Quiet /\ running
        BY <3>1, <4>1, OneEntry
      <4>3. toDev' = <<DataRequest(<<session, n + 1>>)>>
        BY <4>1, OneEntry
      <4>4. Len(consumed') = n + 1
        BY <4>1, <2>t, EnergyAppend
      <4>5. ASSUME NEW k \in 2..Len(consumed') PROVE consumed'[k] = <<session', k - 1>>
        <5>1. CASE k = n + 1
          BY <5>1, <3>1, <3>2, <4>1, <2>t, EnergyAppend
        <5>2. CASE k # n + 1
          BY <5>2, <3>2, <4>1, <4>4, <2>t, EnergyAppend
        <5>3. QED
          BY <5>1, <5>2
      <4>6. QED
        BY <2>t, <3>1, <3>2, <4>1, <4>2, <4>3, <4>4, <4>5
    <3>5. QED
      BY <3>3, <3>4
  <2>20. CASE Device
    <3>1. /\ toDev # <<>>
          /\ UNCHANGED <<main, session, initialized, mon, initial, curWatt, consumed>>
      BY <2>20 DEF Device
    <3>2. ASSUME NEW r, toDev = <<r>>, fromDev = <<>>
          PROVE  /\ toDev' = <<>>
                 /\ r.kind = "status" => fromDev' = <<StatusReply(running)>> /\ UNCHANGED running
                 /\ r.kind = "data" => fromDev' = <<DataReply(r.watt)>> /\ UNCHANGED running
                 /\ r.kind = "toggle" => fromDev' = <<>> /\ running' = ~running
      <4>1. Head(toDev) = r /\ toDev' = <<>>
        BY <2>20, <3>2, OneEntry DEF Device
      <4>2. CASE r.kind = "status"
        BY <2>20, <3>2, <4>1, <4>2, OneEntry DEF Device
      <4>3. CASE r.kind = "data"
        BY <2>20, <3>2, <4>1, <4>3, OneEntry DEF Device
      <4>4. CASE r.kind \notin {"status", "data"}
        BY <2>20, <3>2, <4>1, <4>4, OneEntry DEF Device
      <4>5. QED
        BY <4>1, <4>2, <4>3, <4>4
    <3>3. main = "poll" =>
            toDev' = <<>> /\ fromDev' = <<StatusReply(running)>> /\ UNCHANGED running
      BY <3>1, <3>2, ReplyFields
    <3>4. Started => toDev' = <<>> /\ fromDev' = <<>> /\ running'
      BY <3>1, <3>2, ReplyFields
    <3>5. DataInFlight(Len(consumed)) =>
            /\ toDev' = <<>> /\ UNCHANGED running
            /\ fromDev' = <<DataReply(<<session, Len(consumed)>>)>>
      BY <3>1, <3>2, ReplyFields
    <3>6. ExchangeInv'
      BY <3>1, <3>3, <3>4
    <3>7. MonitorInv'
      BY <3>1, <3>4, <3>5, <2>t
    <3>8. FreshInv'
      BY <3>1
    <3>9. QED
      BY <3>6, <3>7, <3>8
  <2>21. CASE Finished \/ UNCHANGED vars
    BY <2>21 DEF Finished, vars
  <2>22. QED
    BY <2>1, <2>2, <2>3, <2>4, <2>5, <2>6, <2>7, <2>8, <2>9, <2>10, <2>11, <2>12,
       <2>13, <2>14, <2>15, <2>16, <2>17, <2>18, <2>19, <2>20, <2>21
       DEF Next, Main, Monitor
<1>3. Spec => []PairedInv
  BY <1>f, Pairing
<1>4. QED
  BY <1>1, <1>2, <1>3, TypeCorrect, PTL DEF Spec

\* After any sequence of measurements the device is measuring while the benchmark
\* runs under a monitor, although STARTSTOP only toggles and its loss goes unnoticed.
THEOREM DeviceRuns == Spec => []MeasuresRunningDevice
<1>1. CASE {"function", "slow"} \cap Faults # {}
  <2>1. MeasuresRunningDevice
    BY <1>1 DEF MeasuresRunningDevice
  <2>2. QED
    BY <2>1, PTL
<1>2. CASE {"function", "slow"} \cap Faults = {}
  <2>1. MonitorInv => MeasuresRunningDevice
    BY OneEntry DEF MonitorInv, Started, Quiet, MeasuresRunningDevice
  <2>2. Spec => []MonitorInv
    BY <1>2, Conversation, PTL
  <2>3. QED
    BY <2>1, <2>2, PTL
<1>3. QED
  BY <1>1, <1>2

\* From the second sample of a measurement on, what is added is the device's answer to
\* the request of the sample before, whatever the two threads and the device interleave.
THEOREM Freshness == Spec => []SampleFresh
<1>1. CASE {"function", "slow"} \cap Faults # {}
  <2>1. SampleFresh
    BY <1>1 DEF SampleFresh
  <2>2. QED
    BY <2>1, PTL
<1>2. CASE {"function", "slow"} \cap Faults = {}
  <2>1. FreshInv => SampleFresh
    BY DEF FreshInv, SampleFresh
  <2>2. Spec => []FreshInv
    BY <1>2, Conversation, PTL
  <2>3. QED
    BY <2>1, <2>2, PTL
<1>3. QED
  BY <1>1, <1>2

=============================================================================
