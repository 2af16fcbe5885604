---------------------------------- MODULE Ina ----------------------------------
(***************************************************************************)
(* The "ina" power meter (power/power_ina.cpp): read_before opens and      *)
(* enables the sensors one by one and starts a monitor thread, which every *)
(* INA231_WAIT = 250 ms reads them all and adds their power to `consumed'; *)
(* read_after signals and joins the monitor, then disables and closes the  *)
(* sensors.                                                                *)
(*                                                                         *)
(* What either thread does with the mutex held is one step here: the other *)
(* one can only leave its wait meanwhile.  Energy is counted in samples.   *)
(* The caller is in Meters, which shares the variables up to `consumed'    *)
(* and states what is assumed of the constants.                            *)
(***************************************************************************)
EXTENDS Naturals

CONSTANTS
  SENSOR_MAX,  \* 4 in the code
  MaxTicks     \* bound: samples in a session

VARIABLES
  pc,           \* where the main thread is
  faulty,       \* the environment may fail
  reported,     \* what the last read_after returned
  initialized,  \* Power_INA::initialized
  i,            \* the loop counter of read_before
  consumed,     \* Power_INA::consumed, in samples
  sensor,       \* Power_INA::sensor: the descriptor, and data.enable
  enabled,      \* the drivers: which sensors are enabled
  sync,         \* mMutex and mCond are initialised
  mon           \* where the monitor is

inaVars == <<sensor, enabled, sync, mon>>

Sensors == 0..SENSOR_MAX - 1
Live == {"ready", "waiting", "woken", "expired"}

TypeOK ==
  /\ sensor \in [Sensors -> [fd : {"none", "open", "failed", "closed"}, enable : BOOLEAN]]
  /\ enabled \in [Sensors -> BOOLEAN]
  /\ sync \in BOOLEAN
  /\ mon \in {"none", "ended"} \cup Live

\* A sensor may be enabled already.
Init ==
  /\ sensor = [s \in Sensors |-> [fd |-> "none", enable |-> FALSE]]
  /\ enabled \in [Sensors -> BOOLEAN]
  /\ sync = FALSE
  /\ mon = "none"

-----------------------------------------------------------------------------
(* The main thread.                                                        *)

\* read_before.  A monitor that a caller left alive uses what is written here and
\* in the steps after: that is undefined.
ReadBeforeKeepsEnergy ==
  /\ pc = "idle"
  /\ \/ mon \in Live /\ pc' = "undefined" /\ UNCHANGED <<initialized, i, consumed>>
     \/ mon \notin Live /\ pc' = "open" /\ initialized' = FALSE /\ i' = 0 /\ UNCHANGED consumed
  /\ UNCHANGED <<reported, inaVars>>

ReadBefore ==
  /\ pc = "idle"
  /\ \/ mon \in Live /\ pc' = "undefined" /\ UNCHANGED <<initialized, i, consumed>>
     \/ mon \notin Live /\ pc' = "open" /\ initialized' = FALSE /\ i' = 0 /\ consumed' = 0
  /\ UNCHANGED <<reported, inaVars>>

\* One turn of the loop: open, the status, and the sensor enabled if it was not.
\* After an error read_before returns, and the sensors opened so far stay open.
OpenSensor ==
  /\ pc = "open"
  /\ i < SENSOR_MAX
  /\ \/ /\ sensor' = [sensor EXCEPT ![i] = [fd |-> "open", enable |-> TRUE]]
        /\ enabled' = [enabled EXCEPT ![i] = TRUE]
        /\ i' = i + 1
        /\ UNCHANGED pc
     \/ /\ faulty
        /\ \/ sensor' = [sensor EXCEPT ![i].fd = "failed"]
           \/ sensor' = [sensor EXCEPT ![i].fd = "open"]
           \/ ~enabled[i] /\ sensor' = [sensor EXCEPT ![i] = [fd |-> "open", enable |-> TRUE]]
        /\ pc' = "work"
        /\ UNCHANGED <<enabled, i>>
  /\ UNCHANGED <<reported, initialized, consumed, sync, mon>>

\* The mutex, the condition variable and the thread; an error undoes the others of
\* them, but not the sensors.
CreateMonitor ==
  /\ pc = "open"
  /\ i = SENSOR_MAX
  /\ pc' = "work"
  /\ \/ sync' = TRUE /\ mon' = "ready" /\ initialized' = TRUE
     \/ faulty /\ UNCHANGED <<sync, mon, initialized>>
  /\ UNCHANGED <<reported, i, consumed, sensor, enabled>>

\* read_after
ReadAfter ==
  /\ pc = "work"
  /\ \/ initialized /\ pc' = "signal" /\ UNCHANGED reported
     \/ ~initialized /\ pc' = "idle" /\ reported' = 0
  /\ UNCHANGED <<initialized, i, consumed, inaVars>>

\* Only a monitor that waits hears the signal.
Signal ==
  /\ pc = "signal"
  /\ pc' = "join"
  /\ mon' = IF mon = "waiting" THEN "woken" ELSE mon
  /\ UNCHANGED <<reported, initialized, i, consumed, sensor, enabled, sync>>

JoinWithoutWaiting ==
  /\ pc = "join"
  /\ pc' = "stop"
  /\ UNCHANGED <<reported, initialized, i, consumed, inaVars>>

Join ==
  /\ pc = "join"
  /\ mon = "ended"
  /\ mon' = "none"
  /\ pc' = "stop"
  /\ UNCHANGED <<reported, initialized, i, consumed, sensor, enabled, sync>>

\* The sensors are disabled, which may fail, and closed; both objects are destroyed.
StopSensors ==
  /\ pc = "stop"
  /\ pc' = "idle"
  /\ \E deaf \in SUBSET Sensors :
       /\ deaf = {} \/ faulty
       /\ enabled' = [s \in Sensors |->
            enabled[s] /\ (~sensor[s].enable \/ s \in deaf)]
  /\ sensor' = [s \in Sensors |-> [fd |-> "closed", enable |-> FALSE]]
  /\ sync' = FALSE
  /\ reported' = consumed
  /\ UNCHANGED <<initialized, i, consumed, mon>>

-----------------------------------------------------------------------------
(* The monitor.                                                            *)

Moves(from, to) ==
  /\ pc # "undefined"
  /\ mon = from
  /\ mon' = to
  /\ UNCHANGED <<pc, reported, initialized, i, sensor, enabled, sync>>

Wait     == Moves("ready", "waiting") /\ UNCHANGED consumed
Expire   == Moves("waiting", "expired") /\ consumed < MaxTicks /\ UNCHANGED consumed
Spurious == Moves("waiting", "woken") /\ UNCHANGED consumed
WaitError == Moves("waiting", "ready") /\ faulty /\ UNCHANGED consumed
Stop     == Moves("woken", "ended") /\ UNCHANGED consumed

\* getSensorDatas reads every sensor, and the sum is added; or one of them cannot
\* be read, nothing is added, and the thread ends.
Readable == \A s \in Sensors : sensor[s].fd = "open"
Sample == Moves("expired", "ready") /\ Readable /\ consumed' = consumed + 1
SampleFails == Moves("expired", "ended") /\ (faulty \/ ~Readable) /\ UNCHANGED consumed

-----------------------------------------------------------------------------

Main == ReadBefore \/ OpenSensor \/ CreateMonitor \/ ReadAfter \/ Signal \/ Join \/ StopSensors
Monitor == Wait \/ Expire \/ Spurious \/ WaitError \/ Stop \/ Sample \/ SampleFails
Next == Main \/ Monitor

\* read_before starts the monitor last and read_after joins it first: whatever
\* fails, and also after the caller has skipped read_after, a live monitor has all its
\* sensors open and enabled and its mutex and condition variable in existence.
Confined == mon \in Live => sync /\ Readable /\ \A s \in Sensors : enabled[s]

=============================================================================
