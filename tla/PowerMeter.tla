------------------------------ MODULE PowerMeter ------------------------------
(***************************************************************************)
(* What a Power object promises its caller (power/power.h): read_before    *)
(* opens a measurement, the meter adds samples to it while it is open, and *)
(* read_after closes it and reports what was added, nothing more and       *)
(* nothing less.  A meter that could not be opened reports zero.           *)
(*                                                                         *)
(* The energy is counted in samples: what a sample is worth belongs to the *)
(* modules that implement this one.                                        *)
(***************************************************************************)
EXTENDS Naturals

VARIABLES
  measuring,   \* a measurement is open
  energy,      \* samples added to it so far
  reported     \* what the last read_after returned

meterVars == <<measuring, energy, reported>>

Init ==
  /\ measuring = FALSE
  /\ energy = 0
  /\ reported = 0

\* read_before forgets the previous measurement ...
Reset ==
  /\ ~measuring
  /\ energy' = 0
  /\ UNCHANGED <<measuring, reported>>

\* ... and opens the new one, empty.
Begin ==
  /\ ~measuring
  /\ measuring' = TRUE
  /\ energy' = 0
  /\ UNCHANGED reported

Sample ==
  /\ measuring
  /\ energy' = energy + 1
  /\ UNCHANGED <<measuring, reported>>

\* read_after of an open measurement
End ==
  /\ measuring
  /\ measuring' = FALSE
  /\ reported' = energy
  /\ UNCHANGED energy

\* read_after when read_before had failed
EndUnopened ==
  /\ ~measuring
  /\ reported' = 0
  /\ UNCHANGED <<measuring, energy>>

Next == Reset \/ Begin \/ Sample \/ End \/ EndUnopened

Spec == Init /\ [][Next]_meterVars

=============================================================================
