----------------------------- MODULE MCSmartCalc ------------------------------
(* Instances of SmartCalc for TLC: a meter used as it is meant to be, one    *)
(* with every fault there is, and one without faults.                        *)
EXTENDS SmartCalc

PairedFaults == {"io", "init", "wait", "spurious"}
NoFaults == {}
=============================================================================
