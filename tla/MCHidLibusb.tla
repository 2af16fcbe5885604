----------------------------- MODULE MCHidLibusb ------------------------------
(* Instances of HidLibusb for TLC.                                           *)
EXTENDS HidLibusb

AllFaults == {"unplug", "submit", "events"}
NoFaults == {}
=============================================================================
