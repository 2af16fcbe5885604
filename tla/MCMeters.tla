------------------------------- MODULE MCMeters --------------------------------
(* Instances of Meters for TLC.                                               *)
EXTENDS Meters

AllBuilds == {"arm", "linux", "other"}
AllModes == {"off", "msr", "perf", "ina", "smartreal"}
SomeGarbage == {0, 5}
=============================================================================
