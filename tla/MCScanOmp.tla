------------------------------ MODULE MCScanOmp -------------------------------
(* Instances of ScanOmp for TLC: sizes that three threads divide evenly, and   *)
(* sizes that they do not.                                                     *)
EXTENDS ScanOmp

SomeSizes == {0, 2, 7, 8, 12}
=============================================================================
