------------------------------- MODULE MCBench -------------------------------
(* Instances of Bench and Program for TLC.                                  *)
EXTENDS Program

AllApps == {"matrix", "scan", "conv"}
\* The Makefile's builds for x86-64 and, with OpenCL, for ARM; and one without OpenCL.
AllMachines ==
  [build : {"avx", "arm"}, gpu : {"disabled", "unloaded", "enabled"}]
    \cup [build : {"x86"}, gpu : {"not_built"}]
CpuOnly == [build : {"x86"}, gpu : {"not_built"}]
NoGpu == [build : {"avx"}, gpu : {"disabled"}]
Matrix == {"matrix"}
\* modes of the CPU and of the GPU, one that no table has
SomeModes == {0, 4, 9}
\* and one that an int cannot hold
WideModes == SomeModes \cup {31}
\* One to three cores of three models of Intel, two parts of ARM, and another vendor; and
\* systems without /proc/cpuinfo.
Models(set) == UNION {[1..n -> set] : n \in 1..3}
AllComputers ==
  [system : {"Linux"}, vendor : {"GenuineIntel"}, models : Models({"HASWELL", "SANDYBRIDGE", "SKYLAKE"})]
    \cup [system : {"Linux"}, vendor : {"ARM", "old_ARM"}, models : Models({"0xC0F", "0xC07"})]
    \cup [system : {"Linux"}, vendor : {"AuthenticAMD"}, models : Models({"1"})]
    \cup [system : {"other", "no /proc"}, vendor : {"GenuineIntel"}, models : {<<"HASWELL">>}]
OneComputer == [system : {"Linux"}, vendor : {"GenuineIntel"}, models : {<<"HASWELL">>}]
SomeRepeats == {1, 3}
=============================================================================
