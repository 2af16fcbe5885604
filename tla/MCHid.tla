--------------------------------- MODULE MCHid ---------------------------------
(* Instances of Hid for TLC.                                                  *)
EXTENDS Hid

AllFaults == {"unplug", "submit", "events", "barrier", "ioctl"}

\* Report descriptors: a Report ID; one as the data of a short and of a long item; one
\* after items of each length; one of two bytes, which is not recognised; none, with a
\* length that reaches beyond the end.
AllDescriptors ==
  {[bytes |-> <<133, 1>>, numbered |-> TRUE],
   [bytes |-> <<5, 133, 254, 1, 0, 133>>, numbered |-> FALSE],
   [bytes |-> <<6, 133, 0, 7, 0, 0, 133, 0, 192, 133, 2>>, numbered |-> TRUE],
   [bytes |-> <<134, 1, 0>>, numbered |-> TRUE],
   [bytes |-> <<254>>, numbered |-> FALSE]}
\* A new and an old kernel, and a new one whose release has not three numbers.
AllKernels ==
  {[old |-> FALSE, release |-> 3], [old |-> TRUE, release |-> 3], [old |-> FALSE, release |-> 2]}
===============================================================================
