---------------------------------- MODULE Sums ---------------------------------
(***************************************************************************)
(* The sums that the scans of app/scan and cl/scan.cl compute.             *)
(*                                                                         *)
(* A sum of consecutive elements of mem is known by its bounds: <<a, b>>   *)
(* is mem[a] + ... + mem[b-1].  Sums that leave something out or have      *)
(* something twice, and values nobody has written, are all the same: Wrong.*)
(* Rounding is left out.                                                   *)
(***************************************************************************)
EXTENDS Integers

Zero  == <<0, 0>>
Wrong == <<-1, -1>>

Interval(a, b) == IF a = b THEN Zero ELSE <<a, b>>
Element(k) == Interval(k, k + 1)
SumsOver(n) == (0..n) \X (0..n) \cup {Wrong}

\* a + b, where a ends where b begins.
Add(a, b) == CASE a = Zero -> b
               [] b = Zero -> a
               [] a # Zero /\ b # Zero /\ a[2] = b[1] /\ a # Wrong -> <<a[1], b[2]>>
               [] OTHER -> Wrong

\* a - b, where b is the end of a.
Sub(a, b) == IF b = Zero THEN a
             ELSE IF Wrong \in {a, b} \/ a[2] # b[2] \/ a[1] > b[1] THEN Wrong
             ELSE Interval(a[1], b[1])

=============================================================================
