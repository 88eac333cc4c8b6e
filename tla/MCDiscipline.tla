---------------------------- MODULE MCDiscipline ----------------------------
(* Instances of Discipline for TLC. *)
EXTENDS Discipline

\* quiet, settling, worth a burst, beyond every limit
SomeOffsets == {0, -3, 40, 100}
SomeNoises  == {1, 2}
SomeSlopes  == {-1, 1}
NoLeap      == {FALSE}
LeapDay     == {FALSE, TRUE}
NeverGiveUp == -1
=============================================================================
