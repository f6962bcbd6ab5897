---------------------------- MODULE MCTaskSwitch ----------------------------
(***************************************************************************)
(* TaskSwitch for TLC: a table with a null descriptor and two code         *)
(* segments and three tasks.                                               *)
(***************************************************************************)
EXTENDS TaskSwitch

CONSTANTS A, B, C

ThreeBases == {A, B, C}

Descriptor(type, base) == [type |-> type, base |-> base]

ThreeTasks ==
  [s \in {0, 8, 16, 24, 32, 40} |->
     CASE s = 0 -> Descriptor("none", A)
       [] s = 8 -> Descriptor("code", A)
       [] s = 16 -> Descriptor("code", A)
       [] s = 24 -> Descriptor("tss", A)
       [] s = 32 -> Descriptor("tss", B)
       [] s = 40 -> Descriptor("tss", C)]

\* 27 carries a privilege level of 3, 1 is a null selector.
JumpsWithThree == {1, 8, 16, 27, 32, 40}
=============================================================================
