----------------------------- MODULE MCMachine -----------------------------
(***************************************************************************)
(* Machine for TLC.                                                        *)
(***************************************************************************)
EXTENDS Machine

\* A leftover key event of a recycled node.
StaleKey == {[first |-> 0, second |-> KeyboardIrq]}
NoEvents == {}
=============================================================================
