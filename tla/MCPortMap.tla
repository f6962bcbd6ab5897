----------------------------- MODULE MCPortMap -----------------------------
(* PortMap for TLC. *)
EXTENDS PortMap

ProbedPorts == 88 .. 118
=============================================================================
