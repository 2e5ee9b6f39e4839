---------------------------- MODULE MCEadMaster -----------------------------
(* Instances of EadMaster for TLC. A crash leaves the status of SIGSEGV;   *)
(* process numbers are model values, so none is equal to a status.         *)
EXTENDS EadMaster, TLC

CONSTANTS p1, p2, p3, p4, p5

MCPids == {p1, p2, p3}
FivePids == MCPids \union {p4, p5}
MCStatuses == {11}
PidSymmetry == Permutations(MCPids)
=============================================================================
