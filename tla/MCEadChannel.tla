---------------------------- MODULE MCEadChannel ----------------------------
(* Instances of EadChannel for TLC.                                        *)
EXTENDS EadChannel

(* Damage leaves the vector readable.                                      *)
NoIv == {}
=============================================================================
