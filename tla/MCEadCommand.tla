---------------------------- MODULE MCEadCommand ----------------------------
(* Instances of EadCommand for TLC: the values are in the .cfg files.      *)
EXTENDS EadCommand
=============================================================================
