------------------------------ MODULE MCWprobe ------------------------------
(* Instances of Wprobe for TLC.                                            *)
EXTENDS Wprobe, TLC

CONSTANTS l1, l2, f1, f2, d1

TwoLinks == {l1, l2}
TwoFilters == {f1, f2}
OneDump == {d1}
=============================================================================
