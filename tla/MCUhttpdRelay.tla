--------------------------- MODULE MCUhttpdRelay ---------------------------
(* Instances of UhttpdRelay for TLC.                                       *)
EXTENDS UhttpdRelay

(* No body, one that does not fit into a pipe, a negative Content-Length.  *)
WithPost == {-1, 0, 3}
NoPost == {0}
=============================================================================
