--------------------------- MODULE MCNvramStaging ---------------------------
(* Instances of NvramStaging for TLC.                                      *)
EXTENDS NvramStaging

CONSTANTS lan, init, ncdl, ten, hexten, one

(* One ordinary and two special variables; "10" and "0x000A" are the same  *)
(* number, and the header gives it back as the second.                     *)
SomeNames == {lan, init, ncdl}
SomeSdram == {init, ncdl}
SomeValues == {ten, hexten, one}
SomeNumbers == {1, 10}
SomeNumber == [v \in SomeValues |-> IF v = one THEN 1 ELSE 10]
SomeText == [k \in SomeNumbers |-> IF k = 1 THEN one ELSE hexten]
SomeDefault == [s \in SomeSdram |-> 1]

(* The longer text takes two units. The ordinary variable has one value,   *)
(* the others are more than there is space for.                            *)
SomeSize ==
  [p \in SomeNames \X SomeValues |->
     IF p[1] = lan THEN IF p[2] = ten THEN 1 ELSE 4
     ELSE IF p[2] = hexten THEN 2 ELSE 1]
=============================================================================
