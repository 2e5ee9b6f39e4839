------------------------- MODULE EadOrderedChannel --------------------------
(***************************************************************************)
(* What the command channel of ead promises, without vectors or windows:   *)
(* messages are numbered in the order they are sent, any of them may never *)
(* arrive, and those that do arrive in that order and once.                *)
(***************************************************************************)
EXTENDS Integers, Sequences

VARIABLES
  count,      \* messages sent
  received    \* the numbers of the messages received, in order

Init == count = 0 /\ received = <<>>

Send == count' = count + 1 /\ UNCHANGED received

LastReceived == IF received = <<>> THEN 0 ELSE received[Len(received)]

Deliver(n) ==
  /\ n > LastReceived
  /\ received' = Append(received, n)
  /\ UNCHANGED count

Next == Send \/ \E n \in 1 .. count : Deliver(n)

Spec == Init /\ [][Next]_<<count, received>>
=============================================================================
