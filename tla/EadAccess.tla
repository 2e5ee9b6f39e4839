----------------------------- MODULE EadAccess ------------------------------
(***************************************************************************)
(* What the login of ead promises, without frames, keys or states: there   *)
(* is one session after another, a client proves itself for one of them,   *)
(* and that only before the session is over; who is not trusted is never   *)
(* let in, and who is let in has one command run, once. Nothing that was   *)
(* said in one session has any effect in a later one.                      *)
(***************************************************************************)
EXTENDS Integers

CONSTANTS
  Clients,
  Trusted,    \* the clients that know the password of the user they name
  Nobody

VARIABLES
  spent,      \* sessions that were entered or given up
  holder,     \* the client that is logged in, or Nobody
  bound,      \* the session a client's proof is for, 0 before there is one
  runs,       \* how often the command of each client was started
  told        \* the clients that were told so

vars == <<spent, holder, bound, runs, told>>

Init ==
  /\ spent = 0 /\ holder = Nobody
  /\ bound = [c \in Clients |-> 0]
  /\ runs = [c \in Clients |-> 0] /\ told = {}

(* A client makes its proof, once and for all; the session may be over.    *)
Bind(c) ==
  /\ bound[c] = 0 /\ bound'[c] \in 1 .. spent + 1
  /\ bound' = [bound EXCEPT ![c] = bound'[c]]
  /\ UNCHANGED <<spent, holder, runs, told>>

(* The session that is entered is the next one, whoever enters it: as the  *)
(* proof of a client never changes, nobody enters twice.                   *)
Login(c) ==
  /\ holder = Nobody /\ holder' = c
  /\ spent' = spent + 1
  /\ c \in Trusted /\ bound[c] = spent + 1
  /\ UNCHANGED <<bound, runs, told>>

GiveUp ==
  /\ holder = Nobody /\ UNCHANGED holder
  /\ spent' = spent + 1
  /\ UNCHANGED <<bound, runs, told>>

Logout ==
  /\ holder # Nobody /\ holder' = Nobody
  /\ UNCHANGED <<spent, bound, runs, told>>

Obey(c) ==
  /\ holder = c /\ runs[c] = 0
  /\ runs' = [runs EXCEPT ![c] = 1]
  /\ UNCHANGED <<spent, holder, bound, told>>

Tell(c) ==
  /\ runs[c] = 1
  /\ told' = told \union {c}
  /\ UNCHANGED <<spent, holder, bound, runs>>

Next ==
  \/ \E c \in Clients : Bind(c) \/ Login(c) \/ Obey(c) \/ Tell(c)
  \/ GiveUp \/ Logout

Spec == Init /\ [][Next]_vars
=============================================================================
