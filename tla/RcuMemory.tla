----------------------------- MODULE RcuMemory ------------------------------
(***************************************************************************)
(* What read-copy-update promises for objects of one kind: an object is    *)
(* published when it is made and never again, readers find the published   *)
(* ones and may go on with one that was taken back, and it is freed, once, *)
(* when it is neither published nor in the hands of a reader.              *)
(***************************************************************************)
CONSTANTS Readers, None

VARIABLES
  published,  \* the objects that can be found
  memory,     \* the objects there are
  seen        \* the object each reader has found, or None

vars == <<published, memory, seen>>

Init == published = {} /\ memory = {} /\ seen = [r \in Readers |-> None]

(* New objects are made, some or all of them published; others are taken   *)
(* back.                                                                   *)
Update ==
  /\ memory \subseteq memory'
  /\ published' \ published \subseteq memory' \ memory
  /\ UNCHANGED seen

Find(r) ==
  /\ seen[r] = None
  /\ \E o \in published : seen' = [seen EXCEPT ![r] = o]
  /\ UNCHANGED <<published, memory>>

LetGo(r) ==
  /\ seen' = [seen EXCEPT ![r] = None]
  /\ UNCHANGED <<published, memory>>

Free ==
  /\ memory' \subseteq memory
  /\ \A o \in memory \ memory' : o \notin published /\ \A r \in Readers : seen[r] # o
  /\ UNCHANGED <<published, seen>>

Next == Update \/ Free \/ \E r \in Readers : Find(r) \/ LetGo(r)

Spec == Init /\ [][Next]_vars
=============================================================================
