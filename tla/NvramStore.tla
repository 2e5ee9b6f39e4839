----------------------------- MODULE NvramStore -----------------------------
(***************************************************************************)
(* What nvram promises, without files: a table of variables that is        *)
(* changed in memory and saved at times. A loss of power takes what was    *)
(* not saved. If it comes while the table is being saved, a part of it is  *)
(* left, and what a command reads then is that part and anything else.     *)
(***************************************************************************)
EXTENDS Integers

CONSTANTS
  Names, Values,  \* of variables
  Unset,          \* an edit that removes a variable
  Edits,          \* what can be asked for in one change
  Sdram,          \* the names that always have a value
  Number,         \* the number that a value of those stands for
  Fitting         \* the tables for which there is space

VARIABLES
  current,  \* what a command reads
  saved,    \* what it reads after a loss of power
  saving,   \* is saved being made of current?
  updates,  \* changes, modulo 2
  outages   \* losses of power, modulo 2

vars == <<current, saved, saving, updates, outages>>

Tables == UNION { [D -> Values] : D \in SUBSET Names }

(* Copies: a table and whether that is all of it.                          *)
Sound(t) == [vars |-> t, sound |-> TRUE]

(* r is a part of t.                                                       *)
Part(r, t) == DOMAIN r \subseteq DOMAIN t /\ \A n \in DOMAIN r : r[n] = t[n]

(* The tables that a command may take the copy c for.                      *)
Legible(c) ==
  IF c.sound THEN {c.vars}
  ELSE { t \in Tables : DOMAIN c.vars \union Sdram \subseteq DOMAIN t }

Assigned(e) == { n \in DOMAIN e : e[n] # Unset }

(* The table t after the edit e.                                           *)
Edited(e, t) ==
  [n \in (DOMAIN t \ DOMAIN e) \union Assigned(e) |->
     IF n \in DOMAIN e THEN e[n] ELSE t[n]]

(* r may be what is left of t: without space only whole variables are      *)
(* lost, the others keep their values, and the Sdram ones keep at least    *)
(* the number.                                                             *)
Remains(r, t) ==
  /\ Sdram \subseteq DOMAIN r /\ DOMAIN r \subseteq DOMAIN t \union Sdram
  /\ \A n \in DOMAIN r \ Sdram : r[n] = t[n]
  /\ Sdram \subseteq DOMAIN t => \A n \in Sdram : Number[r[n]] = Number[t[n]]
  /\ t \in Fitting => Part(t, r)

Init ==
  /\ current = saved
  /\ \E t \in Tables : Sdram \subseteq DOMAIN t /\ saved = Sound(t)
  /\ saving = FALSE
  /\ updates = 0 /\ outages = 0

Change ==
  /\ updates' = 1 - updates
  /\ ~saving
  /\ current'.sound /\ current'.vars \in Tables
  /\ LET r == current'.vars
     IN  \E t \in Legible(current), e \in Edits : Remains(r, Edited(e, t))
  /\ UNCHANGED <<saved, saving, outages>>

(* What is left becomes all there is, without a change.                    *)
Settle ==
  /\ ~saving /\ ~current.sound /\ current'.sound
  /\ \E t \in Legible(current) : current' = Sound(t) /\ Part(current.vars, t)
  /\ UNCHANGED <<saved, saving, updates, outages>>

StartSave ==
  /\ ~saving /\ saving'
  /\ current.sound
  /\ saved'.vars = [n \in {} |-> Unset] /\ ~saved'.sound
  /\ UNCHANGED <<current, updates, outages>>

EndSave ==
  /\ saving
  /\ saving' = FALSE
  /\ saved' = current
  /\ UNCHANGED <<current, updates, outages>>

PowerLoss ==
  /\ outages' = 1 - outages
  /\ IF saving
     THEN ~saved'.sound /\ Part(saved'.vars, current.vars)
     ELSE saved' = saved
  /\ current' = saved'
  /\ saving' = FALSE
  /\ UNCHANGED updates

Next == Change \/ Settle \/ StartSave \/ EndSave \/ PowerLoss

Spec == Init /\ [][Next]_vars
=============================================================================
