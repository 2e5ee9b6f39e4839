---------------------------- MODULE ScriptReply -----------------------------
(***************************************************************************)
(* What a web server promises about the reply a script writes, without     *)
(* pipes, buffers or signals. A script, and perhaps somebody who has       *)
(* inherited its output, write; the server takes the output in order and   *)
(* passes on all that it has taken, but for a beginning that it may hold   *)
(* back. It calls the reply whole only when nobody can write any more and  *)
(* everything was passed on; it cuts the reply only when the script is     *)
(* gone and all that the script itself wrote was taken; it sends an error  *)
(* in place of the reply only when nothing was passed on.                  *)
(***************************************************************************)
EXTENDS Integers

CONSTANT Held   \* how much the server may hold back

VARIABLES
  open,       \* is there a request?
  writers,    \* who may write: the script, an heir
  written,    \* what was written
  own,        \* what was written when the script itself last wrote
  taken,      \* what the server has taken
  passed,     \* what the client was sent
  verdict     \* none, whole, cut, replaced or failed

vars == <<open, writers, written, own, taken, passed, verdict>>

Init ==
  /\ open = FALSE /\ writers = {}
  /\ written = 0 /\ own = 0 /\ taken = 0 /\ passed = 0 /\ verdict = "none"

Begin ==
  /\ ~open
  /\ open' = TRUE /\ writers' = {"script"}
  /\ written' = 0 /\ own' = 0 /\ taken' = 0 /\ passed' = 0 /\ verdict' = "none"

Write(w) ==
  /\ open /\ w \in writers
  /\ written' = written + 1
  /\ own' = IF w = "script" THEN written + 1 ELSE own
  /\ UNCHANGED <<open, writers, taken, passed, verdict>>

Bequeath ==
  /\ open /\ "script" \in writers
  /\ writers' = writers \union {"heir"}
  /\ UNCHANGED <<open, written, own, taken, passed, verdict>>

Release(w) ==
  /\ writers' = writers \ {w}
  /\ UNCHANGED <<open, written, own, taken, passed, verdict>>

(* Output is taken: it is passed on at once with what was held back, or    *)
(* held back as well, or nobody is there to pass it to.                    *)
Take ==
  /\ open /\ verdict = "none"
  /\ taken' \in taken + 1 .. written
  /\ \/ passed' = taken' /\ UNCHANGED verdict
     \/ passed = 0 /\ taken' < Held /\ UNCHANGED <<passed, verdict>>
     \/ verdict' = "failed" /\ UNCHANGED passed
  /\ UNCHANGED <<open, writers, written, own>>

Whole ==
  /\ writers = {} /\ taken = written
  /\ verdict' = "whole" /\ passed' = written

Cut ==
  /\ "script" \notin writers /\ own <= taken
  /\ verdict' = "cut" /\ UNCHANGED passed

Replaced ==
  /\ passed = 0
  /\ verdict' = "replaced" /\ UNCHANGED passed

Failed == verdict' = "failed" /\ UNCHANGED passed

Judge ==
  /\ open /\ verdict = "none"
  /\ Whole \/ Cut \/ Replaced \/ Failed
  /\ UNCHANGED <<open, writers, written, own, taken>>

Close ==
  /\ open /\ verdict # "none" /\ "script" \notin writers
  /\ open' = FALSE
  /\ UNCHANGED <<writers, written, own, taken, passed, verdict>>

Next ==
  \/ Begin \/ Bequeath \/ Take \/ Judge \/ Close
  \/ \E w \in {"script", "heir"} : Write(w) \/ Release(w)

Spec == Init /\ [][Next]_vars
=============================================================================
