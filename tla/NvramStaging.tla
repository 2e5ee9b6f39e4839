---------------------------- MODULE NvramStaging ----------------------------
(***************************************************************************)
(* The nvram command (package/nvram/src/cli.c, nvram.c). Variables live in *)
(* a flash partition; a command that changes some first copies it to a     *)
(* staging file in RAM, works on that, and only "commit" writes it back.   *)
(*                                                                         *)
(* Commands run one after another, as in the init scripts, and power may   *)
(* be lost before any access to a file and while flash is written. What a  *)
(* command does in its own memory between two accesses is part of the      *)
(* second one.                                                             *)
(***************************************************************************)
EXTENDS Integers, FiniteSets, Functions

CONSTANTS
  Names, Values,
  Unset,        \* the edit of "nvram unset"
  Sdram,        \* sdram_init, sdram_config, sdram_refresh, sdram_ncdl
  Numbers,      \* what a field of the header can hold
  Number,       \* strtoul on the value of a variable
  Text,         \* sprintf on a field of the header
  Default,      \* SDRAM_INIT, SDRAM_CONFIG, SDRAM_REFRESH and 0
  Size,         \* the length of "name=value" with its NUL
  Space,        \* NVRAM_SPACE without the header and the last two bytes
  MaxEdits,     \* bound: how many variables one command changes
  Faults,       \* which of "power", "open", "write" may happen
  Nothing,      \* no file, or an empty buffer
  Empty,        \* a file that is shorter than a block
  Torn          \* a block without the magic number, as after the erase

Tables == UNION { [D -> Values] : D \in SUBSET Names }
Edits == UNION { [D -> Values \union {Unset}] :
                   D \in { D \in SUBSET Names : Cardinality(D) <= MaxEdits } }
Headers == [Sdram -> Numbers]

(* A block with the magic number, and the variables that it has complete.  *)
(* Has all of it been written, up to the NUL that ends its data?           *)
Blocks == [header : Headers, vars : Tables, ended : BOOLEAN]
Contents == { b \in Blocks : b.ended }

ASSUME NvramConstants ==
  /\ Sdram \subseteq Names
  /\ Number \in [Values -> Numbers] /\ Text \in [Numbers -> Values]
  /\ \A k \in Numbers : Number[Text[k]] = k
  /\ Default \in Headers
  /\ Size \in [Names \X Values -> Nat \ {0}] /\ Space \in Nat /\ MaxEdits \in Nat
  /\ Unset \notin Values
  /\ Faults \subseteq {"power", "open", "write"}

(* The values that stand for something else than contents are different.   *)
ASSUME NvramMarks ==
  /\ Nothing # Empty /\ Nothing # Torn /\ Empty # Torn
  /\ Blocks \intersect {Nothing, Empty, Torn} = {}

VARIABLES
  mtd,      \* the flash partition
  staging,  \* the file NVRAM_STAGING
  buf,      \* the copy on its way between them
  pc,       \* where the running command is
  updates,  \* history: commands that wrote their changes, modulo 2
  outages,  \* history: losses of power, modulo 2
  failed    \* history: has a write failed?

vars == <<mtd, staging, buf, pc, updates, outages, failed>>

Length(t) == SumFunction([n \in DOMAIN t |-> Size[n, t[n]]])
Fitting == { t \in Tables : Length(t) <= Space }

(* _nvram_rehash: a special parameter that has no variable gets one from   *)
(* the header.                                                             *)
Rehash(h, t) ==
  [n \in DOMAIN t \union Sdram |-> IF n \in DOMAIN t THEN t[n] ELSE Text[h[n]]]

(* nvram_open looks at the magic number only. Where the data do not end,   *)
(* strchr and strlen go on behind the variables that are there and behind  *)
(* the mapping: others may be found, and other values for these.           *)
Opened(c) ==
  { Rehash(c.header, t) :
      t \in IF c.ended THEN {c.vars} ELSE { t \in Tables : DOMAIN c.vars \subseteq DOMAIN t } }

(* nvram_commit: the header, all from the variables or all from defaults.  *)
RegeneratedHeader(t) ==
  IF Sdram \subseteq DOMAIN t THEN [s \in Sdram |-> Number[t[s]]] ELSE Default

(* nvram_commit: which variables are written out if there is no space for  *)
(* all. A chain of the hash table ends at its first tuple that does not    *)
(* fit, the next chain is still tried: the order decides what is kept.     *)
Kept(t) ==
  IF t \in Fitting
  THEN {DOMAIN t}
  ELSE { k \in SUBSET DOMAIN t :
           /\ Restrict(t, k) \in Fitting
           /\ \E n \in DOMAIN t \ k : Restrict(t, k \union {n}) \notin Fitting }

Regenerated(t, k) ==
  [header |-> RegeneratedHeader(t), vars |-> Restrict(t, k), ended |-> TRUE]

Assigned(e) == { n \in DOMAIN e : e[n] # Unset }

(* nvram_set and nvram_unset for all arguments of one command; the last    *)
(* one counts for each name.                                               *)
Edited(e, t) ==
  [n \in (DOMAIN t \ DOMAIN e) \union Assigned(e) |->
     IF n \in DOMAIN e THEN e[n] ELSE t[n]]

(* The header is what the boot loader sets the memory up with: it agrees   *)
(* with the variables that have been written out, or is the default one.   *)
Agrees(c) ==
  \/ c.header = Default
  \/ \A s \in Sdram \intersect DOMAIN c.vars : c.header[s] = Number[c.vars[s]]

(* What an erased block can be when its programming with c stops half way: *)
(* without the magic, with a part of the header, or with some variables.   *)
PartlyWritten(c) ==
  {Torn} \union
  { b \in Blocks :
      /\ ~b.ended
      /\ \/ DOMAIN b.vars = {}
         \/ /\ b.header = c.header
            /\ DOMAIN b.vars \subseteq DOMAIN c.vars
            /\ b.vars = Restrict(c.vars, DOMAIN b.vars) }

Init ==
  /\ mtd \in { c \in Contents : c.vars \in Fitting /\ Agrees(c) }
  /\ staging = Nothing
  /\ buf = Nothing
  /\ pc = "idle"
  /\ updates = 0 /\ outages = 0 /\ failed = FALSE

-----------------------------------------------------------------------------
(* Mutant: the staging file is made anew for every command.                *)
BeginAnew ==
  /\ pc = "idle"
  /\ pc' = "copy"
  /\ UNCHANGED <<mtd, staging, buf, updates, outages, failed>>

(* nvram_open_staging: is there a staging file?                            *)
Begin ==
  /\ pc = "idle"
  /\ pc' = IF staging = Nothing THEN "copy" ELSE "update"
  /\ UNCHANGED <<mtd, staging, buf, updates, outages, failed>>

(* nvram_to_staging reads the flash and creates the file, then fills it.   *)
(* The result of write is not looked at.                                   *)
Copy ==
  /\ pc = "copy"
  /\ buf' = mtd
  /\ staging' = Empty
  /\ pc' = "fill"
  /\ UNCHANGED <<mtd, updates, outages, failed>>

Fill ==
  /\ pc = "fill"
  /\ \/ staging' = buf /\ UNCHANGED failed
     \/ "write" \in Faults /\ failed' = TRUE /\ UNCHANGED staging
  /\ buf' = Nothing
  /\ pc' = "update"
  /\ UNCHANGED <<mtd, updates, outages>>

(* Mutant: the header is regenerated before the changes are made.          *)
UpdateHeaderFirst ==
  /\ pc = "update"
  /\ staging \in Blocks
  /\ \E o \in Opened(staging), e \in Edits :
       LET t == Edited(e, o)
       IN  \E k \in Kept(t) :
             staging' = [Regenerated(t, k) EXCEPT !.header = RegeneratedHeader(o)]
  /\ pc' \in {"idle", "load"}
  /\ updates' = 1 - updates
  /\ UNCHANGED <<mtd, buf, outages, failed>>

(* nvram_open, the arguments of the command, nvram_commit; then the        *)
(* command ends unless one of its arguments was "commit".                  *)
Update ==
  /\ pc = "update"
  /\ staging \in Blocks
  /\ \E t \in { Edited(e, o) : e \in Edits, o \in Opened(staging) } :
       \E k \in Kept(t) : staging' = Regenerated(t, k)
  /\ pc' \in {"idle", "load"}
  /\ updates' = 1 - updates
  /\ UNCHANGED <<mtd, buf, outages, failed>>

(* A file without the magic number is refused, one that is too short ends  *)
(* the process when its mapping is touched. So may data without an end:    *)
(* then the '=' that _nvram_rehash had replaced by a NUL stays one in the  *)
(* file, and ends the data for the next command.                           *)
UpdateFails ==
  /\ pc = "update"
  /\ staging \notin Contents
  /\ \/ UNCHANGED staging
     \/ staging \in Blocks /\ staging' = [staging EXCEPT !.ended = TRUE]
  /\ pc' = "idle"
  /\ UNCHANGED <<mtd, buf, updates, outages, failed>>

(* staging_to_nvram reads the file and opens the flash. To write a block   *)
(* is to erase it and to program it. The result of write is not looked at. *)
Load ==
  /\ pc = "load"
  /\ buf' = staging
  /\ pc' = "erase"
  /\ UNCHANGED <<mtd, staging, updates, outages, failed>>

Erase ==
  /\ pc = "erase"
  /\ \/ mtd' = Torn /\ pc' = "program" /\ UNCHANGED <<buf, failed>>
     \/ /\ "write" \in Faults
        /\ failed' = TRUE /\ pc' = "unlink" /\ buf' = Nothing /\ UNCHANGED mtd
  /\ UNCHANGED <<staging, updates, outages>>

(* Mutant: the buffer is given up before it is written.                    *)
ProgramCleared ==
  /\ pc = "program"
  /\ buf' = Nothing
  /\ mtd' = buf'
  /\ pc' = "unlink"
  /\ UNCHANGED <<staging, updates, outages, failed>>

Program ==
  /\ pc = "program"
  /\ \/ mtd' = buf /\ UNCHANGED failed
     \/ "write" \in Faults /\ failed' = TRUE /\ mtd' \in PartlyWritten(buf)
  /\ buf' = Nothing
  /\ pc' = "unlink"
  /\ UNCHANGED <<staging, updates, outages>>

Unlink ==
  /\ pc = "unlink"
  /\ staging' = Nothing
  /\ pc' = "idle"
  /\ UNCHANGED <<mtd, buf, updates, outages, failed>>

(* Mutant: staging_to_nvram does not look at stat before it unlinks.       *)
OpenFailsUnlink ==
  /\ "open" \in Faults
  /\ pc \in {"copy", "update", "load", "unlink"}
  /\ pc' = IF pc = "load" THEN "unlink" ELSE "idle"
  /\ UNCHANGED <<mtd, staging, buf, updates, outages, failed>>

(* The partition is not found, an open or mmap fails, or the unlink: the   *)
(* command ends with an error.                                             *)
OpenFails ==
  /\ "open" \in Faults
  /\ pc \in {"copy", "update", "load", "unlink"}
  /\ pc' = "idle"
  /\ UNCHANGED <<mtd, staging, buf, updates, outages, failed>>

(* RAM is lost, flash stays as it is at the moment, which may be between   *)
(* any two bytes of a block that is being programmed.                      *)
PowerLoss ==
  /\ "power" \in Faults
  /\ staging' = Nothing
  /\ buf' = Nothing
  /\ pc' = "idle"
  /\ mtd' \in IF pc = "program" THEN PartlyWritten(buf) ELSE {mtd}
  /\ outages' = 1 - outages
  /\ UNCHANGED <<updates, failed>>

Next ==
  \/ Begin \/ Copy \/ Fill \/ Update \/ UpdateFails
  \/ Load \/ Erase \/ Program \/ Unlink \/ OpenFails \/ PowerLoss

Spec == Init /\ [][Next]_vars

-----------------------------------------------------------------------------
TypeOK ==
  /\ mtd \in Blocks \union {Torn}
  /\ staging \in Blocks \union {Torn, Empty, Nothing}
  /\ buf \in Blocks \union {Torn, Nothing}
  /\ pc \in {"idle", "copy", "fill", "update", "load", "erase", "program", "unlink"}
  /\ updates \in {0, 1} /\ outages \in {0, 1} /\ failed \in BOOLEAN

(* The boot loader and the variables agree in flash and in the staging     *)
(* file, also when a special variable was removed or had no space, and     *)
(* when power was lost while they were written, or data are cut.           *)
HeaderAgrees == \A c \in {mtd, staging} \intersect Blocks : Agrees(c)

(* The staging file is removed only when flash holds what it held          *)
(* ("Copy staging file to NVRAM device", nvram.c:508), as long as no write *)
(* has failed: those are not noticed.                                      *)
ChangesKept == pc = "unlink" /\ ~failed => mtd = staging

(* What is read from a file, or from flash if there is no file: all of the *)
(* variables, or what is left of them.                                     *)
View(c) ==
  IF c \in {Nothing, Empty, Torn}
  THEN [vars |-> [n \in {} |-> Unset], sound |-> FALSE]
  ELSE [vars |-> IF c.ended THEN Rehash(c.header, c.vars) ELSE c.vars, sound |-> c.ended]

Store == INSTANCE NvramStore
           WITH Fitting <- Fitting,
                current <- View(IF staging \in {Nothing, Empty} THEN mtd ELSE staging),
                saved <- View(mtd),
                saving <- pc = "program"

(* Staging file and flash keep one table of variables: a change is made as *)
(* a whole, is seen by the next command and is lost only with the power;   *)
(* with the power all that can get lost is what was not committed, unless  *)
(* flash was being written at that moment. Then some variables are left,   *)
(* which the next commands read as if they were all, with whatever stands  *)
(* behind them. All this until a write fails.                              *)
ImplementsStore ==
  Store!Init /\ [][failed' \/ Store!Next]_Store!vars
=============================================================================
