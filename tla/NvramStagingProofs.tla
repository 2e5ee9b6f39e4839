------------------------- MODULE NvramStagingProofs -------------------------
(***************************************************************************)
(* Proofs about NvramStaging, for any variables, values and space and any  *)
(* number of commands.                                                     *)
(***************************************************************************)
EXTENDS NvramStaging, TLAPS

Written(c) == c \in Blocks \union {Torn}

(* Whatever has been written anywhere came from nvram_commit or was there. *)
AllAgree == \A c \in {mtd, staging, buf} \intersect Blocks : Agrees(c)

(* There is something to write when a write is due.                        *)
Buffers ==
  /\ pc = "fill" => buf # Nothing
  /\ pc = "load" => staging \in Contents
  /\ pc \in {"erase", "program"} => buf \in Contents

(* What the files hold at each point of a command until a write fails.     *)
Phases ==
  /\ pc = "fill" => staging = Empty /\ buf = mtd
  /\ pc # "fill" => staging # Empty
  /\ pc = "copy" => staging = Nothing
  /\ pc = "update" => Written(staging)
  /\ pc \in {"load", "erase", "program", "unlink"} => staging \in Contents
  /\ pc \in {"erase", "program"} => buf = staging
  /\ pc = "program" => mtd = Torn
  /\ pc = "unlink" => mtd = staging

LEMMA RehashType ==
  ASSUME NEW h \in Headers, NEW t \in Tables
  PROVE  /\ Rehash(h, t) \in Tables
         /\ DOMAIN Rehash(h, t) = DOMAIN t \union Sdram
         /\ \A n \in DOMAIN t : Rehash(h, t)[n] = t[n]
  <1>1. PICK D \in SUBSET Names : t \in [D -> Values]
    BY DEF Tables
  <1>2. D \union Sdram \in SUBSET Names
    BY NvramConstants DEF NvramConstants
  <1>3. Rehash(h, t) \in [D \union Sdram -> Values]
    BY <1>1, NvramConstants DEF Rehash, Headers, NvramConstants
  <1> QED BY <1>1, <1>2, <1>3 DEF Tables, Rehash

(* A block that has been opened is read as some table with all the special *)
(* parameters.                                                             *)
LEMMA OpenedType ==
  ASSUME NEW c \in Blocks, NEW o \in Opened(c)
  PROVE  /\ o \in Tables /\ Sdram \subseteq DOMAIN o /\ DOMAIN c.vars \subseteq DOMAIN o
         /\ c.ended => o = Rehash(c.header, c.vars)
  <1>1. c.header \in Headers /\ c.vars \in Tables
    BY DEF Blocks
  <1>2. PICK t \in Tables : /\ o = Rehash(c.header, t) /\ DOMAIN c.vars \subseteq DOMAIN t
                            /\ c.ended => t = c.vars
    BY <1>1 DEF Opened
  <1> QED BY <1>1, <1>2, RehashType

(* Half of a block is no block, or one that agrees as the whole one does.  *)
LEMMA PartlyWrittenType ==
  ASSUME NEW c \in Blocks, Agrees(c), NEW b \in PartlyWritten(c), b # Torn
  PROVE  /\ b \in Blocks /\ ~b.ended /\ Agrees(b)
         /\ DOMAIN b.vars \subseteq DOMAIN c.vars
         /\ \A n \in DOMAIN b.vars : b.vars[n] = c.vars[n]
  <1>1. b \in Blocks /\ ~b.ended
    BY DEF PartlyWritten
  <1>2. CASE DOMAIN b.vars = {}
    BY <1>1, <1>2 DEF Agrees
  <1>3. CASE /\ b.header = c.header
             /\ DOMAIN b.vars \subseteq DOMAIN c.vars
             /\ b.vars = Restrict(c.vars, DOMAIN b.vars)
    <2>1. \A n \in DOMAIN b.vars : b.vars[n] = c.vars[n]
      BY <1>3 DEF Restrict
    <2> QED BY <1>1, <1>3, <2>1 DEF Agrees
  <1> QED BY <1>2, <1>3 DEF PartlyWritten

LEMMA EditedType ==
  ASSUME NEW t \in Tables, NEW e \in Edits
  PROVE  Edited(e, t) \in Tables
  <1>1. PICK D \in SUBSET Names : t \in [D -> Values]
    BY DEF Tables
  <1>2. PICK C \in SUBSET Names : e \in [C -> Values \union {Unset}]
    BY DEF Edits
  <1> DEFINE R == (D \ C) \union Assigned(e)
  <1>3. R \in SUBSET Names /\ \A n \in Assigned(e) : e[n] \in Values
    BY <1>2 DEF Assigned
  <1>4. \A n \in R : IF n \in C THEN n \in Assigned(e) ELSE n \in D
    BY <1>2 DEF Assigned
  <1>5. DOMAIN t = D /\ DOMAIN e = C /\ \A n \in D : t[n] \in Values
    BY <1>1, <1>2
  <1>6. Edited(e, t) = [n \in R |-> IF n \in C THEN e[n] ELSE t[n]]
    BY <1>5 DEF Edited
  <1>7. \A n \in R : (IF n \in C THEN e[n] ELSE t[n]) \in Values
    BY <1>3, <1>4, <1>5
  <1> HIDE DEF R
  <1>8. Edited(e, t) \in [R -> Values]
    BY <1>6, <1>7
  <1> QED BY <1>3, <1>8 DEF Tables

LEMMA KeptSubset ==
  ASSUME NEW t \in Tables, NEW k \in Kept(t)
  PROVE  k \subseteq DOMAIN t /\ (t \in Fitting => k = DOMAIN t)
  BY DEF Kept

LEMMA RegeneratedType ==
  ASSUME NEW t \in Tables, NEW k \in SUBSET DOMAIN t
  PROVE  /\ Regenerated(t, k) \in Contents /\ Agrees(Regenerated(t, k))
         /\ Regenerated(t, k).header = RegeneratedHeader(t)
         /\ DOMAIN Regenerated(t, k).vars = k
         /\ \A n \in k : Regenerated(t, k).vars[n] = t[n]
  <1>1. PICK D \in SUBSET Names : t \in [D -> Values]
    BY DEF Tables
  <1>2. /\ Restrict(t, k) \in [k -> Values] /\ k \in SUBSET Names
        /\ \A n \in k : Restrict(t, k)[n] = t[n]
    BY <1>1 DEF Restrict
  <1>3. RegeneratedHeader(t) \in Headers
    BY <1>1, NvramConstants DEF RegeneratedHeader, Headers, NvramConstants
  <1>4. /\ Regenerated(t, k).header = RegeneratedHeader(t)
        /\ Regenerated(t, k).vars = Restrict(t, k)
        /\ Regenerated(t, k) \in Contents
    BY <1>2, <1>3 DEF Regenerated, Contents, Blocks, Tables
  <1>5. Agrees(Regenerated(t, k))
    BY <1>2, <1>4 DEF Agrees, RegeneratedHeader
  <1> QED BY <1>2, <1>4, <1>5

(* What a command can make of a staging file.                              *)
LEMMA UpdateResult ==
  ASSUME staging \in Blocks, Update
  PROVE  \E o \in Opened(staging), e \in Edits : \E k \in Kept(Edited(e, o)) :
           /\ Edited(e, o) \in Tables
           /\ k \subseteq DOMAIN Edited(e, o)
           /\ staging' = Regenerated(Edited(e, o), k)
  <1>1. PICK o \in Opened(staging), e \in Edits : \E k \in Kept(Edited(e, o)) :
          staging' = Regenerated(Edited(e, o), k)
    BY DEF Update
  <1>2. Edited(e, o) \in Tables
    BY OpenedType, EditedType
  <1> QED BY <1>1, <1>2, KeptSubset

(* After a command has written its changes the staging file is whole.      *)
LEMMA UpdateContents ==
  ASSUME staging \in Blocks, Update
  PROVE  staging' \in Contents /\ Agrees(staging')
  BY UpdateResult, RegeneratedType

-----------------------------------------------------------------------------
(* Types and headers, whatever fails.                                      *)
LEMMA TypeStep ==
  ASSUME TypeOK, AllAgree, Buffers, [Next]_vars
  PROVE  TypeOK' /\ AllAgree' /\ Buffers'
  <1> USE DEF TypeOK, AllAgree, Buffers
  <1>1. CASE Begin BY <1>1 DEF Begin
  <1>2. CASE Copy BY <1>2, NvramMarks DEF Copy, NvramMarks
  <1>3. CASE Fill BY <1>3, NvramMarks DEF Fill, NvramMarks
  <1>4. CASE Update
    <2>1. staging' \in Contents /\ Agrees(staging')
      BY <1>4, UpdateContents DEF Update
    <2> QED BY <1>4, <2>1 DEF Update, Contents
  <1>5. CASE UpdateFails
    <2>1. CASE UNCHANGED staging
      BY <1>5, <2>1 DEF UpdateFails
    <2>2. CASE staging \in Blocks /\ staging' = [staging EXCEPT !.ended = TRUE]
      <3>1. /\ staging' \in Blocks
            /\ staging'.header = staging.header /\ staging'.vars = staging.vars
        BY <2>2 DEF Blocks
      <3>2. Agrees(staging')
        BY <2>2, <3>1 DEF Agrees
      <3> QED BY <1>5, <3>1, <3>2 DEF UpdateFails
    <2> QED BY <1>5, <2>1, <2>2 DEF UpdateFails
  <1>6. CASE Load BY <1>6 DEF Load, Contents
  <1>7. CASE Erase BY <1>7, NvramMarks DEF Erase, NvramMarks
  <1>8. CASE Program
    <2>1. buf \in Blocks /\ Agrees(buf)
      BY <1>8 DEF Program, Contents
    <2>2. mtd' \in Blocks \union {Torn} /\ (mtd' # Torn => Agrees(mtd'))
      BY <1>8, <2>1, PartlyWrittenType DEF Program
    <2> QED BY <1>8, <2>2, NvramMarks DEF Program, NvramMarks
  <1>9. CASE Unlink BY <1>9, NvramMarks DEF Unlink, NvramMarks
  <1>10. CASE OpenFails BY <1>10 DEF OpenFails
  <1>11. CASE PowerLoss
    <2>1. mtd' = mtd \/ (pc = "program" /\ mtd' \in PartlyWritten(buf))
      BY <1>11 DEF PowerLoss
    <2>2. pc = "program" => buf \in Blocks /\ Agrees(buf)
      BY DEF Contents
    <2>3. mtd' \in Blocks \union {Torn} /\ (mtd' \in Blocks => Agrees(mtd'))
      BY <2>1, <2>2, PartlyWrittenType, NvramMarks DEF NvramMarks
    <2> QED BY <1>11, <2>3, NvramMarks DEF PowerLoss, NvramMarks
  <1>12. CASE UNCHANGED vars BY <1>12 DEF vars
  <1> QED BY <1>1, <1>2, <1>3, <1>4, <1>5, <1>6, <1>7, <1>8, <1>9, <1>10, <1>11, <1>12
          DEF Next

LEMMA TypeInvariant == Spec => [](TypeOK /\ AllAgree /\ Buffers)
  <1>1. Init => TypeOK /\ AllAgree /\ Buffers
    BY NvramMarks DEF Init, TypeOK, AllAgree, Buffers, NvramMarks, Contents
  <1> QED BY <1>1, TypeStep, PTL DEF Spec

(* The files hold contents, marks or nothing, whatever fails.              *)
THEOREM TypeCorrect == Spec => []TypeOK
  BY TypeInvariant, PTL

(* The boot loader's header agrees with the variables written next to it.  *)
THEOREM HeaderAlwaysAgrees == Spec => []HeaderAgrees
  <1>1. AllAgree => HeaderAgrees
    BY DEF AllAgree, HeaderAgrees
  <1> QED BY <1>1, TypeInvariant, PTL

-----------------------------------------------------------------------------
(* The phases of a command, until a write that is begun is not done.       *)
LEMMA FailedStays ==
  ASSUME TypeOK, [Next]_vars, ~failed'
  PROVE  ~failed
  <1>1. CASE Fill BY <1>1 DEF Fill, TypeOK
  <1>2. CASE Program BY <1>2 DEF Program, TypeOK
  <1>3. CASE Erase BY <1>3 DEF Erase, TypeOK
  <1>4. CASE ~Fill /\ ~Program /\ ~Erase /\ Next
    <2>1. UNCHANGED failed
      BY <1>4 DEF Next, Begin, Copy, Update, UpdateFails, Load, Unlink,
                  OpenFails, PowerLoss
    <2> QED BY <2>1
  <1>5. CASE UNCHANGED vars BY <1>5 DEF vars
  <1> QED BY <1>1, <1>2, <1>3, <1>4, <1>5

LEMMA PhasesStep ==
  ASSUME TypeOK, AllAgree, Buffers, ~failed => Phases, [Next]_vars, ~failed'
  PROVE  Phases'
  <1>0. ~failed
    BY FailedStays
  <1> USE <1>0 DEF Phases, Written, TypeOK
  <1>1. CASE Begin BY <1>1 DEF Begin
  <1>2. CASE Copy BY <1>2 DEF Copy
  <1>3. CASE Fill BY <1>3, NvramMarks DEF Fill, Buffers, NvramMarks
  <1>4. CASE Update
    <2>1. staging' \in Contents
      BY <1>4, UpdateContents DEF Update
    <2> QED BY <1>4, <2>1, NvramMarks DEF Update, NvramMarks, Contents
  <1>5. CASE UpdateFails
    <2>1. staging' = staging \/ staging' \in Blocks
      BY <1>5 DEF UpdateFails, Blocks
    <2> QED BY <1>5, <2>1, NvramMarks DEF UpdateFails, NvramMarks
  <1>6. CASE Load BY <1>6 DEF Load
  <1>7. CASE Erase BY <1>7 DEF Erase
  <1>8. CASE Program BY <1>8 DEF Program
  <1>9. CASE Unlink BY <1>9, NvramMarks DEF Unlink, NvramMarks
  <1>10. CASE OpenFails BY <1>10 DEF OpenFails
  <1>11. CASE PowerLoss BY <1>11, NvramMarks DEF PowerLoss, NvramMarks
  <1>12. CASE UNCHANGED vars BY <1>12 DEF vars
  <1> QED BY <1>1, <1>2, <1>3, <1>4, <1>5, <1>6, <1>7, <1>8, <1>9, <1>10, <1>11, <1>12
          DEF Next

IInv == TypeOK /\ AllAgree /\ Buffers /\ (~failed => Phases)

LEMMA IInvInvariant == Spec => []IInv
  <1>1. Init => IInv
    BY NvramMarks DEF Init, IInv, TypeOK, AllAgree, Buffers, Phases, NvramMarks, Contents
  <1>2. IInv /\ [Next]_vars => IInv'
    BY TypeStep, PhasesStep DEF IInv
  <1> QED BY <1>1, <1>2, PTL DEF Spec

(* The staging file is removed only when flash holds what it held, or some *)
(* write has failed.                                                       *)
THEOREM ChangesAlwaysKept == Spec => []ChangesKept
  <1>1. IInv => ChangesKept
    BY DEF IInv, Phases, ChangesKept
  <1> QED BY <1>1, IInvInvariant, PTL

-----------------------------------------------------------------------------
(* What is read after a command is what the store allows.                  *)
LEMMA UpdateRemains ==
  ASSUME NEW t \in Tables, NEW k \in Kept(t)
  PROVE  LET c == Regenerated(t, k)
         IN  Store!Remains(Rehash(c.header, c.vars), t)
  <1> DEFINE c == Regenerated(t, k)
             r == Rehash(c.header, c.vars)
  <1>1. /\ k \subseteq DOMAIN t
        /\ t \in Fitting => k = DOMAIN t
    BY KeptSubset
  <1>2. /\ c \in Contents
        /\ c.header = RegeneratedHeader(t)
        /\ DOMAIN c.vars = k
        /\ \A n \in k : c.vars[n] = t[n]
    BY <1>1, RegeneratedType
  <1>4. /\ DOMAIN r = k \union Sdram
        /\ \A n \in k : r[n] = t[n]
        /\ \A n \in Sdram \ k : r[n] = Text[RegeneratedHeader(t)[n]]
    BY <1>2 DEF Rehash
  <1>5. ASSUME Sdram \subseteq DOMAIN t, NEW n \in Sdram
        PROVE  Number[r[n]] = Number[t[n]]
    <2>1. CASE n \in k
      BY <1>4, <2>1
    <2>2. CASE n \notin k
      <3>1. r[n] = Text[Number[t[n]]]
        BY <1>4, <1>5, <2>2 DEF RegeneratedHeader
      <3>2. t[n] \in Values
        BY <1>5 DEF Tables
      <3> QED BY <3>1, <3>2, NvramConstants DEF NvramConstants
    <2> QED BY <2>1, <2>2
  <1>6. t \in Fitting => Store!Part(t, r)
    BY <1>1, <1>4 DEF Store!Part
  <1> HIDE DEF r
  <1>7. Store!Remains(r, t)
    BY <1>1, <1>4, <1>5, <1>6 DEF Store!Remains
  <1> QED BY <1>7 DEF r

(* How the files look to the store.                                        *)
LEMMA ViewOf ==
  ASSUME NEW c \in Blocks
  PROVE  /\ c.ended => View(c) = Store!Sound(Rehash(c.header, c.vars))
         /\ ~c.ended => View(c) = [vars |-> c.vars, sound |-> FALSE]
  BY NvramMarks DEF View, Blocks, Store!Sound, NvramMarks

(* What a command reads of a block is legible to the store.                *)
LEMMA OpenedLegible ==
  ASSUME NEW c \in Blocks, NEW o \in Opened(c)
  PROVE  o \in Store!Legible(View(c))
  <1>1. o \in Tables /\ Sdram \subseteq DOMAIN o /\ DOMAIN c.vars \subseteq DOMAIN o
    BY OpenedType
  <1>2. CASE c.ended
    BY <1>2, OpenedType, ViewOf DEF Store!Legible, Store!Sound
  <1>3. CASE ~c.ended
    BY <1>1, <1>3, ViewOf DEF Store!Legible, Store!Tables, Tables
  <1> QED BY <1>2, <1>3

(* The file a command reads: the staging file once it has been filled.     *)
Source == IF staging \in {Nothing, Empty} THEN mtd ELSE staging

StoreVars == <<View(Source), View(mtd), pc = "program", updates, outages>>

LEMMA StepRefines ==
  ASSUME IInv, IInv', [Next]_vars
  PROVE  [failed' \/ Store!Next]_StoreVars
  <1> SUFFICES ASSUME ~failed'
               PROVE  [Store!Next]_StoreVars
    OBVIOUS
  <1>0. ~failed /\ Phases /\ TypeOK
    <2>1. ~failed
      BY FailedStays DEF IInv
    <2> QED BY <2>1 DEF IInv
  <1> USE <1>0 DEF StoreVars
  <1>1. CASE Begin
    BY <1>1 DEF Begin, Source, View
  <1>2. CASE Copy
    BY <1>2 DEF Copy, Source, View, Phases
  <1>3. CASE Fill
    <2>1. /\ staging' = mtd /\ staging = Empty /\ mtd' = mtd /\ mtd \in Blocks \union {Torn}
          /\ pc = "fill" /\ pc' = "update"
          /\ UNCHANGED <<updates, outages>>
      BY <1>3 DEF Fill, Phases, TypeOK
    <2> QED BY <2>1, NvramMarks DEF Source, View, NvramMarks
  <1>4. CASE Update
    <2>1. /\ staging \in Blocks /\ mtd' = mtd
          /\ pc = "update" /\ pc' \in {"idle", "load"}
          /\ updates' = 1 - updates /\ outages' = outages
      BY <1>4 DEF Update
    <2>2. PICK o \in Opened(staging), e \in Edits : \E k \in Kept(Edited(e, o)) :
            /\ Edited(e, o) \in Tables
            /\ k \subseteq DOMAIN Edited(e, o)
            /\ staging' = Regenerated(Edited(e, o), k)
      BY <1>4, <2>1, UpdateResult
    <2> DEFINE t == Edited(e, o)
               r == Rehash(staging'.header, staging'.vars)
    <2>3. PICK k \in Kept(t) : staging' = Regenerated(t, k) /\ t \in Tables
      BY <2>2
    <2>4. staging' \in Blocks /\ staging'.ended
      BY <1>4, <2>1, UpdateContents DEF Contents
    <2>5. r \in Store!Tables
      BY <2>4, RehashType DEF Blocks, Store!Tables, Tables
    <2>6. Store!Remains(r, t)
      BY <2>3, UpdateRemains
    <2>7. View(Source) = View(staging) /\ View(Source)' = Store!Sound(r)
      BY <2>1, <2>4, ViewOf, NvramMarks DEF Source, NvramMarks
    <2>8. o \in Store!Legible(View(Source)) /\ t = Store!Edited(e, o)
      BY <2>1, <2>7, OpenedLegible DEF Edited, Assigned, Store!Edited, Store!Assigned
    <2> HIDE DEF t, r
    <2>9. View(Source)'.sound /\ View(Source)'.vars = r
      BY <2>7 DEF Store!Sound
    <2>10. \E u \in Store!Legible(View(Source)), f \in Edits :
             Store!Remains(View(Source)'.vars, Store!Edited(f, u))
      BY <2>6, <2>8, <2>9
    <2>11. View(mtd)' = View(mtd)
      BY <2>1 DEF View
    <2>12. Store!Change
      BY <2>1, <2>5, <2>9, <2>10, <2>11 DEF Store!Change, Source
    <2> QED BY <2>12 DEF Store!Next
  <1>5. CASE UpdateFails
    <2>1. /\ mtd' = mtd /\ pc = "update" /\ pc' = "idle" /\ staging \notin Contents
          /\ UNCHANGED <<updates, outages>>
      BY <1>5 DEF UpdateFails
    <2>2. CASE UNCHANGED staging
      BY <2>1, <2>2 DEF Source, View
    <2>3. CASE staging \in Blocks /\ staging' = [staging EXCEPT !.ended = TRUE]
      <3> DEFINE r == Rehash(staging.header, staging.vars)
      <3>1. /\ ~staging.ended /\ staging' \in Blocks /\ staging'.ended
            /\ staging'.header = staging.header /\ staging'.vars = staging.vars
        BY <2>1, <2>3 DEF Blocks, Contents
      <3>2. /\ View(Source) = [vars |-> staging.vars, sound |-> FALSE]
            /\ View(Source)' = Store!Sound(r)
        BY <2>3, <3>1, ViewOf, NvramMarks DEF Source, NvramMarks
      <3>3. /\ r \in Tables /\ DOMAIN r = DOMAIN staging.vars \union Sdram
            /\ \A n \in DOMAIN staging.vars : r[n] = staging.vars[n]
        BY <2>3, RehashType DEF Blocks
      <3> HIDE DEF r
      <3>4. r \in Store!Legible(View(Source)) /\ Store!Part(View(Source).vars, r)
        BY <3>2, <3>3 DEF Store!Legible, Store!Part, Store!Tables, Tables
      <3>5. ~View(Source).sound /\ View(Source)'.sound
        BY <3>2 DEF Store!Sound
      <3>6. View(mtd)' = View(mtd)
        BY <2>1 DEF View
      <3>7. Store!Settle
        BY <2>1, <3>2, <3>4, <3>5, <3>6 DEF Store!Settle, Source
      <3> QED BY <3>7 DEF Store!Next
    <2> QED BY <1>5, <2>2, <2>3 DEF UpdateFails
  <1>6. CASE Load
    BY <1>6 DEF Load, Source, View
  <1>7. CASE Erase
    <2>1. /\ mtd' = Torn /\ staging' = staging /\ staging \in Contents
          /\ pc = "erase" /\ pc' = "program"
          /\ UNCHANGED <<updates, outages>>
      BY <1>7 DEF Erase, Phases
    <2>2. View(Source)' = View(Source) /\ View(Source).sound
      BY <2>1, ViewOf, NvramMarks DEF View, Source, NvramMarks, Contents, Store!Sound
    <2>3. View(mtd)'.vars = [n \in {} |-> Unset] /\ ~View(mtd)'.sound
      BY <2>1 DEF View
    <2>4. Store!StartSave
      BY <2>1, <2>2, <2>3 DEF Store!StartSave, Source
    <2> QED BY <2>4 DEF Store!Next
  <1>8. CASE Program
    <2>1. /\ mtd' = staging /\ staging' = staging /\ staging \in Contents
          /\ pc = "program" /\ pc' = "unlink"
          /\ UNCHANGED <<updates, outages>>
      BY <1>8 DEF Program, Phases
    <2>2. View(Source)' = View(Source) /\ View(mtd)' = View(Source)
      BY <2>1, NvramMarks DEF View, Source, NvramMarks, Contents
    <2>3. Store!EndSave
      BY <2>1, <2>2 DEF Store!EndSave, Source
    <2> QED BY <2>3 DEF Store!Next
  <1>9. CASE Unlink
    <2>1. /\ mtd' = mtd /\ mtd = staging /\ staging' = Nothing
          /\ pc = "unlink" /\ pc' = "idle" /\ staging \in Contents
          /\ UNCHANGED <<updates, outages>>
      BY <1>9 DEF Unlink, Phases
    <2> QED BY <2>1 DEF Source, View
  <1>10. CASE OpenFails
    BY <1>10 DEF OpenFails, Source, View
  <1>11. CASE PowerLoss
    <2>1. /\ View(Source)' = View(mtd)' /\ pc' = "idle"
          /\ outages' = 1 - outages /\ updates' = updates
      BY <1>11 DEF PowerLoss, Source, View
    <2>2. CASE pc # "program"
      <3>1. View(mtd)' = View(mtd)
        BY <1>11, <2>2 DEF PowerLoss, View
      <3> QED BY <2>1, <2>2, <3>1 DEF Store!Next, Store!PowerLoss, Source
    <2>3. CASE pc = "program"
      <3>1. mtd' \in PartlyWritten(staging) /\ staging \in Contents /\ Agrees(staging)
        BY <1>11, <2>3 DEF PowerLoss, Phases, IInv, AllAgree, Contents
      <3>2. staging \in Blocks /\ staging.ended /\ staging.vars \in Tables /\ staging.header \in Headers
        BY <3>1 DEF Contents, Blocks
      <3> DEFINE r == Rehash(staging.header, staging.vars)
      <3>3. View(Source) = Store!Sound(r)
        BY <3>2, ViewOf, NvramMarks DEF Source, NvramMarks
      <3>4. DOMAIN staging.vars \subseteq DOMAIN r /\ \A n \in DOMAIN staging.vars : r[n] = staging.vars[n]
        BY <3>2, RehashType
      <3> HIDE DEF r
      <3>5. ~View(mtd)'.sound /\ Store!Part(View(mtd)'.vars, r)
        <4>1. CASE mtd' = Torn
          BY <4>1 DEF View, Store!Part
        <4>2. CASE mtd' # Torn
          <5>1. /\ mtd' \in Blocks /\ ~mtd'.ended
                /\ DOMAIN mtd'.vars \subseteq DOMAIN staging.vars
                /\ \A n \in DOMAIN mtd'.vars : mtd'.vars[n] = staging.vars[n]
            BY <3>1, <3>2, <4>2, PartlyWrittenType
          <5>2. View(mtd)' = [vars |-> mtd'.vars, sound |-> FALSE]
            BY <5>1, ViewOf
          <5> QED BY <3>4, <5>1, <5>2 DEF Store!Part
        <4> QED BY <4>1, <4>2
      <3>6. Store!PowerLoss
        BY <2>1, <2>3, <3>3, <3>5 DEF Store!PowerLoss, Store!Sound, Source
      <3> QED BY <3>6 DEF Store!Next
    <2> QED BY <2>2, <2>3
  <1>12. CASE UNCHANGED vars
    BY <1>12 DEF vars, Source, View
  <1> QED BY <1>1, <1>2, <1>3, <1>4, <1>5, <1>6, <1>7, <1>8, <1>9, <1>10, <1>11, <1>12
          DEF Next

(* Until a write fails, flash and staging file implement one table that is *)
(* changed as a whole and saved; what a loss of power leaves of a table    *)
(* that was being saved is a part of it, read as if it were all.           *)
THEOREM NvramImplementsStore == Spec => ImplementsStore
  <1>1. Init => Store!Init
    <2> SUFFICES ASSUME Init PROVE Store!Init
      OBVIOUS
    <2>1. mtd \in Blocks /\ mtd.ended /\ staging = Nothing /\ pc = "idle" /\ updates = 0 /\ outages = 0
      BY DEF Init, Contents
    <2> DEFINE r == Rehash(mtd.header, mtd.vars)
    <2>2. View(mtd) = Store!Sound(r) /\ View(Source) = View(mtd)
      BY <2>1, ViewOf DEF Source
    <2>3. r \in Store!Tables /\ Sdram \subseteq DOMAIN r
      BY <2>1, RehashType DEF Blocks, Tables, Store!Tables
    <2> HIDE DEF r
    <2> QED BY <2>1, <2>2, <2>3 DEF Store!Init, Source
  <1>2. IInv /\ IInv' /\ [Next]_vars => [failed' \/ Store!Next]_StoreVars
    BY StepRefines
  <1> QED BY <1>1, <1>2, IInvInvariant, PTL DEF Spec, ImplementsStore, Store!vars, StoreVars, Source
=============================================================================
