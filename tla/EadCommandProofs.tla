-------------------------- MODULE EadCommandProofs --------------------------
(***************************************************************************)
(* Proofs about EadCommand, for any number of commands, any timeouts and   *)
(* any resolution of the clock.                                            *)
(***************************************************************************)
EXTENDS EadCommand, TLAPS

(* The parts of the type invariant that the provers handle separately.     *)
Places ==
  /\ pc \in {"idle", "select", "test", "send", "end"}
  /\ answer \in {"none", "started", "done", "killed"}
  /\ client \in {"idle", "waiting", "ok", "failed"}

Flags ==
  /\ child_pending \in BOOLEAN /\ sigchld \in BOOLEAN /\ handling \in BOOLEAN
  /\ foreign \in BOOLEAN /\ goneAtPoll \in BOOLEAN /\ timedOut \in BOOLEAN

Counts ==
  /\ jobs \in 0 .. MaxJobs /\ cmd \in 0 .. jobs
  /\ timeout \in Nat \ {0} /\ asked \in Nat
  /\ fds \in 0 .. FdLimit
  /\ bytes \in {0, 1} /\ budget \in {0, 1}
  /\ written \in 0 .. MaxOutput /\ read \in 0 .. written

Clocks ==
  /\ tick \in 0 .. TicksPerSecond - 1 /\ secs \in Nat /\ elapsed \in Nat
  /\ patience \in 0 .. ClientTimeout /\ silence \in 0 .. HistoryCap

(* Pids are given out in order and are not used again.                     *)
Children ==
  /\ live \subseteq 1 .. jobs /\ zombies \subseteq 1 .. jobs
  /\ live \cap zombies = {}

(* A signal that is pending while another is handled stands for a second   *)
(* child that has exited.                                                  *)
Reapable ==
  /\ ReaperNeverBlocks
  /\ sigchld /\ handling => \E i, j \in zombies : i # j

(* What the loop knows of its request.                                     *)
Request ==
  pc # "idle" =>
    /\ answer = "none"
    /\ asked \in Timeouts /\ timeout = Effective(asked)

(* child_pending may be wrong only after another child was waited for.     *)
Awaited ==
  /\ pc # "idle" /\ ~child_pending => cmd \notin live \/ foreign
  /\ DoneMeansExited

(* A command that had exited before the last select writes no more.        *)
Drained ==
  /\ pc \in {"test", "send", "end"} /\ goneAtPoll => cmd \notin live
  /\ pc = "test" /\ goneAtPoll /\ bytes = 0 => read = written
  /\ pc = "end" /\ goneAtPoll /\ ~timedOut => read = written
  /\ DrainedBeforeDone

(* Every second but the first has TicksPerSecond ticks.                    *)
Paced ==
  pc # "idle" =>
    \/ elapsed = MaxElapsed
    \/ elapsed > secs * TicksPerSecond + tick - TicksPerSecond

Overdue == pc = "end" => ~child_pending \/ secs >= timeout

IInv == /\ Places /\ Flags /\ Counts /\ Clocks /\ Children
        /\ Reapable /\ Request /\ Awaited /\ Drained /\ Paced /\ Overdue

-----------------------------------------------------------------------------
(* Arithmetic.                                                             *)

LEMMA EffectiveRange ==
  ASSUME NEW t \in Timeouts
  PROVE  Effective(t) \in Nat \ {0} /\ Effective(t) <= MaxTimeout
  BY CommandConstants DEF CommandConstants, Effective

LEMMA Monotone ==
  ASSUME NEW a \in Nat, NEW b \in Nat, NEW c \in Nat, a <= b
  PROVE  a * c <= b * c
  BY SMT

LEMMA Wrap ==
  ASSUME NEW n \in Nat \ {0}, NEW t \in 0 .. n - 1
  PROVE  (t + 1) % n = IF t + 1 = n THEN 0 ELSE t + 1
  BY SMT

LEMMA Successor ==
  ASSUME NEW a \in Nat, NEW c \in Nat
  PROVE  (a + 1) * c = a * c + c /\ (a - 1) * c = a * c - c /\ a * c \in Nat
  BY SMT

(* A request is taken.                                                     *)
LEMMA RequestStep ==
  ASSUME IInv, 
         \/ \E t \in Timeouts : StartNormal(t)
         \/ PipeFails \/ ForkFails \/ StartBackground
  PROVE  IInv'
  <1> USE CommandConstants
          DEF IInv, child, clock, loop, talk, Jobs, CommandConstants
  <1>1. ASSUME NEW t \in Timeouts, StartNormal(t) PROVE IInv'
    <2>1. Reapable'
      BY <1>1 DEF StartNormal, Reapable, ReaperNeverBlocks
    <2>2. Places'
      BY <1>1, EffectiveRange DEF StartNormal, NewRequest, Places
    <2>3. Flags'
      BY <1>1, EffectiveRange DEF StartNormal, NewRequest, Flags
    <2>4. Counts'
      BY <1>1, EffectiveRange DEF StartNormal, NewRequest, Counts
    <2>5. Clocks'
      BY <1>1, EffectiveRange DEF StartNormal, NewRequest, Clocks
    <2>6. Children'
      BY <1>1, EffectiveRange DEF StartNormal, NewRequest, Counts, Children
    <2>7. Request'
      BY <1>1, EffectiveRange DEF StartNormal, NewRequest, Places, Request
    <2>8. Awaited'
      BY <1>1, EffectiveRange
      DEF StartNormal, NewRequest, Places, Flags, Counts, Children, Request,
          Awaited, DoneMeansExited
    <2>9. Drained'
      BY <1>1, EffectiveRange
      DEF StartNormal, NewRequest, Places, Flags, Counts, Clocks, Children,
          Request, Drained, DrainedBeforeDone
    <2>10. Paced'
      BY <1>1, EffectiveRange
      DEF StartNormal, NewRequest, Places, Clocks, Paced
    <2>11. Overdue'
      BY <1>1, EffectiveRange
      DEF StartNormal, NewRequest, Places, Flags, Counts, Clocks, Overdue
    <2> QED BY <2>1, <2>2, <2>3, <2>4, <2>5, <2>6, <2>7, <2>8, <2>9, <2>10,
               <2>11
  <1>2. CASE PipeFails
    <2>1. Flags'
      BY <1>2 DEF PipeFails, Flags
    <2>2. Reapable' /\ Paced' /\ Overdue'
      BY <1>2
      DEF PipeFails, Reapable, ReaperNeverBlocks, Paced, MaxElapsed, Overdue
    <2>3. Places'
      BY <1>2 DEF PipeFails, NewRequest, Places
    <2>4. Counts'
      BY <1>2 DEF PipeFails, NewRequest, Counts
    <2>5. Clocks'
      BY <1>2 DEF PipeFails, NewRequest, Clocks
    <2>6. Children'
      BY <1>2 DEF PipeFails, NewRequest, Counts, Children
    <2>7. Request'
      BY <1>2 DEF PipeFails, NewRequest, Places, Request
    <2>8. Awaited'
      BY <1>2
      DEF PipeFails, NewRequest, Places, Flags, Counts, Children, Request,
          Awaited, DoneMeansExited
    <2>9. Drained'
      BY <1>2
      DEF PipeFails, NewRequest, Places, Flags, Counts, Clocks, Children,
          Request, Drained, DrainedBeforeDone
    <2> QED BY <2>1, <2>2, <2>3, <2>4, <2>5, <2>6, <2>7, <2>8, <2>9
  <1>3. CASE ForkFails
    <2>1. Reapable' /\ Paced'
      BY <1>3 DEF ForkFails, Reapable, ReaperNeverBlocks, Paced, MaxElapsed
    <2>2. Places'
      BY <1>3 DEF ForkFails, NewRequest, Places
    <2>3. Flags'
      BY <1>3 DEF ForkFails, NewRequest, Flags
    <2>4. Counts'
      BY <1>3 DEF ForkFails, NewRequest, Counts
    <2>5. Clocks'
      BY <1>3 DEF ForkFails, NewRequest, Clocks
    <2>6. Children'
      BY <1>3 DEF ForkFails, NewRequest, Counts, Children
    <2>7. Request'
      BY <1>3 DEF ForkFails, NewRequest, Places, Request
    <2>8. Awaited'
      BY <1>3
      DEF ForkFails, NewRequest, Places, Flags, Counts, Children, Request,
          Awaited, DoneMeansExited
    <2>9. Drained'
      BY <1>3
      DEF ForkFails, NewRequest, Places, Flags, Counts, Clocks, Children,
          Request, Drained, DrainedBeforeDone
    <2>10. Overdue'
      BY <1>3 DEF ForkFails, NewRequest, Places, Flags, Counts, Clocks, Overdue
    <2> QED BY <2>1, <2>2, <2>3, <2>4, <2>5, <2>6, <2>7, <2>8, <2>9, <2>10
  <1>4. CASE StartBackground
    <2>1. Flags'
      BY <1>4 DEF StartBackground, Flags
    <2>2. Reapable' /\ Paced' /\ Overdue'
      BY <1>4
      DEF StartBackground, Reapable, ReaperNeverBlocks, Paced, MaxElapsed,
          Overdue
    <2>3. Places'
      BY <1>4 DEF StartBackground, NewRequest, Places
    <2>4. Counts'
      BY <1>4 DEF StartBackground, NewRequest, Counts
    <2>5. Clocks'
      BY <1>4 DEF StartBackground, NewRequest, Clocks
    <2>6. Children'
      BY <1>4 DEF StartBackground, NewRequest, Counts, Children
    <2>7. Request'
      BY <1>4 DEF StartBackground, NewRequest, Places, Request
    <2>8. Awaited'
      BY <1>4
      DEF StartBackground, NewRequest, Places, Flags, Counts, Children,
          Request, Awaited, DoneMeansExited
    <2>9. Drained'
      BY <1>4
      DEF StartBackground, NewRequest, Places, Flags, Counts, Clocks, Children,
          Request, Drained, DrainedBeforeDone
    <2> QED BY <2>1, <2>2, <2>3, <2>4, <2>5, <2>6, <2>7, <2>8, <2>9
  <1> QED BY <1>1, <1>2, <1>3, <1>4

(* The loop.                                                               *)
LEMMA LoopStep ==
  ASSUME IInv, PollData \/ PollEmpty \/ Test \/ SendPacket \/ Finish
  PROVE  IInv'
  <1> USE CommandConstants
          DEF IInv, child, clock, loop, talk, Jobs, CommandConstants
  <1>1. CASE PollData
    <2>1. Clocks' /\ Children'
      BY <1>1 DEF PollData, Clocks, Children
    <2>2. Reapable'
      BY <1>1 DEF PollData, Reapable, ReaperNeverBlocks
    <2>3. Places'
      BY <1>1 DEF PollData, Streaming, Places
    <2>4. Flags'
      BY <1>1 DEF PollData, Streaming, Flags
    <2>5. Counts'
      BY <1>1 DEF PollData, Streaming, Counts
    <2>6. Request'
      BY <1>1 DEF PollData, Streaming, Places, Request
    <2>7. Awaited'
      BY <1>1
      DEF PollData, Streaming, Places, Flags, Counts, Children, Request,
          Awaited, DoneMeansExited
    <2>8. Drained'
      BY <1>1
      DEF PollData, Streaming, Places, Flags, Counts, Clocks, Children,
          Request, Drained, DrainedBeforeDone
    <2>9. Paced'
      BY <1>1 DEF PollData, Streaming, Places, Clocks, Paced
    <2>10. Overdue'
      BY <1>1 DEF PollData, Streaming, Places, Flags, Counts, Clocks, Overdue
    <2> QED BY <2>1, <2>2, <2>3, <2>4, <2>5, <2>6, <2>7, <2>8, <2>9, <2>10
  <1>2. CASE PollEmpty
    <2>1. Clocks' /\ Children'
      BY <1>2 DEF PollEmpty, Clocks, Children
    <2>2. Reapable'
      BY <1>2 DEF PollEmpty, Reapable, ReaperNeverBlocks
    <2>3. Places'
      BY <1>2 DEF PollEmpty, Streaming, Places
    <2>4. Flags'
      BY <1>2 DEF PollEmpty, Streaming, Flags
    <2>5. Counts'
      BY <1>2 DEF PollEmpty, Streaming, Counts
    <2>6. Request'
      BY <1>2 DEF PollEmpty, Streaming, Places, Request
    <2>7. Awaited'
      BY <1>2
      DEF PollEmpty, Streaming, Places, Flags, Counts, Children, Request,
          Awaited, DoneMeansExited
    <2>8. Drained'
      BY <1>2
      DEF PollEmpty, Streaming, Places, Flags, Counts, Clocks, Children,
          Request, Drained, DrainedBeforeDone
    <2>9. Paced'
      BY <1>2 DEF PollEmpty, Streaming, Places, Clocks, Paced
    <2>10. Overdue'
      BY <1>2 DEF PollEmpty, Streaming, Places, Flags, Counts, Clocks, Overdue
    <2> QED BY <2>1, <2>2, <2>3, <2>4, <2>5, <2>6, <2>7, <2>8, <2>9, <2>10
  <1>3. CASE Test
    <2>1. Flags' /\ Counts' /\ Clocks' /\ Children'
      BY <1>3 DEF Test, Flags, Counts, Clocks, Children
    <2>2. Reapable'
      BY <1>3 DEF Test, Reapable, ReaperNeverBlocks
    <2>3. Places'
      BY <1>3 DEF Test, Streaming, Places
    <2>4. Request'
      BY <1>3 DEF Test, Streaming, Places, Request
    <2>5. Awaited'
      BY <1>3
      DEF Test, Streaming, Places, Flags, Counts, Children, Request, Awaited,
          DoneMeansExited
    <2>6. Drained'
      BY <1>3
      DEF Test, Streaming, Places, Flags, Counts, Clocks, Children, Request,
          Drained, DrainedBeforeDone
    <2>7. Paced'
      BY <1>3 DEF Test, Streaming, Places, Clocks, Paced
    <2>8. Overdue'
      BY <1>3 DEF Test, Streaming, Places, Flags, Counts, Clocks, Overdue
    <2> QED BY <2>1, <2>2, <2>3, <2>4, <2>5, <2>6, <2>7, <2>8
  <1>4. CASE SendPacket
    <2>1. Counts' /\ Children'
      BY <1>4 DEF SendPacket, Counts, Children
    <2>2. Reapable'
      BY <1>4 DEF SendPacket, Reapable, ReaperNeverBlocks
    <2>3. Places'
      BY <1>4 DEF SendPacket, Streaming, Places
    <2>4. Flags'
      BY <1>4 DEF SendPacket, Streaming, Flags
    <2>5. Clocks'
      BY <1>4 DEF SendPacket, Streaming, Clocks
    <2>6. Request'
      BY <1>4 DEF SendPacket, Streaming, Places, Request
    <2>7. Awaited'
      BY <1>4
      DEF SendPacket, Streaming, Places, Flags, Counts, Children, Request,
          Awaited, DoneMeansExited
    <2>8. Drained'
      BY <1>4
      DEF SendPacket, Streaming, Places, Flags, Counts, Clocks, Children,
          Request, Drained, DrainedBeforeDone
    <2>9. Paced'
      BY <1>4 DEF SendPacket, Streaming, Places, Clocks, Paced
    <2>10. Overdue'
      BY <1>4 DEF SendPacket, Streaming, Places, Flags, Counts, Clocks, Overdue
    <2> QED BY <2>1, <2>2, <2>3, <2>4, <2>5, <2>6, <2>7, <2>8, <2>9, <2>10
  <1>5. CASE Finish
    <2>1. Flags' /\ Children'
      BY <1>5 DEF Finish, Flags, Children, Return
    <2>2. Reapable'
      BY <1>5 DEF Finish, Reapable, ReaperNeverBlocks, Return
    <2>3. Places'
      BY <1>5 DEF Finish, Streaming, Return, Places
    <2>4. Counts'
      BY <1>5 DEF Finish, Streaming, Return, Counts
    <2>5. Clocks'
      BY <1>5 DEF Finish, Streaming, Return, Clocks
    <2>6. Request'
      BY <1>5 DEF Finish, Streaming, Return, Places, Request
    <2>7. Awaited'
      BY <1>5
      DEF Finish, Streaming, Return, Places, Flags, Counts, Children, Request,
          Awaited, DoneMeansExited
    <2>8. Drained'
      BY <1>5
      DEF Finish, Streaming, Return, Places, Flags, Counts, Clocks, Children,
          Request, Drained, DrainedBeforeDone
    <2>9. Paced'
      BY <1>5 DEF Finish, Streaming, Return, Places, Clocks, Paced
    <2>10. Overdue'
      BY <1>5
      DEF Finish, Streaming, Return, Places, Flags, Counts, Clocks, Overdue
    <2> QED BY <2>1, <2>2, <2>3, <2>4, <2>5, <2>6, <2>7, <2>8, <2>9, <2>10
  <1> QED BY <1>1, <1>2, <1>3, <1>4, <1>5

(* The children and the signal handler.                                    *)
LEMMA ChildStep ==
  ASSUME IInv, 
         \/ Write \/ EnterHandler \/ Reap
         \/ \E j \in Jobs : Exit(j)
  PROVE  IInv'
  <1> USE CommandConstants
          DEF IInv, child, clock, loop, talk, Jobs, CommandConstants
  <1>1. CASE Write
    <2>1. Places' /\ Flags' /\ Clocks' /\ Children'
      BY <1>1 DEF Write, Places, Flags, Clocks, Children
    <2>2. Reapable' /\ Request' /\ Awaited' /\ Paced' /\ Overdue'
      BY <1>1
      DEF Write, Reapable, ReaperNeverBlocks, Request, Awaited,
          DoneMeansExited, Paced, MaxElapsed, Overdue
    <2>3. Counts'
      BY <1>1 DEF Write, Counts
    <2>4. Drained'
      BY <1>1
      DEF Write, Places, Flags, Counts, Clocks, Children, Request, Drained,
          DrainedBeforeDone
    <2> QED BY <2>1, <2>2, <2>3, <2>4
  <1>2. ASSUME NEW j \in Jobs, Exit(j) PROVE IInv'
    <2>1. Places' /\ Counts' /\ Clocks'
      BY <1>2 DEF Exit, Places, Counts, Clocks
    <2>2. Request' /\ Paced' /\ Overdue'
      BY <1>2 DEF Exit, Request, Paced, MaxElapsed, Overdue
    <2>3. Flags'
      BY <1>2 DEF Exit, Flags
    <2>4. Children'
      BY <1>2 DEF Exit, Counts, Children
    <2>5. Reapable'
      <3>1. j \notin zombies /\ zombies' = zombies \union {j} /\ handling' = handling
        BY <1>2 DEF Exit, Children
      <3>2. ASSUME handling PROVE \E i, k \in zombies' : i # k
        BY <3>1, <3>2 DEF Reapable, ReaperNeverBlocks
      <3> QED BY <3>1, <3>2 DEF Reapable, ReaperNeverBlocks
    <2>6. Awaited'
      BY <1>2
      DEF Exit, Places, Flags, Counts, Children, Request, Awaited,
          DoneMeansExited
    <2>7. Drained'
      BY <1>2
      DEF Exit, Places, Flags, Counts, Clocks, Children, Request, Drained,
          DrainedBeforeDone
    <2> QED BY <2>1, <2>2, <2>3, <2>4, <2>5, <2>6, <2>7
  <1>3. CASE EnterHandler
    <2>1. Clocks' /\ Children'
      BY <1>3 DEF EnterHandler, Clocks, Children
    <2>2. Places'
      BY <1>3 DEF EnterHandler, Places
    <2>3. Flags'
      BY <1>3 DEF EnterHandler, Flags
    <2>4. Counts'
      BY <1>3 DEF EnterHandler, Counts
    <2>5. Reapable'
      BY <1>3 DEF EnterHandler, Flags, Children, Reapable, ReaperNeverBlocks
    <2>6. Request'
      BY <1>3 DEF EnterHandler, Places, Request
    <2>7. Awaited'
      BY <1>3
      DEF EnterHandler, Places, Flags, Counts, Children, Request, Awaited,
          DoneMeansExited
    <2>8. Drained'
      BY <1>3
      DEF EnterHandler, Places, Flags, Counts, Clocks, Children, Request,
          Drained, DrainedBeforeDone
    <2>9. Paced'
      BY <1>3 DEF EnterHandler, Places, Clocks, Paced
    <2>10. Overdue'
      BY <1>3 DEF EnterHandler, Places, Flags, Counts, Clocks, Overdue
    <2> QED BY <2>1, <2>2, <2>3, <2>4, <2>5, <2>6, <2>7, <2>8, <2>9, <2>10
  <1>4. CASE Reap
    <2>1. Places' /\ Counts' /\ Clocks'
      BY <1>4 DEF Reap, Places, Counts, Clocks
    <2>2. Request' /\ Drained' /\ Paced'
      BY <1>4 DEF Reap, Request, Drained, DrainedBeforeDone, Paced, MaxElapsed
    <2>3. Flags'
      BY <1>4 DEF Reap, Flags
    <2>4. Children'
      BY <1>4 DEF Reap, Counts, Children
    <2>5. Reapable'
      BY <1>4 DEF Reap, Flags, Children, Reapable, ReaperNeverBlocks
    <2>6. Awaited'
      BY <1>4
      DEF Reap, Places, Flags, Counts, Children, Request, Awaited,
          DoneMeansExited
    <2>7. Overdue'
      BY <1>4 DEF Reap, Places, Flags, Counts, Clocks, Overdue
    <2> QED BY <2>1, <2>2, <2>3, <2>4, <2>5, <2>6, <2>7
  <1> QED BY <1>1, <1>2, <1>3, <1>4

(* The clock.                                                              *)
LEMMA ClockStep ==
  ASSUME IInv, Tick \/ ClientGivesUp
  PROVE  IInv'
  <1> USE CommandConstants
          DEF IInv, child, clock, loop, talk, Jobs, CommandConstants
  <1>1. CASE Tick
    <2>1. Places' /\ Flags' /\ Children'
      BY <1>1 DEF Tick, Places, Flags, Children
    <2>2. Reapable' /\ Request' /\ Awaited' /\ Drained'
      BY <1>1
      DEF Tick, Reapable, ReaperNeverBlocks, Request, Awaited, DoneMeansExited,
          Drained, DrainedBeforeDone
    <2>3. Counts'
      BY <1>1 DEF Tick, Least, Counts
    <2>4. /\ TicksPerSecond \in Nat \ {0} /\ ClientTimeout \in Nat /\ HistoryCap \in Nat
          /\ MaxTimeout \in Nat /\ MaxElapsed \in Nat
      BY Successor DEF MaxElapsed
    <2>5. tick' = IF tick + 1 = TicksPerSecond THEN 0 ELSE tick + 1
      BY <1>1, <2>4, Wrap DEF Tick, Clocks
    <2>6. /\ secs' \in Nat /\ secs' \in {secs, secs + 1, MaxTimeout}
          /\ tick' # 0 \/ pc = "idle" => secs' = secs
          /\ pc # "idle" => secs' <= IF tick' = 0 THEN secs + 1 ELSE secs
      BY <1>1, <2>4 DEF Tick, Least, Clocks
    <2>7. Clocks'
      BY <1>1, <2>4, <2>5, <2>6 DEF Tick, Least, Clocks
    <2>8. Overdue'
      <3>1. pc = "end" => timeout <= MaxTimeout
        BY EffectiveRange DEF Request
      <3> QED BY <1>1, <2>4, <3>1, EffectiveRange DEF Tick, Least, Flags, Counts, Clocks, Overdue, Request
    <2>9. Paced'
      <3> SUFFICES ASSUME pc # "idle", elapsed' # MaxElapsed
                   PROVE elapsed' > secs' * TicksPerSecond + tick' - TicksPerSecond
        BY <1>1 DEF Tick, Paced
      <3>1. elapsed' = elapsed + 1 /\ elapsed # MaxElapsed
        BY <1>1, <2>4 DEF Tick, Least, Clocks
      <3>2. elapsed > secs * TicksPerSecond + tick - TicksPerSecond
        BY <3>1 DEF Paced
      <3>3. /\ secs \in Nat /\ tick \in Nat /\ elapsed \in Nat
        BY <2>4 DEF Clocks
      <3>4. CASE tick' # 0
        <4>1. secs' = secs /\ tick' = tick + 1 /\ secs * TicksPerSecond \in Nat
          BY <2>4, <2>5, <2>6, <3>3, <3>4, Successor
        <4> QED BY <2>4, <3>1, <3>2, <3>3, <4>1
      <3>5. CASE tick' = 0
        <4>1. secs' \in Nat /\ secs + 1 \in Nat /\ secs' <= secs + 1
          BY <2>6, <3>3, <3>5
        <4>2. secs' * TicksPerSecond <= (secs + 1) * TicksPerSecond
          BY <2>4, <4>1, Monotone
        <4>3. (secs + 1) * TicksPerSecond = secs * TicksPerSecond + TicksPerSecond
          BY <2>4, <3>3, Successor
        <4>4. secs * TicksPerSecond \in Nat /\ secs' * TicksPerSecond \in Nat
          BY <2>4, <2>6, <3>3, Successor
        <4> QED BY <2>4, <2>5, <3>1, <3>2, <3>3, <3>5, <4>2, <4>3, <4>4
      <3> QED BY <3>4, <3>5
    <2> QED BY <2>1, <2>2, <2>3, <2>7, <2>8, <2>9
  <1>2. CASE ClientGivesUp
    <2>1. Flags' /\ Counts' /\ Clocks' /\ Children'
      BY <1>2 DEF ClientGivesUp, Flags, Counts, Clocks, Children
    <2>2. Reapable' /\ Request' /\ Awaited' /\ Drained' /\ Paced' /\ Overdue'
      BY <1>2
      DEF ClientGivesUp, Reapable, ReaperNeverBlocks, Request, Awaited,
          DoneMeansExited, Drained, DrainedBeforeDone, Paced, MaxElapsed,
          Overdue
    <2>3. Places'
      BY <1>2 DEF ClientGivesUp, Places
    <2> QED BY <2>1, <2>2, <2>3
  <1> QED BY <1>1, <1>2

-----------------------------------------------------------------------------
(* The invariant and what follows from it.                                 *)

LEMMA Initially == Init => IInv
  <1> SUFFICES ASSUME Init PROVE IInv
    OBVIOUS
  <1> USE CommandConstants DEF Init, CommandConstants
  <1>1. Places /\ Flags /\ Children
    BY DEF Places, Flags, Children
  <1>2. Counts /\ Clocks
    BY DEF Counts, Clocks
  <1>3. Reapable /\ Request /\ Awaited
    BY DEF Reapable, ReaperNeverBlocks, Request, Awaited, DoneMeansExited
  <1>4. Drained /\ Paced /\ Overdue
    BY DEF Drained, DrainedBeforeDone, Paced, Overdue
  <1> QED BY <1>1, <1>2, <1>3, <1>4 DEF IInv

LEMMA Stuttering == IInv /\ UNCHANGED vars => IInv'
  <1> SUFFICES ASSUME IInv, UNCHANGED vars PROVE IInv'
    OBVIOUS
  <1> USE DEF IInv, vars, child, clock, loop, talk
  <1>1. Places' /\ Flags' /\ Counts' /\ Clocks' /\ Children'
    BY DEF Places, Flags, Counts, Clocks, Children
  <1>2. Reapable' /\ Request' /\ Awaited'
    BY DEF Reapable, ReaperNeverBlocks, Request, Awaited, DoneMeansExited
  <1>3. Drained' /\ Paced' /\ Overdue'
    BY DEF Drained, DrainedBeforeDone, Paced, Overdue
  <1> QED BY <1>1, <1>2, <1>3

LEMMA Invariant == Spec => []IInv
  <1>1. IInv /\ [Next]_vars => IInv'
    BY RequestStep, LoopStep, ChildStep, ClockStep, Stuttering DEF Next
  <1> QED BY <1>1, Initially, PTL DEF Spec

(* Types.                                                                  *)
THEOREM TypeCorrect == Spec => []TypeOK
  <1>1. ASSUME IInv PROVE live \subseteq Jobs /\ zombies \subseteq Jobs
    BY <1>1, CommandConstants DEF IInv, Counts, Children, Jobs, CommandConstants
  <1>2. IInv => TypeOK
    BY <1>1 DEF IInv, TypeOK, Places, Flags, Counts, Clocks, Children
  <1> QED BY <1>2, Invariant, PTL

(* The signal handler always finds a child to wait for.                    *)
THEOREM ReaperNeverHangs == Spec => []ReaperNeverBlocks
  <1>1. IInv => ReaperNeverBlocks
    BY DEF IInv, Reapable
  <1> QED BY <1>1, Invariant, PTL

(* "done" is told of a command that runs only if another child was taken   *)
(* for it.                                                                 *)
THEOREM DoneAlwaysMeansExited == Spec => []DoneMeansExited
  <1>1. IInv => DoneMeansExited
    BY DEF IInv, Awaited
  <1> QED BY <1>1, Invariant, PTL

(* No output of a command that had exited is left in the pipe.             *)
THEOREM AlwaysDrained == Spec => []DrainedBeforeDone
  <1>1. IInv => DrainedBeforeDone
    BY DEF IInv, Drained
  <1> QED BY <1>1, Invariant, PTL

(* A command gets all of its timeout but the last second.                  *)
THEOREM NeverKilledEarly == Spec => []KilledNotEarly
  <1>1. ASSUME IInv, pc = "end", child_pending
        PROVE  elapsed > (Effective(asked) - 1) * TicksPerSecond
    <2> DEFINE e == Effective(asked)
    <2>1. e \in Nat \ {0} /\ e <= MaxTimeout /\ timeout = e
      BY <1>1, EffectiveRange DEF IInv, Request
    <2>2. secs \in Nat /\ secs >= e /\ tick \in Nat /\ elapsed \in Nat
      BY <1>1, <2>1, CommandConstants DEF IInv, Overdue, Flags, Clocks, CommandConstants
    <2>3. TicksPerSecond \in Nat \ {0} /\ MaxTimeout \in Nat
      BY CommandConstants DEF CommandConstants
    <2> HIDE DEF e
    <2>4. /\ e * TicksPerSecond <= secs * TicksPerSecond
          /\ e * TicksPerSecond <= MaxElapsed
      BY <2>1, <2>2, <2>3, Monotone DEF MaxElapsed
    <2>5. /\ (e - 1) * TicksPerSecond = e * TicksPerSecond - TicksPerSecond
          /\ e * TicksPerSecond \in Nat /\ secs * TicksPerSecond \in Nat
          /\ MaxElapsed \in Nat
      BY <2>1, <2>2, <2>3, Successor DEF MaxElapsed
    <2>6. \/ elapsed = MaxElapsed
          \/ elapsed > secs * TicksPerSecond + tick - TicksPerSecond
      BY <1>1 DEF IInv, Paced
    <2>7. elapsed > (e - 1) * TicksPerSecond
      BY <2>2, <2>3, <2>4, <2>5, <2>6
    <2> QED BY <2>7 DEF e
  <1>2. IInv => KilledNotEarly
    BY <1>1 DEF KilledNotEarly
  <1> QED BY <1>2, Invariant, PTL
=============================================================================
