----------------------------- MODULE EadCommand -----------------------------
(***************************************************************************)
(* handle_send_cmd of ead (package/ead/src/ead.c): a command is started as *)
(* a child process, its output is read from a pipe and sent to the client  *)
(* in RESULT_CMD packets until the child is gone or the timeout is over.   *)
(* The loop learns that "the child" is gone from child_pending, which      *)
(* instance_handle_sigchld clears for whatever child it has reaped. The    *)
(* module interleaves the loop with the signal handler, with the children, *)
(* with the clock and with the deadline of send_packet in ead-client.c.    *)
(*                                                                         *)
(* Time passes in ticks of PCAP_TIMEOUT (200 ms), TicksPerSecond of them   *)
(* in the seconds the loop counts. Output is counted in reads of the pipe. *)
(***************************************************************************)
EXTENDS Integers, FiniteSets

CONSTANTS
  MaxJobs,          \* bound: commands received
  Background,       \* may commands be EAD_CMD_BACKGROUND?
  ForkMayFail,      \* may fork fail?
  Timeouts,         \* the timeouts clients ask for, in seconds
  EAD_CMD_TIMEOUT,  \* used instead of a timeout of 0
  TicksPerSecond,
  ClientTimeout,    \* EAD_TIMEOUT_LONG in ticks
  FdLimit,          \* descriptors left to the instance
  PipeSize,         \* capacity of the pipe
  MaxOutput,        \* bound: what a command writes
  MaxTimeout,       \* bound: seconds are counted up to here
  HistoryCap        \* ticks of silence are counted up to here

ASSUME CommandConstants ==
  /\ MaxJobs \in Nat /\ Background \in BOOLEAN /\ ForkMayFail \in BOOLEAN
  /\ Timeouts \subseteq Nat /\ EAD_CMD_TIMEOUT \in Nat \ {0}
  /\ MaxTimeout \in Nat /\ \A t \in Timeouts \union {EAD_CMD_TIMEOUT} : t <= MaxTimeout
  /\ TicksPerSecond \in Nat \ {0} /\ ClientTimeout \in Nat \ {0}
  /\ FdLimit \in Nat /\ PipeSize \in Nat \ {0} /\ MaxOutput \in Nat
  /\ HistoryCap \in Nat

Jobs == 1 .. MaxJobs

(* The timeout a request really gets.                                      *)
Effective(t) == IF t = 0 THEN EAD_CMD_TIMEOUT ELSE t

VARIABLES
  pc,             \* where handle_send_cmd is; "idle" outside of it
  jobs,           \* children forked so far; the last NORMAL one is cmd
  cmd,            \* pid of the streamed command, 0 before the first
  timeout,        \* its timeout in seconds, after the default was put in
  asked,          \* the timeout in its request
  child_pending,
  fds,            \* descriptors of pipes that are open
  bytes,          \* what the last read of the pipe returned, 0 or 1
  budget,         \* what select has left of tv: Linux writes it back
  live,           \* children that run
  zombies,        \* children that have exited and were not waited for
  sigchld,        \* is SIGCHLD pending? Signals do not queue
  handling,       \* is instance_handle_sigchld between its entry and wait?
  written,        \* output of cmd so far
  read,           \* how much of it was read from the pipe
  tick,           \* the clock within the second
  secs,           \* seconds that have begun while cmd was streamed
  elapsed,        \* ticks meanwhile, up to MaxTimeout seconds
  foreign,        \* was another child waited for while cmd was streamed?
  goneAtPoll,     \* had cmd exited when select last returned?
  timedOut,       \* did the loop end because of the clock?
  answer,         \* how the last request ended: "none" without a reply
  client,         \* "idle", "waiting", "ok" or "failed"
  patience,       \* ticks since the client sent its request
  silence         \* ticks since a packet reached it

child == <<live, zombies, sigchld, handling, written>>
clock == <<tick, secs, elapsed>>
loop == <<cmd, timeout, asked, budget>>
talk == <<client, patience, silence>>
vars == <<pc, jobs, loop, child_pending, fds, bytes, child, read, clock,
          foreign, goneAtPoll, timedOut, answer, talk>>

Least(a, b) == IF a < b THEN a ELSE b

MaxElapsed == MaxTimeout * TicksPerSecond

Init ==
  /\ pc = "idle" /\ jobs = 0
  /\ cmd = 0 /\ timeout = 1 /\ asked = 1 /\ budget = 0
  /\ child_pending = FALSE
  /\ fds = 0 /\ bytes = 0
  /\ live = {} /\ zombies = {} /\ sigchld = FALSE /\ handling = FALSE
  /\ written = 0 /\ read = 0
  /\ tick \in 0 .. TicksPerSecond - 1 /\ secs = 0 /\ elapsed = 0
  /\ foreign = FALSE /\ goneAtPoll = FALSE /\ timedOut = FALSE
  /\ answer = "none"
  /\ client = "idle" /\ patience = 0 /\ silence = 0

-----------------------------------------------------------------------------
(* A client sends a command; the instance takes it when it is not busy. No *)
(* step of the instance happens while its signal handler runs.             *)

NewRequest ==
  /\ pc = "idle" /\ ~handling
  /\ jobs < MaxJobs
  /\ client # "waiting"
  /\ patience' = 0 /\ silence' = 0

(* Mutant: a timeout of 0 is taken as it is.                               *)
StartNormalNoDefault(t) ==
  /\ NewRequest /\ fds + 2 <= FdLimit
  /\ jobs' = jobs + 1 /\ cmd' = jobs + 1 /\ live' = live \union {jobs + 1}
  /\ asked' = t /\ timeout' = t
  /\ child_pending' = TRUE
  /\ fds' = fds + 1
  /\ budget' = 1 /\ secs' = 0 /\ elapsed' = 0 /\ written' = 0 /\ read' = 0
  /\ foreign' = FALSE /\ timedOut' = FALSE /\ answer' = "none"
  /\ client' = "waiting" /\ pc' = "select"
  /\ UNCHANGED <<bytes, zombies, sigchld, handling, tick, goneAtPoll>>

(* EAD_CMD_NORMAL: pipe, child_pending, fork. The parent closes the end it *)
(* does not read; the end it reads is never closed.                        *)
StartNormal(t) ==
  /\ NewRequest /\ fds + 2 <= FdLimit
  /\ jobs' = jobs + 1 /\ cmd' = jobs + 1 /\ live' = live \union {jobs + 1}
  /\ asked' = t /\ timeout' = Effective(t)
  /\ child_pending' = TRUE
  /\ fds' = fds + 1
  /\ budget' = 1 /\ secs' = 0 /\ elapsed' = 0 /\ written' = 0 /\ read' = 0
  /\ foreign' = FALSE /\ timedOut' = FALSE /\ answer' = "none"
  /\ client' = "waiting" /\ pc' = "select"
  /\ UNCHANGED <<bytes, zombies, sigchld, handling, tick, goneAtPoll>>

(* pipe fails for lack of descriptors: no reply.                           *)
PipeFails ==
  /\ NewRequest /\ fds + 2 > FdLimit
  /\ jobs' = jobs + 1
  /\ answer' = "none" /\ client' = "waiting"
  /\ UNCHANGED <<pc, loop, child_pending, fds, bytes, child, read, clock,
                 foreign, goneAtPoll, timedOut>>

(* fork fails: no reply, both ends of the pipe and child_pending stay.     *)
ForkFails ==
  /\ ForkMayFail
  /\ NewRequest /\ fds + 2 <= FdLimit
  /\ jobs' = jobs + 1
  /\ child_pending' = TRUE
  /\ fds' = fds + 2
  /\ answer' = "none" /\ client' = "waiting"
  /\ UNCHANGED <<pc, loop, bytes, child, read, clock, foreign, goneAtPoll,
                 timedOut>>

(* EAD_CMD_BACKGROUND: fork and answer at once.                            *)
StartBackground ==
  /\ Background
  /\ NewRequest
  /\ jobs' = jobs + 1 /\ live' = live \union {jobs + 1}
  /\ answer' = "started" /\ client' = "ok"
  /\ UNCHANGED <<pc, loop, child_pending, fds, bytes, zombies, sigchld,
                 handling, written, read, clock, foreign, goneAtPoll, timedOut>>

-----------------------------------------------------------------------------
(* The loop: select and read, test, send and look at the clock.            *)

Streaming(where) == pc = where /\ ~handling

(* Mutant: the pipe is read without a look at what select has returned.    *)
PollDataBlind ==
  /\ Streaming("select")
  /\ read' = read + 1 /\ bytes' = 1
  /\ goneAtPoll' = (cmd \notin live)
  /\ pc' = "test"
  /\ UNCHANGED <<jobs, loop, child_pending, fds, child, clock, foreign,
                 timedOut, answer, talk>>

(* select finds output and read takes it.                                  *)
PollData ==
  /\ Streaming("select") /\ read < written
  /\ read' = read + 1 /\ bytes' = 1
  /\ goneAtPoll' = (cmd \notin live)
  /\ pc' = "test"
  /\ UNCHANGED <<jobs, loop, child_pending, fds, child, clock, foreign,
                 timedOut, answer, talk>>

(* select finds the end of the output, or its time is up.                  *)
PollEmpty ==
  /\ Streaming("select") /\ read = written
  /\ cmd \notin live \/ budget = 0
  /\ bytes' = 0
  /\ goneAtPoll' = (cmd \notin live)
  /\ pc' = "test"
  /\ UNCHANGED <<jobs, loop, child_pending, fds, child, read, clock, foreign,
                 timedOut, answer, talk>>

(* Mutant: the loop ends although there was output.                        *)
TestPending ==
  /\ Streaming("test")
  /\ pc' = IF ~child_pending THEN "end" ELSE "send"
  /\ UNCHANGED <<jobs, loop, child_pending, fds, bytes, child, read, clock,
                 foreign, goneAtPoll, timedOut, answer, talk>>

(* if (!bytes && !child_pending) break;                                    *)
Test ==
  /\ Streaming("test")
  /\ pc' = IF bytes = 0 /\ ~child_pending THEN "end" ELSE "send"
  /\ UNCHANGED <<jobs, loop, child_pending, fds, bytes, child, read, clock,
                 foreign, goneAtPoll, timedOut, answer, talk>>

(* Mutant: gettimeofday is not called again in the loop.                   *)
SendAndAgain ==
  /\ Streaming("send")
  /\ silence' = IF client = "waiting" THEN 0 ELSE silence
  /\ pc' = "select"
  /\ UNCHANGED <<jobs, loop, child_pending, fds, bytes, child, read, clock,
                 foreign, goneAtPoll, timedOut, answer, client, patience>>

(* A packet with the output, or an empty one, goes to the client. The loop *)
(* ends when timeout seconds have begun since it was entered.              *)
SendPacket ==
  /\ Streaming("send")
  /\ silence' = IF client = "waiting" THEN 0 ELSE silence
  /\ timedOut' = (secs >= timeout)
  /\ pc' = IF secs < timeout THEN "select" ELSE "end"
  /\ UNCHANGED <<jobs, loop, child_pending, fds, bytes, child, read, clock,
                 foreign, goneAtPoll, answer, client, patience>>

(* handle_send_cmd returns and its local variables are gone.               *)
Return ==
  /\ pc' = "idle"
  /\ timeout' = 1 /\ asked' = 1 /\ budget' = 0 /\ bytes' = 0
  /\ secs' = 0 /\ elapsed' = 0
  /\ UNCHANGED <<jobs, cmd, child_pending, fds, child, read, tick, foreign,
                 goneAtPoll, timedOut, patience, silence>>

(* Mutant: the child is taken to be gone.                                  *)
FinishAlways ==
  /\ Streaming("end")
  /\ answer' = "done" /\ client' = IF client = "waiting" THEN "ok" ELSE client
  /\ Return

(* After the loop: kill the child without a reply, or reply that it is     *)
(* done. The child that was killed exits in its own time.                  *)
Finish ==
  /\ Streaming("end")
  /\ \/ /\ child_pending
        /\ answer' = "killed"
        /\ UNCHANGED client
     \/ /\ ~child_pending
        /\ answer' = "done"
        /\ client' = IF client = "waiting" THEN "ok" ELSE client
  /\ Return

-----------------------------------------------------------------------------
(* The children. A streamed one writes to its pipe while there is room.    *)

Write ==
  /\ pc # "idle" /\ cmd \in live
  /\ written < MaxOutput /\ written - read < PipeSize
  /\ written' = written + 1
  /\ UNCHANGED <<pc, jobs, loop, child_pending, fds, bytes, live, zombies,
                 sigchld, handling, read, clock, foreign, goneAtPoll, timedOut,
                 answer, talk>>

Exit(j) ==
  /\ j \in live
  /\ live' = live \ {j} /\ zombies' = zombies \union {j} /\ sigchld' = TRUE
  /\ UNCHANGED <<pc, jobs, loop, child_pending, fds, bytes, handling, written,
                 read, clock, foreign, goneAtPoll, timedOut, answer, talk>>

(* The kernel enters the handler: SIGCHLD is taken off, and a select that  *)
(* was waiting fails with EINTR, which the loop takes for no output.       *)
EnterHandler ==
  /\ sigchld /\ ~handling
  /\ sigchld' = FALSE /\ handling' = TRUE
  /\ \/ UNCHANGED <<pc, bytes, goneAtPoll>>
     \/ /\ pc = "select" /\ read = written /\ budget > 0
        /\ pc' = "test" /\ bytes' = 0 /\ goneAtPoll' = (cmd \notin live)
  /\ UNCHANGED <<jobs, loop, child_pending, fds, live, zombies, written, read,
                 clock, foreign, timedOut, answer, talk>>

(* Mutant: the handler waits for every child that has exited.              *)
ReapAll ==
  /\ handling /\ zombies # {}
  /\ zombies' = {} /\ handling' = FALSE
  /\ child_pending' = FALSE
  /\ foreign' = (foreign \/ (pc # "idle" /\ zombies # {cmd}))
  /\ UNCHANGED <<pc, jobs, loop, fds, bytes, live, sigchld, written, read,
                 clock, goneAtPoll, timedOut, answer, talk>>

(* wait returns any one of the children that have exited.                  *)
Reap ==
  /\ handling
  /\ \E j \in zombies :
       /\ zombies' = zombies \ {j}
       /\ foreign' = (foreign \/ (pc # "idle" /\ j # cmd))
  /\ handling' = FALSE
  /\ child_pending' = FALSE
  /\ UNCHANGED <<pc, jobs, loop, fds, bytes, live, sigchld, written, read,
                 clock, goneAtPoll, timedOut, answer, talk>>

-----------------------------------------------------------------------------
(* A tick of the clock. select uses up its time; so does the client, whose *)
(* send_packet sets its timeout once, for all the packets it waits for.    *)
Tick ==
  /\ tick' = (tick + 1) % TicksPerSecond
  /\ secs' = IF pc # "idle" /\ tick' = 0 THEN Least(secs + 1, MaxTimeout) ELSE secs
  /\ elapsed' = IF pc # "idle" THEN Least(elapsed + 1, MaxElapsed) ELSE elapsed
  /\ budget' = IF pc = "select" THEN 0 ELSE budget
  /\ patience' = IF client = "waiting" THEN Least(patience + 1, ClientTimeout) ELSE patience
  /\ silence' = IF client = "waiting" THEN Least(silence + 1, HistoryCap) ELSE silence
  /\ UNCHANGED <<pc, jobs, cmd, timeout, asked, child_pending, fds, bytes,
                 child, read, foreign, goneAtPoll, timedOut, answer, client>>

ClientGivesUp ==
  /\ client = "waiting" /\ patience >= ClientTimeout
  /\ client' = "failed"
  /\ UNCHANGED <<pc, jobs, loop, child_pending, fds, bytes, child, read, clock,
                 foreign, goneAtPoll, timedOut, answer, patience, silence>>

Next ==
  \/ \E t \in Timeouts : StartNormal(t)
  \/ PipeFails \/ ForkFails \/ StartBackground
  \/ PollData \/ PollEmpty \/ Test \/ SendPacket \/ Finish
  \/ Write \/ \E j \in Jobs : Exit(j)
  \/ EnterHandler \/ Reap
  \/ Tick \/ ClientGivesUp

Spec == Init /\ [][Next]_vars

(* The instance and its signal handler are never stopped for good, and the *)
(* clock runs. The children need not make any progress.                    *)
Fairness ==
  /\ WF_vars(PollData) /\ WF_vars(PollEmpty) /\ WF_vars(Test)
  /\ WF_vars(SendPacket) /\ WF_vars(Finish)
  /\ WF_vars(EnterHandler) /\ WF_vars(Reap)
  /\ WF_vars(Tick)

FairSpec == Spec /\ Fairness

-----------------------------------------------------------------------------
TypeOK ==
  /\ pc \in {"idle", "select", "test", "send", "end"}
  /\ jobs \in 0 .. MaxJobs /\ cmd \in 0 .. jobs
  /\ timeout \in Nat \ {0} /\ asked \in Nat
  /\ child_pending \in BOOLEAN /\ sigchld \in BOOLEAN /\ handling \in BOOLEAN
  /\ fds \in 0 .. FdLimit
  /\ bytes \in {0, 1} /\ budget \in {0, 1}
  /\ live \subseteq Jobs /\ zombies \subseteq Jobs /\ live \cap zombies = {}
  /\ written \in 0 .. MaxOutput /\ read \in 0 .. written
  /\ tick \in 0 .. TicksPerSecond - 1 /\ secs \in Nat /\ elapsed \in Nat
  /\ foreign \in BOOLEAN /\ goneAtPoll \in BOOLEAN /\ timedOut \in BOOLEAN
  /\ answer \in {"none", "started", "done", "killed"}
  /\ client \in {"idle", "waiting", "ok", "failed"}
  /\ patience \in 0 .. ClientTimeout /\ silence \in 0 .. HistoryCap

(* instance_handle_sigchld calls wait without WNOHANG: it would hang the   *)
(* whole instance if no child had exited. However signals are merged and   *)
(* however children die while it runs, there is one left for it.           *)
ReaperNeverBlocks == sigchld \/ handling => zombies # {}

(* "done" is sent for a command that still runs only if another child of   *)
(* the instance (a background command, or an earlier one that was killed)  *)
(* was waited for in the meantime: child_pending does not tell them apart. *)
DoneMeansExited == answer = "done" /\ pc = "idle" => cmd \notin live \/ foreign

(* All output is sent before "done" if the command had exited before the   *)
(* last select and the clock did not end the loop. (What is written and    *)
(* followed by the exit between that select and the test of child_pending  *)
(* stays in the pipe.)                                                     *)
DrainedBeforeDone ==
  answer = "done" /\ goneAtPoll /\ ~timedOut => read = written

(* The loop compares whole seconds: a command may lose up to one second of *)
(* its timeout, but never more.                                            *)
KilledNotEarly ==
  pc = "end" /\ child_pending => elapsed > (Effective(asked) - 1) * TicksPerSecond

(* A command that never ends, prints without end, or never prints does not *)
(* occupy the instance for ever: handle_send_cmd returns.                  *)
StreamEnds == pc # "idle" ~> pc = "idle"

(* ead.c:555: "send keepalive packets every 200 ms so that the client      *)
(* doesn't timeout". A client that a packet has reached within the last    *)
(* 200 ms does not give up.                                                *)
KeepalivesKeepClient == client = "failed" => silence > 1
=============================================================================
