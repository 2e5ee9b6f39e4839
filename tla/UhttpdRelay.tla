---------------------------- MODULE UhttpdRelay ----------------------------
(***************************************************************************)
(* How the web server runs a script (package/uhttpd/src): uh_cgi_request   *)
(* (uhttpd-cgi.c) and uh_lua_request (uhttpd-lua.c) relay between the      *)
(* client and a child over two pipes, one request at a time. SIGCHLD is    *)
(* delivered only inside select_intr. Output is counted in units; the      *)
(* server tells them apart only by the end of a CGI header.                *)
(***************************************************************************)
EXTENDS Integers

CONSTANTS
  MaxOut,    \* units a script and what it leaves in the background write
  Bodies,    \* Content-Length: 0 without a POST, -1 for negative ones
  HdrSize,   \* UH_LIMIT_MSGHEAD: units in hdr, and in buf
  PipeSize,  \* units a pipe holds
  MaxFds     \* descriptors the process may have open for scripts

ASSUME UhttpdConstants ==
  /\ MaxOut \in Nat /\ Bodies \subseteq Nat \union {-1} /\ MaxFds \in Nat
  /\ HdrSize \in Nat \ {0} /\ PipeSize \in Nat \ {0}

VARIABLES
  kind,      \* uh_cgi_request or uh_lua_request
  pc,        \* where it is; write, both, read: what select has found ready
  body,      \* content_length; -1: nothing (more) to write
  hdrlen,    \* units in hdr
  started,   \* header_sent of CGI, data_sent of Lua
  sent,      \* units sent to the client
  client,    \* does the connection still take data?
  end,       \* why the loop was left
  child,     \* the script's process; gone: reaped, or none yet
  sigchld,   \* is SIGCHLD pending?
  plan,      \* units the script will have written when it ends
  head,      \* the unit its header ends with (may never be written)
  holders,   \* who holds the writing end of its stdout
  written,   \* units written
  got,       \* units read by the server
  owed,      \* written when the script (no background process) last wrote
  stdin,     \* is the server's end of its stdin open?
  input,     \* units in the pipe to it
  fds,       \* open descriptors of pipes
  failed     \* history: forks that have failed

relay == <<kind, pc, body, hdrlen, started, sent, end>>
script == <<child, plan, head, holders, written, owed>>
pipes == <<got, stdin, input, fds>>
vars == <<relay, client, script, sigchld, pipes, failed>>

Smaller(a, b) == IF a <= b THEN a ELSE b

Init ==
  /\ kind = "cgi" /\ pc = "idle" /\ body = 0
  /\ hdrlen = 0 /\ started = FALSE /\ sent = 0 /\ client = "ok" /\ end = "none"
  /\ child = "gone" /\ sigchld = FALSE /\ plan = 0 /\ head = 1 /\ holders = {}
  /\ written = 0 /\ got = 0 /\ owed = 0
  /\ stdin = FALSE /\ input = 0 /\ fds = 0 /\ failed = 0

-----------------------------------------------------------------------------
(* The script, what it leaves in the background, and the client.           *)

Running == pc \notin {"idle", "reap"}

Write(h) ==
  /\ Running /\ h \in holders
  /\ written - got < PipeSize
  /\ written < (IF h = "script" THEN plan ELSE MaxOut)
  /\ written' = written + 1
  /\ owed' = IF h = "script" THEN written + 1 ELSE owed
  /\ UNCHANGED <<relay, client, child, plan, head, holders, sigchld, pipes,
                 failed>>

ReadInput ==
  /\ child = "run" /\ input > 0
  /\ input' = input - 1
  /\ UNCHANGED <<relay, client, script, sigchld, got, stdin, fds, failed>>

(* A process in the background keeps stdout (its stdin is /dev/null).      *)
Background ==
  /\ Running /\ child = "run" /\ "script" \in holders
  /\ holders' = holders \union {"heir"}
  /\ UNCHANGED <<relay, client, child, plan, head, written, owed, sigchld, pipes,
                 failed>>

Release(h) ==
  /\ h \in holders
  /\ holders' = holders \ {h}
  /\ UNCHANGED <<relay, client, child, plan, head, written, owed, sigchld, pipes,
                 failed>>

(* The kernel closes the files of a process before it sends SIGCHLD.       *)
Exit ==
  /\ child = "run"
  /\ child' = "zombie" /\ sigchld' = TRUE
  /\ holders' = holders \ {"script"}
  /\ UNCHANGED <<relay, client, plan, head, written, owed, pipes, failed>>

(* A script that ends by itself has read its input and written its output. *)
Finish == ~stdin /\ input = 0 /\ (written >= plan \/ "script" \notin holders) /\ Exit

(* SIGTERM, once the server waits for the script.                          *)
Terminated == pc = "reap" /\ Exit

ClientGone ==
  /\ pc # "idle" /\ client = "ok"
  /\ client' = "gone"
  /\ UNCHANGED <<relay, script, sigchld, pipes, failed>>

-----------------------------------------------------------------------------
(* The request.                                                            *)

(* pipe fails: what was opened is closed, and 500 is sent.                 *)
Start(k, b, p, h) ==
  /\ pc = "idle" /\ fds + 4 <= MaxFds
  /\ kind' = k /\ pc' = "top" /\ body' = b
  /\ hdrlen' = 0 /\ started' = FALSE /\ sent' = 0 /\ client' = "ok" /\ end' = "none"
  /\ child' = "run" /\ plan' = p /\ head' = h /\ holders' = {"script"}
  /\ written' = 0 /\ got' = 0 /\ owed' = 0
  /\ stdin' = TRUE /\ input' = 0 /\ fds' = fds + 2
  /\ UNCHANGED <<sigchld, failed>>

(* Both ends of both pipes stay open.                                      *)
ForkFails ==
  /\ pc = "idle" /\ fds + 4 <= MaxFds
  /\ fds' = fds + 4 /\ failed' = failed + 1
  /\ UNCHANGED <<relay, client, script, sigchld, got, stdin, input>>

(* uh_sigchld: every child that has ended is reaped.                       *)
uh_sigchld ==
  /\ sigchld' = FALSE
  /\ child' = IF sigchld /\ child = "zombie" THEN "gone" ELSE child

Readable == written > got \/ holders = {}

Writable == body > -1 /\ (input < PipeSize \/ child # "run")

Leave(why) == pc' = "out" /\ end' = why

(* Mutant: a SIGCHLD that was pending ends the loop as well.               *)
EnterSelectLeave ==
  /\ pc = "top"
  /\ uh_sigchld
  /\ IF sigchld THEN Leave("cut") ELSE pc' = "wait" /\ UNCHANGED end
  /\ UNCHANGED <<kind, body, hdrlen, started, sent, client, plan, head,
                 holders, written, owed, pipes, failed>>

(* select_intr unblocks SIGCHLD: the handler runs for a pending one, and   *)
(* only then does select begin.                                            *)
EnterSelect ==
  /\ pc = "top"
  /\ uh_sigchld
  /\ pc' = "wait"
  /\ UNCHANGED <<kind, body, hdrlen, started, sent, end, client, plan, head,
                 holders, written, owed, pipes, failed>>

SelectReady ==
  /\ pc = "wait" /\ (Readable \/ Writable)
  /\ uh_sigchld
  /\ pc' = CASE Writable /\ Readable -> "both"
              [] Writable /\ ~Readable -> "write"
              [] ~Writable -> "read"
  /\ UNCHANGED <<kind, body, hdrlen, started, sent, end, client, plan, head,
                 holders, written, owed, pipes, failed>>

(* EINTR. For CGI ensure_out skips the branch meant for this case.         *)
Interrupted ==
  /\ pc = "wait" /\ ~Readable /\ ~Writable /\ sigchld
  /\ uh_sigchld
  /\ Leave("cut")
  /\ UNCHANGED <<kind, body, hdrlen, started, sent, client, plan, head,
                 holders, written, owed, pipes, failed>>

(* Mutant: the relay waits on although the child is gone.                  *)
SelectTimeoutPatient ==
  /\ pc = "wait" /\ ~Readable /\ ~Writable /\ ~sigchld
  /\ kind = "lua" => ~started
  /\ IF kind = "cgi" THEN pc' = "top" /\ UNCHANGED end
                     ELSE Leave(IF client = "ok" THEN "504" ELSE "failed")
  /\ UNCHANGED <<kind, body, hdrlen, started, sent, client, script, sigchld,
                 pipes, failed>>

(* CGI goes on as long as kill(child, 0) finds the child; Lua has no       *)
(* timeout any more when it has sent something.                            *)
SelectTimeout ==
  /\ pc = "wait" /\ ~Readable /\ ~Writable /\ ~sigchld
  /\ kind = "lua" => ~started
  /\ CASE kind = "cgi" /\ child = "gone" -> Leave("cut")
       [] kind = "cgi" /\ child # "gone" -> pc' = "top" /\ UNCHANGED end
       [] kind = "lua" -> Leave(IF client = "ok" THEN "504" ELSE "failed")
  /\ UNCHANGED <<kind, body, hdrlen, started, sent, client, script, sigchld,
                 pipes, failed>>

-----------------------------------------------------------------------------
(* Input: a piece of the body is received and written.                     *)

Writing == pc \in {"write", "both"}
Onward == pc' = IF pc = "both" THEN "read" ELSE "top"

(* A write to a script that has ended fails, which is only logged.         *)
RelayBody ==
  /\ Writing /\ body > 0
  /\ body' = body - 1
  /\ input' = IF child = "run" THEN input + 1 ELSE input
  /\ Onward
  /\ UNCHANGED <<kind, hdrlen, started, sent, end, client, script,
                 sigchld, got, stdin, fds, failed>>

(* End of the client's data; for Lua an error is the same.                 *)
BodyEnds ==
  /\ Writing /\ body > 0
  /\ body' = 0
  /\ Onward
  /\ UNCHANGED <<kind, hdrlen, started, sent, end, client, script,
                 sigchld, pipes, failed>>

BodyFails ==
  /\ Writing /\ body > 0 /\ kind = "cgi"
  /\ Leave("failed")
  /\ UNCHANGED <<kind, body, hdrlen, started, sent, client, script,
                 sigchld, pipes, failed>>

CloseStdin ==
  /\ Writing /\ body = 0
  /\ stdin' = FALSE /\ fds' = fds - 1 /\ body' = -1
  /\ Onward
  /\ UNCHANGED <<kind, hdrlen, started, sent, end, client, script, sigchld,
                 got, input, failed>>

-----------------------------------------------------------------------------
(* Output.                                                                 *)

(* What is sent goes through, or the loop is left.                         *)
Sends(n) ==
  IF client = "ok"
    THEN started' = TRUE /\ sent' = sent + n /\ pc' = "top" /\ UNCHANGED end
    ELSE Leave("failed") /\ UNCHANGED <<started, sent>>

Buffered == Smaller(written - got, HdrSize)

(* Mutant: a full hdr is not taken into account.                           *)
ReadHeaderPast ==
  /\ pc = "read" /\ kind = "cgi" /\ ~started /\ written > got
  /\ hdrlen' = hdrlen + Buffered
  /\ got' = got + Buffered
  /\ IF head <= hdrlen' \/ hdrlen' >= HdrSize
       THEN Sends(hdrlen')
       ELSE pc' = "top" /\ UNCHANGED <<started, sent, end>>
  /\ UNCHANGED <<kind, body, client, script, sigchld, stdin, input, fds,
                 failed>>

(* Mutant: only what fits into hdr is sent.                                *)
ReadHeaderShort ==
  /\ pc = "read" /\ kind = "cgi" /\ ~started /\ written > got
  /\ LET bufoff == Smaller(Buffered, HdrSize - hdrlen) IN
       /\ hdrlen' = hdrlen + bufoff
       /\ got' = got + Buffered
       /\ IF head <= hdrlen + bufoff \/ hdrlen + bufoff = HdrSize
            THEN Sends(hdrlen + bufoff)
            ELSE pc' = "top" /\ UNCHANGED <<started, sent, end>>
  /\ UNCHANGED <<kind, body, client, script, sigchld, stdin, input, fds,
                 failed>>

(* Until the header is complete CGI output is collected in hdr. With the   *)
(* header, or an error 500 when hdr is full without one, go hdr and what   *)
(* did not fit into it.                                                    *)
ReadHeader ==
  /\ pc = "read" /\ kind = "cgi" /\ ~started /\ written > got
  /\ LET bufoff == Smaller(Buffered, HdrSize - hdrlen) IN
       /\ hdrlen' = hdrlen + bufoff
       /\ got' = got + Buffered
       /\ IF head <= hdrlen + bufoff \/ hdrlen + bufoff = HdrSize
            THEN Sends(hdrlen + Buffered)
            ELSE pc' = "top" /\ UNCHANGED <<started, sent, end>>
  /\ UNCHANGED <<kind, body, client, script, sigchld, stdin, input, fds,
                 failed>>

ReadOutput ==
  /\ pc = "read" /\ (kind = "cgi" => started) /\ written > got
  /\ got' = got + Buffered
  /\ Sends(Buffered)
  /\ UNCHANGED <<kind, body, hdrlen, client, script, sigchld, stdin, input,
                 fds, failed>>

(* End of the output. Without a complete header CGI sends a header of its  *)
(* own and what there is; Lua without output sends 500.                    *)
Eof ==
  /\ pc = "read" /\ written = got
  /\ sent' = IF client = "ok" /\ kind = "cgi" /\ ~started THEN hdrlen ELSE sent
  /\ Leave(IF client = "ok" THEN "eof" ELSE "failed")
  /\ UNCHANGED <<kind, body, hdrlen, started, client, script, sigchld, pipes,
                 failed>>

-----------------------------------------------------------------------------
(* out: wfd[1] is closed a second time, without effect, if it was before.  *)

(* Mutant: a second close finds a descriptor.                              *)
OutClosesTwice ==
  /\ pc = "out"
  /\ fds' = fds - 2 /\ stdin' = FALSE
  /\ pc' = IF child = "gone" THEN "idle" ELSE "reap"
  /\ UNCHANGED <<kind, body, hdrlen, started, sent, end, client, script,
                 sigchld, got, input, failed>>

(* Mutant: only a script that still runs is waited for.                    *)
OutLeavesZombie ==
  /\ pc = "out"
  /\ fds' = fds - (IF stdin THEN 2 ELSE 1) /\ stdin' = FALSE
  /\ pc' = IF child = "run" THEN "reap" ELSE "idle"
  /\ UNCHANGED <<kind, body, hdrlen, started, sent, end, client, script,
                 sigchld, got, input, failed>>

Out ==
  /\ pc = "out"
  /\ fds' = fds - (IF stdin THEN 2 ELSE 1) /\ stdin' = FALSE
  /\ pc' = IF child = "gone" THEN "idle" ELSE "reap"
  /\ UNCHANGED <<kind, body, hdrlen, started, sent, end, client, script,
                 sigchld, got, input, failed>>

(* waitpid; the SIGCHLD of this child stays pending.                       *)
Reap ==
  /\ pc = "reap" /\ child = "zombie"
  /\ child' = "gone" /\ pc' = "idle"
  /\ UNCHANGED <<kind, body, hdrlen, started, sent, end, client, plan, head,
                 holders, written, owed, sigchld, pipes, failed>>

-----------------------------------------------------------------------------
Relay ==
  \/ EnterSelect \/ SelectReady \/ Interrupted \/ SelectTimeout
  \/ RelayBody \/ BodyEnds \/ BodyFails \/ CloseStdin
  \/ ReadHeader \/ ReadOutput \/ Eof
  \/ Out \/ Reap

Next ==
  \/ \E k \in {"cgi", "lua"}, b \in Bodies, p \in 0 .. MaxOut, h \in 1 .. MaxOut + 1 :
       Start(k, b, p, h)
  \/ ForkFails
  \/ Relay
  \/ \E h \in {"script", "heir"} : Write(h) \/ Release(h)
  \/ ReadInput \/ Background \/ Exit \/ ClientGone

Spec == Init /\ [][Next]_vars

(* The server runs, its timeouts come, and a script that gets the end of   *)
(* its input and is rid of its output ends, or at the latest by SIGTERM.   *)
Fairness ==
  /\ WF_vars(Relay)
  /\ WF_vars(ReadInput) /\ WF_vars(Write("script"))
  /\ WF_vars(Finish) /\ WF_vars(Terminated)

FairSpec == Spec /\ Fairness

-----------------------------------------------------------------------------
TypeOK ==
  /\ kind \in {"cgi", "lua"}
  /\ pc \in {"idle", "top", "wait", "write", "both", "read", "out", "reap"}
  /\ body \in Int /\ body >= -1
  /\ hdrlen \in 0 .. HdrSize
  /\ started \in BOOLEAN /\ sent \in Nat /\ client \in {"ok", "gone"}
  /\ end \in {"none", "eof", "cut", "504", "failed"}
  /\ child \in {"run", "zombie", "gone"} /\ sigchld \in BOOLEAN
  /\ plan \in Nat /\ head \in Nat \ {0} /\ holders \subseteq {"script", "heir"}
  /\ written \in Nat /\ got \in 0 .. written /\ owed \in 0 .. written
  /\ stdin \in BOOLEAN /\ input \in 0 .. PipeSize
  /\ fds \in 0 .. MaxFds /\ failed \in Nat

(* What the server has read is with the client or in hdr.                  *)
NothingDropped ==
  pc # "idle" /\ end \in {"none", "eof"} =>
    got = IF kind = "cgi" /\ ~started THEN hdrlen ELSE sent

(* A reply that ended with the script's output is complete. The loop is    *)
(* cut short only when the script has died and is reaped, with everything  *)
(* it wrote itself relayed (or left in hdr, for want of a header): a       *)
(* SIGCHLD of this or of an earlier request never costs output.            *)
ReplyComplete ==
  /\ end = "eof" => holders = {} /\ sent = written
  /\ end = "cut" => child = "gone" /\ owed <= IF started THEN sent ELSE hdrlen

(* Seen from the client: the reply is what was written, in order and       *)
(* without a gap, of this request only; "whole", "cut" and 504 mean what   *)
(* they say, and nothing is sent after them. (hdr is what is held back.)   *)
Verdict == CASE end = "eof" -> "whole" [] end = "504" -> "replaced" [] OTHER -> end

Reply == INSTANCE ScriptReply WITH
  Held <- HdrSize, open <- pc # "idle", writers <- holders, own <- owed,
  taken <- got, passed <- sent, verdict <- Verdict

ImplementsReply == Reply!Spec

(* No child is left unreaped between requests, and one that has ended in   *)
(* the middle of a request still has its SIGCHLD to come.                  *)
ChildrenReaped ==
  /\ pc = "idle" => child = "gone"
  /\ child = "zombie" => sigchld

(* Pipes are closed once each, except for those of a fork that failed:     *)
(* four descriptors are lost with each.                                    *)
DescriptorsAccounted ==
  fds = 4 * failed + (IF Running THEN 1 ELSE 0) + (IF stdin THEN 1 ELSE 0)

(* The request hangs on somebody else: Lua waits without a timeout for a   *)
(* background process when the SIGCHLD came before select; or the client   *)
(* gave a negative Content-Length and the script waits for end of input.   *)
HeldOpen == \/ kind = "lua" /\ "heir" \in holders
            \/ body = -1 /\ stdin

(* Every request is done in the end, and the server free for the next one. *)
RelayEnds == pc # "idle" ~> pc = "idle" \/ HeldOpen

(* uhttpd.config:42: a script that does not write data within              *)
(* script_timeout is answered with 504: once select has given up on it the *)
(* server does not go back to wait.                                        *)
ScriptTimeout == [][pc = "wait" /\ pc' = "top" => started]_vars
=============================================================================
