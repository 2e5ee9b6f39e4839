-------------------------- MODULE UhttpdRelayProofs --------------------------
(***************************************************************************)
(* Proofs about UhttpdRelay, for any amount of output and input, any size  *)
(* of the buffers and any number of requests and failed forks.             *)
(***************************************************************************)
EXTENDS UhttpdRelay, TLAPS

(* TypeOK in three parts, for the provers.                                 *)
Flags == /\ started \in BOOLEAN /\ sigchld \in BOOLEAN /\ stdin \in BOOLEAN
         /\ kind \in {"cgi", "lua"} /\ client \in {"ok", "gone"}
         /\ end \in {"none", "eof", "cut", "504", "failed"}
         /\ child \in {"run", "zombie", "gone"}
         /\ holders \subseteq {"script", "heir"}
         /\ pc \in {"idle", "top", "wait", "write", "both", "read", "out", "reap"}

Counts == /\ body \in Int /\ body >= -1
          /\ hdrlen \in 0 .. HdrSize /\ sent \in Nat
          /\ plan \in Nat /\ head \in Nat \ {0}
          /\ written \in Nat /\ got \in 0 .. written /\ owed \in 0 .. written
          /\ input \in 0 .. PipeSize

Balance == fds \in 0 .. MaxFds /\ failed \in Nat

LEMMA TypeParts == TypeOK <=> Flags /\ Counts /\ Balance
  BY DEF TypeOK, Flags, Counts, Balance

Looping == pc \in {"top", "wait", "write", "both", "read"}

(* What the two pipes and the loop's last look at them say of each other.  *)
Pipes ==
  /\ Running /\ body > -1 => stdin
  /\ ~Running => ~stdin
  /\ Writing => body > -1 /\ (child = "run" => input < PipeSize)
  /\ pc \in {"both", "read"} => Readable
  /\ child # "run" => "script" \notin holders

(* A signal that is pending when select runs is that of the script.        *)
Signals ==
  pc \in {"wait", "write", "both", "read"} /\ sigchld => child = "zombie"

(* What has become of the output.                                          *)
Buffers ==
  /\ Looping => end = "none"
  /\ pc \in {"out", "reap"} => end # "none"
  /\ kind = "lua" => hdrlen = 0
  /\ Looping /\ ~started => sent = 0

IInv == /\ TypeOK /\ Pipes /\ Signals /\ Buffers
        /\ NothingDropped /\ ReplyComplete /\ ChildrenReaped /\ DescriptorsAccounted

LEMMA Initially == Init => IInv
  <1> USE DEF Running, Looping, Writing
  <1>1. Init => Flags
    BY DEF Init, Flags
  <1>2. Init => Counts /\ Balance
    BY UhttpdConstants DEF Init, Counts, Balance, UhttpdConstants
  <1>3. Init => Pipes /\ Signals /\ Buffers
    BY DEF Init, Pipes, Signals, Buffers
  <1>4. Init => NothingDropped /\ ReplyComplete /\ ChildrenReaped
    BY DEF Init, NothingDropped, ReplyComplete, ChildrenReaped
  <1>5. Init => DescriptorsAccounted
    BY DEF Init, DescriptorsAccounted
  <1> QED BY <1>1, <1>2, <1>3, <1>4, <1>5, TypeParts DEF IInv

(* Processes and the client.                                               *)
LEMMA WorldStep ==
  ASSUME IInv,
         \/ \E h \in {"script", "heir"} : Write(h) \/ Release(h)
         \/ ReadInput \/ Background \/ Exit \/ ClientGone
  PROVE  IInv'
  <1> USE UhttpdConstants DEF IInv, Running, Looping, Writing, UhttpdConstants, relay, script, pipes
  <1>1. ASSUME NEW h \in {"script", "heir"}, Write(h) PROVE IInv'
    <2>1. TypeOK' BY <1>1 DEF Write, TypeOK
    <2>2. Pipes' BY <1>1 DEF Write, TypeOK, Pipes, Readable
    <2>3. Signals' /\ Buffers' BY <1>1 DEF Write, Signals, Buffers
    <2>4. ReplyComplete' BY <1>1 DEF Write, TypeOK, Pipes, ReplyComplete
    <2>5. NothingDropped' /\ ChildrenReaped' /\ DescriptorsAccounted'
      BY <1>1 DEF Write, NothingDropped, ChildrenReaped, DescriptorsAccounted
    <2> QED BY <2>1, <2>2, <2>3, <2>4, <2>5
  <1>2. ASSUME NEW h \in {"script", "heir"}, Release(h) PROVE IInv'
    BY <1>2, SMT DEF Release, TypeOK, Pipes, Readable, Signals, Buffers, NothingDropped,
                ReplyComplete, ChildrenReaped, DescriptorsAccounted
  <1>3. CASE ReadInput
    BY <1>3, SMT DEF ReadInput, TypeOK, Pipes, Readable, Signals, Buffers, NothingDropped,
                ReplyComplete, ChildrenReaped, DescriptorsAccounted
  <1>4. CASE Background
    BY <1>4, SMT DEF Background, TypeOK, Pipes, Readable, Signals, Buffers, NothingDropped,
                ReplyComplete, ChildrenReaped, DescriptorsAccounted
  <1>5. CASE Exit
    BY <1>5, SMT DEF Exit, TypeOK, Pipes, Readable, Signals, Buffers, NothingDropped,
                ReplyComplete, ChildrenReaped, DescriptorsAccounted
  <1>6. CASE ClientGone
    BY <1>6, SMT DEF ClientGone, TypeOK, Pipes, Readable, Signals, Buffers, NothingDropped,
                ReplyComplete, ChildrenReaped, DescriptorsAccounted
  <1> QED BY <1>1, <1>2, <1>3, <1>4, <1>5, <1>6

(* A request begins.                                                       *)
LEMMA StartStep ==
  ASSUME IInv,
         \/ \E k \in {"cgi", "lua"}, b \in Bodies, p \in 0 .. MaxOut, h \in 1 .. MaxOut + 1 :
              Start(k, b, p, h)
         \/ ForkFails
  PROVE  IInv'
  <1> USE UhttpdConstants DEF IInv, Running, Looping, Writing, UhttpdConstants, relay, script, pipes
  <1>1. ASSUME NEW k \in {"cgi", "lua"}, NEW b \in Bodies, NEW p \in 0 .. MaxOut,
               NEW h \in 1 .. MaxOut + 1, Start(k, b, p, h)
        PROVE  IInv'
    <2>11. TypeOK'
      <3>1. Flags'
        BY <1>1 DEF Start, TypeOK, Flags
      <3>2. Counts'
        BY <1>1 DEF Start, TypeOK, Pipes, Counts
      <3>3. Balance'
        BY <1>1 DEF Start, TypeOK, Pipes, DescriptorsAccounted, Balance
      <3> QED BY <3>1, <3>2, <3>3 DEF TypeOK, Flags, Counts, Balance
    <2>12. Pipes' /\ Signals'
      BY <1>1 DEF Start, TypeOK, Pipes, Readable, Signals
    <2>13. Buffers'
      BY <1>1 DEF Start, TypeOK, Buffers
    <2>14. NothingDropped'
      BY <1>1 DEF Start, TypeOK, Buffers, NothingDropped
    <2>15. ReplyComplete'
      BY <1>1 DEF Start, TypeOK, Pipes, Readable, Signals, Buffers, NothingDropped, ReplyComplete
    <2>16. ChildrenReaped'
      BY <1>1 DEF Start, TypeOK, ChildrenReaped
    <2>17. DescriptorsAccounted'
      BY <1>1 DEF Start, TypeOK, Pipes, DescriptorsAccounted
    <2> QED BY <2>11, <2>12, <2>13, <2>14, <2>15, <2>16, <2>17
  <1>2. CASE ForkFails
    BY <1>2, SMT DEF ForkFails, TypeOK, Pipes, Readable, Signals, Buffers, NothingDropped,
                ReplyComplete, ChildrenReaped, DescriptorsAccounted
  <1> QED BY <1>1, <1>2

(* select_intr and what follows it.                                        *)
LEMMA SelectStep ==
  ASSUME IInv, EnterSelect \/ SelectReady \/ Interrupted \/ SelectTimeout
  PROVE  IInv'
  <1> USE UhttpdConstants DEF IInv, Running, Looping, Writing, UhttpdConstants, relay,
          script, pipes, uh_sigchld, Leave
  <1>1. CASE EnterSelect
    <2>11. TypeOK'
      <3>1. Flags'
        BY <1>1 DEF EnterSelect, TypeOK, Flags
      <3>2. Counts'
        BY <1>1 DEF EnterSelect, TypeOK, Pipes, Counts
      <3>3. Balance'
        BY <1>1 DEF EnterSelect, TypeOK, Pipes, DescriptorsAccounted, Balance
      <3> QED BY <3>1, <3>2, <3>3 DEF TypeOK, Flags, Counts, Balance
    <2>12. Pipes' /\ Signals'
      BY <1>1 DEF EnterSelect, TypeOK, Pipes, Readable, Signals
    <2>13. Buffers'
      BY <1>1 DEF EnterSelect, TypeOK, Buffers
    <2>14. NothingDropped'
      BY <1>1 DEF EnterSelect, TypeOK, Buffers, NothingDropped
    <2>15. ReplyComplete'
      BY <1>1 DEF EnterSelect, TypeOK, Pipes, Readable, Signals, Buffers, NothingDropped, ReplyComplete
    <2>16. ChildrenReaped'
      BY <1>1 DEF EnterSelect, TypeOK, ChildrenReaped
    <2>17. DescriptorsAccounted'
      BY <1>1 DEF EnterSelect, TypeOK, Pipes, DescriptorsAccounted
    <2> QED BY <2>11, <2>12, <2>13, <2>14, <2>15, <2>16, <2>17
  <1>2. CASE SelectReady
    <2>11. TypeOK'
      <3>1. Flags'
        BY <1>2 DEF SelectReady, Writable, TypeOK, Flags
      <3>2. Counts'
        BY <1>2 DEF SelectReady, Writable, TypeOK, Pipes, Counts
      <3>3. Balance'
        BY <1>2 DEF SelectReady, Writable, TypeOK, Pipes, DescriptorsAccounted, Balance
      <3> QED BY <3>1, <3>2, <3>3 DEF TypeOK, Flags, Counts, Balance
    <2>12. Pipes' /\ Signals'
      BY <1>2 DEF SelectReady, Writable, TypeOK, Pipes, Readable, Signals
    <2>13. Buffers'
      BY <1>2 DEF SelectReady, Writable, TypeOK, Buffers
    <2>14. NothingDropped'
      BY <1>2 DEF SelectReady, Writable, TypeOK, Buffers, NothingDropped
    <2>15. ReplyComplete'
      BY <1>2 DEF SelectReady, Writable, TypeOK, Pipes, Readable, Signals, Buffers, NothingDropped, ReplyComplete
    <2>16. ChildrenReaped'
      BY <1>2 DEF SelectReady, Writable, TypeOK, ChildrenReaped
    <2>17. DescriptorsAccounted'
      BY <1>2 DEF SelectReady, Writable, TypeOK, Pipes, DescriptorsAccounted
    <2> QED BY <2>11, <2>12, <2>13, <2>14, <2>15, <2>16, <2>17
  <1>3. CASE Interrupted
    <2>11. TypeOK'
      <3>1. Flags'
        BY <1>3 DEF Interrupted, TypeOK, Flags
      <3>2. Counts'
        BY <1>3 DEF Interrupted, TypeOK, Pipes, Counts
      <3>3. Balance'
        BY <1>3 DEF Interrupted, TypeOK, Pipes, DescriptorsAccounted, Balance
      <3> QED BY <3>1, <3>2, <3>3 DEF TypeOK, Flags, Counts, Balance
    <2>12. Pipes' /\ Signals'
      BY <1>3 DEF Interrupted, TypeOK, Pipes, Readable, Signals
    <2>13. Buffers'
      BY <1>3 DEF Interrupted, TypeOK, Buffers
    <2>14. NothingDropped'
      BY <1>3 DEF Interrupted, TypeOK, Buffers, NothingDropped
    <2>15. ReplyComplete'
      BY <1>3 DEF Interrupted, TypeOK, Pipes, Readable, Signals, Buffers, NothingDropped, ReplyComplete
    <2>16. ChildrenReaped'
      BY <1>3 DEF Interrupted, TypeOK, ChildrenReaped
    <2>17. DescriptorsAccounted'
      BY <1>3 DEF Interrupted, TypeOK, Pipes, DescriptorsAccounted
    <2> QED BY <2>11, <2>12, <2>13, <2>14, <2>15, <2>16, <2>17
  <1>4. CASE SelectTimeout
    <2>11. TypeOK'
      <3>1. Flags'
        BY <1>4 DEF SelectTimeout, TypeOK, Flags
      <3>2. Counts'
        BY <1>4 DEF SelectTimeout, TypeOK, Pipes, Counts
      <3>3. Balance'
        BY <1>4 DEF SelectTimeout, TypeOK, Pipes, DescriptorsAccounted, Balance
      <3> QED BY <3>1, <3>2, <3>3 DEF TypeOK, Flags, Counts, Balance
    <2>12. Pipes' /\ Signals'
      BY <1>4 DEF SelectTimeout, TypeOK, Pipes, Readable, Signals
    <2>13. Buffers'
      BY <1>4 DEF SelectTimeout, TypeOK, Buffers
    <2>14. NothingDropped'
      BY <1>4 DEF SelectTimeout, TypeOK, Buffers, NothingDropped
    <2>15. ReplyComplete'
      <3>1. end = "none" /\ UNCHANGED <<child, holders, owed, started, sent, hdrlen, written>>
        BY <1>4 DEF SelectTimeout, Buffers
      <3>2. \/ end' \in {"none", "504", "failed"}
            \/ end' = "cut" /\ kind = "cgi" /\ child = "gone"
        <4>1. CASE kind = "lua"
          BY <1>4, <4>1 DEF SelectTimeout
        <4>2. CASE kind = "cgi" /\ child = "gone"
          BY <1>4, <4>2 DEF SelectTimeout
        <4>3. CASE kind = "cgi" /\ child # "gone"
          BY <1>4, <3>1, <4>3 DEF SelectTimeout
        <4> QED BY <4>1, <4>2, <4>3 DEF TypeOK
      <3>3. kind = "cgi" => owed <= IF started THEN sent ELSE hdrlen
        BY <1>4 DEF SelectTimeout, TypeOK, Readable, Buffers, NothingDropped
      <3> QED BY <3>1, <3>2, <3>3 DEF ReplyComplete
    <2>16. ChildrenReaped'
      BY <1>4 DEF SelectTimeout, TypeOK, ChildrenReaped
    <2>17. DescriptorsAccounted'
      BY <1>4 DEF SelectTimeout, TypeOK, Pipes, DescriptorsAccounted
    <2> QED BY <2>11, <2>12, <2>13, <2>14, <2>15, <2>16, <2>17
  <1> QED BY <1>1, <1>2, <1>3, <1>4

(* The body of the request.                                                *)
LEMMA InputStep ==
  ASSUME IInv, RelayBody \/ BodyEnds \/ BodyFails \/ CloseStdin
  PROVE  IInv'
  <1> USE UhttpdConstants DEF IInv, Running, Looping, Writing, UhttpdConstants, relay,
          script, pipes, Onward, Leave
  <1>1. CASE RelayBody
    BY <1>1, SMT DEF RelayBody, TypeOK, Pipes, Readable, Signals, Buffers, NothingDropped,
                ReplyComplete, ChildrenReaped, DescriptorsAccounted
  <1>2. CASE BodyEnds
    BY <1>2, SMT DEF BodyEnds, TypeOK, Pipes, Readable, Signals, Buffers, NothingDropped,
                ReplyComplete, ChildrenReaped, DescriptorsAccounted
  <1>3. CASE BodyFails
    BY <1>3, SMT DEF BodyFails, TypeOK, Pipes, Readable, Signals, Buffers, NothingDropped,
                ReplyComplete, ChildrenReaped, DescriptorsAccounted
  <1>4. CASE CloseStdin
    <2>11. TypeOK'
      <3>1. Flags'
        BY <1>4 DEF CloseStdin, TypeOK, Flags
      <3>2. Counts'
        BY <1>4 DEF CloseStdin, TypeOK, Pipes, Counts
      <3>3. Balance'
        BY <1>4 DEF CloseStdin, TypeOK, Pipes, DescriptorsAccounted, Balance
      <3> QED BY <3>1, <3>2, <3>3 DEF TypeOK, Flags, Counts, Balance
    <2>12. Pipes' /\ Signals'
      BY <1>4 DEF CloseStdin, TypeOK, Pipes, Readable, Signals
    <2>13. Buffers'
      BY <1>4 DEF CloseStdin, TypeOK, Buffers
    <2>14. NothingDropped'
      BY <1>4 DEF CloseStdin, TypeOK, Buffers, NothingDropped
    <2>15. ReplyComplete'
      BY <1>4 DEF CloseStdin, TypeOK, Pipes, Readable, Signals, Buffers, NothingDropped, ReplyComplete
    <2>16. ChildrenReaped'
      BY <1>4 DEF CloseStdin, TypeOK, ChildrenReaped
    <2>17. DescriptorsAccounted'
      BY <1>4 DEF CloseStdin, TypeOK, Pipes, DescriptorsAccounted
    <2> QED BY <2>11, <2>12, <2>13, <2>14, <2>15, <2>16, <2>17
  <1> QED BY <1>1, <1>2, <1>3, <1>4

(* The output of the script.                                               *)
LEMMA OutputStep ==
  ASSUME IInv, ReadHeader \/ ReadOutput \/ Eof
  PROVE  IInv'
  <1> USE UhttpdConstants DEF IInv, Running, Looping, Writing, UhttpdConstants, relay,
          script, pipes, Leave
  <1>0. written > got => Buffered \in 1 .. HdrSize /\ got + Buffered <= written
    BY DEF TypeOK, Buffered, Smaller
  <1>1. CASE ReadHeader
    <2> DEFINE bufoff == Smaller(Buffered, HdrSize - hdrlen)
    <2>1. /\ pc = "read" /\ kind = "cgi" /\ ~started /\ written > got
          /\ end = "none" /\ sent = 0 /\ got = hdrlen
          /\ bufoff \in 0 .. HdrSize - hdrlen
          /\ bufoff = Buffered \/ hdrlen + bufoff = HdrSize
      BY <1>0, <1>1 DEF ReadHeader, TypeOK, Buffers, NothingDropped, Smaller
    <2>2. /\ hdrlen' = hdrlen + bufoff /\ got' = got + Buffered
          /\ \/ Sends(hdrlen + Buffered)
             \/ /\ hdrlen + bufoff # HdrSize
                /\ pc' = "top" /\ UNCHANGED <<started, sent, end>>
          /\ UNCHANGED <<kind, body, client, script, sigchld, stdin, input, fds, failed>>
      BY <1>1 DEF ReadHeader
    <2> HIDE DEF bufoff
    <2>3. CASE Sends(hdrlen + Buffered)
      <3>11. TypeOK'
        <4>1. Flags'
          BY <1>0, <2>1, <2>2, <2>3 DEF Sends, TypeOK, Flags
        <4>2. Counts'
          BY <1>0, <2>1, <2>2, <2>3 DEF Sends, TypeOK, Pipes, Counts
        <4>3. Balance'
          BY <1>0, <2>1, <2>2, <2>3 DEF Sends, TypeOK, Pipes, DescriptorsAccounted, Balance
        <4> QED BY <4>1, <4>2, <4>3 DEF TypeOK, Flags, Counts, Balance
      <3>12. Pipes' /\ Signals'
        BY <1>0, <2>1, <2>2, <2>3 DEF Sends, TypeOK, Pipes, Readable, Signals
      <3>13. Buffers'
        BY <1>0, <2>1, <2>2, <2>3 DEF Sends, TypeOK, Buffers
      <3>14. NothingDropped'
        BY <1>0, <2>1, <2>2, <2>3 DEF Sends, TypeOK, Buffers, NothingDropped
      <3>15. ReplyComplete'
        BY <1>0, <2>1, <2>2, <2>3 DEF Sends, TypeOK, Pipes, Readable, Signals, Buffers, NothingDropped, ReplyComplete
      <3>16. ChildrenReaped'
        BY <1>0, <2>1, <2>2, <2>3 DEF Sends, TypeOK, ChildrenReaped
      <3>17. DescriptorsAccounted'
        BY <1>0, <2>1, <2>2, <2>3 DEF Sends, TypeOK, Pipes, DescriptorsAccounted
      <3> QED BY <3>11, <3>12, <3>13, <3>14, <3>15, <3>16, <3>17
    <2>4. CASE hdrlen + bufoff # HdrSize /\ pc' = "top" /\ UNCHANGED <<started, sent, end>>
      BY <1>0, <2>1, <2>2, <2>4, SMT DEF TypeOK, Pipes, Readable, Signals, Buffers,
            NothingDropped, ReplyComplete, ChildrenReaped, DescriptorsAccounted
    <2> QED BY <2>2, <2>3, <2>4
  <1>2. CASE ReadOutput
    <2>1. Buffered \in 1 .. HdrSize /\ got + Buffered <= written /\ got' = got + Buffered
      BY <1>0, <1>2 DEF ReadOutput
    <2>11. TypeOK'
      <3>1. Flags'
        BY <1>2, <2>1 DEF ReadOutput, Sends, TypeOK, Flags
      <3>2. Counts'
        BY <1>2, <2>1 DEF ReadOutput, Sends, TypeOK, Pipes, Counts
      <3>3. Balance'
        BY <1>2, <2>1 DEF ReadOutput, Sends, TypeOK, Pipes, DescriptorsAccounted, Balance
      <3> QED BY <3>1, <3>2, <3>3 DEF TypeOK, Flags, Counts, Balance
    <2>12. Pipes' /\ Signals'
      BY <1>2, <2>1 DEF ReadOutput, Sends, TypeOK, Pipes, Readable, Signals
    <2>13. Buffers'
      BY <1>2, <2>1 DEF ReadOutput, Sends, TypeOK, Buffers
    <2>14. NothingDropped'
      BY <1>2, <2>1 DEF ReadOutput, Sends, TypeOK, Buffers, NothingDropped
    <2>15. ReplyComplete'
      BY <1>2, <2>1 DEF ReadOutput, Sends, TypeOK, Pipes, Readable, Signals, Buffers, NothingDropped, ReplyComplete
    <2>16. ChildrenReaped'
      BY <1>2, <2>1 DEF ReadOutput, Sends, TypeOK, ChildrenReaped
    <2>17. DescriptorsAccounted'
      BY <1>2, <2>1 DEF ReadOutput, Sends, TypeOK, Pipes, DescriptorsAccounted
    <2> QED BY <2>11, <2>12, <2>13, <2>14, <2>15, <2>16, <2>17
  <1>3. CASE Eof
    BY <1>3, SMT DEF Eof, TypeOK, Pipes, Readable, Signals, Buffers, NothingDropped,
                ReplyComplete, ChildrenReaped, DescriptorsAccounted
  <1> QED BY <1>1, <1>2, <1>3

(* The end of the request.                                                 *)
LEMMA EndStep ==
  ASSUME IInv, Out \/ Reap
  PROVE  IInv'
  <1> USE UhttpdConstants DEF IInv, Running, Looping, Writing, UhttpdConstants, relay, script, pipes
  <1>1. CASE Out
    <2>11. TypeOK'
      <3>1. Flags'
        BY <1>1 DEF Out, TypeOK, Flags
      <3>2. Counts'
        BY <1>1 DEF Out, TypeOK, Pipes, Counts
      <3>3. Balance'
        BY <1>1 DEF Out, TypeOK, Pipes, DescriptorsAccounted, Balance
      <3> QED BY <3>1, <3>2, <3>3 DEF TypeOK, Flags, Counts, Balance
    <2>12. Pipes' /\ Signals'
      BY <1>1 DEF Out, TypeOK, Pipes, Readable, Signals
    <2>13. Buffers'
      BY <1>1 DEF Out, TypeOK, Buffers
    <2>14. NothingDropped'
      BY <1>1 DEF Out, TypeOK, Buffers, NothingDropped
    <2>15. ReplyComplete'
      BY <1>1 DEF Out, TypeOK, Pipes, Readable, Signals, Buffers, NothingDropped, ReplyComplete
    <2>16. ChildrenReaped'
      BY <1>1 DEF Out, TypeOK, ChildrenReaped
    <2>17. DescriptorsAccounted'
      BY <1>1 DEF Out, TypeOK, Pipes, DescriptorsAccounted
    <2> QED BY <2>11, <2>12, <2>13, <2>14, <2>15, <2>16, <2>17
  <1>2. CASE Reap
    BY <1>2, SMT DEF Reap, TypeOK, Pipes, Readable, Signals, Buffers, NothingDropped,
                ReplyComplete, ChildrenReaped, DescriptorsAccounted
  <1> QED BY <1>1, <1>2

LEMMA Invariant == Spec => []IInv
  <1>1. IInv /\ UNCHANGED vars => IInv'
    BY DEF vars, relay, script, pipes, IInv, TypeOK, Pipes, Signals, Buffers, NothingDropped,
           ReplyComplete, ChildrenReaped, DescriptorsAccounted, Running, Looping, Writing,
           Readable
  <1>2. IInv /\ [Next]_vars => IInv'
    BY <1>1, WorldStep, StartStep, SelectStep, InputStep, OutputStep, EndStep DEF Next, Relay
  <1> QED BY Initially, <1>2, PTL DEF Spec

(* Buffers and pipes are never overrun, for any sizes of them.             *)
THEOREM TypeCorrect == Spec => []TypeOK
  <1>1. IInv => TypeOK BY DEF IInv
  <1> QED BY <1>1, Invariant, PTL

(* All that the server has read is with the client or in hdr, wherever the *)
(* header ends in the buffers.                                             *)
THEOREM NothingIsDropped == Spec => []NothingDropped
  <1>1. IInv => NothingDropped BY DEF IInv
  <1> QED BY <1>1, Invariant, PTL

(* Replies are complete, and a SIGCHLD never costs output of the script.   *)
THEOREM RepliesComplete == Spec => []ReplyComplete
  <1>1. IInv => ReplyComplete BY DEF IInv
  <1> QED BY <1>1, Invariant, PTL

(* No child is left behind by a request.                                   *)
THEOREM ChildrenAreReaped == Spec => []ChildrenReaped
  <1>1. IInv => ChildrenReaped BY DEF IInv
  <1> QED BY <1>1, Invariant, PTL

(* Descriptors leak with failed forks and nowhere else.                    *)
THEOREM DescriptorsBalance == Spec => []DescriptorsAccounted
  <1>1. IInv => DescriptorsAccounted BY DEF IInv
  <1> QED BY <1>1, Invariant, PTL

-----------------------------------------------------------------------------
(* The refinement of ScriptReply.                                          *)

LEMMA InitReply == Init => Reply!Init
  BY DEF Init, Reply!Init, Verdict

LEMMA BufferedRange ==
  ASSUME TypeOK, written > got
  PROVE  /\ Buffered \in Nat /\ got + Buffered \in got + 1 .. written
         /\ Buffered <= HdrSize
  <1>1. HdrSize \in Nat \ {0} /\ written \in Nat /\ got \in Nat
    BY UhttpdConstants DEF UhttpdConstants, TypeOK
  <1> QED BY <1>1 DEF Buffered, Smaller

(* Steps that the client cannot tell from nothing.                         *)
LEMMA UnseenStep ==
  ASSUME IInv,
         \/ ForkFails \/ ReadInput \/ ClientGone
         \/ EnterSelect \/ SelectReady
         \/ RelayBody \/ BodyEnds \/ CloseStdin
         \/ UNCHANGED vars
  PROVE  UNCHANGED Reply!vars
  <1> USE DEF Reply!vars, Verdict, vars, relay, script, pipes, Writing, Onward
  <1>1. CASE ForkFails \/ ReadInput \/ ClientGone
    BY <1>1 DEF ForkFails, ReadInput, ClientGone
  <1>2. CASE EnterSelect \/ SelectReady
    BY <1>2 DEF EnterSelect, SelectReady
  <1>3. CASE RelayBody \/ BodyEnds \/ CloseStdin
    BY <1>3 DEF RelayBody, BodyEnds, CloseStdin
  <1>4. CASE UNCHANGED vars
    BY <1>4
  <1> QED BY <1>1, <1>2, <1>3, <1>4

(* The script and its heir; a script that ends lets go of its output.      *)
LEMMA WritersStep ==
  ASSUME IInv,
         \/ \E h \in {"script", "heir"} : Write(h) \/ Release(h)
         \/ Background \/ Exit
         \/ \E k \in {"cgi", "lua"}, b \in Bodies, p \in 0 .. MaxOut, h \in 1 .. MaxOut + 1 :
              Start(k, b, p, h)
  PROVE  Reply!Next
  <1> USE DEF Verdict, relay, script, pipes, Running
  <1>1. ASSUME NEW h \in {"script", "heir"}, Write(h) PROVE Reply!Write(h)
    BY <1>1 DEF Write, Reply!Write
  <1>2. ASSUME NEW h \in {"script", "heir"}, Release(h) PROVE Reply!Release(h)
    BY <1>2 DEF Release, Reply!Release
  <1>3. CASE Background
    BY <1>3 DEF Background, Reply!Bequeath, Reply!Next
  <1>4. Exit => Reply!Release("script")
    BY DEF Exit, Reply!Release
  <1>5. ASSUME NEW k \in {"cgi", "lua"}, NEW b \in Bodies, NEW p \in 0 .. MaxOut,
               NEW h \in 1 .. MaxOut + 1, Start(k, b, p, h)
        PROVE  Reply!Begin
    BY <1>5 DEF Start, Reply!Begin
  <1> QED BY <1>1, <1>2, <1>3, <1>4, <1>5 DEF Reply!Next

(* What is in hdr is held back, and goes with the header.                  *)
LEMMA TakeStep ==
  ASSUME IInv, ReadHeader \/ ReadOutput
  PROVE  Reply!Take
  <1>1. /\ pc = "read" /\ written > got /\ end = "none"
        /\ got = IF kind = "cgi" /\ ~started THEN hdrlen ELSE sent
        /\ ~started => sent = 0
        /\ hdrlen \in Nat /\ got \in Nat /\ sent \in Nat /\ HdrSize \in Nat
    BY UhttpdConstants
    DEF IInv, ReadHeader, ReadOutput, Buffers, Looping, NothingDropped, TypeOK,
        UhttpdConstants
  <1>2. /\ Buffered \in Nat /\ got + Buffered \in got + 1 .. written
        /\ Buffered <= HdrSize
    BY <1>1, BufferedRange DEF IInv
  <1>3. CASE ReadHeader
    <2> DEFINE bufoff == Smaller(Buffered, HdrSize - hdrlen)
    <2>1. got' = got + Buffered /\ UNCHANGED <<holders, written, owed>>
      BY <1>3 DEF ReadHeader, script
    <2>2. CASE head <= hdrlen + bufoff \/ hdrlen + bufoff = HdrSize
      <3>1. Sends(hdrlen + Buffered)
        BY <1>3, <2>2 DEF ReadHeader
      <3>2. hdrlen + Buffered = got + Buffered /\ sent = 0
        BY <1>1, <1>3 DEF ReadHeader
      <3> QED BY <1>1, <1>2, <2>1, <3>1, <3>2 DEF Sends, Leave, Verdict, Reply!Take
    <2>3. CASE ~(head <= hdrlen + bufoff \/ hdrlen + bufoff = HdrSize)
      <3>1. pc' = "top" /\ UNCHANGED <<sent, end>>
        BY <1>3, <2>3 DEF ReadHeader
      <3>2. got = hdrlen /\ sent = 0 /\ hdrlen <= HdrSize
        BY <1>1, <1>3 DEF ReadHeader, IInv, TypeOK
      <3>3. got + Buffered < HdrSize
        BY <1>1, <1>2, <2>3, <3>2 DEF Smaller
      <3> QED BY <1>1, <1>2, <2>1, <3>1, <3>2, <3>3 DEF Verdict, Reply!Take
    <2> QED BY <2>2, <2>3
  <1>4. CASE ReadOutput
    <2>1. /\ got' = got + Buffered /\ UNCHANGED <<holders, written, owed>>
          /\ Sends(Buffered)
      BY <1>4 DEF ReadOutput, script
    <2>2. got = sent
      BY <1>1, <1>4 DEF ReadOutput
    <2> QED BY <1>1, <1>2, <2>1, <2>2 DEF Sends, Leave, Verdict, Reply!Take
  <1> QED BY <1>3, <1>4

(* The loop is left.                                                       *)
LEMMA JudgeStep ==
  ASSUME IInv, IInv',
         Interrupted \/ SelectTimeout \/ BodyFails \/ Eof
  PROVE  Reply!Judge \/ UNCHANGED Reply!vars
  <1>0. kind \in {"cgi", "lua"}
    BY DEF IInv, TypeOK
  <1>1. /\ Looping /\ pc # "idle" /\ end = "none" /\ pc' # "idle"
        /\ UNCHANGED <<holders, written, owed, got>>
    BY <1>0 DEF IInv, Interrupted, SelectTimeout, BodyFails, Eof, Writing, Leave,
                Looping, Buffers, pipes, script
  <1>2. got = IF kind = "cgi" /\ ~started THEN hdrlen ELSE sent
    BY <1>1 DEF IInv, NothingDropped
  <1>3. ~started => sent = 0
    BY <1>1 DEF IInv, Buffers
  <1>4. ASSUME end' = "cut", UNCHANGED <<sent, started, hdrlen>>
        PROVE  Reply!Judge
    <2>1. "script" \notin holders
      BY <1>1, <1>4 DEF IInv, ReplyComplete, Pipes
    <2>2. owed <= got
      <3>1. owed <= IF started THEN sent ELSE hdrlen
        BY <1>1, <1>4 DEF IInv, ReplyComplete
      <3>2. kind \in {"cgi", "lua"} /\ (kind = "lua" => hdrlen = 0)
        BY DEF IInv, TypeOK, Buffers
      <3> QED BY <1>2, <1>3, <3>1, <3>2
    <2>3. Verdict = "none" /\ Verdict' = "cut"
      BY <1>1, <1>4 DEF Verdict
    <2> QED BY <1>1, <1>4, <2>1, <2>2, <2>3 DEF Reply!Judge, Reply!Cut
  <1>5. ASSUME end' = "failed", UNCHANGED sent PROVE Reply!Judge
    BY <1>1, <1>5 DEF Verdict, Reply!Judge, Reply!Failed
  <1>6. CASE Interrupted
    BY <1>4, <1>6 DEF Interrupted, Leave
  <1>7. CASE SelectTimeout
    <2>1. CASE kind = "cgi" /\ child = "gone"
      BY <1>4, <1>7, <2>1 DEF SelectTimeout, Leave
    <2>2. CASE kind = "cgi" /\ child # "gone"
      BY <1>1, <1>7, <2>2 DEF SelectTimeout, Verdict, Reply!vars
    <2>3. CASE kind = "lua" /\ end' = "504"
      <3>1. sent = 0 /\ UNCHANGED sent
        BY <1>3, <1>7, <2>3 DEF SelectTimeout
      <3> QED BY <1>1, <2>3, <3>1 DEF Verdict, Reply!Judge, Reply!Replaced
    <2>4. CASE kind = "lua" /\ end' = "failed"
      BY <1>5, <1>7, <2>4 DEF SelectTimeout
    <2> QED BY <1>0, <1>7, <2>1, <2>2, <2>3, <2>4 DEF SelectTimeout, Leave
  <1>8. CASE BodyFails
    BY <1>5, <1>8 DEF BodyFails, Leave
  <1>9. CASE Eof
    <2>1. CASE client = "ok"
      <3>1. end' = "eof" /\ got = written
        BY <1>9, <2>1 DEF Eof, Leave
      <3>2. sent' = written
        BY <1>2, <1>9, <2>1, <3>1 DEF Eof
      <3>3. holders = {}
        BY <1>1, <3>1 DEF IInv, ReplyComplete
      <3> QED BY <1>1, <3>1, <3>2, <3>3 DEF Verdict, Reply!Judge, Reply!Whole
    <2>2. CASE client # "ok"
      BY <1>5, <1>9, <2>2 DEF Eof, Leave
    <2> QED BY <2>1, <2>2
  <1> QED BY <1>6, <1>7, <1>8, <1>9

(* The request is over: the script is gone or reaped.                      *)
LEMMA CloseStep ==
  ASSUME IInv, Out \/ Reap
  PROVE  Reply!Close \/ UNCHANGED Reply!vars
  <1>1. /\ pc # "idle" /\ end # "none"
        /\ UNCHANGED <<holders, written, owed, got, sent, end>>
    BY DEF IInv, Out, Reap, Buffers, pipes, script
  <1>2. Verdict # "none" /\ UNCHANGED Verdict
    BY <1>1 DEF Verdict
  <1>3. pc' = "idle" => "script" \notin holders
    BY DEF IInv, Out, Reap, Pipes
  <1> QED BY <1>1, <1>2, <1>3 DEF Reply!Close, Reply!vars

(* The relay implements ScriptReply: whatever the order of output, signals *)
(* and timeouts, and wherever buffers end, a reply is a prefix of what was *)
(* written for its request, and called what it is.                         *)
THEOREM UhttpdImplementsReply == Spec => ImplementsReply
  <1>1. ASSUME IInv, IInv', [Next]_vars
        PROVE  [Reply!Next]_(Reply!vars)
    BY <1>1, UnseenStep, WritersStep, TakeStep, JudgeStep, CloseStep
    DEF Next, Relay, Reply!Next
  <1> QED BY <1>1, InitReply, Invariant, PTL DEF Spec, ImplementsReply, Reply!Spec
=============================================================================
