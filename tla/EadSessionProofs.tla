-------------------------- MODULE EadSessionProofs --------------------------
(***************************************************************************)
(* Proofs about EadSession, for any clients, users and passwords and any   *)
(* number of sessions, whatever frames are repeated and whatever faults    *)
(* happen.                                                                 *)
(***************************************************************************)
EXTENDS EadSession, TLAPS

(* What a client has by the time it waits for each kind of reply.          *)
Progress(c) ==
  /\ phase[c] = "start" => waiting[c] = PONG
  /\ waiting[c] >= SEND_B => salt[c] \in Users
  /\ waiting[c] <= SEND_B => key[c] = NoKey
  /\ waiting[c] > SEND_B =>
       /\ key[c] \in Keys /\ key[c].a = c
       /\ key[c].user = User[c] /\ key[c].pw = Password[c]

(* A client has sent only the requests it has come to.                     *)
ClientCoherent ==
  /\ \A c \in Clients : Progress(c)
  /\ \A f \in requests : waiting[f.from] > f.type

(* The exponents of finished work are older than those of sessions to come.*)
Ran ==
  /\ state >= SEND_A => ts.b <= exponents
  /\ \A c \in Clients :
       /\ runs[c] <= 1
       /\ runs[c] = 1 =>
            /\ Authorised(c) /\ key[c] \in Keys /\ key[c].b <= exponents
            /\ skey = key[c] => rx_iv = CmdIv
            /\ state = SEND_A => key[c].b < ts.b

(* The last packet of a command is sent only after the command has run.    *)
Answered == \A f \in replies : f.type = RESULT_CMD => runs[f.to] = 1

IInv ==
  /\ TypeOK /\ SessionCoherent /\ SessionOwned /\ SuccessMeansRun
  /\ ClientCoherent /\ Ran /\ Answered

USE DEF PING, PONG, SET_USERNAME, ACK_USERNAME, GET_PRIME, PRIME, SEND_A,
        SEND_B, SEND_AUTH, DONE_AUTH, SEND_CMD, RESULT_CMD, Progress

LEMMA UsersType ==
  /\ \A c \in Clients : User[c] \in Users /\ Password[c] \in Passwords
  /\ \A u \in DOMAIN Passwd : u \in Users /\ Passwd[u] \in Passwords
  BY SessionConstants DEF SessionConstants, Users, Passwords

LEMMA RepliesType ==
  ASSUME TypeOK, NEW f \in replies
  PROVE  /\ f.to \in Clients
         /\ f.type = PRIME => f.salt \in Users
         /\ f.type = SEND_B => f.b \in Nat
         /\ f.type = RESULT_CMD => f.key \in Keys
  BY DEF TypeOK, Replies

LEMMA InitIInv == Init => IInv
  <1> SUFFICES ASSUME Init PROVE IInv
    OBVIOUS
  <1>1. TypeOK
    <2>1. /\ phase \in [Clients -> {"start", "waiting"} \union Ended]
          /\ waiting \in [Clients -> { t + 1 : t \in RequestTypes }]
          /\ salt \in [Clients -> Users \union {NoUser}]
          /\ key \in [Clients -> Keys \union {NoKey}]
          /\ runs \in [Clients -> Nat]
      BY DEF Init, RequestTypes
    <2>2. ts \in [open : BOOLEAN, user : Users \union {NoUser}, b : Nat,
                  tainted : BOOLEAN]
      BY DEF Init, ServerInit, Closed
    <2> QED BY <2>1, <2>2 DEF Init, ServerInit, TypeOK, States, RequestTypes
  <1>2. SessionCoherent /\ SessionOwned /\ SuccessMeansRun
    BY DEF Init, ServerInit, Closed, SessionCoherent, SessionOwned, SuccessMeansRun
  <1>3. ClientCoherent /\ Ran /\ Answered
    BY DEF Init, ServerInit, ClientCoherent, Ran, Answered
  <1> QED BY <1>1, <1>2, <1>3 DEF IInv

-----------------------------------------------------------------------------
(* The server. What a session knows in each state.                         *)

LEMMA ServerKeyType ==
  ASSUME TypeOK, SessionCoherent, state >= GET_PRIME, NEW c \in Clients
  PROVE  ServerKey(c) \in Keys
  BY UsersType DEF TypeOK, SessionCoherent, ServerKey, Keys

(* An old or a new session in which the clients have not taken any step.   *)
LEMMA ServerStep ==
  ASSUME IInv, UNCHANGED client, requests' \subseteq requests
  PROVE  ClientCoherent'
  BY DEF IInv, ClientCoherent, client, TypeOK

(* Requests that leave the session alone.                                  *)
LEMMA IgnoreIInv ==
  ASSUME IInv, UNCHANGED <<server, exponents, client, runs, replies>>,
         requests' \subseteq requests
  PROVE  IInv'
  <1>1. ClientCoherent' BY ServerStep
  <1>2. TypeOK'
    BY DEF IInv, TypeOK, server, client
  <1>3. SessionCoherent' /\ SessionOwned' /\ SuccessMeansRun' /\ Ran' /\ Answered'
    BY DEF IInv, SessionCoherent, SessionOwned, SuccessMeansRun, Ran, Answered,
           server, client, ServerKey, Authorised
  <1> QED BY <1>1, <1>2, <1>3 DEF IInv

LEMMA PingIInv ==
  ASSUME IInv, UNCHANGED client, requests' \subseteq requests,
         NEW c \in Clients, HandlePing(c)
  PROVE  IInv'
  <1>1. ClientCoherent' BY ServerStep
  <1>2. replies' = replies \union {[type |-> PONG, to |-> c]}
    BY DEF HandlePing, Reply
  <1>3. replies' \subseteq Replies
    BY <1>2 DEF IInv, TypeOK, Replies
  <1>4. TypeOK'
    BY <1>3 DEF IInv, TypeOK, server, client, HandlePing
  <1>5. SessionCoherent' /\ SessionOwned' /\ SuccessMeansRun' /\ Ran'
    BY DEF IInv, SessionCoherent, SessionOwned, SuccessMeansRun, Ran,
           server, client, ServerKey, Authorised, HandlePing
  <1>6. Answered'
    BY <1>2 DEF IInv, Answered, HandlePing
  <1> QED BY <1>1, <1>4, <1>5, <1>6 DEF IInv

LEMMA UsernameIInv ==
  ASSUME IInv, UNCHANGED client, requests' \subseteq requests,
         NEW c \in Clients, HandleSetUsername(c)
  PROVE  IInv'
  <1> USE DEF IInv
  <1>1. ClientCoherent' BY ServerStep
  <1>2. replies' = replies \union {[type |-> ACK_USERNAME, to |-> c]}
    BY DEF HandleSetUsername, Reply
  <1>3. replies' \subseteq Replies
    BY <1>2 DEF TypeOK, Replies
  <1>4. /\ username' = User[c] /\ UNCHANGED <<skey, rx_iv, exponents, runs>>
        /\ \/ /\ User[c] \in DOMAIN Passwd /\ state' = GET_PRIME
              /\ ts' = [open |-> TRUE, user |-> User[c], b |-> 0, tainted |-> FALSE]
           \/ /\ state' = SET_USERNAME
              /\ ts' = [open |-> FALSE, user |-> NoUser, b |-> 0, tainted |-> FALSE]
    BY DEF HandleSetUsername, PasswordFound, Closed
  <1>5. User[c] \in Users /\ state' \in States
    BY <1>4, UsersType DEF States, RequestTypes
  <1>10. ts' \in [open : BOOLEAN, user : Users \union {NoUser}, b : Nat,
                  tainted : BOOLEAN]
    <2>1. ASSUME NEW open \in BOOLEAN, NEW user \in Users \union {NoUser}
          PROVE  [open |-> open, user |-> user, b |-> 0, tainted |-> FALSE]
                   \in [open : BOOLEAN, user : Users \union {NoUser}, b : Nat,
                        tainted : BOOLEAN]
      OBVIOUS
    <2> QED BY <2>1, <1>4, <1>5
  <1>6. TypeOK'
    BY <1>3, <1>4, <1>5, <1>10 DEF TypeOK, client
  <1>7. SessionCoherent' /\ SessionOwned' /\ SuccessMeansRun'
    BY <1>4 DEF SessionCoherent, SessionOwned, SuccessMeansRun, client
  <1>8. Ran'
    BY <1>4 DEF Ran, client, Authorised
  <1>9. Answered'
    BY <1>2, <1>4 DEF Answered
  <1> QED BY <1>1, <1>6, <1>7, <1>8, <1>9

LEMMA GetPrimeIInv ==
  ASSUME IInv, UNCHANGED client, requests' \subseteq requests,
         NEW c \in Clients, state = GET_PRIME, HandleGetPrime(c)
  PROVE  IInv'
  <1> USE DEF IInv
  <1>1. ClientCoherent' BY ServerStep
  <1>2. replies' = replies \union {[type |-> PRIME, to |-> c, salt |-> ts.user]}
    BY DEF HandleGetPrime, Reply
  <1>3. ts.user = username /\ username \in DOMAIN Passwd /\ ts.user \in Users
    BY UsersType DEF SessionCoherent
  <1>4. replies' \subseteq Replies
    BY <1>2, <1>3 DEF TypeOK, Replies
  <1>5. /\ state' = SEND_A /\ exponents' = exponents + 1
        /\ ts' = [ts EXCEPT !.b = exponents + 1]
        /\ UNCHANGED <<username, skey, rx_iv, runs>>
    BY DEF HandleGetPrime
  <1>6. /\ ts'.b = exponents + 1 /\ ts'.user = ts.user /\ ts'.open = ts.open
        /\ ts' \in [open : BOOLEAN, user : Users \union {NoUser}, b : Nat,
                    tainted : BOOLEAN]
    BY <1>5 DEF TypeOK
  <1>7. TypeOK'
    BY <1>4, <1>5, <1>6 DEF TypeOK, client, States, RequestTypes
  <1>8. SessionCoherent'
    BY <1>3, <1>5, <1>6 DEF SessionCoherent, TypeOK
  <1>9. SessionOwned' /\ SuccessMeansRun'
    BY <1>5 DEF SessionOwned, SuccessMeansRun, client
  <1>10. Ran'
    <2>1. ASSUME NEW d \in Clients, runs[d] = 1 PROVE key[d].b <= exponents /\ key[d].b \in Nat
      BY <2>1 DEF Ran, Keys
    <2> QED BY <2>1, <1>5, <1>6 DEF Ran, client, Authorised, TypeOK
  <1>11. Answered'
    BY <1>2, <1>5 DEF Answered
  <1> QED BY <1>1, <1>7, <1>8, <1>9, <1>10, <1>11

LEMMA SendAIInv ==
  ASSUME NotAKey, IInv, UNCHANGED client, requests' \subseteq requests,
         NEW c \in Clients, state = SEND_A, HandleSendA(c)
  PROVE  IInv'
  <1> USE DEF IInv
  <1>1. ClientCoherent' BY ServerStep
  <1>2. replies' = replies \union {[type |-> SEND_B, to |-> c, b |-> ts.b]}
    BY DEF HandleSendA, Reply
  <1>3. ts.b \in Nat BY DEF TypeOK
  <1>4. replies' \subseteq Replies
    BY <1>2, <1>3 DEF TypeOK, Replies
  <1>5. /\ UNCHANGED <<username, exponents, runs>>
        /\ \/ /\ skey' = ServerKey(c) /\ rx_iv' = 0 /\ state' = SEND_AUTH
              /\ UNCHANGED ts
           \/ /\ ts' = [ts EXCEPT !.tainted = TRUE]
              /\ UNCHANGED <<state, skey, rx_iv>>
    BY DEF HandleSendA
  <1>6. /\ ts'.open = ts.open /\ ts'.user = ts.user /\ ts'.b = ts.b
        /\ ts' \in [open : BOOLEAN, user : Users \union {NoUser}, b : Nat,
                    tainted : BOOLEAN]
    BY <1>5 DEF TypeOK
  <1>7. ServerKey(c) \in Keys
    BY ServerKeyType
  <1>8. TypeOK'
    BY <1>4, <1>5, <1>6, <1>7 DEF TypeOK, client, States, RequestTypes
  <1>9. \A a \in Clients : ServerKey(a)' = ServerKey(a)
    BY <1>6 DEF ServerKey
  <1>10. SessionCoherent'
    BY <1>5, <1>6, <1>9 DEF SessionCoherent
  <1>11. SessionOwned' /\ SuccessMeansRun'
    BY <1>5 DEF SessionOwned, SuccessMeansRun, client
  <1>12. Ran'
    <2>1. ASSUME NEW d \in Clients, runs[d] = 1 PROVE key[d] # ServerKey(c)
      BY <2>1 DEF Ran, Keys, ServerKey, TypeOK
    <2> QED BY <2>1, <1>5, <1>6 DEF Ran, client, Authorised
  <1>13. Answered'
    BY <1>2, <1>5 DEF Answered
  <1> QED BY <1>1, <1>8, <1>10, <1>11, <1>12, <1>13

(* The proof is that of the client whose A the key was computed from: no   *)
(* other client holds a key with that client's exponent.                   *)
LEMMA SendAuthIInv ==
  ASSUME NotAKey, IInv, UNCHANGED client, requests' \subseteq requests,
         NEW c \in Clients, [type |-> SEND_AUTH, from |-> c] \in requests,
         state = SEND_AUTH, HandleSendAuth(c)
  PROVE  IInv'
  <1> USE DEF IInv
  <1>1. ClientCoherent' BY ServerStep
  <1>2. UNCHANGED <<username, skey, rx_iv, exponents, runs>>
    BY DEF HandleSendAuth
  <1>3. waiting[c] > SEND_AUTH /\ waiting[c] > SEND_B
    BY DEF ClientCoherent, TypeOK, RequestTypes
  <1>4. /\ key[c] \in Keys /\ key[c].a = c
        /\ key[c].user = User[c] /\ key[c].pw = Password[c]
    BY <1>3 DEF ClientCoherent
  <1>5. CASE /\ key[c] = skey /\ state' = SEND_CMD /\ UNCHANGED ts
             /\ Reply([type |-> DONE_AUTH, to |-> c, key |-> skey])
    <2>1. replies' = replies \union {[type |-> DONE_AUTH, to |-> c, key |-> skey]}
      BY <1>5 DEF Reply
    <2>2. replies' \subseteq Replies
      BY <2>1, <1>4, <1>5 DEF TypeOK, Replies
    <2>3. TypeOK'
      BY <2>2, <1>2, <1>5 DEF TypeOK, client, States, RequestTypes
    <2>4. SessionCoherent'
      BY <1>2, <1>5 DEF SessionCoherent, ServerKey
    <2>5. skey.a = c /\ Authorised(c)
      <3>1. PICK a \in Clients : skey = ServerKey(a)
        BY <1>5 DEF SessionCoherent
      <3>2. skey.user = ts.user /\ skey.pw = Passwd[ts.user]
        BY <3>1 DEF ServerKey
      <3>3. ts.user \in DOMAIN Passwd
        BY DEF SessionCoherent
      <3> QED BY <3>2, <3>3, <1>4, <1>5 DEF Authorised
    <2>6. SessionOwned' /\ SuccessMeansRun'
      BY <2>5, <1>2, <1>5 DEF SessionOwned, SuccessMeansRun, client, Authorised
    <2>7. Ran'
      BY <1>2, <1>5 DEF Ran, client, Authorised
    <2>8. Answered'
      BY <2>1, <1>2 DEF Answered
    <2> QED BY <1>1, <2>3, <2>4, <2>6, <2>7, <2>8
  <1>6. CASE state' = SET_USERNAME /\ ts' = Closed /\ UNCHANGED replies
    <2>1. TypeOK'
      BY <1>2, <1>6 DEF TypeOK, client, States, RequestTypes, Closed
    <2>2. SessionCoherent' /\ SessionOwned' /\ SuccessMeansRun'
      BY <1>2, <1>6 DEF SessionCoherent, SessionOwned, SuccessMeansRun, client, Closed
    <2>3. Ran' /\ Answered'
      BY <1>2, <1>6 DEF Ran, Answered, client, Authorised
    <2> QED BY <1>1, <2>1, <2>2, <2>3
  <1> QED BY <1>5, <1>6 DEF HandleSendAuth

(* A command that is accepted spends the only vector of its key, and its   *)
(* client is the one whose proof was accepted.                             *)
LEMMA SendCmdIInv ==
  ASSUME NotAKey, IInv, UNCHANGED client, requests' \subseteq requests,
         NEW c \in Clients, [type |-> SEND_CMD, from |-> c] \in requests,
         state = SEND_CMD, HandleSendCmd(c)
  PROVE  IInv'
  <1> USE DEF IInv
  <1>1. ClientCoherent' BY ServerStep
  <1>2. CASE ~Decrypts(c)
    BY <1>2, IgnoreIInv DEF HandleSendCmd
  <1>3. CASE Decrypts(c)
    <2>1. /\ rx_iv' = CmdIv
          /\ UNCHANGED <<state, username, ts, skey, exponents>>
          /\ \/ /\ runs' = [runs EXCEPT ![c] = @ + 1]
                /\ Reply([type |-> RESULT_CMD, to |-> c, key |-> skey])
             \/ /\ runs' = [runs EXCEPT ![c] = @ + 1]
                /\ UNCHANGED replies
             \/ UNCHANGED <<runs, replies>>
      BY <1>3 DEF HandleSendCmd
    <2>2. key[c] = skey /\ rx_iv # CmdIv
      BY <1>3 DEF Decrypts, CmdIv, TypeOK
    <2>3. waiting[c] > SEND_CMD /\ waiting[c] > SEND_B
      BY DEF ClientCoherent, TypeOK, RequestTypes
    <2>4. key[c] \in Keys /\ key[c].a = c
      BY <2>3 DEF ClientCoherent
    <2>5. Authorised(c) BY <2>2, <2>4 DEF SessionOwned
    <2>6. runs[c] = 0
      BY <2>2 DEF Ran, TypeOK
    <2>7. /\ runs' \in [Clients -> Nat]
          /\ \A d \in Clients : runs'[d] = runs[d] \/ (d = c /\ runs'[d] = 1)
      BY <2>1, <2>6 DEF TypeOK
    <2>8. replies' \subseteq Replies
      BY <2>1, <2>2, <2>4 DEF TypeOK, Replies, Reply
    <2>9. TypeOK'
      BY <2>1, <2>7, <2>8 DEF TypeOK, client, CmdIv
    <2>10. SessionCoherent' /\ SessionOwned'
      BY <2>1 DEF SessionCoherent, SessionOwned, client, Authorised, ServerKey
    <2>11. key[c].b <= exponents
      <3>1. PICK a \in Clients : skey = ServerKey(a)
        BY DEF SessionCoherent
      <3> QED BY <3>1, <2>2 DEF Ran, ServerKey
    <2>12. SuccessMeansRun'
      BY <2>7, <2>6 DEF SuccessMeansRun, client
    <2>13. Ran'
      BY <2>1, <2>4, <2>5, <2>7, <2>11 DEF Ran, client, Authorised
    <2>14. Answered'
      <3>1. ASSUME NEW f \in replies, f.type = RESULT_CMD PROVE runs'[f.to] = 1
        <4>1. runs[f.to] = 1 /\ f.to \in Clients
          BY <3>1, RepliesType DEF Answered
        <4>2. f.to # c
          BY <4>1, <2>6
        <4> QED BY <4>1, <4>2, <2>7
      <3>2. CASE UNCHANGED replies
        BY <3>1, <3>2 DEF Answered
      <3>3. CASE /\ runs' = [runs EXCEPT ![c] = @ + 1]
                 /\ Reply([type |-> RESULT_CMD, to |-> c, key |-> skey])
        <4>1. runs'[c] = 1 BY <3>3, <2>6 DEF TypeOK
        <4> QED BY <3>1, <3>3, <4>1 DEF Answered, Reply
      <3> QED BY <3>2, <3>3, <2>1
    <2> QED BY <1>1, <2>9, <2>10, <2>12, <2>13, <2>14
  <1> QED BY <1>2, <1>3

(* A new incarnation starts without a session; what is on the network      *)
(* stays.                                                                  *)
LEMMA RestartIInv ==
  ASSUME NotAKey, IInv, Restart
  PROVE  IInv'
  <1> USE DEF IInv
  <1>1. /\ state' = SET_USERNAME /\ username' = NoUser /\ ts' = Closed
        /\ skey' = NoKey /\ rx_iv' = 0
        /\ UNCHANGED <<exponents, client, runs, requests, replies>>
    BY DEF Restart
  <1>2. ClientCoherent'
    BY <1>1, ServerStep
  <1>3. TypeOK'
    BY <1>1 DEF TypeOK, client, States, RequestTypes, Closed
  <1>4. SessionCoherent' /\ SessionOwned' /\ SuccessMeansRun'
    BY <1>1 DEF SessionCoherent, SessionOwned, SuccessMeansRun, client, Closed
  <1>5. Ran'
    <2>1. \A d \in Clients : runs[d] = 1 => key[d] # NoKey
      BY DEF Ran, NotAKey
    <2> QED BY <2>1, <1>1 DEF Ran, client, Authorised
  <1>6. Answered'
    BY <1>1 DEF Answered
  <1> QED BY <1>2, <1>3, <1>4, <1>5, <1>6

(* A request is handled in the state it belongs to, or changes nothing.    *)
LEMMA ParseMessageIInv ==
  ASSUME NotAKey, IInv, NEW t \in RequestTypes, NEW c \in Clients, ParseMessage(t, c)
  PROVE  IInv'
  <1>1. /\ [type |-> t, from |-> c] \in requests
        /\ requests' \subseteq requests
        /\ UNCHANGED client
    BY DEF ParseMessage, After
  <1>2. CASE UNCHANGED <<server, exponents, runs, replies>>
    BY <1>1, <1>2, IgnoreIInv
  <1>3. CASE Expected(t) /\ Handle(t, c)
    <2>1. CASE t = PING /\ HandlePing(c)
      BY <1>1, <2>1, PingIInv
    <2>2. CASE t = SET_USERNAME /\ HandleSetUsername(c)
      BY <1>1, <2>2, UsernameIInv
    <2>3. CASE t = GET_PRIME /\ HandleGetPrime(c)
      BY <1>1, <1>3, <2>3, GetPrimeIInv DEF Expected
    <2>4. CASE t = SEND_A /\ HandleSendA(c)
      BY <1>1, <1>3, <2>4, SendAIInv DEF Expected
    <2>5. CASE t = SEND_AUTH /\ HandleSendAuth(c)
      BY <1>1, <1>3, <2>5, SendAuthIInv DEF Expected
    <2>6. CASE t = SEND_CMD /\ HandleSendCmd(c)
      BY <1>1, <1>3, <2>6, SendCmdIInv DEF Expected
    <2> QED BY <1>3, <2>1, <2>2, <2>3, <2>4, <2>5, <2>6 DEF Handle
  <1> QED BY <1>2, <1>3 DEF ParseMessage

-----------------------------------------------------------------------------
(* The clients. A key, once computed, stays, so that nothing of what the   *)
(* server knows of it is disturbed.                                        *)

LEMMA ClientStep ==
  ASSUME NotAKey, IInv, UNCHANGED <<server, exponents, runs>>, replies' \subseteq replies,
         \A d \in Clients : key[d] \in Keys => key'[d] = key[d]
  PROVE  SessionCoherent' /\ SessionOwned' /\ Ran' /\ Answered'
  <1> USE DEF IInv
  <1>1. SessionCoherent'
    BY DEF SessionCoherent, server, ServerKey
  <1>2. SessionOwned'
    <2>1. ASSUME state = SEND_CMD
          PROVE  key'[skey.a] = skey /\ Authorised(skey.a)
      <3>1. PICK a \in Clients : skey = ServerKey(a)
        BY <2>1 DEF SessionCoherent
      <3>2. skey \in Keys /\ skey.a \in Clients
        BY <2>1, <3>1, ServerKeyType DEF ServerKey
      <3> QED BY <2>1, <3>2 DEF SessionOwned
    <2> QED BY <2>1 DEF SessionOwned, server, Authorised
  <1>3. Ran'
    BY DEF Ran, server, Authorised
  <1>4. Answered'
    BY DEF Answered
  <1> QED BY <1>1, <1>2, <1>3, <1>4

(* The next request of a client that has not come to a later one.          *)
LEMMA SendStep ==
  ASSUME IInv, NEW c \in Clients, NEW t \in RequestTypes, Send(c, t),
         waiting[c] <= t + 1
  PROVE  /\ requests' \subseteq Requests
         /\ waiting' \in [Clients -> { s + 1 : s \in RequestTypes }]
         /\ waiting'[c] = t + 1
         /\ \A d \in Clients \ {c} : waiting'[d] = waiting[d]
         /\ \A f \in requests' : waiting'[f.from] > f.type
  <1> USE DEF IInv
  <1>1. /\ requests' = requests \union {[type |-> t, from |-> c]}
        /\ waiting' = [waiting EXCEPT ![c] = t + 1]
    BY DEF Send
  <1>2. requests' \subseteq Requests
    BY <1>1 DEF TypeOK, Requests
  <1>3. /\ waiting' \in [Clients -> { s + 1 : s \in RequestTypes }]
        /\ waiting'[c] = t + 1
        /\ \A d \in Clients \ {c} : waiting'[d] = waiting[d]
    BY <1>1 DEF TypeOK
  <1>4. ASSUME NEW f \in requests' PROVE waiting'[f.from] > f.type
    <2>1. CASE f = [type |-> t, from |-> c]
      BY <1>3, <2>1 DEF RequestTypes
    <2>2. CASE f \in requests
      <3>1. f.from \in Clients /\ f.type \in RequestTypes /\ waiting[f.from] > f.type
        BY <2>2 DEF TypeOK, Requests, ClientCoherent
      <3>2. waiting[f.from] \in Int
        BY <3>1 DEF TypeOK, RequestTypes
      <3> QED BY <1>3, <3>1, <3>2 DEF RequestTypes
    <2> QED BY <1>1, <2>1, <2>2
  <1> QED BY <1>2, <1>3, <1>4

LEMMA StartIInv ==
  ASSUME NotAKey, IInv, NEW c \in Clients, Start(c)
  PROVE  IInv'
  <1> USE DEF IInv
  <1>1. /\ phase[c] = "start" /\ phase' = [phase EXCEPT ![c] = "waiting"]
        /\ Send(c, PING) /\ UNCHANGED <<server, exponents, salt, key, runs, replies>>
    BY DEF Start
  <1>2. waiting[c] = PONG
    BY <1>1 DEF ClientCoherent
  <1>3. /\ requests' \subseteq Requests
        /\ waiting' \in [Clients -> { s + 1 : s \in RequestTypes }]
        /\ waiting'[c] = PONG
        /\ \A d \in Clients \ {c} : waiting'[d] = waiting[d]
        /\ \A f \in requests' : waiting'[f.from] > f.type
    BY <1>1, <1>2, SendStep DEF RequestTypes
  <1>4. SessionCoherent' /\ SessionOwned' /\ Ran' /\ Answered'
    BY <1>1, ClientStep
  <1>5. TypeOK'
    BY <1>1, <1>3 DEF TypeOK, server
  <1>6. ClientCoherent'
    <2>1. \A d \in Clients : waiting'[d] = waiting[d]
      BY <1>2, <1>3
    <2>2. \A d \in Clients : phase'[d] = "start" => phase[d] = "start"
      BY <1>1 DEF TypeOK
    <2> QED BY <1>1, <1>3, <2>1, <2>2 DEF ClientCoherent
  <1>7. SuccessMeansRun'
    BY <1>1 DEF SuccessMeansRun, TypeOK
  <1> QED BY <1>4, <1>5, <1>6, <1>7

LEMMA TimeoutIInv ==
  ASSUME NotAKey, IInv, NEW c \in Clients, Timeout(c)
  PROVE  IInv'
  <1> USE DEF IInv
  <1>1. /\ phase' = [phase EXCEPT ![c] = "failed"]
        /\ UNCHANGED <<server, exponents, waiting, salt, key, runs, requests, replies>>
    BY DEF Timeout
  <1>2. SessionCoherent' /\ SessionOwned' /\ Ran' /\ Answered'
    BY <1>1, ClientStep
  <1>3. TypeOK'
    BY <1>1 DEF TypeOK, server, Ended
  <1>4. \A d \in Clients : phase'[d] \in {"start", "ok"} => phase[d] = phase'[d]
    BY <1>1 DEF TypeOK
  <1>5. ClientCoherent' /\ SuccessMeansRun'
    BY <1>1, <1>4 DEF ClientCoherent, SuccessMeansRun
  <1> QED BY <1>2, <1>3, <1>5

(* A reply that makes the client send its next request.                    *)
LEMMA RequestIInv ==
  ASSUME NotAKey, IInv, NEW c \in Clients, NEW t \in RequestTypes, Send(c, t),
         phase[c] = "waiting", waiting[c] = t - 1,
         UNCHANGED <<server, exponents, runs, phase>>, replies' \subseteq replies,
         salt' \in [Clients -> Users \union {NoUser}],
         key' \in [Clients -> Keys \union {NoKey}],
         \A d \in Clients \ {c} : salt'[d] = salt[d] /\ key'[d] = key[d],
         key'[c] = key[c] \/ key[c] = NoKey,
         Progress(c)'
  PROVE  IInv'
  <1> USE DEF IInv
  <1>1. /\ requests' \subseteq Requests
        /\ waiting' \in [Clients -> { s + 1 : s \in RequestTypes }]
        /\ waiting'[c] = t + 1
        /\ \A d \in Clients \ {c} : waiting'[d] = waiting[d]
        /\ \A f \in requests' : waiting'[f.from] > f.type
    <2>1. waiting[c] <= t + 1 BY DEF RequestTypes
    <2> QED BY <2>1, SendStep
  <1>2. TypeOK'
    BY <1>1 DEF TypeOK, server
  <1>3. SessionCoherent' /\ SessionOwned' /\ Ran' /\ Answered'
    BY ClientStep DEF NotAKey
  <1>4. ClientCoherent'
    <2>1. ASSUME NEW d \in Clients \ {c} PROVE Progress(d)'
      <3>1. Progress(d) BY DEF ClientCoherent
      <3> QED BY <1>1, <2>1, <3>1
    <2> QED BY <1>1, <2>1 DEF ClientCoherent
  <1>5. SuccessMeansRun'
    BY DEF SuccessMeansRun
  <1> QED BY <1>2, <1>3, <1>4, <1>5

LEMMA ReceiveIInv ==
  ASSUME NotAKey, IInv, NEW c \in Clients, Receive(c)
  PROVE  IInv'
  <1> USE DEF IInv
  <1>1. PICK f \in replies :
          /\ f.to = c
          /\ replies' = After(replies, f)
          /\ UNCHANGED <<server, exponents, runs>>
          /\ \/ Wanted(c, f) /\ OnReply(c, f)
             \/ ~Wanted(c, f) /\ UNCHANGED <<client, requests>>
    BY DEF Receive
  <1>2. replies' \subseteq replies
    BY <1>1 DEF After
  <1>3. CASE UNCHANGED <<client, requests>>
    <2>1. SessionCoherent' /\ SessionOwned' /\ Ran' /\ Answered'
      BY <1>1, <1>2, <1>3, ClientStep DEF client
    <2>2. TypeOK' /\ ClientCoherent' /\ SuccessMeansRun'
      BY <1>1, <1>2, <1>3 DEF TypeOK, ClientCoherent, SuccessMeansRun, client, server
    <2> QED BY <2>1, <2>2
  <1>4. CASE Wanted(c, f) /\ OnReply(c, f)
    <2>1. phase[c] = "waiting" /\ f.type = waiting[c]
      BY <1>4 DEF Wanted
    <2>2. Progress(c)
      BY DEF ClientCoherent
    <2>3. /\ salt \in [Clients -> Users \union {NoUser}]
          /\ key \in [Clients -> Keys \union {NoKey}]
          /\ waiting \in [Clients -> { t + 1 : t \in RequestTypes }]
      BY DEF TypeOK
    <2>4. ASSUME NEW t \in RequestTypes, Send(c, t), waiting[c] = t - 1
          PROVE  waiting'[c] = t + 1
      BY <2>3, <2>4 DEF Send
    <2>5. CASE OnPong(c, f)
      <3>1. /\ Send(c, SET_USERNAME) /\ UNCHANGED <<phase, salt, key>>
            /\ waiting[c] = SET_USERNAME - 1 /\ SET_USERNAME \in RequestTypes
        BY <2>1, <2>5 DEF OnPong, RequestTypes
      <3>2. Progress(c)'
        BY <2>1, <2>2, <2>4, <3>1
      <3> QED BY <1>1, <1>2, <2>1, <2>3, <3>1, <3>2, RequestIInv
    <2>6. CASE OnAck(c, f)
      <3>1. /\ Send(c, GET_PRIME) /\ UNCHANGED <<phase, salt, key>>
            /\ waiting[c] = GET_PRIME - 1 /\ GET_PRIME \in RequestTypes
        BY <2>1, <2>6 DEF OnAck, RequestTypes
      <3>2. Progress(c)'
        BY <2>1, <2>2, <2>4, <3>1
      <3> QED BY <1>1, <1>2, <2>1, <2>3, <3>1, <3>2, RequestIInv
    <2>7. CASE OnPrime(c, f)
      <3>1. /\ Send(c, SEND_A) /\ UNCHANGED <<phase, key>>
            /\ waiting[c] = SEND_A - 1 /\ SEND_A \in RequestTypes
            /\ salt' = [salt EXCEPT ![c] = f.salt] /\ f.salt \in Users
        BY <2>1, <2>7, RepliesType DEF OnPrime, RequestTypes
      <3>2. /\ salt' \in [Clients -> Users \union {NoUser}]
            /\ salt'[c] \in Users
            /\ \A d \in Clients \ {c} : salt'[d] = salt[d]
        BY <2>3, <3>1
      <3>3. Progress(c)'
        BY <2>1, <2>2, <2>4, <3>1, <3>2
      <3> QED BY <1>1, <1>2, <2>1, <2>3, <3>1, <3>2, <3>3, RequestIInv
    <2>8. CASE OnB(c, f)
      <3> DEFINE k == [user |-> User[c], salt |-> salt[c],
                       pw |-> Password[c], a |-> c, b |-> f.b]
      <3>1. /\ Send(c, SEND_AUTH) /\ UNCHANGED <<phase, salt>>
            /\ waiting[c] = SEND_AUTH - 1 /\ SEND_AUTH \in RequestTypes
            /\ key' = [key EXCEPT ![c] = k]
        BY <2>1, <2>8 DEF OnB, RequestTypes
      <3>2. f.b \in Nat
        BY <2>8, RepliesType DEF OnB
      <3>3. key[c] = NoKey /\ salt[c] \in Users
        BY <2>2, <3>1
      <3>4. k \in Keys
        BY <3>2, <3>3, UsersType DEF Keys
      <3>5. /\ key' \in [Clients -> Keys \union {NoKey}] /\ key'[c] = k
            /\ \A d \in Clients \ {c} : key'[d] = key[d]
        BY <2>3, <3>1, <3>4
      <3>6. Progress(c)'
        BY <2>1, <2>4, <3>1, <3>3, <3>4, <3>5
      <3> HIDE DEF k
      <3> QED BY <1>1, <1>2, <2>1, <2>3, <3>1, <3>3, <3>5, <3>6, RequestIInv
    <2>9. CASE OnDoneAuth(c, f)
      <3>1. /\ Send(c, SEND_CMD) /\ UNCHANGED <<phase, salt, key>>
            /\ waiting[c] = SEND_CMD - 1 /\ SEND_CMD \in RequestTypes
        BY <2>1, <2>9 DEF OnDoneAuth, RequestTypes
      <3>2. Progress(c)'
        BY <2>1, <2>2, <2>4, <3>1
      <3> QED BY <1>1, <1>2, <2>1, <2>3, <3>1, <3>2, RequestIInv
    <2>10. CASE OnResult(c, f)
      <3>1. /\ phase' = [phase EXCEPT ![c] = "ok"]
            /\ UNCHANGED <<waiting, salt, key, requests>>
            /\ runs[c] = 1
        BY <1>1, <2>10 DEF OnResult, Answered
      <3>2. SessionCoherent' /\ SessionOwned' /\ Ran' /\ Answered'
        BY <1>1, <1>2, <3>1, ClientStep
      <3>3. TypeOK' /\ SuccessMeansRun'
        BY <1>1, <1>2, <3>1 DEF TypeOK, SuccessMeansRun, Ended, server
      <3>4. \A d \in Clients : phase'[d] = "start" => phase[d] = "start"
        BY <3>1 DEF TypeOK
      <3>5. ClientCoherent'
        BY <3>1, <3>4 DEF ClientCoherent
      <3> QED BY <3>2, <3>3, <3>5
    <2> QED BY <1>4, <2>5, <2>6, <2>7, <2>8, <2>9, <2>10 DEF OnReply
  <1> QED BY <1>1, <1>3, <1>4

LEMMA NextIInv == ASSUME NotAKey, IInv, [Next]_vars PROVE IInv'
  <1>1. CASE UNCHANGED vars
    BY <1>1, IgnoreIInv DEF vars
  <1> QED BY <1>1, ParseMessageIInv, RestartIInv, StartIInv, ReceiveIInv, TimeoutIInv
          DEF Next

LEMMA IInvInvariant == ASSUME NotAKey PROVE Spec => []IInv
  BY InitIInv, NextIInv, PTL DEF Spec

-----------------------------------------------------------------------------
(* The server's session, the clients and every frame on its way keep their *)
(* types.                                                                  *)
THEOREM TypeCorrect == ASSUME NotAKey PROVE Spec => []TypeOK
  BY IInvInvariant, PTL DEF IInv

(* The handlers of ead.c find what they use: an open session of the name   *)
(* given last, its exponent and its key, whatever requests came before.    *)
THEOREM SessionsCoherent == ASSUME NotAKey PROVE Spec => []SessionCoherent
  BY IInvInvariant, PTL DEF IInv

(* Commands are taken only from the client that has proved that it knows   *)
(* the password of the user it named.                                      *)
THEOREM SessionsOwned == ASSUME NotAKey PROVE Spec => []SessionOwned
  BY IInvInvariant, PTL DEF IInv

(* A command runs at most once, and only for a client with the right       *)
(* password: its vector is spent, and no later session has its key.        *)
THEOREM CommandsRunOnce == ASSUME NotAKey PROVE Spec => []AtMostOnceRun
  <1>1. IInv => AtMostOnceRun
    BY DEF IInv, Ran, AtMostOnceRun
  <1> QED BY <1>1, IInvInvariant, PTL

(* A client reports success only if its command has run.                   *)
THEOREM SuccessIsTrue == ASSUME NotAKey PROVE Spec => []SuccessMeansRun
  BY IInvInvariant, PTL DEF IInv

-----------------------------------------------------------------------------
(* Sessions in turn. The session whose login is going on is the last that  *)
(* was opened, and clients know of no other B than those that were drawn.  *)
Fresh ==
  /\ state >= SEND_A => ts.b = exponents
  /\ \A f \in replies : f.type = SEND_B => f.b \in 1 .. exponents

LEMMA InitFresh == Init => Fresh
  BY DEF Init, ServerInit, Fresh

LEMMA ParseMessageFresh ==
  ASSUME IInv, Fresh, NEW t \in RequestTypes, NEW c \in Clients, ParseMessage(t, c)
  PROVE  Fresh'
  <1> USE DEF IInv
  <1>1. CASE UNCHANGED <<server, exponents, runs, replies>>
    BY <1>1 DEF Fresh, server
  <1>2. CASE Expected(t) /\ Handle(t, c)
    <2>1. CASE t = PING /\ HandlePing(c)
      BY <2>1 DEF HandlePing, Reply, Fresh, server
    <2>2. CASE t = SET_USERNAME /\ HandleSetUsername(c)
      BY <2>2 DEF HandleSetUsername, Reply, Fresh
    <2>3. CASE t = GET_PRIME /\ HandleGetPrime(c)
      <3>1. /\ exponents' = exponents + 1 /\ exponents \in Nat
            /\ replies' = replies \union {[type |-> PRIME, to |-> c, salt |-> ts.user]}
            /\ ts'.b = exponents + 1
        BY <2>3 DEF HandleGetPrime, Reply, TypeOK
      <3> QED BY <3>1 DEF Fresh
    <2>4. CASE t = SEND_A /\ HandleSendA(c)
      <3>1. state = SEND_A
        BY <1>2, <2>4 DEF Expected
      <3>2. /\ exponents' = exponents /\ ts'.b = ts.b
            /\ replies' = replies \union {[type |-> SEND_B, to |-> c, b |-> ts.b]}
        BY <2>4 DEF HandleSendA, Reply, TypeOK
      <3>3. ts.b \in 1 .. exponents
        BY <3>1 DEF Fresh, SessionCoherent, TypeOK
      <3> QED BY <3>1, <3>2, <3>3 DEF Fresh
    <2>5. CASE t = SEND_AUTH /\ HandleSendAuth(c)
      <3>1. state = SEND_AUTH
        BY <1>2, <2>5 DEF Expected
      <3> QED BY <2>5, <3>1 DEF HandleSendAuth, Reply, Fresh
    <2>6. CASE t = SEND_CMD /\ HandleSendCmd(c)
      BY <2>6 DEF HandleSendCmd, Reply, Fresh, server
    <2> QED BY <1>2, <2>1, <2>2, <2>3, <2>4, <2>5, <2>6 DEF Handle
  <1> QED BY <1>1, <1>2 DEF ParseMessage

LEMMA NextFresh == ASSUME IInv, Fresh, [Next]_vars PROVE Fresh'
  <1>1. CASE Restart
    BY <1>1 DEF Restart, Fresh
  <1>2. ASSUME NEW c \in Clients, Start(c) \/ Receive(c) \/ Timeout(c)
        PROVE  Fresh'
    <2>1. UNCHANGED <<server, exponents>> /\ replies' \subseteq replies
      BY <1>2 DEF Start, Receive, Timeout, After
    <2> QED BY <2>1 DEF Fresh, server
  <1>3. CASE UNCHANGED vars
    BY <1>3 DEF vars, server, Fresh
  <1> QED BY <1>1, <1>2, <1>3, ParseMessageFresh DEF Next

LEMMA FreshInvariant == ASSUME NotAKey PROVE Spec => [](IInv /\ Fresh)
  BY InitIInv, NextIInv, InitFresh, NextFresh, PTL DEF Spec

-----------------------------------------------------------------------------
(* What a handler can change of the access, and what a client can.         *)

LEMMA ServerSide ==
  ASSUME UNCHANGED client
  PROVE  UNCHANGED <<Bound, Told>>
  BY DEF client, Bound, Told

LEMMA ClientSide ==
  ASSUME UNCHANGED <<server, exponents, runs>>
  PROVE  UNCHANGED <<Spent, Holder, runs>>
  BY DEF server, Spent, Holder

(* A new login, or a restart, ends the session, whatever state it is in.   *)
LEMMA SessionEnds ==
  ASSUME IInv, UNCHANGED <<client, exponents, runs>>, state' \in {SET_USERNAME, GET_PRIME}
  PROVE  [Access!Next]_(Access!vars)
  <1>1. UNCHANGED <<Bound, Told, runs>>
    BY ServerSide
  <1>2. Spent' = exponents /\ Holder' = NoUser
    BY DEF Spent, Holder
  <1>3. CASE state \in {SEND_A, SEND_AUTH}
    <2>1. Holder = NoUser /\ Spent' = Spent + 1
      BY <1>2, <1>3 DEF IInv, TypeOK, Spent, Holder
    <2> QED BY <1>1, <1>2, <2>1 DEF Access!Next, Access!GiveUp
  <1>4. CASE state \notin {SEND_A, SEND_AUTH}
    <2>1. Spent' = Spent
      BY <1>2, <1>4 DEF Spent
    <2>2. CASE Holder = NoUser
      BY <1>1, <1>2, <2>1, <2>2 DEF Access!vars
    <2>3. CASE Holder # NoUser
      BY <1>1, <1>2, <2>1, <2>3 DEF Access!Next, Access!Logout
    <2> QED BY <2>2, <2>3
  <1> QED BY <1>3, <1>4

(* The proof that is accepted is that of a trusted client, for the session *)
(* that was opened last.                                                   *)
LEMMA AuthStep ==
  ASSUME NotAKey, IInv, IInv', Fresh, UNCHANGED client, NEW c \in Clients,
         [type |-> SEND_AUTH, from |-> c] \in requests,
         state = SEND_AUTH, HandleSendAuth(c)
  PROVE  [Access!Next]_(Access!vars)
  <1>1. UNCHANGED <<username, skey, rx_iv, exponents, runs>>
    BY DEF HandleSendAuth
  <1>2. CASE state' = SET_USERNAME
    BY <1>1, <1>2, SessionEnds
  <1>3. CASE key[c] = skey /\ state' = SEND_CMD
    <2>1. waiting[c] > SEND_AUTH /\ waiting[c] > SEND_B
      BY DEF IInv, ClientCoherent, TypeOK, RequestTypes
    <2>2. key[c] \in Keys /\ key[c].a = c
      BY <2>1 DEF IInv, ClientCoherent
    <2>3. skey.a = c /\ skey.b = exponents
      <3>1. PICK a \in Clients : skey = ServerKey(a)
        BY DEF IInv, SessionCoherent
      <3> QED BY <1>3, <2>2, <3>1 DEF ServerKey, Fresh
    <2>4. key[c] # NoKey
      BY <2>2 DEF NotAKey
    <2>5. exponents \in Nat
      BY DEF IInv, TypeOK
    <2>6. Authorised(c)
      BY <1>1, <1>3, <2>3 DEF IInv, SessionOwned, client, Authorised
    <2>7. /\ Spent = exponents - 1 /\ Spent' = exponents
          /\ Holder = NoUser /\ Holder' = c
      BY <1>1, <1>3, <2>3 DEF Spent, Holder
    <2>8. Bound[c] = Spent + 1 /\ Spent' = Spent + 1
      BY <1>3, <2>3, <2>4, <2>5, <2>7 DEF Bound
    <2>9. UNCHANGED <<Bound, Told, runs>>
      BY <1>1, ServerSide
    <2>10. Access!Login(c)
      BY <2>6, <2>7, <2>8, <2>9 DEF Access!Login
    <2> QED BY <2>10 DEF Access!Next
  <1> QED BY <1>2, <1>3 DEF HandleSendAuth

LEMMA CmdStep ==
  ASSUME NotAKey, IInv, UNCHANGED client, NEW c \in Clients,
         [type |-> SEND_CMD, from |-> c] \in requests,
         state = SEND_CMD, HandleSendCmd(c)
  PROVE  [Access!Next]_(Access!vars)
  <1>1. UNCHANGED <<state, skey, exponents>>
    BY DEF HandleSendCmd, server
  <1>2. UNCHANGED <<Spent, Holder, Bound, Told>>
    BY <1>1, ServerSide DEF Spent, Holder
  <1>3. CASE UNCHANGED runs
    BY <1>2, <1>3, ServerSide DEF Access!vars
  <1>4. CASE Decrypts(c) /\ runs' = [runs EXCEPT ![c] = @ + 1]
    <2>1. waiting[c] > SEND_CMD /\ waiting[c] > SEND_B
      BY DEF IInv, ClientCoherent, TypeOK, RequestTypes
    <2>2. Holder = c
      BY <1>4, <2>1 DEF IInv, ClientCoherent, Decrypts, Holder
    <2>3. runs[c] = 0
      BY <1>4 DEF IInv, Ran, TypeOK, Decrypts, CmdIv
    <2>4. runs' = [runs EXCEPT ![c] = 1]
      BY <1>4, <2>3
    <2>5. Access!Obey(c)
      BY <1>2, <2>2, <2>3, <2>4 DEF Access!Obey
    <2> QED BY <2>5 DEF Access!Next
  <1> QED BY <1>3, <1>4 DEF HandleSendCmd

LEMMA ParseMessageStep ==
  ASSUME NotAKey, IInv, IInv', Fresh, NEW t \in RequestTypes, NEW c \in Clients,
         ParseMessage(t, c)
  PROVE  [Access!Next]_(Access!vars)
  <1>1. UNCHANGED client /\ [type |-> t, from |-> c] \in requests
    BY DEF ParseMessage
  <1>2. CASE UNCHANGED <<server, exponents, runs>>
    BY <1>1, <1>2, ServerSide, ClientSide DEF Access!vars
  <1>3. CASE Expected(t) /\ Handle(t, c)
    <2>1. CASE t = PING /\ HandlePing(c)
      BY <1>2, <2>1 DEF HandlePing
    <2>2. CASE t = SET_USERNAME /\ HandleSetUsername(c)
      BY <1>1, <2>2, SessionEnds DEF HandleSetUsername
    <2>3. CASE t = GET_PRIME /\ HandleGetPrime(c)
      <3>1. /\ state = GET_PRIME /\ state' = SEND_A /\ exponents' = exponents + 1
            /\ exponents \in Nat /\ UNCHANGED runs
        BY <1>3, <2>3 DEF HandleGetPrime, Expected, IInv, TypeOK
      <3>2. UNCHANGED <<Spent, Holder>>
        BY <3>1 DEF Spent, Holder
      <3> QED BY <1>1, <3>1, <3>2, ServerSide DEF Access!vars
    <2>4. CASE t = SEND_A /\ HandleSendA(c)
      <3>1. /\ state = SEND_A /\ state' \in {SEND_A, SEND_AUTH}
            /\ UNCHANGED <<exponents, runs>>
        BY <1>3, <2>4 DEF HandleSendA, Expected
      <3>2. UNCHANGED <<Spent, Holder>>
        BY <3>1 DEF Spent, Holder
      <3> QED BY <1>1, <3>1, <3>2, ServerSide DEF Access!vars
    <2>5. CASE t = SEND_AUTH /\ HandleSendAuth(c)
      BY <1>1, <1>3, <2>5, AuthStep DEF Expected
    <2>6. CASE t = SEND_CMD /\ HandleSendCmd(c)
      BY <1>1, <1>3, <2>6, CmdStep DEF Expected
    <2> QED BY <1>3, <2>1, <2>2, <2>3, <2>4, <2>5, <2>6 DEF Handle
  <1> QED BY <1>2, <1>3 DEF ParseMessage

LEMMA ReceiveStep ==
  ASSUME NotAKey, IInv, Fresh, NEW c \in Clients, Receive(c)
  PROVE  [Access!Next]_(Access!vars)
  <1>1. PICK f \in replies :
          /\ f.to = c
          /\ UNCHANGED <<server, exponents, runs>>
          /\ \/ Wanted(c, f) /\ OnReply(c, f)
             \/ ~Wanted(c, f) /\ UNCHANGED <<client, requests>>
    BY DEF Receive
  <1>2. UNCHANGED <<Spent, Holder, runs>>
    BY <1>1, ClientSide
  <1>3. CASE UNCHANGED <<phase, key>>
    BY <1>2, <1>3 DEF Bound, Told, Access!vars
  <1>4. CASE Wanted(c, f) /\ OnB(c, f)
    <2>1. /\ UNCHANGED phase /\ f.b \in 1 .. exponents /\ f.type = SEND_B
          /\ key' = [key EXCEPT ![c] = [user |-> User[c], salt |-> salt[c],
                       pw |-> Password[c], a |-> c, b |-> f.b]]
      BY <1>4 DEF OnB, Fresh
    <2>2. waiting[c] = SEND_B /\ Progress(c)
      BY <1>4, <2>1 DEF IInv, ClientCoherent, Wanted
    <2>3. key[c] = NoKey /\ salt[c] \in Users
      BY <2>2
    <2>4. [user |-> User[c], salt |-> salt[c], pw |-> Password[c], a |-> c, b |-> f.b] \in Keys
      BY <2>1, <2>3, UsersType DEF Keys, IInv, TypeOK
    <2>5. Bound[c] = 0 /\ Bound'[c] = f.b /\ Bound' = [Bound EXCEPT ![c] = f.b]
      BY <2>1, <2>3, <2>4 DEF Bound, NotAKey, IInv, TypeOK
    <2>6. f.b \in 1 .. Spent + 1
      BY <2>1 DEF Spent, IInv, TypeOK
    <2>7. UNCHANGED Told
      BY <2>1 DEF Told
    <2>8. Access!Bind(c)
      BY <1>2, <2>5, <2>6, <2>7 DEF Access!Bind
    <2> QED BY <2>8 DEF Access!Next
  <1>5. CASE OnResult(c, f)
    <2>1. /\ phase' = [phase EXCEPT ![c] = "ok"] /\ UNCHANGED key /\ runs[c] = 1
      BY <1>1, <1>5 DEF OnResult, IInv, Answered
    <2>2. UNCHANGED Bound /\ Told' = Told \union {c}
      BY <2>1 DEF Bound, Told, IInv, TypeOK
    <2>3. Access!Tell(c)
      BY <1>2, <2>1, <2>2 DEF Access!Tell
    <2> QED BY <2>3 DEF Access!Next
  <1> QED BY <1>1, <1>3, <1>4, <1>5
          DEF OnReply, OnPong, OnAck, OnPrime, OnDoneAuth, client

LEMMA AccessStep ==
  ASSUME NotAKey, IInv, IInv', Fresh, [Next]_vars
  PROVE  [Access!Next]_(Access!vars)
  <1>1. CASE Restart
    BY <1>1, SessionEnds DEF Restart
  <1>2. ASSUME NEW c \in Clients, Start(c)
        PROVE  UNCHANGED Access!vars
    <2>1. Told' = Told /\ UNCHANGED Bound
      BY <1>2 DEF Start, Told, Bound, IInv, TypeOK
    <2> QED BY <1>2, <2>1, ClientSide DEF Start, Access!vars
  <1>3. ASSUME NEW c \in Clients, Timeout(c)
        PROVE  UNCHANGED Access!vars
    <2>1. Told' = Told /\ UNCHANGED Bound
      BY <1>3 DEF Timeout, Told, Bound, IInv, TypeOK
    <2> QED BY <1>3, <2>1, ClientSide DEF Timeout, Access!vars
  <1>4. CASE UNCHANGED vars
    BY <1>4, ClientSide, ServerSide DEF vars, Access!vars
  <1> QED BY <1>1, <1>2, <1>3, <1>4, ParseMessageStep, ReceiveStep DEF Next

(* Logins, commands and answers come to those of EadAccess: nothing that   *)
(* was recorded in one session has any effect in a later one, and nobody   *)
(* without the password is ever let in, for any number of clients and      *)
(* sessions.                                                               *)
THEOREM SessionImplementsAccess == ASSUME NotAKey PROVE Spec => ImplementsAccess
  <1>1. Init => Access!Init
    BY DEF Init, ServerInit, Access!Init, Spent, Holder, Bound, Told
  <1>2. IInv /\ IInv' /\ Fresh /\ [Next]_vars => [Access!Next]_(Access!vars)
    BY AccessStep
  <1> QED BY <1>1, <1>2, FreshInvariant, PTL DEF Spec, ImplementsAccess, Access!Spec
=============================================================================
