----------------------------- MODULE EadSession -----------------------------
(***************************************************************************)
(* Sessions of the Emergency Access Daemon: the request handlers and the   *)
(* state variable of one server instance (package/ead/src/ead.c), several  *)
(* runs of ead-client (ead-client.c), and the datagrams between them.      *)
(*                                                                         *)
(* The server keeps ONE session for all clients. Each client program runs  *)
(* once through ping, user name, prime, A, authentication and command; it  *)
(* sends every request once and waits for one reply. Frames may be         *)
(* repeated, delayed and reordered at will; those never received are lost. *)
(*                                                                         *)
(* SRP is modelled by its keys: two peers hold the same key exactly when   *)
(* they used the same name, salt, password and pair of exponents. A client *)
(* draws one exponent (it is named by the client itself), the server a new *)
(* one, numbered in order, whenever it leaves EAD_TYPE_GET_PRIME. A frame  *)
(* enciphered under another key is refused, as its vector is not in the    *)
(* window (EadChannel).                                                    *)
(***************************************************************************)
EXTENDS Integers

CONSTANTS
  Clients,      \* runs of ead-client against this node
  User,         \* the user name each was given
  Password,     \* and the password
  Passwd,       \* the $1$ entries of the password file: user -> password
  Degenerate,   \* clients whose A makes t_servergetkey return NULL
  NoUser,       \* the empty user name the server starts with
  NoKey,        \* the key before ead_set_key
  Duplicates,   \* may a frame be received more than once?
  Impatient,    \* clients that may stop although an answer is on its way
  Faults,       \* which of "command" (it fails), "restart" may happen
  MaxExponent   \* bound: how often the server draws an exponent

Users == DOMAIN Passwd \union { User[c] : c \in Clients }
Passwords == { Passwd[u] : u \in DOMAIN Passwd } \union { Password[c] : c \in Clients }

ASSUME SessionConstants ==
  /\ User \in [Clients -> Users] /\ Password \in [Clients -> Passwords]
  /\ Passwd \in [DOMAIN Passwd -> Passwords]
  /\ Degenerate \subseteq Clients
  /\ NoUser \notin Users
  /\ Duplicates \in BOOLEAN
  /\ Impatient \subseteq Clients
  /\ Faults \subseteq {"command", "restart"}
  /\ MaxExponent \in Nat

(* enum ead_type: a reply has the number of its request plus one.          *)
PING == 0           PONG == 1
SET_USERNAME == 2   ACK_USERNAME == 3
GET_PRIME == 4      PRIME == 5
SEND_A == 6         SEND_B == 7
SEND_AUTH == 8      DONE_AUTH == 9
SEND_CMD == 10      RESULT_CMD == 11

RequestTypes == {PING, SET_USERNAME, GET_PRIME, SEND_A, SEND_AUTH, SEND_CMD}
States == RequestTypes \ {PING}

Keys == [user : Users, salt : Users, pw : Passwords, a : Clients, b : Nat]
NotAKey == NoKey \notin Keys

VARIABLES
  state,        \* server: the request it expects next
  username,     \* server: the last name it was given
  ts,           \* server: the SRP session, NULL when not open
  skey,         \* server: the key given to ead_set_key
  rx_iv,        \* server: vectors spent under skey, relative to its first
  exponents,    \* how many exponents were drawn, by all incarnations
  phase,        \* client: "start", "waiting", "ok" or "failed"
  waiting,      \* client: the type of reply it waits for
  salt,         \* client: the salt it was sent
  key,          \* client: the key it computed
  runs,         \* how often the command of each client was started
  requests,     \* frames on their way to the server
  replies       \* frames on their way to the clients

server == <<state, username, ts, skey, rx_iv>>
client == <<phase, waiting, salt, key>>
vars == <<server, exponents, client, runs, requests, replies>>

(* prepare_password finds an entry for the name in the password file.      *)
PasswordFound(u) == u \in DOMAIN Passwd

Closed == [open |-> FALSE, user |-> NoUser, b |-> 0, tainted |-> FALSE]

ServerInit ==
  /\ state = SET_USERNAME
  /\ username = NoUser
  /\ ts = Closed
  /\ skey = NoKey
  /\ rx_iv = 0

Init ==
  /\ ServerInit
  /\ exponents = 0
  /\ phase = [c \in Clients |-> "start"]
  /\ waiting = [c \in Clients |-> PONG]
  /\ salt = [c \in Clients |-> NoUser]
  /\ key = [c \in Clients |-> NoKey]
  /\ runs = [c \in Clients |-> 0]
  /\ requests = {}
  /\ replies = {}

(* What is left of a set of frames after one of them was received.         *)
After(frames, f) == IF Duplicates THEN frames ELSE frames \ {f}

-----------------------------------------------------------------------------
(* The server. c is the sender of the request; what a request carries is   *)
(* fixed by its type and its sender, who sends every request once.         *)

Reply(f) == replies' = replies \union {f}

(* handle_ping keeps no state.                                             *)
HandlePing(c) ==
  /\ Reply([type |-> PONG, to |-> c])
  /\ UNCHANGED <<server, exponents, runs>>

(* Mutant: the old session is not cleared.                                 *)
HandleSetUsernameKeep(c) ==
  /\ username' = User[c]
  /\ PasswordFound(User[c])
  /\ state' = GET_PRIME
  /\ ts' = IF ts.open THEN ts ELSE [Closed EXCEPT !.open = TRUE, !.user = User[c]]
  /\ Reply([type |-> ACK_USERNAME, to |-> c])
  /\ UNCHANGED <<skey, rx_iv, exponents, runs>>

(* handle_set_username: any session is closed, the name is acknowledged,   *)
(* and set_state opens a session if prepare_password finds the user.       *)
HandleSetUsername(c) ==
  /\ username' = User[c]
  /\ \/ /\ PasswordFound(User[c])
        /\ ts' = [Closed EXCEPT !.open = TRUE, !.user = User[c]]
        /\ state' = GET_PRIME
     \/ /\ ~PasswordFound(User[c])
        /\ ts' = Closed
        /\ state' = SET_USERNAME
  /\ Reply([type |-> ACK_USERNAME, to |-> c])
  /\ UNCHANGED <<skey, rx_iv, exponents, runs>>

(* Mutant: t_servergenexp is called for the first session only.            *)
HandleGetPrimeOnce(c) ==
  /\ exponents' = 1
  /\ ts' = [ts EXCEPT !.b = 1]
  /\ state' = SEND_A
  /\ Reply([type |-> PRIME, to |-> c, salt |-> ts.user])
  /\ UNCHANGED <<username, skey, rx_iv, runs>>

(* handle_get_prime sends the salt; set_state draws a new exponent.        *)
HandleGetPrime(c) ==
  /\ exponents < MaxExponent
  /\ exponents' = exponents + 1
  /\ ts' = [ts EXCEPT !.b = exponents + 1]
  /\ state' = SEND_A
  /\ Reply([type |-> PRIME, to |-> c, salt |-> ts.user])
  /\ UNCHANGED <<username, skey, rx_iv, runs>>

ServerKey(a) ==
  [user |-> ts.user, salt |-> ts.user, pw |-> Passwd[ts.user], a |-> a, b |-> ts.b]

(* Mutant: the state is set to the type of the reply.                      *)
HandleSendAReply(c) ==
  /\ skey' = ServerKey(c) /\ rx_iv' = 0 /\ state' = SEND_B
  /\ Reply([type |-> SEND_B, to |-> c, b |-> ts.b])
  /\ UNCHANGED <<username, ts, exponents, runs>>

(* handle_send_a answers with B before set_state computes the key. If that *)
(* fails the state stays, but A has already gone into the hash (ckhash)    *)
(* that the client's proof is compared with.                               *)
HandleSendA(c) ==
  /\ \/ /\ c \notin Degenerate
        /\ skey' = ServerKey(c)
        /\ rx_iv' = 0
        /\ state' = SEND_AUTH
        /\ UNCHANGED ts
     \/ /\ c \in Degenerate
        /\ ts' = [ts EXCEPT !.tainted = TRUE]
        /\ UNCHANGED <<state, skey, rx_iv>>
  /\ Reply([type |-> SEND_B, to |-> c, b |-> ts.b])
  /\ UNCHANGED <<username, exponents, runs>>

(* Mutant: the result of t_serververify is not looked at.                  *)
HandleSendAuthAny(c) ==
  /\ state' = SEND_CMD
  /\ Reply([type |-> DONE_AUTH, to |-> c, key |-> key[c]])
  /\ UNCHANGED <<username, ts, skey, rx_iv, exponents, runs>>

(* handle_send_auth: a wrong proof closes the session without an answer.   *)
HandleSendAuth(c) ==
  /\ \/ /\ key[c] = skey /\ ~ts.tainted
        /\ state' = SEND_CMD
        /\ Reply([type |-> DONE_AUTH, to |-> c, key |-> skey])
        /\ UNCHANGED ts
     \/ /\ key[c] # skey \/ ts.tainted
        /\ state' = SET_USERNAME
        /\ ts' = Closed
        /\ UNCHANGED replies
  /\ UNCHANGED <<username, skey, rx_iv, exponents, runs>>

(* The client numbers its only command with the first vector after the     *)
(* initial one, and ead_check_rx_iv refuses what is spent.                 *)
CmdIv == 1

Decrypts(c) == key[c] = skey /\ CmdIv > rx_iv

(* Mutant: a command that could not be started is answered all the same.   *)
HandleSendCmdAlways(c) ==
  /\ Decrypts(c)
  /\ rx_iv' = CmdIv
  /\ \/ runs' = [runs EXCEPT ![c] = @ + 1]
     \/ "command" \in Faults /\ UNCHANGED runs
  /\ Reply([type |-> RESULT_CMD, to |-> c, key |-> skey])
  /\ UNCHANGED <<state, username, ts, skey, exponents>>

(* handle_send_cmd: the command may fail to start (pipe, fork), or run     *)
(* into its timeout and end without the last packet. The stream of output  *)
(* before that packet is the subject of EadCommand.                        *)
HandleSendCmd(c) ==
  \/ /\ Decrypts(c)
     /\ rx_iv' = CmdIv
     /\ \/ /\ runs' = [runs EXCEPT ![c] = @ + 1]
           /\ Reply([type |-> RESULT_CMD, to |-> c, key |-> skey])
        \/ /\ "command" \in Faults
           /\ runs' = [runs EXCEPT ![c] = @ + 1]
           /\ UNCHANGED replies
        \/ /\ "command" \in Faults
           /\ UNCHANGED <<runs, replies>>
     /\ UNCHANGED <<state, username, ts, skey, exponents>>
  \/ /\ ~Decrypts(c)
     /\ UNCHANGED <<server, exponents, runs, replies>>

Handle(t, c) ==
  \/ t = PING /\ HandlePing(c)
  \/ t = SET_USERNAME /\ HandleSetUsername(c)
  \/ t = GET_PRIME /\ HandleGetPrime(c)
  \/ t = SEND_A /\ HandleSendA(c)
  \/ t = SEND_AUTH /\ HandleSendAuth(c)
  \/ t = SEND_CMD /\ HandleSendCmd(c)

(* Mutant: a user name is taken only when one is expected.                 *)
ExpectedStrict(t) == t = PING \/ state = t

(* parse_message drops a request of the login sequence that is not the one *)
(* expected next. Ping and user name are taken in every state.             *)
Expected(t) == t >= GET_PRIME => state = t

(* parse_message for one frame. Every frame here carries the instance      *)
(* number 0 in its sid, which is the one this instance answers.            *)
ParseMessage(t, c) ==
  LET f == [type |-> t, from |-> c] IN
  /\ f \in requests
  /\ requests' = After(requests, f)
  /\ UNCHANGED client
  /\ \/ Expected(t) /\ Handle(t, c)
     \/ ~Expected(t) /\ UNCHANGED <<server, exponents, runs, replies>>

(* The instance is killed and a new one started (stop_server, start_server)*)
(* with the node id of the old one: frames for the old one reach the new.  *)
(* It makes no difference to an instance that expects a user name.         *)
Restart ==
  /\ "restart" \in Faults
  /\ state # SET_USERNAME
  /\ state' = SET_USERNAME /\ username' = NoUser /\ ts' = Closed
  /\ skey' = NoKey /\ rx_iv' = 0
  /\ UNCHANGED <<exponents, client, runs, requests, replies>>

-----------------------------------------------------------------------------
(* A client. send_packet sends a request and waits for one type of reply;  *)
(* it skips other replies and those its handler refuses.                   *)

Ended == {"ok", "failed"}

Send(c, t) ==
  /\ requests' = requests \union {[type |-> t, from |-> c]}
  /\ waiting' = [waiting EXCEPT ![c] = t + 1]

Start(c) ==
  /\ phase[c] = "start"
  /\ phase' = [phase EXCEPT ![c] = "waiting"]
  /\ Send(c, PING)
  /\ UNCHANGED <<server, exponents, salt, key, runs, replies>>

(* What send_packet lets through to its handler and the handler accepts:   *)
(* handle_done_auth and handle_cmd_data need the key of this client.       *)
Wanted(c, f) ==
  /\ phase[c] = "waiting"
  /\ f.type = waiting[c]
  /\ f.type \in {DONE_AUTH, RESULT_CMD} => f.key = key[c]

(* handle_pong and handle_none: send_username, get_prime.                  *)
OnPong(c, f) ==
  /\ f.type = PONG
  /\ Send(c, SET_USERNAME)
  /\ UNCHANGED <<phase, salt, key>>

OnAck(c, f) ==
  /\ f.type = ACK_USERNAME
  /\ Send(c, GET_PRIME)
  /\ UNCHANGED <<phase, salt, key>>

(* handle_prime keeps the salt for md5_crypt, then send_a.                 *)
OnPrime(c, f) ==
  /\ f.type = PRIME
  /\ salt' = [salt EXCEPT ![c] = f.salt]
  /\ Send(c, SEND_A)
  /\ UNCHANGED <<phase, key>>

(* handle_b, then send_auth computes the key and sends the proof of it.    *)
OnB(c, f) ==
  /\ f.type = SEND_B
  /\ key' = [key EXCEPT ![c] = [user |-> User[c], salt |-> salt[c],
                                pw |-> Password[c], a |-> c, b |-> f.b]]
  /\ Send(c, SEND_AUTH)
  /\ UNCHANGED <<phase, salt>>

(* handle_done_auth has verified the server, send_command.                 *)
OnDoneAuth(c, f) ==
  /\ f.type = DONE_AUTH
  /\ Send(c, SEND_CMD)
  /\ UNCHANGED <<phase, salt, key>>

(* handle_cmd_data has seen the last packet of the command.                *)
OnResult(c, f) ==
  /\ f.type = RESULT_CMD
  /\ phase' = [phase EXCEPT ![c] = "ok"]
  /\ UNCHANGED <<waiting, salt, key, requests>>

OnReply(c, f) ==
  \/ OnPong(c, f) \/ OnAck(c, f) \/ OnPrime(c, f)
  \/ OnB(c, f) \/ OnDoneAuth(c, f) \/ OnResult(c, f)

(* One turn of the select loop of send_packet.                             *)
Receive(c) ==
  \E f \in replies :
    /\ f.to = c
    /\ replies' = After(replies, f)
    /\ UNCHANGED <<server, exponents, runs>>
    /\ \/ Wanted(c, f) /\ OnReply(c, f)
       \/ ~Wanted(c, f) /\ UNCHANGED <<client, requests>>

InFlight(c) ==
  \/ \E f \in requests : f.from = c
  \/ \E f \in replies : f.to = c

(* The wait ends without an answer and the program exits with an error. It *)
(* is long compared with the network and the handlers: a client that is    *)
(* not impatient stops only when nothing is on its way any more.           *)
Timeout(c) ==
  /\ phase[c] = "waiting"
  /\ c \in Impatient \/ ~InFlight(c)
  /\ phase' = [phase EXCEPT ![c] = "failed"]
  /\ UNCHANGED <<server, exponents, waiting, salt, key, runs, requests, replies>>

-----------------------------------------------------------------------------
Next ==
  \/ \E t \in RequestTypes, c \in Clients : ParseMessage(t, c)
  \/ Restart
  \/ \E c \in Clients : Start(c) \/ Receive(c) \/ Timeout(c)

Spec == Init /\ [][Next]_vars

(* The server is one process that handles what pcap gives it, the clients  *)
(* read their sockets, and every wait has an end. Nobody has to start a    *)
(* client, and the faults are not obliged to happen.                       *)
Fairness ==
  /\ \A t \in RequestTypes, c \in Clients : WF_vars(ParseMessage(t, c))
  /\ \A c \in Clients : WF_vars(Receive(c)) /\ WF_vars(Timeout(c))

FairSpec == Spec /\ Fairness

-----------------------------------------------------------------------------
Requests == [type : RequestTypes, from : Clients]
Replies ==
  [type : {PONG, ACK_USERNAME}, to : Clients]
    \union [type : {PRIME}, to : Clients, salt : Users]
    \union [type : {SEND_B}, to : Clients, b : Nat]
    \union [type : {DONE_AUTH, RESULT_CMD}, to : Clients, key : Keys]

TypeOK ==
  /\ state \in States
  /\ username \in Users \union {NoUser}
  /\ ts \in [open : BOOLEAN, user : Users \union {NoUser}, b : Nat, tainted : BOOLEAN]
  /\ skey \in Keys \union {NoKey}
  /\ rx_iv \in {0, CmdIv}
  /\ exponents \in Nat
  /\ phase \in [Clients -> {"start", "waiting"} \union Ended]
  /\ waiting \in [Clients -> { t + 1 : t \in RequestTypes }]
  /\ salt \in [Clients -> Users \union {NoUser}]
  /\ key \in [Clients -> Keys \union {NoKey}]
  /\ runs \in [Clients -> Nat]
  /\ requests \subseteq Requests
  /\ replies \subseteq Replies

(* The handlers use ts, tce, B and skey without a test: each is there, and *)
(* belongs to the session of the present user name, in every state whose   *)
(* requests lead to it, whatever requests came before, in whatever order.  *)
SessionCoherent ==
  /\ ts.open <=> state >= GET_PRIME
  /\ state >= GET_PRIME => ts.user = username /\ username \in DOMAIN Passwd
  /\ state >= SEND_A => ts.b > 0
  /\ state >= SEND_AUTH => \E a \in Clients : skey = ServerKey(a)

Authorised(c) == User[c] \in DOMAIN Passwd /\ Password[c] = Passwd[User[c]]

(* Commands are taken only from the one client that has proved that it     *)
(* knows the password of the user it named, also when others took part in  *)
(* the same login sequence.                                                *)
SessionOwned == state = SEND_CMD => key[skey.a] = skey /\ Authorised(skey.a)

(* However often frames are repeated, delayed or replayed into a later     *)
(* session or another incarnation of the server, a command runs once, and  *)
(* only for a client with the right password.                              *)
AtMostOnceRun == \A c \in Clients : runs[c] <= 1 /\ (runs[c] = 1 => Authorised(c))

(* A client reports success only if its command has run.                   *)
SuccessMeansRun == \A c \in Clients : phase[c] = "ok" => runs[c] = 1

(* The sessions that can no longer be entered: all that were opened but    *)
(* the one in which A or its proof is expected.                            *)
Spent == IF state \in {SEND_A, SEND_AUTH} THEN exponents - 1 ELSE exponents

Holder == IF state = SEND_CMD THEN skey.a ELSE NoUser
Bound == [c \in Clients |-> IF key[c] = NoKey THEN 0 ELSE key[c].b]
Told == { c \in Clients : phase[c] = "ok" }

Access == INSTANCE EadAccess WITH
  Trusted <- { c \in Clients : Authorised(c) }, Nobody <- NoUser,
  spent <- Spent, holder <- Holder, bound <- Bound, told <- Told

(* A proof recorded in one session lets nobody into another, and a session *)
(* that was given up, also by a restart, is never entered: all that the    *)
(* handlers do to the one session comes to logins and logouts in turn.     *)
ImplementsAccess == Access!Spec

(* All other clients are done and nothing of theirs is left on the network.*)
Alone(c) ==
  \A d \in Clients \ {c} : phase[d] \in Ended /\ ~InFlight(d)

(* Whatever state failed or abandoned logins have left the server in, the  *)
(* next client that knows the password and is not disturbed gets through.  *)
LoneClientServed ==
  \A c \in Clients :
    Authorised(c) /\ c \notin Degenerate \union Impatient =>
      (waiting[c] = PONG /\ phase[c] = "waiting" /\ Alone(c)
         /\ exponents < MaxExponent) ~> phase[c] = "ok"
=============================================================================
