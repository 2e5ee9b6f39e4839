----------------------------- MODULE EadMaster ------------------------------
(***************************************************************************)
(* The supervisor of ead (main and the functions above it in               *)
(* package/ead/src/ead.c): it forks one instance per interface, looks once *)
(* a second which interfaces are ports of which bridge, kills an instance  *)
(* whose bridge has changed and starts it again, and ends them all when it *)
(* is told to end. An instance copies, when it is forked, the bridge it is *)
(* to capture from and the table of its siblings.                          *)
(*                                                                         *)
(* The rest of the system moves interfaces between bridges, terminates     *)
(* instances, and reuses the numbers of processes that are gone.           *)
(***************************************************************************)
EXTENDS Integers, FiniteSets

CONSTANTS
  N,          \* interfaces given with -d
  NumBridges, \* bridges that may exist
  Pids,       \* process numbers the kernel may give out
  Statuses,   \* what wait may store for an instance that has crashed
  Faults,     \* which of "crash", "term", "stranger", "fork", "stop" happen
  MaxMoves    \* bound: how often an interface moves between bridges

SIGKILL == 9   \* the status of a process killed by it
EXIT1 == 256   \* the status of a process that called exit(1)

ASSUME MasterConstants ==
  /\ N \in Nat \ {0} /\ NumBridges \in Nat \ {0}
  /\ 0 \notin Pids
  /\ Statuses \subseteq Nat
  /\ Faults \subseteq {"crash", "term", "stranger", "fork", "stop"}
  /\ MaxMoves \in Nat

Ifaces == 1 .. N
Bridges == 1 .. NumBridges
NoBridge == 0

AllStatuses == Statuses \union {SIGKILL, EXIT1}

(* No process number equals a wait status: see Sigchld.                    *)
NoCollision == Pids \cap AllStatuses = {}

VARIABLES
  pc,         \* what the master is doing: "start", "store", "scan", "prune"
              \* or "dead"
  at,         \* the interface or the bridge it has got to
  newpid,     \* what fork has returned and is not yet stored
  pid,        \* struct ead_instance: the process of each interface or 0
  bridge,     \* struct ead_instance: the bridge of each interface
  br_check,   \* struct ead_instance: was it seen in a bridge this time?
  role,       \* of each process number: "free", "instance", "zombie" or
              \* "stranger"
  owner,      \* of an instance: the interface it serves, otherwise 1
  listens,    \* of an instance: the bridge it captures from
  inherited,  \* of an instance: the siblings in its copy of the table
  status,     \* of a zombie: what wait will store, otherwise SIGKILL
  sigchld,    \* is SIGCHLD pending for the master?
  port,       \* the bridge each interface really belongs to
  moves,      \* how often that has changed
  crashed,    \* has an instance ended other than by its master's hand?
  harmed,     \* was a process killed that is not an instance of ead?
  orphan      \* the child not yet stored when the master ended, or 0

table == <<pid, bridge, br_check>>
procs == <<role, owner, listens, inherited, status, sigchld>>
world == <<port, moves>>
ghosts == <<crashed, harmed, orphan>>
vars == <<pc, at, newpid, table, procs, world, ghosts>>

Init ==
  /\ pc = "start" /\ at = 1 /\ newpid = 0
  /\ pid = [i \in Ifaces |-> 0]
  /\ bridge = [i \in Ifaces |-> NoBridge]
  /\ br_check = [i \in Ifaces |-> FALSE]
  /\ role = [p \in Pids |-> "free"]
  /\ owner = [p \in Pids |-> 1]
  /\ listens = [p \in Pids |-> NoBridge]
  /\ inherited = [p \in Pids |-> {}]
  /\ status = [p \in Pids |-> SIGKILL]
  /\ sigchld = FALSE
  /\ port \in [Ifaces -> Bridges \union {NoBridge}]
  /\ moves = 0
  /\ crashed = FALSE /\ harmed = FALSE /\ orphan = 0

Instances == { p \in Pids : role[p] = "instance" }

(* What the processes in S were is lost.                                   *)
Forget(S) ==
  /\ owner' = [p \in Pids |-> IF p \in S THEN 1 ELSE owner[p]]
  /\ listens' = [p \in Pids |-> IF p \in S THEN NoBridge ELSE listens[p]]
  /\ inherited' = [p \in Pids |-> IF p \in S THEN {} ELSE inherited[p]]

(* The processes in killed get SIGKILL, those in exited have called        *)
(* exit(1); a process that is gone or a zombie does not notice.            *)
End(killed, exited) ==
  /\ role' = [p \in Pids |->
       IF p \in killed \union exited /\ role[p] = "instance" THEN "zombie"
       ELSE IF p \in killed /\ role[p] = "stranger" THEN "free"
       ELSE role[p]]
  /\ status' = [p \in Pids |->
       IF role[p] # "instance" THEN status[p]
       ELSE IF p \in exited THEN EXIT1
       ELSE IF p \in killed THEN SIGKILL ELSE status[p]]
  /\ sigchld' = (sigchld \/ (killed \union exited) \cap Instances # {})
  /\ harmed' = (harmed \/ \E p \in killed \cap Pids : role[p] = "stranger")
  /\ Forget((killed \union exited) \cap Instances)

(* Mutants: the process is forgotten and not killed; or killed and not     *)
(* forgotten.                                                              *)
StopServersForget(S) ==
  /\ End({}, {})
  /\ pid' = [i \in Ifaces |-> IF i \in S THEN 0 ELSE pid[i]]
StopServersKeep(S) ==
  /\ End({ pid[i] : i \in S } \ {0}, {})
  /\ UNCHANGED pid

(* stop_server(in, false) for the interfaces in S.                         *)
StopServers(S) ==
  /\ End({ pid[i] : i \in S } \ {0}, {})
  /\ pid' = [i \in Ifaces |-> IF i \in S THEN 0 ELSE pid[i]]

-----------------------------------------------------------------------------
(* start_servers and start_server.                                         *)

(* Mutant: the list is walked past its end.                                *)
NextServerPast ==
  /\ at' = at + 1
  /\ pc' = IF at < N THEN "start" ELSE "scan"

NextServer ==
  IF at < N THEN pc' = "start" /\ at' = at + 1
            ELSE pc' = "scan" /\ at' = 1

(* if (in->pid > 0) continue;                                              *)
SkipServer ==
  /\ pc = "start" /\ pid[at] # 0
  /\ NextServer
  /\ UNCHANGED <<newpid, table, procs, world, ghosts>>

(* The child runs from the return of fork on, with its copies; in its own  *)
(* entry of the table the child has put the 0 that fork returned to it.    *)
ForkServer ==
  /\ pc = "start" /\ pid[at] = 0
  /\ \E p \in Pids :
       /\ role[p] = "free"
       /\ newpid' = p
       /\ role' = [role EXCEPT ![p] = "instance"]
       /\ owner' = [owner EXCEPT ![p] = at]
       /\ listens' = [listens EXCEPT ![p] = bridge[at]]
       /\ inherited' = [inherited EXCEPT ![p] = { pid[i] : i \in Ifaces } \ {0}]
  /\ pc' = "store"
  /\ UNCHANGED <<at, table, status, sigchld, world, ghosts>>

(* fork has failed: the next round tries again.                            *)
ForkFails ==
  /\ "fork" \in Faults
  /\ pc = "start" /\ pid[at] = 0
  /\ NextServer
  /\ UNCHANGED <<newpid, table, procs, world, ghosts>>

(* i->pid = fork(), in the parent.                                         *)
StoreServer ==
  /\ pc = "store"
  /\ pid' = [pid EXCEPT ![at] = newpid]
  /\ newpid' = 0
  /\ NextServer
  /\ UNCHANGED <<bridge, br_check, procs, world, ghosts>>

-----------------------------------------------------------------------------
(* check_all_interfaces.                                                   *)

NextBridge ==
  IF at < NumBridges THEN pc' = "scan" /\ at' = at + 1
                     ELSE pc' = "prune" /\ at' = 1

(* br_foreach_port lists the ports of a bridge, ours are those looked at.   *)
PortsOf(b) == { i \in Ifaces : port[i] = b }

(* Mutant: the instance goes on with the bridge it was started for.        *)
ScanBridgeOnly ==
  LET here == PortsOf(at) IN
  /\ pc = "scan"
  /\ br_check' = [i \in Ifaces |-> br_check[i] \/ i \in here]
  /\ bridge' = [i \in Ifaces |-> IF i \in here THEN at ELSE bridge[i]]
  /\ StopServers({})
  /\ NextBridge
  /\ UNCHANGED <<newpid, world, crashed, orphan>>

(* Mutant: the note is not compared with the bridge that is scanned.       *)
ScanBridgeAll ==
  LET here == PortsOf(at) IN
  /\ pc = "scan"
  /\ br_check' = [i \in Ifaces |-> br_check[i] \/ i \in here]
  /\ bridge' = [i \in Ifaces |-> IF i \in here THEN at ELSE bridge[i]]
  /\ StopServers(here)
  /\ NextBridge
  /\ UNCHANGED <<newpid, world, crashed, orphan>>

(* br_foreach_port for one bridge: the ports are listed at once, then      *)
(* check_bridge_port looks at the interfaces that are among them.          *)
ScanBridge ==
  LET here == PortsOf(at) IN
  /\ pc = "scan"
  /\ br_check' = [i \in Ifaces |-> br_check[i] \/ i \in here]
  /\ bridge' = [i \in Ifaces |-> IF i \in here THEN at ELSE bridge[i]]
  /\ StopServers({ i \in here : bridge[i] # at })
  /\ NextBridge
  /\ UNCHANGED <<newpid, world, crashed, orphan>>

(* Mutant: an interface once seen in a bridge stays seen.                  *)
PruneOnce ==
  LET gone == { i \in Ifaces : ~br_check[i] /\ bridge[i] # NoBridge } IN
  /\ pc = "prune"
  /\ UNCHANGED br_check
  /\ bridge' = [i \in Ifaces |-> IF i \in gone THEN NoBridge ELSE bridge[i]]
  /\ StopServers(gone)
  /\ pc' = "start" /\ at' = 1
  /\ UNCHANGED <<newpid, world, crashed, orphan>>

(* The interfaces that are no longer part of a bridge.                     *)
Prune ==
  LET gone == { i \in Ifaces : ~br_check[i] /\ bridge[i] # NoBridge } IN
  /\ pc = "prune"
  /\ br_check' = [i \in Ifaces |-> FALSE]
  /\ bridge' = [i \in Ifaces |-> IF i \in gone THEN NoBridge ELSE bridge[i]]
  /\ StopServers(gone)
  /\ pc' = "start" /\ at' = 1
  /\ UNCHANGED <<newpid, world, crashed, orphan>>

-----------------------------------------------------------------------------
(* The signal handlers of the master.                                      *)

(* server_handle_sigchld: wait(&pid) puts the STATUS of the child into the *)
(* variable that is then looked up as its process number. Signals merge,   *)
(* one call reaps one child.                                               *)
Sigchld ==
  /\ sigchld /\ pc # "dead"
  /\ \E p \in Pids :
       /\ role[p] = "zombie"
       /\ role' = [role EXCEPT ![p] = "free"]
       /\ \/ /\ \A i \in Ifaces : pid[i] # status[p]
             /\ UNCHANGED pid
          \/ \E i \in Ifaces :
               /\ pid[i] = status[p] /\ \A j \in 1 .. i - 1 : pid[j] # status[p]
               /\ pid' = [pid EXCEPT ![i] = 0]
       /\ status' = [status EXCEPT ![p] = SIGKILL]
  /\ sigchld' = FALSE
  /\ UNCHANGED <<pc, at, newpid, bridge, br_check, owner, listens, inherited,
                 world, ghosts>>

(* Mutant: the first instance is stopped and the list is not walked on.    *)
TerminateFirst ==
  /\ "stop" \in Faults
  /\ pc # "dead"
  /\ StopServers({1})
  /\ pc' = "dead"
  /\ orphan' = newpid
  /\ UNCHANGED <<at, newpid, bridge, br_check, world, crashed>>

(* server_handle_sigint in the master: every instance is killed, exit(1).  *)
Terminate ==
  /\ "stop" \in Faults
  /\ pc # "dead"
  /\ StopServers(Ifaces)
  /\ pc' = "dead"
  /\ orphan' = newpid
  /\ UNCHANGED <<at, newpid, bridge, br_check, world, crashed>>

-----------------------------------------------------------------------------
(* The other processes and the bridges.                                    *)

(* An instance dies of its own fault or is killed for want of memory.      *)
Crash(p) ==
  /\ "crash" \in Faults
  /\ role[p] = "instance"
  /\ role' = [role EXCEPT ![p] = "zombie"]
  /\ \E s \in Statuses : status' = [status EXCEPT ![p] = s]
  /\ Forget({p})
  /\ sigchld' = TRUE /\ crashed' = TRUE
  /\ UNCHANGED <<pc, at, newpid, table, world, harmed, orphan>>

(* An instance gets SIGTERM: it has inherited server_handle_sigint, which  *)
(* kills the siblings in its copy of the table before it exits.            *)
TermInstance(p) ==
  /\ "term" \in Faults
  /\ role[p] = "instance"
  /\ End(inherited[p] \ {p}, {p})
  /\ crashed' = TRUE
  /\ UNCHANGED <<pc, at, newpid, table, world, orphan>>

(* Another program of the system starts, or ends.                          *)
Stranger(p) ==
  /\ "stranger" \in Faults
  /\ \/ role[p] = "free" /\ role' = [role EXCEPT ![p] = "stranger"]
     \/ role[p] = "stranger" /\ role' = [role EXCEPT ![p] = "free"]
  /\ UNCHANGED <<pc, at, newpid, table, owner, listens, inherited, status,
                 sigchld, world, ghosts>>

Move(i, b) ==
  /\ moves < MaxMoves
  /\ port[i] # b
  /\ port' = [port EXCEPT ![i] = b]
  /\ moves' = moves + 1
  /\ UNCHANGED <<pc, at, newpid, table, procs, ghosts>>

Master ==
  \/ SkipServer \/ ForkServer \/ ForkFails \/ StoreServer
  \/ ScanBridge \/ Prune

Next ==
  \/ Master
  \/ Sigchld \/ Terminate
  \/ \E p \in Pids : Crash(p) \/ TermInstance(p) \/ Stranger(p)
  \/ \E i \in Ifaces, b \in Bridges \union {NoBridge} : Move(i, b)

Spec == Init /\ [][Next]_vars

(* The master runs, and the kernel delivers its signals.                   *)
FairSpec == Spec /\ WF_vars(Master) /\ WF_vars(Sigchld)

-----------------------------------------------------------------------------
TypeOK ==
  /\ pc \in {"start", "store", "scan", "prune", "dead"}
  /\ at \in Ifaces \union Bridges
  /\ pc \in {"start", "store"} => at \in Ifaces
  /\ pc = "scan" => at \in Bridges
  /\ newpid \in Pids \union {0}
  /\ pid \in [Ifaces -> Pids \union {0}]
  /\ bridge \in [Ifaces -> Bridges \union {NoBridge}]
  /\ br_check \in [Ifaces -> BOOLEAN]
  /\ role \in [Pids -> {"free", "instance", "zombie", "stranger"}]
  /\ owner \in [Pids -> Ifaces]
  /\ listens \in [Pids -> Bridges \union {NoBridge}]
  /\ inherited \in [Pids -> SUBSET Pids]
  /\ status \in [Pids -> AllStatuses]
  /\ sigchld \in BOOLEAN
  /\ port \in [Ifaces -> Bridges \union {NoBridge}]
  /\ moves \in 0 .. MaxMoves
  /\ crashed \in BOOLEAN /\ harmed \in BOOLEAN
  /\ orphan \in Pids \union {0}

(* Every instance that runs is the one in the table of the master (or the  *)
(* one it has just forked), whatever dies and whatever numbers are reused: *)
(* an interface never has two of them that answer each request twice.      *)
AllRecorded ==
  pc # "dead" =>
    \A p \in Instances :
      \/ pid[owner[p]] = p
      \/ pc = "store" /\ newpid = p /\ owner[p] = at /\ pid[at] = 0

OneServerPerInterface ==
  \A p, q \in Instances : pc # "dead" /\ owner[p] = owner[q] => p = q

(* No instance captures from a bridge other than the one its master has    *)
(* noted for the interface: a change of the note always ends the instance. *)
BridgeAgreement ==
  pc # "dead" => \A p \in Instances : listens[p] = bridge[owner[p]]

(* When the master has ended on request no instance is left behind, except *)
(* one whose number the interrupted start_server had not stored.           *)
NoOrphans == pc = "dead" => Instances \subseteq {orphan}

(* The master kills processes of others only after an instance has ended   *)
(* without it: then its table keeps a number that is free again.           *)
HarmOnlyAfterCrash == harmed => crashed

(* Nobody is logged out for the sake of another interface: an instance     *)
(* ends only when the note of its own interface changes, or the master     *)
(* ends. (Once an instance has ended by itself its number stays in the     *)
(* table, and may have become that of an instance of another interface.)   *)
OnlyMovedEnd ==
  [][ ~crashed' =>
        \A p \in Instances \ Instances' :
          bridge'[owner[p]] # bridge[owner[p]] \/ pc' = "dead" ]_vars

(* Each interface is served, from the bridge it really belongs to.         *)
Served(i) == \E p \in Instances : owner[p] = i /\ listens[p] = port[i]

(* After the last change of the bridges the master settles.                *)
Converges == <>[](\A i \in Ifaces : Served(i))

(* ead/Makefile:23: the daemon "Provides remote access to your device even *)
(* if IP and firewall configuration settings are defunct". An interface    *)
(* whose instance has died is served again.                                *)
AccessRestored == \A i \in Ifaces : []<>Served(i)
=============================================================================
