-------------------------- MODULE EadMasterProofs ---------------------------
(***************************************************************************)
(* Proofs about EadMaster, for any number of interfaces, bridges and       *)
(* processes and whatever faults happen.                                   *)
(***************************************************************************)
EXTENDS EadMaster, TLAPS

-----------------------------------------------------------------------------
(* Types                                                                   *)

LEMMA InitType == Init => TypeOK
  <1>1. 1 \in Ifaces /\ 0 \in 0 .. MaxMoves
    BY MasterConstants DEF Ifaces, MasterConstants
  <1>2. SIGKILL \in AllStatuses
    BY DEF AllStatuses
  <1> SUFFICES ASSUME Init PROVE TypeOK
    OBVIOUS
  <1>3. /\ pid \in [Ifaces -> Pids \union {0}]
        /\ bridge \in [Ifaces -> Bridges \union {NoBridge}]
        /\ br_check \in [Ifaces -> BOOLEAN]
    BY DEF Init
  <1>4. /\ role \in [Pids -> {"free", "instance", "zombie", "stranger"}]
        /\ owner \in [Pids -> Ifaces]
        /\ listens \in [Pids -> Bridges \union {NoBridge}]
        /\ inherited \in [Pids -> SUBSET Pids]
        /\ status \in [Pids -> AllStatuses]
    BY <1>1, <1>2 DEF Init
  <1> QED BY <1>1, <1>3, <1>4 DEF Init, TypeOK

(* The variables of the kernel keep their types, whoever is killed.        *)
LEMMA EndType ==
  ASSUME TypeOK, NEW K, NEW X, End(K, X)
  PROVE  /\ role' \in [Pids -> {"free", "instance", "zombie", "stranger"}]
         /\ owner' \in [Pids -> Ifaces]
         /\ listens' \in [Pids -> Bridges \union {NoBridge}]
         /\ inherited' \in [Pids -> SUBSET Pids]
         /\ status' \in [Pids -> AllStatuses]
         /\ sigchld' \in BOOLEAN
         /\ harmed' \in BOOLEAN
  <1>1. role' \in [Pids -> {"free", "instance", "zombie", "stranger"}]
    BY DEF TypeOK, End
  <1>2. owner' \in [Pids -> Ifaces]
    BY MasterConstants DEF TypeOK, End, Forget, Ifaces, MasterConstants
  <1>3. listens' \in [Pids -> Bridges \union {NoBridge}]
    BY DEF TypeOK, End, Forget
  <1>4. inherited' \in [Pids -> SUBSET Pids]
    BY DEF TypeOK, End, Forget
  <1>5. status' \in [Pids -> AllStatuses]
    BY DEF TypeOK, End, AllStatuses
  <1>6. sigchld' \in BOOLEAN /\ harmed' \in BOOLEAN
    BY DEF TypeOK, End
  <1> QED BY <1>1, <1>2, <1>3, <1>4, <1>5, <1>6

LEMMA StopType ==
  ASSUME TypeOK, NEW S, StopServers(S)
  PROVE  pid' \in [Ifaces -> Pids \union {0}]
  BY DEF TypeOK, StopServers

LEMMA NextServerType ==
  ASSUME TypeOK, at \in Ifaces, NextServer
  PROVE  /\ pc' \in {"start", "scan"}
         /\ at' \in Ifaces \union Bridges
         /\ pc' = "start" => at' \in Ifaces
         /\ pc' = "scan" => at' \in Bridges
  BY MasterConstants DEF NextServer, Ifaces, Bridges, MasterConstants

LEMMA NextType == TypeOK /\ [Next]_vars => TypeOK'
  <1> SUFFICES ASSUME TypeOK, [Next]_vars PROVE TypeOK'
    OBVIOUS
  <1> USE DEF table, procs, world, ghosts
  <1>1. CASE SkipServer
    <2>1. at \in Ifaces BY <1>1 DEF TypeOK, SkipServer
    <2> QED BY <1>1, <2>1, NextServerType DEF TypeOK, SkipServer
  <1>2. CASE ForkServer
    <2>1. at \in Ifaces BY <1>2 DEF TypeOK, ForkServer
    <2>2. { pid[i] : i \in Ifaces } \ {0} \in SUBSET Pids BY DEF TypeOK
    <2> QED BY <1>2, <2>1, <2>2 DEF TypeOK, ForkServer
  <1>3. CASE ForkFails
    <2>1. at \in Ifaces BY <1>3 DEF TypeOK, ForkFails
    <2> QED BY <1>3, <2>1, NextServerType DEF TypeOK, ForkFails
  <1>4. CASE StoreServer
    <2>1. at \in Ifaces BY <1>4 DEF TypeOK, StoreServer
    <2> QED BY <1>4, <2>1, NextServerType DEF TypeOK, StoreServer
  <1>5. CASE ScanBridge
    <2>1. PICK S : StopServers(S) BY <1>5 DEF ScanBridge
    <2>2. \E K, X : End(K, X) BY <2>1 DEF StopServers
    <2>3. at \in Bridges BY <1>5 DEF ScanBridge, TypeOK
    <2>4. /\ pc' \in {"scan", "prune"} /\ at' \in Ifaces \union Bridges
          /\ pc' = "scan" => at' \in Bridges
      BY <1>5, <2>3, MasterConstants
      DEF ScanBridge, NextBridge, Ifaces, Bridges, MasterConstants
    <2>5. /\ bridge' \in [Ifaces -> Bridges \union {NoBridge}]
          /\ br_check' \in [Ifaces -> BOOLEAN]
      BY <1>5, <2>3 DEF ScanBridge, TypeOK
    <2> QED BY <1>5, <2>1, <2>2, <2>4, <2>5, EndType, StopType
            DEF TypeOK, ScanBridge
  <1>6. CASE Prune
    <2>1. PICK S : StopServers(S) BY <1>6 DEF Prune
    <2>2. \E K, X : End(K, X) BY <2>1 DEF StopServers
    <2>3. at' \in Ifaces BY <1>6, MasterConstants DEF Prune, Ifaces, MasterConstants
    <2>4. /\ bridge' \in [Ifaces -> Bridges \union {NoBridge}]
          /\ br_check' \in [Ifaces -> BOOLEAN]
      BY <1>6 DEF Prune, TypeOK
    <2> QED BY <1>6, <2>1, <2>2, <2>3, <2>4, EndType, StopType
            DEF TypeOK, Prune
  <1>7. CASE Sigchld
    <2>1. role' \in [Pids -> {"free", "instance", "zombie", "stranger"}]
      BY <1>7 DEF Sigchld, TypeOK
    <2>2. pid' \in [Ifaces -> Pids \union {0}]
      BY <1>7 DEF Sigchld, TypeOK
    <2>3. status' \in [Pids -> AllStatuses]
      BY <1>7 DEF Sigchld, TypeOK, AllStatuses
    <2> QED BY <1>7, <2>1, <2>2, <2>3 DEF Sigchld, TypeOK
  <1>8. CASE Terminate
    <2>1. StopServers(Ifaces) BY <1>8 DEF Terminate
    <2>2. \E K, X : End(K, X) BY <2>1 DEF StopServers
    <2> QED BY <1>8, <2>1, <2>2, EndType, StopType DEF TypeOK, Terminate
  <1>9. ASSUME NEW p \in Pids, Crash(p) PROVE TypeOK'
    <2>1. 1 \in Ifaces BY MasterConstants DEF Ifaces, MasterConstants
    <2>2. status' \in [Pids -> AllStatuses]
      BY <1>9 DEF Crash, TypeOK, AllStatuses
    <2>3. /\ owner' \in [Pids -> Ifaces]
          /\ listens' \in [Pids -> Bridges \union {NoBridge}]
          /\ inherited' \in [Pids -> SUBSET Pids]
      BY <1>9, <2>1 DEF Crash, Forget, TypeOK
    <2> QED BY <1>9, <2>2, <2>3 DEF Crash, TypeOK
  <1>10. ASSUME NEW p \in Pids, TermInstance(p) PROVE TypeOK'
    <2>1. \E K, X : End(K, X) BY <1>10 DEF TermInstance
    <2> QED BY <1>10, <2>1, EndType DEF TypeOK, TermInstance
  <1>11. ASSUME NEW p \in Pids, Stranger(p) PROVE TypeOK'
    BY <1>11 DEF Stranger, TypeOK
  <1>12. ASSUME NEW i \in Ifaces, NEW b \in Bridges \union {NoBridge}, Move(i, b)
         PROVE  TypeOK'
    BY <1>12, MasterConstants DEF Move, TypeOK, MasterConstants
  <1>13. CASE UNCHANGED vars
    BY <1>13 DEF vars, TypeOK
  <1> QED BY <1>1, <1>2, <1>3, <1>4, <1>5, <1>6, <1>7, <1>8, <1>9, <1>10,
             <1>11, <1>12, <1>13 DEF Next, Master

(* Every variable keeps its type; an instance never gets a bridge number   *)
(* or a process number that does not exist.                                *)
THEOREM TypeCorrect == Spec => []TypeOK
  BY InitType, NextType, PTL DEF Spec

-----------------------------------------------------------------------------
(* The table and the processes                                             *)

(* While no instance has ended by itself every number in the table belongs *)
(* to the instance of its interface, and so does the one being stored.     *)
Accounted ==
  ~crashed =>
    /\ \A i \in Ifaces : pid[i] # 0 =>
         role[pid[i]] = "instance" /\ owner[pid[i]] = i
    /\ pc = "store" => role[newpid] = "instance" /\ owner[newpid] = at

(* A number that is not yet stored replaces no other.                      *)
StoreReady == pc = "store" => newpid \in Pids /\ pid[at] = 0

IInv ==
  TypeOK /\ AllRecorded /\ BridgeAgreement /\ NoOrphans /\ HarmOnlyAfterCrash
    /\ Accounted /\ StoreReady

LEMMA InitIInv == Init => IInv
  <1>1. Init => Instances = {}
    BY DEF Init, Instances
  <1> QED BY <1>1, InitType
          DEF Init, IInv, AllRecorded, BridgeAgreement, NoOrphans,
              HarmOnlyAfterCrash, Accounted, StoreReady

(* An instance that stop_server spares runs on unchanged, and its own      *)
(* entry is not one of those that were cleared.                            *)
LEMMA StopSpares ==
  ASSUME TypeOK, NEW S \in SUBSET Ifaces, StopServers(S),
         NEW p \in Instances'
  PROVE  /\ p \in Instances
         /\ owner'[p] = owner[p] /\ listens'[p] = listens[p]
         /\ \A i \in S : pid[i] # p
         /\ pid[owner[p]] = p => pid'[owner[p]] = p
  <1> DEFINE K == { pid[i] : i \in S } \ {0}
  <1>1. p \in Pids /\ role'[p] = "instance"
    BY DEF Instances
  <1>2. End(K, {}) BY DEF StopServers
  <1>3. p \in Instances /\ p \notin K
    BY <1>1, <1>2 DEF End, TypeOK, Instances
  <1>4. owner'[p] = owner[p] /\ listens'[p] = listens[p]
    BY <1>1, <1>2, <1>3 DEF End, Forget, TypeOK
  <1>5. p # 0 BY <1>1, MasterConstants DEF MasterConstants
  <1>6. \A i \in S : pid[i] # p BY <1>3, <1>5
  <1>7. owner[p] \in Ifaces BY <1>1 DEF TypeOK
  <1> QED BY <1>3, <1>4, <1>6, <1>7 DEF StopServers

(* As long as the table is accounted for, stop_server kills instances only *)
(* and leaves the rest accounted for.                                      *)
LEMMA StopAccounted ==
  ASSUME TypeOK, Accounted, ~crashed, NEW S \in SUBSET Ifaces, StopServers(S)
  PROVE  /\ harmed' = harmed
         /\ \A i \in Ifaces : pid'[i] # 0 =>
              role'[pid'[i]] = "instance" /\ owner'[pid'[i]] = i
  <1> DEFINE K == { pid[i] : i \in S } \ {0}
  <1>1. End(K, {}) BY DEF StopServers
  <1>2. \A i \in Ifaces : pid[i] # 0 =>
          pid[i] \in Pids /\ role[pid[i]] = "instance" /\ owner[pid[i]] = i
    BY DEF Accounted, TypeOK
  <1>3. \A p \in K : p \in Pids /\ role[p] = "instance"
    BY <1>2
  <1>4. harmed' = harmed
    BY <1>1, <1>3 DEF End, TypeOK
  <1>5. ASSUME NEW i \in Ifaces, pid'[i] # 0
        PROVE  role'[pid'[i]] = "instance" /\ owner'[pid'[i]] = i
    <2>1. i \notin S /\ pid'[i] = pid[i]
      BY <1>5 DEF StopServers
    <2>2. pid[i] # 0 /\ pid[i] \in Pids /\ role[pid[i]] = "instance" /\ owner[pid[i]] = i
      BY <1>2, <1>5, <2>1
    <2>3. pid[i] \notin K
      <3> SUFFICES ASSUME NEW j \in S, pid[j] = pid[i] PROVE FALSE
        OBVIOUS
      <3>1. owner[pid[j]] = j BY <1>2, <2>2
      <3> QED BY <3>1, <2>1, <2>2
    <2>4. role'[pid[i]] = "instance" BY <1>1, <2>2, <2>3 DEF End
    <2>5. owner'[pid[i]] = i BY <1>1, <2>2, <2>3 DEF End, Forget
    <2> QED BY <2>1, <2>4, <2>5
  <1> QED BY <1>4, <1>5

(* What check_all_interfaces does with the bridges, for a set S of         *)
(* interfaces whose instances it stops: only their notes may change.       *)
LEMMA StopIInv ==
  ASSUME IInv, TypeOK', pc \in {"scan", "prune"}, pc' \notin {"dead", "store"},
         NEW S \in SUBSET Ifaces, StopServers(S),
         \A i \in Ifaces \ S : bridge'[i] = bridge[i],
         UNCHANGED crashed
  PROVE  IInv'
  <1> USE DEF IInv
  <1>1. ASSUME NEW p \in Instances'
        PROVE  pid'[owner'[p]] = p /\ listens'[p] = bridge'[owner'[p]]
    <2>1. /\ p \in Instances
          /\ owner'[p] = owner[p] /\ listens'[p] = listens[p]
          /\ \A i \in S : pid[i] # p
          /\ pid[owner[p]] = p => pid'[owner[p]] = p
      BY StopSpares
    <2>2. pid[owner[p]] = p /\ listens[p] = bridge[owner[p]]
      BY <2>1 DEF AllRecorded, BridgeAgreement
    <2>3. owner[p] \in Ifaces \ S
      BY <2>1, <2>2 DEF TypeOK, Instances
    <2> QED BY <2>1, <2>2, <2>3
  <1>2. AllRecorded' /\ BridgeAgreement' /\ NoOrphans' /\ StoreReady'
    BY <1>1 DEF AllRecorded, BridgeAgreement, NoOrphans, StoreReady
  <1>3. CASE crashed
    BY <1>2, <1>3 DEF HarmOnlyAfterCrash, Accounted
  <1>4. CASE ~crashed
    BY <1>2, <1>4, StopAccounted DEF HarmOnlyAfterCrash, Accounted
  <1> QED BY <1>3, <1>4

(* Actions that change neither the table nor the processes.                *)
LEMMA IdleIInv ==
  ASSUME IInv, TypeOK', UNCHANGED <<table, procs, ghosts>>,
         pc = "dead" <=> pc' = "dead",
         pc = "store" <=> pc' = "store",
         pc = "store" => UNCHANGED <<at, newpid>>
  PROVE  IInv'
  <1>1. Instances' = Instances
    BY DEF Instances, procs
  <1> QED BY <1>1 DEF IInv, AllRecorded, BridgeAgreement, NoOrphans,
                      HarmOnlyAfterCrash, Accounted, StoreReady, table, procs, ghosts

LEMMA ForkIInv == ASSUME IInv, TypeOK', ForkServer PROVE IInv'
  <1> USE DEF IInv, ghosts, table
  <1>1. PICK p \in Pids :
          /\ role[p] = "free" /\ newpid' = p
          /\ role' = [role EXCEPT ![p] = "instance"]
          /\ owner' = [owner EXCEPT ![p] = at]
          /\ listens' = [listens EXCEPT ![p] = bridge[at]]
    BY DEF ForkServer
  <1>2. /\ pc = "start" /\ pc' = "store" /\ at' = at /\ at \in Ifaces
        /\ pid[at] = 0 /\ UNCHANGED <<pid, bridge, crashed, harmed>>
    BY DEF ForkServer, TypeOK
  <1>3. /\ role'[p] = "instance" /\ owner'[p] = at /\ listens'[p] = bridge[at]
        /\ \A q \in Pids \ {p} : /\ role'[q] = role[q] /\ owner'[q] = owner[q]
                                 /\ listens'[q] = listens[q]
    BY <1>1 DEF TypeOK
  <1>4. ASSUME NEW q \in Instances', q # p
        PROVE  q \in Instances /\ owner'[q] = owner[q] /\ listens'[q] = listens[q]
    BY <1>3, <1>4 DEF Instances
  <1>5. AllRecorded'
    BY <1>1, <1>2, <1>3, <1>4 DEF AllRecorded
  <1>6. BridgeAgreement'
    BY <1>2, <1>3, <1>4 DEF BridgeAgreement
  <1>7. NoOrphans' /\ HarmOnlyAfterCrash' /\ StoreReady'
    BY <1>1, <1>2 DEF NoOrphans, HarmOnlyAfterCrash, StoreReady
  <1>8. Accounted'
    <2> SUFFICES ASSUME ~crashed PROVE Accounted'
      BY <1>2 DEF Accounted
    <2>1. ASSUME NEW i \in Ifaces, pid[i] # 0
          PROVE  role'[pid[i]] = "instance" /\ owner'[pid[i]] = i
      <3>1. role[pid[i]] = "instance" /\ owner[pid[i]] = i /\ pid[i] \in Pids
        BY <2>1 DEF Accounted, TypeOK
      <3>2. pid[i] # p BY <3>1, <1>1
      <3> QED BY <3>1, <3>2, <1>3
    <2> QED BY <2>1, <1>1, <1>2, <1>3 DEF Accounted
  <1> QED BY <1>5, <1>6, <1>7, <1>8

LEMMA StoreIInv == ASSUME IInv, TypeOK', StoreServer PROVE IInv'
  <1> USE DEF IInv, ghosts, procs
  <1>1. /\ pc = "store" /\ pc' \in {"start", "scan"} /\ at \in Ifaces
        /\ pid' = [pid EXCEPT ![at] = newpid]
        /\ UNCHANGED <<bridge, role, owner, listens, crashed, harmed>>
    BY DEF StoreServer, NextServer, TypeOK
  <1>2. Instances' = Instances
    BY <1>1 DEF Instances
  <1>3. AllRecorded'
    <2> SUFFICES ASSUME NEW q \in Instances PROVE pid'[owner[q]] = q
      BY <1>1, <1>2 DEF AllRecorded
    <2>1. q \in Pids /\ q # 0 /\ owner[q] \in Ifaces
      BY MasterConstants DEF MasterConstants, Instances, TypeOK
    <2>2. CASE pid[owner[q]] = q /\ owner[q] # at
      BY <2>1, <2>2, <1>1 DEF TypeOK
    <2>3. CASE newpid = q /\ owner[q] = at
      BY <2>1, <2>3, <1>1 DEF TypeOK
    <2>4. CASE pid[owner[q]] = q /\ owner[q] = at
      BY <2>1, <2>4, <1>1 DEF StoreReady
    <2> QED BY <2>2, <2>3, <2>4, <1>1 DEF AllRecorded
  <1>4. BridgeAgreement' /\ NoOrphans' /\ HarmOnlyAfterCrash' /\ StoreReady'
    BY <1>1, <1>2 DEF BridgeAgreement, NoOrphans, HarmOnlyAfterCrash, StoreReady
  <1>5. Accounted'
    BY <1>1 DEF Accounted, TypeOK
  <1> QED BY <1>3, <1>4, <1>5

(* No live instance has the number of a wait status, so a handler that     *)
(* looks a status up in the table clears no entry of a live instance.      *)
LEMMA SigchldIInv ==
  ASSUME NoCollision, IInv, TypeOK', Sigchld PROVE IInv'
  <1> USE DEF IInv, ghosts
  <1>1. PICK z \in Pids :
          /\ role[z] = "zombie" /\ role' = [role EXCEPT ![z] = "free"]
          /\ \/ UNCHANGED pid
             \/ \E i \in Ifaces : pid[i] = status[z] /\ pid' = [pid EXCEPT ![i] = 0]
    BY DEF Sigchld
  <1>2. /\ pc # "dead"
        /\ UNCHANGED <<pc, at, newpid, bridge, owner, listens, crashed, harmed>>
    BY DEF Sigchld
  <1>3. Instances' = Instances
    BY <1>1 DEF Instances, TypeOK
  <1>4. status[z] \notin Pids
    BY DEF NoCollision, TypeOK
  <1>5. ASSUME NEW i \in Ifaces, pid[i] \in Pids PROVE pid'[i] = pid[i]
    BY <1>1, <1>4, <1>5 DEF TypeOK
  <1>6. \A i \in Ifaces : pid'[i] = pid[i] \/ pid'[i] = 0
    BY <1>1 DEF TypeOK
  <1>7. AllRecorded'
    <2> SUFFICES ASSUME NEW q \in Instances
                 PROVE  \/ pid'[owner[q]] = q
                        \/ pc = "store" /\ newpid = q /\ owner[q] = at /\ pid'[at] = 0
      BY <1>2, <1>3 DEF AllRecorded
    <2>1. owner[q] \in Ifaces /\ q \in Pids BY DEF Instances, TypeOK
    <2>2. CASE pid[owner[q]] = q BY <2>1, <2>2, <1>5
    <2>3. CASE pc = "store" /\ newpid = q /\ owner[q] = at /\ pid[at] = 0
      BY <2>1, <2>3, <1>6
    <2> QED BY <2>2, <2>3, <1>2 DEF AllRecorded
  <1>8. BridgeAgreement' /\ NoOrphans' /\ HarmOnlyAfterCrash'
    BY <1>2, <1>3 DEF BridgeAgreement, NoOrphans, HarmOnlyAfterCrash
  <1>9. StoreReady'
    <2>1. pc = "store" => at \in Ifaces BY DEF TypeOK
    <2> QED BY <2>1, <1>2, <1>6 DEF StoreReady
  <1>10. Accounted'
    <2> SUFFICES ASSUME ~crashed PROVE Accounted'
      BY <1>2 DEF Accounted
    <2>1. \A p \in Pids : role[p] = "instance" => role'[p] = "instance"
      BY <1>1 DEF TypeOK
    <2>2. ASSUME NEW i \in Ifaces, pid'[i] # 0
          PROVE  role'[pid'[i]] = "instance" /\ owner'[pid'[i]] = i
      <3>1. pid'[i] = pid[i] /\ pid[i] # 0 /\ pid[i] \in Pids
        BY <1>6, <2>2 DEF TypeOK
      <3> QED BY <3>1, <2>1, <1>2 DEF Accounted
    <2> QED BY <2>1, <2>2, <1>2 DEF Accounted, StoreReady
  <1> QED BY <1>7, <1>8, <1>9, <1>10

LEMMA TerminateIInv == ASSUME IInv, TypeOK', Terminate PROVE IInv'
  <1> USE DEF IInv
  <1>1. /\ StopServers(Ifaces) /\ pc # "dead" /\ pc' = "dead"
        /\ orphan' = newpid /\ UNCHANGED crashed
    BY DEF Terminate
  <1>2. NoOrphans'
    <2> SUFFICES ASSUME NEW q \in Instances' PROVE q = newpid
      BY <1>1 DEF NoOrphans
    <2>1. q \in Instances /\ \A i \in Ifaces : pid[i] # q
      BY <1>1, StopSpares
    <2>2. owner[q] \in Ifaces BY <2>1 DEF Instances, TypeOK
    <2> QED BY <2>1, <2>2, <1>1 DEF AllRecorded
  <1>3. AllRecorded' /\ BridgeAgreement' /\ StoreReady'
    BY <1>1 DEF AllRecorded, BridgeAgreement, StoreReady
  <1>4. CASE crashed
    BY <1>1, <1>2, <1>3, <1>4 DEF HarmOnlyAfterCrash, Accounted
  <1>5. CASE ~crashed
    BY <1>1, <1>2, <1>3, <1>5, StopAccounted DEF HarmOnlyAfterCrash, Accounted
  <1> QED BY <1>4, <1>5

(* An instance that ends without the master: the table keeps its number.   *)
LEMMA EndingIInv ==
  ASSUME IInv, TypeOK', UNCHANGED <<pc, at, newpid, table, orphan>>, crashed',
         \A q \in Instances' : /\ q \in Instances /\ owner'[q] = owner[q]
                               /\ listens'[q] = listens[q]
  PROVE  IInv'
  BY DEF IInv, AllRecorded, BridgeAgreement, NoOrphans, HarmOnlyAfterCrash,
         Accounted, StoreReady, table

LEMMA CrashIInv ==
  ASSUME IInv, TypeOK', NEW p \in Pids, Crash(p) PROVE IInv'
  <1>1. \A q \in Instances' : /\ q \in Instances /\ owner'[q] = owner[q]
                              /\ listens'[q] = listens[q]
    BY DEF IInv, TypeOK, Crash, Forget, Instances
  <1> QED BY <1>1, EndingIInv DEF Crash

LEMMA TermInstanceIInv ==
  ASSUME IInv, TypeOK', NEW p \in Pids, TermInstance(p) PROVE IInv'
  <1>1. PICK K : End(K, {p}) BY DEF TermInstance
  <1>2. \A q \in Instances' : /\ q \in Instances /\ owner'[q] = owner[q]
                              /\ listens'[q] = listens[q]
    BY <1>1 DEF IInv, TypeOK, End, Forget, Instances
  <1> QED BY <1>2, EndingIInv DEF TermInstance

LEMMA StrangerIInv ==
  ASSUME IInv, TypeOK', NEW p \in Pids, Stranger(p) PROVE IInv'
  <1> USE DEF IInv, table, ghosts, world
  <1>1. Instances' = Instances
    BY DEF Stranger, Instances, TypeOK
  <1>2. \A q \in Pids : role[q] = "instance" => role'[q] = "instance"
    BY DEF Stranger, TypeOK
  <1>3. AllRecorded' /\ BridgeAgreement' /\ NoOrphans' /\ HarmOnlyAfterCrash'
          /\ StoreReady'
    BY <1>1 DEF Stranger, AllRecorded, BridgeAgreement, NoOrphans,
                HarmOnlyAfterCrash, StoreReady
  <1>4. \A i \in Ifaces : pid[i] # 0 => pid[i] \in Pids
    BY DEF TypeOK
  <1>5. Accounted'
    BY <1>2, <1>4 DEF Stranger, Accounted, StoreReady
  <1> QED BY <1>3, <1>5

LEMMA NextIInv == NoCollision /\ IInv /\ [Next]_vars => IInv'
  <1> SUFFICES ASSUME NoCollision, IInv, [Next]_vars PROVE IInv'
    OBVIOUS
  <1>0. TypeOK /\ TypeOK'
    BY NextType DEF IInv
  <1>1. ASSUME SkipServer \/ ForkFails PROVE IInv'
    BY <1>0, <1>1, IdleIInv DEF SkipServer, ForkFails, NextServer
  <1>2. CASE ForkServer BY <1>0, <1>2, ForkIInv
  <1>3. CASE StoreServer BY <1>0, <1>3, StoreIInv
  <1>4. CASE ScanBridge
    <2> DEFINE S == { i \in Ifaces : port[i] = at /\ bridge[i] # at }
    <2>1. StopServers(S) /\ S \in SUBSET Ifaces
      <3>1. { i \in PortsOf(at) : bridge[i] # at } = S
        BY DEF PortsOf
      <3> QED BY <3>1, <1>4 DEF ScanBridge
    <2>2. \A i \in Ifaces \ S : bridge'[i] = bridge[i]
      BY <1>4 DEF ScanBridge, PortsOf
    <2>3. /\ pc = "scan" /\ pc' \notin {"dead", "store"} /\ UNCHANGED crashed
      BY <1>4 DEF ScanBridge, NextBridge
    <2> QED BY <1>0, <2>1, <2>2, <2>3, StopIInv
  <1>5. CASE Prune
    <2> DEFINE S == { i \in Ifaces : ~br_check[i] /\ bridge[i] # NoBridge }
    <2>1. StopServers(S) /\ S \in SUBSET Ifaces
      BY <1>5 DEF Prune
    <2>2. \A i \in Ifaces \ S : bridge'[i] = bridge[i]
      BY <1>0, <1>5 DEF Prune, TypeOK
    <2>3. pc = "prune" /\ pc' \notin {"dead", "store"} /\ UNCHANGED crashed
      BY <1>5 DEF Prune
    <2> QED BY <1>0, <2>1, <2>2, <2>3, StopIInv
  <1>6. CASE Sigchld BY <1>0, <1>6, SigchldIInv
  <1>7. CASE Terminate BY <1>0, <1>7, TerminateIInv
  <1>8. ASSUME NEW p \in Pids, Crash(p) \/ TermInstance(p) \/ Stranger(p)
        PROVE  IInv'
    BY <1>0, <1>8, CrashIInv, TermInstanceIInv, StrangerIInv
  <1>9. ASSUME NEW i \in Ifaces, NEW b \in Bridges \union {NoBridge}, Move(i, b)
        PROVE  IInv'
    BY <1>0, <1>9, IdleIInv DEF Move
  <1>10. CASE UNCHANGED vars
    BY <1>0, <1>10, IdleIInv DEF vars
  <1> QED BY <1>1, <1>2, <1>3, <1>4, <1>5, <1>6, <1>7, <1>8, <1>9, <1>10
          DEF Next, Master

LEMMA IInvInvariant == ASSUME NoCollision PROVE Spec => []IInv
  <1>1. Init => IInv BY InitIInv
  <1>2. IInv /\ [Next]_vars => IInv' BY NextIInv
  <1> QED BY <1>1, <1>2, PTL DEF Spec

(* Every instance that runs is in the table of the master, or is the one   *)
(* it has just forked (AllRecorded).                                       *)
THEOREM EveryInstanceRecorded == ASSUME NoCollision PROVE Spec => []AllRecorded
  <1>1. IInv => AllRecorded BY DEF IInv
  <1> QED BY <1>1, IInvInvariant, PTL

(* Stopping the servers of S ends only theirs, while the table is          *)
(* accounted for.                                                          *)
LEMMA StopEndsOwn ==
  ASSUME TypeOK, Accounted, ~crashed, NEW S \in SUBSET Ifaces, StopServers(S),
         NEW p \in Instances \ Instances'
  PROVE  owner[p] \in S
  <1>1. PICK i \in S : pid[i] = p /\ p # 0
    BY DEF StopServers, End, Instances
  <1> QED BY <1>1 DEF Accounted

LEMMA StepEndsMoved ==
  ASSUME IInv, [Next]_vars, ~crashed', NEW p \in Instances \ Instances'
  PROVE  bridge'[owner[p]] # bridge[owner[p]] \/ pc' = "dead"
  <1> USE DEF IInv, table, procs, world, ghosts
  <1>1. CASE ScanBridge
    <2> DEFINE S == { i \in PortsOf(at) : bridge[i] # at }
    <2>1. owner[p] \in S
      BY <1>1, StopEndsOwn DEF ScanBridge, PortsOf
    <2> QED BY <1>1, <2>1 DEF ScanBridge, PortsOf
  <1>2. CASE Prune
    <2> DEFINE S == { i \in Ifaces : ~br_check[i] /\ bridge[i] # NoBridge }
    <2>1. owner[p] \in S
      BY <1>2, StopEndsOwn DEF Prune
    <2> QED BY <1>2, <2>1 DEF Prune, NoBridge
  <1>3. CASE Terminate
    BY <1>3 DEF Terminate
  <1>4. CASE ForkServer
    BY <1>4 DEF ForkServer, Instances, TypeOK
  <1>5. CASE Sigchld
    BY <1>5 DEF Sigchld, Instances, TypeOK
  <1>6. ASSUME NEW q \in Pids, Crash(q) \/ TermInstance(q) PROVE FALSE
    BY <1>6 DEF Crash, TermInstance
  <1>7. ASSUME NEW q \in Pids, Stranger(q) PROVE Instances \subseteq Instances'
    BY <1>7 DEF Stranger, Instances, TypeOK
  <1>8. CASE UNCHANGED role
    BY <1>8 DEF Instances
  <1> QED BY <1>1, <1>2, <1>3, <1>4, <1>5, <1>6, <1>7, <1>8
          DEF Next, Master, SkipServer, ForkFails, StoreServer, Move, vars

(* Until an instance has ended by itself none ends but for a change of its *)
(* own interface, or with the master (OnlyMovedEnd).                       *)
THEOREM InstancesServeOn == ASSUME NoCollision PROVE Spec => OnlyMovedEnd
  <1>1. IInv /\ [Next]_vars =>
          [ ~crashed' => \A p \in Instances \ Instances' :
              bridge'[owner[p]] # bridge[owner[p]] \/ pc' = "dead" ]_vars
    BY StepEndsMoved
  <1> QED BY <1>1, IInvInvariant, PTL DEF Spec, OnlyMovedEnd

(* No interface ever has two instances, each answering every request.      *)
THEOREM OneServer == ASSUME NoCollision PROVE Spec => []OneServerPerInterface
  <1>1. IInv => OneServerPerInterface
    <2> SUFFICES ASSUME IInv, NEW p \in Instances, NEW q \in Instances,
                        pc # "dead", owner[p] = owner[q]
                 PROVE  p = q
      BY DEF OneServerPerInterface
    <2>1. p # 0 /\ q # 0
      BY MasterConstants DEF MasterConstants, Instances
    <2> QED BY <2>1 DEF IInv, AllRecorded
  <1> QED BY <1>1, IInvInvariant, PTL

(* No instance goes on capturing from a bridge its interface has left in   *)
(* the table of the master (BridgeAgreement).                              *)
THEOREM InstancesFollowBridges == ASSUME NoCollision PROVE Spec => []BridgeAgreement
  <1>1. IInv => BridgeAgreement BY DEF IInv
  <1> QED BY <1>1, IInvInvariant, PTL

(* A master that ends on request leaves at most the instance behind whose  *)
(* number it had not stored (NoOrphans).                                   *)
THEOREM AtMostOneOrphan == ASSUME NoCollision PROVE Spec => []NoOrphans
  <1>1. IInv => NoOrphans BY DEF IInv
  <1> QED BY <1>1, IInvInvariant, PTL

(* The master does not kill other programs' processes before an instance   *)
(* has ended by itself (HarmOnlyAfterCrash).                               *)
THEOREM NoHarmBeforeCrash == ASSUME NoCollision PROVE Spec => []HarmOnlyAfterCrash
  <1>1. IInv => HarmOnlyAfterCrash BY DEF IInv
  <1> QED BY <1>1, IInvInvariant, PTL
=============================================================================
