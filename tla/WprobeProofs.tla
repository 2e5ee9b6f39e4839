---------------------------- MODULE WprobeProofs ----------------------------
(***************************************************************************)
(* Proofs about Wprobe, for any number of links, filters and dumps, on one *)
(* processor and on several.                                               *)
(***************************************************************************)
EXTENDS Wprobe, TLAPS

(* States of a request between rcu_read_lock and rcu_read_unlock.          *)
InRcu == Protected \union {"walk", "groups"}

Drivers ==
  /\ listed <=> (drv \in {"up", "link", "stop", "unlist"})
  /\ alive <=> (drv # "down")
  /\ drv \in {"stop", "unlist", "grace", "down"} => links = {}
  /\ linkMem = links \union (IF drv = "link" THEN {leaving} ELSE {})
  /\ drv = "link" => leaving \notin links

(* Who is known as a reader, and who is waited for, is one.                *)
Readers ==
  /\ ("nl" \in readers) <=> (nl \in InRcu)
  /\ ("rx" \in readers) <=> (rx # None)
  /\ waits["drv"] \subseteq readers /\ waits["nl"] \subseteq readers

Calls ==
  /\ nl \in {"lock", "sync", "send", "links", "walk", "filters", "groups"} => call \in Dumps
  /\ nl \notin {"groups", "interval", "free"} => held = None
  /\ nl = "free" => held # None
  /\ nl \notin {"lock", "sync", "send", "walk", "measure"} => target = None

(* What a request has found is on its list, or its remover waits for the   *)
(* request.                                                                *)
Targets ==
  /\ nl \in Protected => listed \/ (drv = "grace" /\ "nl" \in waits["drv"])
  /\ target # None =>
       /\ nl \in InRcu
       /\ \/ target \in links
          \/ drv = "link" /\ target = leaving /\ "nl" \in waits["drv"]

(* The same for a frame, its interface and its filter: that is the active  *)
(* one, or has been taken out by a request that keeps it, or waits for the *)
(* frame.                                                                  *)
Frames ==
  rx # None =>
    /\ listed \/ (drv = "grace" /\ "rx" \in waits["drv"])
    /\ \/ rx = filter
       \/ rx = held /\ nl = "interval"
       \/ rx = held /\ nl = "free" /\ "rx" \in waits["nl"]

TimerGone ==
  drv \in {"unlist", "grace", "down"} /\ ~late => ~armed /\ ~firing

(* The parts of the type invariant that the provers handle separately.     *)
Places ==
  /\ drv \in DrvStates /\ leaving \in Links \union {None}
  /\ links \subseteq Links /\ linkMem \subseteq Links
  /\ filter \in Filters \union {None} /\ filterMem \subseteq Filters
  /\ lock \in {None, "nl"}
  /\ nl \in NlStates /\ call \in Dumps \union {None}
  /\ target \in Links \union {None} /\ held \in Filters \union {None}
  /\ rx \in Filters \union {None}

Flags ==
  /\ listed \in BOOLEAN /\ alive \in BOOLEAN
  /\ interval \in BOOLEAN /\ armed \in BOOLEAN /\ firing \in BOOLEAN
  /\ late \in BOOLEAN

Dumped == dumps \in [Dumps -> Dump]

Waited == /\ readers \subseteq {"nl", "rx"}
          /\ waits \in [{"drv", "nl"} -> SUBSET {"nl", "rx"}]

IInv == /\ Places /\ Flags /\ Dumped /\ Waited
        /\ Drivers /\ Readers /\ Calls /\ Targets /\ Frames
        /\ FiltersAccounted /\ TimerFollowsInterval /\ TimerGone

-----------------------------------------------------------------------------
(* Grace periods.                                                          *)

LEMMA Unlocked ==
  ASSUME Waited, NEW r \in {"nl", "rx"}, NEW sync, ReadUnlock(r, sync), "drv" \notin sync
  PROVE  /\ readers' = readers \ {r}
         /\ waits' \in [{"drv", "nl"} -> SUBSET {"nl", "rx"}]
         /\ waits'["drv"] = waits["drv"] \ {r}
         /\ waits'["nl"] = IF "nl" \in sync THEN readers \ {r} ELSE waits["nl"] \ {r}
  <1>1. DOMAIN waits = {"drv", "nl"}
    BY DEF Waited
  <1>2. waits' = [w \in {"drv", "nl"} |->
                    IF w \in sync THEN readers \ {r} ELSE waits[w] \ {r}]
    BY <1>1 DEF ReadUnlock
  <1>3. /\ waits'["drv"] = waits["drv"] \ {r}
        /\ waits'["nl"] = IF "nl" \in sync THEN readers \ {r} ELSE waits["nl"] \ {r}
    BY <1>2
  <1>4. waits["drv"] \subseteq {"nl", "rx"} /\ waits["nl"] \subseteq {"nl", "rx"}
        /\ readers \subseteq {"nl", "rx"}
    BY DEF Waited
  <1>5. \A w \in {"drv", "nl"} :
          (IF w \in sync THEN readers \ {r} ELSE waits[w] \ {r}) \in SUBSET {"nl", "rx"}
    BY <1>4
  <1> QED BY <1>2, <1>3, <1>5 DEF ReadUnlock

LEMMA Synchronized ==
  ASSUME Waited, Synchronize("drv")
  PROVE  /\ readers' = readers
         /\ waits' \in [{"drv", "nl"} -> SUBSET {"nl", "rx"}]
         /\ waits'["drv"] = readers /\ waits'["nl"] = waits["nl"]
  BY DEF Waited, Synchronize

(* The driver.                                                             *)
LEMMA DriverStep ==
  ASSUME IInv, 
         \/ AddIface \/ RemoveIface \/ DriverSteps
         \/ \E l \in Links : AddLink(l) \/ UnlistLink(l)
  PROVE  IInv'
  <1> USE WprobeConstants
          DEF IInv, InRcu, Protected, driver, values, netlink, rcu, WprobeConstants
  <1>1. CASE AddIface
    <2>1. Dumped' /\ Waited'
      BY <1>1 DEF AddIface, Dumped, Waited
    <2>2. Readers' /\ Calls'
      BY <1>1 DEF AddIface, Readers, Calls
    <2>3. Places'
      BY <1>1 DEF AddIface, Places, Calls, Drivers, DrvStates, NlStates
    <2>4. Flags'
      BY <1>1 DEF AddIface, Flags
    <2>5. Drivers'
      BY <1>1 DEF AddIface, Places, Flags, Drivers
    <2>6. Targets'
      BY <1>1
      DEF AddIface, Places, Flags, Waited, Drivers, Readers, Targets, Calls
    <2>7. Frames'
      BY <1>1
      DEF AddIface, Places, Flags, Waited, Drivers, Readers, Frames, Targets,
          Calls, FiltersAccounted
    <2>8. FiltersAccounted'
      BY <1>1
      DEF AddIface, Places, Flags, Drivers, Calls, Targets, Readers,
          FiltersAccounted
    <2>9. TimerFollowsInterval' /\ TimerGone'
      BY <1>1
      DEF AddIface, Places, Flags, Drivers, TimerFollowsInterval, Targets,
          TimerGone
    <2> QED BY <2>1, <2>2, <2>3, <2>4, <2>5, <2>6, <2>7, <2>8, <2>9
  <1>2. ASSUME NEW l \in Links, AddLink(l) PROVE IInv'
    <2>1. Flags' /\ Dumped' /\ Waited'
      BY <1>2 DEF AddLink, Flags, Dumped, Waited
    <2>2. /\ Readers' /\ Calls' /\ Frames'
          /\ FiltersAccounted' /\ TimerFollowsInterval' /\ TimerGone'
      BY <1>2
      DEF AddLink, Readers, Calls, Frames, FiltersAccounted,
          TimerFollowsInterval, TimerGone
    <2>3. Places'
      BY <1>2 DEF AddLink, Places, Calls, Drivers, DrvStates, NlStates
    <2>4. Drivers'
      BY <1>2 DEF AddLink, Places, Flags, Drivers
    <2>5. Targets'
      BY <1>2
      DEF AddLink, Places, Flags, Waited, Drivers, Readers, Targets, Calls
    <2> QED BY <2>1, <2>2, <2>3, <2>4, <2>5
  <1>3. ASSUME NEW l \in Links, UnlistLink(l) PROVE IInv'
    <2>1. Flags' /\ Dumped'
      BY <1>3 DEF UnlistLink, Flags, Dumped
    <2>2. Calls' /\ FiltersAccounted'
      BY <1>3 DEF UnlistLink, Calls, FiltersAccounted
    <2>3. Places'
      BY <1>3, Synchronized
      DEF UnlistLink, Places, Calls, Drivers, DrvStates, NlStates
    <2>4. Waited'
      BY <1>3, Synchronized DEF UnlistLink, Waited
    <2>5. Drivers'
      BY <1>3, Synchronized DEF UnlistLink, Places, Flags, Drivers
    <2>6. Readers'
      BY <1>3, Synchronized DEF UnlistLink, Places, Waited, Readers
    <2>7. Targets'
      BY <1>3, Synchronized
      DEF UnlistLink, Places, Flags, Waited, Drivers, Readers, Targets, Calls
    <2>8. Frames'
      BY <1>3, Synchronized
      DEF UnlistLink, Places, Flags, Waited, Drivers, Readers, Frames, Targets,
          Calls, FiltersAccounted
    <2>9. TimerFollowsInterval' /\ TimerGone'
      BY <1>3, Synchronized
      DEF UnlistLink, Places, Flags, Drivers, TimerFollowsInterval, Targets,
          TimerGone
    <2> QED BY <2>1, <2>2, <2>3, <2>4, <2>5, <2>6, <2>7, <2>8, <2>9
  <1>4. CASE FreeLink
    <2>1. Flags' /\ Dumped' /\ Waited'
      BY <1>4 DEF FreeLink, Flags, Dumped, Waited
    <2>2. Readers' /\ Calls' /\ FiltersAccounted'
      BY <1>4 DEF FreeLink, Readers, Calls, FiltersAccounted
    <2>3. Places'
      BY <1>4
      DEF FreeLink, GraceOver, Places, Calls, Drivers, DrvStates, NlStates
    <2>4. Drivers'
      BY <1>4 DEF FreeLink, GraceOver, Places, Flags, Drivers
    <2>5. Targets'
      BY <1>4
      DEF FreeLink, GraceOver, Places, Flags, Waited, Drivers, Readers,
          Targets, Calls
    <2>6. Frames'
      BY <1>4
      DEF FreeLink, GraceOver, Places, Flags, Waited, Drivers, Readers, Frames,
          Targets, Calls, FiltersAccounted
    <2>7. TimerFollowsInterval' /\ TimerGone'
      BY <1>4
      DEF FreeLink, GraceOver, Places, Flags, Drivers, TimerFollowsInterval,
          Targets, TimerGone
    <2> QED BY <2>1, <2>2, <2>3, <2>4, <2>5, <2>6, <2>7
  <1>5. CASE RemoveIface
    <2>1. Flags' /\ Dumped' /\ Waited'
      BY <1>5 DEF RemoveIface, Flags, Dumped, Waited
    <2>2. Readers' /\ Calls' /\ FiltersAccounted'
      BY <1>5 DEF RemoveIface, Readers, Calls, FiltersAccounted
    <2>3. Places'
      BY <1>5 DEF RemoveIface, Places, Calls, Drivers, DrvStates, NlStates
    <2>4. Drivers'
      BY <1>5 DEF RemoveIface, Places, Flags, Drivers
    <2>5. Targets'
      BY <1>5
      DEF RemoveIface, Places, Flags, Waited, Drivers, Readers, Targets, Calls
    <2>6. Frames'
      BY <1>5
      DEF RemoveIface, Places, Flags, Waited, Drivers, Readers, Frames,
          Targets, Calls, FiltersAccounted
    <2>7. TimerFollowsInterval' /\ TimerGone'
      BY <1>5
      DEF RemoveIface, Places, Flags, Drivers, TimerFollowsInterval, Targets,
          TimerGone
    <2> QED BY <2>1, <2>2, <2>3, <2>4, <2>5, <2>6, <2>7
  <1>6. CASE StopTimer
    <2>1. Dumped' /\ Waited'
      BY <1>6 DEF StopTimer, Dumped, Waited
    <2>2. Readers' /\ Calls' /\ FiltersAccounted'
      BY <1>6 DEF StopTimer, Readers, Calls, FiltersAccounted
    <2>3. Places'
      BY <1>6 DEF StopTimer, Places, Calls, Drivers, DrvStates, NlStates
    <2>4. Flags'
      BY <1>6 DEF StopTimer, Flags
    <2>5. Drivers'
      BY <1>6 DEF StopTimer, Places, Flags, Drivers
    <2>6. Targets'
      BY <1>6
      DEF StopTimer, Places, Flags, Waited, Drivers, Readers, Targets, Calls
    <2>7. Frames'
      BY <1>6
      DEF StopTimer, Places, Flags, Waited, Drivers, Readers, Frames, Targets,
          Calls, FiltersAccounted
    <2>8. TimerFollowsInterval' /\ TimerGone'
      BY <1>6
      DEF StopTimer, Places, Flags, Drivers, TimerFollowsInterval, Targets,
          TimerGone
    <2> QED BY <2>1, <2>2, <2>3, <2>4, <2>5, <2>6, <2>7, <2>8
  <1>7. CASE UnlistIface
    <2>1. Dumped'
      BY <1>7 DEF UnlistIface, Dumped
    <2>2. Calls' /\ FiltersAccounted'
      BY <1>7 DEF UnlistIface, Calls, FiltersAccounted
    <2>3. Places'
      BY <1>7, Synchronized
      DEF UnlistIface, Places, Calls, Drivers, DrvStates, NlStates
    <2>4. Flags'
      BY <1>7, Synchronized DEF UnlistIface, Flags
    <2>5. Waited'
      BY <1>7, Synchronized DEF UnlistIface, Waited
    <2>6. Drivers'
      BY <1>7, Synchronized DEF UnlistIface, Places, Flags, Drivers
    <2>7. Readers'
      BY <1>7, Synchronized DEF UnlistIface, Places, Waited, Readers
    <2>8. Targets'
      BY <1>7, Synchronized
      DEF UnlistIface, Places, Flags, Waited, Drivers, Readers, Targets, Calls
    <2>9. Frames'
      BY <1>7, Synchronized
      DEF UnlistIface, Places, Flags, Waited, Drivers, Readers, Frames,
          Targets, Calls, FiltersAccounted
    <2>10. TimerFollowsInterval' /\ TimerGone'
      BY <1>7, Synchronized
      DEF UnlistIface, Places, Flags, Drivers, TimerFollowsInterval, Targets,
          TimerGone
    <2> QED BY <2>1, <2>2, <2>3, <2>4, <2>5, <2>6, <2>7, <2>8, <2>9, <2>10
  <1>8. CASE FreeIface
    <2>1. Dumped' /\ Waited'
      BY <1>8 DEF FreeIface, Dumped, Waited
    <2>2. Readers' /\ Calls'
      BY <1>8 DEF FreeIface, Readers, Calls
    <2>3. Places'
      BY <1>8
      DEF FreeIface, GraceOver, FreeFilter, Places, Calls, Drivers, DrvStates,
          NlStates
    <2>4. Flags'
      BY <1>8 DEF FreeIface, GraceOver, FreeFilter, Flags
    <2>5. Drivers'
      BY <1>8 DEF FreeIface, GraceOver, FreeFilter, Places, Flags, Drivers
    <2>6. Targets'
      BY <1>8
      DEF FreeIface, GraceOver, FreeFilter, Places, Flags, Waited, Drivers,
          Readers, Targets, Calls
    <2>7. Frames'
      BY <1>8
      DEF FreeIface, GraceOver, FreeFilter, Places, Flags, Waited, Drivers,
          Readers, Frames, Targets, Calls, FiltersAccounted
    <2>8. FiltersAccounted'
      BY <1>8
      DEF FreeIface, GraceOver, FreeFilter, Places, Flags, Drivers, Calls,
          Targets, Readers, FiltersAccounted
    <2>9. TimerFollowsInterval' /\ TimerGone'
      BY <1>8
      DEF FreeIface, GraceOver, FreeFilter, Places, Flags, Drivers,
          TimerFollowsInterval, Targets, TimerGone
    <2> QED BY <2>1, <2>2, <2>3, <2>4, <2>5, <2>6, <2>7, <2>8, <2>9
  <1> QED BY <1>1, <1>2, <1>3, <1>4, <1>5, <1>6, <1>7, <1>8 DEF DriverSteps

(* The timer and the frames.                                               *)
LEMMA TimerStep ==
  ASSUME IInv, Fire \/ TimerSync \/ RxEnter \/ RxCount
  PROVE  IInv'
  <1> USE WprobeConstants
          DEF IInv, InRcu, Protected, driver, values, netlink, rcu, WprobeConstants
  <1>1. CASE Fire
    <2>1. Places' /\ Dumped' /\ Waited'
      BY <1>1 DEF Fire, Places, Dumped, Waited
    <2>2. /\ Drivers' /\ Readers' /\ Calls' /\ Targets'
          /\ Frames' /\ FiltersAccounted' /\ TimerFollowsInterval'
      BY <1>1
      DEF Fire, Drivers, Readers, Calls, Targets, Frames, FiltersAccounted,
          TimerFollowsInterval
    <2>3. Flags'
      BY <1>1 DEF Fire, Flags
    <2>4. TimerGone'
      BY <1>1 DEF Fire, Places, Flags, Drivers, Targets, TimerGone
    <2> QED BY <2>1, <2>2, <2>3, <2>4
  <1>2. CASE TimerSync
    <2>1. Places' /\ Dumped' /\ Waited'
      BY <1>2 DEF TimerSync, Places, Dumped, Waited
    <2>2. /\ Drivers' /\ Readers' /\ Calls' /\ Targets'
          /\ Frames' /\ FiltersAccounted' /\ TimerFollowsInterval'
      BY <1>2
      DEF TimerSync, Drivers, Readers, Calls, Targets, Frames,
          FiltersAccounted, TimerFollowsInterval
    <2>3. Flags'
      BY <1>2 DEF TimerSync, Flags
    <2>4. TimerGone'
      BY <1>2 DEF TimerSync, Places, Flags, Drivers, Targets, TimerGone
    <2> QED BY <2>1, <2>2, <2>3, <2>4
  <1>3. CASE RxEnter
    <2>1. Flags' /\ Dumped'
      BY <1>3 DEF RxEnter, Flags, Dumped
    <2>2. /\ Drivers' /\ Calls' /\ FiltersAccounted'
          /\ TimerFollowsInterval' /\ TimerGone'
      BY <1>3
      DEF RxEnter, Drivers, Calls, FiltersAccounted, TimerFollowsInterval,
          TimerGone
    <2>3. Places'
      BY <1>3
      DEF RxEnter, ReadLock, Places, Calls, Drivers, DrvStates, NlStates
    <2>4. Waited'
      BY <1>3 DEF RxEnter, ReadLock, Waited
    <2>5. Readers'
      BY <1>3 DEF RxEnter, ReadLock, Places, Waited, Readers
    <2>6. Targets'
      BY <1>3
      DEF RxEnter, ReadLock, Places, Flags, Waited, Drivers, Readers, Targets,
          Calls
    <2>7. Frames'
      BY <1>3
      DEF RxEnter, ReadLock, Places, Flags, Waited, Drivers, Readers, Frames,
          Targets, Calls, FiltersAccounted
    <2> QED BY <2>1, <2>2, <2>3, <2>4, <2>5, <2>6, <2>7
  <1>4. CASE RxCount
    <2>1. Flags' /\ Dumped'
      BY <1>4 DEF RxCount, Flags, Dumped
    <2>2. /\ Drivers' /\ Calls' /\ FiltersAccounted'
          /\ TimerFollowsInterval' /\ TimerGone'
      BY <1>4
      DEF RxCount, Drivers, Calls, FiltersAccounted, TimerFollowsInterval,
          TimerGone
    <2>3. Places'
      BY <1>4, Unlocked
      DEF RxCount, Places, Calls, Drivers, DrvStates, NlStates
    <2>4. Waited'
      BY <1>4, Unlocked DEF RxCount, Waited
    <2>5. Readers'
      BY <1>4, Unlocked DEF RxCount, Places, Waited, Readers
    <2>6. Targets'
      BY <1>4, Unlocked
      DEF RxCount, Places, Flags, Waited, Drivers, Readers, Targets, Calls
    <2>7. Frames'
      BY <1>4, Unlocked
      DEF RxCount, Places, Flags, Waited, Drivers, Readers, Frames, Targets,
          Calls, FiltersAccounted
    <2> QED BY <2>1, <2>2, <2>3, <2>4, <2>5, <2>6, <2>7
  <1> QED BY <1>1, <1>2, <1>3, <1>4

(* Requests begin.                                                         *)
LEMMA RequestStep ==
  ASSUME IInv, Requests
  PROVE  IInv'
  <1> USE WprobeConstants
          DEF IInv, InRcu, Protected, driver, values, netlink, rcu, WprobeConstants
  <1>1. ASSUME NEW d \in Dumps, NEW cmd \in {"info", "list"},
              NEW l \in Links \union {None}, InfoStart(d, cmd, l) PROVE IInv'
    <2>1. Flags'
      BY <1>1 DEF InfoStart, Flags
    <2>2. Drivers' /\ TimerFollowsInterval' /\ TimerGone'
      BY <1>1 DEF InfoStart, Drivers, TimerFollowsInterval, TimerGone
    <2>3. Places'
      BY <1>1
      DEF InfoStart, ReadLock, NlRuns, Becomes, Dump, Places, Calls, Drivers,
          DrvStates, NlStates
    <2>4. Dumped'
      BY <1>1
      DEF InfoStart, ReadLock, NlRuns, Becomes, Dump, Dumped, Places, Calls
    <2>5. Waited'
      BY <1>1 DEF InfoStart, ReadLock, NlRuns, Becomes, Dump, Waited
    <2>6. Readers' /\ Calls'
      BY <1>1
      DEF InfoStart, ReadLock, NlRuns, Becomes, Dump, Places, Waited, Readers,
          Calls
    <2>7. Targets'
      BY <1>1
      DEF InfoStart, ReadLock, NlRuns, Becomes, Dump, Places, Flags, Waited,
          Drivers, Readers, Targets, Calls
    <2>8. Frames'
      BY <1>1
      DEF InfoStart, ReadLock, NlRuns, Becomes, Dump, Places, Flags, Waited,
          Drivers, Readers, Frames, Targets, Calls, FiltersAccounted
    <2>9. FiltersAccounted'
      BY <1>1
      DEF InfoStart, ReadLock, NlRuns, Becomes, Dump, Places, Flags, Drivers,
          Calls, Targets, Readers, FiltersAccounted
    <2> QED BY <2>1, <2>2, <2>3, <2>4, <2>5, <2>6, <2>7, <2>8, <2>9
  <1>2. ASSUME NEW d \in Dumps, InfoAgain(d) PROVE IInv'
    <2>1. Flags'
      BY <1>2 DEF InfoAgain, Flags
    <2>2. Drivers' /\ TimerFollowsInterval' /\ TimerGone'
      BY <1>2 DEF InfoAgain, Drivers, TimerFollowsInterval, TimerGone
    <2>3. Places'
      BY <1>2
      DEF InfoAgain, ReadLock, NlRuns, Closed, Dump, Places, Calls, Drivers,
          DrvStates, NlStates
    <2>4. Dumped'
      BY <1>2
      DEF InfoAgain, ReadLock, NlRuns, Closed, Dump, Dumped, Places, Calls
    <2>5. Waited'
      BY <1>2 DEF InfoAgain, ReadLock, NlRuns, Closed, Dump, Waited
    <2>6. Readers' /\ Calls'
      BY <1>2
      DEF InfoAgain, ReadLock, NlRuns, Closed, Dump, Places, Waited, Readers,
          Calls
    <2>7. Targets'
      BY <1>2
      DEF InfoAgain, ReadLock, NlRuns, Closed, Dump, Places, Flags, Waited,
          Drivers, Readers, Targets, Calls
    <2>8. Frames'
      BY <1>2
      DEF InfoAgain, ReadLock, NlRuns, Closed, Dump, Places, Flags, Waited,
          Drivers, Readers, Frames, Targets, Calls, FiltersAccounted
    <2>9. FiltersAccounted'
      BY <1>2
      DEF InfoAgain, ReadLock, NlRuns, Closed, Dump, Places, Flags, Drivers,
          Calls, Targets, Readers, FiltersAccounted
    <2> QED BY <2>1, <2>2, <2>3, <2>4, <2>5, <2>6, <2>7, <2>8, <2>9
  <1>3. ASSUME NEW d \in Dumps, NEW cmd \in {"links", "filters"}, Lookup(d, cmd) PROVE IInv'
    <2>1. Flags' /\ Waited'
      BY <1>3 DEF Lookup, Flags, Waited
    <2>2. Drivers' /\ TimerFollowsInterval' /\ TimerGone'
      BY <1>3 DEF Lookup, Drivers, TimerFollowsInterval, TimerGone
    <2>3. Places'
      BY <1>3
      DEF Lookup, NlRuns, Becomes, Closed, Dump, Places, Calls, Drivers,
          DrvStates, NlStates
    <2>4. Dumped'
      BY <1>3 DEF Lookup, NlRuns, Becomes, Closed, Dump, Dumped, Places, Calls
    <2>5. Readers' /\ Calls'
      BY <1>3
      DEF Lookup, NlRuns, Becomes, Closed, Dump, Places, Waited, Readers, Calls
    <2>6. Targets'
      BY <1>3
      DEF Lookup, NlRuns, Becomes, Closed, Dump, Places, Flags, Waited,
          Drivers, Readers, Targets, Calls
    <2>7. Frames'
      BY <1>3
      DEF Lookup, NlRuns, Becomes, Closed, Dump, Places, Flags, Waited,
          Drivers, Readers, Frames, Targets, Calls, FiltersAccounted
    <2>8. FiltersAccounted'
      BY <1>3
      DEF Lookup, NlRuns, Becomes, Closed, Dump, Places, Flags, Drivers, Calls,
          Targets, Readers, FiltersAccounted
    <2> QED BY <2>1, <2>2, <2>3, <2>4, <2>5, <2>6, <2>7, <2>8
  <1>4. ASSUME NEW l \in Links \union {None}, MeasureStart(l) PROVE IInv'
    <2>1. Flags' /\ Dumped'
      BY <1>4 DEF MeasureStart, Flags, Dumped
    <2>2. Drivers' /\ TimerFollowsInterval' /\ TimerGone'
      BY <1>4 DEF MeasureStart, Drivers, TimerFollowsInterval, TimerGone
    <2>3. Places'
      BY <1>4
      DEF MeasureStart, ReadLock, NlRuns, Places, Calls, Drivers, DrvStates,
          NlStates
    <2>4. Waited'
      BY <1>4 DEF MeasureStart, ReadLock, NlRuns, Waited
    <2>5. Readers' /\ Calls'
      BY <1>4
      DEF MeasureStart, ReadLock, NlRuns, Places, Waited, Readers, Calls
    <2>6. Targets'
      BY <1>4
      DEF MeasureStart, ReadLock, NlRuns, Places, Flags, Waited, Drivers,
          Readers, Targets, Calls
    <2>7. Frames'
      BY <1>4
      DEF MeasureStart, ReadLock, NlRuns, Places, Flags, Waited, Drivers,
          Readers, Frames, Targets, Calls, FiltersAccounted
    <2>8. FiltersAccounted'
      BY <1>4
      DEF MeasureStart, ReadLock, NlRuns, Places, Flags, Drivers, Calls,
          Targets, Readers, FiltersAccounted
    <2> QED BY <2>1, <2>2, <2>3, <2>4, <2>5, <2>6, <2>7, <2>8
  <1>5. CASE ConfigStart
    <2>1. Flags' /\ Dumped'
      BY <1>5 DEF ConfigStart, Flags, Dumped
    <2>2. Drivers' /\ TimerFollowsInterval' /\ TimerGone'
      BY <1>5 DEF ConfigStart, Drivers, TimerFollowsInterval, TimerGone
    <2>3. Places'
      BY <1>5
      DEF ConfigStart, ReadLock, NlRuns, Places, Calls, Drivers, DrvStates,
          NlStates
    <2>4. Waited'
      BY <1>5 DEF ConfigStart, ReadLock, NlRuns, Waited
    <2>5. Readers' /\ Calls'
      BY <1>5 DEF ConfigStart, ReadLock, NlRuns, Places, Waited, Readers, Calls
    <2>6. Targets'
      BY <1>5
      DEF ConfigStart, ReadLock, NlRuns, Places, Flags, Waited, Drivers,
          Readers, Targets, Calls
    <2>7. Frames'
      BY <1>5
      DEF ConfigStart, ReadLock, NlRuns, Places, Flags, Waited, Drivers,
          Readers, Frames, Targets, Calls, FiltersAccounted
    <2>8. FiltersAccounted'
      BY <1>5
      DEF ConfigStart, ReadLock, NlRuns, Places, Flags, Drivers, Calls,
          Targets, Readers, FiltersAccounted
    <2> QED BY <2>1, <2>2, <2>3, <2>4, <2>5, <2>6, <2>7, <2>8
  <1> QED BY <1>1, <1>2, <1>3, <1>4, <1>5 DEF Requests

(* Dumps and measurements go on.                                           *)
LEMMA DumpStep ==
  ASSUME IInv, 
         \/ InfoLock \/ InfoSync \/ Send \/ LinksEnter \/ LinksSend
         \/ FiltersEnter \/ FiltersSend \/ MeasureSync
  PROVE  IInv'
  <1> USE WprobeConstants
          DEF IInv, InRcu, Protected, driver, values, netlink, rcu, WprobeConstants
  <1>1. CASE InfoLock
    <2>1. Flags' /\ Dumped' /\ Waited'
      BY <1>1 DEF InfoLock, Flags, Dumped, Waited
    <2>2. Drivers' /\ TimerFollowsInterval' /\ TimerGone'
      BY <1>1 DEF InfoLock, Drivers, TimerFollowsInterval, TimerGone
    <2>3. Places'
      BY <1>1 DEF InfoLock, NlRuns, Places, Calls, Drivers, DrvStates, NlStates
    <2>4. Readers' /\ Calls'
      BY <1>1 DEF InfoLock, NlRuns, Places, Waited, Readers, Calls
    <2>5. Targets'
      BY <1>1
      DEF InfoLock, NlRuns, Places, Flags, Waited, Drivers, Readers, Targets,
          Calls
    <2>6. Frames'
      BY <1>1
      DEF InfoLock, NlRuns, Places, Flags, Waited, Drivers, Readers, Frames,
          Targets, Calls, FiltersAccounted
    <2>7. FiltersAccounted'
      BY <1>1
      DEF InfoLock, NlRuns, Places, Flags, Drivers, Calls, Targets, Readers,
          FiltersAccounted
    <2> QED BY <2>1, <2>2, <2>3, <2>4, <2>5, <2>6, <2>7
  <1>2. CASE InfoSync
    <2>1. Flags' /\ Dumped' /\ Waited'
      BY <1>2 DEF InfoSync, Flags, Dumped, Waited
    <2>2. Drivers' /\ TimerFollowsInterval' /\ TimerGone'
      BY <1>2 DEF InfoSync, Drivers, TimerFollowsInterval, TimerGone
    <2>3. Places'
      BY <1>2 DEF InfoSync, NlRuns, Places, Calls, Drivers, DrvStates, NlStates
    <2>4. Readers' /\ Calls'
      BY <1>2 DEF InfoSync, NlRuns, Places, Waited, Readers, Calls
    <2>5. Targets'
      BY <1>2
      DEF InfoSync, NlRuns, Places, Flags, Waited, Drivers, Readers, Targets,
          Calls
    <2>6. Frames'
      BY <1>2
      DEF InfoSync, NlRuns, Places, Flags, Waited, Drivers, Readers, Frames,
          Targets, Calls, FiltersAccounted
    <2>7. FiltersAccounted'
      BY <1>2
      DEF InfoSync, NlRuns, Places, Flags, Drivers, Calls, Targets, Readers,
          FiltersAccounted
    <2> QED BY <2>1, <2>2, <2>3, <2>4, <2>5, <2>6, <2>7
  <1>3. CASE Send
    <2>1. Flags'
      BY <1>3 DEF Send, Flags
    <2>2. Drivers' /\ TimerFollowsInterval' /\ TimerGone'
      BY <1>3 DEF Send, Drivers, TimerFollowsInterval, TimerGone
    <2>3. Places'
      BY <1>3, Unlocked
      DEF Send, NlRuns, Returns, Becomes, Closed, Dump, Places, Calls, Drivers,
          DrvStates, NlStates
    <2>4. Dumped'
      BY <1>3, Unlocked
      DEF Send, NlRuns, Returns, Becomes, Closed, Dump, Dumped, Places, Calls
    <2>5. Waited'
      BY <1>3, Unlocked
      DEF Send, NlRuns, Returns, Becomes, Closed, Dump, Waited
    <2>6. Readers' /\ Calls'
      BY <1>3, Unlocked
      DEF Send, NlRuns, Returns, Becomes, Closed, Dump, Places, Waited,
          Readers, Calls
    <2>7. Targets'
      BY <1>3, Unlocked
      DEF Send, NlRuns, Returns, Becomes, Closed, Dump, Places, Flags, Waited,
          Drivers, Readers, Targets, Calls
    <2>8. Frames'
      BY <1>3, Unlocked
      DEF Send, NlRuns, Returns, Becomes, Closed, Dump, Places, Flags, Waited,
          Drivers, Readers, Frames, Targets, Calls, FiltersAccounted
    <2>9. FiltersAccounted'
      BY <1>3, Unlocked
      DEF Send, NlRuns, Returns, Becomes, Closed, Dump, Places, Flags, Drivers,
          Calls, Targets, Readers, FiltersAccounted
    <2> QED BY <2>1, <2>2, <2>3, <2>4, <2>5, <2>6, <2>7, <2>8, <2>9
  <1>4. CASE LinksEnter
    <2>1. Flags' /\ Dumped'
      BY <1>4 DEF LinksEnter, Flags, Dumped
    <2>2. Drivers' /\ TimerFollowsInterval' /\ TimerGone'
      BY <1>4 DEF LinksEnter, Drivers, TimerFollowsInterval, TimerGone
    <2>3. Places'
      BY <1>4
      DEF LinksEnter, ReadLock, NlRuns, Places, Calls, Drivers, DrvStates,
          NlStates
    <2>4. Waited'
      BY <1>4 DEF LinksEnter, ReadLock, NlRuns, Waited
    <2>5. Readers' /\ Calls'
      BY <1>4 DEF LinksEnter, ReadLock, NlRuns, Places, Waited, Readers, Calls
    <2>6. Targets'
      BY <1>4
      DEF LinksEnter, ReadLock, NlRuns, Places, Flags, Waited, Drivers,
          Readers, Targets, Calls
    <2>7. Frames'
      BY <1>4
      DEF LinksEnter, ReadLock, NlRuns, Places, Flags, Waited, Drivers,
          Readers, Frames, Targets, Calls, FiltersAccounted
    <2>8. FiltersAccounted'
      BY <1>4
      DEF LinksEnter, ReadLock, NlRuns, Places, Flags, Drivers, Calls, Targets,
          Readers, FiltersAccounted
    <2> QED BY <2>1, <2>2, <2>3, <2>4, <2>5, <2>6, <2>7, <2>8
  <1>5. CASE LinksSend
    <2>1. Flags'
      BY <1>5 DEF LinksSend, Flags
    <2>2. Drivers' /\ TimerFollowsInterval' /\ TimerGone'
      BY <1>5 DEF LinksSend, Drivers, TimerFollowsInterval, TimerGone
    <2>3. Places'
      BY <1>5, Unlocked
      DEF LinksSend, NlRuns, Returns, Becomes, Closed, Dump, Places, Calls,
          Drivers, DrvStates, NlStates
    <2>4. Dumped'
      BY <1>5, Unlocked
      DEF LinksSend, NlRuns, Returns, Becomes, Closed, Dump, Dumped, Places,
          Calls
    <2>5. Waited'
      BY <1>5, Unlocked
      DEF LinksSend, NlRuns, Returns, Becomes, Closed, Dump, Waited
    <2>6. Readers' /\ Calls'
      BY <1>5, Unlocked
      DEF LinksSend, NlRuns, Returns, Becomes, Closed, Dump, Places, Waited,
          Readers, Calls
    <2>7. Targets'
      BY <1>5, Unlocked
      DEF LinksSend, NlRuns, Returns, Becomes, Closed, Dump, Places, Flags,
          Waited, Drivers, Readers, Targets, Calls
    <2>8. Frames'
      BY <1>5, Unlocked
      DEF LinksSend, NlRuns, Returns, Becomes, Closed, Dump, Places, Flags,
          Waited, Drivers, Readers, Frames, Targets, Calls, FiltersAccounted
    <2>9. FiltersAccounted'
      BY <1>5, Unlocked
      DEF LinksSend, NlRuns, Returns, Becomes, Closed, Dump, Places, Flags,
          Drivers, Calls, Targets, Readers, FiltersAccounted
    <2> QED BY <2>1, <2>2, <2>3, <2>4, <2>5, <2>6, <2>7, <2>8, <2>9
  <1>6. CASE FiltersEnter
    <2>1. Flags' /\ Dumped'
      BY <1>6 DEF FiltersEnter, Flags, Dumped
    <2>2. Drivers' /\ TimerFollowsInterval' /\ TimerGone'
      BY <1>6 DEF FiltersEnter, Drivers, TimerFollowsInterval, TimerGone
    <2>3. Places'
      BY <1>6
      DEF FiltersEnter, ReadLock, NlRuns, Places, Calls, Drivers, DrvStates,
          NlStates
    <2>4. Waited'
      BY <1>6 DEF FiltersEnter, ReadLock, NlRuns, Waited
    <2>5. Readers' /\ Calls'
      BY <1>6
      DEF FiltersEnter, ReadLock, NlRuns, Places, Waited, Readers, Calls
    <2>6. Targets'
      BY <1>6
      DEF FiltersEnter, ReadLock, NlRuns, Places, Flags, Waited, Drivers,
          Readers, Targets, Calls
    <2>7. Frames'
      BY <1>6
      DEF FiltersEnter, ReadLock, NlRuns, Places, Flags, Waited, Drivers,
          Readers, Frames, Targets, Calls, FiltersAccounted
    <2>8. FiltersAccounted'
      BY <1>6
      DEF FiltersEnter, ReadLock, NlRuns, Places, Flags, Drivers, Calls,
          Targets, Readers, FiltersAccounted
    <2> QED BY <2>1, <2>2, <2>3, <2>4, <2>5, <2>6, <2>7, <2>8
  <1>7. CASE FiltersSend
    <2>1. Flags'
      BY <1>7 DEF FiltersSend, Flags
    <2>2. Drivers' /\ TimerFollowsInterval' /\ TimerGone'
      BY <1>7 DEF FiltersSend, Drivers, TimerFollowsInterval, TimerGone
    <2>3. Places'
      BY <1>7, Unlocked
      DEF FiltersSend, NlRuns, Returns, Becomes, Closed, Dump, Places, Calls,
          Drivers, DrvStates, NlStates
    <2>4. Dumped'
      BY <1>7, Unlocked
      DEF FiltersSend, NlRuns, Returns, Becomes, Closed, Dump, Dumped, Places,
          Calls
    <2>5. Waited'
      BY <1>7, Unlocked
      DEF FiltersSend, NlRuns, Returns, Becomes, Closed, Dump, Waited
    <2>6. Readers' /\ Calls'
      BY <1>7, Unlocked
      DEF FiltersSend, NlRuns, Returns, Becomes, Closed, Dump, Places, Waited,
          Readers, Calls
    <2>7. Targets'
      BY <1>7, Unlocked
      DEF FiltersSend, NlRuns, Returns, Becomes, Closed, Dump, Places, Flags,
          Waited, Drivers, Readers, Targets, Calls
    <2>8. Frames'
      BY <1>7, Unlocked
      DEF FiltersSend, NlRuns, Returns, Becomes, Closed, Dump, Places, Flags,
          Waited, Drivers, Readers, Frames, Targets, Calls, FiltersAccounted
    <2>9. FiltersAccounted'
      BY <1>7, Unlocked
      DEF FiltersSend, NlRuns, Returns, Becomes, Closed, Dump, Places, Flags,
          Drivers, Calls, Targets, Readers, FiltersAccounted
    <2> QED BY <2>1, <2>2, <2>3, <2>4, <2>5, <2>6, <2>7, <2>8, <2>9
  <1>8. CASE MeasureSync
    <2>1. Flags' /\ Dumped'
      BY <1>8 DEF MeasureSync, Flags, Dumped
    <2>2. Drivers' /\ TimerFollowsInterval' /\ TimerGone'
      BY <1>8 DEF MeasureSync, Drivers, TimerFollowsInterval, TimerGone
    <2>3. Places'
      BY <1>8, Unlocked
      DEF MeasureSync, NlRuns, Returns, Places, Calls, Drivers, DrvStates,
          NlStates
    <2>4. Waited'
      BY <1>8, Unlocked DEF MeasureSync, NlRuns, Returns, Waited
    <2>5. Readers' /\ Calls'
      BY <1>8, Unlocked
      DEF MeasureSync, NlRuns, Returns, Places, Waited, Readers, Calls
    <2>6. Targets'
      BY <1>8, Unlocked
      DEF MeasureSync, NlRuns, Returns, Places, Flags, Waited, Drivers,
          Readers, Targets, Calls
    <2>7. Frames'
      BY <1>8, Unlocked
      DEF MeasureSync, NlRuns, Returns, Places, Flags, Waited, Drivers,
          Readers, Frames, Targets, Calls, FiltersAccounted
    <2>8. FiltersAccounted'
      BY <1>8, Unlocked
      DEF MeasureSync, NlRuns, Returns, Places, Flags, Drivers, Calls, Targets,
          Readers, FiltersAccounted
    <2> QED BY <2>1, <2>2, <2>3, <2>4, <2>5, <2>6, <2>7, <2>8
  <1> QED BY <1>1, <1>2, <1>3, <1>4, <1>5, <1>6, <1>7, <1>8

(* However the interval was dealt with, the request unlocks, and waits to  *)
(* free a filter it has taken out.                                         *)
LEMMA ConfigReturns ==
  ASSUME IInv, NlRuns("interval"), ConfigDone
  PROVE  /\ Places' /\ Dumped' /\ Waited' /\ Drivers' /\ Readers'
         /\ Calls' /\ Targets' /\ Frames' /\ FiltersAccounted'
  <1> USE WprobeConstants
          DEF IInv, InRcu, Protected, driver, NlRuns, ConfigDone, WprobeConstants
  <1>1. CASE held = None
    <2> USE <1>1, Unlocked DEF Returns
    <2>1. Places' /\ Dumped' /\ Waited'
      BY DEF Places, NlStates, Dumped, Waited
    <2>2. Drivers' /\ Readers' /\ Calls'
      BY DEF Drivers, Readers, Calls, Places, Waited
    <2>3. Targets'
      BY DEF Targets, Places
    <2>4. Frames' /\ FiltersAccounted'
      BY DEF Frames, FiltersAccounted, Places, Flags, Calls, Drivers, Readers
    <2> QED BY <2>1, <2>2, <2>3, <2>4
  <1>2. CASE held # None
    <2> USE <1>2, Unlocked
    <2>1. Places' /\ Dumped' /\ Waited'
      BY DEF Places, NlStates, Dumped, Waited
    <2>2. Drivers' /\ Readers' /\ Calls'
      BY DEF Drivers, Readers, Calls, Places, Waited
    <2>3. target = None
      BY DEF Calls
    <2>4. Targets'
      BY <2>3 DEF Targets, Places
    <2>5. Frames' /\ FiltersAccounted'
      BY DEF Frames, FiltersAccounted, Places, Flags, Calls, Drivers, Readers
    <2> QED BY <2>1, <2>2, <2>4, <2>5
  <1> QED BY <1>1, <1>2

(* Configuration.                                                          *)
LEMMA ConfigStep ==
  ASSUME IInv, 
         \/ ConfigLock \/ ConfigRefuse \/ ConfigKeepFilter
         \/ \E f \in Filters \union {None} : ConfigFilter(f)
         \/ ConfigKeepInterval \/ ConfigStop \/ ConfigMeasure \/ ConfigFree
  PROVE  IInv'
  <1> USE WprobeConstants
          DEF IInv, InRcu, Protected, driver, values, netlink, rcu, WprobeConstants
  <1>1. CASE ConfigLock
    <2>1. Flags' /\ Dumped' /\ Waited'
      BY <1>1 DEF ConfigLock, Flags, Dumped, Waited
    <2>2. Drivers' /\ TimerFollowsInterval' /\ TimerGone'
      BY <1>1 DEF ConfigLock, Drivers, TimerFollowsInterval, TimerGone
    <2>3. Places'
      BY <1>1
      DEF ConfigLock, NlRuns, Places, Calls, Drivers, DrvStates, NlStates
    <2>4. Readers' /\ Calls'
      BY <1>1 DEF ConfigLock, NlRuns, Places, Waited, Readers, Calls
    <2>5. Targets'
      BY <1>1
      DEF ConfigLock, NlRuns, Places, Flags, Waited, Drivers, Readers, Targets,
          Calls
    <2>6. Frames'
      BY <1>1
      DEF ConfigLock, NlRuns, Places, Flags, Waited, Drivers, Readers, Frames,
          Targets, Calls, FiltersAccounted
    <2>7. FiltersAccounted'
      BY <1>1
      DEF ConfigLock, NlRuns, Places, Flags, Drivers, Calls, Targets, Readers,
          FiltersAccounted
    <2> QED BY <2>1, <2>2, <2>3, <2>4, <2>5, <2>6, <2>7
  <1>2. CASE ConfigRefuse
    <2>1. Flags' /\ Dumped'
      BY <1>2 DEF ConfigRefuse, Flags, Dumped
    <2>2. Drivers' /\ TimerFollowsInterval' /\ TimerGone'
      BY <1>2 DEF ConfigRefuse, Drivers, TimerFollowsInterval, TimerGone
    <2>3. Places'
      BY <1>2, Unlocked
      DEF ConfigRefuse, NlRuns, Returns, Places, Calls, Drivers, DrvStates,
          NlStates
    <2>4. Waited'
      BY <1>2, Unlocked DEF ConfigRefuse, NlRuns, Returns, Waited
    <2>5. Readers' /\ Calls'
      BY <1>2, Unlocked
      DEF ConfigRefuse, NlRuns, Returns, Places, Waited, Readers, Calls
    <2>6. Targets'
      BY <1>2, Unlocked
      DEF ConfigRefuse, NlRuns, Returns, Places, Flags, Waited, Drivers,
          Readers, Targets, Calls
    <2>7. Frames'
      BY <1>2, Unlocked
      DEF ConfigRefuse, NlRuns, Returns, Places, Flags, Waited, Drivers,
          Readers, Frames, Targets, Calls, FiltersAccounted
    <2>8. FiltersAccounted'
      BY <1>2, Unlocked
      DEF ConfigRefuse, NlRuns, Returns, Places, Flags, Drivers, Calls,
          Targets, Readers, FiltersAccounted
    <2> QED BY <2>1, <2>2, <2>3, <2>4, <2>5, <2>6, <2>7, <2>8
  <1>3. CASE ConfigKeepFilter
    <2>1. Flags' /\ Dumped' /\ Waited'
      BY <1>3 DEF ConfigKeepFilter, Flags, Dumped, Waited
    <2>2. Drivers' /\ TimerFollowsInterval' /\ TimerGone'
      BY <1>3 DEF ConfigKeepFilter, Drivers, TimerFollowsInterval, TimerGone
    <2>3. Places'
      BY <1>3
      DEF ConfigKeepFilter, NlRuns, Places, Calls, Drivers, DrvStates, NlStates
    <2>4. Readers' /\ Calls'
      BY <1>3 DEF ConfigKeepFilter, NlRuns, Places, Waited, Readers, Calls
    <2>5. Targets'
      BY <1>3
      DEF ConfigKeepFilter, NlRuns, Places, Flags, Waited, Drivers, Readers,
          Targets, Calls
    <2>6. Frames'
      BY <1>3
      DEF ConfigKeepFilter, NlRuns, Places, Flags, Waited, Drivers, Readers,
          Frames, Targets, Calls, FiltersAccounted
    <2>7. FiltersAccounted'
      BY <1>3
      DEF ConfigKeepFilter, NlRuns, Places, Flags, Drivers, Calls, Targets,
          Readers, FiltersAccounted
    <2> QED BY <2>1, <2>2, <2>3, <2>4, <2>5, <2>6, <2>7
  <1>4. ASSUME NEW f \in Filters \union {None}, ConfigFilter(f) PROVE IInv'
    <2>1. Flags' /\ Dumped' /\ Waited'
      BY <1>4 DEF ConfigFilter, Flags, Dumped, Waited
    <2>2. Drivers' /\ TimerFollowsInterval' /\ TimerGone'
      BY <1>4 DEF ConfigFilter, Drivers, TimerFollowsInterval, TimerGone
    <2>3. Places'
      BY <1>4
      DEF ConfigFilter, NlRuns, SetFilter, Places, Calls, Drivers, DrvStates,
          NlStates
    <2>4. Readers' /\ Calls'
      BY <1>4
      DEF ConfigFilter, NlRuns, SetFilter, Places, Waited, Readers, Calls
    <2>5. Targets'
      BY <1>4
      DEF ConfigFilter, NlRuns, SetFilter, Places, Flags, Waited, Drivers,
          Readers, Targets, Calls
    <2>6. Frames'
      BY <1>4
      DEF ConfigFilter, NlRuns, SetFilter, Places, Flags, Waited, Drivers,
          Readers, Frames, Targets, Calls, FiltersAccounted
    <2>7. FiltersAccounted'
      BY <1>4
      DEF ConfigFilter, NlRuns, SetFilter, Places, Flags, Drivers, Calls,
          Targets, Readers, FiltersAccounted
    <2> QED BY <2>1, <2>2, <2>3, <2>4, <2>5, <2>6, <2>7
  <1>5. CASE ConfigKeepInterval
    <2>1. /\ Places' /\ Dumped' /\ Waited' /\ Drivers' /\ Readers'
          /\ Calls' /\ Targets' /\ Frames' /\ FiltersAccounted'
      BY <1>5, ConfigReturns DEF ConfigKeepInterval
    <2>2. Flags'
      BY <1>5 DEF ConfigKeepInterval, ConfigDone, Flags
    <2>3. TimerFollowsInterval' /\ TimerGone'
      BY <1>5
      DEF ConfigKeepInterval, ConfigDone, TimerFollowsInterval, TimerGone
    <2> QED BY <2>1, <2>2, <2>3
  <1>6. CASE ConfigStop
    <2>1. /\ Places' /\ Dumped' /\ Waited' /\ Drivers' /\ Readers'
          /\ Calls' /\ Targets' /\ Frames' /\ FiltersAccounted'
      BY <1>6, ConfigReturns DEF ConfigStop
    <2>2. Flags'
      BY <1>6 DEF ConfigStop, NlRuns, ConfigDone, Flags
    <2>3. TimerFollowsInterval' /\ TimerGone'
      BY <1>6
      DEF ConfigStop, NlRuns, ConfigDone, Places, Flags, Drivers,
          TimerFollowsInterval, Targets, TimerGone
    <2> QED BY <2>1, <2>2, <2>3
  <1>7. CASE ConfigMeasure
    <2>1. /\ Places' /\ Dumped' /\ Waited' /\ Drivers' /\ Readers'
          /\ Calls' /\ Targets' /\ Frames' /\ FiltersAccounted'
      BY <1>7, ConfigReturns DEF ConfigMeasure
    <2>2. Flags'
      BY <1>7 DEF ConfigMeasure, NlRuns, ConfigDone, Flags
    <2>3. TimerFollowsInterval' /\ TimerGone'
      BY <1>7
      DEF ConfigMeasure, NlRuns, ConfigDone, Places, Flags, Drivers,
          TimerFollowsInterval, Targets, TimerGone
    <2> QED BY <2>1, <2>2, <2>3
  <1>8. CASE ConfigFree
    <2>1. Flags' /\ Dumped' /\ Waited'
      BY <1>8 DEF ConfigFree, Flags, Dumped, Waited
    <2>2. Drivers' /\ TimerFollowsInterval' /\ TimerGone'
      BY <1>8 DEF ConfigFree, Drivers, TimerFollowsInterval, TimerGone
    <2>3. Places'
      BY <1>8
      DEF ConfigFree, NlRuns, Returns, GraceOver, FreeFilter, Places, Calls,
          Drivers, DrvStates, NlStates
    <2>4. Readers' /\ Calls'
      BY <1>8
      DEF ConfigFree, NlRuns, Returns, GraceOver, FreeFilter, Places, Waited,
          Readers, Calls
    <2>5. Targets'
      BY <1>8
      DEF ConfigFree, NlRuns, Returns, GraceOver, FreeFilter, Places, Flags,
          Waited, Drivers, Readers, Targets, Calls
    <2>6. Frames'
      BY <1>8
      DEF ConfigFree, NlRuns, Returns, GraceOver, FreeFilter, Places, Flags,
          Waited, Drivers, Readers, Frames, Targets, Calls, FiltersAccounted
    <2>7. FiltersAccounted'
      BY <1>8
      DEF ConfigFree, NlRuns, Returns, GraceOver, FreeFilter, Places, Flags,
          Drivers, Calls, Targets, Readers, FiltersAccounted
    <2> QED BY <2>1, <2>2, <2>3, <2>4, <2>5, <2>6, <2>7
  <1> QED BY <1>1, <1>2, <1>3, <1>4, <1>5, <1>6, <1>7, <1>8

-----------------------------------------------------------------------------
(* The invariant and what follows from it.                                 *)

LEMMA TypeParts == TypeOK <=> Places /\ Flags /\ Dumped /\ Waited
  BY DEF TypeOK, Places, Flags, Dumped, Waited

LEMMA Initially == Init => IInv
  <1> SUFFICES ASSUME Init PROVE IInv
    OBVIOUS
  <1> USE WprobeConstants DEF Init, WprobeConstants
  <1>1. Places /\ Flags /\ Waited
    BY DEF Places, Flags, Waited, DrvStates, NlStates
  <1>2. Dumped
    BY DEF Dumped, Dump, Closed
  <1>3. Drivers /\ Readers /\ Calls
    BY DEF Drivers, Readers, Calls, InRcu, Protected
  <1>4. Targets /\ Frames /\ FiltersAccounted
    BY DEF Targets, Frames, FiltersAccounted, Protected
  <1>5. TimerFollowsInterval /\ TimerGone
    BY DEF TimerFollowsInterval, TimerGone
  <1> QED BY <1>1, <1>2, <1>3, <1>4, <1>5 DEF IInv

LEMMA Stuttering == IInv /\ UNCHANGED vars => IInv'
  <1> SUFFICES ASSUME IInv, UNCHANGED vars PROVE IInv'
    OBVIOUS
  <1> USE DEF IInv, vars, driver, values, netlink, rcu
  <1>1. Places' /\ Flags' /\ Dumped' /\ Waited'
    BY DEF Places, Flags, Dumped, Waited
  <1>2. Drivers' /\ Readers' /\ Calls' /\ Targets' /\ Frames'
    BY DEF Drivers, Readers, Calls, Targets, Frames
  <1>3. FiltersAccounted' /\ TimerFollowsInterval' /\ TimerGone'
    BY DEF FiltersAccounted, TimerFollowsInterval, TimerGone
  <1> QED BY <1>1, <1>2, <1>3

LEMMA Invariant == Spec => []IInv
  <1>1. IInv /\ [Next]_vars => IInv'
    BY DriverStep, TimerStep, RequestStep, DumpStep, ConfigStep, Stuttering
       DEF Next, RequestSteps
  <1> QED BY <1>1, Initially, PTL DEF Spec

(* Types.                                                                  *)
THEOREM TypeCorrect == Spec => []TypeOK
  <1>1. IInv => TypeOK
    BY TypeParts DEF IInv
  <1> QED BY <1>1, Invariant, PTL

(* The timer runs when, and only when, an interval is set.                 *)
THEOREM TimerAlwaysFollows == Spec => []TimerFollowsInterval
  <1>1. IInv => TimerFollowsInterval
    BY DEF IInv
  <1> QED BY <1>1, Invariant, PTL

(* The timer does not outlive its interface, unless it was started again.  *)
THEOREM TimerAlwaysGoneFirst == Spec => []TimerGoneFirst
  <1>1. IInv => TimerGoneFirst
    BY DEF IInv, Flags, Drivers, TimerGone, TimerGoneFirst
  <1> QED BY <1>1, Invariant, PTL

(* No filter is lost or freed twice.                                       *)
THEOREM FiltersAlwaysAccounted == Spec => []FiltersAccounted
  <1>1. IInv => FiltersAccounted
    BY DEF IInv
  <1> QED BY <1>1, Invariant, PTL

-----------------------------------------------------------------------------
(* The refinement: links.                                                  *)

LEMMA LinksUntouched ==
  ASSUME UNCHANGED <<links, linkMem, target>>
  PROVE  UNCHANGED LinkList!vars
  BY DEF LinkList!vars

(* A request finds a link, or none, where it had none; or lets go of it.   *)
LEMMA LinkFound ==
  ASSUME target = None, target' \in links \union {None}, UNCHANGED <<links, linkMem>>
  PROVE  [LinkList!Next]_(LinkList!vars)
  <1>1. CASE target' = None
    BY <1>1 DEF LinkList!vars
  <1>2. CASE target' \in links
    <2>1. LinkList!Find("nl")
      BY <1>2 DEF LinkList!Find
    <2> QED BY <2>1 DEF LinkList!Next
  <1> QED BY <1>1, <1>2

LEMMA LinkLetGo ==
  ASSUME target' = None, UNCHANGED <<links, linkMem>>
  PROVE  [LinkList!Next]_(LinkList!vars)
  <1>1. LinkList!LetGo("nl")
    BY DEF LinkList!LetGo
  <1> QED BY <1>1 DEF LinkList!Next

LEMMA DriverLinks ==
  ASSUME IInv,
         \/ AddIface \/ RemoveIface \/ DriverSteps
         \/ \E l \in Links : AddLink(l) \/ UnlistLink(l)
  PROVE  [LinkList!Next]_(LinkList!vars)
  <1> USE DEF IInv, Drivers
  <1>1. ASSUME NEW l \in Links, AddLink(l) PROVE LinkList!Update
    BY <1>1 DEF AddLink, LinkList!Update, netlink
  <1>2. ASSUME NEW l \in Links, UnlistLink(l) PROVE LinkList!Update
    BY <1>2 DEF UnlistLink, LinkList!Update, netlink
  <1>3. CASE FreeLink
    <2>1. target # leaving
      BY <1>3, WprobeConstants
      DEF FreeLink, GraceOver, Targets, Places, WprobeConstants
    <2>2. LinkList!Free
      BY <1>3, <2>1 DEF FreeLink, LinkList!Free, netlink
    <2> QED BY <2>2 DEF LinkList!Next
  <1>4. ASSUME AddIface \/ RemoveIface \/ StopTimer \/ UnlistIface \/ FreeIface
        PROVE  UNCHANGED <<links, linkMem, target>>
    BY <1>4 DEF AddIface, RemoveIface, StopTimer, UnlistIface, FreeIface, netlink
  <1> QED BY <1>1, <1>2, <1>3, <1>4, LinksUntouched DEF DriverSteps, LinkList!Next

LEMMA OtherLinks ==
  ASSUME IInv, Fire \/ TimerSync \/ RxEnter \/ RxCount \/ Requests \/ RequestSteps
  PROVE  [LinkList!Next]_(LinkList!vars)
  <1> USE DEF IInv, driver, netlink, NlRuns
  <1>1. ASSUME \/ Fire \/ TimerSync \/ RxEnter \/ RxCount
               \/ InfoLock \/ InfoSync \/ FiltersEnter
               \/ ConfigStart \/ ConfigLock \/ ConfigKeepFilter
               \/ \E f \in Filters \union {None} : ConfigFilter(f)
               \/ \E d \in Dumps, cmd \in {"links", "filters"} : Lookup(d, cmd)
        PROVE  [LinkList!Next]_(LinkList!vars)
    BY <1>1, LinksUntouched
    DEF Fire, TimerSync, RxEnter, RxCount, InfoLock, InfoSync, FiltersEnter,
        ConfigStart, ConfigLock, ConfigKeepFilter, ConfigFilter, Lookup
  <1>2. ASSUME \/ \E l \in Links \union {None} : MeasureStart(l)
               \/ \E d \in Dumps, cmd \in {"info", "list"}, l \in Links \union {None} :
                    InfoStart(d, cmd, l)
               \/ LinksEnter
        PROVE  [LinkList!Next]_(LinkList!vars)
    <2>1. target = None
      BY <1>2 DEF MeasureStart, InfoStart, LinksEnter, Calls
    <2>2. target' \in links \union {None} /\ UNCHANGED <<links, linkMem>>
      BY <1>2 DEF MeasureStart, InfoStart, LinksEnter
    <2> QED BY <2>1, <2>2, LinkFound
  <1>3. ASSUME NEW d \in Dumps, InfoAgain(d)
        PROVE  [LinkList!Next]_(LinkList!vars)
    <2>1. target = None /\ UNCHANGED <<links, linkMem>>
      BY <1>3 DEF InfoAgain, Calls
    <2>2. target' \in links \union {None}
      BY <1>3, <2>1 DEF InfoAgain
    <2> QED BY <2>1, <2>2, LinkFound
  <1>4. ASSUME Send \/ LinksSend \/ FiltersSend \/ MeasureSync \/ ConfigRefuse \/ ConfigFree
        PROVE  [LinkList!Next]_(LinkList!vars)
    BY <1>4, LinkLetGo
    DEF Send, LinksSend, FiltersSend, MeasureSync, ConfigRefuse, ConfigFree, Returns
  <1>5. ASSUME ConfigKeepInterval \/ ConfigStop \/ ConfigMeasure
        PROVE  [LinkList!Next]_(LinkList!vars)
    <2>1. ConfigDone
      BY <1>5 DEF ConfigKeepInterval, ConfigStop, ConfigMeasure
    <2> QED BY <2>1, LinksUntouched, LinkLetGo DEF ConfigDone, Returns
  <1> QED BY <1>1, <1>2, <1>3, <1>4, <1>5 DEF Requests, RequestSteps

-----------------------------------------------------------------------------
(* The refinement: the active filter. It is found by frames only.          *)

LEMMA FiltersUntouched ==
  ASSUME UNCHANGED <<listed, filter, filterMem, rx>>
  PROVE  UNCHANGED ActiveFilter!vars
  BY DEF ActiveFilter!vars

(* Steps that make, publish or take back a filter.                         *)
LEMMA FilterUpdated ==
  ASSUME IInv,
         \/ AddIface \/ UnlistIface
         \/ \E f \in Filters \union {None} : ConfigFilter(f)
  PROVE  ActiveFilter!Update
  <1> USE DEF IInv, netlink, driver, rcu
  <1>1. CASE AddIface
    <2>1. ~listed /\ listed' /\ filter' = None /\ UNCHANGED <<filterMem, rx>>
      BY <1>1 DEF AddIface, Drivers
    <2> QED BY <2>1 DEF ActiveFilter!Update
  <1>2. CASE UnlistIface
    <2>1. ~listed' /\ UNCHANGED <<filter, filterMem, rx>>
      BY <1>2 DEF UnlistIface
    <2> QED BY <2>1 DEF ActiveFilter!Update
  <1>3. ASSUME NEW f \in Filters \union {None}, ConfigFilter(f)
        PROVE  ActiveFilter!Update
    <2>1. /\ filter' = f /\ f \in (Filters \ filterMem) \union {None}
          /\ filterMem' = filterMem \union ({f} \ {None})
          /\ UNCHANGED <<listed, rx>>
      BY <1>3 DEF ConfigFilter, SetFilter
    <2> QED BY <2>1 DEF ActiveFilter!Update
  <1> QED BY <1>1, <1>2, <1>3

(* Whoever frees a filter has taken it back, and no frame is counted by it.*)
LEMMA FilterFreed ==
  ASSUME IInv, FreeIface \/ ConfigFree
  PROVE  ActiveFilter!Free
  <1> USE WprobeConstants DEF IInv, netlink, driver, rcu, FreeFilter, GraceOver, WprobeConstants
  <1>1. CASE FreeIface
    <2>1. drv = "grace" /\ ~listed /\ alive
      BY <1>1 DEF FreeIface, Drivers, Flags
    <2>2. filterMem' = filterMem \ {filter} /\ UNCHANGED <<listed, filter, rx>>
      BY <1>1 DEF FreeIface
    <2>3. rx = None
      BY <1>1, <2>1 DEF FreeIface, Frames
    <2> QED BY <2>1, <2>2, <2>3 DEF ActiveFilter!Free, Places
  <1>2. CASE ConfigFree
    <2>1. nl = "free" /\ held # None
      BY <1>2 DEF ConfigFree, NlRuns, Calls
    <2>2. filterMem' = filterMem \ {held} /\ UNCHANGED <<listed, filter, rx>>
      BY <1>2 DEF ConfigFree
    <2>3. listed => held # filter
      BY <2>1 DEF Drivers, Flags, FiltersAccounted
    <2>4. rx # held
      BY <1>2, <2>1, <2>3 DEF ConfigFree, Frames, Drivers, FiltersAccounted, Flags
    <2> QED BY <2>2, <2>3, <2>4 DEF ActiveFilter!Free
  <1> QED BY <1>1, <1>2

LEMMA FilterStep ==
  ASSUME IInv, [Next]_vars
  PROVE  [ActiveFilter!Next]_(ActiveFilter!vars)
  <1> USE DEF driver, values, netlink, rcu
  <1>1. CASE RxEnter
    <2>1. rx = None /\ rx' = filter /\ listed /\ filter # None
          /\ UNCHANGED <<listed, filter, filterMem>>
      BY <1>1 DEF RxEnter
    <2>2. ActiveFilter!Find("rx")
      BY <2>1 DEF ActiveFilter!Find
    <2> QED BY <2>2 DEF ActiveFilter!Next
  <1>2. CASE RxCount
    <2>1. rx' = None /\ UNCHANGED <<listed, filter, filterMem>>
      BY <1>2 DEF RxCount
    <2>2. ActiveFilter!LetGo("rx")
      BY <2>1 DEF ActiveFilter!LetGo
    <2> QED BY <2>2 DEF ActiveFilter!Next
  <1>3. ASSUME \/ RemoveIface \/ FreeLink \/ StopTimer
               \/ \E l \in Links : AddLink(l) \/ UnlistLink(l)
               \/ Fire \/ TimerSync
        PROVE  UNCHANGED <<listed, filter, filterMem, rx>>
    BY <1>3 DEF RemoveIface, FreeLink, StopTimer, AddLink, UnlistLink, Fire, TimerSync
  <1>4. ASSUME Requests PROVE UNCHANGED <<listed, filter, filterMem, rx>>
    BY <1>4 DEF Requests, InfoStart, InfoAgain, Lookup, MeasureStart, ConfigStart
  <1>5. ASSUME \/ InfoLock \/ InfoSync \/ Send
               \/ LinksEnter \/ LinksSend \/ FiltersEnter \/ FiltersSend
               \/ MeasureSync \/ ConfigLock \/ ConfigRefuse \/ ConfigKeepFilter
               \/ ConfigKeepInterval \/ ConfigStop \/ ConfigMeasure
        PROVE  UNCHANGED <<listed, filter, filterMem, rx>>
    BY <1>5 DEF InfoLock, InfoSync, Send, LinksEnter, LinksSend, FiltersEnter,
         FiltersSend, MeasureSync, ConfigLock, ConfigRefuse, ConfigKeepFilter,
         ConfigKeepInterval, ConfigStop, ConfigMeasure, ConfigDone
  <1>6. CASE UNCHANGED vars
    BY <1>6, FiltersUntouched DEF vars
  <1> QED BY <1>1, <1>2, <1>3, <1>4, <1>5, <1>6, FiltersUntouched, FilterUpdated, FilterFreed
          DEF Next, DriverSteps, RequestSteps, ActiveFilter!Next

-----------------------------------------------------------------------------
(* The refinement: the interface, found by requests and by frames.         *)

LEMMA InterfaceUntouched ==
  ASSUME UNCHANGED <<listed, alive>>, (nl \in Protected)' <=> nl \in Protected,
         (rx # None)' <=> rx # None
  PROVE  UNCHANGED Interface!vars
  BY DEF Interface!vars

LEMMA InterfaceChanged ==
  ASSUME IInv, AddIface \/ UnlistIface \/ FreeIface
  PROVE  Interface!Update \/ Interface!Free
  <1> USE DEF IInv, netlink, driver, rcu
  <1>1. CASE AddIface
    BY <1>1 DEF AddIface, Drivers, Flags, Interface!Update
  <1>2. CASE UnlistIface
    BY <1>2 DEF UnlistIface, Interface!Update
  <1>3. CASE FreeIface
    <2>1. ~listed /\ nl \notin Protected
      BY <1>3 DEF FreeIface, GraceOver, Drivers, Flags, Targets
    <2>2. rx = None
      BY <1>3, <2>1 DEF FreeIface, GraceOver, Frames, Drivers, Readers
    <2>3. ~alive' /\ UNCHANGED <<listed, nl, rx>>
      BY <1>3 DEF FreeIface
    <2> QED BY <2>1, <2>2, <2>3 DEF Interface!Free
  <1> QED BY <1>1, <1>2, <1>3

(* A request that enters finds the interface on its list.                  *)
LEMMA InterfaceFound ==
  ASSUME IInv, listed, nl \notin Protected, nl' \in Protected,
         UNCHANGED <<listed, alive, rx>>
  PROVE  [Interface!Next]_(Interface!vars)
  <1>1. Interface!Find("nl")
    BY DEF Interface!Find
  <1> QED BY <1>1 DEF Interface!Next

LEMMA InterfaceLetGo ==
  ASSUME nl' \notin Protected, UNCHANGED <<listed, alive, rx>>
  PROVE  [Interface!Next]_(Interface!vars)
  <1>1. Interface!LetGo("nl")
    BY DEF Interface!LetGo, Protected
  <1> QED BY <1>1 DEF Interface!Next

LEMMA FrameInterface ==
  ASSUME IInv, RxEnter \/ RxCount
  PROVE  [Interface!Next]_(Interface!vars)
  <1>1. CASE RxEnter
    <2>1. /\ rx = None /\ rx' # None /\ listed
          /\ UNCHANGED <<listed, alive>> /\ nl' = nl
      BY <1>1 DEF RxEnter, driver, netlink
    <2>2. Interface!Find("rx")
      BY <2>1 DEF Interface!Find, Protected
    <2> QED BY <2>2 DEF Interface!Next
  <1>2. CASE RxCount
    <2>1. rx' = None /\ UNCHANGED <<listed, alive>> /\ nl' = nl
      BY <1>2 DEF RxCount, driver, netlink
    <2>2. Interface!LetGo("rx")
      BY <2>1 DEF Interface!LetGo, Protected
    <2> QED BY <2>2 DEF Interface!Next
  <1> QED BY <1>1, <1>2

LEMMA RequestInterface ==
  ASSUME IInv, Requests \/ RequestSteps
  PROVE  [Interface!Next]_(Interface!vars)
  <1> USE DEF driver, netlink, NlRuns
  <1>1. UNCHANGED <<listed, alive, rx>>
    BY DEF Requests, InfoStart, InfoAgain, Lookup, MeasureStart, ConfigStart,
           RequestSteps, InfoLock, InfoSync, Send, LinksEnter, LinksSend,
           FiltersEnter, FiltersSend, MeasureSync, ConfigLock, ConfigRefuse,
           ConfigKeepFilter, ConfigFilter, ConfigKeepInterval, ConfigStop,
           ConfigMeasure, ConfigDone, ConfigFree
  <1>2. nl \in Protected \/ listed \/ nl' \notin Protected
    BY DEF Requests, InfoStart, InfoAgain, Lookup, MeasureStart, ConfigStart,
           RequestSteps, InfoLock, InfoSync, Send, LinksEnter, LinksSend,
           FiltersEnter, FiltersSend, MeasureSync, ConfigLock, ConfigRefuse,
           ConfigKeepFilter, ConfigFilter, ConfigKeepInterval, ConfigStop,
           ConfigMeasure, ConfigFree, Returns, Protected
  <1>3. CASE nl \in Protected /\ nl' \in Protected
    BY <1>1, <1>3, InterfaceUntouched
  <1>4. CASE nl \notin Protected /\ nl' \in Protected
    BY <1>1, <1>2, <1>4, InterfaceFound
  <1>5. CASE nl' \notin Protected
    BY <1>1, <1>5, InterfaceLetGo
  <1> QED BY <1>3, <1>4, <1>5

LEMMA InterfaceStep ==
  ASSUME IInv, [Next]_vars
  PROVE  [Interface!Next]_(Interface!vars)
  <1> USE DEF driver, values, netlink, rcu
  <1>1. ASSUME \/ RemoveIface \/ FreeLink \/ StopTimer
               \/ \E l \in Links : AddLink(l) \/ UnlistLink(l)
               \/ Fire \/ TimerSync \/ UNCHANGED vars
        PROVE  UNCHANGED <<listed, alive, nl, rx>>
    BY <1>1 DEF RemoveIface, FreeLink, StopTimer, AddLink, UnlistLink, Fire,
         TimerSync, vars
  <1>2. UNCHANGED <<listed, alive, nl, rx>> => UNCHANGED Interface!vars
    BY InterfaceUntouched DEF Protected
  <1>3. AddIface \/ UnlistIface \/ FreeIface => [Interface!Next]_(Interface!vars)
    BY InterfaceChanged DEF Interface!Next
  <1> QED BY <1>1, <1>2, <1>3, FrameInterface, RequestInterface
          DEF Next, DriverSteps

(* Interface, links and filters are handled as read-copy-update demands,   *)
(* on one processor and on several (ImplementsRcu).                        *)
THEOREM WprobeImplementsRcu == Spec => ImplementsRcu
  <1>1. Init => Interface!Init /\ LinkList!Init /\ ActiveFilter!Init
    BY DEF Init, Interface!Init, LinkList!Init, ActiveFilter!Init, Protected
  <1>2. ASSUME IInv, [Next]_vars
        PROVE  [LinkList!Next]_(LinkList!vars)
    BY <1>2, DriverLinks, OtherLinks, LinksUntouched DEF Next, vars, driver, netlink
  <1>3. IInv /\ [Next]_vars => [Interface!Next]_(Interface!vars)
    BY InterfaceStep
  <1>4. IInv /\ [Next]_vars => [LinkList!Next]_(LinkList!vars)
    BY <1>2
  <1>5. IInv /\ [Next]_vars => [ActiveFilter!Next]_(ActiveFilter!vars)
    BY FilterStep
  <1> QED BY <1>1, <1>3, <1>4, <1>5, Invariant, PTL
          DEF Spec, ImplementsRcu, Interface!Spec, LinkList!Spec, ActiveFilter!Spec
=============================================================================
