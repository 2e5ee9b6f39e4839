------------------------------- MODULE Wprobe -------------------------------
(***************************************************************************)
(* The measurement core of wireless drivers (package/wprobe/src/kernel/    *)
(* wprobe-core.c): one interface, its links and its filter, used by        *)
(*   "drv"    the driver that registers and removes them,                  *)
(*   "nl"     the netlink requests, one at a time (genl_mutex, external);  *)
(*            a dump needs several calls, between which others are served, *)
(*   "timer"  the measurement timer, and                                   *)
(*   "rx"     the frames counted by the filter.                            *)
(* Memory is kept by RCU, values by dev->lock, the timer by                *)
(* del_timer_sync. With SMP = FALSE there is one preemptible processor     *)
(* (target/linux/s5pc1xx/webee210): a spinlock only turns off interrupts,  *)
(* and timers and frames run to their end. Measured values are left out.   *)
(***************************************************************************)
EXTENDS Integers, FiniteSets

CONSTANTS
  SMP,       \* several processors?
  Links,     \* the links a driver may add
  Filters,   \* addresses of filters
  Dumps,     \* netlink sockets that may have a dump open
  MaxItems,  \* items of an interface, links and groups of a dump
  None

ASSUME WprobeConstants ==
  /\ SMP \in BOOLEAN
  /\ IsFiniteSet(Links)
  /\ MaxItems \in Nat \ {0}
  /\ None \notin Links \union Filters \union Dumps

VARIABLES
  drv,       \* where the driver is, see DrvStates
  leaving,   \* the link it removes
  listed,    \* is the interface in wprobe_if?
  alive,     \* are the interface and its buffers val and query_val there?
  links,     \* dev->links
  linkMem,   \* links whose val is there
  filter,    \* dev->active_filter
  filterMem, \* filters that are allocated
  interval,  \* is dev->measure_interval set?
  armed,     \* is dev->measure_timer pending?
  firing,    \* does wprobe_measure_timer run?
  lock,      \* who holds dev->lock
  nl,        \* where the netlink request is, see NlStates
  call,      \* the dump this call of its callback is for
  target,    \* the link it looks at
  held,      \* the filter it has read from dev or has taken out of it
  dumps,     \* the callback arguments of each dump
  rx,        \* the filter a frame is counted by
  readers,   \* who is between rcu_read_lock and rcu_read_unlock
  waits,     \* the readers each synchronize_rcu still waits for
  late       \* history: was the timer started after it had been deleted?

driver == <<drv, leaving, listed, alive, links, linkMem>>
values == <<interval, armed, firing, lock>>
netlink == <<nl, call, target, held, dumps>>
rcu == <<readers, waits>>
vars == <<driver, filter, filterMem, values, netlink, rx, rcu, late>>

DrvStates == {"down", "up", "link", "stop", "unlist", "grace"}
NlStates == {"idle", "lock", "sync", "send", "links", "walk", "filters",
             "groups", "measure", "clock", "config", "interval", "free"}

Closed == [cmd |-> "none", link |-> None, i |-> 0]
Dump == [cmd : {"none", "info", "list", "links", "filters"},
         link : Links \union {None}, i : 0 .. MaxItems]

Init ==
  /\ drv = "down" /\ leaving = None /\ listed = FALSE /\ alive = FALSE
  /\ links = {} /\ linkMem = {}
  /\ filter = None /\ filterMem = {}
  /\ interval = FALSE /\ armed = FALSE /\ firing = FALSE /\ lock = None
  /\ nl = "idle" /\ call = None /\ target = None /\ held = None
  /\ dumps = [d \in Dumps |-> Closed]
  /\ rx = None
  /\ readers = {} /\ waits = [w \in {"drv", "nl"} |-> {}]
  /\ late = FALSE

-----------------------------------------------------------------------------
(* Processors, locks and grace periods.                                    *)

(* What keeps everybody else from the only processor: interrupts that are  *)
(* off, the timer's softirq, the one of a frame.                           *)
Excludes(a) == \/ a = "nl" /\ lock = "nl"
               \/ a = "timer" /\ firing
               \/ a = "rx" /\ rx # None

Runs(a) == SMP \/ \A b \in {"nl", "timer", "rx"} \ {a} : ~Excludes(b)

(* spin_lock_irqsave(&dev->lock): nothing to wait for on one processor.    *)
Lockable == SMP => lock = None

ReadLock(r) == readers' = readers \union {r} /\ UNCHANGED waits

(* rcu_read_unlock; then, for the waiter w in sync, synchronize_rcu.       *)
ReadUnlock(r, sync) ==
  /\ readers' = readers \ {r}
  /\ waits' = [w \in DOMAIN waits |->
                 IF w \in sync THEN readers \ {r} ELSE waits[w] \ {r}]

(* synchronize_rcu starts: it waits for the readers there are.             *)
Synchronize(w) == waits' = [waits EXCEPT ![w] = readers] /\ UNCHANGED readers

GraceOver(w) == waits[w] = {}

-----------------------------------------------------------------------------
(* The driver.                                                             *)

(* wprobe_add_iface. Where a timer was left behind in this memory nothing  *)
(* can be said of what happens.                                            *)
AddIface ==
  /\ Runs("drv") /\ drv = "down" /\ ~armed /\ ~firing
  /\ drv' = "up" /\ listed' = TRUE /\ alive' = TRUE
  /\ links' = {} /\ filter' = None /\ interval' = FALSE /\ lock' = None
  /\ late' = FALSE
  /\ UNCHANGED <<leaving, linkMem, filterMem, armed, firing, netlink, rx, rcu>>

AddLink(l) ==
  /\ Runs("drv") /\ drv = "up" /\ l \notin links
  /\ links' = links \union {l} /\ linkMem' = linkMem \union {l}
  /\ UNCHANGED <<drv, leaving, listed, alive, filter, filterMem, values,
                 netlink, rx, rcu, late>>

(* wprobe_remove_link: off the list, synchronize_rcu, kfree.               *)
UnlistLink(l) ==
  /\ Runs("drv") /\ drv = "up" /\ l \in links
  /\ links' = links \ {l} /\ leaving' = l /\ drv' = "link"
  /\ Synchronize("drv")
  /\ UNCHANGED <<listed, alive, linkMem, filter, filterMem, values, netlink,
                 rx, late>>

(* Mutant: the link is freed at once.                                      *)
FreeLinkAtOnce ==
  /\ Runs("drv") /\ drv = "link"
  /\ linkMem' = linkMem \ {leaving} /\ leaving' = None /\ drv' = "up"
  /\ UNCHANGED <<listed, alive, links, filter, filterMem, values, netlink, rx,
                 rcu, late>>

FreeLink ==
  /\ Runs("drv") /\ drv = "link" /\ GraceOver("drv")
  /\ linkMem' = linkMem \ {leaving} /\ leaving' = None /\ drv' = "up"
  /\ UNCHANGED <<listed, alive, links, filter, filterMem, values, netlink, rx,
                 rcu, late>>

(* wprobe_remove_iface: BUG_ON if there are links (the drivers remove them *)
(* first), del_timer_sync, off the list, synchronize_rcu, free.            *)
RemoveIface ==
  /\ Runs("drv") /\ drv = "up" /\ links = {}
  /\ drv' = "stop"
  /\ UNCHANGED <<leaving, listed, alive, links, linkMem, filter, filterMem,
                 values, netlink, rx, rcu, late>>

(* Mutant: the timer is left to itself.                                    *)
StopTimerNever ==
  /\ Runs("drv") /\ drv = "stop" /\ ~firing
  /\ drv' = "unlist"
  /\ UNCHANGED <<leaving, listed, alive, links, linkMem, filter, filterMem,
                 values, netlink, rx, rcu, late>>

StopTimer ==
  /\ Runs("drv") /\ drv = "stop" /\ ~firing
  /\ armed' = FALSE
  /\ drv' = "unlist"
  /\ UNCHANGED <<leaving, listed, alive, links, linkMem, filter, filterMem,
                 interval, firing, lock, netlink, rx, rcu, late>>

UnlistIface ==
  /\ Runs("drv") /\ drv = "unlist"
  /\ listed' = FALSE /\ drv' = "grace"
  /\ Synchronize("drv")
  /\ UNCHANGED <<leaving, alive, links, linkMem, filter, filterMem, values,
                 netlink, rx, late>>

(* wprobe_free_filter.                                                     *)
FreeFilter(f) == filterMem' = filterMem \ {f}

(* The buffers and the filter go, and the driver frees the rest when       *)
(* wprobe_remove_iface has returned. dev->active_filter keeps its value.   *)
FreeIface ==
  /\ Runs("drv") /\ drv = "grace" /\ GraceOver("drv")
  /\ alive' = FALSE /\ drv' = "down"
  /\ FreeFilter(filter)
  /\ UNCHANGED <<leaving, listed, links, linkMem, filter, values, netlink, rx,
                 rcu, late>>

-----------------------------------------------------------------------------
(* The timer: it sets itself again, then takes a measurement under the     *)
(* lock of the interface, without rcu_read_lock.                           *)

Fire ==
  /\ Runs("timer") /\ armed /\ ~firing
  /\ firing' = TRUE
  /\ UNCHANGED <<driver, filter, filterMem, interval, armed, lock, netlink, rx,
                 rcu, late>>

TimerSync ==
  /\ Runs("timer") /\ firing /\ Lockable
  /\ firing' = FALSE
  /\ UNCHANGED <<driver, filter, filterMem, interval, armed, lock, netlink, rx,
                 rcu, late>>

(* wprobe_add_frame: the driver has a frame for a registered interface.    *)
RxEnter ==
  /\ Runs("rx") /\ rx = None /\ listed /\ filter # None
  /\ rx' = filter
  /\ ReadLock("rx")
  /\ UNCHANGED <<driver, filter, filterMem, values, netlink, late>>

RxCount ==
  /\ Runs("rx") /\ rx # None
  /\ rx' = None
  /\ ReadUnlock("rx", {})
  /\ UNCHANGED <<driver, filter, filterMem, values, netlink, late>>

-----------------------------------------------------------------------------
(* wprobe_dump_info for GET_INFO and GET_LIST.                             *)

NlRuns(where) == Runs("nl") /\ nl = where

Becomes(d, cmd, l, i) == dumps' = [dumps EXCEPT ![d] = [cmd |-> cmd, link |-> l, i |-> i]]

(* The first call for a dump looks up the interface and perhaps a link.    *)
InfoStart(d, cmd, l) ==
  /\ NlRuns("idle") /\ dumps[d].cmd = "none"
  /\ listed /\ l \in links \union {None}
  /\ cmd = "list" => l = None
  /\ ReadLock("nl")
  /\ call' = d /\ target' = l
  /\ Becomes(d, cmd, l, 0)
  /\ nl' = IF cmd = "info" THEN "lock" ELSE "send"
  /\ UNCHANGED <<driver, filter, filterMem, values, held, rx, late>>

InfoLock ==
  /\ NlRuns("lock") /\ Lockable
  /\ lock' = "nl" /\ nl' = "sync"
  /\ UNCHANGED <<driver, filter, filterMem, interval, armed, firing, call, target,
                 held, dumps, rx, rcu, late>>

(* wprobe_sync_data takes the same lock again and fills query_val, which   *)
(* the caller does once more; 0 is returned whatever the driver has said.  *)
InfoSync ==
  /\ NlRuns("sync") /\ Lockable
  /\ lock' = None /\ nl' = "send"
  /\ UNCHANGED <<driver, filter, filterMem, interval, armed, firing, call, target,
                 held, dumps, rx, rcu, late>>

(* A call returns: an empty message ends the dump.                         *)
Returns == nl' = "idle" /\ call' = None /\ target' = None /\ held' = None

(* Mutant: an item past the last one is sent.                              *)
SendPast ==
  /\ NlRuns("send")
  /\ LET dump == dumps[call] IN
       IF dump.i > MaxItems
         THEN dumps' = [dumps EXCEPT ![call] = Closed]
         ELSE \E i \in dump.i + 1 .. MaxItems + 1 :
                Becomes(call, dump.cmd, dump.link, i)
  /\ ReadUnlock("nl", {})
  /\ Returns
  /\ UNCHANGED <<driver, filter, filterMem, values, rx, late>>

(* As many items as fit into a message, from query_val or the description. *)
Send ==
  /\ NlRuns("send")
  /\ LET dump == dumps[call] IN
       IF dump.i = MaxItems
         THEN dumps' = [dumps EXCEPT ![call] = Closed]
         ELSE \E i \in dump.i + 1 .. MaxItems :
                Becomes(call, dump.cmd, dump.link, i)
  /\ ReadUnlock("nl", {})
  /\ Returns
  /\ UNCHANGED <<driver, filter, filterMem, values, rx, late>>

(* Every further call checks that interface and link are on their lists.   *)
InfoAgain(d) ==
  /\ NlRuns("idle") /\ dumps[d].cmd \in {"info", "list"}
  /\ IF listed /\ dumps[d].link \in links \union {None}
       THEN /\ ReadLock("nl")
            /\ nl' = "send" /\ call' = d /\ target' = dumps[d].link
            /\ UNCHANGED <<held, dumps>>
       ELSE /\ dumps' = [dumps EXCEPT ![d] = Closed]
            /\ UNCHANGED <<nl, call, target, held, rcu>>
  /\ UNCHANGED <<driver, filter, filterMem, values, rx, late>>

-----------------------------------------------------------------------------
(* wprobe_dump_links and wprobe_dump_filters find or check the interface   *)
(* before rcu_read_lock.                                                   *)

Lookup(d, cmd) ==
  /\ NlRuns("idle") /\ dumps[d].cmd \in {"none", cmd}
  /\ IF listed
       THEN /\ nl' = cmd /\ call' = d
            /\ Becomes(d, cmd, None, dumps[d].i)
       ELSE /\ dumps' = [dumps EXCEPT ![d] = Closed]
            /\ UNCHANGED <<nl, call>>
  /\ UNCHANGED <<driver, filter, filterMem, values, target, held, rx, rcu, late>>

(* The walk along the links stops at one of them.                          *)
LinksEnter ==
  /\ NlRuns("links")
  /\ ReadLock("nl")
  /\ \E l \in links \union {None} : target' = l
  /\ nl' = "walk"
  /\ UNCHANGED <<driver, filter, filterMem, values, call, held, dumps, rx, late>>

(* The counter starts anew and is not advanced past the links that were    *)
(* sent: the second message of a dump is always empty, and ends it.        *)
LinksSend ==
  /\ NlRuns("walk")
  /\ IF dumps[call].i > 0 \/ links = {}
       THEN dumps' = [dumps EXCEPT ![call] = Closed]
       ELSE \E i \in 1 .. MaxItems : Becomes(call, "links", None, i)
  /\ ReadUnlock("nl", {})
  /\ Returns
  /\ UNCHANGED <<driver, filter, filterMem, values, rx, late>>

FiltersEnter ==
  /\ NlRuns("filters")
  /\ ReadLock("nl")
  /\ held' = filter
  /\ nl' = "groups"
  /\ UNCHANGED <<driver, filter, filterMem, values, call, target, dumps, rx, late>>

FiltersSend ==
  /\ NlRuns("groups")
  /\ IF held = None \/ dumps[call].i = MaxItems
       THEN dumps' = [dumps EXCEPT ![call] = Closed]
       ELSE \E i \in dumps[call].i + 1 .. MaxItems : Becomes(call, "filters", None, i)
  /\ ReadUnlock("nl", {})
  /\ Returns
  /\ UNCHANGED <<driver, filter, filterMem, values, rx, late>>

-----------------------------------------------------------------------------
(* wprobe_measure.                                                         *)

MeasureStart(l) ==
  /\ NlRuns("idle") /\ listed /\ l \in links \union {None}
  /\ ReadLock("nl")
  /\ target' = l /\ nl' = "measure"
  /\ UNCHANGED <<driver, filter, filterMem, values, call, held, dumps, rx, late>>

MeasureSync ==
  /\ NlRuns("measure") /\ Lockable
  /\ ReadUnlock("nl", {})
  /\ Returns
  /\ UNCHANGED <<driver, filter, filterMem, values, dumps, rx, late>>

-----------------------------------------------------------------------------
(* wprobe_set_config, under rcu_read_lock and dev->lock.                   *)

ConfigStart ==
  /\ NlRuns("idle") /\ listed
  /\ ReadLock("nl")
  /\ nl' = "clock"
  /\ UNCHANGED <<driver, filter, filterMem, values, call, target, held, dumps, rx, late>>

ConfigLock ==
  /\ NlRuns("clock") /\ Lockable
  /\ lock' = "nl" /\ nl' = "config"
  /\ UNCHANGED <<driver, filter, filterMem, interval, armed, firing, call, target,
                 held, dumps, rx, rcu, late>>

(* Mutant: the error returns without rcu_read_unlock.                      *)
ConfigRefuseLocked ==
  /\ NlRuns("config")
  /\ lock' = None
  /\ Returns
  /\ UNCHANGED <<driver, filter, filterMem, interval, armed, firing, dumps, rx, rcu, late>>

(* A link is named, or the limits of the samples do not fit.               *)
ConfigRefuse ==
  /\ NlRuns("config")
  /\ lock' = None
  /\ ReadUnlock("nl", {})
  /\ Returns
  /\ UNCHANGED <<driver, filter, filterMem, interval, armed, firing, dumps, rx, late>>

(* No filter in the request.                                               *)
ConfigKeepFilter ==
  /\ NlRuns("config")
  /\ nl' = "interval"
  /\ UNCHANGED <<driver, filter, filterMem, values, call, target, held, dumps, rx,
                 rcu, late>>

(* wprobe_set_filter: no filter (None) if the new one is rejected or there *)
(* is no memory for all of it.                                             *)
SetFilter(f) ==
  /\ f \in (Filters \ filterMem) \union {None}
  /\ filter' = f /\ filterMem' = filterMem \union ({f} \ {None})

(* Mutant: the old filter is not kept for freeing when the new one fails.  *)
ConfigFilterForget(f) ==
  /\ NlRuns("config")
  /\ held' = (IF f = None THEN None ELSE filter) /\ SetFilter(f)
  /\ nl' = "interval"
  /\ UNCHANGED <<driver, values, call, target, dumps, rx, rcu, late>>

(* The old filter is taken out, a new one may be put in. That it could not *)
(* be is no error.                                                         *)
ConfigFilter(f) ==
  /\ NlRuns("config")
  /\ held' = filter /\ SetFilter(f)
  /\ nl' = "interval"
  /\ UNCHANGED <<driver, values, call, target, dumps, rx, rcu, late>>

(* Unlock, and wait to free the old filter if there is one.                *)
ConfigDone ==
  /\ lock' = None
  /\ IF held = None
       THEN ReadUnlock("nl", {}) /\ Returns
       ELSE /\ ReadUnlock("nl", {"nl"})
            /\ nl' = "free"
            /\ UNCHANGED <<call, target, held>>
  /\ UNCHANGED <<driver, filter, filterMem, firing, dumps, rx>>

(* No interval in the request, or one of less than WPROBE_MIN_INTERVAL.    *)
ConfigKeepInterval ==
  /\ NlRuns("interval")
  /\ UNCHANGED <<interval, armed, late>>
  /\ ConfigDone

(* Mutant: the interval is stored before it is compared with the old one.  *)
ConfigStopLate ==
  /\ NlRuns("interval")
  /\ interval' = FALSE
  /\ UNCHANGED <<armed, late>>
  /\ ConfigDone

(* wprobe_update_auto_measurement: del_timer_sync waits, under the lock,   *)
(* for a handler on another processor.                                     *)
ConfigStop ==
  /\ NlRuns("interval")
  /\ interval => ~firing
  /\ interval' = FALSE
  /\ armed' = (armed /\ ~interval)
  /\ UNCHANGED late
  /\ ConfigDone

ConfigMeasure ==
  /\ NlRuns("interval")
  /\ interval' = TRUE /\ armed' = TRUE
  /\ late' = (late \/ drv \in {"unlist", "grace"})
  /\ ConfigDone

(* Mutant: synchronize_rcu is called before rcu_read_unlock.               *)
ConfigFreeInside ==
  /\ NlRuns("free") /\ waits' = [waits EXCEPT !["nl"] = {"nl"}]
  /\ UNCHANGED <<driver, filter, filterMem, values, netlink, rx, readers, late>>

ConfigFree ==
  /\ NlRuns("free") /\ GraceOver("nl")
  /\ FreeFilter(held)
  /\ Returns
  /\ UNCHANGED <<driver, filter, values, dumps, rx, rcu, late>>

-----------------------------------------------------------------------------
DriverSteps ==
  FreeLink \/ StopTimer \/ UnlistIface \/ FreeIface

RequestSteps ==
  \/ InfoLock \/ InfoSync \/ Send
  \/ LinksEnter \/ LinksSend \/ FiltersEnter \/ FiltersSend
  \/ MeasureSync
  \/ ConfigLock \/ ConfigRefuse \/ ConfigKeepFilter
  \/ \E f \in Filters \union {None} : ConfigFilter(f)
  \/ ConfigKeepInterval \/ ConfigStop \/ ConfigMeasure \/ ConfigFree

Requests ==
  \/ \E d \in Dumps :
       \/ \E l \in Links \union {None} : InfoStart(d, "info", l)
       \/ InfoStart(d, "list", None)
       \/ InfoAgain(d)
       \/ Lookup(d, "links")
       \/ Lookup(d, "filters")
  \/ \E l \in Links \union {None} : MeasureStart(l)
  \/ ConfigStart

Next ==
  \/ AddIface \/ RemoveIface
  \/ \E l \in Links : AddLink(l) \/ UnlistLink(l)
  \/ DriverSteps
  \/ Fire \/ TimerSync \/ RxEnter \/ RxCount
  \/ Requests \/ RequestSteps

Spec == Init /\ [][Next]_vars

(* Whoever is in the middle of something gets a processor again and again, *)
(* however often timers and frames come in between.                        *)
Fairness ==
  /\ WF_vars(TimerSync) /\ WF_vars(RxCount)
  /\ SF_vars(DriverSteps) /\ SF_vars(RequestSteps)

FairSpec == Spec /\ Fairness

-----------------------------------------------------------------------------
TypeOK ==
  /\ drv \in DrvStates /\ leaving \in Links \union {None}
  /\ listed \in BOOLEAN /\ alive \in BOOLEAN
  /\ links \subseteq Links /\ linkMem \subseteq Links
  /\ filter \in Filters \union {None} /\ filterMem \subseteq Filters
  /\ interval \in BOOLEAN /\ armed \in BOOLEAN /\ firing \in BOOLEAN
  /\ lock \in {None, "nl"}
  /\ nl \in NlStates /\ call \in Dumps \union {None}
  /\ target \in Links \union {None} /\ held \in Filters \union {None}
  /\ dumps \in [Dumps -> Dump]
  /\ rx \in Filters \union {None}
  /\ readers \subseteq {"nl", "rx"}
  /\ waits \in [{"drv", "nl"} -> SUBSET {"nl", "rx"}]
  /\ late \in BOOLEAN

(* Requests that look up the interface under rcu_read_lock.                *)
Protected == {"lock", "sync", "send", "measure", "clock", "config", "interval"}

(* The interface, its links and its filters, as they are found by the      *)
(* requests that look them up under rcu_read_lock (Protected) and by the   *)
(* frames.                                                                 *)
Interface == INSTANCE RcuMemory WITH
  Readers <- {"nl", "rx"}, None <- "none",
  published <- IF listed THEN {"dev"} ELSE {},
  memory <- IF alive THEN {"dev"} ELSE {},
  seen <- [r \in {"nl", "rx"} |->
             IF \/ r = "nl" /\ nl \in Protected
                \/ r = "rx" /\ rx # None
               THEN "dev" ELSE "none"]

LinkList == INSTANCE RcuMemory WITH
  Readers <- {"nl"}, published <- links, memory <- linkMem,
  seen <- [r \in {"nl"} |-> target]

ActiveFilter == INSTANCE RcuMemory WITH
  Readers <- {"rx"}, published <- (IF listed THEN {filter} ELSE {}) \ {None},
  memory <- filterMem, seen <- [r \in {"rx"} |-> rx]

(* Nothing is freed that is on a list or in use, nothing is found that is  *)
(* not on its list, nothing comes back to a list after it was taken off,   *)
(* in however many places the locks, grace periods and callbacks of this   *)
(* code see to it.                                                         *)
ImplementsRcu == Interface!Spec /\ LinkList!Spec /\ ActiveFilter!Spec

(* Measurements go on exactly as long as an interval is set, until the     *)
(* interface is being removed.                                             *)
TimerFollowsInterval ==
  /\ drv \in {"up", "link", "stop"} => armed = interval
  /\ ~interval => ~armed

(* The timer is gone before the interface is, unless a request has started *)
(* it again between del_timer_sync and list_del_rcu or shortly after.      *)
TimerGoneFirst == ~alive /\ ~late => ~armed /\ ~firing

(* No filter is lost, none is freed twice: the filters there are are the   *)
(* active one and the one that a request has taken out.                    *)
FiltersAccounted ==
  LET owned == IF nl \in {"interval", "free"} THEN {held} ELSE {}
      active == IF alive THEN {filter} ELSE {}
  IN /\ filterMem = (owned \union active) \ {None}
     /\ held \in owned /\ held # None /\ alive => held # filter

(* Removal of a link or of the interface comes to an end.                  *)
RemovalEnds == drv \notin {"up", "down"} ~> drv \in {"up", "down"}

(* Every call of a handler returns (on one processor).                     *)
RequestEnds == nl # "idle" ~> nl = "idle"
=============================================================================
