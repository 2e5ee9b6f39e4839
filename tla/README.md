# Verification of Webee210-WRT

Webee210-WRT is OpenWrt *Backfire* 10.03.1 with board support for the Webee210
(Samsung S5PV210). Most of the tree is build recipes, kernel patches and
drivers. The programs that OpenWrt itself wrote, and that carry state of their
own, are a few packages under `src/backfire_10.03.1/package/`. This directory
holds TLA+ models of them, the TLC runs that check the models and the TLAPS
proofs about them.

The first subject is **ead**, the Emergency Access Daemon: it lets an
administrator log in and run commands over raw Ethernet frames when the IP
configuration of the router is broken. It is the program in the tree with the
hardest behaviour: a cryptographic login over frames that may be lost and
repeated, one session shared by all clients, child processes and signals, and
a master that supervises one process per interface.

The second is **nvram**, the command that keeps the settings of Broadcom boards,
among them those the boot loader sets up the memory with, in a flash partition
and in a staging file.

The third is **uhttpd**, the web server of the configuration interface, in the
part where it runs scripts: one process that relays between a client and a child
over two pipes, and hears of the child's end by signal, end of file or timeout.

The fourth is **wprobe**, the kernel module that collects measurements from
wireless drivers: drivers, netlink requests, a timer and received frames work on
the same interface under RCU and a spinlock.

## Inventory

| Component | State it keeps | Operations | Hard behaviour | Correct when |
|---|---|---|---|---|
| ead, encrypted channel (`ead-crypt.c`) | send and receive vector, table of increments | set key, encrypt, decrypt | loss, repetition, reordering, damage, 32-bit overflow | each frame is accepted at most once and in order; a gap does not shut the channel |
| ead, session (`ead.c`, `ead-client.c`) | expected request, user name, SRP session, key | ping, user name, prime, A, proof, command | one session for all clients, replay into later sessions, restart | only who proved the password is obeyed; a command runs at most once; a failed login never locks others out |
| ead, commands (`handle_send_cmd`) | child, pipe, `child_pending`, clock | start, relay output, time out, reap | signals that merge, another child's end, output and exit between two steps | output is complete, "done" is true, the instance comes back |
| ead, master (`main`) | table of instances, bridges, signals | start, scan bridges, stop, reap, end | stale process numbers, forks that are interrupted | one live instance per interface, on the right bridge |
| ead, tinysrp/AES/SHA-1/md5crypt | - | vendored cryptography | - | abstracted (keys agree iff the inputs agree) |
| nvram | flash partition, staging file | get, set, unset, commit | power loss, two commands at once, space | header and variables agree; a change is whole and is lost only with the power; a commit that power cuts leaves a part of the table |
| mtd | flash blocks | write, erase, append jffs2 data | bad blocks, interruption | an image is written whole or the old one stays detectable |
| uhttpd, relay (`uhttpd-cgi.c`, `uhttpd-lua.c`) | pipes, child, header buffer | start, relay input and output, time out, reap | select loop against SIGCHLD, background processes, clients that go | output of a script arrives whole; children and descriptors are accounted for; every request ends |
| uhttpd, main loop and files | listening sockets, one client at a time | accept, parse, send a file | - | each request gets one reply |
| base-files boot | overlay mounts, hook lists | preinit, mount root, switch to jffs2, firstboot | power loss between mounts, order of hooks | configuration is never lost |
| base-files sysupgrade | saved configuration, RAM root | save, kill, write, reboot | interruption | configuration is restored once |
| base-files network and hotplug, firewall | uci state, iptables | ifup, ifdown, zones | events out of order | rules follow interfaces |
| wprobe core | interface, links, filter, timer, open dumps | add, remove, measure, dump, configure, count frames | RCU against a lock, a timer that sets itself, dumps of several calls | nothing is used after it was freed, nothing freed twice; the timer follows the interval; removal ends |
| button-hotplug, broadcom-diag | time stamps, queues | press, release, timers | interrupt context | events in order |
| swconfig, switch, robocfg | switch registers | get, set | sequential | - |
| qos-scripts, siit, relayd, 6in4, 6to4, libraries | none that matters | - | - | - |
| build system, kernel patches | - | - | - | out of scope: no running state, or no kernel tree to read them with |

How the parts interact: nvram is only used by start scripts, one command after
another. The relay of uhttpd shares with the main loop the signal handler, which
reaps whatever child has ended, and the signal mask, which lets SIGCHLD through
in `select_intr` only. In wprobe a driver, the requests (one at a time, but a
dump takes several calls), the timer and the frames meet in the lists, which RCU
guards, in `active_filter` and under `dev->lock`. In ead, the master forks an
instance per interface and kills it when its bridge changes (signals, and copies
made by `fork`); an instance receives frames with pcap and calls one handler per
request; the handler of a command forks a child, reads its output from a pipe
and hears of its end by SIGCHLD; client and instance exchange UDP frames, the
last two kinds of which go through the encrypted channel.

## Modules

| Module | Models |
|---|---|
| `EadOrderedChannel` | abstract: a channel that may lose but never repeats or reorders |
| `EadChannel` | one direction of `ead-crypt.c`; implements `EadOrderedChannel` |
| `EadChannelProofs` | theorems about `EadChannel` |
| `EadAccess` | abstract: sessions in turn, entered by trusted clients only, one run for each |
| `EadSession` | `parse_message` and its handlers, `set_state`, the sequence of `ead-client.c`, the network; implements `EadAccess` |
| `EadSessionProofs` | theorems about `EadSession` |
| `EadCommand` | `handle_send_cmd` with its child processes, signal handler, clock, and `send_packet`'s deadline |
| `EadCommandProofs` | theorems about `EadCommand` |
| `EadMaster` | `main`, `start_servers`, `check_all_interfaces` and the signal handlers of the master |
| `EadMasterProofs` | theorems about `EadMaster` |
| `NvramStore` | abstract: a table that is changed as a whole and saved; what a loss of power leaves of it |
| `NvramStaging` | a command of `nvram` that writes: staging file, flash, `nvram_commit`; implements `NvramStore` |
| `NvramStagingProofs` | theorems about `NvramStaging` |
| `ScriptReply` | abstract: a reply is a prefix of what its script wrote, and called what it is |
| `UhttpdRelay` | `uh_cgi_request` and `uh_lua_request`, `select_intr`, `uh_sigchld`, the script and what it leaves running; implements `ScriptReply` |
| `UhttpdRelayProofs` | theorems about `UhttpdRelay` |
| `RcuMemory` | abstract: objects that readers find and that are freed, once, when nobody has them |
| `Wprobe` | `wprobe-core.c`: drivers, netlink requests, timer and frames; implements three `RcuMemory`s |
| `WprobeProofs` | theorems about `Wprobe` |
| `MCEadChannel`, `MCEadSession`, `MCEadCommand`, `MCEadMaster`, `MCNvramStaging`, `MCUhttpdRelay`, `MCWprobe` | values of the constants for TLC |

Definitions headed *Mutant* are plausible faults of the code, kept beside the
definition they replace; no specification uses them. They show that each
property can fail.

### EadChannel

`ead_tx_iv`, `ead_rx_iv`, `ivofs_vec` and `ivofs_idx` are the static variables
of the same names; `sent` and `delivered` are history. `Encrypt` is
`ead_encrypt_message`, `CheckRxIv` is `ead_check_rx_iv` with its 32-bit bound
(`Wrap`), `Decrypt` the rest of `ead_decrypt_message`: the vector is spent
before the hash is compared. `Receive(n)` may happen at any time for anything
ever sent, as often as it likes, which covers loss, delay, repetition and
reordering. `ReceiveDamaged` is a frame that fails the hash; damage in the
block that holds the vector turns it into any member of `Garbled`.

### EadSession

One action per request type (`HandlePing` to `HandleSendCmd`), each with the
transition that `set_state` makes after the reply is sent; `ParseMessage` adds
the test of `parse_message` on the state. A client is a run of `ead-client`:
`phase` and `waiting` say where it is in `main`, one action per kind of reply
(`OnPong` to `OnResult`) does what the reply's handler and the next request do.
`requests` and `replies` are what is on its way; with `Duplicates` a frame stays
after it was received. A key is the record of what went into it, so two keys
are equal exactly when SRP's would be; every exponent the server draws is new.
`Degenerate` clients send an A that `t_servergetkey` refuses, after it has gone
into the session's hash. A command is one step here; its stream is `EadCommand`.

The client side is modelled up to its exit: it sends every request once and
does not retry, which is what `send_packet` does.

In `EadAccess` there are no frames, keys or states. `Spent` counts the sessions that
can no longer be entered (all that were opened but the one whose A or proof is
expected), `Holder` is who is logged in, `Bound` the session that a client's key, and
so its only proof, is for, `Told` who has reported success. A request that was sent
again or recorded maps to a stutter or it logs somebody out; it never logs anybody
in or runs a command again.

### EadCommand

`pc` follows the loop of `handle_send_cmd`: *select*, *test*, *send*, *end*.
Children are `live`, then `zombies`; `sigchld` is one pending signal, however
many children have died; `handling` is the handler between its entry and the
return of `wait`. Time is counted in ticks of 200 ms, the loop compares whole
seconds as the code does. `budget` is what is left of select's `timeval`: Linux
writes it back and the code never sets it again.

### EadMaster

`pid`, `bridge` and `br_check` are the fields of `struct ead_instance`. `role`,
`owner`, `listens` and `inherited` are the kernel's view of each process number:
what it is, which interface it was forked for, and the copies of the bridge and
of the table that it got then. `ForkServer` and `StoreServer` are apart, for the
child runs and signals arrive between the return of `fork` and the assignment.
`Sigchld` does what `wait(&pid)` does: the *status* goes into `pid`. `OnlyMovedEnd` says
of each step what `BridgeAgreement` cannot: which instances the master may end.

### NvramStaging

`mtd` is the partition, `staging` the file, `buf` the copy that `nvram_to_staging`
and `staging_to_nvram` hold in between; contents are a header (the four special
numbers), a table and whether the data have their end. `pc` names the next access to a file: *copy* and *fill* are
`nvram_to_staging`, *update* is `nvram_open`, the edits and `nvram_commit`, *load*,
*erase*, *program* and *unlink* are `staging_to_nvram`, whose `write` of a block is
two steps for the flash. What a command does in its own memory between two
accesses belongs to the second. `Rehash` puts special variables back that the
table lacks, from the header; `RegeneratedHeader` makes the header from the
variables, or from defaults if one is missing; `Kept` is what `nvram_commit`
writes out if there is not enough space, in any order of the hash chains.
Commands that only read make no step: they see `View`. `updates` and `outages`
are history: they let the refinement tell a change from a loss of power, and
either from a change that nobody asked for. `failed` is history, too: has a
`write` failed? From then on flash and file may hold anything that the code left
there, and `ChangesKept` and `ImplementsStore` promise nothing; the header does
agree all the same.

Power may be lost, or the flash refuse to go on, between any two bytes of a block
that is being programmed. `PartlyWritten` says what is left: `Torn`, without the
magic number, or a block whose header is cut, or one with some of the variables and
no end. `nvram_open` compares the magic number and nothing else (`nvram.c:376`): the
CRC, which would tell, is only printed by `nvram info`. So a block that was cut is
copied to the staging file and *opened*, and `_nvram_rehash` looks for the end of the
data behind the variables that are left and behind the mapping. What it finds there
is undefined: `Opened` allows every table that has at least the names that are
complete, and `Update` goes on with it as with any other, so that the next
`nvram_commit` makes a block of it that looks whole, CRC included. Or the process
dies (`UpdateFails`), and then the `=` it had replaced by a NUL may stay so in the
mapped file: the next command finds the data ended there. The store says the same
in its words: a copy is `sound` or not, a loss of power while it is being saved
leaves a part of it, what is not sound is read as anything that has its names
(`Legible`), and after a change, or after such a death (`Settle`), it is sound again.

Commands run one after another, as in `nvram.init`: two at once would share a
mapping that one of them parses in place, without a lock. Values are taken to be
shorter than the partition. An erase is taken to be done or not; the boot
loader may repair a block before the next command, which is outside this code.

### UhttpdRelay

`pc` is where the relay is: *top* of its loop, *wait* in `select`, *write*, *both* or
*read* for the descriptors that `select` has found, *out* after the loop, *reap* in
`waitpid`. `EnterSelect` is the first half of `select_intr`: a SIGCHLD that was
pending is handled before `select` begins, and does not interrupt it.
`SelectReady`, `Interrupted` and `SelectTimeout` are the three ways it returns, for
both kinds of script, which differ in what they do then. Output is counted in
units, a CGI header ends with unit `head` (never, if the script writes less), and
`hdrlen`, `HdrSize` and `Buffered` are `hdrlen`, `sizeof(hdr)` and what one `read`
returns. `holders` are the processes that have the script's stdout open: the
*script* and an *heir* that it left in the background. `owed` is history: what was
written when the script itself last wrote.

`ScriptReply` sees `written`, `got` and `sent`, and `end` as the verdict on the reply;
`hdr` is what it allows the server to hold back. All of select, signals, input and
descriptors is stutter there.

### Wprobe

`drv` is where the driver is in `wprobe_remove_link` (*link*) or
`wprobe_remove_iface` (*stop*, *unlist*, *grace*). `nl` is where the one netlink
request is; between two of its states everybody else may run as far as
`Runs` allows. `dumps` are the callback arguments in which a dump stores its
interface, link and position between calls. RCU is `readers` and, for each caller
of `synchronize_rcu`, the readers it still waits for. `listed` and `links` are what
the lists show, `alive`, `linkMem` and `filterMem` what is allocated: a
property about use after `kfree` relates the two. With `SMP = FALSE` a spinlock
only turns off interrupts and preemption, and the timer and a frame run to their
end once they have begun (`Excludes`); with `SMP = TRUE` the lock is a lock.

`RcuMemory` is implemented three times: `Interface` (found with `listed`, there with
`alive`), `LinkList` and `ActiveFilter`. Adding, replacing and removing are its `Update`,
`kfree` after a grace period its `Free`. Its readers are the request and the frame.
The two dumps that look up, or check their pointer, outside `rcu_read_lock` are no
readers of the interface (`Protected`, and see the divergences).

A driver removes its links before its interface (else `BUG_ON`), and adds the
interface again only after `wprobe_remove_iface` has returned; the netlink layer
serves one request at a time.

## Runs

| Run | Shows | Bounds |
|---|---|---|
| `channel` | `TypeOK`, `AtMostOnce`, `BurstTolerance`, `ImplementsOrdered` | short window, small increments, enough messages to leave the window and come back |
| `session` | `SessionCoherent`, `SessionOwned`, `AtMostOnceRun`, `ImplementsAccess` | three clients, two users, one wrong password, two sessions, two clients that give up anywhere, frames repeated, restarts, failing commands |
| `session_served` | `LoneClientServed` | four clients: one gives up anywhere, one sends a degenerate A, one is unknown; three sessions |
| `command` | `ReaperNeverBlocks`, `DoneMeansExited`, `DrainedBeforeDone`, `KilledNotEarly`, `StreamEnds` | three commands, at most three children at once, timeouts of 1 and 2 seconds of 2 ticks, a pipe of 2, two descriptors too few |
| `master` | `AllRecorded`, `BridgeAgreement`, `NoOrphans`, `HarmOnlyAfterCrash`, `OnlyMovedEnd` | two interfaces, two bridges, two moves, three process numbers, every fault |
| `master_converges` | `Converges` | the same with one move, five process numbers, no fault |
| `nvram` | `HeaderAgrees`, `ChangesKept`, `ImplementsStore` with power lost, files that cannot be opened and writes that fail at any point | three variables, two of them special, two spellings of one number and another number, one value for the third; space for three short values and not for long ones; one edit per command, any number of commands |
| `uhttpd` | `ReplyComplete`, `ChildrenReaped`, `DescriptorsAccounted`, `ImplementsReply`, `RelayEnds` | any number of requests one after another, three units of output against buffers and pipes of two, bodies of none, of three units and of negative length, one failed fork |
| `wprobe` | `ImplementsRcu`, `TimerFollowsInterval`, `TimerGoneFirst`, `FiltersAccounted`, `RemovalEnds`, `RequestEnds` | the interface and a link come and go any number of times, two filters, one dump at a time and all that interleaves with it, two items |
| `keepalive`, `master_crash`, `uhttpd_timeout` | the divergences below | as small as shows them |

Why the bounds are enough: a replay needs one session to record in and one to
replay into, an interleaving of logins two clients, a stranger in the session a
third; signals merge with two children and a third shows that one is always left
for the handler; numbers are reused as soon as there are fewer of them than
children; one missing special variable changes the header of the other, and a
variable is dropped as soon as a second spelling is longer; a header ends within
the first read, within the second, or beyond the buffer, and a signal of one
request meets the next; a link that comes back, and a filter that replaces another
whose address may then be used again, are enough for a pointer that is stale. The
theorems lift
what they cover to every value of the constants.

`SuccessMeansRun` and `NothingDropped` are stated by theorems and by no run of their
own: the refinements that the runs check (`ImplementsAccess`, `ImplementsReply`) tell
of the same from outside.

Deadlock is not checked: clients end, masters are terminated, and every history
is bounded.

### Divergences found

* `keepalive`: packets are sent "every 200 ms so that the client doesn't
  timeout" (`ead.c:555`), but the client sets its `timeval` once for all packets
  (`ead-client.c:92`), and a command of more than two seconds loses its client.
* `master_crash`: `wait(&pid)` (`ead.c:754`) gives the status, not the process
  number. The table keeps the number of an instance that has crashed and
  `start_servers` never replaces it, against the purpose stated in
  `ead/Makefile:27`.
* `uhttpd_timeout`: "if the called script does not write data within the given
  amount of seconds, the server will terminate the request with 504"
  (`uhttpd.config:42`). Lua scripts are treated so; for CGI `select` returns 0, the
  relay asks whether the child is there (`uhttpd-cgi.c:405`) and waits again. The
  branch with the 504 (line 577) is for negative results, which `ensure_out` has
  sent to `out` before.

More were met and have no run:

* `staging_to_nvram` ("Copy staging file to NVRAM device", `nvram.c:508`) looks at
  no result of `write` and `fsync` (`nvram.c:525`) and then removes the staging file,
  perhaps the only copy of the changes: take `failed` out of `ChangesKept` and TLC
  finds it.
* `nvram_open` takes a block that was cut by a loss of power for a whole one
  (`nvram.c:376`); see the section on `NvramStaging` for what comes of it.
* `wprobe_dump_links` and `wprobe_dump_filters` look up the interface, or check the
  pointer they have stored, before `rcu_read_lock` (`wprobe-core.c:569`, `634`), though
  "access to the device and link structure is synchronized through rcu" (line 686).
  With preemption, on one processor: `RemoveIface`, `StopTimer`, `Lookup`,
  `UnlistIface`, `FreeIface`, and `LinksEnter` walks the links of a freed interface.
  In the same way a filter that `wprobe_dump_filters` has read under the lock (line
  585) may be freed under it. `ImplementsRcu` speaks of the requests that look up
  inside (`Protected`) and of frames; nothing is claimed of these two dumps.
* `wprobe_dump_info` calls `wprobe_sync_data`, which takes `dev->lock`, with that
  lock held (line 720), and `wprobe_update_auto_measurement` waits for the timer's
  handler with it (line 797): on several processors either stops for ever. The kernel
  configuration of this board has one.
* A request may set the timer when `del_timer_sync` of the removal is done but the
  interface still on the list (line 163): `TimerGoneFirst` excepts it with `late`.
* `wprobe_dump_links` skips the links of the last message without counting them
  (line 650): a second message is empty and ends the dump.
* A Lua script that has sent something has no timeout any more: if a process it
  left in the background keeps its stdout, and SIGCHLD came before `select`, the
  server waits for that process (`HeldOpen`). So it does for a script that reads
  its input to the end when Content-Length is negative: the pipe is not closed.
* A reply of CGI that is cut by SIGCHLD lacks its final chunk, for `ensure_out`
  leaves before the branch that sends it (`uhttpd-cgi.c:587`).
* A failed `fork` leaves both pipes open (`uhttpd-cgi.c:185`).

* The handler of the master clears the entry of a *live* instance if its number
  happens to be equal to a wait status (256 after `exit(1)`), which the runs and
  theorems exclude by `NoCollision`.
* Only instance 0 answers a login (`ead.c:602`), for the client never fills in
  the sid.
* `ACK_USERNAME` is sent (`ead.c:650`) before the user is looked up, so the
  client's "Device did not accept user name" (`ead-client.c:407`) does not come
  when a name is refused.
* The server's `timeval`, too, is set once (`ead.c:558`): after the first 200 ms it
  sends packets in a busy loop (`budget` in `EadCommand`).
* `nvram set` without its argument never reaches the message for that
  (`cli.c:190`): the first loop has moved past the last word and compares NULL
  (`cli.c:143`).

## Fairness

* `EadSession`: weak fairness of handling each kind of request of each client
  (the pcap loop runs for ever and every handler returns, which is `StreamEnds`
  for the only one that loops), of a client's reading its socket and of its
  timeout. No fairness of starting, restarting or failing.
* `EadCommand`: weak fairness of every step of the loop, of signal delivery and
  of the clock; none of the children: they may hang or print for ever.
* `EadMaster`: weak fairness of the master's loop and of signal delivery.
* `NvramStaging`: none, no liveness is stated.
* `UhttpdRelay`: weak fairness of the relay (its process runs, and its timeouts
  come), and of a script that reads its input, writes what it has to write and
  then ends, or does so on SIGTERM; none of background processes or of clients.
* `Wprobe`: weak fairness of the timer's handler and of counting a frame, which run
  to their end; strong fairness of the driver's removal and of a request: they are
  interrupted again and again, but the scheduler comes back to them.

A patient client (not in `Impatient`) stops only when nothing is on its way:
its wait of seconds is long against the network and the handlers.

## Proofs

TLAPS proves for every value of the constants allowed by the modules' `ASSUME`s:

* `EadChannelProofs`: `TypeCorrect`, `NeverTwice` (from `AcceptedGrow`: vectors
  accepted grow strictly, and the last is `ead_rx_iv`), and under `NoOverflow`
  (the room the code makes by clearing the top byte) `AlwaysInOrder`,
  `BurstTolerated` and the refinement `ChannelImplementsOrdered`. Their inductive
  invariant adds to `TypeOK` how far apart the vectors of two messages are:
  without it the window could not be compared with message numbers.
* `EadSessionProofs`: `TypeCorrect`, `SessionsCoherent`, `SessionsOwned`,
  `CommandsRunOnce`, `SuccessIsTrue`, for any clients, users, passwords and number
  of sessions, with every fault. The inductive invariant adds `ClientCoherent`
  (what a client has by the time it waits for each reply, in particular that a key
  is computed once), `Answered` (a last packet implies a run) and `Ran`: the key of
  a command that has run has its vector spent, or is older than the exponent of any
  session still to be keyed. The last part is why a replayed SEND_A, which resets
  the vector, cannot bring an old command back. Hypothesis: `NotAKey`, the value
  for "no key yet" is not a key. `SessionImplementsAccess` is the refinement of
  `EadAccess`, action by action. It needs one more invariant, `Fresh`: from SEND_A on
  the session has the newest exponent, and no reply on its way tells of one that
  was not drawn. Else a client might bind itself to a session that does not exist.
* `EadMasterProofs`: `TypeCorrect`, `EveryInstanceRecorded`, `OneServer`,
  `InstancesFollowBridges`, `AtMostOneOrphan`, `NoHarmBeforeCrash`. The inductive
  invariant `IInv` joins the four properties (a stop spares only instances whose
  entry is not cleared, which needs `AllRecorded`) and adds `Accounted`: until an
  instance has ended by itself every number in the table is its interface's.
  The action property `InstancesServeOn` follows from `Accounted`, too: what
  `stop_server` kills is then the instance of the entry whose bridge has changed
  (`StopEndsOwn`). Hypothesis: `NoCollision`.
* `EadCommandProofs`: `TypeCorrect`, `ReaperNeverHangs`, `DoneAlwaysMeansExited`,
  `AlwaysDrained`, `NeverKilledEarly`, for any commands, timeouts and ticks in a
  second. The inductive invariant says that a signal pending while another is
  handled stands for a second child (`Reapable`), that `child_pending` is wrong only
  after another child was waited for (`Awaited`), that a command which was gone at
  the last select writes no more (`Drained`), and that all seconds but the first
  have their full number of ticks (`Paced`).
* `UhttpdRelayProofs`: `TypeCorrect`, `NothingIsDropped`, `RepliesComplete`,
  `ChildrenAreReaped`, `DescriptorsBalance`, for any output, bodies and sizes. The
  inductive invariant adds what each place of the loop knows of the pipes, of the
  signal and of the buffers: a child that has ended and is not reaped has its signal
  pending, and `select` cannot be interrupted while there is something to read.
  `UhttpdImplementsReply` refines `ScriptReply`: one lemma for the steps the client
  cannot see (`UnseenStep`), and one each for writing, taking, judging and closing.
* `WprobeProofs`: `TypeCorrect`, `TimerAlwaysFollows`, `TimerAlwaysGoneFirst`,
  `FiltersAlwaysAccounted`, for any links, filters and dumps, and for several
  processors as well. The inductive invariant says of every link
  and filter in use that it is on its list, or that whoever will free it waits for
  the one who uses it (`Targets`, `Frames`). `WprobeImplementsRcu` proves the three
  refinements of `RcuMemory` from it. For them it had to be said, too, that no link is
  lost (what is allocated is on the list or being freed, `Drivers`), and that the
  interface under a frame is listed or its driver waits for that frame.
* `NvramStagingProofs`: `TypeCorrect` and `HeaderAlwaysAgrees` with every fault,
  for any variables and space; `ChangesAlwaysKept` and the refinement
  `NvramImplementsStore` until a write has failed. The inductive invariant
  `IInv` adds to the types `AllAgree` (the header agrees in the buffer, too),
  `Buffers` (there is something to write) and `Phases` (which of flash, file and
  buffer are equal at each access). `PartlyWrittenType` carries the agreement over to
  blocks that were cut, `OpenedLegible` shows that what a command takes them for is
  legible to the store, and `UpdateContents` that it leaves a whole block in the file.

A refinement is proved by its initial states and its steps: each action is, under
the mapping, an action of the abstract specification or leaves its variables alone.

Model-checked only: liveness (`LoneClientServed`, `StreamEnds`, `Converges`,
`RelayEnds`, `RemovalEnds`, `RequestEnds`), which is out of the prover's reach.

## Not modelled

The cryptography itself, packet layout and checksums, the pcap filter, option
parsing, the pidfile, `-f` (no fork), what a shell started by `system()` leaves
running after it was killed, several instances on one segment, the data of
`prepare_password` (its salt is always empty: the loop at `ead.c:235` compares
an uninitialised buffer); the hash table, the text format and the checksum of
nvram, its two loops over the arguments, two nvram commands at once; of uhttpd the
main loop, the parsing of requests, files, authentication and TLS; of wprobe the
measured values, their statistics and scaling (32-bit sums), the layout of
messages, the bytes of a filter (external checks of the kernel's socket filters)
and more than one interface; and every other component of the inventory. Most of
the tree is code that others wrote for Linux and for chips (drivers, patches,
build recipes): it cannot be read without the kernel or the hardware it belongs to.

Hazards that no property covers, beside those `PROJECT.json` lists with a note:
`select`'s timeout is set once and written back by Linux (`ead.c:558`); a wait status
may equal the number of a running instance (`ead.c:757`); `prepare_password` leaves
the salt empty (`ead.c:235`); a child that `uh_sigchld` has reaped is looked for by its number
(`uhttpd-cgi.c:597`); a chunked reply that EINTR cuts has no end (`uhttpd-cgi.c:401`);
a dump in several messages goes on with the values of a query in between
(`wprobe-core.c:723`), and an error of the driver becomes a success
(`wprobe-core.c:287`); the overlay is switched in several mounts, each of which may
be the last before power is lost (`70_pivot_jffs2_root`).

## Plan

1. *(done)* channel, session, commands and master of ead with their runs, and
   theorems about each.
2. *(done but for two commands at once)* `NvramStaging`: `cli.c` and
   `nvram.c`; power loss at every write, `nvram_commit` dropping what does not
   fit. Abstract specification: a table that a commit saves,
   as a whole unless power is lost in it.
3. *(done)* `UhttpdRelay`: `uh_cgi_request` and `uh_lua_request` with pipes, SIGCHLD
   and timeouts. Left: the loop that serves clients one at a time.
4. *(done)* `Wprobe`. Left: its values, and several interfaces.
5. `BootOverlay`: hook order of preinit, RAM overlay, jffs2, firstboot; crash
   between any two mounts; `Sysupgrade`: configuration saved and restored once;
   `Mtd`: the flash writer under both.
6. Abstract specifications for `EadCommand` (what a supervised command's client may
   be told) and `EadMaster` (who serves which bridge), and their refinements.
7. `EadNode`: several instances of one node on one segment, composing
   `EadSession` with the restarts of `EadMaster` and the streams of `EadCommand`.
8. `ButtonHotplug`, `BroadcomDiag`: interrupt and process context.
