# free_proxy in TLA+

`free_proxy` redirects the local IPv4 TCP traffic of a Linux machine to a SOCKS5
server. A controller (command line or curses interface) edits a configuration file,
starts and stops a forwarder daemon and rewrites an iptables chain; the daemon forks
one process per connection and publishes its traffic in a shared table; the interface
also runs network tests and a connection diagnosis in threads. This directory models
those parts in TLA+, checks the models with TLC and proves the main results about
them with TLAPS.

Source paths are relative to the repository. `PROJECT.json` maps every definition to
the lines it models.

## 1. The system

| Component | State | Operations | Interacts with |
| --- | --- | --- | --- |
| Forwarder process pool (`src/proxy.c`) | `keep_running`, `active_clients`, signal mask, worker processes | accept loop, fork, `reap_clients` (SIGCHLD), `stop_proxy` | traffic table, firewall, pid file |
| Traffic table (`src/stats.c`) | slots `active`, `pid`, counters in a shared mapping; `stats_map`, `stats_slot` of each process | claim, add, release, clear_pid, create, close; open_readonly, snapshot | written by workers and by the parent's signal handler, read by monitors |
| Firewall chain (`src/firewall.c`) | chain `FPROXY_OUT` of the nat table, jumps to it from OUTPUT | enable, disable, is_enabled, each several `iptables` commands | the forwarder (on start and exit), controllers, systemd's forwarder |
| Operations (`src/operations.c`) | none of its own; holds the lock | enable, enable_saved, set_bypass, disable with rollbacks; uninstall; status | config file, process control, firewall |
| Process control (`src/process.c`) | lock file, pid file, `/proc`, listening port | lock, start_daemon (ready pipe), stop_daemon (SIGTERM, SIGKILL, scan, wait for the port) | forwarder, other controllers |
| Forwarder start and exit (`src/main.c`, `src/proxy.c`) | the process itself | load, bind, write pid, install rules, report ready, serve, close, remove rules and pid file | all of the above |
| Configuration (`src/config.c`) | configuration file | parse server and bypass list, load, atomic save | operations, forwarder, firewall |
| systemd (`src/systemd.c`, `systemd/free_proxy.service`) | unit | start at boot, restart on failure, stop; autostart enable, disable, remove | starts the forwarder without the lock |
| Relay and SOCKS5 client (`src/proxy.c`, `src/socks5.c`) | two sockets, a buffer and a poll set per worker | connect, handshake, relay with half-close, timeouts | traffic table, the two ends |
| Name lookup (`src/test.c` 64-191) | `struct resolver_job`, a thread per lookup | `resolve_ipv4`, `resolver_main` | tests, diagnosis, cancel flag |
| Network tests and diagnosis (`src/test.c`, `src/web_probe.c`) | report, cancel flag | `fp_test_run`, `fp_diagnostic_run` | lookup, page |
| Test and diagnosis pages (`src/tui.c`) | pipe, history, worker thread | start, cancel, read an event, join | tests |
| Monitor page (`src/tui.c`, `src/stats.c`) | mapping of the table, `struct monitor_rate_state` | status, reopen, snapshot, `update_monitor_rates` | traffic table, pid file |
| Other pages (`src/tui.c`) | text being entered | menus, drawing | operations |
| Formatting (`src/format.c`) | none | text of rates and sizes | pages |

What is hard here and a unit test hardly reaches:

- a signal handler that changes a counter and a table the interrupted code uses;
- a lock-free table whose writers can be killed between two stores;
- multi-command firewall edits that fail, are killed, lose their exit status or
  interleave with another process;
- a forwarder that systemd starts outside the lock the controllers rely on;
- success that is deduced from a file written earlier than what it stands for;
- rollbacks, stale pid files, zombies of other controllers, a blocking `waitpid` with
  the lock held;
- a lookup thread that outlives its call and then owns memory, with cancellation at
  any moment;
- a page and a worker that wait for each other through a bounded pipe;
- a relay with one thread and blocking sends between two ends that stall, half-close or
  reset, and a handshake whose last byte is directly followed by payload;
- a file that is unlinked and created anew under the page that has it mapped;
- an uninstall that removes the lock file other operations are waiting for.

`PROJECT.json` lists these as hazards, each at its line and with the properties that
watch it.

## 2. Modules

| Module | Models | Proofs |
| --- | --- | --- |
| `Forwarder` | accept loop, workers, SIGCHLD, the writers of the traffic table, shutdown | `ForwarderProofs` |
| `Tunnel` | what a proxied connection promises its ends (abstract) | none |
| `Relay` | one worker: connect, SOCKS5, relay loop; implements `Tunnel` | `RelayProofs` |
| `ConfigFile` | parsers, saved text and loading of the configuration (operators) | `FirewallProofs` |
| `Firewall` | `fp_firewall_enable`, `_disable`, `_is_enabled`, one iptables command a step; extends `ConfigFile` | `FirewallProofs` |
| `Lifecycle` | controllers' operations with uninstall, start and stop of forwarders, systemd | `LifecycleProofs` |
| `Monitor` | the table's file, the forwarders and controllers that replace it, the monitor page | `MonitorProofs` |
| `Resolver` | `resolve_ipv4` and `resolver_main` | `ResolverProofs` |
| `NetTest` | tests, diagnosis and their pages; extends `Resolver` | `NetTestProofs`, `ReportProofs` |

The `MC` modules only add symmetry sets, sample requests and sample answers for TLC.
`Lifecycle` treats a firewall operation as one step; `Firewall` takes that step apart,
and its properties `EnableComplete`, `DisableUnhooks` and `CheckSound` are what
`Lifecycle` assumes of it. `NetTest` uses `Resolver` as its abstract specification of a
lookup (`UsesResolver`). `Forwarder` has many workers that count single bytes; `Relay`
takes one worker apart. Definitions with an underscore suffix (`AtLimit_OffByOne`) are
faulty variants used to show that a property can fail; no specification uses them.

### Forwarder

`main` is the position of `fp_proxy_run`, `handler` that of `reap_clients`, which runs
only while SIGCHLD is neither blocked nor already being handled. `pending` is one bit
because signals coalesce. `worker[p]` is the life of a worker: `start`, `scan` (the
loop of `fp_stats_claim` at slot `index[p]`), `owned` (compare-and-swap done, name not
stored), `serve`, `freeing` (name removed, `active` not cleared), `zombie`, `reaped`.
`Die` may end a worker anywhere; what it leaves in the table stays there, and
`orphaned` remembers slots left taken and nameless. Pids are reused. One action is one
system call or one group of stores that no other process can tell apart; SIGCHLD may
arrive between any two actions of the parent. On shutdown `Close`, `ForgetMap` and
`DefaultSigchld` follow `fp_stats_close` and `main()`; the table may be unmapped while
`stats_map` is still set.

### Firewall

The table is `chain`, `rules` and `jumps`. Each writer is in a program (`op`) at a
command (`at`); `Apply` and `Accepts` say what iptables does with it and are external.
A command can fail without effect, its status can be stolen by `reap_clients`
(`run_iptables` then reports failure although the command took effect), and a writer
can be killed between commands.

What a writer installs starts as a user's request (`Request`: the text of a server and
of a list) and reaches `struct fp_config` in one of three ways (`Way`): parsed by the
controller that applies it, saved and loaded by another process, or edited in the file.
The properties compare the table with the request (`Direct` reads it off the text),
not with the configuration, so a mistake of a parser, of the duplicate test, of the
mask or of the saved text shows as traffic that goes the wrong way. `asked` and
`installed` are history variables.

### ConfigFile

Text is modelled by what the parsers find in it: an address or `Bad`, and what follows
the separator as at most one number. `append_bypass` keeps the order of the code: the
limit is tested before the duplicate, host bits are masked, a duplicate is dropped, and
one bad entry makes the whole list (or file) invalid. An address is the sequence of its
`Width` bits, so a mask clears the bits after the prefix and a rule compares those
before it.

### Relay and Tunnel

`Tunnel` is the promise: each end gets a prefix of what the other sent, in order, and
unless the connection is broken it sees the end of its stream only after the other has
closed and after the last byte. In `Relay` the worker's position is `stage`; `inq` and
`outq` are the kernel's buffers, `fds` the descriptors still polled, `ready` those whose
`revents` the loop has not reached, `chunk` what `write_all` has left. `read_all` takes
the server's bytes in pieces of any size, and payload may follow the answer at once.
`closed` distinguishes FIN from reset; a reset may discard what is under way. Closing a
socket with unread bytes resets it, as the kernel does. A timeout is a step that is
possible while the call it ends is blocked. The refinement mapping only forgets the
difference between FIN and reset.

Two things the model makes visible and the code accepts: the 30 s `SO_SNDTIMEO` cuts a
connection whose receiver pauses, and a reset of one end reaches the other as a clean
end of stream (`Tunnel` allows it because the connection is then `broken`).

### Monitor

Forwarders bind, unlink, create, size, fill and stamp the file, write the pid file, run,
close and unlink; a controller that found no forwarder unlinks both files, perhaps
before it forks; systemd starts forwarders on its own; forwarders crash and stay
zombies, which `kill(pid, 0)` takes for running. The page's loop is `Status`, `Reopen`,
`Open`, `Check`, `SnapshotOpens`, `Snapshot`, with every step of the others in between.
A table is named by its forwarder; `serving` remembers a forwarder that has served
since the status was read, `real`, `anchored` and `carried` what was really
transferred. One direction is modelled: upload and download are treated alike. `Check`
on a file that has no size yet is SIGBUS (`mon = "killed"`); a forwarder that exits
late unlinks its successor's files, after which the page shows nothing although a
forwarder serves. `ServingIsShown` is therefore about a forwarder whose files stay.

### Lifecycle

A controller is a stack of statements `calls[c]` with the last return value `ret[c]`:
`Program` gives the statements of each operation and a function call pushes its own. A
forwarder is a record of its state (`forked`, `init`, `loaded`, `bound`, `recorded`,
`run`, `closed`, `cleanup`, `zombie`), configuration, pending SIGTERM, parent and the
byte on its ready pipe. A `Daemon` is an incarnation, a pid with its start time, as in
the pid file. Files, fork and the firewall can fail (`faults`), a forwarder can crash, a
controller can quit, systemd can start and stop the unit. The accept loop is left on
SIGTERM (`CloseListener`) or because `poll` or `accept` fails (a case of `Crash`, since
nobody asked for it); both are `LeaveLoop`, and the forwarder then cleans up like any
other. `forced` remembers that something failed, crashed or was killed, `crashed` that a
forwarder was lost since the lock was granted, or was leaving its loop at that moment.
The lock is the inode `lockfile`: `OpenLock` opens what the path names, `Acquire` waits
for those who have the same file open, and `RemoveLock`, at the end of `fp_uninstall`,
lets the path name a new one. From then on a waiter on the old file and a newcomer can
both hold "the" lock; with three operations TLC then finds a disable that returns 0
while another operation starts a forwarder. The code promises nothing against it, so
`ReadyBeforeSuccess`, `DisabledMeansStopped`, `ServesSavedConfig`, `NoStrandedRules` and
`UninstallRemoves` are stated while `LockIntact` holds.

### Resolver and NetTest

Jobs are blocks of the heap, reused after they are freed. `caller` and `thread[j]` are
the positions of the two sides, `mutex[j]` the holder of the job's mutex, `addrs[j]`
who holds the address list of the lookup. Access through a position that uses a freed
block is what `NoUseAfterFree` forbids. Freeing the addresses of a call twice is an
undefined state, and starting a call before the last one's addresses are freed loses
them; `UsesResolver` excludes both. `NetTest` adds the worker thread (`worker`,
`index`, `tries`, `outcome`), the report, the pipe, and the page (`ui`, `history`).
Every network operation ends in success, failure or timeout as the code allows;
latencies, byte counts and speeds are reduced to that. `getaddrinfo` may take for ever.

## 3. Runs

| Run | Instance | Shows |
| --- | --- | --- |
| `forwarder_safety` | 3 pids, 2 slots, 1 byte | the worker count is exact, the limit holds, no dead worker is forgotten, slots have one owner with exact counters, and only a nameless orphan makes a worker go without a slot |
| `forwarder_live` | 2 pids, 2 slots | after SIGTERM the loop ends; every zombie is waited for |
| `forwarder_unmap` | 2 pids, 2 slots | **violation**: SIGCHLD between `munmap` and `stats_map = NULL` makes `reap_clients` touch unmapped memory |
| `firewall_serial` | 1 writer, addresses of 3 bits, 13 requests in 3 ways, lists of 2, 1 failure, up to 3 jumps | what was asked to be direct never loops back, enable that returns 0 left complete rules, disable that returns 0 left no jump, is_enabled returns 1 only when the destinations it was asked about are direct and exactly those of the installed request are, and 0 only when the request is not in place |
| `firewall_race` | 2 writers, 1 request | **violation**: two enables interleave, both succeed, REDIRECT comes before the direct destinations |
| `lifecycle_contract` | 2 controllers, 2 forwarders, 4 operations, 1 failure, 1 crash, no systemd, up to the unlinking of the lock file | success means a bound forwarder with complete rules; disabled means nothing is left; the forwarder serves the saved configuration; no operation, whether it succeeds or not, leaves rules without a forwarder unless something failed or crashed, or `set_bypass` met a stale pid file |
| `lifecycle_unit` | 2 controllers, 3 forwarders, 2 operations, 1 unit start | with systemd every operation still returns, and uninstall leaves no forwarder, listener, pid file or configuration, and rules only if systemd started the unit and something failed, crashed or was killed |
| `lifecycle_ready` | as above, 2 forwarders | **violation**: success is reported while the unit's forwarder has only written its pid file |
| `lifecycle_remains` | as above, 2 forwarders | **violation**: a second forwarder that cannot bind removes the rules of the one that serves |
| `nettest` | 2 jobs, 2 sites, 2 downloads, 2 addresses, 1 progress event, pipe of 2 events | no use after free and no leak, report, events and page agree, the diagnosis stops at the first failed stage, the worker never outlives its page, the tests use the resolver properly, cancelling ends the test |
| `relay` | 2 payload bytes each way out of {0, 5}, buffer of 2, socket buffer of 1, all forms of the SOCKS5 answer, short and negative ones | the worker implements `Tunnel`; it never counts more than an end sent and lags by a buffer at most, whatever is reset or killed, and counts exactly what it relayed while nothing breaks; it reads no more of the answer than its buffer holds, and always ends |
| `monitor` | 2 forwarders, 1 crash, 2 bytes, rate window of 2 ticks | the page shows the forwarder that serves or nothing, rates are bytes really carried in their window, and a forwarder that keeps serving is shown again and again |

The four violations are disagreements between the code and a guard of its own or the
README; `PROJECT.json` quotes both sides under `findings`.

**Bounds.** Three pids and two slots are the smallest instance with a full table, a
worker over the limit, a killed owner and a reused pid at once; the proofs remove the
bound. Addresses of three bits have networks inside networks, host bits to mask and room
for loopback, server, direct and other destinations; the requests include an empty list,
the same address with two prefixes, a duplicate at the limit of the list, prefix 0, a
list one too long and every kind of text that must be refused; two servers are needed
for a rule that must go when the request changes. An enable whose check for the jump
fails inserts another copy; enables start from at most two, so that three can exist.
`DisableUnhooks` is checked with one failing command: with two, `fp_firewall_disable`
can miss the jump and then fail to see the chain, and returns 0 (listed as a hazard).
Two controllers and as many forwarder incarnations as can coexist give a replaced, a
replacing and a unit's forwarder; four operations allow enable, failed switch, rollback
and disable in one behaviour. A pipe of two events fills up in every mode; two jobs let
an abandoned lookup run beside a later call and its memory be reused; with both jobs
abandoned `calloc` fails, as `RefuseSetup` allows. Payload bytes 0 and 5 are those of a
SOCKS5 answer, so that one taken for the other is not noticed by its value; two bytes, a
buffer of two and a socket that takes one give partial reads, partial sends and a
blocked send with a byte behind it. Two incarnations give a replaced and a replacing
forwarder, two bytes a new total that is smaller than, equal to or larger than the old
one. `lifecycle_contract` explores up to the state in which the lock file is unlinked
(`CONSTRAINT LockIntact`): its properties say nothing beyond; `lifecycle_unit` explores
beyond.

**Deadlock** is not checked where the system may stop: a forwarder ends
(`Forwarder*`), the controllers have done all the operations of the bound
(`Lifecycle*`), a worker ends (`Relay`), SIGBUS ends the controller (`Monitor`), and
after a failing `poll()` the page joins a worker that may be blocked on a full pipe
(`NetTest`). `Firewall` is checked for deadlock.

**Fairness.** `Forwarder`: the kernel schedules the parent and the handler (WF),
`poll` returns within its 500 ms timeout (WF on `PollTimeout`), and an unblocked pending
signal is delivered in the end although it is blocked again and again (SF on
`SigchldDelivered`). Workers and clients need not do anything. `Lifecycle`: processes
are scheduled (WF per controller and forwarder), and a waiter for `flock` that sees it
free again and again gets it (SF on `Acquire`); users, systemd and crashes are not fair.
`NetTest`: the page's loop and the threads are scheduled and network operations time
out (WF); nothing is assumed of `getaddrinfo`, of `q`, or of `poll` failing. `Relay`: the
worker is scheduled and the timeouts its sockets and `poll` have end every call that
blocks (WF on `WorkerStep`); nothing is assumed of the ends. `Monitor`: the page's loop
never blocks, since `getch` returns at once and `napms` returns (WF on `PageStep`).

## 4. Proofs

All theorems hold for every value of the constants under the named assumptions:
`ForwarderAssumption` (finitely many pids, 0 is not one of them, at least one slot),
`ResolverAssumption` (NULL is not a block of the heap), `NetTestAssumption` (positive
counts), `RelayAssumption` (bytes are numbers
below 256, buffers have a positive size, an answer that refuses does not begin with 5, 0),
`ConfigAssumption` (at least one bit, `Bad` is neither a number nor an address),
`FirewallAssumption` (requests consist of entries, the two names differ from requests
and networks, a jump can be inserted),
`MonitorAssumption` (bounds are numbers, `None` is no forwarder) and
`LifecycleAssumption` (bounds are numbers, the names of absent things differ from those
of processes). Hypotheses beyond these stand in the theorem.

**ForwarderProofs.** The invariants are not inductive alone. `IInv` is the
conjunction, each part proved from the ones before it:

1. `Control`: SIGCHLD is blocked exactly from before `fork` to after
   `++active_clients`; the handler never runs meanwhile; a fork is preceded by the test
   of the limit; `child` is the one worker waited for and not yet accounted for.
2. `Counting`: `active_clients` is the number of worker processes, one more only
   between fork and increment. Without (1) the handler could decrement first.
3. `NoLostZombie`: a zombie has a pending SIGCHLD or a handler whose loop still runs.
4. `Ownership`: a claimer is the only owner of its slot; a named slot belongs to the
   worker it names, even a dead one; a slot being cleared or orphaned has no other
   owner. This is what survives pid reuse: a pid is reused only after the handler has
   cleared its slots.
5. `Parking`: as in a car park where nobody drives past a free place, at most
   `MaxClients - q` workers stand at place `q` or after. A scanner moves on only past a
   taken place, whose owner stands there, so counting those at `q` exactly and those
   beyond bounds the next place. Hence nobody reaches the end of the table, unless an
   orphan takes a place without standing there (`NoSlotMeansOrphan`).

`TypeCorrect`, `CountExact`, `LimitHolds`, `ZombieNeverLost`, `SlotsExclusive`,
`CountersExact` and `SlotForEveryone` project `Invariance` onto the properties the run
checks.

**ResolverProofs.** `LookupInv` adds to the types who holds the mutex (`MutexHeld`),
who owns each job (`JobOwned`: the caller until it abandons it, then the thread; `done`
and `abandoned` exclude each other) and where an address list can be (`AddrsHeld`).
`NeverUsedAfterFree` and `NeverLeaked` follow, for any number of abandoned lookups.

**NetTestProofs.** `Holding` says that the tests hold addresses only between a lookup
that returned 0 and the stage that frees them, that no call is open elsewhere, and that
the page is in its menu only when there is no worker; `PageOutlivesWorker` is a part of
it. With it every step of `NetTest` is a
step of `Resolver` or leaves it alone (`TestsUseResolver`), and the two results about
memory carry over to the whole program (`TestsSafe`).

**ReportProofs.** `ReportInv` says at which target the tests are (`index`), that those
before it are final, those after it pending, and which of them has which state while the
worker is at each of its positions; that the failure list is as long as the counters say
and increasing; that the events in the pipe, followed by the one the worker is about to
write, are those between what the page has seen and what the report says (`Behind`); and
that the event which ends the page is written last. `TestsTyped`, `ReportsConsistent`,
`LastEventIsLast`, `PageAgrees` and `DiagnosisStopsAtFirst` follow, for any number of
targets, addresses and events and any size of the pipe.

**RelayProofs.** `RelayInv` relates, byte by byte, what an end has sent with what the
other has received, what the worker holds in `chunk` and what is in the two socket
queues: the concatenation is a prefix of what was sent, and short of it only after a
reset. The refinement `RelayImplementsTunnel` (every step of a worker is a step of
`Tunnel` or a stutter) follows. Places in a stream are lost with a reset, so the traffic
table has a second invariant, `Metered`, which compares only lengths: what was counted,
what the worker has taken and not counted, and what waits in the socket are together no
more than the end has sent, and what has been passed on is at most a buffer ahead of the
count. No reset, timeout or kill breaks it; `RelayAccounts` combines the two.

**MonitorProofs.** `MonitorInv` says which tables can still change (those of forwarders
that run), what the mapping of the page can be at each of its positions, and that a rate
window is anchored at a total the same table has shown before, so that the difference is
what was carried since. `PageShowsServing` and `PageRatesSound` follow for any number of
forwarders replacing each other.

**FirewallProofs.** The first half is about the parsers, which fold over lists and
files. What a fold computes cannot be proved by induction over the data here, so
`ListRunExists` and `FileRunExists` turn each fold into the sequence of values it goes
through; a fact about the next value from the last one then holds of all, by the least
number where it fails (`Induct`). `ParsedIs` says what is made of a request: at most
`MaxBypass` networks, none twice, no host bits, exactly those of the entries, and usable
only when every part was understood. `SavedSame` and `EditedSame` say that a saved
configuration is read back as itself and that a file edited by hand means what the
request means; `SameWay` combines them. `DirectIs` carries this from configurations to
destinations: the networks before the redirection match what the request's text says is
direct, and nothing else.

The second half takes three invariants of the table, each containing the one before it:

1. `TInv`: types, which command belongs to which call, and that a writer's configuration
   is the one that its request parses to. `Typed` holds for any number of writers.
2. `DInv`: the rules are a beginning of those of the request being installed, the writer
   that appends has appended all rules before its position, and without the chain there
   is neither a rule nor a jump. REDIRECT comes last, so a beginning never redirects what
   is direct: `DirectAlways`, at every instant, under `[]Serial` (no two writers inside a
   call together, as the lock has it while systemd starts no forwarder; `firewall_race`
   shows what happens otherwise).
3. `EInv`: what a call has established at each command (`Established`): the tests that
   passed hold of the table, the rules are complete before the jump is looked for, a
   disable that looks for the chain has seen no jump or a failing command. It makes the
   call's outcome true when it returns (`OutStep`): for enable, all rules and a jump; for
   disable, no jump, or two commands that failed; for is_enabled, every test it passed
   holds, and if one did not and no command failed then the table is not what enable
   leaves.

`CallsTellTruth` is the result for any number of writers that take turns: whenever a
call returns, what it returns is borne out by the table (`Truthful`): for enable and
disable as above; a positive `is_enabled` says that exactly the destinations of the
installed request are direct and that they contain those of the request asked about. It
does not say that they are the same, because the code tests single rules and looks
neither for surplus ones nor at the order; the order `CheckTells` gets back from `DInv`.
What a call has returned remains true only as long as nobody else changes the table, so
the invariants of `firewall_serial` (`EnableIsComplete`, `DisableIsUnhooked`,
`CheckIsSound`, `CheckIsComplete`), which speak of the last result in every state, are
for one writer (`Alone`), as in that run. `DisableIsUnhooked` needs `MaxFaults <= 1`:
with two failures it is false (a known limit, below). `CheckIsComplete` speaks of checks
before which no command failed.

**LifecycleProofs.** The invariant `LifeInv` is built in layers, each inductive with
those below it, because an operation's correctness rests on what the statements before
the current one have established:

1. `Base`, whatever happens: `Stacks` (a controller's `calls` is a suffix of one of the
   programs, or of a function's statements on top of one, so its head determines what
   follows), `Locked` (who is between the grant and the release of the lock holds it),
   `Forwarders` (which files, port and lock byte a forwarder has in each state) and
   `Rules` (rules name a configuration that somebody installed).
2. `Calm`, as long as systemd has started none or once it has forgotten the unit, and
   while `LockIntact` holds: what a scan has found gone stays gone (`Scanned`,
   `Uninstalled`).
3. `Alone`, as long as systemd has started none: who forked whom (`Parents`), who was
   signalled (`Signalled`, `Leaving`), what a ready pipe and the port say (`Opening`),
   and `Known`: at most one forwarder is alive, and what the lock holder, between any two
   statements, knows of it. `Begun`, `Saved` and `Named` say what an operation has
   established so far of the forwarder, of the saved configuration and of the pid file.
4. `Unharmed`, when besides nothing has failed or crashed: `Stood` says that a forwarder
   stands behind the rules whenever the lock is free, and that otherwise the holder's
   program will see to it. Timeouts and kills are allowed, so it rests on what each
   program still has before it (`Ending`): after a start that fails, the rollback of
   `fp_enable_proxy`, which finds nobody left to stop; after a forwarder that was killed,
   the `fp_firewall_disable` of a disable or uninstall, which runs in any case.

Each layer is proved over four kinds of step: the steps that touch none of its
variables, the grant of the lock, the steps of the controller that holds it and those of
a forwarder. While one controller holds the lock the others only wait (`AloneStep`),
which reduces any number of controllers to one and the forwarders it finds.

All of them are about every behaviour of the specification, for any number of
controllers, operations, forwarders, failures, crashes and kills. `LifecycleTypes` and
`UninstallComplete` have no further condition. `SuccessMeansReady`, `DisableComplete` and
`ServesWhatIsSaved` speak of the states in which systemd has started no forwarder yet
(`units = 0`): with such a start the first is false (`lifecycle_ready`), because the
unit's forwarder works outside the lock. `NothingStranded` is `NoStrandedRules` as the
run checks it, which has that condition in itself and exempts failures, crashes and
`set_bypass` with a stale pid file. Two theorems say when even these cannot happen:
without failure, crash or kill there is a forwarder behind the rules (`Backed`), with
systemd if `set_bypass` is not called (`RulesHaveForwarder`), and with `set_bypass` as
long as systemd has started none (`BypassBacked`). Both conditions are needed: a stop of
the unit between the test of the pid file and `fp_firewall_enable` in `fp_set_bypass`
leaves rules with nothing behind them.

**Only model-checked**: everything temporal (`TermStops`, `ZombiesReaped`,
`OperationsEnd`, `CancelEnds`, `WorkerEnds`, `ServingIsShown`), since liveness under
fairness is beyond the prover, and the violations, which are counterexamples. Every
invariant that a passing run checks is stated by a theorem.

## 5. Not modelled

- The per-connection views of a snapshot (`stats.c` 276-296): the page can show a line
  that mixes two connections, which it draws anew 200 ms later.
- Workers that outlive a crashed forwarder (`PR_SET_PDEATHSIG` is cleared by `setuid`).
  `Relay.Killed` ends a worker at any point; none serves on after its forwarder.
- `fp_autostart_enable` and `_disable`: while systemd knows the unit the model lets it
  start at any moment, enabled or not, since it can also be started by hand.
- A controller that is killed in the middle of an operation, and an installation after
  an uninstall.
- A pid file that is read between `fopen` and the write: it counts as missing, which is
  also what the model's reader finds just before.
- Latencies and their median, speeds and byte counts of the network tests.
- The file of the interface language, drawing, text entry, translation, messages and
  `format.c`: no state of a property.

Known limits of the code that the models show and the properties exempt by name:
`fp_firewall_disable` misses a jump after two failing commands; `fp_firewall_is_enabled`
does not notice bypass rules that should be gone (`CheckSound`); `fp_set_bypass`
installs rules with nothing behind them when the pid file is stale, after a crash or a
failed disable (`NoStrandedRules`), or when the unit is stopped between
`operations.c:92` and `:93`; a forwarder whose `poll` or `accept` fails is named by the
pid file until it has removed it, so that an enable at that moment takes it for a
serving one (`crashed` in `ReadyBeforeSuccess`); `fp_uninstall` can return 0 with rules
left when systemd started a forwarder that was then killed between its two stops
(`UninstallRemoves`) and does not notice a failing `daemon-reload`; the unlinked lock
file (`LockIntact`); SIGBUS in a page that maps the table before it has a size
(`ServingIsShown`); the page that joins a worker after `poll` failed (`CancelEnds`).

## 6. Plan

Every module but `Tunnel`, which is abstract, has its proofs, and every invariant and
refinement that a passing run checks has its theorem. Worth adding: a theorem that
`Lifecycle` keeps writers of the table apart (its lock and the forwarders it waits for),
while systemd starts none, from which `Serial` would follow instead of being assumed.
