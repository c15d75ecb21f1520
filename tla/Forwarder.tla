------------------------------ MODULE Forwarder ------------------------------
(***************************************************************************)
(* The forwarder daemon's process pool (src/src/proxy.c) together with the *)
(* shared traffic table its workers write (src/src/stats.c).               *)
(*                                                                         *)
(* The parent runs fp_proxy_run's accept loop and forks one worker per     *)
(* connection.  SIGCHLD interrupts the loop anywhere it is not blocked and *)
(* runs reap_clients.  Workers scan the table for a free slot, publish     *)
(* their counters in it and give it back; a worker may be killed at any    *)
(* point.  One action is one system call or one group of stores that no    *)
(* other process can tell apart.                                           *)
(***************************************************************************)
EXTENDS Integers, FiniteSets

CONSTANTS
  Pid,         \* process ids the kernel may give to workers (and reuse)
  NoPid,       \* the value 0 of slot->pid
  MaxClients,  \* FP_MAX_CLIENTS: worker limit and number of slots
  MaxBytes     \* bound on the bytes one worker relays

ASSUME ForwarderAssumption ==
  /\ IsFiniteSet(Pid)
  /\ NoPid \notin Pid
  /\ MaxClients \in Nat \ {0}
  /\ MaxBytes \in Nat

Slots == 0 .. MaxClients - 1

VARIABLES
  main,           \* where fp_proxy_run is
  handler,        \* where reap_clients is ("idle": not running)
  child,          \* the pid waitpid returned inside reap_clients
  clearing,       \* slots fp_stats_clear_pid has zeroed but not yet freed
  keep_running,   \* proxy.c keep_running
  active_clients, \* proxy.c active_clients
  blocked,        \* SIGCHLD is in the parent's signal mask
  pending,        \* SIGCHLD is pending (signals of one kind coalesce)
  worker,         \* where each worker is
  index,          \* fp_stats_claim's index, later the worker's stats_slot
  active,         \* slots[].active
  pid,            \* slots[].pid
  bytes,          \* slots[].bytes_up + slots[].bytes_down
  relayed,        \* history: bytes the worker has really relayed
  orphaned        \* history: slots whose worker died with pid still 0

mainVars == <<main, keep_running, blocked>>
handlerVars == <<handler, child, clearing>>
slotVars == <<active, pid, bytes>>
workerVars == <<worker, index, relayed>>
vars == <<main, handler, child, clearing, keep_running, active_clients, blocked,
          pending, worker, index, active, pid, bytes, relayed, orphaned>>

MainStates == {"loop", "poll", "admit", "mask", "fork", "count", "unmask",
               "closing", "unmapped", "returned", "gone", "crashed"}
\* The parent has exited or been killed: its signals go nowhere any more.
Dead == {"gone", "crashed"}
HandlerStates == {"idle", "wait", "clear", "free", "drop"}
\* States in which a worker process is alive.
Alive == {"start", "scan", "owned", "serve", "freeing", "exiting"}
WorkerStates == Alive \cup {"none", "zombie", "reaped"}

\* The worker's stats_slot is -1 when its scan ran off the table.
HasSlot(p) == index[p] \in Slots
Workers == {p \in Pid : worker[p] # "none"}
Zombies == {p \in Pid : worker[p] = "zombie"}

-----------------------------------------------------------------------------
(* Faulty variants of definitions below, one per property: each is the       *)
(* definition with a plausible slip, and must break that property.           *)

\* The limit tested with > instead of >=.
AtLimit_OffByOne == active_clients > MaxClients

\* fork() without blocking SIGCHLD around it.
BlockSigchld_Unmasked ==
  /\ main = "mask" /\ handler = "idle"
  /\ main' = "fork"
  /\ UNCHANGED <<keep_running, blocked, active_clients, pending, orphaned>>
  /\ UNCHANGED handlerVars /\ UNCHANGED workerVars /\ UNCHANGED slotVars

\* poll() with no timeout sleeps through a SIGTERM that came before it.
PollTimeout_Infinite ==
  /\ main = "poll" /\ handler = "idle" /\ keep_running
  /\ main' = "loop"
  /\ UNCHANGED <<keep_running, blocked, active_clients, pending, orphaned>>
  /\ UNCHANGED handlerVars /\ UNCHANGED workerVars /\ UNCHANGED slotVars

\* One waitpid per SIGCHLD: if instead of while.
DropClient_Once ==
  /\ handler = "drop"
  /\ active_clients' = IF active_clients > 0 THEN active_clients - 1
                                             ELSE active_clients
  /\ worker' = [worker EXCEPT ![child] = "none"]
  /\ child' = NoPid
  /\ handler' = "idle"
  /\ UNCHANGED <<clearing, pending, index, relayed, orphaned>>
  /\ UNCHANGED mainVars /\ UNCHANGED slotVars

\* fp_stats_clear_pid does not compare the pid.
Stale_AnyPid(s) == active[s]

\* fp_stats_clear_pid forgets active.
FreeCleared_KeepsActive ==
  /\ handler = "free"
  /\ clearing' = {}
  /\ handler' = "drop"
  /\ UNCHANGED <<child, active_clients, pending, active, pid, bytes, orphaned>>
  /\ UNCHANGED mainVars /\ UNCHANGED workerVars

\* fp_stats_release stores active = 0 before the other fields as well as after.
ReleaseFields_ActiveFirst(p) ==
  /\ worker[p] = "serve" /\ HasSlot(p) /\ pid[index[p]] = p
  /\ active' = [active EXCEPT ![index[p]] = FALSE]
  /\ pid' = [pid EXCEPT ![index[p]] = NoPid]
  /\ bytes' = [bytes EXCEPT ![index[p]] = 0]
  /\ worker' = [worker EXCEPT ![p] = "freeing"]
  /\ UNCHANGED <<index, relayed, active_clients, pending, orphaned>>
  /\ UNCHANGED mainVars /\ UNCHANGED handlerVars

-----------------------------------------------------------------------------
(* fp_proxy_run.  The interrupted thread makes no step while a handler runs. *)

\* while (keep_running)
CheckRunning ==
  /\ main = "loop" /\ handler = "idle"
  /\ main' = IF keep_running THEN "poll" ELSE "closing"
  /\ UNCHANGED <<keep_running, blocked, active_clients, pending, orphaned>>
  /\ UNCHANGED handlerVars /\ UNCHANGED workerVars /\ UNCHANGED slotVars

\* poll() times out after 500 ms or is interrupted: back to the loop's test.
PollTimeout ==
  /\ main = "poll" /\ handler = "idle"
  /\ main' = "loop"
  /\ UNCHANGED <<keep_running, blocked, active_clients, pending, orphaned>>
  /\ UNCHANGED handlerVars /\ UNCHANGED workerVars /\ UNCHANGED slotVars

\* poll() or accept() fails for good: the loop is left.
PollFails ==
  /\ main = "poll" /\ handler = "idle"
  /\ main' = "closing"
  /\ UNCHANGED <<keep_running, blocked, active_clients, pending, orphaned>>
  /\ UNCHANGED handlerVars /\ UNCHANGED workerVars /\ UNCHANGED slotVars

\* A connection is accepted.
Accept ==
  /\ main = "poll" /\ handler = "idle"
  /\ main' = "admit"
  /\ UNCHANGED <<keep_running, blocked, active_clients, pending, orphaned>>
  /\ UNCHANGED handlerVars /\ UNCHANGED workerVars /\ UNCHANGED slotVars

\* if (active_clients >= FP_MAX_CLIENTS) close the connection.
AtLimit == active_clients >= MaxClients
Admit ==
  /\ main = "admit" /\ handler = "idle"
  /\ main' = IF AtLimit THEN "loop" ELSE "mask"
  /\ UNCHANGED <<keep_running, blocked, active_clients, pending, orphaned>>
  /\ UNCHANGED handlerVars /\ UNCHANGED workerVars /\ UNCHANGED slotVars

\* sigprocmask(SIG_BLOCK, SIGCHLD); on failure the connection is dropped.
BlockSigchld ==
  /\ main = "mask" /\ handler = "idle"
  /\ \/ main' = "fork" /\ blocked' = TRUE
     \/ main' = "loop" /\ blocked' = blocked
  /\ UNCHANGED <<keep_running, active_clients, pending, orphaned>>
  /\ UNCHANGED handlerVars /\ UNCHANGED workerVars /\ UNCHANGED slotVars

\* fork() succeeds with any pid the kernel has free.
Fork(p) ==
  /\ main = "fork" /\ handler = "idle"
  /\ worker[p] = "none"
  /\ main' = "count"
  /\ worker' = [worker EXCEPT ![p] = "start"]
  /\ index' = [index EXCEPT ![p] = 0]
  /\ relayed' = [relayed EXCEPT ![p] = 0]
  /\ UNCHANGED <<keep_running, blocked, active_clients, pending, orphaned>>
  /\ UNCHANGED handlerVars /\ UNCHANGED slotVars

\* fork() fails: nothing is counted.
ForkFails ==
  /\ main = "fork" /\ handler = "idle"
  /\ main' = "unmask"
  /\ UNCHANGED <<keep_running, blocked, active_clients, pending, orphaned>>
  /\ UNCHANGED handlerVars /\ UNCHANGED workerVars /\ UNCHANGED slotVars

\* if (child > 0) ++active_clients;
CountClient ==
  /\ main = "count" /\ handler = "idle"
  /\ main' = "unmask"
  /\ active_clients' = active_clients + 1
  /\ UNCHANGED <<keep_running, blocked, pending, orphaned>>
  /\ UNCHANGED handlerVars /\ UNCHANGED workerVars /\ UNCHANGED slotVars

\* sigprocmask(SIG_SETMASK, previous)
UnblockSigchld ==
  /\ main = "unmask" /\ handler = "idle"
  /\ main' = "loop"
  /\ blocked' = FALSE
  /\ UNCHANGED <<keep_running, active_clients, pending, orphaned>>
  /\ UNCHANGED handlerVars /\ UNCHANGED workerVars /\ UNCHANGED slotVars

\* The listener is closed, the pid file removed, and fp_stats_close unmaps the
\* table: stats_map still points at it.
Close ==
  /\ main = "closing" /\ handler = "idle"
  /\ main' = "unmapped"
  /\ UNCHANGED <<keep_running, blocked, active_clients, pending, orphaned>>
  /\ UNCHANGED handlerVars /\ UNCHANGED workerVars /\ UNCHANGED slotVars

\* fp_stats_close: stats_map = NULL; fp_proxy_run returns to main().
ForgetMap ==
  /\ main = "unmapped" /\ handler = "idle"
  /\ main' = "returned"
  /\ UNCHANGED <<keep_running, blocked, active_clients, pending, orphaned>>
  /\ UNCHANGED handlerVars /\ UNCHANGED workerVars /\ UNCHANGED slotVars

\* main(): signal(SIGCHLD, SIG_DFL); reap_clients never runs again.
DefaultSigchld ==
  /\ main = "returned" /\ handler = "idle"
  /\ main' = "gone"
  /\ UNCHANGED <<keep_running, blocked, active_clients, pending, orphaned>>
  /\ UNCHANGED handlerVars /\ UNCHANGED workerVars /\ UNCHANGED slotVars

\* SIGTERM or SIGINT: stop_proxy runs at any instruction of the parent.
StopProxy ==
  /\ main \notin Dead /\ keep_running
  /\ keep_running' = FALSE
  /\ UNCHANGED <<main, blocked, active_clients, pending, orphaned>>
  /\ UNCHANGED handlerVars /\ UNCHANGED workerVars /\ UNCHANGED slotVars

MainStep ==
  \/ CheckRunning \/ PollTimeout \/ PollFails \/ Accept \/ Admit \/ BlockSigchld
  \/ (\E p \in Pid : Fork(p)) \/ ForkFails \/ CountClient \/ UnblockSigchld
  \/ Close \/ ForgetMap \/ DefaultSigchld

-----------------------------------------------------------------------------
(* reap_clients, the SIGCHLD handler.  SIGCHLD is blocked while it runs.     *)

SigchldDelivered ==
  /\ pending /\ ~blocked /\ handler = "idle" /\ main \notin Dead
  /\ pending' = FALSE
  /\ handler' = "wait"
  /\ UNCHANGED <<child, clearing, active_clients, orphaned>>
  /\ UNCHANGED mainVars /\ UNCHANGED workerVars /\ UNCHANGED slotVars

\* waitpid(-1, NULL, WNOHANG) returns a dead worker.
WaitChild(p) ==
  /\ handler = "wait" /\ worker[p] = "zombie"
  /\ child' = p
  /\ worker' = [worker EXCEPT ![p] = "reaped"]
  /\ handler' = "clear"
  /\ UNCHANGED <<clearing, active_clients, pending, index, relayed, orphaned>>
  /\ UNCHANGED mainVars /\ UNCHANGED slotVars

\* waitpid returns 0 or -1: the handler returns.
WaitNone ==
  /\ handler = "wait" /\ \A p \in Pid : worker[p] # "zombie"
  /\ handler' = "idle"
  /\ UNCHANGED <<child, clearing, active_clients, pending, orphaned>>
  /\ UNCHANGED mainVars /\ UNCHANGED workerVars /\ UNCHANGED slotVars

\* fp_stats_clear_pid(child): the fields of its slot are zeroed ...
Stale(s) == active[s] /\ pid[s] = child
ClearPid ==
  /\ handler = "clear" /\ main \notin {"unmapped", "returned"}
  /\ clearing' = {s \in Slots : Stale(s)}
  /\ pid' = [s \in Slots |-> IF s \in clearing' THEN NoPid ELSE pid[s]]
  /\ bytes' = [s \in Slots |-> IF s \in clearing' THEN 0 ELSE bytes[s]]
  /\ handler' = "free"
  /\ UNCHANGED <<child, active_clients, pending, active, orphaned>>
  /\ UNCHANGED mainVars /\ UNCHANGED workerVars

\* ... and only then is active stored, with release order.
FreeCleared ==
  /\ handler = "free"
  /\ active' = [s \in Slots |-> active[s] /\ s \notin clearing]
  /\ clearing' = {}
  /\ handler' = "drop"
  /\ UNCHANGED <<child, active_clients, pending, pid, bytes, orphaned>>
  /\ UNCHANGED mainVars /\ UNCHANGED workerVars

\* stats_map == NULL: fp_stats_clear_pid returns at once.
ClearNothing ==
  /\ handler = "clear" /\ main = "returned"
  /\ handler' = "drop"
  /\ UNCHANGED <<child, clearing, active_clients, pending, orphaned>>
  /\ UNCHANGED mainVars /\ UNCHANGED workerVars /\ UNCHANGED slotVars

\* stats_map points at memory that is no longer mapped: SIGSEGV.
ClearUnmapped ==
  /\ handler = "clear" /\ main = "unmapped"
  /\ main' = "crashed"
  /\ handler' = "idle"
  /\ worker' = [worker EXCEPT ![child] = "none"]
  /\ child' = NoPid
  /\ UNCHANGED <<clearing, active_clients, pending, keep_running, blocked, index,
                 relayed, orphaned>>
  /\ UNCHANGED slotVars

\* if (active_clients > 0) --active_clients; then waitpid again.
DropClient ==
  /\ handler = "drop"
  /\ active_clients' = IF active_clients > 0 THEN active_clients - 1
                                             ELSE active_clients
  /\ worker' = [worker EXCEPT ![child] = "none"]
  /\ child' = NoPid
  /\ handler' = "wait"
  /\ UNCHANGED <<clearing, pending, index, relayed, orphaned>>
  /\ UNCHANGED mainVars /\ UNCHANGED slotVars

HandlerStep ==
  \/ (\E p \in Pid : WaitChild(p)) \/ WaitNone \/ ClearPid \/ FreeCleared
  \/ ClearNothing \/ ClearUnmapped \/ DropClient

-----------------------------------------------------------------------------
(* A worker: handle_client and the fp_stats_* calls it makes.               *)

\* Enters handle_client; fp_stats_claim starts at slot 0.
BeginClaim(p) ==
  /\ worker[p] = "start"
  /\ worker' = [worker EXCEPT ![p] = "scan"]
  /\ UNCHANGED <<index, relayed, active_clients, pending, orphaned>>
  /\ UNCHANGED mainVars /\ UNCHANGED handlerVars /\ UNCHANGED slotVars

\* No parent any more, or no original destination: exits without a slot.
GiveUp(p) ==
  /\ worker[p] = "start"
  /\ worker' = [worker EXCEPT ![p] = "exiting"]
  /\ UNCHANGED <<index, relayed, active_clients, pending, orphaned>>
  /\ UNCHANGED mainVars /\ UNCHANGED handlerVars /\ UNCHANGED slotVars

\* The compare-and-swap at index finds the slot taken: try the next one.
ScanNext(p) ==
  /\ worker[p] = "scan" /\ HasSlot(p) /\ active[index[p]]
  /\ index' = [index EXCEPT ![p] = @ + 1]
  /\ UNCHANGED <<worker, relayed, active_clients, pending, orphaned>>
  /\ UNCHANGED mainVars /\ UNCHANGED handlerVars /\ UNCHANGED slotVars

\* The compare-and-swap succeeds: active is 1, pid is not stored yet.
ClaimSlot(p) ==
  /\ worker[p] = "scan" /\ HasSlot(p) /\ ~active[index[p]]
  /\ active' = [active EXCEPT ![index[p]] = TRUE]
  /\ worker' = [worker EXCEPT ![p] = "owned"]
  /\ UNCHANGED <<index, relayed, active_clients, pending, pid, bytes, orphaned>>
  /\ UNCHANGED mainVars /\ UNCHANGED handlerVars

\* The table is exhausted: fp_stats_claim returns -1, the worker serves anyway.
ClaimNothing(p) ==
  /\ worker[p] = "scan" /\ ~HasSlot(p)
  /\ worker' = [worker EXCEPT ![p] = "serve"]
  /\ UNCHANGED <<index, relayed, active_clients, pending, orphaned>>
  /\ UNCHANGED mainVars /\ UNCHANGED handlerVars /\ UNCHANGED slotVars

\* The owner stores destination, pid and zero counters.
FillSlot(p) ==
  /\ worker[p] = "owned"
  /\ pid' = [pid EXCEPT ![index[p]] = p]
  /\ bytes' = [bytes EXCEPT ![index[p]] = 0]
  /\ worker' = [worker EXCEPT ![p] = "serve"]
  /\ UNCHANGED <<index, relayed, active_clients, pending, active, orphaned>>
  /\ UNCHANGED mainVars /\ UNCHANGED handlerVars

\* relay() moves a byte and calls fp_stats_add, which checks the slot first.
RelayByte(p) ==
  /\ worker[p] = "serve" /\ relayed[p] < MaxBytes
  /\ relayed' = [relayed EXCEPT ![p] = @ + 1]
  /\ bytes' = IF HasSlot(p) /\ active[index[p]] /\ pid[index[p]] = p
              THEN [bytes EXCEPT ![index[p]] = @ + 1]
              ELSE bytes
  /\ UNCHANGED <<worker, index, active_clients, pending, active, pid, orphaned>>
  /\ UNCHANGED mainVars /\ UNCHANGED handlerVars

\* fp_stats_release zeroes the fields, pid included ...
ReleaseFields(p) ==
  /\ worker[p] = "serve" /\ HasSlot(p) /\ pid[index[p]] = p
  /\ pid' = [pid EXCEPT ![index[p]] = NoPid]
  /\ bytes' = [bytes EXCEPT ![index[p]] = 0]
  /\ worker' = [worker EXCEPT ![p] = "freeing"]
  /\ UNCHANGED <<index, relayed, active_clients, pending, active, orphaned>>
  /\ UNCHANGED mainVars /\ UNCHANGED handlerVars

\* ... and then stores active = 0 with release order.
ReleaseActive(p) ==
  /\ worker[p] = "freeing"
  /\ active' = [active EXCEPT ![index[p]] = FALSE]
  /\ worker' = [worker EXCEPT ![p] = "exiting"]
  /\ UNCHANGED <<index, relayed, active_clients, pending, pid, bytes, orphaned>>
  /\ UNCHANGED mainVars /\ UNCHANGED handlerVars

\* fp_stats_release returns early: no slot, or not this process's slot.
ReleaseNothing(p) ==
  /\ worker[p] = "serve" /\ ~(HasSlot(p) /\ pid[index[p]] = p)
  /\ worker' = [worker EXCEPT ![p] = "exiting"]
  /\ UNCHANGED <<index, relayed, active_clients, pending, orphaned>>
  /\ UNCHANGED mainVars /\ UNCHANGED handlerVars /\ UNCHANGED slotVars

\* _exit(): the worker is a zombie until the parent waits for it.
Exit(p) ==
  /\ worker[p] = "exiting"
  /\ worker' = [worker EXCEPT ![p] = "zombie"]
  /\ pending' = TRUE
  /\ UNCHANGED <<index, relayed, active_clients, orphaned>>
  /\ UNCHANGED mainVars /\ UNCHANGED handlerVars /\ UNCHANGED slotVars

\* The worker is killed wherever it is (SIGTERM is SIG_DFL in a worker).
Die(p) ==
  /\ worker[p] \in Alive
  /\ worker' = [worker EXCEPT ![p] = "zombie"]
  /\ pending' = TRUE
  /\ orphaned' = IF worker[p] \in {"owned", "freeing"}
                 THEN orphaned \cup {index[p]} ELSE orphaned
  /\ UNCHANGED <<index, relayed, active_clients>>
  /\ UNCHANGED mainVars /\ UNCHANGED handlerVars /\ UNCHANGED slotVars

WorkerStep(p) ==
  \/ BeginClaim(p) \/ GiveUp(p) \/ ScanNext(p) \/ ClaimSlot(p) \/ ClaimNothing(p)
  \/ FillSlot(p) \/ RelayByte(p) \/ ReleaseFields(p) \/ ReleaseActive(p)
  \/ ReleaseNothing(p) \/ Exit(p)

-----------------------------------------------------------------------------
Init ==
  /\ main = "loop" /\ handler = "idle" /\ child = NoPid /\ clearing = {}
  /\ keep_running = TRUE /\ active_clients = 0
  /\ blocked = FALSE /\ pending = FALSE
  /\ worker = [p \in Pid |-> "none"]
  /\ index = [p \in Pid |-> 0]
  /\ relayed = [p \in Pid |-> 0]
  /\ active = [s \in Slots |-> FALSE]
  /\ pid = [s \in Slots |-> NoPid]
  /\ bytes = [s \in Slots |-> 0]
  /\ orphaned = {}

Next ==
  \/ MainStep
  \/ StopProxy
  \/ SigchldDelivered
  \/ HandlerStep
  \/ \E p \in Pid : WorkerStep(p)
  \/ \E p \in Pid : Die(p)

Spec == Init /\ [][Next]_vars

(***************************************************************************)
(* The kernel keeps scheduling the parent and its handler, poll() returns  *)
(* within 500 ms, and a pending unblocked signal is delivered at the next  *)
(* return to user mode: strong fairness, because the loop blocks and       *)
(* unblocks SIGCHLD for ever.  Nothing is assumed of the workers.          *)
(***************************************************************************)
Fairness ==
  /\ WF_vars(CheckRunning) /\ WF_vars(PollTimeout) /\ WF_vars(Admit)
  /\ WF_vars(BlockSigchld) /\ WF_vars(ForkFails \/ \E p \in Pid : Fork(p))
  /\ WF_vars(CountClient) /\ WF_vars(UnblockSigchld) /\ WF_vars(Close)
  /\ WF_vars(ForgetMap) /\ WF_vars(DefaultSigchld)
  /\ SF_vars(SigchldDelivered) /\ WF_vars(HandlerStep)

FairSpec == Spec /\ Fairness

-----------------------------------------------------------------------------
(* Properties.                                                               *)

\* Every variable keeps its type; active_clients never leaves 0 .. FP_MAX_CLIENTS.
TypeOK ==
  /\ main \in MainStates /\ handler \in HandlerStates
  /\ child \in Pid \cup {NoPid} /\ clearing \in SUBSET Slots
  /\ keep_running \in BOOLEAN /\ blocked \in BOOLEAN /\ pending \in BOOLEAN
  /\ active_clients \in 0 .. MaxClients
  /\ worker \in [Pid -> WorkerStates]
  /\ index \in [Pid -> 0 .. MaxClients]
  /\ relayed \in [Pid -> 0 .. MaxBytes]
  /\ active \in [Slots -> BOOLEAN]
  /\ pid \in [Slots -> Pid \cup {NoPid}]
  /\ bytes \in [Slots -> Nat]
  /\ orphaned \in SUBSET Slots

\* active_clients counts the worker processes exactly, whatever the order of
\* fork, exit, SIGCHLD and reap_clients; only between fork() and ++ is it one short.
ActiveClientsExact ==
  main # "crashed" =>
    Cardinality(Workers) = active_clients + (IF main = "count" THEN 1 ELSE 0)

\* The forwarder never has more than FP_MAX_CLIENTS workers, counting the dead
\* ones it has not waited for.
WorkerLimit == Cardinality(Workers) <= MaxClients

\* A dead worker is never forgotten: SIGCHLD is pending for it or the handler's
\* waitpid loop is still running, although signals coalesce.
NoLostZombie ==
  (Zombies # {} /\ main \notin Dead) => (pending \/ handler # "idle")

\* No two live workers hold the same slot of the table, and reap_clients never
\* frees a slot that a live worker holds.
Holders == {p \in Pid : worker[p] \in {"owned", "serve", "freeing"} /\ HasSlot(p)}
SlotExclusive ==
  /\ \A p, q \in Holders : index[p] = index[q] => p = q
  /\ \A p \in Holders : index[p] \notin clearing

\* While a worker relays through a slot, the slot is its own and shows exactly
\* the bytes it relayed: fp_stats_add never skips an update.
OwnCounters ==
  \A p \in Pid : (worker[p] = "serve" /\ HasSlot(p)) =>
    /\ active[index[p]] /\ pid[index[p]] = p
    /\ bytes[index[p]] = relayed[p]

\* The scan of fp_stats_claim takes no lock, yet a worker runs off the table's end
\* only when some earlier worker was killed with its slot taken and pid still 0.
NoSlotMeansOrphan ==
  orphaned = {} => \A p \in Pid : worker[p] \in Alive => HasSlot(p)

\* What the NULL test of fp_stats_clear_pid is for: reap_clients touches the table
\* only while it is mapped.
TouchesMappedTable == main # "crashed"

\* After SIGTERM or SIGINT the forwarder leaves its loop, wherever the signal hit.
TermStops == ~keep_running ~> main \in Dead

\* Every worker that dies is waited for, unless the forwarder ends first.
ZombiesReaped ==
  \A p \in Pid : worker[p] = "zombie" ~> (worker[p] # "zombie" \/ main \in Dead)

=============================================================================
