--------------------------- MODULE ForwarderProofs ---------------------------
(***************************************************************************)
(* Proofs about Forwarder for any number of pids, slots and bytes.         *)
(*                                                                         *)
(* Four invariants, each proved from the ones before it:                   *)
(*   Control   what the parent's and the handler's positions imply;        *)
(*   Counting  active_clients is the number of worker processes;           *)
(*   Ownership every taken slot of the table has exactly one owner;        *)
(*   Parking   a scan of the table never runs off its end.                 *)
(***************************************************************************)
EXTENDS Forwarder, FiniteSetTheorems, TLAPS

\* The worker has won a slot but not named itself in it yet, or has taken its name
\* off already.
Claimer(p) == worker[p] \in {"owned", "freeing"}

\* SIGCHLD is blocked exactly from before fork() to after ++active_clients, the
\* handler runs only when it is not, child is the one worker that has been waited
\* for and not yet accounted for, and a fork is preceded by the test of the limit.
Control ==
  /\ blocked <=> main \in {"fork", "count", "unmask"}
  /\ handler # "idle" => ~blocked /\ main \notin Dead
  /\ child # NoPid <=> handler \in {"clear", "free", "drop"}
  /\ \A p \in Pid : worker[p] = "reaped" <=> child = p
  /\ main \in {"mask", "fork", "count"} => active_clients < MaxClients
  /\ clearing # {} => handler = "free"
  /\ handler = "free" => main \notin {"unmapped", "returned"}
  /\ \A p \in Pid : Claimer(p) => HasSlot(p)

\* The count is exact while the forwarder lives, and never above the limit.
Counting == ActiveClientsExact /\ WorkerLimit

\* Once the table is unmapped reap_clients leaves dead workers' slots as they are.
Abandoned == main \in {"returned", "gone", "crashed"}

\* A claimer is the only owner of its slot.
ClaimersOwn ==
  /\ \A p \in Pid : Claimer(p) =>
       /\ active[index[p]] /\ pid[index[p]] = NoPid
       /\ index[p] \notin clearing /\ index[p] \notin orphaned
  /\ \A p, q \in Pid : Claimer(p) /\ Claimer(q) /\ index[p] = index[q] => p = q

\* A named slot is taken and belongs to the worker it names, until reap_clients has
\* zeroed the slots of that worker.
NamedOwn ==
  \A s \in Slots : pid[s] # NoPid =>
    /\ active[s] /\ index[pid[s]] = s
    /\ s \notin clearing /\ s \notin orphaned
    /\ worker[pid[s]] \in {"serve", "zombie", "reaped"} \/ (Abandoned /\ worker[pid[s]] = "none")
    /\ handler \in {"free", "drop"} => Abandoned \/ pid[s] # child

\* A slot that reap_clients is freeing, and one that a killed worker left, is taken
\* and nameless.
Leftovers ==
  /\ \A s \in clearing : active[s] /\ pid[s] = NoPid /\ s \notin orphaned /\ index[child] = s
  /\ \A s \in orphaned : active[s] /\ pid[s] = NoPid

FreshCounters == \A p \in Pid : worker[p] \in {"start", "scan", "owned"} => relayed[p] = 0

Ownership == ClaimersOwn /\ NamedOwn /\ Leftovers /\ OwnCounters /\ FreshCounters

\* Nothing but an owner keeps a slot taken.
TakenOwned ==
  \A s \in Slots : active[s] =>
    \/ s \in orphaned \/ s \in clearing \/ pid[s] # NoPid
    \/ \E p \in Pid : Claimer(p) /\ index[p] = s

\* The processes that can occupy a place in the table, and those at place q or after.
Parked == {p \in Pid : worker[p] # "none" \/ \E s \in Slots : pid[s] = p}
From(q) == {p \in Parked : index[p] >= q}

\* As in a car park where nobody drives past a free place: q places from the end of
\* the table are enough for all the workers that have come that far.
Parking ==
  /\ TakenOwned
  /\ orphaned = {} => \A q \in 0 .. MaxClients : Cardinality(From(q)) <= MaxClients - q

IInv == TypeOK /\ Control /\ Counting /\ NoLostZombie /\ Ownership /\ Parking

-----------------------------------------------------------------------------
(* Types and control.                                                        *)

\* The forwarder starts with its types right and no handler running.
LEMMA InitControl == Init => TypeOK /\ Control
<1> SUFFICES ASSUME Init PROVE TypeOK /\ Control
  OBVIOUS
<1> USE ForwarderAssumption DEF Init
<1>1. /\ main \in MainStates /\ handler \in HandlerStates
      /\ child \in Pid \cup {NoPid} /\ clearing \in SUBSET Slots
      /\ active_clients \in 0 .. MaxClients /\ orphaned \in SUBSET Slots
  BY DEF MainStates, HandlerStates
<1>2. keep_running \in BOOLEAN /\ blocked \in BOOLEAN /\ pending \in BOOLEAN
  BY Zenon
<1>3. /\ worker \in [Pid -> WorkerStates] /\ index \in [Pid -> 0 .. MaxClients]
      /\ relayed \in [Pid -> 0 .. MaxBytes]
  BY DEF WorkerStates
<1>4. /\ active \in [Slots -> BOOLEAN] /\ pid \in [Slots -> Pid \cup {NoPid}]
      /\ bytes \in [Slots -> Nat]
  OBVIOUS
<1>5. ~blocked /\ main = "loop" /\ handler = "idle" /\ child = NoPid /\ clearing = {}
      /\ \A p \in Pid : worker[p] = "none"
  BY Zenon
<1>6. Control
  BY <1>5 DEF Control, Claimer
<1> QED
  BY <1>1, <1>2, <1>3, <1>4, <1>6 DEF TypeOK

\* Every step of the parent, of reap_clients and of a worker keeps the types and
\* the relation between the two positions of the parent.
LEMMA NextControl == TypeOK /\ Control /\ [Next]_vars => TypeOK' /\ Control'
<1> SUFFICES ASSUME TypeOK, Control, [Next]_vars PROVE TypeOK' /\ Control'
  OBVIOUS
<1> USE ForwarderAssumption DEF TypeOK, Control, MainStates, HandlerStates, WorkerStates,
      Alive, Dead, Slots, HasSlot, Claimer, mainVars, handlerVars, workerVars, slotVars
<1>1. CASE CheckRunning
  BY <1>1 DEF CheckRunning
<1>2. CASE PollTimeout
  BY <1>2 DEF PollTimeout
<1>3. CASE PollFails
  BY <1>3 DEF PollFails
<1>4. CASE Accept
  BY <1>4 DEF Accept
<1>5. CASE Admit
  BY <1>5 DEF Admit, AtLimit
<1>6. CASE BlockSigchld
  <2>1. TypeOK'
    BY <1>6 DEF BlockSigchld
  <2>2. CASE main' = "fork" /\ blocked' = TRUE
    BY <1>6, <2>2 DEF BlockSigchld
  <2>3. CASE main' = "loop" /\ blocked' = blocked
    BY <1>6, <2>3 DEF BlockSigchld
  <2> QED
    BY <1>6, <2>1, <2>2, <2>3 DEF BlockSigchld
<1>7. CASE ForkFails
  BY <1>7 DEF ForkFails
<1>8. CASE CountClient
  BY <1>8 DEF CountClient
<1>9. CASE UnblockSigchld
  BY <1>9 DEF UnblockSigchld
<1>10. CASE Close
  BY <1>10 DEF Close
<1>11. CASE ForgetMap
  BY <1>11 DEF ForgetMap
<1>12. CASE DefaultSigchld
  BY <1>12 DEF DefaultSigchld
<1>13. CASE StopProxy
  BY <1>13 DEF StopProxy
<1>14. CASE SigchldDelivered
  BY <1>14 DEF SigchldDelivered
<1>15. ASSUME NEW p \in Pid, Fork(p) PROVE TypeOK' /\ Control'
  BY <1>15 DEF Fork
<1>16. ASSUME NEW p \in Pid, WaitChild(p) PROVE TypeOK' /\ Control'
  BY <1>16 DEF WaitChild
<1>17. CASE WaitNone
  BY <1>17 DEF WaitNone
<1>18. CASE ClearPid
  BY <1>18 DEF ClearPid, Stale
<1>19. CASE FreeCleared
  BY <1>19 DEF FreeCleared
<1>20. CASE ClearNothing
  BY <1>20 DEF ClearNothing
<1>21. CASE ClearUnmapped
  BY <1>21 DEF ClearUnmapped
<1>22. CASE DropClient
  BY SMTT(30), <1>22 DEF DropClient
<1>23. ASSUME NEW p \in Pid, BeginClaim(p) PROVE TypeOK' /\ Control'
  BY <1>23 DEF BeginClaim
<1>24. ASSUME NEW p \in Pid, GiveUp(p) PROVE TypeOK' /\ Control'
  BY <1>24 DEF GiveUp
<1>25. ASSUME NEW p \in Pid, ScanNext(p) PROVE TypeOK' /\ Control'
  <2>1. index[p] + 1 \in 0 .. MaxClients
    BY <1>25 DEF ScanNext
  <2>2. index' \in [Pid -> 0 .. MaxClients]
    BY <1>25, <2>1 DEF ScanNext
  <2>3. TypeOK'
    BY <1>25, <2>2 DEF ScanNext
  <2>4. Control'
    BY <1>25 DEF ScanNext
  <2> QED
    BY <2>3, <2>4
<1>26. ASSUME NEW p \in Pid, ClaimSlot(p) PROVE TypeOK' /\ Control'
  BY <1>26 DEF ClaimSlot
<1>27. ASSUME NEW p \in Pid, ClaimNothing(p) PROVE TypeOK' /\ Control'
  BY <1>27 DEF ClaimNothing
<1>28. ASSUME NEW p \in Pid, FillSlot(p) PROVE TypeOK' /\ Control'
  BY <1>28 DEF FillSlot
<1>29. ASSUME NEW p \in Pid, RelayByte(p) PROVE TypeOK' /\ Control'
  <2>1. relayed' \in [Pid -> 0 .. MaxBytes]
    <3>1. relayed[p] + 1 \in 0 .. MaxBytes
      BY <1>29 DEF RelayByte
    <3> QED
      BY <1>29, <3>1 DEF RelayByte
  <2>2. bytes' \in [Slots -> Nat]
    <3>1. CASE HasSlot(p)
      <4>1. bytes[index[p]] + 1 \in Nat
        BY <3>1
      <4> QED
        BY <1>29, <4>1 DEF RelayByte
    <3>2. CASE ~HasSlot(p)
      BY <1>29, <3>2 DEF RelayByte
    <3> QED
      BY <3>1, <3>2
  <2>3. TypeOK'
    BY <1>29, <2>1, <2>2 DEF RelayByte
  <2>4. Control'
    BY <1>29 DEF RelayByte
  <2> QED
    BY <2>3, <2>4
<1>30. ASSUME NEW p \in Pid, ReleaseFields(p) PROVE TypeOK' /\ Control'
  BY <1>30 DEF ReleaseFields
<1>31. ASSUME NEW p \in Pid, ReleaseActive(p) PROVE TypeOK' /\ Control'
  BY <1>31 DEF ReleaseActive
<1>32. ASSUME NEW p \in Pid, ReleaseNothing(p) PROVE TypeOK' /\ Control'
  BY <1>32 DEF ReleaseNothing
<1>33. ASSUME NEW p \in Pid, Exit(p) PROVE TypeOK' /\ Control'
  BY <1>33 DEF Exit
<1>34. ASSUME NEW p \in Pid, Die(p) PROVE TypeOK' /\ Control'
  <2>1. orphaned' \in SUBSET Slots
    <3>1. worker[p] \in {"owned", "freeing"} => index[p] \in Slots
      OBVIOUS
    <3> QED
      BY <1>34, <3>1 DEF Die
  <2>2. TypeOK'
    BY <1>34, <2>1 DEF Die
  <2>3. Control'
    BY <1>34 DEF Die
  <2> QED
    BY <2>2, <2>3
<1>35. CASE UNCHANGED vars
  BY <1>35 DEF vars
<1> QED
  BY <1>1, <1>2, <1>3, <1>4, <1>5, <1>6, <1>7, <1>8, <1>9, <1>10, <1>11, <1>12, <1>13,
     <1>14, <1>15, <1>16, <1>17, <1>18, <1>19, <1>20, <1>21, <1>22, <1>23, <1>24,
     <1>25, <1>26, <1>27, <1>28, <1>29, <1>30, <1>31, <1>32, <1>33, <1>34, <1>35
  DEF Next, MainStep, HandlerStep, WorkerStep

\* Types and control hold for ever, for any number of workers, slots and bytes.
THEOREM ControlHolds == Spec => [](TypeOK /\ Control)
<1>1. Init => TypeOK /\ Control
  BY InitControl
<1>2. TypeOK /\ Control /\ [Next]_vars => (TypeOK /\ Control)'
  BY NextControl
<1> QED
  BY <1>1, <1>2, PTL DEF Spec

\* Every variable of fp_proxy_run, reap_clients and the traffic table keeps its type,
\* whatever the number of workers and slots; in particular active_clients stays
\* within 0 .. FP_MAX_CLIENTS.
THEOREM TypeCorrect == Spec => []TypeOK
  BY ControlHolds, PTL

-----------------------------------------------------------------------------
(* Counting.                                                                 *)

\* What most steps do to the count: nothing.
SameCount ==
  /\ Workers' = Workers /\ active_clients' = active_clients
  /\ main' = "count" <=> main = "count"
  /\ main' = "crashed" <=> main = "crashed"

\* Only fork(), ++active_clients and the end of reap_clients' loop body touch the
\* number of workers or its count.
LEMMA CountSteps ==
  ASSUME TypeOK, Control, [Next]_vars
  PROVE  \/ SameCount
         \/ \E p \in Pid : Fork(p)
         \/ CountClient \/ DropClient \/ ClearUnmapped
<1> USE DEF TypeOK, Control, SameCount, Workers, Dead,
      mainVars, handlerVars, workerVars, slotVars
<1>1. CASE CheckRunning
  BY <1>1 DEF CheckRunning
<1>2. CASE PollTimeout
  BY <1>2 DEF PollTimeout
<1>3. CASE PollFails
  BY <1>3 DEF PollFails
<1>4. CASE Accept
  BY <1>4 DEF Accept
<1>5. CASE Admit
  BY <1>5 DEF Admit
<1>6. CASE BlockSigchld
  BY <1>6 DEF BlockSigchld
<1>7. CASE ForkFails
  BY <1>7 DEF ForkFails
<1>8. CASE UnblockSigchld
  BY <1>8 DEF UnblockSigchld
<1>9. CASE Close
  BY <1>9 DEF Close
<1>10. CASE ForgetMap
  BY <1>10 DEF ForgetMap
<1>11. CASE DefaultSigchld
  BY <1>11 DEF DefaultSigchld
<1>12. CASE StopProxy
  BY <1>12 DEF StopProxy
<1>13. CASE SigchldDelivered
  BY <1>13 DEF SigchldDelivered
<1>14. CASE WaitNone
  BY <1>14 DEF WaitNone
<1>15. CASE ClearPid
  BY <1>15 DEF ClearPid
<1>16. CASE FreeCleared
  BY <1>16 DEF FreeCleared
<1>17. CASE ClearNothing
  BY <1>17 DEF ClearNothing
<1>18. ASSUME NEW p \in Pid, WaitChild(p) PROVE SameCount
  BY <1>18 DEF WaitChild
<1>19. ASSUME NEW p \in Pid, BeginClaim(p) PROVE SameCount
  BY <1>19 DEF BeginClaim
<1>20. ASSUME NEW p \in Pid, GiveUp(p) PROVE SameCount
  BY <1>20 DEF GiveUp
<1>21. ASSUME NEW p \in Pid, ScanNext(p) PROVE SameCount
  BY <1>21 DEF ScanNext
<1>22. ASSUME NEW p \in Pid, ClaimSlot(p) PROVE SameCount
  BY <1>22 DEF ClaimSlot
<1>23. ASSUME NEW p \in Pid, ClaimNothing(p) PROVE SameCount
  BY <1>23 DEF ClaimNothing
<1>24. ASSUME NEW p \in Pid, FillSlot(p) PROVE SameCount
  BY <1>24 DEF FillSlot
<1>25. ASSUME NEW p \in Pid, RelayByte(p) PROVE SameCount
  BY <1>25 DEF RelayByte
<1>26. ASSUME NEW p \in Pid, ReleaseFields(p) PROVE SameCount
  BY <1>26 DEF ReleaseFields
<1>27. ASSUME NEW p \in Pid, ReleaseActive(p) PROVE SameCount
  BY <1>27 DEF ReleaseActive
<1>28. ASSUME NEW p \in Pid, ReleaseNothing(p) PROVE SameCount
  BY <1>28 DEF ReleaseNothing
<1>29. ASSUME NEW p \in Pid, Exit(p) PROVE SameCount
  BY <1>29 DEF Exit
<1>30. ASSUME NEW p \in Pid, Die(p) PROVE SameCount
  BY <1>30 DEF Die, Alive
<1>31. CASE UNCHANGED vars
  BY <1>31 DEF vars
<1> QED
  BY <1>1, <1>2, <1>3, <1>4, <1>5, <1>6, <1>7, <1>8, <1>9, <1>10, <1>11, <1>12, <1>13,
     <1>14, <1>15, <1>16, <1>17, <1>18, <1>19, <1>20, <1>21, <1>22, <1>23, <1>24,
     <1>25, <1>26, <1>27, <1>28, <1>29, <1>30, <1>31
  DEF Next, MainStep, HandlerStep, WorkerStep

\* The workers are among finitely many pids, so they can be counted.
LEMMA WorkersFinite == IsFiniteSet(Workers) /\ Cardinality(Workers) \in Nat
  BY ForwarderAssumption, FS_Subset, FS_CardinalityType DEF Workers

\* fork() adds one process, the handler's loop body takes one away, and the count
\* follows within the section where SIGCHLD is blocked.
LEMMA NextCounting == TypeOK /\ Control /\ Counting /\ [Next]_vars => Counting'
<1> SUFFICES ASSUME TypeOK, Control, Counting, [Next]_vars PROVE Counting'
  OBVIOUS
<1> USE ForwarderAssumption, WorkersFinite DEF TypeOK, Control, Counting, ActiveClientsExact, WorkerLimit
<1>1. CASE SameCount
  BY <1>1 DEF SameCount
<1>2. ASSUME NEW p \in Pid, Fork(p) PROVE Counting'
  <2>1. p \notin Workers /\ Workers' = Workers \cup {p}
    BY <1>2 DEF Fork, Workers
  <2>2. Cardinality(Workers') = Cardinality(Workers) + 1
    BY <2>1, FS_AddElement
  <2>3. main = "fork" /\ main' = "count" /\ active_clients' = active_clients
    BY <1>2 DEF Fork
  <2> QED
    BY <2>2, <2>3
<1>3. CASE CountClient
  <2>1. Workers' = Workers
    BY <1>3 DEF CountClient, Workers, workerVars
  <2>2. main = "count" /\ main' = "unmask" /\ active_clients' = active_clients + 1
    BY <1>3 DEF CountClient
  <2> QED
    BY <2>1, <2>2
<1>4. ASSUME handler \in {"clear", "drop"}, worker' = [worker EXCEPT ![child] = "none"]
      PROVE  Cardinality(Workers) > 0 /\ Cardinality(Workers') = Cardinality(Workers) - 1
  <2>1. child \in Workers
    BY <1>4 DEF Workers
  <2>2. Workers' = Workers \ {child}
    BY <1>4 DEF Workers
  <2>3. Cardinality(Workers) # 0
    BY <2>1, FS_EmptySet
  <2>4. Cardinality(Workers') = Cardinality(Workers) - 1
    BY <2>1, <2>2, FS_RemoveElement
  <2> QED
    BY <2>3, <2>4
<1>5. CASE DropClient
  <2>1. Cardinality(Workers) > 0 /\ Cardinality(Workers') = Cardinality(Workers) - 1
    BY <1>4, <1>5 DEF DropClient
  <2>2. main \notin {"count", "crashed"} /\ main' = main
    BY <1>5 DEF DropClient, mainVars, Dead
  <2>3. active_clients' = active_clients - 1
    BY <1>5, <2>1, <2>2 DEF DropClient
  <2> QED
    BY <2>1, <2>2, <2>3
<1>6. CASE ClearUnmapped
  <2>1. Cardinality(Workers') = Cardinality(Workers) - 1
    BY <1>4, <1>6 DEF ClearUnmapped
  <2> QED
    BY <1>6, <2>1 DEF ClearUnmapped
<1> QED
  BY <1>1, <1>2, <1>3, <1>5, <1>6, CountSteps

\* The count is right and within the limit in every reachable state.
LEMMA CountingHolds == Spec => []Counting
<1>1. Init => Counting
  <2> SUFFICES ASSUME Init PROVE Counting
    OBVIOUS
  <2>1. Workers = {}
    BY DEF Init, Workers
  <2> QED
    BY <2>1, FS_EmptySet, ForwarderAssumption DEF Init, Counting, ActiveClientsExact,
       WorkerLimit
<1>2. TypeOK /\ Control /\ Counting /\ [Next]_vars => Counting'
  BY NextCounting
<1> QED
  BY <1>1, <1>2, ControlHolds, PTL DEF Spec

\* active_clients is the exact number of worker processes, zombies included, at every
\* point of the accept loop and of reap_clients; the one exception is the step between
\* fork() and ++active_clients, where SIGCHLD is blocked.
THEOREM CountExact == Spec => []ActiveClientsExact
<1>1. Counting => ActiveClientsExact
  BY DEF Counting
<1> QED
  BY <1>1, CountingHolds, PTL

\* FP_MAX_CLIENTS bounds the worker processes, not only the counter.
THEOREM LimitHolds == Spec => []WorkerLimit
<1>1. Counting => WorkerLimit
  BY DEF Counting
<1> QED
  BY <1>1, CountingHolds, PTL

-----------------------------------------------------------------------------
(* Dead workers.                                                             *)

\* SIGCHLD stays pending, or the waitpid loop stays entered, as long as there is a
\* dead worker to wait for.
LEMMA NextNoLostZombie ==
  TypeOK /\ Control /\ NoLostZombie /\ [Next]_vars => NoLostZombie'
<1> SUFFICES ASSUME TypeOK, Control, NoLostZombie, [Next]_vars PROVE NoLostZombie'
  OBVIOUS
<1> USE DEF TypeOK, Control, NoLostZombie, Zombies, Dead,
      mainVars, handlerVars, workerVars, slotVars
<1>1. CASE CheckRunning
  BY <1>1 DEF CheckRunning
<1>2. CASE PollTimeout
  BY <1>2 DEF PollTimeout
<1>3. CASE PollFails
  BY <1>3 DEF PollFails
<1>4. CASE Accept
  BY <1>4 DEF Accept
<1>5. CASE Admit
  BY <1>5 DEF Admit
<1>6. CASE BlockSigchld
  BY <1>6 DEF BlockSigchld
<1>7. CASE ForkFails
  BY <1>7 DEF ForkFails
<1>8. CASE CountClient
  BY <1>8 DEF CountClient
<1>9. CASE UnblockSigchld
  BY <1>9 DEF UnblockSigchld
<1>10. CASE Close
  BY <1>10 DEF Close
<1>11. CASE ForgetMap
  BY <1>11 DEF ForgetMap
<1>12. CASE DefaultSigchld
  BY <1>12 DEF DefaultSigchld
<1>13. CASE StopProxy
  BY <1>13 DEF StopProxy
<1>14. CASE SigchldDelivered
  BY <1>14 DEF SigchldDelivered
<1>15. CASE WaitNone
  BY <1>15 DEF WaitNone
<1>16. CASE ClearPid
  BY <1>16 DEF ClearPid
<1>17. CASE FreeCleared
  BY <1>17 DEF FreeCleared
<1>18. CASE ClearNothing
  BY <1>18 DEF ClearNothing
<1>19. CASE ClearUnmapped
  BY <1>19 DEF ClearUnmapped
<1>20. CASE DropClient
  BY <1>20 DEF DropClient
<1>21. ASSUME NEW p \in Pid, Fork(p) PROVE NoLostZombie'
  BY <1>21 DEF Fork
<1>22. ASSUME NEW p \in Pid, WaitChild(p) PROVE NoLostZombie'
  BY <1>22 DEF WaitChild
<1>23. ASSUME NEW p \in Pid, BeginClaim(p) PROVE NoLostZombie'
  BY <1>23 DEF BeginClaim
<1>24. ASSUME NEW p \in Pid, GiveUp(p) PROVE NoLostZombie'
  BY <1>24 DEF GiveUp
<1>25. ASSUME NEW p \in Pid, ScanNext(p) PROVE NoLostZombie'
  BY <1>25 DEF ScanNext
<1>26. ASSUME NEW p \in Pid, ClaimSlot(p) PROVE NoLostZombie'
  BY <1>26 DEF ClaimSlot
<1>27. ASSUME NEW p \in Pid, ClaimNothing(p) PROVE NoLostZombie'
  BY <1>27 DEF ClaimNothing
<1>28. ASSUME NEW p \in Pid, FillSlot(p) PROVE NoLostZombie'
  BY <1>28 DEF FillSlot
<1>29. ASSUME NEW p \in Pid, RelayByte(p) PROVE NoLostZombie'
  BY <1>29 DEF RelayByte
<1>30. ASSUME NEW p \in Pid, ReleaseFields(p) PROVE NoLostZombie'
  BY <1>30 DEF ReleaseFields
<1>31. ASSUME NEW p \in Pid, ReleaseActive(p) PROVE NoLostZombie'
  BY <1>31 DEF ReleaseActive
<1>32. ASSUME NEW p \in Pid, ReleaseNothing(p) PROVE NoLostZombie'
  BY <1>32 DEF ReleaseNothing
<1>33. ASSUME NEW p \in Pid, Exit(p) PROVE NoLostZombie'
  BY <1>33 DEF Exit
<1>34. ASSUME NEW p \in Pid, Die(p) PROVE NoLostZombie'
  BY <1>34 DEF Die
<1>35. CASE UNCHANGED vars
  BY <1>35 DEF vars
<1> QED
  BY <1>1, <1>2, <1>3, <1>4, <1>5, <1>6, <1>7, <1>8, <1>9, <1>10, <1>11, <1>12, <1>13,
     <1>14, <1>15, <1>16, <1>17, <1>18, <1>19, <1>20, <1>21, <1>22, <1>23, <1>24,
     <1>25, <1>26, <1>27, <1>28, <1>29, <1>30, <1>31, <1>32, <1>33, <1>34, <1>35
  DEF Next, MainStep, HandlerStep, WorkerStep

\* Although signals of one kind coalesce, no dead worker is ever left with neither a
\* pending SIGCHLD nor a running reap_clients to find it.
THEOREM ZombieNeverLost == Spec => []NoLostZombie
<1>1. Init => NoLostZombie
  BY DEF Init, NoLostZombie, Zombies
<1>2. TypeOK /\ Control /\ NoLostZombie /\ [Next]_vars => NoLostZombie'
  BY NextNoLostZombie
<1> QED
  BY <1>1, <1>2, ControlHolds, PTL DEF Spec

-----------------------------------------------------------------------------
(* Ownership of the slots.                                                   *)

\* What the accept loop and most of the handler do to the table and to those who
\* own its slots: nothing.
SameTable ==
  /\ UNCHANGED <<worker, index, active, pid, bytes, relayed, orphaned, clearing, child>>
  /\ Abandoned => Abandoned'
  /\ handler' \in {"free", "drop"} => Abandoned' \/ handler \in {"free", "drop"}

\* A step that leaves the table and its owners alone leaves the ownership of the slots
\* alone, the accept loop of fp_proxy_run included.
LEMMA SameTableOwnership ==
  ASSUME TypeOK, Control, Ownership, SameTable PROVE Ownership'
<1>1. ClaimersOwn' /\ Leftovers' /\ OwnCounters' /\ FreshCounters'
  BY DEF SameTable, Ownership, ClaimersOwn, Leftovers, OwnCounters, FreshCounters,
     Claimer, HasSlot
<1>2. NamedOwn'
  BY DEF SameTable, Ownership, NamedOwn
<1> QED
  BY <1>1, <1>2 DEF Ownership

\* fp_stats_claim, fp_stats_release and fp_stats_clear_pid keep one owner per taken
\* slot: the compare-and-swap gives it, the release store of active takes it back.
LEMMA NextOwnership == TypeOK /\ Control /\ Ownership /\ [Next]_vars => Ownership'
<1> SUFFICES ASSUME TypeOK, Control, Ownership, [Next]_vars PROVE Ownership'
  OBVIOUS
<1>0. ASSUME SameTable PROVE Ownership'
  BY <1>0, SameTableOwnership
<1> USE DEF SameTable, Abandoned, mainVars, handlerVars, workerVars, slotVars
<1>1. CASE CheckRunning
  BY <1>0, <1>1 DEF CheckRunning
<1>2. CASE PollTimeout
  BY <1>0, <1>2 DEF PollTimeout
<1>3. CASE PollFails
  BY <1>0, <1>3 DEF PollFails
<1>4. CASE Accept
  BY <1>0, <1>4 DEF Accept
<1>5. CASE Admit
  BY <1>0, <1>5 DEF Admit
<1>6. CASE BlockSigchld
  BY <1>0, <1>6 DEF BlockSigchld
<1>7. CASE ForkFails
  BY <1>0, <1>7 DEF ForkFails
<1>8. CASE CountClient
  BY <1>0, <1>8 DEF CountClient
<1>9. CASE UnblockSigchld
  BY <1>0, <1>9 DEF UnblockSigchld
<1>10. CASE Close
  BY <1>0, <1>10 DEF Close
<1>11. CASE ForgetMap
  BY <1>0, <1>11 DEF ForgetMap
<1>12. CASE DefaultSigchld
  BY <1>0, <1>12 DEF DefaultSigchld
<1>13. CASE StopProxy
  BY <1>0, <1>13 DEF StopProxy
<1>14. CASE SigchldDelivered
  BY <1>0, <1>14 DEF SigchldDelivered
<1>15. CASE WaitNone
  BY <1>0, <1>15 DEF WaitNone
<1>16. CASE ClearNothing
  BY <1>0, <1>16 DEF ClearNothing
<1>17. CASE UNCHANGED vars
  BY <1>0, <1>17 DEF vars
<1> USE ForwarderAssumption DEF TypeOK, Control, Ownership, Claimer, ClaimersOwn, NamedOwn, Leftovers, OwnCounters,
      FreshCounters, HasSlot
<1>18. CASE ClearPid
  <2>1. child \in Pid /\ worker[child] = "reaped" /\ clearing = {} /\ handler' = "free"
    BY <1>18 DEF ClearPid
  <2>2. \A s \in Slots : s \in clearing' <=> active[s] /\ pid[s] = child
    BY <1>18 DEF ClearPid, Stale
  <2>3. \A s \in Slots : pid'[s] = IF s \in clearing' THEN NoPid ELSE pid[s]
    BY <1>18 DEF ClearPid
  <2>4. \A s \in Slots : bytes'[s] = IF s \in clearing' THEN 0 ELSE bytes[s]
    BY <1>18 DEF ClearPid
  <2>5. clearing' \subseteq Slots /\ UNCHANGED <<worker, index, relayed, active, orphaned, child, main>>
    BY <1>18 DEF ClearPid
  <2>6. ClaimersOwn'
    BY <2>1, <2>2, <2>3, <2>5
  <2>7. NamedOwn'
    BY <2>1, <2>2, <2>3, <2>5
  <2>8. Leftovers'
    BY <2>1, <2>2, <2>3, <2>5
  <2>9. OwnCounters'
    BY <2>1, <2>2, <2>3, <2>4, <2>5
  <2>10. FreshCounters'
    BY <2>5
  <2> QED
    BY <2>6, <2>7, <2>8, <2>9, <2>10
<1>19. CASE FreeCleared
  BY <1>19 DEF FreeCleared
<1>20. CASE ClearUnmapped
  BY <1>20 DEF ClearUnmapped
<1>21. CASE DropClient
  BY <1>21 DEF DropClient
<1>22. ASSUME NEW p \in Pid, Fork(p) PROVE Ownership'
  BY <1>22 DEF Fork
<1>23. ASSUME NEW p \in Pid, WaitChild(p) PROVE Ownership'
  BY <1>23 DEF WaitChild
<1>24. ASSUME NEW p \in Pid, BeginClaim(p) PROVE Ownership'
  BY <1>24 DEF BeginClaim
<1>25. ASSUME NEW p \in Pid, GiveUp(p) PROVE Ownership'
  BY <1>25 DEF GiveUp
<1>26. ASSUME NEW p \in Pid, ScanNext(p) PROVE Ownership'
  BY <1>26 DEF ScanNext
<1>27. ASSUME NEW p \in Pid, ClaimSlot(p) PROVE Ownership'
  BY <1>27 DEF ClaimSlot
<1>28. ASSUME NEW p \in Pid, ClaimNothing(p) PROVE Ownership'
  BY <1>28 DEF ClaimNothing
<1>29. ASSUME NEW p \in Pid, FillSlot(p) PROVE Ownership'
  BY <1>29 DEF FillSlot
<1>30. ASSUME NEW p \in Pid, RelayByte(p) PROVE Ownership'
  BY <1>30 DEF RelayByte
<1>31. ASSUME NEW p \in Pid, ReleaseFields(p) PROVE Ownership'
  BY <1>31 DEF ReleaseFields
<1>32. ASSUME NEW p \in Pid, ReleaseActive(p) PROVE Ownership'
  BY <1>32 DEF ReleaseActive
<1>33. ASSUME NEW p \in Pid, ReleaseNothing(p) PROVE Ownership'
  BY <1>33 DEF ReleaseNothing
<1>34. ASSUME NEW p \in Pid, Exit(p) PROVE Ownership'
  BY <1>34 DEF Exit
<1>35. ASSUME NEW p \in Pid, Die(p) PROVE Ownership'
  BY <1>35 DEF Die
<1> QED
  BY <1>1, <1>2, <1>3, <1>4, <1>5, <1>6, <1>7, <1>8, <1>9, <1>10, <1>11, <1>12, <1>13,
     <1>14, <1>15, <1>16, <1>17, <1>18, <1>19, <1>20, <1>21, <1>22, <1>23, <1>24,
     <1>25, <1>26, <1>27, <1>28, <1>29, <1>30, <1>31, <1>32, <1>33, <1>34, <1>35
  DEF Next, MainStep, HandlerStep, WorkerStep

\* Every taken slot has one owner in every reachable state.
LEMMA OwnershipHolds == Spec => []Ownership
<1>1. Init => Ownership
  BY ForwarderAssumption DEF Init, Ownership, ClaimersOwn, NamedOwn, Leftovers,
     OwnCounters, FreshCounters, Claimer, HasSlot
<1>2. TypeOK /\ Control /\ Ownership /\ [Next]_vars => Ownership'
  BY NextOwnership
<1> QED
  BY <1>1, <1>2, ControlHolds, PTL DEF Spec

\* The compare-and-swap of fp_stats_claim and the order of the stores in fp_stats_release
\* and fp_stats_clear_pid are enough: two live workers never hold one slot, and
\* reap_clients never frees a slot under a live worker, pid reuse included.
THEOREM SlotsExclusive == Spec => []SlotExclusive
<1>1. TypeOK /\ Control /\ Ownership => SlotExclusive
  BY ForwarderAssumption DEF TypeOK, Control, Ownership, ClaimersOwn, NamedOwn,
     OwnCounters, SlotExclusive,
     Holders, Claimer, HasSlot
<1> QED
  BY <1>1, ControlHolds, OwnershipHolds, PTL

\* A worker that relays through a slot owns it, and the slot shows exactly the bytes the
\* worker relayed.
THEOREM CountersExact == Spec => []OwnCounters
<1>1. Ownership => OwnCounters
  BY DEF Ownership
<1> QED
  BY <1>1, OwnershipHolds, PTL

-----------------------------------------------------------------------------
(* The scan of the table.                                                    *)

\* What every step but fork() and a failed compare-and-swap does to the scan:
\* nobody moves, and nobody arrives.
NobodyMoves == Parked' \subseteq Parked /\ index' = index /\ orphaned \subseteq orphaned'

\* Only fork() and a failed compare-and-swap of fp_stats_claim bring a process to a
\* place of the table; every other step leaves the scans where they are.
LEMMA ParkingSteps ==
  ASSUME TypeOK, Control, Ownership, [Next]_vars
  PROVE  NobodyMoves \/ \E p \in Pid : Fork(p) \/ ScanNext(p)
<1> USE ForwarderAssumption DEF TypeOK, Control, NobodyMoves, Parked,
      mainVars, handlerVars, workerVars, slotVars
<1>1. CASE CheckRunning
  BY <1>1 DEF CheckRunning
<1>2. CASE PollTimeout
  BY <1>2 DEF PollTimeout
<1>3. CASE PollFails
  BY <1>3 DEF PollFails
<1>4. CASE Accept
  BY <1>4 DEF Accept
<1>5. CASE Admit
  BY <1>5 DEF Admit
<1>6. CASE BlockSigchld
  BY <1>6 DEF BlockSigchld
<1>7. CASE ForkFails
  BY <1>7 DEF ForkFails
<1>8. CASE CountClient
  BY <1>8 DEF CountClient
<1>9. CASE UnblockSigchld
  BY <1>9 DEF UnblockSigchld
<1>10. CASE Close
  BY <1>10 DEF Close
<1>11. CASE ForgetMap
  BY <1>11 DEF ForgetMap
<1>12. CASE DefaultSigchld
  BY <1>12 DEF DefaultSigchld
<1>13. CASE StopProxy
  BY <1>13 DEF StopProxy
<1>14. CASE SigchldDelivered
  BY <1>14 DEF SigchldDelivered
<1>15. CASE WaitNone
  BY <1>15 DEF WaitNone
<1>16. CASE ClearNothing
  BY <1>16 DEF ClearNothing
<1>17. CASE ClearPid
  BY <1>17 DEF ClearPid, Stale
<1>18. CASE FreeCleared
  BY <1>18 DEF FreeCleared
<1>19. CASE ClearUnmapped
  BY <1>19 DEF ClearUnmapped
<1>20. CASE DropClient
  BY <1>20 DEF DropClient
<1>21. ASSUME NEW p \in Pid, WaitChild(p) PROVE NobodyMoves
  BY <1>21 DEF WaitChild
<1>22. ASSUME NEW p \in Pid, BeginClaim(p) PROVE NobodyMoves
  BY <1>22 DEF BeginClaim
<1>23. ASSUME NEW p \in Pid, GiveUp(p) PROVE NobodyMoves
  BY <1>23 DEF GiveUp
<1>24. ASSUME NEW p \in Pid, ClaimSlot(p) PROVE NobodyMoves
  BY <1>24 DEF ClaimSlot
<1>25. ASSUME NEW p \in Pid, ClaimNothing(p) PROVE NobodyMoves
  BY <1>25 DEF ClaimNothing
<1>26. ASSUME NEW p \in Pid, FillSlot(p) PROVE NobodyMoves
  BY <1>26 DEF FillSlot
<1>27. ASSUME NEW p \in Pid, RelayByte(p) PROVE NobodyMoves
  BY <1>27 DEF RelayByte
<1>28. ASSUME NEW p \in Pid, ReleaseFields(p) PROVE NobodyMoves
  BY <1>28 DEF ReleaseFields
<1>29. ASSUME NEW p \in Pid, ReleaseActive(p) PROVE NobodyMoves
  BY <1>29 DEF ReleaseActive
<1>30. ASSUME NEW p \in Pid, ReleaseNothing(p) PROVE NobodyMoves
  BY <1>30 DEF ReleaseNothing
<1>31. ASSUME NEW p \in Pid, Exit(p) PROVE NobodyMoves
  BY <1>31 DEF Exit
<1>32. ASSUME NEW p \in Pid, Die(p) PROVE NobodyMoves
  BY <1>32 DEF Die, Alive
<1>33. CASE UNCHANGED vars
  BY <1>33 DEF vars
<1> QED
  BY <1>1, <1>2, <1>3, <1>4, <1>5, <1>6, <1>7, <1>8, <1>9, <1>10, <1>11, <1>12, <1>13,
     <1>14, <1>15, <1>16, <1>17, <1>18, <1>19, <1>20, <1>21, <1>22, <1>23, <1>24,
     <1>25, <1>26, <1>27, <1>28, <1>29, <1>30, <1>31, <1>32, <1>33
  DEF Next, MainStep, HandlerStep, WorkerStep

\* A slot is freed by whoever owns it and by nobody else.
LEMMA NextTakenOwned ==
  TypeOK /\ Control /\ Ownership /\ TakenOwned /\ [Next]_vars => TakenOwned'
<1> SUFFICES ASSUME TypeOK, Control, Ownership, TakenOwned, [Next]_vars PROVE TakenOwned'
  OBVIOUS
<1> USE ForwarderAssumption DEF TypeOK, Control, TakenOwned, Claimer, HasSlot,
      Ownership, ClaimersOwn, NamedOwn, Leftovers, OwnCounters,
      mainVars, handlerVars, workerVars, slotVars
<1>1. CASE CheckRunning
  BY <1>1 DEF CheckRunning
<1>2. CASE PollTimeout
  BY <1>2 DEF PollTimeout
<1>3. CASE PollFails
  BY <1>3 DEF PollFails
<1>4. CASE Accept
  BY <1>4 DEF Accept
<1>5. CASE Admit
  BY <1>5 DEF Admit
<1>6. CASE BlockSigchld
  BY <1>6 DEF BlockSigchld
<1>7. CASE ForkFails
  BY <1>7 DEF ForkFails
<1>8. CASE CountClient
  BY <1>8 DEF CountClient
<1>9. CASE UnblockSigchld
  BY <1>9 DEF UnblockSigchld
<1>10. CASE Close
  BY <1>10 DEF Close
<1>11. CASE ForgetMap
  BY <1>11 DEF ForgetMap
<1>12. CASE DefaultSigchld
  BY <1>12 DEF DefaultSigchld
<1>13. CASE StopProxy
  BY <1>13 DEF StopProxy
<1>14. CASE SigchldDelivered
  BY <1>14 DEF SigchldDelivered
<1>15. CASE WaitNone
  BY <1>15 DEF WaitNone
<1>16. CASE ClearNothing
  BY <1>16 DEF ClearNothing
<1>17. CASE ClearPid
  BY <1>17 DEF ClearPid, Stale
<1>18. CASE FreeCleared
  BY <1>18 DEF FreeCleared
<1>19. CASE ClearUnmapped
  BY <1>19 DEF ClearUnmapped
<1>20. CASE DropClient
  BY <1>20 DEF DropClient
<1>21. ASSUME NEW p \in Pid, Fork(p) PROVE TakenOwned'
  BY <1>21 DEF Fork
<1>22. ASSUME NEW p \in Pid, ScanNext(p) PROVE TakenOwned'
  BY <1>22 DEF ScanNext
<1>23. ASSUME NEW p \in Pid, WaitChild(p) PROVE TakenOwned'
  BY <1>23 DEF WaitChild
<1>24. ASSUME NEW p \in Pid, BeginClaim(p) PROVE TakenOwned'
  BY <1>24 DEF BeginClaim
<1>25. ASSUME NEW p \in Pid, GiveUp(p) PROVE TakenOwned'
  BY <1>25 DEF GiveUp
<1>26. ASSUME NEW p \in Pid, ClaimSlot(p) PROVE TakenOwned'
  BY <1>26 DEF ClaimSlot
<1>27. ASSUME NEW p \in Pid, ClaimNothing(p) PROVE TakenOwned'
  BY <1>27 DEF ClaimNothing
<1>28. ASSUME NEW p \in Pid, FillSlot(p) PROVE TakenOwned'
  BY <1>28 DEF FillSlot
<1>29. ASSUME NEW p \in Pid, RelayByte(p) PROVE TakenOwned'
  BY <1>29 DEF RelayByte
<1>30. ASSUME NEW p \in Pid, ReleaseFields(p) PROVE TakenOwned'
  BY <1>30 DEF ReleaseFields
<1>31. ASSUME NEW p \in Pid, ReleaseActive(p) PROVE TakenOwned'
  BY <1>31 DEF ReleaseActive
<1>32. ASSUME NEW p \in Pid, ReleaseNothing(p) PROVE TakenOwned'
  BY <1>32 DEF ReleaseNothing
<1>33. ASSUME NEW p \in Pid, Exit(p) PROVE TakenOwned'
  BY <1>33 DEF Exit
<1>34. ASSUME NEW p \in Pid, Die(p) PROVE TakenOwned'
  BY <1>34 DEF Die, Alive
<1>35. CASE UNCHANGED vars
  BY <1>35 DEF vars
<1> QED
  BY <1>1, <1>2, <1>3, <1>4, <1>5, <1>6, <1>7, <1>8, <1>9, <1>10, <1>11, <1>12, <1>13,
     <1>14, <1>15, <1>16, <1>17, <1>18, <1>19, <1>20, <1>21, <1>22, <1>23, <1>24,
     <1>25, <1>26, <1>27, <1>28, <1>29, <1>30, <1>31, <1>32, <1>33, <1>34, <1>35
  DEF Next, MainStep, HandlerStep, WorkerStep

\* The processes in the table are finitely many at every place.
LEMMA FromFinite == \A q : IsFiniteSet(From(q)) /\ Cardinality(From(q)) \in Nat
<1>1. \A q : From(q) \subseteq Pid
  BY DEF From, Parked
<1> QED
  BY <1>1, ForwarderAssumption, FS_Subset, FS_CardinalityType

\* A scan that finds a slot taken has met its owner there.
LEMMA OwnerMet ==
  ASSUME TypeOK, Control, Ownership, TakenOwned, orphaned = {},
         NEW p \in Pid, ScanNext(p)
  PROVE  \E h \in Parked : h # p /\ index[h] = index[p]
<1> DEFINE i == index[p]
<1>1. i \in Slots /\ active[i] /\ worker[p] = "scan"
  BY DEF ScanNext, HasSlot
<1>2. CASE i \in clearing
  <2>1. child \in Pid /\ worker[child] = "reaped" /\ index[child] = i
    BY <1>2 DEF TypeOK, Control, Ownership, Leftovers
  <2> QED
    BY <1>1, <2>1 DEF Parked
<1>3. CASE pid[i] # NoPid
  <2>1. pid[i] \in Parked /\ index[pid[i]] = i /\ worker[pid[i]] # "scan"
    BY <1>1, <1>3 DEF TypeOK, Ownership, NamedOwn, Parked
  <2> QED
    BY <1>1, <2>1
<1>4. CASE \E h \in Pid : Claimer(h) /\ index[h] = i
  BY <1>1, <1>4 DEF Claimer, Parked
<1> QED
  BY <1>1, <1>2, <1>3, <1>4 DEF TakenOwned

\* fork() brings a worker to place 0 only below the limit, and a worker that moves on
\* from a place leaves that place's owner behind.
LEMMA NextParking ==
  ASSUME TypeOK, Control, Counting, Ownership, Parking, [Next]_vars,
         TypeOK', Control', Counting', Ownership'
  PROVE  Parking'
<1>1. TakenOwned'
  BY NextTakenOwned DEF Parking
<1> SUFFICES ASSUME orphaned' = {}, NEW q \in 0 .. MaxClients
             PROVE  Cardinality(From(q)') <= MaxClients - q
  BY <1>1 DEF Parking
<1> USE ForwarderAssumption, FromFinite
<1>2. ASSUME orphaned = {}, From(q)' \subseteq From(q)
      PROVE  Cardinality(From(q)') <= MaxClients - q
  <2>1. Cardinality(From(q)) <= MaxClients - q
    BY <1>2 DEF Parking
  <2>2. /\ Cardinality(From(q)') <= Cardinality(From(q))
        /\ Cardinality(From(q)') \in Nat
    BY <1>2, FS_Subset, FS_CardinalityType
  <2> QED
    BY <2>1, <2>2
<1>3. CASE NobodyMoves
  BY <1>2, <1>3 DEF NobodyMoves, From
<1>4. ASSUME NEW p \in Pid, Fork(p) PROVE Cardinality(From(q)') <= MaxClients - q
  <2>1. orphaned = {} /\ index' = [index EXCEPT ![p] = 0] /\ Parked' \subseteq Parked \cup {p}
    BY <1>4 DEF Fork, TypeOK, Parked, slotVars
  <2>2. CASE q = 0
    <3>1. main' = "count"
      BY <1>4 DEF Fork
    <3>2. From(q)' \subseteq Workers'
      BY <3>1 DEF From, Parked, Workers, Ownership, NamedOwn, Abandoned
    <3>3. IsFiniteSet(Workers')
      BY FS_Subset DEF Workers
    <3>4. Cardinality(From(q)') <= Cardinality(Workers')
      BY <3>2, <3>3, FS_Subset
    <3>5. Cardinality(Workers') <= MaxClients /\ Cardinality(Workers') \in Nat
          /\ Cardinality(From(q)') \in Nat
      BY <3>2, <3>3, FS_Subset, FS_CardinalityType DEF Counting, WorkerLimit
    <3> QED
      BY <2>2, <3>4, <3>5
  <2>3. CASE q # 0
    <3>1. From(q)' \subseteq From(q)
      BY <2>1, <2>3 DEF From, Parked, TypeOK
    <3> QED
      BY <1>2, <2>1, <3>1
  <2> QED
    BY <2>2, <2>3
<1>5. ASSUME NEW p \in Pid, ScanNext(p) PROVE Cardinality(From(q)') <= MaxClients - q
  <2> DEFINE i == index[p]
  <2>1. /\ orphaned = {} /\ Parked' = Parked /\ p \in Parked
        /\ index' = [index EXCEPT ![p] = i + 1] /\ i \in 0 .. MaxClients
    BY <1>5 DEF ScanNext, TypeOK, Parked, slotVars
  <2>2. CASE q # i + 1
    <3>1. index'[p] = i + 1 /\ \A r \in Parked : r # p => index'[r] = index[r]
      BY <2>1 DEF Parked, TypeOK
    <3>2. i + 1 >= q => i >= q
      BY <2>1, <2>2
    <3>3. From(q)' \subseteq From(q)
      BY <2>1, <3>1, <3>2 DEF From
    <3> QED
      BY <1>2, <2>1, <3>3
  <2>3. CASE q = i + 1
    <3>1. PICK h \in Parked : h # p /\ index[h] = i
      BY <1>5, <2>1, OwnerMet DEF Parking
    <3> DEFINE A == From(i + 1)
    <3>2. IsFiniteSet(A) /\ Cardinality(A) \in Nat /\ p \notin A /\ h \notin A
      BY <2>1, <3>1 DEF From
    <3>3. /\ IsFiniteSet(A \cup {p}) /\ Cardinality(A \cup {p}) = Cardinality(A) + 1
      BY <3>2, FS_AddElement
    <3>4. /\ IsFiniteSet(A \cup {p} \cup {h})
          /\ Cardinality(A \cup {p} \cup {h}) = Cardinality(A) + 2
      <4> HIDE DEF A
      <4>1. h \notin A \cup {p}
        BY <3>1, <3>2
      <4>2. /\ IsFiniteSet(A \cup {p} \cup {h})
            /\ Cardinality(A \cup {p} \cup {h}) = Cardinality(A \cup {p}) + 1
        BY <3>3, <4>1, FS_AddElement
      <4> QED
        BY <3>2, <3>3, <4>2
    <3>5. A \cup {p} \cup {h} \subseteq From(i)
      BY <2>1, <3>1 DEF From, Parked, TypeOK
    <3>6. Cardinality(A \cup {p} \cup {h}) <= Cardinality(From(i))
      BY <3>5, FS_Subset
    <3>7. Cardinality(From(i)) <= MaxClients - i
      BY <2>1 DEF Parking
    <3>8. From(q)' \subseteq A \cup {p}
      BY <2>1, <2>3 DEF From, Parked, TypeOK
    <3>9. Cardinality(From(q)') <= Cardinality(A \cup {p}) /\ Cardinality(From(q)') \in Nat
      BY <3>3, <3>8, FS_Subset, FS_CardinalityType
    <3> HIDE DEF A
    <3> QED
      BY <2>1, <2>3, <3>2, <3>3, <3>4, <3>6, <3>7, <3>9
  <2> QED
    BY <2>2, <2>3
<1> QED
  BY <1>3, <1>4, <1>5, ParkingSteps

\* The table is large enough in every reachable state.
LEMMA ParkingHolds == Spec => []Parking
<1>1. Init => Parking
  <2> SUFFICES ASSUME Init PROVE Parking
    OBVIOUS
  <2>1. TakenOwned
    BY DEF Init, TakenOwned
  <2>2. \A q : From(q) = {}
    BY ForwarderAssumption DEF Init, From, Parked
  <2> QED
    BY <2>1, <2>2, FS_EmptySet, ForwarderAssumption DEF Parking
<1>2. /\ TypeOK /\ Control /\ Counting /\ Ownership /\ Parking /\ [Next]_vars
      /\ TypeOK' /\ Control' /\ Counting' /\ Ownership'
      => Parking'
  BY NextParking
<1> QED
  BY <1>1, <1>2, ControlHolds, CountingHolds, OwnershipHolds, PTL DEF Spec

\* With as many slots as workers and a scan that takes no lock, fp_stats_claim returns -1
\* only after a worker was killed between its compare-and-swap and the store of its pid
\* or inside fp_stats_release: a free slot is never missed because others moved meanwhile.
THEOREM SlotForEveryone == Spec => []NoSlotMeansOrphan
<1>1. TypeOK /\ Parking => NoSlotMeansOrphan
  <2> SUFFICES ASSUME TypeOK, Parking, orphaned = {}, NEW p \in Pid, worker[p] \in Alive,
                      ~HasSlot(p)
               PROVE  FALSE
    BY DEF NoSlotMeansOrphan
  <2>1. index[p] = MaxClients
    BY ForwarderAssumption DEF TypeOK, HasSlot, Slots
  <2>2. p \in From(MaxClients)
    BY <2>1, ForwarderAssumption DEF From, Parked, Alive
  <2>3. Cardinality(From(MaxClients)) <= 0
    BY ForwarderAssumption DEF Parking
  <2>4. Cardinality(From(MaxClients)) = 0
    BY <2>3, FromFinite
  <2> QED
    BY <2>2, <2>4, FromFinite, FS_EmptySet
<1> QED
  BY <1>1, ControlHolds, ParkingHolds, PTL

\* All of it together: the inductive invariant of the forwarder holds for ever.
THEOREM Invariance == Spec => []IInv
  BY ControlHolds, CountingHolds, ZombieNeverLost, OwnershipHolds, ParkingHolds, PTL
     DEF IInv

=============================================================================
