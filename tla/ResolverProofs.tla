--------------------------- MODULE ResolverProofs ---------------------------
(***************************************************************************)
(* Proofs about module Resolver, for any number of heap blocks and of      *)
(* abandoned lookups: a job is never used after it was freed, and nothing  *)
(* is leaked.                                                              *)
(*                                                                         *)
(* Neither is inductive.  That the caller may free a job after pthread_join*)
(* needs to know that a thread it joins has no use for the job left, which *)
(* rests on the mutex: whoever sees done set under the mutex sees a thread *)
(* that has released it.  So the invariant says who holds the mutex        *)
(* (MutexHeld), which of the two owns each job (JobOwned) and where an     *)
(* address list can be (AddrsHeld).                                        *)
(***************************************************************************)
EXTENDS Resolver, TLAPS

\* States of the caller in which it owns its job.
Busy == {"lock", "test", "wait", "decide", "join", "destroy"}

\* The mutex is held by whoever is between lock and unlock.
MutexHeld ==
  /\ \A j \in Job : mutex[j] = "thread" <=> thread[j] \in {"inside", "unlock"}
  /\ \A j \in Job : mutex[j] = "caller" <=> (job = j /\ caller \in {"test", "decide"})

\* The caller owns its job, the thread owns an abandoned one, and nobody uses any
\* other; done is set by a thread that then only unlocks and ends.
JobOwned ==
  /\ caller \in Busy => job \in heap /\ job \notin abandoned
  /\ caller = "idle" => job = NoJob
  /\ caller \in Busy =>
       thread[job] \in {"lookup", "lock", "inside", "unlock", "exited", "none"}
  /\ caller \in Busy => (job \in done <=> thread[job] \in {"unlock", "exited", "none"})
  /\ caller \in Busy => (thread[job] = "none" <=> caller = "destroy")
  /\ caller = "join" => thread[job] = "exited"
  /\ abandoned \subseteq heap
  /\ done \subseteq heap
  /\ \A j \in abandoned : j \notin done /\ thread[j] \in {"lookup", "lock", "inside", "drop"}
  /\ \A j \in heap : j \in abandoned \/ (job = j /\ caller \in Busy)
  /\ \A j \in Job : j \notin heap => thread[j] = "none"

\* An address list goes from the thread through the job to the caller.
AddrsHeld ==
  /\ \A j \in Job : addrs[j] = "thread" => thread[j] \in {"lock", "inside", "drop"}
  /\ \A j \in Job : addrs[j] = "job" =>
       job = j /\ caller \in {"lock", "test", "wait", "decide"} /\ j \in done
  /\ \A j \in Job : addrs[j] = "caller" =>
       job = j /\ caller \in {"join", "destroy", "returned"}

LookupInv == ResolverTypeOK /\ MutexHeld /\ JobOwned /\ AddrsHeld

-----------------------------------------------------------------------------
\* Before the first lookup nothing is allocated, locked or held.
LEMMA LookupInit == InitResolver => LookupInv
BY ResolverAssumption DEF InitResolver, LookupInv, ResolverTypeOK, MutexHeld, JobOwned,
   AddrsHeld, CallerStates, ThreadUses, Busy

\* Every step of resolve_ipv4, of resolver_main and of those around them keeps the
\* mutex, the jobs and the address lists with the one they belong to.
LEMMA LookupNext == LookupInv /\ [NextResolver]_lookupVars => LookupInv'
<1> SUFFICES ASSUME LookupInv, [NextResolver]_lookupVars PROVE LookupInv'
  OBVIOUS
<1> USE ResolverAssumption DEF LookupInv, ResolverTypeOK, CallerStates, ThreadUses, Busy
<1>1. CASE caller = "idle" /\ RefuseCancelled
  <2>1. ResolverTypeOK'
    BY <1>1 DEF RefuseCancelled, Return
  <2>2. MutexHeld'
    BY <1>1 DEF RefuseCancelled, Return, MutexHeld, JobOwned
  <2>3. JobOwned'
    BY <1>1 DEF RefuseCancelled, Return, MutexHeld, JobOwned
  <2>4. AddrsHeld'
    BY <1>1 DEF RefuseCancelled, Return, MutexHeld, JobOwned, AddrsHeld
  <2> QED
    BY <2>1, <2>2, <2>3, <2>4
<1>2. CASE caller = "idle" /\ RefuseSetup
  <2>1. ResolverTypeOK'
    BY <1>2 DEF RefuseSetup, Return
  <2>2. MutexHeld'
    BY <1>2 DEF RefuseSetup, Return, MutexHeld, JobOwned
  <2>3. JobOwned'
    BY <1>2 DEF RefuseSetup, Return, MutexHeld, JobOwned
  <2>4. AddrsHeld'
    BY <1>2 DEF RefuseSetup, Return, MutexHeld, JobOwned, AddrsHeld
  <2> QED
    BY <2>1, <2>2, <2>3, <2>4
<1>3. ASSUME NEW j \in Job, caller = "idle", CreateJob(j) PROVE LookupInv'
  <2>1. ResolverTypeOK'
    BY <1>3 DEF CreateJob
  <2>2. MutexHeld'
    BY <1>3 DEF CreateJob, MutexHeld, JobOwned
  <2>3. JobOwned'
    BY <1>3 DEF CreateJob, MutexHeld, JobOwned
  <2>4. AddrsHeld'
    BY <1>3 DEF CreateJob, MutexHeld, JobOwned, AddrsHeld
  <2> QED
    BY <2>1, <2>2, <2>3, <2>4
<1>4. CASE LockJob
  <2>1. ResolverTypeOK'
    BY <1>4 DEF LockJob
  <2>2. MutexHeld'
    BY <1>4 DEF LockJob, MutexHeld, JobOwned
  <2>3. JobOwned'
    BY <1>4 DEF LockJob, MutexHeld, JobOwned
  <2>4. AddrsHeld'
    BY <1>4 DEF LockJob, MutexHeld, JobOwned, AddrsHeld
  <2> QED
    BY <2>1, <2>2, <2>3, <2>4
<1>5. CASE TestLoop
  <2>1. ResolverTypeOK'
    BY <1>5 DEF TestLoop
  <2>2. MutexHeld'
    BY <1>5 DEF TestLoop, MutexHeld, JobOwned
  <2>3. JobOwned'
    BY <1>5 DEF TestLoop, MutexHeld, JobOwned
  <2>4. AddrsHeld'
    BY <1>5 DEF TestLoop, MutexHeld, JobOwned, AddrsHeld
  <2> QED
    BY <2>1, <2>2, <2>3, <2>4
<1>6. CASE WakeUp
  <2>1. ResolverTypeOK'
    BY <1>6 DEF WakeUp
  <2>2. MutexHeld'
    BY <1>6 DEF WakeUp, MutexHeld, JobOwned
  <2>3. JobOwned'
    BY <1>6 DEF WakeUp, MutexHeld, JobOwned
  <2>4. AddrsHeld'
    BY <1>6 DEF WakeUp, MutexHeld, JobOwned, AddrsHeld
  <2> QED
    BY <2>1, <2>2, <2>3, <2>4
<1>7. CASE Abandon
  <2>1. ResolverTypeOK'
    BY <1>7 DEF Abandon, Return, JobOwned
  <2>2. MutexHeld'
    BY <1>7 DEF Abandon, Return, MutexHeld, JobOwned
  <2>3. JobOwned'
    BY <1>7 DEF Abandon, Return, MutexHeld, JobOwned
  <2>4. AddrsHeld'
    BY <1>7 DEF Abandon, Return, MutexHeld, JobOwned, AddrsHeld
  <2> QED
    BY <2>1, <2>2, <2>3, <2>4
<1>8. CASE TakeResult
  <2>1. ResolverTypeOK'
    BY <1>8 DEF TakeResult
  <2>2. MutexHeld'
    BY <1>8 DEF TakeResult, MutexHeld, JobOwned
  <2>3. JobOwned'
    BY <1>8 DEF TakeResult, MutexHeld, JobOwned
  <2>4. AddrsHeld'
    BY <1>8 DEF TakeResult, MutexHeld, JobOwned, AddrsHeld
  <2> QED
    BY <2>1, <2>2, <2>3, <2>4
<1>9. CASE Join
  <2>1. ResolverTypeOK'
    BY <1>9 DEF Join
  <2>2. MutexHeld'
    BY <1>9 DEF Join, MutexHeld, JobOwned
  <2>3. JobOwned'
    BY <1>9 DEF Join, MutexHeld, JobOwned
  <2>4. AddrsHeld'
    BY <1>9 DEF Join, MutexHeld, JobOwned, AddrsHeld
  <2> QED
    BY <2>1, <2>2, <2>3, <2>4
<1>10. CASE DestroyJob
  <2>1. ResolverTypeOK'
    BY <1>10 DEF DestroyJob, Return
  <2>2. MutexHeld'
    BY <1>10 DEF DestroyJob, Return, MutexHeld, JobOwned
  <2>3. JobOwned'
    BY <1>10 DEF DestroyJob, Return, MutexHeld, JobOwned
  <2>4. AddrsHeld'
    BY <1>10 DEF DestroyJob, Return, MutexHeld, JobOwned, AddrsHeld
  <2> QED
    BY <2>1, <2>2, <2>3, <2>4
<1>11. ASSUME NEW j \in Job, Lookup(j) PROVE LookupInv'
  <2>1. ResolverTypeOK'
    BY <1>11 DEF Lookup
  <2>2. MutexHeld'
    BY <1>11 DEF Lookup, MutexHeld, JobOwned
  <2>3. JobOwned'
    BY <1>11 DEF Lookup, MutexHeld, JobOwned
  <2>4. AddrsHeld'
    BY <1>11 DEF Lookup, MutexHeld, JobOwned, AddrsHeld
  <2> QED
    BY <2>1, <2>2, <2>3, <2>4
<1>12. ASSUME NEW j \in Job, ThreadLock(j) PROVE LookupInv'
  <2>1. ResolverTypeOK'
    BY <1>12 DEF ThreadLock
  <2>2. MutexHeld'
    BY <1>12 DEF ThreadLock, MutexHeld, JobOwned
  <2>3. JobOwned'
    BY <1>12 DEF ThreadLock, MutexHeld, JobOwned
  <2>4. AddrsHeld'
    BY <1>12 DEF ThreadLock, MutexHeld, JobOwned, AddrsHeld
  <2> QED
    BY <2>1, <2>2, <2>3, <2>4
<1>13. ASSUME NEW j \in Job, FindAbandoned(j) PROVE LookupInv'
  <2>1. ResolverTypeOK'
    BY <1>13 DEF FindAbandoned
  <2>2. MutexHeld'
    BY <1>13 DEF FindAbandoned, MutexHeld, JobOwned
  <2>3. JobOwned'
    BY <1>13 DEF FindAbandoned, MutexHeld, JobOwned
  <2>4. AddrsHeld'
    BY <1>13 DEF FindAbandoned, MutexHeld, JobOwned, AddrsHeld
  <2> QED
    BY <2>1, <2>2, <2>3, <2>4
<1>14. ASSUME NEW j \in Job, Drop(j) PROVE LookupInv'
  <2>1. ResolverTypeOK'
    BY <1>14 DEF Drop
  <2>2. MutexHeld'
    BY <1>14 DEF Drop, MutexHeld, JobOwned
  <2>3. JobOwned'
    BY <1>14 DEF Drop, MutexHeld, JobOwned
  <2>4. AddrsHeld'
    BY <1>14 DEF Drop, MutexHeld, JobOwned, AddrsHeld
  <2> QED
    BY <2>1, <2>2, <2>3, <2>4
<1>15. ASSUME NEW j \in Job, Publish(j) PROVE LookupInv'
  <2>1. ResolverTypeOK'
    BY <1>15 DEF Publish
  <2>2. MutexHeld'
    BY <1>15 DEF Publish, MutexHeld, JobOwned
  <2>3. JobOwned'
    BY <1>15 DEF Publish, MutexHeld, JobOwned
  <2>4. AddrsHeld'
    BY <1>15 DEF Publish, MutexHeld, JobOwned, AddrsHeld
  <2> QED
    BY <2>1, <2>2, <2>3, <2>4
<1>16. ASSUME NEW j \in Job, ThreadUnlock(j) PROVE LookupInv'
  <2>1. ResolverTypeOK'
    BY <1>16 DEF ThreadUnlock
  <2>2. MutexHeld'
    BY <1>16 DEF ThreadUnlock, MutexHeld, JobOwned
  <2>3. JobOwned'
    BY <1>16 DEF ThreadUnlock, MutexHeld, JobOwned
  <2>4. AddrsHeld'
    BY <1>16 DEF ThreadUnlock, MutexHeld, JobOwned, AddrsHeld
  <2> QED
    BY <2>1, <2>2, <2>3, <2>4
<1>17. CASE caller = "returned" /\ Consume /\ UNCHANGED cancel_flag
  <2>1. ResolverTypeOK'
    BY <1>17 DEF Consume
  <2>2. MutexHeld'
    BY <1>17 DEF Consume, MutexHeld, JobOwned
  <2>3. JobOwned'
    BY <1>17 DEF Consume, MutexHeld, JobOwned
  <2>4. AddrsHeld'
    BY <1>17 DEF Consume, MutexHeld, JobOwned, AddrsHeld
  <2> QED
    BY <2>1, <2>2, <2>3, <2>4
<1>18. CASE SetFlag
  <2>1. ResolverTypeOK'
    BY <1>18 DEF SetFlag, resolverVars
  <2>2. MutexHeld'
    BY <1>18 DEF SetFlag, resolverVars, MutexHeld, JobOwned
  <2>3. JobOwned'
    BY <1>18 DEF SetFlag, resolverVars, MutexHeld, JobOwned
  <2>4. AddrsHeld'
    BY <1>18 DEF SetFlag, resolverVars, MutexHeld, JobOwned, AddrsHeld
  <2> QED
    BY <2>1, <2>2, <2>3, <2>4
<1>19. CASE UNCHANGED lookupVars
  <2>1. ResolverTypeOK'
    BY <1>19 DEF lookupVars
  <2>2. MutexHeld'
    BY <1>19 DEF lookupVars, MutexHeld, JobOwned
  <2>3. JobOwned'
    BY <1>19 DEF lookupVars, MutexHeld, JobOwned
  <2>4. AddrsHeld'
    BY <1>19 DEF lookupVars, MutexHeld, JobOwned, AddrsHeld
  <2> QED
    BY <2>1, <2>2, <2>3, <2>4
<1> QED
  BY <1>1, <1>2, <1>3, <1>4, <1>5, <1>6, <1>7, <1>8, <1>9, <1>10, <1>11, <1>12,
     <1>13, <1>14, <1>15, <1>16, <1>17, <1>18, <1>19
     DEF NextResolver, BeginResolve, CallerStep, ThreadStep

\* Mutex, jobs and address lists are where the invariant says, for ever.
THEOREM LookupHolds == ResolverSpec => []LookupInv
BY LookupInit, LookupNext, PTL DEF ResolverSpec

\* Neither resolve_ipv4 nor resolver_main touches a job after destroy_resolver_job,
\* however cancellation, the lookup and pthread_join are ordered.
THEOREM NeverUsedAfterFree == ResolverSpec => []NoUseAfterFree
<1>1. LookupInv => NoUseAfterFree
  BY DEF LookupInv, JobOwned, NoUseAfterFree, Busy, CallerUses, ThreadUses
<1> QED
  BY <1>1, LookupHolds, PTL

\* Every job and every address list is freed by somebody: the caller, the user of
\* the lookup, or the thread of an abandoned job.
THEOREM NeverLeaked == ResolverSpec => []NothingLeaked
<1>1. LookupInv => NothingLeaked
  BY DEF LookupInv, ResolverTypeOK, JobOwned, AddrsHeld, NothingLeaked, Busy, ThreadUses
<1> QED
  BY <1>1, LookupHolds, PTL

=============================================================================
