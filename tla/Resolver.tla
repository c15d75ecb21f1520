------------------------------ MODULE Resolver ------------------------------
(***************************************************************************)
(* resolve_ipv4 of src/src/test.c: a name lookup that can be cancelled.    *)
(*                                                                         *)
(* The caller allocates a job, starts a thread for it and waits on the     *)
(* job's condition variable, 100 ms at a time.  If the user cancels first  *)
(* the job is abandoned to the thread, which frees it when getaddrinfo     *)
(* returns at last; otherwise the caller joins the thread and frees it.    *)
(* Abandoned threads outlive the call and run beside later calls, whose    *)
(* jobs may lie in the memory they freed.                                  *)
(***************************************************************************)
EXTENDS Integers, FiniteSets

CONSTANTS
  Job,    \* blocks of the heap that calloc can return
  NoJob   \* job == NULL

ASSUME ResolverAssumption == NoJob \notin Job

VARIABLES
  cancel_flag,  \* *cancel_flag, set by the user interface
  caller,       \* where resolve_ipv4 is
  job,          \* its job
  ret,          \* what it returns: 0, -1 or -2
  heap,         \* blocks that are allocated
  mutex,        \* who holds job->mutex: "caller", "thread" or "free"
  done,         \* jobs with done set
  abandoned,    \* jobs with abandoned set
  thread,       \* where resolver_main is, for each job
  addrs         \* who holds the address list of the lookup, if there is one

resolverVars == <<caller, job, ret, heap, mutex, done, abandoned, thread, addrs>>
lookupVars == <<cancel_flag, caller, job, ret, heap, mutex, done, abandoned, thread,
                addrs>>

CallerStates == {"idle", "lock", "test", "wait", "decide", "join", "destroy", "returned"}
\* States in which the caller, or the thread, still uses the job's memory.
CallerUses == {"lock", "test", "wait", "decide", "destroy"}
ThreadUses == {"lookup", "lock", "inside", "unlock", "drop"}

-----------------------------------------------------------------------------
(* Faulty variants, one per property.                                        *)

\* The caller frees the job although the lookup still runs.
Abandon_FreesJob ==
  /\ caller = "decide" /\ job \notin done
  /\ heap' = heap \ {job}
  /\ caller' = "returned" /\ ret' = (IF cancel_flag THEN -2 ELSE -1)
  /\ job' = NoJob
  /\ UNCHANGED <<cancel_flag, mutex, done, abandoned, thread, addrs>>

\* An abandoned lookup forgets its addresses.
Drop_KeepsAddresses(j) ==
  /\ thread[j] = "drop"
  /\ heap' = heap \ {j}
  /\ thread' = [thread EXCEPT ![j] = "none"]
  /\ UNCHANGED <<cancel_flag, caller, job, ret, mutex, done, abandoned, addrs>>

\* The waiting loop does not look at the cancel flag.
TestLoop_IgnoresCancel ==
  /\ caller = "test"
  /\ \/ job \in done /\ caller' = "decide" /\ UNCHANGED mutex
     \/ job \notin done /\ caller' = "wait" /\ mutex' = [mutex EXCEPT ![job] = "free"]
  /\ UNCHANGED <<cancel_flag, job, ret, heap, done, abandoned, thread, addrs>>

-----------------------------------------------------------------------------
(* The caller: resolve_ipv4.  It is meant to be called when it is idle, with  *)
(* the addresses of the last call freed; nothing in it checks that.          *)

Return(value) ==
  /\ caller' = "returned"
  /\ ret' = value

\* Cancelled before it began.
RefuseCancelled ==
  /\ cancel_flag
  /\ Return(-2)
  /\ UNCHANGED <<cancel_flag, job, heap, mutex, done, abandoned, thread, addrs>>

\* No memory, mutex, condition variable or thread: everything is given back.
RefuseSetup ==
  /\ ~cancel_flag
  /\ Return(-1)
  /\ UNCHANGED <<cancel_flag, job, heap, mutex, done, abandoned, thread, addrs>>

\* calloc and pthread_create succeed: the block is zeroed, whatever was there.
CreateJob(j) ==
  /\ ~cancel_flag
  /\ j \notin heap
  /\ heap' = heap \cup {j}
  /\ mutex' = [mutex EXCEPT ![j] = "free"]
  /\ done' = done \ {j}
  /\ abandoned' = abandoned \ {j}
  /\ thread' = [thread EXCEPT ![j] = "lookup"]
  /\ addrs' = [addrs EXCEPT ![j] = "none"]
  /\ job' = j
  /\ caller' = "lock"
  /\ UNCHANGED <<cancel_flag, ret>>

LockJob ==
  /\ caller = "lock" /\ mutex[job] = "free"
  /\ mutex' = [mutex EXCEPT ![job] = "caller"]
  /\ caller' = "test"
  /\ UNCHANGED <<cancel_flag, job, ret, heap, done, abandoned, thread, addrs>>

\* while (!job->done && !cancelled(cancel_flag) && wait_error == 0); the clock may
\* fail, which ends the loop as well.  Waiting gives the mutex up.
TestLoop ==
  /\ caller = "test"
  /\ \/ /\ caller' = "decide"
        /\ UNCHANGED mutex
     \/ /\ job \notin done /\ ~cancel_flag
        /\ caller' = "wait"
        /\ mutex' = [mutex EXCEPT ![job] = "free"]
  /\ UNCHANGED <<cancel_flag, job, ret, heap, done, abandoned, thread, addrs>>

\* Signalled, timed out after 100 ms, or failed; with the mutex again.
WakeUp ==
  /\ caller = "wait" /\ mutex[job] = "free"
  /\ mutex' = [mutex EXCEPT ![job] = "caller"]
  /\ caller' \in {"test", "decide"}
  /\ UNCHANGED <<cancel_flag, job, ret, heap, done, abandoned, thread, addrs>>

\* if (!job->done): the job is the thread's from here on, which is detached.
Abandon ==
  /\ caller = "decide" /\ job \notin done
  /\ abandoned' = abandoned \cup {job}
  /\ mutex' = [mutex EXCEPT ![job] = "free"]
  /\ Return(IF cancel_flag THEN -2 ELSE -1)
  /\ job' = NoJob
  /\ UNCHANGED <<cancel_flag, heap, done, thread, addrs>>

\* The result is taken out of the job under the mutex.
TakeResult ==
  /\ caller = "decide" /\ job \in done
  /\ addrs' = [addrs EXCEPT ![job] = IF @ = "job" THEN "caller" ELSE @]
  /\ mutex' = [mutex EXCEPT ![job] = "free"]
  /\ caller' = "join"
  /\ UNCHANGED <<cancel_flag, job, ret, heap, done, abandoned, thread>>

Join ==
  /\ caller = "join" /\ thread[job] = "exited"
  /\ thread' = [thread EXCEPT ![job] = "none"]
  /\ caller' = "destroy"
  /\ UNCHANGED <<cancel_flag, job, ret, heap, mutex, done, abandoned, addrs>>

\* The job is freed; the addresses are kept only by a call that returns 0.
DestroyJob ==
  /\ caller = "destroy"
  /\ heap' = heap \ {job}
  /\ addrs' = [addrs EXCEPT ![job] = IF cancel_flag THEN "none" ELSE @]
  /\ Return(IF cancel_flag THEN -2 ELSE IF addrs[job] = "caller" THEN 0 ELSE -1)
  /\ job' = IF ret' = 0 THEN job ELSE NoJob
  /\ done' = done \ {job}
  /\ UNCHANGED <<cancel_flag, mutex, abandoned, thread>>

BeginResolve == RefuseCancelled \/ RefuseSetup \/ \E j \in Job : CreateJob(j)
CallerStep ==
  LockJob \/ TestLoop \/ WakeUp \/ Abandon \/ TakeResult \/ Join \/ DestroyJob

-----------------------------------------------------------------------------
(* The thread: resolver_main.                                                *)

\* getaddrinfo returns, after any time, with addresses or with an error.
Lookup(j) ==
  /\ thread[j] = "lookup"
  /\ addrs' \in {[addrs EXCEPT ![j] = "thread"], [addrs EXCEPT ![j] = "none"]}
  /\ thread' = [thread EXCEPT ![j] = "lock"]
  /\ UNCHANGED <<cancel_flag, caller, job, ret, heap, mutex, done, abandoned>>

ThreadLock(j) ==
  /\ thread[j] = "lock" /\ mutex[j] = "free"
  /\ mutex' = [mutex EXCEPT ![j] = "thread"]
  /\ thread' = [thread EXCEPT ![j] = "inside"]
  /\ UNCHANGED <<cancel_flag, caller, job, ret, heap, done, abandoned, addrs>>

\* if (job->abandoned): the mutex is released ...
FindAbandoned(j) ==
  /\ thread[j] = "inside" /\ j \in abandoned
  /\ mutex' = [mutex EXCEPT ![j] = "free"]
  /\ thread' = [thread EXCEPT ![j] = "drop"]
  /\ UNCHANGED <<cancel_flag, caller, job, ret, heap, done, abandoned, addrs>>

\* ... and the addresses and the job are freed.
Drop(j) ==
  /\ thread[j] = "drop"
  /\ heap' = heap \ {j}
  /\ addrs' = [addrs EXCEPT ![j] = "none"]
  /\ thread' = [thread EXCEPT ![j] = "none"]
  /\ abandoned' = abandoned \ {j}
  /\ UNCHANGED <<cancel_flag, caller, job, ret, mutex, done>>

\* Otherwise result, status and done are stored and the caller is signalled ...
Publish(j) ==
  /\ thread[j] = "inside" /\ j \notin abandoned
  /\ done' = done \cup {j}
  /\ addrs' = [addrs EXCEPT ![j] = IF @ = "thread" THEN "job" ELSE @]
  /\ thread' = [thread EXCEPT ![j] = "unlock"]
  /\ UNCHANGED <<cancel_flag, caller, job, ret, heap, mutex, abandoned>>

\* ... and the mutex is released: the thread's last use of the job.
ThreadUnlock(j) ==
  /\ thread[j] = "unlock"
  /\ mutex' = [mutex EXCEPT ![j] = "free"]
  /\ thread' = [thread EXCEPT ![j] = "exited"]
  /\ UNCHANGED <<cancel_flag, caller, job, ret, heap, done, abandoned, addrs>>

ThreadStep(j) ==
  \/ Lookup(j) \/ ThreadLock(j) \/ FindAbandoned(j) \/ Drop(j) \/ Publish(j)
  \/ ThreadUnlock(j)

-----------------------------------------------------------------------------
(* What is around a lookup: its user, who looks at the addresses before the  *)
(* next one, and the user interface, which sets and resets the flag.         *)

\* freeaddrinfo on what the call left, if it left addresses; doing it twice is
\* undefined.
Consume ==
  /\ caller' = IF caller = "returned" THEN "idle" ELSE "undefined"
  /\ job' = NoJob /\ ret' = 0
  /\ addrs' = IF job = NoJob THEN addrs ELSE [addrs EXCEPT ![job] = "none"]
  /\ UNCHANGED <<heap, mutex, done, abandoned, thread>>

SetFlag ==
  /\ cancel_flag' = ~cancel_flag
  /\ UNCHANGED resolverVars

InitResolver ==
  /\ cancel_flag = FALSE
  /\ caller = "idle" /\ job = NoJob /\ ret = 0
  /\ heap = {} /\ done = {} /\ abandoned = {}
  /\ mutex = [j \in Job |-> "free"]
  /\ thread = [j \in Job |-> "none"]
  /\ addrs = [j \in Job |-> "none"]

NextResolver ==
  \/ caller = "idle" /\ BeginResolve
  \/ CallerStep
  \/ \E j \in Job : ThreadStep(j)
  \/ caller = "returned" /\ Consume /\ UNCHANGED cancel_flag
  \/ SetFlag

ResolverSpec == InitResolver /\ [][NextResolver]_lookupVars

-----------------------------------------------------------------------------
(* Properties.                                                               *)

ResolverTypeOK ==
  /\ cancel_flag \in BOOLEAN
  /\ caller \in CallerStates /\ job \in Job \cup {NoJob} /\ ret \in {0, -1, -2}
  /\ heap \in SUBSET Job /\ done \in SUBSET Job /\ abandoned \in SUBSET Job
  /\ mutex \in [Job -> {"free", "caller", "thread"}]
  /\ thread \in [Job -> ThreadUses \cup {"none", "exited"}]
  /\ addrs \in [Job -> {"none", "thread", "job", "caller"}]

\* Neither the caller nor a resolver thread touches a job that has been freed, in
\* whatever order cancellation, the lookup's end, join and free happen.
NoUseAfterFree ==
  /\ caller \in CallerUses => job \in heap
  /\ \A j \in Job : thread[j] \in ThreadUses => j \in heap

\* Nothing is leaked: every job and every address list has somebody who will free
\* it, the caller until it abandons the job and the thread from then on.
NothingLeaked ==
  \A j \in Job :
    /\ j \in heap => \/ job = j /\ caller \notin {"idle", "returned"}
                     \/ j \in abandoned /\ thread[j] \in ThreadUses
    /\ addrs[j] \in {"thread", "job"} => j \in heap
    /\ addrs[j] = "caller" => job = j /\ caller # "idle"

=============================================================================
