--------------------------- MODULE NetTestProofs ----------------------------
(***************************************************************************)
(* The network tests and the diagnosis use resolve_ipv4 as module Resolver *)
(* lets it be used, for any number of targets, addresses and events.  What *)
(* is proved of a lookup there then holds of every lookup here.            *)
(*                                                                         *)
(* The one thing to know is where the worker holds addresses: while it     *)
(* dials, and from the end of the DNS stage until the SOCKS_CONNECT stage  *)
(* has tried them.                                                         *)
(***************************************************************************)
EXTENDS NetTest, ResolverProofs

\* Places of the worker inside fp_diagnostic_run.
Diagnosing == {"stage", "check", "stage_ok", "stage_fails", "stage_cancelled"}

\* Places of the worker inside fp_test_run.
Testing == {"preflight", "next", "announce", "probe", "sampling", "speed", "dial",
            "request", "headers", "body", "recv", "judge", "tell", "done"}

\* Where the worker holds the addresses of a lookup that has returned, and that no
\* call is open elsewhere.
Holding ==
  /\ cancel_flag \in BOOLEAN /\ index \in Nat
  /\ ui = "menu" => worker = "none"
  /\ worker = "start" => index = 1
  /\ worker \in Diagnosing => index \in 1 .. 9
  /\ worker \in Testing => mode # "DIAGNOSTIC"
  /\ mode = "DIAGNOSTIC" /\ worker \in {"resolve", "resolving"} => index = 7
  /\ worker = "dial" => caller = "returned"
  /\ worker = "stage_ok" /\ index = 7 => caller = "returned"
  /\ worker \in {"stage", "check"} /\ index = 8 => caller = "returned"
  /\ caller # "idle" =>
       \/ worker \in {"resolving", "dial"}
       \/ worker = "stage_ok" /\ index = 7
       \/ worker \in {"stage", "check"} /\ index = 8

\* The diagnosis starts with its first stage and no addresses.
LEMMA HoldingInit == Init => Holding
<1> SUFFICES ASSUME Init PROVE Holding
  OBVIOUS
<1>1. cancel_flag \in BOOLEAN
  BY Zenon DEF Init, InitResolver
<1>2. index = 1 /\ worker = "none" /\ caller = "idle" /\ mode = "none"
  BY Zenon DEF Init, InitResolver
<1> QED
  BY <1>1, <1>2 DEF Holding, Diagnosing, Testing

\* The stage that uses the addresses is the eighth of nine.
LEMMA StageNumber ==
  /\ Len(Stages) = 9
  /\ \A i \in 1 .. 9 : /\ Stages[i] = "SOCKS_CONNECT" <=> i = 8
                       /\ Stages[i] = "DNS" <=> i = 7
                       /\ Stages[i] = "DAEMON" <=> i = 2
BY DEF Stages

\* A step of the tests is a step of a lookup, or of those around it, or none.
LookupStepOrNone == NextResolver \/ UNCHANGED lookupVars

\* Every step of the worker and of the page keeps track of the addresses, and does to
\* the lookup only what module Resolver allows.
LEMMA TestSteps == Holding /\ [Next]_vars => Holding' /\ LookupStepOrNone
<1> SUFFICES ASSUME Holding, [Next]_vars PROVE Holding' /\ LookupStepOrNone
  OBVIOUS
<1> USE DEF Holding, Diagnosing, Testing, TestModes, SiteModes, Goto, Others,
      NoLookup
<1> USE DEF pageVars, workVars, reportVars, resolverVars, lookupVars, LookupStepOrNone
<1>1. CASE TestBegins
  BY <1>1 DEF TestBegins
<1>2. CASE Preflight
  BY <1>2 DEF Preflight
<1>3. CASE NextTarget
  BY <1>3 DEF NextTarget
<1>4. CASE Announce
  BY <1>4 DEF Announce
<1>5. CASE Probe
  BY <1>5 DEF Probe
<1>6. CASE ProbeEnds
  BY <1>6 DEF ProbeEnds
<1>7. CASE Judge
  BY <1>7 DEF Judge
<1>8. CASE Tell
  BY <1>8 DEF Tell
<1>9. CASE TestDone
  BY <1>9 DEF TestDone
<1>10. CASE SpeedBegins
  BY <1>10 DEF SpeedBegins
<1>11. CASE Request \/ Headers
  BY <1>11 DEF Request, Headers, Failed
<1>12. CASE Body
  BY <1>12 DEF Body
<1>13. CASE Recv
  BY <1>13 DEF Recv
<1>14. CASE StageBegins
  BY <1>14, StageNumber DEF StageBegins, Stage
<1>15. CASE CheckStage
  BY <1>15 DEF CheckStage
<1>16. CASE TryAddress
  BY <1>16 DEF TryAddress
<1>17. CASE Transparent
  BY <1>17, StageNumber DEF Transparent, CancelOrFail, Stage
<1>18. CASE StageOk
  BY <1>18, StageNumber DEF StageOk, EmitItem
<1>19. CASE StageFails
  BY <1>19 DEF StageFails
<1>20. CASE StageCancelled
  BY <1>20 DEF StageCancelled
<1>21. CASE DiagnosisDone
  BY <1>21 DEF DiagnosisDone
<1>22. CASE WorkerReturns
  BY <1>22 DEF WorkerReturns
<1>23. CASE Resolve
  BY <1>23 DEF Resolve, BeginResolve, NextResolver, RefuseCancelled, RefuseSetup, CreateJob
<1>24. CASE Resolving
  BY <1>24 DEF Resolving, NextResolver, CallerStep, LockJob, TestLoop, WakeUp, Abandon,
     TakeResult, Join, DestroyJob
<1>25. CASE SpeedResolved
  BY <1>25 DEF SpeedResolved, Failed, Consume, NextResolver
<1>26. CASE Dial
  BY <1>26 DEF Dial, Failed, Consume, NextResolver
<1>27. CASE DiagnosisResolved
  BY <1>27 DEF DiagnosisResolved, CancelOrFail, Consume, NextResolver
<1>28. CASE AddressesTried
  BY <1>28, StageNumber DEF AddressesTried, CancelOrFail, Stage, Consume, NextResolver
<1>29. ASSUME NEW p, NEW m, Session(p, m) PROVE Holding' /\ LookupStepOrNone
  BY <1>29 DEF Session, NextResolver, SetFlag
<1>30. CASE Cancel
  BY <1>30 DEF Cancel, NextResolver, SetFlag
<1>31. ASSUME NEW p, ReadEvent(p) PROVE Holding' /\ LookupStepOrNone
  BY <1>31 DEF ReadEvent
<1>32. CASE PollFails
  BY <1>32 DEF PollFails
<1>33. CASE JoinWorker
  BY <1>33 DEF JoinWorker, NextResolver, SetFlag
<1>34. ASSUME NEW j \in Job, LookupStep(j) PROVE Holding' /\ LookupStepOrNone
   BY <1>34 DEF LookupStep, NextResolver, ThreadStep, Lookup, ThreadLock,
     FindAbandoned, Drop,
     Publish, ThreadUnlock
<1>35. CASE UNCHANGED vars
  BY <1>35 DEF vars
<1>36. CASE WorkerStep
  BY <1>36, <1>1, <1>2, <1>3, <1>4, <1>5, <1>6, <1>7, <1>8, <1>9, <1>10, <1>11,
     <1>12, <1>13, <1>14, <1>15, <1>16, <1>17, <1>18, <1>19, <1>20, <1>21, <1>22,
     <1>23, <1>24, <1>25, <1>26, <1>27, <1>28
     DEF WorkerStep, NextSite, NextSpeed, JudgeSite, JudgeSpeed
<1>37. CASE PageStep
  BY <1>37, <1>29, <1>31, <1>30, <1>32, <1>33
     DEF PageStep, StartTest, StartMonitorTest, StartDiagnosis, ReadTestEvent,
     ReadMonitorEvent, ReadDiagnosticEvent
<1> QED
  BY <1>36, <1>37, <1>34, <1>35 DEF Next

\* The worker holds addresses where the invariant says, for ever.
LEMMA HoldingHolds == Spec => []Holding
<1>1. Holding /\ [Next]_vars => Holding'
  BY TestSteps
<1> QED
  BY HoldingInit, <1>1, PTL DEF Spec

\* Whatever a test or the diagnosis goes through, it makes one lookup at a time and
\* frees its addresses exactly once: the network tests implement module Resolver.
THEOREM TestsUseResolver == Spec => UsesResolver
<1>1. Init => InitResolver
  BY DEF Init
<1>2. Holding /\ [Next]_vars => [NextResolver]_lookupVars
  BY TestSteps DEF LookupStepOrNone
<1> QED
  BY <1>1, <1>2, HoldingHolds, PTL DEF Spec, UsesResolver, ResolverSpec

\* A page returns only when its worker has ended and no call of resolve_ipv4 is open:
\* nothing points into the page's stack any more.
THEOREM PageOutlivesWorker == Spec => []StackOutlives
<1>1. Holding => StackOutlives
  BY DEF Holding, StackOutlives
<1> QED
  BY <1>1, HoldingHolds, PTL

\* So no test uses or frees the memory of a lookup that is gone, and none leaks any.
THEOREM TestsSafe == Spec => [](NoUseAfterFree /\ NothingLeaked)
BY TestsUseResolver, NeverUsedAfterFree, NeverLeaked, PTL DEF UsesResolver

=============================================================================
