---------------------------- MODULE ReportProofs -----------------------------
(***************************************************************************)
(* The report of a network test or of the diagnosis, the events that tell  *)
(* the page of it, and what the page shows, for any number of targets, any *)
(* number of events and any size of the pipe.                              *)
(*                                                                         *)
(* The invariant reads the report off the worker's place: the targets      *)
(* before the index are settled, those after it have not begun, and the    *)
(* place says what the one at the index is.  An event in the pipe says     *)
(* what the report says already; the last one is the last for good.        *)
(***************************************************************************)
EXTENDS NetTestProofs, FiniteSetTheorems

\* Places of the worker: a target is measured, the thread has nothing more to tell.
Measuring == {"announce", "probe", "sampling", "speed", "resolve", "resolving", "dial",
              "request", "headers", "body", "recv", "judge"}
Leaving == {"leaving", "exited"}
TestPlaces == {"start", "preflight", "next", "tell", "done"} \cup Measuring \cup Leaving
StagePlaces == {"start", "resolve", "resolving", "finish"} \cup Diagnosing \cup Leaving

\* What is on the page, and in which function its worker is.
Shape ==
  /\ page \in {"none", "test", "monitor", "diagnostic"} /\ ui \in {"menu", "loop", "join"}
  /\ mode \in TestModes \cup {"DIAGNOSTIC", "none"} /\ poll_failed \in BOOLEAN
  /\ ui = "menu" <=> mode = "none"
  /\ mode = "none" => page = "none" /\ worker = "none" /\ items = <<>> /\ history = <<>>
                      /\ index = 1 /\ completed = 0 /\ passed = 0 /\ failures = <<>>
  /\ mode \in TestModes => page \in {"test", "monitor"} /\ worker \in TestPlaces
  /\ mode = "DIAGNOSTIC" => page = "diagnostic" /\ worker \in StagePlaces
  /\ mode # "none" => /\ items \in [1 .. Count(mode) -> ItemStates]
                      /\ history \in [1 .. Count(mode) -> ItemStates \cup {"none"}]
  /\ tries \in Nat /\ outcome \in {0, -1, -2}
  /\ listener_ok \in BOOLEAN /\ cancelled \in BOOLEAN /\ success \in BOOLEAN

\* The targets of a test, and how many of them are settled.
Targets ==
  mode \in TestModes =>
    /\ index \in 1 .. Count(mode) + 1 /\ completed = 0
    /\ \A i \in 1 .. Count(mode) : /\ i < index => items[i] \in Final
                                   /\ i > index => items[i] = "PENDING"
    /\ worker \in {"start", "preflight", "tell"} \cup Measuring => index <= Count(mode)
    /\ index <= Count(mode) =>
         /\ worker \in {"start", "preflight", "next"} => items[index] = "PENDING"
         /\ worker \in Measuring => items[index] = "RUNNING"
         /\ worker = "tell" => items[index] \in Final
         /\ worker \in {"done"} \cup Leaving =>
              items[index] = IF cancelled THEN "CANCELLED" ELSE "PENDING"
         /\ worker \in {"done"} \cup Leaving /\ ~cancelled => ~listener_ok
    /\ cancelled => worker \in {"done"} \cup Leaving /\ index <= Count(mode)

\* The counters of a test.
Counters ==
  mode \in TestModes =>
    /\ passed \in Nat /\ failures \in Seq(Nat)
    /\ passed + Len(failures) = IF worker = "tell" THEN index ELSE index - 1
    /\ passed = Cardinality({i \in 1 .. Count(mode) : items[i] = "OK"})
    /\ \A i \in 1 .. Count(mode) :
         items[i] = "FAIL" <=> \E k \in 1 .. Len(failures) : failures[k] = i
    /\ \A k \in 1 .. Len(failures) : failures[k] \in 1 .. Count(mode)
    /\ \A k, l \in 1 .. Len(failures) : k < l => failures[k] < failures[l]

\* The stages of a diagnosis.
Staged ==
  mode = "DIAGNOSTIC" =>
    /\ index \in 1 .. 9 /\ passed = 0 /\ failures = <<>>
    /\ \A i \in 1 .. 9 : /\ i < index => items[i] = "OK"
                         /\ i > index => items[i] = "PENDING"
    /\ worker \in {"start", "stage"} => items[index] = "PENDING"
    /\ worker \in {"resolve", "resolving", "check", "stage_ok", "stage_fails"} =>
         items[index] = "RUNNING"
    /\ worker = "stage_cancelled" => items[index] \in {"PENDING", "RUNNING"}
    /\ worker \notin {"finish"} \cup Leaving =>
         completed = index - 1 /\ ~success /\ ~cancelled
    /\ worker \in {"finish"} \cup Leaving =>
         /\ completed = index
         /\ \/ items[index] = "OK" /\ index = 9 /\ success /\ ~cancelled
            \/ items[index] = "FAIL" /\ ~success /\ ~cancelled /\ reason \in Reasons(Stage)
            \/ items[index] = "CANCELLED" /\ ~success /\ cancelled

\* Why a stage fails; a cancelled connection attempt leaves the flag set.
Reasoned ==
  mode = "DIAGNOSTIC" =>
    /\ worker = "stage_fails" => reason \in Reasons(Stage)
    /\ worker = "check" /\ index = 8 =>
         /\ reason \in Reasons("SOCKS_CONNECT") \cup {"NONE", "CANCELLED"}
         /\ reason = "CANCELLED" => cancel_flag

\* What can be in the pipe.  Only the last event ends the page's loop.
Event == [phase : TestModes \cup {"PREFLIGHT", "STAGE", "DONE"}, index : Nat, state : ItemStates]
Piped ==
  /\ pipe \in Seq(Event) /\ Len(pipe) <= PipeSize
  /\ \A k \in 1 .. Len(pipe) : pipe[k].phase = "DONE" => k = Len(pipe) /\ worker \in Leaving
  /\ DoneIsLast

\* The result of a site test that has been told or shown is the one in the report, and
\* every settled one was told.
Result(k) == pipe[k].phase \in SiteModes /\ pipe[k].state \in Remembered
Shown ==
  mode \in SiteModes /\ page = "test" =>
    /\ \A k \in 1 .. Len(pipe) : Result(k) =>
         /\ pipe[k].index \in 1 .. Count(mode) /\ pipe[k].state \in Final
         /\ items[pipe[k].index] = pipe[k].state
    /\ \A i \in 1 .. Count(mode) :
         /\ history[i] # "none" => items[i] \in Final /\ history[i] = items[i]
         /\ items[i] \in Final /\ ~(worker = "tell" /\ i = index) =>
              \/ history[i] = items[i]
              \/ \E k \in 1 .. Len(pipe) : Result(k) /\ pipe[k].index = i

\* The inductive invariant.
ReportInv ==
  Holding /\ Shape /\ Targets /\ Counters /\ Staged /\ Reasoned /\ Piped /\ Shown

-----------------------------------------------------------------------------
(* Where the worker is and what its page shows.                              *)

\* A test has targets and the diagnosis nine stages.
LEMMA CountType ==
  /\ \A m : Count(m) \in Nat \ {0}
  /\ Count("DIAGNOSTIC") = 9
<1>1. Len(Stages) = 9
  BY StageNumber
<1> QED
  BY <1>1, NetTestAssumption DEF Count

\* Every step keeps the page, the mode and the worker's place in step.
LEMMA ShapeNext == ReportInv /\ [Next]_vars => Shape'
<1> SUFFICES ASSUME ReportInv, [Next]_vars PROVE Shape'
  OBVIOUS
<1> USE DEF pageVars, workVars, reportVars, Goto, Others
<1>0. Shape /\ Holding
  BY DEF ReportInv
<1>1. ASSUME UNCHANGED <<page, ui, mode, poll_failed, history, items, index, completed, passed,
                         failures, tries, outcome, listener_ok, cancelled, success, worker>>
      PROVE  Shape'
  BY <1>0, <1>1 DEF Shape
<1>2. ASSUME UNCHANGED <<page, ui, mode, poll_failed, history>>, mode \in TestModes,
             worker' \in TestPlaces,
             items' = items \/ \E s \in ItemStates : items' = [items EXCEPT ![index] = s],
             tries' \in Nat, outcome' \in {0, -1, -2}, listener_ok' \in BOOLEAN,
             cancelled' \in BOOLEAN, success' \in BOOLEAN
      PROVE  Shape'
  <2>1. mode # "none" /\ mode # "DIAGNOSTIC"
    BY <1>2 DEF TestModes, SiteModes
  <2>2. items' \in [1 .. Count(mode) -> ItemStates]
    BY <1>0, <1>2, <2>1 DEF Shape
  <2> QED
    BY <1>0, <1>2, <2>1, <2>2 DEF Shape
<1>3. ASSUME UNCHANGED <<page, ui, mode, poll_failed, history>>, mode = "DIAGNOSTIC",
             worker' \in StagePlaces,
             items' = items \/ \E s \in ItemStates : items' = [items EXCEPT ![index] = s],
             tries' \in Nat, outcome' \in {0, -1, -2}, listener_ok' \in BOOLEAN,
             cancelled' \in BOOLEAN, success' \in BOOLEAN
      PROVE  Shape'
  <2>1. mode # "none" /\ mode \notin TestModes
    BY <1>3 DEF TestModes, SiteModes
  <2>2. items' \in [1 .. Count(mode) -> ItemStates]
    BY <1>0, <1>3, <2>1 DEF Shape
  <2> QED
    BY <1>0, <1>3, <2>1, <2>2 DEF Shape
<1>4. /\ tries \in Nat /\ tries + 1 \in Nat /\ outcome \in {0, -1, -2} /\ listener_ok \in BOOLEAN
      /\ cancelled \in BOOLEAN /\ success \in BOOLEAN
      /\ worker \in Testing => mode \in TestModes
      /\ worker \in Diagnosing \cup {"finish"} => mode = "DIAGNOSTIC"
      /\ worker # "none" => mode \in TestModes \/ mode = "DIAGNOSTIC"
  BY <1>0 DEF Shape, Holding, Testing, Diagnosing, StagePlaces, TestPlaces, Measuring, Leaving
<1>5. CASE TestBegins \/ Preflight \/ NextTarget \/ Announce \/ Probe \/ ProbeEnds \/ Judge
  <2> USE DEF Testing, TestPlaces, Measuring, ItemStates
  <2>1. CASE TestBegins
    BY <1>2, <1>4, <2>1 DEF TestBegins
  <2>2. CASE Preflight
    BY <1>2, <1>4, <2>2 DEF Preflight
  <2>3. CASE NextTarget
    BY <1>2, <1>4, <2>3 DEF NextTarget, Mark
  <2>4. CASE Announce
    BY <1>2, <1>4, <2>4 DEF Announce
  <2>5. CASE Probe
    BY <1>2, <1>4, <2>5 DEF Probe
  <2>6. CASE ProbeEnds
    BY <1>2, <1>4, <2>6 DEF ProbeEnds
  <2>7. CASE Judge
    BY <1>2, <1>4, <2>7 DEF Judge, Mark
  <2> QED
    BY <1>5, <2>1, <2>2, <2>3, <2>4, <2>5, <2>6, <2>7
<1>6. CASE Tell \/ TestDone \/ SpeedBegins \/ Request \/ Headers \/ Body \/ Recv \/ Dial
  <2> USE DEF Testing, TestPlaces, Measuring, Leaving, Failed
  <2>1. CASE Tell
    BY <1>2, <1>4, <2>1 DEF Tell
  <2>2. CASE TestDone
    BY <1>2, <1>4, <2>2 DEF TestDone
  <2>3. CASE SpeedBegins
    BY <1>2, <1>4, <2>3 DEF SpeedBegins
  <2>4. CASE Request
    BY <1>2, <1>4, <2>4 DEF Request
  <2>5. CASE Headers
    BY <1>2, <1>4, <2>5 DEF Headers
  <2>6. CASE Body
    BY <1>2, <1>4, <2>6 DEF Body
  <2>7. CASE Recv
    BY <1>2, <1>4, <2>7 DEF Recv
  <2>8. CASE Dial
    BY <1>2, <1>4, <2>8 DEF Dial
  <2> QED
    BY <1>6, <2>1, <2>2, <2>3, <2>4, <2>5, <2>6, <2>7, <2>8
<1>7. CASE Resolve \/ Resolving \/ SpeedResolved \/ DiagnosisResolved \/ WorkerReturns
  <2> USE DEF TestPlaces, StagePlaces, Diagnosing, Measuring, Leaving
  <2>1. CASE Resolve
    BY <1>2, <1>3, <1>4, <2>1 DEF Resolve
  <2>2. CASE Resolving
    BY <1>1, <2>2 DEF Resolving
  <2>3. CASE SpeedResolved
    BY <1>2, <1>4, <2>3 DEF SpeedResolved, Failed, TestModes
  <2>4. CASE DiagnosisResolved
    BY <1>3, <1>4, <2>4 DEF DiagnosisResolved, CancelOrFail
  <2>5. CASE WorkerReturns
    BY <1>2, <1>3, <1>4, <2>5 DEF WorkerReturns
  <2> QED
    BY <1>7, <2>1, <2>2, <2>3, <2>4, <2>5
<1>8. CASE \/ StageBegins \/ CheckStage \/ TryAddress \/ AddressesTried \/ Transparent
           \/ StageOk \/ StageFails \/ StageCancelled \/ DiagnosisDone
  <2> USE DEF StagePlaces, Diagnosing, Leaving, ItemStates
  <2>1. CASE StageBegins
    BY <1>3, <1>4, <2>1 DEF StageBegins, Mark
  <2>2. CASE CheckStage
    BY <1>3, <1>4, <2>2 DEF CheckStage
  <2>3. CASE TryAddress
    <3>1. tries' \in Nat
      BY <1>4, <2>3, NetTestAssumption DEF TryAddress
    <3> QED
      BY <1>3, <1>4, <2>3, <3>1 DEF TryAddress
  <2>4. CASE AddressesTried
    BY <1>3, <1>4, <2>4 DEF AddressesTried, CancelOrFail
  <2>5. CASE Transparent
    BY <1>3, <1>4, <2>5 DEF Transparent, CancelOrFail
  <2>6. CASE StageOk
    BY <1>3, <1>4, <2>6 DEF StageOk, EmitItem, Mark
  <2>7. CASE StageFails
    BY <1>3, <1>4, <2>7 DEF StageFails, EmitItem, Mark
  <2>8. CASE StageCancelled
    BY <1>3, <1>4, <2>8 DEF StageCancelled, EmitItem, Mark
  <2>9. CASE DiagnosisDone
    BY <1>3, <1>4, <2>9 DEF DiagnosisDone
  <2> QED
    BY <1>8, <2>1, <2>2, <2>3, <2>4, <2>5, <2>6, <2>7, <2>8, <2>9
<1>9. ASSUME NEW p, NEW m, Session(p, m),
             \/ m \in TestModes /\ p \in {"test", "monitor"}
             \/ m = "DIAGNOSTIC" /\ p = "diagnostic"
      PROVE  Shape'
  BY <1>9 DEF Session, Shape, TestModes, SiteModes, ItemStates, TestPlaces, StagePlaces
<1>10. CASE Cancel
  BY <1>1, <1>10 DEF Cancel
<1>11. CASE ReadTestEvent \/ ReadMonitorEvent \/ ReadDiagnosticEvent
  <2>1. /\ ui = "loop" /\ ui' \in {"loop", "join"}
        /\ (history' = history \/ history' = Remember(Head(pipe)))
        /\ UNCHANGED <<page, mode, poll_failed, items, index, completed, passed,
                       failures, tries, outcome, listener_ok, cancelled, success, worker>>
    BY <1>11 DEF ReadTestEvent, ReadMonitorEvent, ReadDiagnosticEvent, ReadEvent
  <2>2. mode # "none"
    BY <1>0, <2>1 DEF Shape
  <2>3. history' \in [1 .. Count(mode) -> ItemStates \cup {"none"}]
    BY <1>0, <2>1, <2>2 DEF Shape, Remember, Remembered, ItemStates
  <2> QED
    BY <1>0, <2>1, <2>2, <2>3 DEF Shape
<1>12. CASE PollFails
  BY <1>0, <1>12 DEF PollFails, Shape
<1>13. CASE JoinWorker
  BY <1>0, <1>13 DEF JoinWorker, Shape, TestModes, SiteModes
<1>14. ASSUME NEW j \in Job, LookupStep(j) PROVE Shape'
  BY <1>1, <1>14 DEF LookupStep
<1>15. CASE UNCHANGED vars
  BY <1>1, <1>15 DEF vars
<1> QED
  BY <1>5, <1>6, <1>7, <1>8, <1>9, <1>10, <1>11, <1>12, <1>13, <1>14, <1>15
  DEF Next, WorkerStep, PageStep, NextSite, NextSpeed, JudgeSite, JudgeSpeed, StartTest,
      StartMonitorTest, StartDiagnosis

-----------------------------------------------------------------------------
(* The targets of a test.                                                    *)

\* The steps of a test, as far as its report goes: the worker moves on, gives up before
\* the first target, begins a target, finds the end of the list or the flag, judges a
\* target, and tells the page.
MovesOn ==
  /\ UNCHANGED <<items, passed, failures, index, cancelled, completed>>
  /\ \/ worker = "start" /\ worker' = "preflight" /\ UNCHANGED listener_ok
     \/ worker = "preflight" /\ worker' = "next"
     \/ worker = "preflight" /\ worker' = "done" /\ listener_ok' = FALSE
     \/ worker \in Measuring /\ worker' \in Measuring /\ UNCHANGED listener_ok
     \/ worker = "next" /\ index > Count(mode) /\ worker' = "done" /\ UNCHANGED listener_ok
     \/ worker = "done" /\ worker' = "leaving" /\ UNCHANGED listener_ok
     \/ worker = "leaving" /\ worker' = "exited" /\ UNCHANGED listener_ok
Settles(state) ==
  /\ items' = [items EXCEPT ![index] = state]
  /\ UNCHANGED <<index, completed, listener_ok>>
Begins ==
  /\ worker = "next" /\ index <= Count(mode) /\ Settles("RUNNING") /\ worker' \in Measuring
  /\ UNCHANGED <<passed, failures, cancelled>>
GivesUp ==
  /\ worker \in {"next"} \cup Measuring /\ index <= Count(mode)
  /\ Settles("CANCELLED") /\ worker' = "done"
  /\ cancelled' = TRUE /\ UNCHANGED <<passed, failures>>
Passes ==
  /\ worker \in Measuring /\ Settles("OK") /\ worker' = "tell"
  /\ passed' = passed + 1 /\ UNCHANGED <<failures, cancelled>>
FailsTarget ==
  /\ worker \in Measuring /\ Settles("FAIL") /\ worker' = "tell"
  /\ failures' = Append(failures, index) /\ UNCHANGED <<passed, cancelled>>
Told ==
  /\ worker = "tell" /\ worker' = "next" /\ index' = index + 1
  /\ UNCHANGED <<items, passed, failures, cancelled, completed, listener_ok>>
Still ==
  UNCHANGED <<items, passed, failures, index, cancelled, completed, listener_ok, worker>>
TestStep == MovesOn \/ Begins \/ GivesUp \/ Passes \/ FailsTarget \/ Told \/ Still

\* While a test runs, every step is one of these, and only its end changes the mode.
LEMMA TestForms ==
  ASSUME ReportInv, [Next]_vars, mode \in TestModes
  PROVE  JoinWorker \/ (UNCHANGED mode /\ TestStep)
<1> USE DEF pageVars, workVars, reportVars, Goto, Others
<1>0. /\ Shape /\ Holding /\ Targets /\ ui # "menu" /\ mode # "DIAGNOSTIC" /\ mode # "none"
      /\ worker \in TestPlaces
  BY DEF ReportInv, Shape, TestModes, SiteModes
<1>1. /\ worker \notin Diagnosing \cup {"finish"}
      /\ worker \in Measuring => index <= Count(mode)
      /\ index \in Nat /\ Count(mode) \in Nat
  BY <1>0, CountType DEF TestPlaces, Measuring, Leaving, Diagnosing, Targets
<1> USE DEF Measuring
<1>2. CASE TestBegins \/ Preflight \/ Announce \/ Probe \/ ProbeEnds
  BY <1>2 DEF TestBegins, Preflight, Announce, Probe, ProbeEnds, MovesOn, TestStep
<1>3. CASE NextTarget
  BY <1>1, <1>3 DEF NextTarget, MoreTargets, Mark, MovesOn, Begins, GivesUp, Settles, TestStep
<1>4. CASE Judge
  BY <1>1, <1>4 DEF Judge, Mark, GivesUp, Passes, FailsTarget, Settles, TestStep
<1>5. CASE Tell
  BY <1>5 DEF Tell, Told, TestStep
<1>6. CASE TestDone \/ SpeedBegins \/ Request \/ Headers \/ Body \/ Recv
  BY <1>6 DEF TestDone, SpeedBegins, Request, Headers, Body, Recv, Failed, MovesOn, TestStep
<1>7. CASE Dial \/ Resolve \/ SpeedResolved \/ WorkerReturns
  BY <1>7 DEF Dial, Resolve, SpeedResolved, WorkerReturns, Failed, MovesOn, TestStep
<1>8. CASE Resolving
  BY <1>8 DEF Resolving, Still, TestStep
<1>9. CASE \/ StageBegins \/ CheckStage \/ TryAddress \/ AddressesTried \/ Transparent
           \/ StageOk \/ StageFails \/ StageCancelled \/ DiagnosisDone \/ DiagnosisResolved
  BY <1>0, <1>1, <1>9
  DEF StageBegins, CheckStage, TryAddress, AddressesTried, Transparent, StageOk, StageFails,
      StageCancelled, DiagnosisDone, DiagnosisResolved, Diagnosing
<1>10. ASSUME NEW p, NEW m, Session(p, m) PROVE FALSE
  BY <1>0, <1>10 DEF Session
<1>11. CASE Cancel \/ PollFails
  BY <1>11 DEF Cancel, PollFails, Still, TestStep
<1>12. CASE ReadTestEvent \/ ReadMonitorEvent \/ ReadDiagnosticEvent
  BY <1>12 DEF ReadTestEvent, ReadMonitorEvent, ReadDiagnosticEvent, ReadEvent, Still, TestStep
<1>13. ASSUME NEW j \in Job, LookupStep(j) PROVE UNCHANGED mode /\ TestStep
  BY <1>13 DEF LookupStep, Still, TestStep
<1>14. CASE UNCHANGED vars
  BY <1>14 DEF vars, Still, TestStep
<1> QED
  BY <1>2, <1>3, <1>4, <1>5, <1>6, <1>7, <1>8, <1>9, <1>10, <1>11, <1>12, <1>13, <1>14
  DEF Next, WorkerStep, PageStep, NextSite, NextSpeed, JudgeSite, JudgeSpeed, StartTest,
      StartMonitorTest, StartDiagnosis

\* A mode begins with a session, and ends with the page.
LEMMA ModeStarts ==
  ASSUME ReportInv, [Next]_vars, mode' # mode
  PROVE  \/ JoinWorker
         \/ \E m \in TestModes, p \in {"test", "monitor"} : Session(p, m)
         \/ Session("diagnostic", "DIAGNOSTIC")
<1> USE DEF pageVars, workVars, reportVars, Goto, Others
<1>1. CASE WorkerStep
  BY <1>1
  DEF WorkerStep, TestBegins, Preflight, NextSite, NextSpeed, NextTarget, Announce, Probe,
      ProbeEnds, JudgeSite, JudgeSpeed, Judge, Tell, TestDone, SpeedBegins, Resolve, Resolving,
      SpeedResolved, Dial, Request, Headers, Body, Recv, StageBegins, CheckStage,
      DiagnosisResolved, TryAddress, AddressesTried, Transparent, StageOk, StageFails,
      StageCancelled, DiagnosisDone, WorkerReturns
<1>2. CASE PageStep
  BY <1>2 DEF PageStep, StartTest, StartMonitorTest, StartDiagnosis, Cancel, ReadTestEvent,
              ReadMonitorEvent, ReadDiagnosticEvent, ReadEvent, PollFails
<1>3. ASSUME NEW j \in Job, LookupStep(j) PROVE FALSE
  BY <1>3 DEF LookupStep
<1>4. CASE UNCHANGED vars
  BY <1>4 DEF vars
<1> QED
  BY <1>1, <1>2, <1>3, <1>4 DEF Next

\* A fresh report, and none.
LEMMA TargetsFresh ==
  ASSUME ReportInv, [Next]_vars, mode' # mode
  PROVE  Targets' /\ Counters'
<1>1. CASE JoinWorker
  BY <1>1 DEF JoinWorker, Targets, Counters, TestModes, SiteModes
<1>2. ASSUME NEW m \in TestModes, NEW p, Session(p, m) PROVE Targets' /\ Counters'
  <2>1. /\ mode' = m /\ worker' = "start" /\ index' = 1 /\ cancelled' = FALSE /\ completed' = 0
        /\ items' = [i \in 1 .. Count(m) |-> "PENDING"] /\ passed' = 0 /\ failures' = <<>>
    BY <1>2 DEF Session
  <2>2. Count(m) \in Nat \ {0}
    BY CountType
  <2>3. Targets'
    BY <2>1, <2>2 DEF Targets, Measuring, Leaving
  <2>4. {i \in 1 .. Count(mode') : items'[i] = "OK"} = {}
    BY <2>1
  <2>5. passed' = Cardinality({i \in 1 .. Count(mode') : items'[i] = "OK"})
    BY <2>1, <2>4, FS_EmptySet
  <2>6. Counters'
    BY <2>1, <2>2, <2>5 DEF Counters
  <2> QED
    BY <2>3, <2>6
<1>3. CASE Session("diagnostic", "DIAGNOSTIC")
  BY <1>3 DEF Session, Targets, Counters, TestModes, SiteModes
<1> QED
  BY <1>1, <1>2, <1>3, ModeStarts

\* Targets are settled one after the other.
LEMMA TargetsNext == ReportInv /\ [Next]_vars => Targets'
<1> SUFFICES ASSUME ReportInv, [Next]_vars PROVE Targets'
  OBVIOUS
<1>1. CASE mode' # mode
  BY <1>1, TargetsFresh
<1>2. CASE mode' = mode /\ mode \notin TestModes
  BY <1>2 DEF Targets
<1>3. CASE mode' = mode /\ mode \in TestModes
  <2> DEFINE n == Count(mode)
  <2>1. /\ TestStep /\ n \in Nat /\ items \in [1 .. n -> ItemStates] /\ worker \in TestPlaces
        /\ cancelled \in BOOLEAN
    <3>1. ~JoinWorker /\ mode # "none"
      BY <1>3 DEF JoinWorker, TestModes, SiteModes
    <3> QED
      BY <1>3, <3>1, TestForms, CountType DEF ReportInv, Shape
  <2>2. /\ index \in 1 .. n + 1 /\ completed = 0
        /\ \A i \in 1 .. n : /\ i < index => items[i] \in Final
                             /\ i > index => items[i] = "PENDING"
        /\ worker \in {"start", "preflight", "tell"} \cup Measuring => index <= n
        /\ index <= n =>
             /\ worker \in {"start", "preflight", "next"} => items[index] = "PENDING"
             /\ worker \in Measuring => items[index] = "RUNNING"
             /\ worker = "tell" => items[index] \in Final
             /\ worker \in {"done"} \cup Leaving =>
                  items[index] = IF cancelled THEN "CANCELLED" ELSE "PENDING"
             /\ worker \in {"done"} \cup Leaving /\ ~cancelled => ~listener_ok
        /\ cancelled => worker \in {"done"} \cup Leaving /\ index <= n
    BY <1>3 DEF ReportInv, Targets
  <2> HIDE DEF n
  <2> SUFFICES
        /\ index' \in 1 .. n + 1 /\ completed' = 0
        /\ \A i \in 1 .. n : /\ i < index' => items'[i] \in Final
                             /\ i > index' => items'[i] = "PENDING"
        /\ worker' \in {"start", "preflight", "tell"} \cup Measuring => index' <= n
        /\ index' <= n =>
             /\ worker' \in {"start", "preflight", "next"} => items'[index'] = "PENDING"
             /\ worker' \in Measuring => items'[index'] = "RUNNING"
             /\ worker' = "tell" => items'[index'] \in Final
             /\ worker' \in {"done"} \cup Leaving =>
                  items'[index'] = IF cancelled' THEN "CANCELLED" ELSE "PENDING"
             /\ worker' \in {"done"} \cup Leaving /\ ~cancelled' => ~listener_ok'
        /\ cancelled' => worker' \in {"done"} \cup Leaving /\ index' <= n
    BY <1>3 DEF Targets, n
  <2> USE DEF Measuring, Leaving
  <2>3. CASE MovesOn
    BY <2>1, <2>2, <2>3 DEF MovesOn, n
  <2>4. CASE Begins
    BY <2>1, <2>2, <2>4 DEF Begins, Settles, n
  <2>5. CASE GivesUp
    BY <2>1, <2>2, <2>5 DEF GivesUp, Settles, n
  <2>6. CASE Passes \/ FailsTarget
    BY <2>1, <2>2, <2>6 DEF Passes, FailsTarget, Settles, Final
  <2>7. CASE Told
    BY <2>1, <2>2, <2>7 DEF Told
  <2>8. CASE Still
    BY <2>1, <2>2, <2>8 DEF Still
  <2> QED
    BY <2>1, <2>3, <2>4, <2>5, <2>6, <2>7, <2>8 DEF TestStep
<1> QED
  BY <1>1, <1>2, <1>3

\* The counters and the list of failures follow the targets.
LEMMA CountersNext == ReportInv /\ [Next]_vars => Counters'
<1> SUFFICES ASSUME ReportInv, [Next]_vars PROVE Counters'
  OBVIOUS
<1>1. CASE mode' # mode
  BY <1>1, TargetsFresh
<1>2. CASE mode' = mode /\ mode \notin TestModes
  BY <1>2 DEF Counters
<1>3. CASE mode' = mode /\ mode \in TestModes
  <2> DEFINE n == Count(mode)
             Ok == {i \in 1 .. n : items[i] = "OK"}
  <2>1. /\ TestStep /\ n \in Nat /\ items \in [1 .. n -> ItemStates] /\ worker \in TestPlaces
    <3>1. ~JoinWorker /\ mode # "none"
      BY <1>3 DEF JoinWorker, TestModes, SiteModes
    <3> QED
      BY <1>3, <3>1, TestForms, CountType DEF ReportInv, Shape
  <2>2. /\ index \in 1 .. n + 1
        /\ \A i \in 1 .. n : i > index => items[i] = "PENDING"
        /\ worker \in {"tell"} \cup Measuring => index <= n
        /\ index <= n /\ worker = "next" => items[index] = "PENDING"
        /\ index <= n /\ worker \in Measuring => items[index] = "RUNNING"
    BY <1>3 DEF ReportInv, Targets
  <2>3. /\ passed \in Nat /\ failures \in Seq(Nat) /\ Len(failures) \in Nat
        /\ passed + Len(failures) = IF worker = "tell" THEN index ELSE index - 1
        /\ passed = Cardinality(Ok)
        /\ \A i \in 1 .. n : items[i] = "FAIL" <=> \E k \in 1 .. Len(failures) : failures[k] = i
        /\ \A k \in 1 .. Len(failures) : failures[k] \in 1 .. n
        /\ \A k, l \in 1 .. Len(failures) : k < l => failures[k] < failures[l]
    BY <1>3 DEF ReportInv, Counters
  <2> HIDE DEF n
  <2>4. IsFiniteSet(Ok)
    <3>1. IsFiniteSet(1 .. n)
      BY <2>1, FS_Interval
    <3> QED
      BY <3>1, FS_Subset
  <2> DEFINE OkNext == {i \in 1 .. n : items'[i] = "OK"}
  <2> SUFFICES
        /\ passed' \in Nat /\ failures' \in Seq(Nat)
        /\ passed' + Len(failures') = IF worker' = "tell" THEN index' ELSE index' - 1
        /\ passed' = Cardinality(OkNext)
        /\ \A i \in 1 .. n : items'[i] = "FAIL" <=> \E k \in 1 .. Len(failures') : failures'[k] = i
        /\ \A k \in 1 .. Len(failures') : failures'[k] \in 1 .. n
        /\ \A k, l \in 1 .. Len(failures') : k < l => failures'[k] < failures'[l]
    BY <1>3 DEF Counters, n
  <2>5. ASSUME UNCHANGED <<passed, failures, index>>, worker' # "tell", worker # "tell",
               \A i \in 1 .. n : /\ items'[i] = "OK" <=> items[i] = "OK"
                                 /\ items'[i] = "FAIL" <=> items[i] = "FAIL"
        PROVE  /\ passed' \in Nat /\ failures' \in Seq(Nat)
               /\ passed' + Len(failures') = IF worker' = "tell" THEN index' ELSE index' - 1
               /\ passed' = Cardinality(OkNext)
               /\ \A i \in 1 .. n :
                    items'[i] = "FAIL" <=> \E k \in 1 .. Len(failures') : failures'[k] = i
               /\ \A k \in 1 .. Len(failures') : failures'[k] \in 1 .. n
               /\ \A k, l \in 1 .. Len(failures') : k < l => failures'[k] < failures'[l]
    <3>1. OkNext = Ok
      BY <2>5
    <3> HIDE DEF OkNext, Ok
    <3> QED
      BY <2>3, <2>5, <3>1
  <2>6. CASE MovesOn
    BY <2>5, <2>6 DEF MovesOn, Measuring
  <2>7. CASE Begins \/ GivesUp
    <3>1. /\ index \in 1 .. n /\ items[index] \in {"PENDING", "RUNNING"}
          /\ items'[index] \in {"RUNNING", "CANCELLED"}
          /\ \A i \in 1 .. n : i # index => items'[i] = items[i]
      BY <2>1, <2>2, <2>7 DEF Begins, GivesUp, Settles, n
    <3> QED
      BY <2>5, <2>7, <3>1 DEF Begins, GivesUp, Settles, Measuring
  <2>8. CASE Passes
    <3>1. /\ index \in 1 .. n /\ items[index] = "RUNNING" /\ items'[index] = "OK"
          /\ \A i \in 1 .. n : i # index => items'[i] = items[i]
          /\ passed' = passed + 1 /\ UNCHANGED <<failures, index>> /\ worker' = "tell"
          /\ worker # "tell"
      BY <2>1, <2>2, <2>8 DEF Passes, Settles, Measuring
    <3>2. OkNext = Ok \cup {index} /\ index \notin Ok
      BY <3>1
    <3> HIDE DEF Ok, OkNext
    <3>3. Cardinality(OkNext) = Cardinality(Ok) + 1
      BY <2>4, <3>2, FS_AddElement
    <3>4. passed' + Len(failures') = index'
      BY <2>2, <2>3, <3>1
    <3>5. \A i \in 1 .. n : items'[i] = "FAIL" <=> items[i] = "FAIL"
      BY <3>1
    <3>6. passed' = Cardinality(OkNext)
      BY <2>3, <3>1, <3>3
    <3>7. passed' \in Nat /\ failures' \in Seq(Nat)
      BY <2>3, <3>1
    <3> QED
      BY <2>3, <3>1, <3>4, <3>5, <3>6, <3>7
  <2>9. CASE FailsTarget
    <3>1. /\ index \in 1 .. n /\ items[index] = "RUNNING" /\ items'[index] = "FAIL"
          /\ \A i \in 1 .. n : i # index => items'[i] = items[i]
          /\ failures' = Append(failures, index) /\ UNCHANGED <<passed, index>>
          /\ worker' = "tell" /\ worker # "tell"
      BY <2>1, <2>2, <2>9 DEF FailsTarget, Settles, Measuring
    <3>2. OkNext = Ok
      BY <3>1
    <3> HIDE DEF Ok, OkNext
    <3> DEFINE l == Len(failures)
    <3>3. /\ l \in Nat /\ Len(failures') = l + 1 /\ failures'[l + 1] = index /\ index \in Nat
          /\ \A k \in 1 .. l : failures'[k] = failures[k]
          /\ failures' \in Seq(Nat)
      BY <2>2, <2>3, <3>1
    <3>4. \A k \in 1 .. l : failures[k] \in 1 .. n /\ failures[k] < index
      <4> SUFFICES ASSUME NEW k \in 1 .. l PROVE failures[k] \in 1 .. n /\ failures[k] < index
        OBVIOUS
      <4>1. failures[k] \in 1 .. n /\ items[failures[k]] = "FAIL"
        BY <2>3
      <4> QED
        BY <2>2, <3>1, <4>1
    <3> HIDE DEF l
    <3>5. passed' + Len(failures') = index'
      <4>1. passed \in Nat /\ passed + l = index - 1
        BY <2>3, <3>1 DEF l
      <4>2. passed + (l + 1) = index
        BY <3>3, <4>1
      <4> QED
        BY <3>1, <3>3, <4>2, Zenon
    <3>6. ASSUME NEW i \in 1 .. n
          PROVE  items'[i] = "FAIL" <=> \E k \in 1 .. (l + 1) : failures'[k] = i
      <4>1. CASE i = index
        BY <3>1, <3>3, <4>1
      <4>2. CASE i # index
        <5>1. items'[i] = "FAIL" <=> \E k \in 1 .. l : failures[k] = i
          BY <2>3, <3>1, <4>2 DEF l
        <5>2. (\E k \in 1 .. l : failures[k] = i) <=> \E k \in 1 .. (l + 1) : failures'[k] = i
          BY <3>3, <4>2
        <5> QED
          BY <5>1, <5>2
      <4> QED
        BY <4>1, <4>2
    <3>7. \A k \in 1 .. (l + 1) : failures'[k] \in 1 .. n
      BY <3>1, <3>3, <3>4
    <3>8. \A k, j \in 1 .. (l + 1) : k < j => failures'[k] < failures'[j]
      <4> SUFFICES ASSUME NEW k \in 1 .. (l + 1), NEW j \in 1 .. (l + 1), k < j
                   PROVE  failures'[k] < failures'[j]
        OBVIOUS
      <4>1. k \in 1 .. l
        BY <3>3
      <4>2. CASE j = l + 1
        BY <3>3, <3>4, <4>1, <4>2
      <4>3. CASE j \in 1 .. l
        BY <2>3, <3>3, <4>1, <4>3 DEF l
      <4> QED
        BY <3>3, <4>2, <4>3
    <3> QED
      BY <2>3, <3>1, <3>2, <3>3, <3>5, <3>6, <3>7, <3>8
  <2>10. CASE Told
    <3>1. OkNext = Ok /\ UNCHANGED <<items, passed, failures>>
      BY <2>10 DEF Told
    <3>2. worker = "tell" /\ worker' = "next" /\ index' - 1 = index
      BY <2>2, <2>10 DEF Told
    <3> HIDE DEF Ok, OkNext
    <3> QED
      BY <2>3, <3>1, <3>2
  <2>11. CASE Still
    <3>1. OkNext = Ok
      BY <2>11 DEF Still
    <3> HIDE DEF Ok, OkNext
    <3> QED
      BY <2>3, <2>11, <3>1 DEF Still
  <2> QED
    BY <2>1, <2>6, <2>7, <2>8, <2>9, <2>10, <2>11 DEF TestStep
<1> QED
  BY <1>1, <1>2, <1>3

-----------------------------------------------------------------------------
(* The stages of a diagnosis.                                                *)

\* What the stages can find wrong, by number.
LEMMA StageReasons ==
  /\ "DNS_FAILED" \in Reasons(Stages[7])
  /\ Reasons(Stages[8]) = Reasons("SOCKS_CONNECT") /\ "INTERNAL" \in Reasons("SOCKS_CONNECT")
  /\ "TRANSPARENT_FAILED" \in Reasons(Stages[9])
BY DEF Stages, Reasons

\* A diagnosis goes from stage to stage and stops at the first that does not pass.
LEMMA StagedNext == ReportInv /\ [Next]_vars => Staged' /\ Reasoned'
<1> SUFFICES ASSUME ReportInv, [Next]_vars PROVE Staged' /\ Reasoned'
  OBVIOUS
<1> USE DEF pageVars, workVars, reportVars, Goto, Others
<1>1. ASSUME mode' # mode PROVE Staged' /\ Reasoned'
  <2>1. CASE JoinWorker
    BY <2>1 DEF JoinWorker, Staged, Reasoned
  <2>2. ASSUME NEW m \in TestModes, NEW p, Session(p, m) PROVE Staged' /\ Reasoned'
    BY <2>2 DEF Session, Staged, Reasoned, TestModes, SiteModes
  <2>3. CASE Session("diagnostic", "DIAGNOSTIC")
    BY <2>3, CountType DEF Session, Staged, Reasoned, Leaving
  <2> QED
    BY <1>1, <2>1, <2>2, <2>3, ModeStarts
<1>2. CASE mode' = mode /\ mode # "DIAGNOSTIC"
  BY <1>2 DEF Staged, Reasoned
<1>3. ASSUME mode = "DIAGNOSTIC", mode' = mode PROVE Staged' /\ Reasoned'
  <2>0. /\ Holding /\ Shape /\ Staged /\ Reasoned
    BY DEF ReportInv
  <2>1. /\ items \in [1 .. 9 -> ItemStates] /\ worker \in StagePlaces /\ ui # "menu"
        /\ mode \notin TestModes /\ index \in 1 .. 9
    BY <1>3, <2>0, CountType DEF Shape, Staged, TestModes, SiteModes
  <2>2. worker \notin Testing \cup {"none"}
    BY <2>1 DEF Testing, StagePlaces, Diagnosing, Leaving
  <2>3. ASSUME UNCHANGED <<items, index, passed, failures, completed, success, cancelled, reason,
                           worker>>, cancel_flag => cancel_flag'
        PROVE  Staged' /\ Reasoned'
    BY <1>3, <2>0, <2>3 DEF Staged, Reasoned, Stage
  <2>4. CASE StageBegins
    <3>1. CASE Stage = "DAEMON" /\ cancel_flag
      <4>1. /\ worker' = "stage_cancelled" /\ UNCHANGED <<items, index, passed, failures, completed,
                 success, cancelled, cancel_flag>>
        BY <2>4, <3>1 DEF StageBegins
      <4> QED
        BY <1>3, <2>0, <2>1, <2>4, <4>1 DEF StageBegins, Staged, Reasoned, Leaving
    <3>2. CASE ~(Stage = "DAEMON" /\ cancel_flag)
      <4>1. /\ items' = [items EXCEPT ![index] = "RUNNING"] /\ worker' \in {"resolve", "check"}
            /\ UNCHANGED <<index, passed, failures, completed, success, cancelled, cancel_flag>>
            /\ reason' = IF Stage = "SOCKS_CONNECT" THEN "INTERNAL" ELSE reason
            /\ worker \in {"start", "stage"}
        BY <2>4, <3>2 DEF StageBegins, Mark
      <4>2. Staged'
        BY <1>3, <2>0, <2>1, <4>1 DEF Staged, Leaving
      <4>3. Reasoned'
        BY <1>3, <2>1, <4>1, StageNumber, StageReasons DEF Reasoned, Stage
      <4> QED
        BY <4>2, <4>3
    <3> QED
      BY <3>1, <3>2
  <2>5. CASE CheckStage
    <3>1. /\ worker = "check" /\ index < 7 /\ worker' \in {"stage_ok", "stage_fails"}
          /\ worker' = "stage_fails" => reason' \in Reasons(Stage)
          /\ UNCHANGED <<items, index, passed, failures, completed, success, cancelled>>
      BY <2>5 DEF CheckStage
    <3> QED
      BY <1>3, <2>0, <3>1 DEF Staged, Reasoned, Stage, Leaving
  <2>6. CASE DiagnosisResolved
    <3>1. /\ worker = "resolving" /\ index = 7
          /\ worker' \in {"stage_ok", "stage_fails", "stage_cancelled"}
          /\ worker' = "stage_fails" => reason' = "DNS_FAILED"
          /\ UNCHANGED <<items, index, passed, failures, completed, success, cancelled>>
      BY <1>3, <2>0, <2>6 DEF DiagnosisResolved, CancelOrFail, Holding
    <3> QED
      BY <1>3, <2>0, <3>1, StageReasons DEF Staged, Reasoned, Stage, Leaving
  <2>7. CASE TryAddress
    <3>1. /\ worker = "check" /\ worker' = "check" /\ UNCHANGED cancel_flag
          /\ UNCHANGED <<items, index, passed, failures, completed, success, cancelled>>
          /\ \/ UNCHANGED reason
             \/ reason' \in Reasons("SOCKS_CONNECT") \cup {"NONE"}
             \/ reason' = "CANCELLED" /\ cancel_flag
      BY <2>7 DEF TryAddress
    <3>2. "CANCELLED" \notin Reasons("SOCKS_CONNECT")
      BY DEF Reasons, SocksReasons
    <3> QED
      BY <1>3, <2>0, <3>1, <3>2 DEF Staged, Reasoned, Leaving
  <2>8. CASE AddressesTried
    <3>1. /\ worker = "check" /\ index = 8
          /\ worker' \in {"stage_ok", "stage_fails", "stage_cancelled"}
          /\ worker' = "stage_fails" => reason' = reason /\ reason # "NONE" /\ ~cancel_flag
          /\ UNCHANGED <<items, index, passed, failures, completed, success, cancelled>>
      BY <2>1, <2>8, StageNumber DEF AddressesTried, CancelOrFail, Stage
    <3> QED
      BY <1>3, <2>0, <3>1, StageReasons DEF Staged, Reasoned, Stage, Leaving
  <2>9. CASE Transparent
    <3>1. /\ worker = "check" /\ index = 9
          /\ worker' \in {"stage_ok", "stage_fails", "stage_cancelled"}
          /\ worker' = "stage_fails" => reason' = "TRANSPARENT_FAILED"
          /\ UNCHANGED <<items, index, passed, failures, completed, success, cancelled>>
      <4>1. index = 9
        BY <2>1, <2>9 DEF Transparent, Stage, Stages
      <4> QED
        BY <2>9, <4>1 DEF Transparent, CancelOrFail
    <3> QED
      BY <1>3, <2>0, <3>1, StageReasons DEF Staged, Reasoned, Stage, Leaving
  <2>10. CASE StageOk
    <3>1. /\ worker = "stage_ok" /\ items' = [items EXCEPT ![index] = "OK"] /\ completed' = index
          /\ UNCHANGED <<passed, failures, cancelled>>
          /\ \/ index = 9 /\ worker' = "finish" /\ success' = TRUE /\ UNCHANGED index
             \/ index # 9 /\ worker' = "stage" /\ index' = index + 1 /\ UNCHANGED success
      BY <2>10, StageNumber DEF StageOk, EmitItem, Mark
    <3> QED
      BY <1>3, <2>0, <2>1, <3>1 DEF Staged, Reasoned, Leaving
  <2>11. CASE StageFails
    <3>1. /\ worker = "stage_fails" /\ items' = [items EXCEPT ![index] = "FAIL"]
          /\ worker' = "finish"
          /\ completed' = index /\ UNCHANGED <<passed, failures, cancelled, index, success, reason>>
      BY <2>11 DEF StageFails, EmitItem, Mark
    <3> QED
      BY <1>3, <2>0, <2>1, <3>1 DEF Staged, Reasoned, Leaving, Stage
  <2>12. CASE StageCancelled
    <3>1. /\ worker = "stage_cancelled" /\ items' = [items EXCEPT ![index] = "CANCELLED"]
          /\ worker' = "finish" /\ cancelled' = TRUE
          /\ completed' = index /\ UNCHANGED <<passed, failures, index, success>>
      BY <2>12 DEF StageCancelled, EmitItem, Mark
    <3> QED
      BY <1>3, <2>0, <2>1, <3>1 DEF Staged, Reasoned, Leaving
  <2>13. CASE DiagnosisDone \/ WorkerReturns
    <3>1. /\ worker \in {"finish"} \cup Leaving /\ worker' \in Leaving
          /\ UNCHANGED <<items, index, passed, failures, completed, success, cancelled, reason>>
      BY <2>13 DEF DiagnosisDone, WorkerReturns, Leaving
    <3> QED
      BY <1>3, <2>0, <3>1 DEF Staged, Reasoned, Leaving, Stage
  <2>14. CASE Resolve
    <3>1. /\ worker = "resolve" /\ worker' = "resolving"
          /\ UNCHANGED <<items, index, passed, failures, completed, success, cancelled, reason>>
      BY <2>14 DEF Resolve
    <3> QED
      BY <1>3, <2>0, <3>1 DEF Staged, Reasoned, Leaving
  <2>15. CASE Resolving
    <3>1. UNCHANGED cancel_flag
      BY <2>15 DEF Resolving, CallerStep, LockJob, TestLoop, WakeUp, Abandon, TakeResult, Join,
                   DestroyJob
    <3> QED
      BY <2>3, <2>15, <3>1 DEF Resolving
  <2>16. CASE \/ TestBegins \/ Preflight \/ NextTarget \/ Announce \/ Probe \/ ProbeEnds
              \/ Judge \/ Tell \/ TestDone \/ SpeedBegins \/ SpeedResolved \/ Dial \/ Request
              \/ Headers \/ Body \/ Recv
    BY <1>3, <2>1, <2>2, <2>16
    DEF TestBegins, Preflight, NextTarget, Announce, Probe, ProbeEnds, Judge, Tell, TestDone,
        SpeedBegins, SpeedResolved, Dial, Request, Headers, Body, Recv, Testing
  <2>17. CASE Cancel \/ PollFails
    BY <2>3, <2>17 DEF Cancel, PollFails
  <2>18. CASE ReadTestEvent \/ ReadMonitorEvent \/ ReadDiagnosticEvent
    BY <2>3, <2>18 DEF ReadTestEvent, ReadMonitorEvent, ReadDiagnosticEvent, ReadEvent
  <2>19. CASE JoinWorker
    BY <1>3, <2>19 DEF JoinWorker
  <2>20. ASSUME NEW p, NEW m, Session(p, m) PROVE FALSE
    BY <2>1, <2>20 DEF Session
  <2>21. ASSUME NEW j \in Job, LookupStep(j) PROVE Staged' /\ Reasoned'
    <3>1. UNCHANGED cancel_flag
      BY <2>21 DEF LookupStep, ThreadStep, Lookup, ThreadLock, FindAbandoned, Drop, Publish,
                   ThreadUnlock
    <3> QED
      BY <2>3, <2>21, <3>1 DEF LookupStep
  <2>22. CASE UNCHANGED vars
    BY <2>3, <2>22 DEF vars
  <2> QED
    BY <2>4, <2>5, <2>6, <2>7, <2>8, <2>9, <2>10, <2>11, <2>12, <2>13, <2>14, <2>15, <2>16,
       <2>17, <2>18, <2>19, <2>20, <2>21, <2>22
    DEF Next, WorkerStep, PageStep, NextSite, NextSpeed, JudgeSite, JudgeSpeed, StartTest,
        StartMonitorTest, StartDiagnosis
<1> QED
  BY <1>1, <1>2, <1>3

-----------------------------------------------------------------------------
(* The pipe and the page.                                                    *)

\* What a step does to the pipe: nothing, one event more, or the first one less.
Silent ==
  /\ UNCHANGED <<pipe, history, page>>
  /\ worker \in Leaving => worker' \in Leaving
  /\ worker = "tell" => UNCHANGED <<worker, index>>
  /\ UNCHANGED <<ui, poll_failed>> \/ poll_failed' = TRUE
Emits(ev) ==
  /\ ev \in Event /\ worker \notin Leaving /\ Len(pipe) < PipeSize /\ pipe' = Append(pipe, ev)
  /\ UNCHANGED <<history, page, ui, poll_failed>>
  /\ ev.phase = "DONE" => worker' \in Leaving
  /\ worker = "tell" =>
       /\ ev = [phase |-> mode, index |-> index, state |-> items[index]]
       /\ worker' = "next" /\ UNCHANGED items
  /\ worker # "tell" => ~(ev.phase \in SiteModes /\ ev.state \in Remembered)
Reads ==
  /\ ui = "loop" /\ pipe # <<>> /\ pipe' = Tail(pipe)
  /\ ui' = IF Head(pipe).phase = "DONE" THEN "join" ELSE "loop"
  /\ history' = IF page = "test" THEN Remember(Head(pipe)) ELSE history
  /\ UNCHANGED <<page, poll_failed, items, worker, index>>

\* Every step of a session is one of these.
LEMMA PipeForms ==
  ASSUME ReportInv, [Next]_vars, mode' = mode
  PROVE  Silent \/ Reads \/ \E ev : Emits(ev)
<1> USE DEF pageVars, workVars, reportVars, Goto, Others, Leaving
<1>0. /\ Shape /\ Holding /\ Targets /\ Staged
      /\ index \in Nat /\ completed \in Nat
      /\ mode \in TestModes \/ mode = "DIAGNOSTIC" \/ mode = "none"
  BY DEF ReportInv, Shape, Targets, Staged, Holding
<1>1. ASSUME NEW ph \in TestModes \cup {"PREFLIGHT", "STAGE", "DONE"}, NEW i \in Nat,
             NEW st \in ItemStates, Emit(ph, i, st), worker \notin Leaving, worker # "tell",
             UNCHANGED <<history, page, ui, poll_failed>>,
             ph = "DONE" => worker' = "leaving", ph \in SiteModes => st = "RUNNING"
      PROVE  \E ev : Emits(ev)
  <2> DEFINE ev == [phase |-> ph, index |-> i, state |-> st]
  <2>1. ev \in Event /\ ev.phase = ph /\ ev.state = st
    BY DEF Event
  <2>2. Len(pipe) < PipeSize /\ pipe' = Append(pipe, ev)
    BY <1>1 DEF Emit
  <2> HIDE DEF ev
  <2>3. Emits(ev)
    BY <1>1, <2>1, <2>2 DEF Emits, Remembered
  <2> QED
    BY <2>3
<1> USE DEF ItemStates
<1>2. CASE TestBegins
  BY <1>1, <1>2 DEF TestBegins, SiteModes
<1>3. CASE Announce
  <2>1. mode \in TestModes
    BY <1>0, <1>3 DEF Announce, Holding, Testing, Shape
  <2>2. mode # "DONE"
    BY <2>1 DEF TestModes, SiteModes
  <2> QED
    BY <1>0, <1>1, <1>3, <2>1, <2>2 DEF Announce
<1>4. CASE Recv
  BY <1>0, <1>1, <1>4 DEF Recv, TestModes, SiteModes
<1>5. CASE TestDone
  BY <1>0, <1>1, <1>5 DEF TestDone, TestModes, SiteModes
<1>6. CASE StageBegins
  BY <1>0, <1>1, <1>6 DEF StageBegins, TestModes, SiteModes, Silent
<1>7. CASE StageOk
  BY <1>0, <1>1, <1>7 DEF StageOk, EmitItem, TestModes, SiteModes
<1>8. CASE StageFails
  BY <1>0, <1>1, <1>8 DEF StageFails, EmitItem, TestModes, SiteModes
<1>9. CASE StageCancelled
  BY <1>0, <1>1, <1>9 DEF StageCancelled, EmitItem, TestModes, SiteModes
<1>10. CASE DiagnosisDone
  BY <1>0, <1>1, <1>10 DEF DiagnosisDone, TestModes, SiteModes
<1>11. CASE Tell
  <2>1. mode \in TestModes /\ worker = "tell"
    BY <1>0, <1>11 DEF Tell, Holding, Testing, Shape
  <2>2. items[index] \in Final
    BY <1>0, <2>1 DEF Targets
  <2> DEFINE ev == [phase |-> mode, index |-> index, state |-> items[index]]
  <2>3. ev \in Event /\ ev.phase = mode
    BY <1>0, <2>1, <2>2 DEF Event, Final
  <2>4. mode # "DONE"
    BY <2>1 DEF TestModes, SiteModes
  <2>5. Emits(ev)
    BY <1>11, <2>1, <2>3, <2>4 DEF Tell, Emit, Emits
  <2> QED
    BY <2>5
<1>12. CASE Preflight \/ NextTarget \/ Probe \/ ProbeEnds \/ Judge \/ SpeedBegins \/ Resolve
  BY <1>12 DEF Preflight, NextTarget, Probe, ProbeEnds, Judge, SpeedBegins, Resolve, Silent
<1>13. CASE \/ Resolving \/ SpeedResolved \/ Dial \/ Request \/ Headers \/ Body \/ CheckStage
  BY <1>13 DEF Resolving, SpeedResolved, Dial, Failed, Request, Headers, Body, CheckStage, Silent
<1>14. CASE DiagnosisResolved \/ TryAddress \/ AddressesTried \/ Transparent \/ WorkerReturns
  BY <1>14 DEF DiagnosisResolved, TryAddress, AddressesTried, Transparent, WorkerReturns, Silent
<1>15. CASE Cancel \/ PollFails
  BY <1>15 DEF Cancel, PollFails, Silent
<1>16. CASE ReadTestEvent \/ ReadMonitorEvent \/ ReadDiagnosticEvent
  BY <1>16 DEF ReadTestEvent, ReadMonitorEvent, ReadDiagnosticEvent, ReadEvent, Reads
<1>17. ASSUME NEW j \in Job, LookupStep(j) PROVE Silent
  BY <1>17 DEF LookupStep, Silent
<1>18. CASE UNCHANGED vars
  BY <1>18 DEF vars, Silent
<1>19. CASE JoinWorker
  BY <1>0, <1>19 DEF JoinWorker, Shape
<1>20. ASSUME NEW p, NEW m, Session(p, m), m \in TestModes \cup {"DIAGNOSTIC"} PROVE FALSE
  BY <1>0, <1>20 DEF Session, Shape, TestModes, SiteModes
<1> QED
  BY <1>2, <1>3, <1>4, <1>5, <1>6, <1>7, <1>8, <1>9, <1>10, <1>11, <1>12, <1>13, <1>14, <1>15,
     <1>16, <1>17, <1>18, <1>19, <1>20
  DEF Next, WorkerStep, PageStep, NextSite, NextSpeed, JudgeSite, JudgeSpeed, StartTest,
      StartMonitorTest, StartDiagnosis

\* A session begins with an empty pipe, and nothing is left of it.
LEMMA PipeFresh ==
  ASSUME ReportInv, [Next]_vars, mode' # mode
  PROVE  Piped' /\ Shown'
<1>1. CASE JoinWorker
  BY <1>1, NetTestAssumption DEF JoinWorker, Piped, Shown, SiteModes, DoneIsLast
<1>2. ASSUME NEW m, NEW p, Session(p, m) PROVE Piped' /\ Shown'
  BY <1>2, NetTestAssumption DEF Session, Piped, Shown, DoneIsLast, Final
<1> QED
  BY <1>1, <1>2, ModeStarts

\* What the pipe holds when an event is appended.
LEMMA EventAppended ==
  ASSUME NEW S, NEW s \in Seq(S), NEW x \in S
  PROVE  /\ Append(s, x) \in Seq(S) /\ Len(Append(s, x)) = Len(s) + 1
         /\ Append(s, x)[Len(s) + 1] = x /\ \A k \in 1 .. Len(s) : Append(s, x)[k] = s[k]
OBVIOUS

\* What it holds when one is read.
LEMMA EventRead ==
  ASSUME NEW S, NEW s \in Seq(S), s # <<>>
  PROVE  /\ Tail(s) \in Seq(S) /\ Len(s) \in Nat \ {0} /\ Len(Tail(s)) = Len(s) - 1
         /\ Head(s) = s[1] /\ \A k \in 1 .. Len(s) - 1 : Tail(s)[k] = s[k + 1]
OBVIOUS

\* The last event is the last, and the page stops reading only when it has come.
LEMMA PipedNext == ReportInv /\ [Next]_vars => Piped'
<1> SUFFICES ASSUME ReportInv, [Next]_vars PROVE Piped'
  OBVIOUS
<1>0. Piped /\ ui \in {"menu", "loop", "join"} /\ PipeSize \in Nat /\ Len(pipe) \in Nat
  BY NetTestAssumption DEF ReportInv, Shape, Piped
<1>1. CASE mode' # mode
  BY <1>1, PipeFresh
<1>2. CASE Silent
  BY <1>0, <1>2 DEF Silent, Piped, DoneIsLast, Leaving
<1>3. ASSUME NEW ev, Emits(ev) PROVE Piped'
  <2>1. /\ pipe' \in Seq(Event) /\ Len(pipe') = Len(pipe) + 1 /\ pipe'[Len(pipe) + 1] = ev
        /\ \A k \in 1 .. Len(pipe) : pipe'[k] = pipe[k]
    BY <1>0, <1>3, EventAppended DEF Emits, Piped
  <2>2. Len(pipe') <= PipeSize
    BY <1>0, <1>3, <2>1 DEF Emits
  <2>3. \A k \in 1 .. Len(pipe) : pipe[k].phase # "DONE"
    BY <1>0, <1>3 DEF Emits, Piped
  <2>4. ASSUME NEW k \in 1 .. Len(pipe'), pipe'[k].phase = "DONE"
        PROVE  k = Len(pipe') /\ worker' \in Leaving
    <3>1. k = Len(pipe) + 1
      BY <1>0, <2>1, <2>3, <2>4
    <3> QED
      BY <1>3, <2>1, <2>4, <3>1 DEF Emits
  <2>5. DoneIsLast'
    BY <1>0, <1>3 DEF Emits, Piped, DoneIsLast, Leaving
  <2> QED
    BY <2>1, <2>2, <2>4, <2>5 DEF Piped
<1>4. CASE Reads
  <2>1. /\ pipe' \in Seq(Event) /\ Len(pipe) \in Nat \ {0} /\ Len(pipe') = Len(pipe) - 1
        /\ Head(pipe) = pipe[1] /\ \A k \in 1 .. Len(pipe) - 1 : pipe'[k] = pipe[k + 1]
    BY <1>0, <1>4, EventRead DEF Reads, Piped
  <2>2. Len(pipe') <= PipeSize
    BY <1>0, <2>1 DEF Piped
  <2>3. ASSUME NEW k \in 1 .. Len(pipe'), pipe'[k].phase = "DONE"
        PROVE  k = Len(pipe') /\ worker' \in Leaving
    <3>1. k + 1 \in 1 .. Len(pipe) /\ pipe[k + 1].phase = "DONE"
      BY <2>1, <2>3
    <3>2. k + 1 = Len(pipe) /\ worker \in Leaving
      BY <1>0, <3>1 DEF Piped
    <3>3. k = Len(pipe')
      BY <2>1, <3>2
    <3> QED
      BY <1>4, <3>2, <3>3 DEF Reads
  <2>4. DoneIsLast'
    <3>1. CASE Head(pipe).phase = "DONE"
      <4>1. 1 = Len(pipe) /\ worker \in Leaving
        BY <1>0, <2>1, <3>1 DEF Piped
      <4>2. pipe' = <<>>
        <5>3. Len(pipe) = 1 /\ Len(pipe') = Len(pipe) - 1
          BY <2>1, <4>1, Zenon
        <5>6. 1 - 1 = 0
          OBVIOUS
        <5>5. Len(pipe') = 0
          BY <5>3, <5>6, Zenon
        <5>2. pipe' \in Seq(Event)
          BY <2>1
        <5> QED
          BY <5>5, <5>2
      <4> QED
        BY <1>4, <4>1, <4>2 DEF Reads, DoneIsLast, Leaving
    <3>2. CASE Head(pipe).phase # "DONE"
      BY <1>4, <3>2 DEF Reads, DoneIsLast
    <3> QED
      BY <3>1, <3>2
  <2> QED
    BY <2>1, <2>2, <2>3, <2>4 DEF Piped
<1> QED
  BY <1>1, <1>2, <1>3, <1>4, PipeForms

\* A settled target stays as it is, and one is settled where the worker then tells.
LEMMA TargetsKeep ==
  ASSUME ReportInv, [Next]_vars, mode' = mode, mode \in TestModes, NEW i \in 1 .. Count(mode)
  PROVE  /\ items[i] \in Final => items'[i] = items[i]
         /\ items'[i] \in Final => items[i] \in Final \/ (worker' = "tell" /\ i = index')
<1>1. TestStep /\ mode # "none"
  <2>1. ~JoinWorker
    BY DEF JoinWorker, TestModes, SiteModes
  <2> QED
    BY <2>1, TestForms DEF TestModes, SiteModes
<1>2. /\ items \in [1 .. Count(mode) -> ItemStates] /\ Count(mode) \in Nat /\ index \in Nat
      /\ worker \in Measuring => index <= Count(mode) /\ items[index] = "RUNNING"
      /\ worker = "next" /\ index <= Count(mode) => items[index] = "PENDING"
  BY <1>1, CountType DEF ReportInv, Shape, Targets
<1>3. CASE MovesOn \/ Told \/ Still
  BY <1>3 DEF MovesOn, Told, Still
<1>4. CASE Begins \/ GivesUp \/ Passes \/ FailsTarget
  <2>1. /\ items[index] \notin Final /\ (i # index => items'[i] = items[i]) /\ index' = index
        /\ i = index /\ items'[i] \in Final => worker' = "tell"
    BY <1>2, <1>4 DEF Begins, GivesUp, Passes, FailsTarget, Settles, Final, Measuring
  <2> QED
    BY <2>1
<1> QED
  BY <1>1, <1>3, <1>4 DEF TestStep

\* The page shows what the report says, and will be told what it does not show.
LEMMA ShownNext == ReportInv /\ [Next]_vars => Shown'
<1> SUFFICES ASSUME ReportInv, [Next]_vars PROVE Shown'
  OBVIOUS
<1>1. CASE mode' # mode
  BY <1>1, PipeFresh
<1>2. CASE mode' = mode /\ ~(mode \in SiteModes /\ page' = "test")
  BY <1>2 DEF Shown
<1>3. CASE mode' = mode /\ mode \in SiteModes /\ page' = "test"
  <2> DEFINE n == Count(mode)
             Good(k) == /\ pipe[k].index \in 1 .. n /\ pipe[k].state \in Final
                        /\ items[pipe[k].index] = pipe[k].state
  <2>1. /\ page = "test" /\ mode \in TestModes /\ mode # "none" /\ Shown /\ Piped
        /\ Len(pipe) \in Nat
        /\ history \in [1 .. n -> ItemStates \cup {"none"}] /\ pipe \in Seq(Event)
    <3>1. page = "test"
      BY <1>3, PipeForms DEF Silent, Reads, Emits
    <3> QED
      BY <1>3, <3>1 DEF ReportInv, Shape, Piped, TestModes, SiteModes
  <2>2. /\ \A k \in 1 .. Len(pipe) : Result(k) => Good(k)
        /\ \A i \in 1 .. n :
             /\ history[i] # "none" => items[i] \in Final /\ history[i] = items[i]
             /\ items[i] \in Final /\ ~(worker = "tell" /\ i = index) =>
                  \/ history[i] = items[i]
                  \/ \E k \in 1 .. Len(pipe) : Result(k) /\ pipe[k].index = i
    BY <1>3, <2>1 DEF Shown
  <2>3. \A i \in 1 .. n :
          /\ items[i] \in Final => items'[i] = items[i]
          /\ items'[i] \in Final => items[i] \in Final \/ (worker' = "tell" /\ i = index')
    BY <1>3, <2>1, TargetsKeep
  <2>4. SUFFICES
          /\ \A k \in 1 .. Len(pipe') : Result(k)' => Good(k)'
          /\ \A i \in 1 .. n :
               /\ history'[i] # "none" => items'[i] \in Final /\ history'[i] = items'[i]
               /\ items'[i] \in Final /\ ~(worker' = "tell" /\ i = index') =>
                    \/ history'[i] = items'[i]
                    \/ \E k \in 1 .. Len(pipe') : Result(k)' /\ pipe'[k].index = i
    BY <1>3 DEF Shown
  <2> HIDE DEF n
  <2>5. CASE Silent
    <3>1. /\ \A k \in 1 .. Len(pipe) : pipe'[k] = pipe[k]
          /\ pipe' = pipe /\ history' = history
          /\ worker = "tell" => worker' = "tell" /\ index' = index
      BY <2>5 DEF Silent
    <3>2. \A k \in 1 .. Len(pipe') : Result(k)' => Good(k)'
      BY <1>3, <2>2, <2>3, <3>1 DEF Result, n
    <3>3. \A i \in 1 .. n :
             history'[i] # "none" => items'[i] \in Final /\ history'[i] = items'[i]
      BY <2>2, <2>3, <3>1
    <3>4. \A i \in 1 .. n : items'[i] \in Final /\ ~(worker' = "tell" /\ i = index') =>
             \/ history'[i] = items'[i]
             \/ \E k \in 1 .. Len(pipe') : Result(k)' /\ pipe'[k].index = i
      BY <2>2, <2>3, <3>1 DEF Result
    <3> QED
      BY <3>2, <3>3, <3>4
  <2>6. ASSUME NEW ev, Emits(ev)
        PROVE  /\ \A k \in 1 .. Len(pipe') : Result(k)' => Good(k)'
               /\ \A i \in 1 .. n :
                    /\ history'[i] # "none" => items'[i] \in Final /\ history'[i] = items'[i]
                    /\ items'[i] \in Final /\ ~(worker' = "tell" /\ i = index') =>
                         \/ history'[i] = items'[i]
                         \/ \E k \in 1 .. Len(pipe') : Result(k)' /\ pipe'[k].index = i
    <3> DEFINE l == Len(pipe)
    <3>1. /\ Len(pipe') = l + 1 /\ pipe'[l + 1] = ev /\ l \in Nat
          /\ \A k \in 1 .. l : pipe'[k] = pipe[k]
      BY <2>1, <2>6, EventAppended DEF Emits
    <3>2. \A k \in 1 .. l : (Result(k)' <=> Result(k)) /\ pipe'[k].index = pipe[k].index
      BY <3>1 DEF Result
    <3>3. history' = history
      BY <2>6 DEF Emits
    <3>0. PICK m \in Nat : m = l + 1
      BY <3>1
    <3>6. /\ m \in 1 .. Len(pipe') /\ pipe'[m] = ev
          /\ \A k \in 1 .. Len(pipe') : k = m \/ k \in 1 .. l
      BY <3>0, <3>1
    <3>4. CASE worker = "tell"
      <4>1. /\ ev.phase = mode /\ ev.index = index /\ ev.state = items[index] /\ worker' = "next"
            /\ items' = items /\ index \in 1 .. n /\ items[index] \in Final
        BY <2>1, <2>6, <3>4 DEF Emits, ReportInv, Targets, n
      <4>2. Result(m)' /\ Good(m)' /\ pipe'[m].index = index
        BY <1>3, <3>6, <4>1 DEF Result, Final, Remembered, n
      <4>3. \A k \in 1 .. l : Result(k)' => Good(k)'
        BY <1>3, <2>2, <3>1, <3>2, <4>1 DEF n
      <4>4. \A k \in 1 .. Len(pipe') : Result(k)' => Good(k)'
        BY <3>6, <4>2, <4>3
      <4>5. ASSUME NEW i \in 1 .. n, items'[i] \in Final
            PROVE  \/ history'[i] = items'[i]
                   \/ \E k \in 1 .. Len(pipe') : Result(k)' /\ pipe'[k].index = i
        <5>1. CASE i = index
          BY <3>6, <4>2, <5>1
        <5>2. CASE i # index
          <6>1. \/ history[i] = items[i]
                \/ \E k \in 1 .. l : Result(k) /\ pipe[k].index = i
            BY <2>2, <4>1, <4>5, <5>2
          <6> QED
            BY <3>1, <3>2, <3>3, <4>1, <6>1
        <5> QED
          BY <5>1, <5>2
      <4> QED
        BY <2>2, <3>3, <4>1, <4>4, <4>5
    <3>5. CASE worker # "tell"
      <4>1. ~Result(m)'
        BY <2>6, <3>6, <3>5 DEF Emits, Result
      <4>2. \A k \in 1 .. l : Result(k)' => Good(k)'
        BY <1>3, <2>2, <2>3, <3>1, <3>2 DEF n
      <4>3. \A k \in 1 .. Len(pipe') : Result(k)' => Good(k)'
        BY <3>6, <4>1, <4>2
      <4>4. ASSUME NEW i \in 1 .. n, items'[i] \in Final, ~(worker' = "tell" /\ i = index')
            PROVE  \/ history'[i] = items'[i]
                   \/ \E k \in 1 .. Len(pipe') : Result(k)' /\ pipe'[k].index = i
        <5>1. items[i] \in Final /\ items'[i] = items[i]
          BY <2>3, <4>4
        <5>2. \/ history[i] = items[i]
              \/ \E k \in 1 .. l : Result(k) /\ pipe[k].index = i
          BY <2>2, <3>5, <5>1
        <5> QED
          BY <3>1, <3>2, <3>3, <5>1, <5>2
      <4> QED
        BY <2>2, <2>3, <3>3, <4>3, <4>4
    <3> QED
      BY <3>4, <3>5
  <2>7. CASE Reads
    <3> DEFINE l == Len(pipe)
               e == pipe[1]
    <3>1. /\ l \in Nat \ {0} /\ Len(pipe') = l - 1 /\ Head(pipe) = e
          /\ \A k \in 1 .. l - 1 : pipe'[k] = pipe[k + 1]
      BY <2>1, <2>7, EventRead DEF Reads
    <3>2. UNCHANGED <<items, worker, index>> /\ history' = Remember(e)
      BY <2>1, <2>7, <3>1 DEF Reads
    <3>3. \A k \in 1 .. l - 1 : /\ (Result(k)' <=> Result(k + 1)) /\ pipe'[k] = pipe[k + 1]
                                /\ k + 1 \in 1 .. l
      BY <3>1 DEF Result
    <3>4. \A k \in 1 .. Len(pipe') : Result(k)' => Good(k)'
      BY <1>3, <2>2, <3>1, <3>2, <3>3 DEF n
    <3>5. ASSUME NEW i \in 1 .. n
          PROVE  history'[i] = IF Result(1) /\ e.index = i THEN e.state ELSE history[i]
      BY <2>1, <3>2 DEF Remember, Result, n
    <3>6. Result(1) => Good(1)
      BY <2>2, <3>1
    <3>7. ASSUME NEW i \in 1 .. n, history'[i] # "none"
          PROVE  items'[i] \in Final /\ history'[i] = items'[i]
      BY <2>2, <3>2, <3>5, <3>6, <3>7
    <3>8. ASSUME NEW i \in 1 .. n, items'[i] \in Final, ~(worker' = "tell" /\ i = index')
          PROVE  \/ history'[i] = items'[i]
                 \/ \E k \in 1 .. Len(pipe') : Result(k)' /\ pipe'[k].index = i
      <4>1. CASE Result(1) /\ e.index = i
        BY <3>2, <3>5, <3>6, <4>1
      <4>2. CASE ~(Result(1) /\ e.index = i) /\ history[i] = items[i]
        BY <3>2, <3>5, <4>2
      <4>3. CASE /\ ~(Result(1) /\ e.index = i)
                 /\ \E k \in 1 .. l : Result(k) /\ pipe[k].index = i
        <5>1. PICK k \in 1 .. l : Result(k) /\ pipe[k].index = i
          BY <4>3
        <5>2. k - 1 \in 1 .. l - 1 /\ (k - 1) + 1 = k
          BY <3>1, <4>3, <5>1
        <5> QED
          BY <3>1, <3>3, <5>1, <5>2
      <4> QED
        BY <2>2, <3>2, <3>8, <4>1, <4>2, <4>3
    <3> QED
      BY <3>4, <3>7, <3>8
  <2> QED
    BY <1>3, <2>5, <2>6, <2>7, PipeForms
<1> QED
  BY <1>1, <1>2, <1>3

-----------------------------------------------------------------------------
(* The invariant, and what it says of the report and the page.               *)

\* The invariant holds before anyone opens a page.
LEMMA ReportInit == Init => ReportInv
<1> SUFFICES ASSUME Init PROVE ReportInv
  OBVIOUS
<1>1. /\ page = "none" /\ mode = "none" /\ ui = "menu" /\ poll_failed = FALSE
      /\ history = <<>> /\ pipe = <<>> /\ worker = "none" /\ index = 1 /\ tries = 0
      /\ outcome = 0 /\ items = <<>> /\ passed = 0 /\ failures = <<>>
      /\ listener_ok = FALSE /\ cancelled = FALSE /\ success = FALSE /\ completed = 0
  BY DEF Init
<1>2. cancel_flag \in BOOLEAN
  BY Zenon DEF Init, InitResolver
<1>3. Shape
  BY <1>1, <1>2 DEF Shape, TestModes, SiteModes
<1>4. Targets /\ Counters /\ Staged /\ Reasoned /\ Shown
  BY <1>1 DEF Targets, Counters, Staged, Reasoned, Shown, TestModes, SiteModes
<1>5. Piped
  BY <1>1, NetTestAssumption DEF Piped, DoneIsLast
<1> QED
  BY <1>3, <1>4, <1>5, HoldingInit DEF ReportInv

\* Every step of the page, the worker and the threads of the lookups keeps it.
LEMMA ReportNext == ReportInv /\ [Next]_vars => ReportInv'
<1> SUFFICES ASSUME ReportInv, [Next]_vars PROVE ReportInv'
  OBVIOUS
<1>1. Holding'
  BY TestSteps DEF ReportInv
<1> QED
  BY <1>1, ShapeNext, TargetsNext, CountersNext, StagedNext, PipedNext, ShownNext DEF ReportInv

\* The worker's place, the report, the events in the pipe and the page agree for ever.
THEOREM ReportInvHolds == Spec => []ReportInv
BY ReportInit, ReportNext, PTL DEF Spec

\* The list of targets is as long as the test says.
LEMMA ItemsLength ==
  ASSUME ReportInv, mode # "none"
  PROVE  /\ DOMAIN items = 1 .. Count(mode) /\ DOMAIN history = 1 .. Count(mode)
         /\ Len(items) = Count(mode) /\ Count(mode) \in Nat \ {0}
<1>1. /\ items \in [1 .. Count(mode) -> ItemStates]
      /\ history \in [1 .. Count(mode) -> ItemStates \cup {"none"}]
  BY DEF ReportInv, Shape
<1>2. Count(mode) \in Nat \ {0}
  BY CountType
<1> QED
  BY <1>1, <1>2

\* Every variable of a test or of the diagnosis keeps its type; the index never passes the
\* end of the list by more than the step that ends the loop, and no counter its length.
THEOREM TestsTyped == Spec => []TypeOK
<1>1. ASSUME ReportInv, ResolverTypeOK PROVE TypeOK
  <2>1. /\ Shape /\ Targets /\ Counters /\ Staged /\ Piped
    BY <1>1 DEF ReportInv
  <2>2. worker \in WorkerStates
    BY <2>1 DEF Shape, TestModes, SiteModes, TestPlaces, StagePlaces, Measuring, Leaving,
                Diagnosing, WorkerStates
  <2>3. CASE mode = "none"
    <3>1. items = <<>> /\ history = <<>> /\ index = 1 /\ completed = 0 /\ passed = 0
          /\ failures = <<>>
      BY <2>1, <2>3 DEF Shape
    <3>2. index \in 1 .. Count(mode) + 1
      BY <3>1, CountType
    <3> QED
      BY <1>1, <2>1, <2>2, <3>1, <3>2 DEF TypeOK, Shape, Piped
  <2>4. CASE mode \in TestModes
    <3>1. mode # "none" /\ index \in 1 .. Count(mode) + 1 /\ completed = 0
      BY <2>1, <2>4 DEF Targets, TestModes, SiteModes
    <3>2. /\ DOMAIN items = 1 .. Count(mode) /\ DOMAIN history = 1 .. Count(mode)
          /\ Len(items) = Count(mode) /\ Count(mode) \in Nat \ {0}
      BY <1>1, <3>1, ItemsLength
    <3>3. passed \in Nat /\ Len(failures) \in Nat /\ passed + Len(failures) <= Count(mode)
      BY <2>1, <2>4, <3>1, <3>2 DEF Counters, Targets
    <3>4. passed \in 0 .. Len(items) /\ Len(failures) <= Len(items)
          /\ completed \in 0 .. Len(items)
      BY <3>1, <3>2, <3>3
    <3> QED
      BY <1>1, <2>1, <2>2, <3>1, <3>2, <3>4 DEF TypeOK, Shape, Piped
  <2>5. CASE mode = "DIAGNOSTIC"
    <3>1. /\ mode # "none" /\ index \in 1 .. 9 /\ passed = 0 /\ failures = <<>>
          /\ completed \in 0 .. 9
      BY <2>1, <2>5 DEF Staged, Shape, StagePlaces
    <3>2. /\ DOMAIN items = 1 .. 9 /\ DOMAIN history = 1 .. 9 /\ Len(items) = 9
          /\ Count(mode) = 9
      BY <1>1, <2>5, <3>1, ItemsLength, CountType
    <3> QED
      BY <1>1, <2>1, <2>2, <3>1, <3>2 DEF TypeOK, Shape, Piped
  <2> QED
    BY <2>1, <2>3, <2>4, <2>5 DEF Shape
<1>2. LookupInv => ResolverTypeOK
  BY DEF LookupInv
<1> QED
  BY <1>1, <1>2, ReportInvHolds, TestsUseResolver, LookupHolds, PTL DEF UsesResolver

\* The counters and the failures agree with the states of the targets at any moment a test
\* can be cancelled; one target at most is open, or cancelled, and the later ones have not
\* begun.
THEOREM ReportsConsistent == Spec => []ReportConsistent
<1>1. ASSUME ReportInv, mode \in TestModes PROVE ReportConsistent
  <2> DEFINE n == Count(mode)
             Of(states) == {i \in DOMAIN items : items[i] \in states}
  <2>1. /\ mode # "none" /\ Shape /\ Targets /\ Counters
    BY <1>1 DEF ReportInv, TestModes, SiteModes
  <2>2. DOMAIN items = 1 .. n /\ n \in Nat \ {0}
    BY <1>1, <2>1, ItemsLength
  <2>3. /\ index \in 1 .. n + 1
        /\ \A i \in 1 .. n : /\ i < index => items[i] \in Final
                             /\ i > index => items[i] = "PENDING"
    BY <1>1, <2>1 DEF Targets
  <2>4. worker \in TestPlaces
    BY <1>1, <2>1 DEF Shape
  <2> HIDE DEF n
  <2>5. passed = Cardinality(Of({"OK"}))
    <3>1. Of({"OK"}) = {i \in 1 .. n : items[i] = "OK"}
      BY <2>2
    <3>2. passed = Cardinality({i \in 1 .. n : items[i] = "OK"})
      BY <1>1, <2>1 DEF Counters, n
    <3> QED
      BY <3>1, <3>2
  <2>6. /\ Of({"FAIL"}) = {failures[k] : k \in DOMAIN failures}
        /\ \A k, l \in DOMAIN failures : k < l => failures[k] < failures[l]
    <3>1. /\ failures \in Seq(Nat)
          /\ \A i \in 1 .. n :
               items[i] = "FAIL" <=> \E k \in 1 .. Len(failures) : failures[k] = i
          /\ \A k \in 1 .. Len(failures) : failures[k] \in 1 .. n
          /\ \A k, l \in 1 .. Len(failures) : k < l => failures[k] < failures[l]
      BY <1>1, <2>1 DEF Counters, n
    <3>2. DOMAIN failures = 1 .. Len(failures)
      BY <3>1
    <3> QED
      BY <2>2, <3>1, <3>2
  <2>7. Cardinality(Of({"RUNNING", "CANCELLED"})) <= 1
    <3>1. Of({"RUNNING", "CANCELLED"}) \subseteq {index}
      BY <2>2, <2>3 DEF Final
    <3>2. IsFiniteSet({index}) /\ Cardinality({index}) = 1
      BY FS_Singleton
    <3> QED
      BY <3>1, <3>2, FS_Subset
  <2>8. \A i, k \in DOMAIN items : i < k /\ items[i] \notin Final => items[k] = "PENDING"
    BY <2>2, <2>3
  <2>9. /\ \A i \in 1 .. n : items[i] = "CANCELLED" => i = index
        /\ index \in 1 .. n => (items[index] = "CANCELLED" <=> cancelled)
        /\ cancelled => index \in 1 .. n
    <3>1. \A i \in 1 .. n : items[i] = "CANCELLED" => i = index
      BY <2>3 DEF Final
    <3>2. cancelled => worker \in {"done"} \cup Leaving /\ index \in 1 .. n
      BY <1>1, <2>1, <2>3 DEF Targets, n
    <3>3. ASSUME index \in 1 .. n PROVE items[index] = "CANCELLED" <=> cancelled
      BY <1>1, <2>1, <2>3, <2>4, <3>2, <3>3
      DEF Targets, TestPlaces, Measuring, Leaving, Final, n
    <3> QED
      BY <3>1, <3>2, <3>3
  <2>10. cancelled <=> Of({"CANCELLED"}) # {}
    BY <2>2, <2>9
  <2>11. worker = "done" /\ listener_ok /\ ~cancelled => Of(Final) = DOMAIN items
    <3> SUFFICES ASSUME worker = "done", listener_ok, ~cancelled
                 PROVE  Of(Final) = DOMAIN items
      OBVIOUS
    <3>1. ~(index <= n)
      BY <1>1, <2>1 DEF Targets, n
    <3>2. \A i \in 1 .. n : i < index
      BY <2>2, <2>3, <3>1
    <3> QED
      BY <2>2, <2>3, <3>2
  <2> QED
    BY <2>5, <2>6, <2>7, <2>8, <2>10, <2>11 DEF ReportConsistent
<1>2. ReportInv => ReportConsistent
  BY <1>1 DEF ReportConsistent
<1> QED
  BY <1>2, ReportInvHolds, PTL

\* The page stops reading only when the last event has come: nothing is in the pipe then
\* and nothing is written after it, so that no write of the worker can block for ever.
THEOREM LastEventIsLast == Spec => []DoneIsLast
<1>1. ReportInv => DoneIsLast
  BY DEF ReportInv, Piped
<1> QED
  BY <1>1, ReportInvHolds, PTL

\* What the test page shows of a target is what the report says, however far the page is
\* behind; once the last event has come it shows every target that finished.
THEOREM PageAgrees == Spec => []HistoryAgrees
<1>1. ASSUME ReportInv, page = "test", mode \in SiteModes PROVE HistoryAgrees
  <2>1. mode # "none" /\ Shown /\ DoneIsLast
    BY <1>1 DEF ReportInv, Piped, TestModes, SiteModes
  <2>2. DOMAIN history = 1 .. Count(mode)
    BY <1>1, <2>1, ItemsLength
  <2>3. \A i \in 1 .. Count(mode) : history[i] # "none" => history[i] = items[i]
    BY <1>1, <2>1 DEF Shown
  <2>4. ASSUME NEW i \in 1 .. Count(mode), ui = "join", ~poll_failed, items[i] \in Final
        PROVE  history[i] = items[i]
    <3>1. pipe = <<>> /\ worker # "tell"
      BY <2>1, <2>4 DEF DoneIsLast
    <3>2. Len(pipe) = 0
      BY <3>1
    <3> QED
      BY <1>1, <2>1, <2>4, <3>1, <3>2 DEF Shown
  <2> QED
    BY <2>2, <2>3, <2>4 DEF HistoryAgrees
<1>2. ReportInv => HistoryAgrees
  BY <1>1 DEF HistoryAgrees
<1> QED
  BY <1>2, ReportInvHolds, PTL

\* A diagnosis stops at the first stage that fails and gives a reason of that stage; it
\* succeeds only when every stage has passed, and a cancelled one is no failure.
THEOREM DiagnosisStopsAtFirst == Spec => []DiagnosisStops
<1>1. ASSUME ReportInv, mode = "DIAGNOSTIC", worker \in {"finish", "leaving", "exited"}
      PROVE  DiagnosisStops
  <2>1. mode # "none" /\ Staged
    BY <1>1 DEF ReportInv
  <2>2. DOMAIN items = 1 .. 9
    BY <1>1, <2>1, ItemsLength, CountType
  <2>3. /\ index \in 1 .. 9 /\ completed = index
        /\ \A i \in 1 .. 9 : /\ i < index => items[i] = "OK"
                             /\ i > index => items[i] = "PENDING"
        /\ \/ items[index] = "OK" /\ index = 9 /\ success /\ ~cancelled
           \/ items[index] = "FAIL" /\ ~success /\ ~cancelled /\ reason \in Reasons(Stage)
           \/ items[index] = "CANCELLED" /\ ~success /\ cancelled
    BY <1>1, <2>1 DEF Staged, Leaving
  <2>4. Stage = Stages[completed]
    BY <2>3 DEF Stage
  <2>5. success <=> \A i \in 1 .. 9 : items[i] = "OK"
    BY <2>3
  <2>6. \A i \in 1 .. 9 : /\ i < completed => items[i] = "OK"
                          /\ i > completed => items[i] = "PENDING"
    BY <2>3
  <2>7. /\ ~(success /\ cancelled)
        /\ items[completed] = "CANCELLED" <=> cancelled
        /\ items[completed] = "FAIL" => reason \in Reasons(Stages[completed])
    BY <2>3, <2>4
  <2> QED
    BY <2>2, <2>5, <2>6, <2>7 DEF DiagnosisStops
<1>2. ReportInv => DiagnosisStops
  BY <1>1 DEF DiagnosisStops
<1> QED
  BY <1>2, ReportInvHolds, PTL

=============================================================================
