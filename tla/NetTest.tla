------------------------------- MODULE NetTest -------------------------------
(***************************************************************************)
(* The network tests and the connection diagnosis (src/src/test.c) and the *)
(* pages that run them (src/src/tui.c).                                    *)
(*                                                                         *)
(* The user interface starts a worker thread, reads its progress events    *)
(* from a pipe, sets the cancel flag when q is pressed, and joins the      *)
(* thread once the last event has come.  The report, the flag and the      *)
(* thread's arguments are on the interface's stack.  A write to a full     *)
(* pipe blocks.  Every network operation ends one way or another, at the   *)
(* latest by its timeout; lookups are those of module Resolver.            *)
(***************************************************************************)
EXTENDS Resolver, Sequences

CONSTANTS
  Sites,        \* report->site_count
  Speeds,       \* report->speed_count
  Addresses,    \* length of a lookup's address list
  MaxProgress,  \* bound on the progress events of one download
  PipeSize      \* events that fit into the pipe

ASSUME NetTestAssumption ==
  /\ Sites \in Nat \ {0} /\ Speeds \in Nat \ {0} /\ Addresses \in Nat \ {0}
  /\ MaxProgress \in Nat /\ PipeSize \in Nat \ {0}

VARIABLES
  page,         \* the page the user is on: "test", "monitor", "diagnostic" or "none"
  mode,         \* what its worker runs
  ui,           \* "menu", "loop" (the polling loop) or "join" (pthread_join)
  poll_failed,  \* poll() failed in this session
  history,      \* test_progress_history: the state shown for each target
  pipe,         \* events written and not yet read
  worker,       \* where the worker thread is
  index,        \* the target or stage it is at
  tries,        \* samples, addresses or progress events of that target so far
  outcome,      \* what measure_latency or measure_speed returned: 0, -1 or -2
  items,        \* report->sites, ->speed or ->items: the states
  reason,       \* report->items[].reason of a diagnosis that failed
  passed,       \* report->sites_passed or ->speed_passed
  failures,     \* report->failures
  listener_ok, cancelled, success, completed  \* the report's other fields

pageVars == <<page, mode, ui, poll_failed, history>>
workVars == <<worker, index, tries, outcome>>
reportVars == <<items, reason, passed, failures, listener_ok, cancelled, success,
                completed>>
vars == <<pageVars, workVars, reportVars, pipe, resolverVars, cancel_flag>>

SiteModes == {"CONNECTIVITY", "LATENCY"}
TestModes == SiteModes \cup {"SPEED"}
Stages == <<"CONFIG", "DAEMON", "LISTENER", "FIREWALL", "PROXY_TCP", "SOCKS5", "DNS",
            "SOCKS_CONNECT", "TRANSPARENT">>
Stage == Stages[index]

\* What each stage can find wrong; talking SOCKS5 fails in the same ways twice.
SocksReasons == {"SOCKS_IO", "SOCKS_VERSION", "SOCKS_AUTH"}
Reasons(s) ==
  CASE s = "CONFIG"        -> {"CONFIG_MISSING", "CONFIG_INVALID"}
    [] s = "DAEMON"        -> {"DAEMON_STOPPED", "DAEMON_CONFIG_MISMATCH"}
    [] s = "LISTENER"      -> {"LISTENER_UNREACHABLE"}
    [] s = "FIREWALL"      -> {"FIREWALL_INCOMPLETE"}
    [] s = "PROXY_TCP"     -> {"PROXY_UNREACHABLE"}
    [] s = "SOCKS5"        -> SocksReasons
    [] s = "DNS"           -> {"DNS_FAILED"}
    [] s = "SOCKS_CONNECT" -> SocksReasons \cup
                              {"PROXY_UNREACHABLE", "SOCKS_CONNECT_REJECTED", "INTERNAL"}
    [] s = "TRANSPARENT"   -> {"TRANSPARENT_FAILED"}

Count(m) ==
  CASE m = "SPEED" -> Speeds [] m = "DIAGNOSTIC" -> Len(Stages) [] OTHER -> Sites

\* write_test_event and write_diagnostic_event: one write no larger than PIPE_BUF.
Emit(phase, i, state) ==
  /\ Len(pipe) < PipeSize
  /\ pipe' = Append(pipe, [phase |-> phase, index |-> i, state |-> state])

Mark(state) == items' = [items EXCEPT ![index] = state]
Goto(w) == worker' = w
Others == UNCHANGED <<pageVars, cancel_flag>>
NoLookup == UNCHANGED resolverVars

-----------------------------------------------------------------------------
(* Faulty variants, one per property.                                        *)

\* The loop over the targets runs one too far.
MoreTargets_OffByOne == index <= Count(mode) + 1

\* A target is counted as passed before the flag is looked at again.
Judge_CountsFirst ==
  /\ worker = "judge"
  /\ passed' = IF outcome = 0 THEN passed + 1 ELSE passed
  /\ \/ /\ outcome = -2 \/ cancel_flag
        /\ cancelled' = TRUE /\ Mark("CANCELLED") /\ Goto("done")
        /\ UNCHANGED failures
     \/ /\ outcome # -2 /\ ~cancel_flag
        /\ Mark(IF outcome = 0 THEN "OK" ELSE "FAIL") /\ Goto("tell")
        /\ failures' = IF outcome = 0 THEN failures ELSE Append(failures, index)
        /\ UNCHANGED cancelled
  /\ UNCHANGED <<pipe, index, tries, outcome, reason, listener_ok, success, completed>>
  /\ Others /\ NoLookup

\* fp_test_run goes on after it has reported that the listener is not ready.
TestDone_GoesOn ==
  /\ worker = "done"
  /\ Emit("DONE", IF listener_ok THEN 0 ELSE 1,
          IF cancelled THEN "CANCELLED" ELSE IF passed = Count(mode) THEN "OK" ELSE "FAIL")
  /\ Goto(IF listener_ok THEN "leaving" ELSE "next")
  /\ UNCHANGED <<index, tries, outcome, reportVars>>
  /\ Others /\ NoLookup

\* remember_test_result takes the running state for a result.
Remembered_Running == {"RUNNING"}

\* A failed stage does not end the diagnosis.
StageFails_GoesOn ==
  /\ worker = "stage_fails"
  /\ Emit("STAGE", index, "FAIL") /\ Mark("FAIL")
  /\ completed' = index
  /\ IF index = Len(Stages) THEN Goto("finish") /\ UNCHANGED index
                            ELSE Goto("stage") /\ index' = index + 1
  /\ UNCHANGED <<tries, outcome, reason, passed, failures, listener_ok, cancelled, success>>
  /\ Others /\ NoLookup

\* connect_through_forwarder frees the list after every address that fails.
Dial_FreesInLoop ==
  /\ worker = "dial"
  /\ \/ /\ tries < Addresses /\ ~cancel_flag
        /\ worker' = "request" /\ tries' = 0 /\ UNCHANGED outcome /\ Consume
     \/ /\ tries < Addresses
        /\ tries' = tries + 1 /\ UNCHANGED <<worker, outcome>> /\ Consume
     \/ /\ tries = Addresses \/ cancel_flag
        /\ worker' = "judge" /\ outcome' = -1 /\ UNCHANGED tries /\ Consume
  /\ UNCHANGED <<pipe, index, reportVars>>
  /\ Others

\* The page returns when the last event has come, without pthread_join.
JoinWorker_NoWait ==
  /\ ui = "join"
  /\ ui' = "menu" /\ page' = "none"
  /\ UNCHANGED <<mode, poll_failed, history, workVars, reportVars, pipe, resolverVars,
                 cancel_flag>>

-----------------------------------------------------------------------------
(* fp_test_run                                                               *)

TestBegins ==
  /\ worker = "start" /\ mode \in TestModes
  /\ Emit("PREFLIGHT", 1, "PENDING") /\ Goto("preflight")
  /\ UNCHANGED <<index, tries, outcome, reportVars>>
  /\ Others /\ NoLookup

\* Configuration, rules and listener_ready.
Preflight ==
  /\ worker = "preflight"
  /\ \/ listener_ok' = TRUE /\ Goto("next")
     \/ listener_ok' = FALSE /\ Goto("done")
  /\ UNCHANGED <<pipe, index, tries, outcome, items, reason, passed, failures, cancelled,
                 success, completed>>
  /\ Others /\ NoLookup

\* The loops of run_site_tests and run_speed_tests.
MoreTargets == index <= Count(mode)
NextTarget ==
  /\ worker = "next"
  /\ \/ /\ ~MoreTargets
        /\ Goto("done") /\ UNCHANGED <<items, cancelled>>
     \/ /\ MoreTargets /\ cancel_flag
        /\ cancelled' = TRUE /\ Mark("CANCELLED") /\ Goto("done")
     \/ /\ MoreTargets /\ ~cancel_flag
        /\ Mark("RUNNING") /\ Goto("announce") /\ UNCHANGED cancelled
  /\ UNCHANGED <<pipe, index, tries, outcome, reason, passed, failures, listener_ok,
                 success, completed>>
  /\ Others /\ NoLookup
NextSite == mode \in SiteModes /\ NextTarget
NextSpeed == mode = "SPEED" /\ NextTarget

Announce ==
  /\ worker = "announce"
  /\ Emit(mode, index, "RUNNING")
  /\ Goto(IF mode = "SPEED" THEN "speed" ELSE "probe")
  /\ tries' = 0
  /\ UNCHANGED <<index, outcome, reportVars>>
  /\ Others /\ NoLookup

\* measure_latency: one sample, or three that must all succeed.
Samples == IF mode = "LATENCY" THEN 3 ELSE 1

\* fp_web_probe up to curl_easy_perform: -1 when curl cannot be set up.
Probe ==
  /\ worker = "probe"
  /\ \/ ~cancel_flag /\ Goto("sampling") /\ UNCHANGED outcome
     \/ cancel_flag /\ outcome' = -2 /\ Goto("judge")
     \/ outcome' = -1 /\ Goto("judge")
  /\ UNCHANGED <<pipe, index, tries, reportVars>>
  /\ Others /\ NoLookup

\* It answers, fails, times out, or probe_progress aborts it.
ProbeEnds ==
  /\ worker = "sampling"
  /\ \/ /\ tries' = tries + 1
        /\ IF tries' < Samples THEN Goto("probe") /\ UNCHANGED outcome
                               ELSE Goto("judge") /\ outcome' = 0
     \/ outcome' = -1 /\ Goto("judge") /\ UNCHANGED tries
     \/ cancel_flag /\ outcome' = -2 /\ Goto("judge") /\ UNCHANGED tries
  /\ UNCHANGED <<pipe, index, reportVars>>
  /\ Others /\ NoLookup

\* The result is recorded, unless the test was cancelled while it was measured.
Judge ==
  /\ worker = "judge"
  /\ \/ /\ outcome = -2 \/ cancel_flag
        /\ cancelled' = TRUE /\ Mark("CANCELLED") /\ Goto("done")
        /\ UNCHANGED <<passed, failures>>
     \/ /\ outcome = 0 /\ ~cancel_flag
        /\ passed' = passed + 1 /\ Mark("OK") /\ Goto("tell")
        /\ UNCHANGED <<cancelled, failures>>
     \/ /\ outcome = -1 /\ ~cancel_flag
        /\ failures' = Append(failures, index) /\ Mark("FAIL") /\ Goto("tell")
        /\ UNCHANGED <<cancelled, passed>>
  /\ UNCHANGED <<pipe, index, tries, outcome, reason, listener_ok, success, completed>>
  /\ Others /\ NoLookup
JudgeSite == mode \in SiteModes /\ Judge
JudgeSpeed == mode = "SPEED" /\ Judge

Tell ==
  /\ worker = "tell"
  /\ Emit(mode, index, items[index]) /\ Goto("next")
  /\ index' = index + 1
  /\ UNCHANGED <<tries, outcome, reportVars>>
  /\ Others /\ NoLookup

TestDone ==
  /\ worker = "done"
  /\ Emit("DONE", IF listener_ok THEN 0 ELSE 1,
          IF cancelled THEN "CANCELLED" ELSE IF passed = Count(mode) THEN "OK" ELSE "FAIL")
  /\ Goto("leaving")
  /\ UNCHANGED <<index, tries, outcome, reportVars>>
  /\ Others /\ NoLookup

-----------------------------------------------------------------------------
(* measure_speed                                                             *)

Failed == outcome' = (IF cancel_flag THEN -2 ELSE -1) /\ Goto("judge")

SpeedBegins ==
  /\ worker = "speed"
  /\ \/ cancel_flag /\ outcome' = -2 /\ Goto("judge")
     \/ ~cancel_flag /\ Goto("resolve") /\ UNCHANGED outcome
  /\ UNCHANGED <<pipe, index, tries, reportVars>>
  /\ Others /\ NoLookup

\* resolve_ipv4 is called and runs; the diagnosis calls it too.
Resolve ==
  /\ worker = "resolve"
  /\ BeginResolve
  /\ Goto("resolving")
  /\ UNCHANGED <<pageVars, pipe, index, tries, outcome, reportVars>>

Resolving ==
  /\ worker = "resolving"
  /\ CallerStep
  /\ UNCHANGED <<pageVars, workVars, pipe, reportVars>>

SpeedResolved ==
  /\ worker = "resolving" /\ caller = "returned" /\ mode = "SPEED"
  /\ \/ ret = 0 /\ Goto("dial") /\ UNCHANGED outcome /\ NoLookup
     \/ ret # 0 /\ Failed /\ Consume
  /\ UNCHANGED <<pipe, index, tries, reportVars>>
  /\ Others

\* connect_through_forwarder tries the addresses in turn and then frees them.
Dial ==
  /\ worker = "dial"
  /\ \/ /\ tries < Addresses /\ ~cancel_flag
        /\ Goto("request") /\ tries' = 0 /\ UNCHANGED outcome /\ Consume
     \/ /\ tries < Addresses
        /\ tries' = tries + 1 /\ UNCHANGED <<worker, outcome>> /\ NoLookup
     \/ /\ tries = Addresses \/ cancel_flag
        /\ Failed /\ UNCHANGED tries /\ Consume
  /\ UNCHANGED <<pipe, index, reportVars>>
  /\ Others

\* The request is sent.
Request ==
  /\ worker = "request"
  /\ \/ Goto("headers") /\ UNCHANGED outcome
     \/ outcome' = -1 /\ Goto("judge")
  /\ UNCHANGED <<pipe, index, tries, reportVars>>
  /\ Others /\ NoLookup

\* skip_http_headers reads a success, or not.
Headers ==
  /\ worker = "headers"
  /\ \/ ~cancel_flag /\ Goto("body") /\ UNCHANGED outcome
     \/ Failed
  /\ UNCHANGED <<pipe, index, tries, reportVars>>
  /\ Others /\ NoLookup

\* The head of the download loop: cancelled, over, or one more recv.
Body ==
  /\ worker = "body"
  /\ \/ cancel_flag /\ outcome' = -2 /\ Goto("judge")
     \/ outcome' \in {0, -1} /\ Goto("judge")
     \/ ~cancel_flag /\ tries < MaxProgress /\ Goto("recv") /\ UNCHANGED outcome
  /\ UNCHANGED <<pipe, index, tries, reportVars>>
  /\ Others /\ NoLookup

\* Bytes arrive and, every 200 ms, are reported.
Recv ==
  /\ worker = "recv"
  /\ Emit("SPEED", index, "RUNNING") /\ Goto("body")
  /\ tries' = tries + 1
  /\ UNCHANGED <<index, outcome, reportVars>>
  /\ Others /\ NoLookup

-----------------------------------------------------------------------------
(* fp_diagnostic_run                                                         *)

\* A stage is announced; the flag is looked at before the second one only.
StageBegins ==
  /\ worker = "stage" \/ (worker = "start" /\ mode = "DIAGNOSTIC")
  /\ IF Stage = "DAEMON" /\ cancel_flag
     THEN Goto("stage_cancelled") /\ UNCHANGED <<pipe, items, tries>>
     ELSE /\ Emit("STAGE", index, "RUNNING") /\ Mark("RUNNING")
          /\ tries' = 0
          /\ Goto(IF Stage = "DNS" THEN "resolve" ELSE "check")
  /\ reason' = IF Stage = "SOCKS_CONNECT" THEN "INTERNAL" ELSE reason
  /\ UNCHANGED <<index, outcome, passed, failures, listener_ok, cancelled, success,
                 completed>>
  /\ Others /\ NoLookup

\* The stages up to the SOCKS5 greeting do not look at the flag.
CheckStage ==
  /\ worker = "check" /\ index < 7
  /\ \/ Goto("stage_ok") /\ UNCHANGED reason
     \/ Goto("stage_fails") /\ reason' \in Reasons(Stage)
  /\ UNCHANGED <<pipe, index, tries, outcome, items, passed, failures, listener_ok,
                 cancelled, success, completed>>
  /\ Others /\ NoLookup

\* diagnostic_cancel, or else diagnostic_fail with reason r.
CancelOrFail(r) ==
  IF cancel_flag THEN Goto("stage_cancelled") /\ UNCHANGED reason
                 ELSE Goto("stage_fails") /\ reason' = r

DiagnosisResolved ==
  /\ worker = "resolving" /\ caller = "returned" /\ mode = "DIAGNOSTIC"
  /\ \/ ret = 0 /\ Goto("stage_ok") /\ UNCHANGED reason /\ NoLookup
     \/ ret # 0 /\ CancelOrFail("DNS_FAILED") /\ Consume
  /\ UNCHANGED <<pipe, index, tries, outcome, items, passed, failures, listener_ok,
                 cancelled, success, completed>>
  /\ Others

\* diagnostic_socks_connect to one address after the other.  One of the wrong length
\* is skipped: the reason stays, and the flag is not looked at.
TryAddress ==
  /\ worker = "check" /\ Stage = "SOCKS_CONNECT" /\ tries < Addresses
  /\ \/ tries' = tries + 1 /\ UNCHANGED reason
     \/ /\ reason' \in (Reasons("SOCKS_CONNECT") \ {"INTERNAL"}) \cup {"NONE"}
                       \cup (IF cancel_flag THEN {"CANCELLED"} ELSE {})
        /\ tries' = IF reason' = "NONE" \/ cancel_flag THEN Addresses ELSE tries + 1
  /\ UNCHANGED <<pipe, worker, index, outcome, items, passed, failures, listener_ok,
                 cancelled, success, completed>>
  /\ Others /\ NoLookup

AddressesTried ==
  /\ worker = "check" /\ Stage = "SOCKS_CONNECT" /\ tries = Addresses
  /\ IF reason = "NONE" THEN Goto("stage_ok") /\ UNCHANGED reason
                        ELSE CancelOrFail(reason)
  /\ Consume
  /\ UNCHANGED <<pipe, index, tries, outcome, items, passed, failures, listener_ok,
                 cancelled, success, completed>>
  /\ Others

\* diagnostic_transparent_http; a cancelled one fails and the flag is read again.
Transparent ==
  /\ worker = "check" /\ Stage = "TRANSPARENT"
  /\ \/ Goto("stage_ok") /\ UNCHANGED reason
     \/ CancelOrFail("TRANSPARENT_FAILED")
  /\ UNCHANGED <<pipe, index, tries, outcome, items, passed, failures, listener_ok,
                 cancelled, success, completed>>
  /\ Others /\ NoLookup

\* diagnostic_emit
EmitItem(state) ==
  /\ Emit("STAGE", index, state) /\ Mark(state)
  /\ completed' = index

StageOk ==
  /\ worker = "stage_ok"
  /\ EmitItem("OK")
  /\ IF index = Len(Stages)
     THEN Goto("finish") /\ success' = TRUE /\ UNCHANGED index
     ELSE Goto("stage") /\ index' = index + 1 /\ UNCHANGED success
  /\ UNCHANGED <<tries, outcome, reason, passed, failures, listener_ok, cancelled>>
  /\ Others /\ NoLookup

StageFails ==
  /\ worker = "stage_fails"
  /\ EmitItem("FAIL") /\ Goto("finish")
  /\ UNCHANGED <<index, tries, outcome, reason, passed, failures, listener_ok, cancelled,
                 success>>
  /\ Others /\ NoLookup

StageCancelled ==
  /\ worker = "stage_cancelled"
  /\ EmitItem("CANCELLED") /\ Goto("finish")
  /\ cancelled' = TRUE
  /\ UNCHANGED <<index, tries, outcome, reason, passed, failures, listener_ok, success>>
  /\ Others /\ NoLookup

\* diagnostic_done
DiagnosisDone ==
  /\ worker = "finish"
  /\ Emit("DONE", completed, IF cancelled THEN "CANCELLED"
                             ELSE IF success THEN "OK" ELSE "FAIL")
  /\ Goto("leaving")
  /\ UNCHANGED <<index, tries, outcome, reportVars>>
  /\ Others /\ NoLookup

\* test_worker_main or diagnostic_worker_main returns.
WorkerReturns ==
  /\ worker = "leaving"
  /\ Goto("exited")
  /\ UNCHANGED <<pipe, index, tries, outcome, reportVars>>
  /\ Others /\ NoLookup

WorkerStep ==
  \/ TestBegins \/ Preflight \/ NextSite \/ NextSpeed \/ Announce \/ Probe
  \/ ProbeEnds \/ JudgeSite \/ JudgeSpeed \/ Tell \/ TestDone \/ SpeedBegins
  \/ Resolve \/ Resolving \/ SpeedResolved \/ Dial \/ Request \/ Headers \/ Body
  \/ Recv \/ StageBegins \/ CheckStage \/ DiagnosisResolved \/ TryAddress
  \/ AddressesTried \/ Transparent \/ StageOk \/ StageFails \/ StageCancelled
  \/ DiagnosisDone \/ WorkerReturns

-----------------------------------------------------------------------------
(* The user interface.                                                       *)

\* A fresh report, cancel flag, pipe and thread.
Session(p, m) ==
  /\ ui = "menu"
  /\ ui' = "loop" /\ page' = p /\ mode' = m
  /\ poll_failed' = FALSE
  /\ history' = [i \in 1 .. Count(m) |-> "none"]
  /\ items' = [i \in 1 .. Count(m) |-> "PENDING"]
  /\ reason' = "NONE" /\ passed' = 0 /\ failures' = <<>>
  /\ listener_ok' = FALSE /\ cancelled' = FALSE /\ success' = FALSE /\ completed' = 0
  /\ cancel_flag' = FALSE
  /\ pipe' = <<>>
  /\ worker' = "start" /\ index' = 1 /\ tries' = 0 /\ outcome' = 0
  /\ NoLookup

\* run_selected_test, run_monitor_test and run_diagnostic_page
StartTest == \E m \in TestModes : Session("test", m)
StartMonitorTest == \E m \in TestModes : Session("monitor", m)
StartDiagnosis == Session("diagnostic", "DIAGNOSTIC")

\* q is pressed.
Cancel ==
  /\ ui = "loop" /\ ~cancel_flag
  /\ cancel_flag' = TRUE
  /\ UNCHANGED <<pageVars, workVars, reportVars, pipe>> /\ NoLookup

\* remember_test_result: what the page shows of a target.
Remembered == {"OK", "FAIL", "CANCELLED"}
Remember(e) ==
  IF e.phase \in SiteModes /\ e.state \in Remembered
  THEN [history EXCEPT ![e.index] = e.state] ELSE history

\* poll, read, and the end of the loop when the last event has come.
ReadEvent(p) ==
  /\ ui = "loop" /\ page = p /\ pipe # <<>>
  /\ pipe' = Tail(pipe)
  /\ ui' = IF Head(pipe).phase = "DONE" THEN "join" ELSE "loop"
  /\ UNCHANGED <<page, mode, poll_failed, workVars, reportVars, cancel_flag>>
  /\ NoLookup

ReadTestEvent == ReadEvent("test") /\ history' = Remember(Head(pipe))
ReadMonitorEvent == ReadEvent("monitor") /\ UNCHANGED history
ReadDiagnosticEvent == ReadEvent("diagnostic") /\ UNCHANGED history

\* poll() fails other than with EINTR: the loop ends, the worker does not know.
PollFails ==
  /\ ui = "loop"
  /\ ui' = "join" /\ poll_failed' = TRUE
  /\ UNCHANGED <<page, mode, history, workVars, reportVars, pipe, cancel_flag>>
  /\ NoLookup

\* pthread_join; the pipe is closed, the results are shown, and the page returns.
JoinWorker ==
  /\ ui = "join" /\ worker = "exited"
  /\ ui' = "menu" /\ page' = "none" /\ mode' = "none"
  /\ poll_failed' = FALSE /\ history' = <<>> /\ pipe' = <<>>
  /\ worker' = "none" /\ index' = 1 /\ tries' = 0 /\ outcome' = 0
  /\ items' = <<>> /\ reason' = "NONE" /\ passed' = 0 /\ failures' = <<>>
  /\ listener_ok' = FALSE /\ cancelled' = FALSE /\ success' = FALSE /\ completed' = 0
  /\ cancel_flag' = FALSE
  /\ NoLookup

PageStep ==
  \/ StartTest \/ StartMonitorTest \/ StartDiagnosis \/ Cancel \/ ReadTestEvent
  \/ ReadMonitorEvent \/ ReadDiagnosticEvent \/ PollFails \/ JoinWorker

-----------------------------------------------------------------------------
Init ==
  /\ InitResolver
  /\ page = "none" /\ mode = "none" /\ ui = "menu" /\ poll_failed = FALSE
  /\ history = <<>> /\ pipe = <<>>
  /\ worker = "none" /\ index = 1 /\ tries = 0 /\ outcome = 0
  /\ items = <<>> /\ reason = "NONE" /\ passed = 0 /\ failures = <<>>
  /\ listener_ok = FALSE /\ cancelled = FALSE /\ success = FALSE /\ completed = 0

LookupStep(j) ==
  /\ ThreadStep(j)
  /\ UNCHANGED <<pageVars, workVars, pipe, reportVars>>

Next ==
  \/ PageStep
  \/ WorkerStep
  \/ \E j \in Job : LookupStep(j)

Spec == Init /\ [][Next]_vars

\* The threads are scheduled, poll and read return, and every network operation but
\* getaddrinfo has a timeout: nothing is assumed of Lookup, and nobody presses q.
Fairness ==
  /\ WF_vars(ReadTestEvent \/ ReadMonitorEvent \/ ReadDiagnosticEvent)
  /\ WF_vars(JoinWorker)
  /\ WF_vars(WorkerStep)
  /\ \A j \in Job : WF_vars(LookupStep(j) /\ thread[j] # "lookup")

FairSpec == Spec /\ Fairness

-----------------------------------------------------------------------------
(* Properties.                                                               *)

WorkerStates ==
  {"none", "start", "preflight", "next", "announce", "probe", "sampling", "speed",
   "resolve", "resolving", "dial", "request", "headers", "body", "recv", "judge",
   "tell", "done", "stage", "check", "stage_ok", "stage_fails", "stage_cancelled",
   "finish", "leaving", "exited"}
ItemStates == {"PENDING", "RUNNING", "OK", "FAIL", "CANCELLED"}
Final == {"OK", "FAIL"}

\* Every variable keeps its type; the index never passes the end of the list by more
\* than the one step that ends the loop.
TypeOK ==
  /\ ResolverTypeOK
  /\ page \in {"none", "test", "monitor", "diagnostic"}
  /\ mode \in TestModes \cup {"DIAGNOSTIC", "none"}
  /\ ui \in {"menu", "loop", "join"} /\ poll_failed \in BOOLEAN
  /\ Len(pipe) <= PipeSize
  /\ worker \in WorkerStates
  /\ index \in 1 .. Count(mode) + 1 /\ tries \in Nat /\ outcome \in {0, -1, -2}
  /\ DOMAIN items = DOMAIN history
  /\ \A i \in DOMAIN items : /\ items[i] \in ItemStates
                             /\ history[i] \in ItemStates \cup {"none"}
  /\ passed \in 0 .. Len(items) /\ Len(failures) <= Len(items)
  /\ completed \in 0 .. Len(items)
  /\ listener_ok \in BOOLEAN /\ cancelled \in BOOLEAN /\ success \in BOOLEAN

\* The counters and the list of failures agree with the states of the targets at any
\* moment a test can be cancelled; a cancelled test has one cancelled target and has
\* not begun the ones after it, and one that was not cancelled has left none open.
ReportConsistent ==
  mode \in TestModes =>
    LET Of(states) == {i \in DOMAIN items : items[i] \in states} IN
    /\ passed = Cardinality(Of({"OK"}))
    /\ Of({"FAIL"}) = {failures[k] : k \in DOMAIN failures}
    /\ \A k, l \in DOMAIN failures : k < l => failures[k] < failures[l]
    /\ Cardinality(Of({"RUNNING", "CANCELLED"})) <= 1
    /\ \A i, k \in DOMAIN items : i < k /\ items[i] \notin Final => items[k] = "PENDING"
    /\ cancelled <=> Of({"CANCELLED"}) # {}
    /\ worker = "done" /\ listener_ok /\ ~cancelled => Of(Final) = DOMAIN items

\* The event that makes the page stop reading is the last one: nothing is left in the
\* pipe and nothing is written after it, so that no write can block for ever.
DoneIsLast ==
  ui = "join" /\ ~poll_failed => pipe = <<>> /\ worker \in {"leaving", "exited"}

\* What the test page shows of a target is what the report says, although the page is
\* behind; when the last event has come it has seen every target that finished.
HistoryAgrees ==
  page = "test" /\ mode \in SiteModes =>
    \A i \in DOMAIN history :
      /\ history[i] # "none" => history[i] = items[i]
      /\ ui = "join" /\ ~poll_failed /\ items[i] \in Final => history[i] = items[i]

\* README: the diagnosis stops at the first failed stage and reports what is wrong
\* there.  Success means that every stage passed; cancellation is not a failure.
DiagnosisStops ==
  mode = "DIAGNOSTIC" /\ worker \in {"finish", "leaving", "exited"} =>
    /\ success <=> \A i \in DOMAIN items : items[i] = "OK"
    /\ ~(success /\ cancelled)
    /\ \A i \in DOMAIN items : /\ i < completed => items[i] = "OK"
                               /\ i > completed => items[i] = "PENDING"
    /\ items[completed] = "FAIL" => reason \in Reasons(Stages[completed])
    /\ items[completed] = "CANCELLED" <=> cancelled

\* The worker never runs on when its page has returned: the report, its arguments and
\* the cancel flag are on the page's stack.
StackOutlives == ui = "menu" => worker = "none" /\ caller = "idle"

\* The tests use resolve_ipv4 as it is meant to be used: one lookup at a time, its
\* addresses freed once and before the next, whichever way the test goes on.
UsesResolver == ResolverSpec

\* Pressing q ends the test, however long getaddrinfo takes, unless poll() failed.
CancelEnds == cancel_flag ~> (ui = "menu" \/ poll_failed)

=============================================================================
