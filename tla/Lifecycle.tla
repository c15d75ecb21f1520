------------------------------ MODULE Lifecycle ------------------------------
(***************************************************************************)
(* How a forwarder is started, replaced and stopped: the operations of     *)
(* src/src/operations.c and src/src/process.c that controllers run under   *)
(* the lock, the start and exit of the forwarder itself (main.c "run" and  *)
(* fp_proxy_run), and systemd, which starts the forwarder without a lock.  *)
(*                                                                         *)
(* A controller is a stack of calls: the head of calls[c] is the statement *)
(* it is about to run, ret[c] the last value returned to it.  Firewall     *)
(* operations are single steps here; module Firewall takes them apart.     *)
(***************************************************************************)
EXTENDS Integers, FiniteSets, Sequences

CONSTANTS
  Controller,   \* controller processes (CLI commands and open TUIs)
  Daemon,       \* incarnations of "free_proxy run": a pid with its start time
  None,         \* no process, no configuration, no rules
  Systemd,      \* parent of a forwarder that the unit started
  InitProcess,  \* parent of a forwarder whose controller has exited
  Proxy,        \* SOCKS5 servers
  Bypass,       \* bypass lists, as sets of direct destinations
  Ops,          \* operations the controllers are asked for
  MaxFaults,    \* bound on failing file, fork and firewall operations
  MaxCrashes,   \* bound on forwarders that crash or whose loop fails
  MaxUnitStarts,\* bound on starts and restarts by systemd
  MaxOps        \* bound on controller operations

Config == [proxy : Proxy, bypass : Bypass]

ASSUME LifecycleAssumption ==
  /\ {} \in Bypass
  /\ None \notin Controller \cup Daemon \cup Config
  /\ {Systemd, InitProcess} \cap Controller = {}
  /\ Systemd # InitProcess
  /\ Ops \subseteq {"enable", "saved", "bypass", "disable", "uninstall"}
  /\ {MaxFaults, MaxCrashes, MaxUnitStarts, MaxOps} \subseteq Nat

VARIABLES
  config,    \* FP_CONFIG_PATH
  pidfile,   \* the forwarder named by FP_PID_PATH
  listener,  \* the forwarder bound to FP_LISTEN_PORT
  fw,        \* the configuration whose rules are installed
  lock,      \* controllers whose flock was granted
  lockfile,  \* the file that FP_LOCK_PATH names: it can be unlinked and created anew
  opened,    \* opened[c]: the lock file that c has open, 0 if none
  unit,      \* systemd knows the unit
  binary,    \* FP_INSTALLED_BINARY exists
  proc,      \* each forwarder process: state, cfg (its configuration), term
             \* (keep_running is 0), parent (who waits for it), ready (the byte
             \* in its ready pipe)
  calls,     \* each controller's stack of pending statements
  ret,       \* the value last returned to it
  op,        \* the operation it runs or ran last
  arg,       \* its struct fp_config config
  prev,      \* its previous_config
  was,       \* its was_running
  target,    \* the forwarder it is stopping or starting
  todo,      \* /proc entries its scan has not reached
  bad,       \* parts of fp_uninstall whose result is not 0
  faults, crashes, units, opcount,
  forced,    \* history: something failed, crashed or was killed
  crashed    \* history: a forwarder crashed, or the unit was stopped, since the lock
             \* was last taken; or a forwarder was just leaving its loop then

diskVars == <<config, pidfile>>
hostVars == <<lockfile, opened, unit, binary>>
localVars == <<op, arg, prev, was, target, todo, bad>>
countVars == <<faults, crashes, units, opcount>>
vars == <<config, pidfile, listener, fw, lock, lockfile, opened, unit, binary, proc,
          calls, ret, op, arg, prev, was, target, todo, bad, faults, crashes, units, opcount, forced, crashed>>

\* Program states of a forwarder process, from fork to exit.
Execed == {"init", "loaded", "bound", "recorded", "run", "closed", "cleanup"}
Alive(d) == proc[d].state \in Execed \cup {"forked"}
\* stop_proxy is installed once fp_proxy_run has begun.
Handled == {"bound", "recorded", "run", "closed", "cleanup"}

\* process_is_ours and is_legacy_daemon: it runs our binary with argument "run".
\* A zombie has no /proc/<pid>/exe and a child that has not called exec yet still
\* has its controller's command line.
IsOurs(d) == proc[d].state \in Execed

\* read_process_record and fp_read_pid: the file parses, whether or not the process
\* it names is alive.
Recorded == pidfile # None

\* fp_daemon_matches_config compares the SOCKS5 server only.
Matches(cfg) == Recorded /\ IsOurs(pidfile) /\ proc[pidfile].cfg.proxy = cfg.proxy

\* fp_firewall_is_enabled: it does not notice bypass rules that should be gone.
IsEnabled(cfg) == fw # None /\ fw.proxy = cfg.proxy /\ cfg.bypass \subseteq fw.bypass

Fault == faults < MaxFaults /\ faults' = faults + 1 /\ forced' = TRUE
NoFault == UNCHANGED <<faults, forced>>

-----------------------------------------------------------------------------
(* The end of a forwarder process: its descriptors are closed, and it stays  *)
(* a zombie while the controller that started it is alive and has not waited.*)

NoProcess == [state |-> "none", cfg |-> None, term |-> FALSE, parent |-> None,
              ready |-> "none"]

Dies(d) ==
  /\ proc' = [proc EXCEPT ![d] = IF @.parent \in Controller
                                 THEN [@ EXCEPT !.state = "zombie"] ELSE NoProcess]
  /\ listener' = IF listener = d THEN None ELSE listener

\* kill(d, SIGTERM): the default action until stop_proxy is installed.
Terminate(d) ==
  IF proc[d].state \in Handled
  THEN /\ proc' = [proc EXCEPT ![d].term = TRUE]
       /\ UNCHANGED listener
  ELSE IF Alive(d) THEN Dies(d) ELSE UNCHANGED <<proc, listener>>

-----------------------------------------------------------------------------
(* Control of a controller.                                                  *)

At(c, s) == calls[c] # <<>> /\ Head(calls[c]) = s
\* The statement at the head returns value and continues with the calls in new.
Then(c, new, value) ==
  /\ calls' = [calls EXCEPT ![c] = new \o Tail(@)]
  /\ ret' = [ret EXCEPT ![c] = value]
\* goto: everything up to the release of the lock is skipped.
Leave(c, value) ==
  /\ calls' = [calls EXCEPT ![c] = <<"unlock">>]
  /\ ret' = [ret EXCEPT ![c] = value]

\* fp_uninstall stops the forwarder before systemd has forgotten the unit.
Program_UnitLast(o) ==
  CASE o = "enable"  -> <<"lock", "load_enable", "activate", "after_enable", "unlock">>
    [] o = "disable" -> <<"lock", "stop", "fw_off", "unlock">>
    [] o = "uninstall" ->
         <<"lock", "stop", "uninstall_fw", "uninstall_retry", "unit_stop", "unit_remove",
           "remove_files", "unlock", "remove_lock", "remove_binary">>

Program(o) ==
  CASE o = "enable"  -> <<"lock", "load_enable", "activate", "after_enable", "unlock">>
    [] o = "saved"   -> <<"lock", "load_saved", "activate", "unlock">>
    [] o = "bypass"  -> <<"lock", "load_bypass", "unlock">>
    [] o = "disable" -> <<"lock", "stop", "fw_off", "unlock">>
    [] o = "uninstall" ->
         <<"lock", "unit_stop", "unit_remove", "stop", "uninstall_fw", "uninstall_retry",
           "remove_files", "unlock", "remove_lock", "remove_binary">>

Begin(c, o) ==
  /\ calls[c] = <<>> /\ opcount < MaxOps
  /\ calls' = [calls EXCEPT ![c] = Program(o)]
  /\ op' = [op EXCEPT ![c] = o]
  /\ opcount' = opcount + 1
  /\ UNCHANGED <<diskVars, proc, listener, fw, lock, ret, arg, prev, was, target,
                 todo, bad, faults, crashes, units, forced, crashed, hostVars>>

\* fp_lock_acquire: the file is opened, created if it is missing ...
OpenLock(c) ==
  /\ At(c, "lock")
  /\ \/ /\ opened' = [opened EXCEPT ![c] = lockfile]
        /\ Then(c, <<"flock">>, "ok") /\ NoFault
     \/ /\ Fault
        /\ calls' = [calls EXCEPT ![c] = <<>>]
        /\ ret' = [ret EXCEPT ![c] = "fail"]
        /\ UNCHANGED opened
  /\ UNCHANGED <<diskVars, proc, localVars, listener, fw, lock, lockfile, unit, binary,
                 crashes, units, opcount, crashed>>

\* ... and flock waits for the others that have opened this very file.
Acquire(c) ==
  /\ At(c, "flock")
  /\ \A k \in lock : opened[k] # opened[c]
  /\ lock' = lock \cup {c}
  /\ Then(c, <<>>, "ok")
  /\ crashed' = \E d \in Daemon : proc[d].state = "closed"
  /\ UNCHANGED <<diskVars, proc, localVars, countVars, listener, fw, hostVars, forced>>

\* fp_lock_release; the operation's local variables end with it.
Release(c) ==
  /\ At(c, "unlock")
  /\ lock' = lock \ {c} /\ opened' = [opened EXCEPT ![c] = 0]
  /\ Then(c, <<>>, ret[c])
  /\ arg' = [arg EXCEPT ![c] = None] /\ prev' = [prev EXCEPT ![c] = None]
  /\ was' = [was EXCEPT ![c] = FALSE] /\ bad' = [bad EXCEPT ![c] = {}]
  /\ UNCHANGED <<diskVars, proc, op, target, todo, countVars, listener, fw, lockfile, unit,
                 binary, forced, crashed>>

\* A CLI command exits when it is done, a TUI later: init adopts its forwarders.
Quit(c) ==
  /\ calls[c] = <<>>
  /\ \E d \in Daemon : proc[d].parent = c
  /\ proc' = [d \in Daemon |->
                IF proc[d].parent # c THEN proc[d]
                ELSE IF proc[d].state = "zombie" THEN NoProcess
                ELSE [proc[d] EXCEPT !.parent = InitProcess]]
  /\ UNCHANGED <<diskVars, listener, fw, lock, calls, ret, localVars, countVars,
                 forced, crashed, hostVars>>

-----------------------------------------------------------------------------
(* Faulty variants of definitions below, one per property.                   *)

\* fp_set_bypass leaves the rules alone when fp_firewall_is_enabled says they are right.
FirewallBypass_IfNeeded(c) ==
  /\ At(c, "fw_bypass")
  /\ fw' = IF IsEnabled(arg[c]) THEN fw ELSE arg[c]
  /\ Then(c, <<>>, "ok")
  /\ UNCHANGED <<diskVars, proc, localVars, countVars, listener, lock, forced,
                 crashed, hostVars>>

\* stop_process takes a timeout for success and never sends SIGKILL.
WaitTimeout_NoKill(c) ==
  /\ At(c, "wait")
  /\ proc[target[c]].state # "none"
  /\ Then(c, <<>>, "ok")
  /\ target' = [target EXCEPT ![c] = None]
  /\ UNCHANGED <<diskVars, proc, op, arg, prev, was, todo, bad, countVars, listener,
                 fw, lock, forced, crashed, hostVars>>

\* fp_disable_proxy gives up when fp_stop_daemon has failed.
FirewallOff_IfStopped(c) ==
  /\ At(c, "fw_off")
  /\ \/ ret[c] = "ok" /\ fw' = None /\ NoFault
     \/ ret[c] = "fail" /\ fw' = fw /\ NoFault
  /\ Then(c, <<>>, ret[c])
  /\ UNCHANGED <<diskVars, proc, localVars, listener, lock, crashes, units, opcount,
                 crashed, hostVars>>

\* fp_start_daemon does not look at the byte it reads.
AwaitReady_AnyByte(c) ==
  /\ At(c, "await") /\ proc[target[c]].ready # "none"
  /\ Then(c, <<>>, "ok")
  /\ target' = [target EXCEPT ![c] = None]
  /\ UNCHANGED <<diskVars, proc, op, arg, prev, was, todo, bad, countVars, listener,
                 fw, lock, forced, crashed, hostVars>>

\* fp_start_daemon waits for the child without having told it to stop.
AwaitFails_NoTerm(c) ==
  /\ At(c, "await")
  /\ Then(c, <<"reap">>, "fail")
  /\ forced' = TRUE
  /\ UNCHANGED <<diskVars, proc, localVars, countVars, listener, fw, lock, crashed,
                 hostVars>>

\* main() does not check what fp_config_load returned.
LoadConfig_Unchecked(d) ==
  /\ proc[d].state = "init"
  /\ proc' = [proc EXCEPT ![d].state = "loaded", ![d].cfg = config]
  /\ UNCHANGED <<diskVars, listener, fw, lock, calls, ret, localVars, countVars,
                 forced, crashed, hostVars>>

-----------------------------------------------------------------------------
(* operations.c                                                              *)

\* fp_enable_proxy up to fp_config_save
LoadEnable(c) ==
  /\ At(c, "load_enable")
  /\ \E p \in Proxy :
       arg' = [arg EXCEPT ![c] = [proxy |-> p, bypass |-> IF config = None THEN {}
                                                         ELSE config.bypass]]
  /\ prev' = [prev EXCEPT ![c] = config]
  /\ was' = [was EXCEPT ![c] = Recorded]
  /\ \/ config' = arg'[c] /\ Then(c, <<>>, "ok") /\ NoFault
     \/ config' = config /\ Leave(c, "fail") /\ Fault
  /\ UNCHANGED <<pidfile, proc, listener, fw, lock, op, target, todo, bad, crashes,
                 units, opcount, crashed, hostVars>>

\* The address does not parse: nothing is touched.
RejectProxy(c) ==
  /\ At(c, "load_enable")
  /\ Leave(c, "fail")
  /\ UNCHANGED <<diskVars, proc, localVars, countVars, listener, fw, lock, forced,
                 crashed, hostVars>>

\* fp_enable_saved_proxy
LoadSaved(c) ==
  /\ At(c, "load_saved")
  /\ IF config = None THEN Leave(c, "fail") /\ UNCHANGED arg
     ELSE Then(c, <<>>, "ok") /\ arg' = [arg EXCEPT ![c] = config]
  /\ UNCHANGED <<diskVars, proc, op, prev, was, target, todo, bad, countVars,
                 listener, fw, lock, forced, crashed, hostVars>>

\* activate_proxy_locked: done already, or stop what the pid file names.
Activate(c) ==
  /\ At(c, "activate")
  /\ IF Matches(arg[c]) /\ IsEnabled(arg[c])
     THEN Then(c, <<>>, "ok")
     ELSE Then(c, (IF Recorded THEN <<"stop">> ELSE <<>>) \o <<"replace">>, "ok")
  /\ UNCHANGED <<diskVars, proc, localVars, countVars, listener, fw, lock, forced,
                 crashed, hostVars>>

\* fp_firewall_disable() != 0 || fp_start_daemon(config) != 0
Replace(c) ==
  /\ At(c, "replace")
  /\ \/ /\ ret[c] = "fail"
        /\ Then(c, <<>>, "fail") /\ NoFault /\ UNCHANGED fw
     \/ /\ ret[c] = "ok"
        /\ fw' = None /\ Then(c, <<"start", "started">>, "ok") /\ NoFault
     \/ /\ ret[c] = "ok"
        /\ fw' \in {fw, None} /\ Then(c, <<>>, "fail") /\ Fault
  /\ UNCHANGED <<diskVars, proc, localVars, listener, lock, crashes, units, opcount,
                 crashed, hostVars>>

Started(c) ==
  /\ At(c, "started")
  /\ \/ ret[c] = "ok" /\ NoFault /\ UNCHANGED fw
     \/ ret[c] = "fail" /\ NoFault /\ fw' = None
     \/ ret[c] = "fail" /\ Fault /\ UNCHANGED fw
  /\ Then(c, <<>>, ret[c])
  /\ UNCHANGED <<diskVars, proc, localVars, listener, lock, crashes, units, opcount,
                 crashed, hostVars>>

\* fp_enable_proxy: put the previous configuration back, and its forwarder.
AfterEnable(c) ==
  /\ At(c, "after_enable")
  /\ IF ret[c] = "fail" /\ prev[c] # None
     THEN /\ \/ config' = prev[c] /\ NoFault
             \/ config' = config /\ Fault
          /\ arg' = [arg EXCEPT ![c] = IF was[c] THEN prev[c] ELSE @]
          /\ Then(c, IF was[c] THEN <<"activate", "report_failure">> ELSE <<>>, "fail")
     ELSE /\ UNCHANGED <<config, arg>> /\ NoFault
          /\ Then(c, <<>>, ret[c])
  /\ UNCHANGED <<pidfile, proc, listener, fw, lock, op, prev, was, target, todo, bad,
                 crashes, units, opcount, crashed, hostVars>>

ReportFailure(c) ==
  /\ At(c, "report_failure")
  /\ Then(c, <<>>, "fail")
  /\ UNCHANGED <<diskVars, proc, localVars, countVars, listener, fw, lock, forced,
                 crashed, hostVars>>

\* fp_set_bypass up to fp_config_save; nothing is touched when there is no valid
\* configuration or the list does not parse.
LoadBypass(c) ==
  /\ At(c, "load_bypass")
  /\ \/ /\ Leave(c, "fail") /\ NoFault /\ UNCHANGED <<config, arg, prev, was>>
     \/ /\ config # None
        /\ \E b \in Bypass : arg' = [arg EXCEPT ![c] = [config EXCEPT !.bypass = b]]
        /\ prev' = [prev EXCEPT ![c] = config]
        /\ was' = [was EXCEPT ![c] = Recorded]
        /\ \/ /\ config' = arg'[c] /\ NoFault
              /\ Then(c, IF Recorded THEN <<"fw_bypass">> ELSE <<>>, "ok")
           \/ /\ config' = config /\ Fault
              /\ Then(c, IF Recorded THEN <<"fw_restore">> ELSE <<>>, "fail")
  /\ UNCHANGED <<pidfile, proc, listener, fw, lock, op, target, todo, bad, crashes,
                 units, opcount, crashed, hostVars>>

\* fp_firewall_enable(&config); a failure restores the saved configuration.
FirewallBypass(c) ==
  /\ At(c, "fw_bypass")
  /\ \/ fw' = arg[c] /\ Then(c, <<>>, "ok") /\ NoFault /\ UNCHANGED config
     \/ /\ fw' \in {fw, None} /\ Then(c, <<"fw_restore">>, "fail") /\ Fault
        /\ config' \in {config, prev[c]}
  /\ UNCHANGED <<pidfile, proc, localVars, listener, lock, crashes, units, opcount,
                 crashed, hostVars>>

\* fp_firewall_enable(&previous_config)
FirewallRestore(c) ==
  /\ At(c, "fw_restore")
  /\ \/ fw' = prev[c] /\ NoFault
     \/ fw' \in {fw, None} /\ Fault
  /\ Then(c, <<>>, "fail")
  /\ UNCHANGED <<diskVars, proc, localVars, listener, lock, crashes, units, opcount,
                 crashed, hostVars>>

\* fp_disable_proxy: fp_firewall_disable runs whatever fp_stop_daemon returned.
FirewallOff(c) ==
  /\ At(c, "fw_off")
  /\ \/ fw' = None /\ Then(c, <<>>, ret[c]) /\ NoFault
     \/ fw' \in {fw, None} /\ Then(c, <<>>, "fail") /\ Fault
  /\ UNCHANGED <<diskVars, proc, localVars, listener, lock, crashes, units, opcount,
                 crashed, hostVars>>

-----------------------------------------------------------------------------
(* fp_uninstall: every part is tried whatever the others returned.           *)

\* fp_autostart_remove: systemctl stop waits for the unit's forwarder; nothing is done
\* about its failure.
UnitStopBegin(c) ==
  /\ At(c, "unit_stop")
  /\ \/ \E d \in Daemon :
          /\ Alive(d) /\ proc[d].parent = Systemd /\ Terminate(d)
          /\ target' = [target EXCEPT ![c] = d]
          /\ Then(c, <<"unit_wait">>, "ok") /\ NoFault
     \/ /\ \/ NoFault /\ \A d \in Daemon : Alive(d) => proc[d].parent # Systemd
           \/ Fault
        /\ Then(c, <<>>, "ok") /\ UNCHANGED <<proc, listener, target>>
  /\ UNCHANGED <<diskVars, op, arg, prev, was, todo, bad, crashes, units, opcount, fw, lock,
                 hostVars, crashed>>

UnitStopDone(c) ==
  /\ At(c, "unit_wait") /\ ~Alive(target[c])
  /\ target' = [target EXCEPT ![c] = None]
  /\ Then(c, <<>>, "ok")
  /\ UNCHANGED <<diskVars, proc, op, arg, prev, was, todo, bad, countVars, listener, fw,
                 lock, hostVars, forced, crashed>>

\* Its file is unlinked and systemd told to forget it; a failing daemon-reload goes
\* unnoticed.
UnitRemove(c) ==
  /\ At(c, "unit_remove")
  /\ \/ unit' = FALSE /\ NoFault /\ UNCHANGED bad
     \/ UNCHANGED <<unit, bad>> /\ Fault
     \/ UNCHANGED unit /\ bad' = [bad EXCEPT ![c] = @ \cup {"service"}] /\ Fault
  /\ Then(c, <<>>, "ok")
  /\ UNCHANGED <<diskVars, proc, op, arg, prev, was, target, todo, crashes, units, opcount,
                 listener, fw, lock, lockfile, opened, binary, crashed>>

\* fp_firewall_disable, then fp_stop_daemon once more if it has failed.
UninstallFirewall(c) ==
  /\ At(c, "uninstall_fw")
  /\ \/ fw' = None /\ NoFault /\ UNCHANGED bad
     \/ fw' \in {fw, None} /\ bad' = [bad EXCEPT ![c] = @ \cup {"firewall"}] /\ Fault
  /\ Then(c, IF ret[c] = "fail" THEN <<"stop">> ELSE <<>>, "ok")
  /\ UNCHANGED <<diskVars, proc, op, arg, prev, was, target, todo, crashes, units, opcount,
                 listener, lock, hostVars, crashed>>

\* fp_firewall_disable once more if it has failed.
UninstallRetry(c) ==
  /\ At(c, "uninstall_retry")
  /\ LET left == bad[c] \cup (IF ret[c] = "fail" THEN {"stop"} ELSE {})
     IN IF "firewall" \in left
        THEN \/ fw' = None /\ bad' = [bad EXCEPT ![c] = left \ {"firewall"}] /\ NoFault
             \/ fw' \in {fw, None} /\ bad' = [bad EXCEPT ![c] = left] /\ Fault
        ELSE bad' = [bad EXCEPT ![c] = left] /\ NoFault /\ UNCHANGED fw
  /\ Then(c, <<>>, "ok")
  /\ UNCHANGED <<diskVars, proc, op, arg, prev, was, target, todo, crashes, units, opcount,
                 listener, lock, hostVars, crashed>>

\* fp_remove_pid and the configuration files; what is returned is known but for the
\* binary.
RemoveFiles(c) ==
  /\ At(c, "remove_files")
  /\ pidfile' = None /\ config' = None
  /\ Then(c, <<>>, IF bad[c] = {} THEN "ok" ELSE "fail")
  /\ UNCHANGED <<proc, localVars, countVars, listener, fw, lock, hostVars, forced, crashed>>

\* The lock file goes after its release, whoever has opened it meanwhile.
RemoveLock(c) ==
  /\ At(c, "remove_lock")
  /\ lockfile' = lockfile + 1
  /\ Then(c, <<>>, ret[c])
  /\ UNCHANGED <<diskVars, proc, localVars, countVars, listener, fw, lock, opened, unit,
                 binary, forced, crashed>>

RemoveBinary(c) ==
  /\ At(c, "remove_binary")
  /\ \/ binary' = FALSE /\ Then(c, <<>>, ret[c]) /\ NoFault
     \/ UNCHANGED binary /\ Then(c, <<>>, "fail") /\ Fault
  /\ UNCHANGED <<diskVars, proc, localVars, crashes, units, opcount, listener, fw, lock,
                 lockfile, opened, unit, crashed>>

-----------------------------------------------------------------------------
(* process.c                                                                 *)

\* fp_stop_daemon: first the forwarder that the pid file names, if it is ours.
StopDaemon(c) ==
  /\ At(c, "stop")
  /\ IF Recorded /\ IsOurs(pidfile)
     THEN /\ target' = [target EXCEPT ![c] = pidfile]
          /\ Then(c, <<"term", "sweep", "scan", "port">>, "ok")
     ELSE /\ UNCHANGED target
          /\ Then(c, <<"sweep", "scan", "port">>, "ok")
  /\ UNCHANGED <<diskVars, proc, op, arg, prev, was, todo, bad, countVars, listener,
                 fw, lock, forced, crashed, hostVars>>

\* stop_process: SIGTERM to the session.
SendTerm(c) ==
  /\ At(c, "term")
  /\ Terminate(target[c])
  /\ Then(c, <<"wait">>, "ok")
  /\ UNCHANGED <<diskVars, localVars, countVars, fw, lock, forced, crashed, hostVars>>

\* A process that does not exist any more, or that this waitpid collects.
Collect(c) ==
  \/ proc[target[c]].state = "none" /\ UNCHANGED proc
  \/ /\ proc[target[c]].state = "zombie" /\ proc[target[c]].parent = c
     /\ proc' = [proc EXCEPT ![target[c]] = NoProcess]

\* It is gone within FP_STOP_TIMEOUT_MS.
WaitGone(c) ==
  /\ At(c, "wait")
  /\ Collect(c)
  /\ Then(c, <<>>, "ok")
  /\ target' = [target EXCEPT ![c] = None]
  /\ UNCHANGED <<diskVars, op, arg, prev, was, todo, bad, countVars, listener, fw,
                 lock, forced, crashed, hostVars>>

\* It is not: SIGKILL.
WaitTimeout(c) ==
  /\ At(c, "wait")
  /\ proc[target[c]].state # "none"
  /\ IF Alive(target[c]) THEN Dies(target[c]) ELSE UNCHANGED <<proc, listener>>
  /\ Then(c, <<"killed">>, "ok")
  /\ forced' = TRUE
  /\ UNCHANGED <<diskVars, localVars, countVars, fw, lock, crashed, hostVars>>

\* The second loop does not call waitpid: a zombie never goes away.
KillGone(c) ==
  /\ At(c, "killed")
  /\ Then(c, <<>>, IF proc[target[c]].state = "none" THEN "ok" ELSE "fail")
  /\ target' = [target EXCEPT ![c] = None]
  /\ UNCHANGED <<diskVars, proc, op, arg, prev, was, todo, bad, countVars, listener,
                 fw, lock, forced, crashed, hostVars>>

\* A failed stop_process makes the caller return -1; else stop_untracked_daemons.
Sweep(c) ==
  /\ At(c, "sweep")
  /\ todo' = [todo EXCEPT ![c] = IF ret[c] = "ok" THEN Daemon ELSE {}]
  /\ Then(c, <<>>, ret[c])
  /\ UNCHANGED <<diskVars, proc, op, arg, prev, was, target, countVars, listener, fw,
                 lock, forced, crashed, bad, hostVars>>

\* One entry of /proc, looked at once, whenever readdir comes to it.
ScanEntry(c, d) ==
  /\ At(c, "scan") /\ ret[c] = "ok" /\ d \in todo[c]
  /\ todo' = [todo EXCEPT ![c] = @ \ {d}]
  /\ target' = [target EXCEPT ![c] = IF IsOurs(d) THEN d ELSE None]
  /\ Then(c, IF IsOurs(d) THEN <<"term", "scan">> ELSE <<"scan">>, "ok")
  /\ UNCHANGED <<diskVars, proc, op, arg, prev, was, countVars, listener, fw, lock,
                 forced, crashed, bad, hostVars>>

ScanDone(c) ==
  /\ At(c, "scan") /\ (ret[c] = "fail" \/ todo[c] = {})
  /\ Then(c, <<>>, ret[c])
  /\ todo' = [todo EXCEPT ![c] = {}]
  /\ UNCHANGED <<diskVars, proc, op, arg, prev, was, target, countVars, listener, fw,
                 lock, forced, crashed, bad, hostVars>>

\* wait_listener_released, then the pid file goes; one more scan if it times out.
PortReleased(c, s) ==
  /\ At(c, s)
  /\ ret[c] = "ok" => listener = None
  /\ pidfile' = IF ret[c] = "ok" THEN None ELSE pidfile
  /\ Then(c, <<>>, ret[c])
  /\ UNCHANGED <<config, proc, localVars, countVars, listener, fw, lock, forced,
                 crashed, hostVars>>

PortBusy(c, s) ==
  /\ At(c, s) /\ ret[c] = "ok" /\ listener # None
  /\ IF s = "port" THEN Then(c, <<"sweep", "scan", "port_again">>, "ok")
                   ELSE Then(c, <<>>, "fail")
  /\ UNCHANGED <<diskVars, proc, localVars, countVars, listener, fw, lock, forced,
                 crashed, hostVars>>

\* fp_start_daemon: a forwarder of this configuration that the pid file names is
\* taken to be running; anything else is stopped first.
StartDaemon(c) ==
  /\ At(c, "start")
  /\ Then(c, IF Matches(arg[c]) THEN <<>>
             ELSE IF Recorded THEN <<"stop", "spawn">>
             ELSE <<"sweep", "scan", "spawn">>, "ok")
  /\ UNCHANGED <<diskVars, proc, localVars, countVars, listener, fw, lock, forced,
                 crashed, hostVars>>

\* A pid with its start time names one process for good: it is not reused while
\* something still refers to it.
NewProcess(d, s, p) ==
  /\ proc[d].state = "none" /\ pidfile' # d
  /\ \A c \in Controller : target[c] # d
  /\ proc' = [proc EXCEPT ![d] = [NoProcess EXCEPT !.state = s, !.parent = p]]

Spawn(c, d) ==
  /\ At(c, "spawn") /\ ret[c] = "ok"
  /\ pidfile' = None
  /\ NewProcess(d, "forked", c)
  /\ target' = [target EXCEPT ![c] = d]
  /\ Then(c, <<"await">>, "ok")
  /\ UNCHANGED <<config, listener, fw, lock, op, arg, prev, was, todo, bad, countVars,
                 forced, crashed, hostVars>>

SpawnFails(c) ==
  /\ At(c, "spawn")
  /\ \/ ret[c] = "fail" /\ NoFault /\ UNCHANGED pidfile
     \/ ret[c] = "ok" /\ Fault /\ pidfile' = None
  /\ Then(c, <<>>, "fail")
  /\ UNCHANGED <<config, proc, listener, fw, lock, localVars, crashes, units, opcount,
                 crashed, hostVars>>

\* poll() and read(): 'R' in time.
AwaitReady(c) ==
  /\ At(c, "await") /\ proc[target[c]].ready = "R"
  /\ Then(c, <<>>, "ok")
  /\ target' = [target EXCEPT ![c] = None]
  /\ UNCHANGED <<diskVars, proc, op, arg, prev, was, todo, bad, countVars, listener,
                 fw, lock, forced, crashed, hostVars>>

\* 'E', end of file or FP_START_TIMEOUT_MS: SIGTERM, then a waitpid that blocks.
AwaitFails(c) ==
  /\ At(c, "await")
  /\ Terminate(target[c])
  /\ Then(c, <<"reap">>, "fail")
  /\ forced' = TRUE
  /\ UNCHANGED <<diskVars, localVars, countVars, fw, lock, crashed, hostVars>>

Reap(c) ==
  /\ At(c, "reap")
  /\ Collect(c)
  /\ Then(c, <<>>, "fail")
  /\ target' = [target EXCEPT ![c] = None]
  /\ UNCHANGED <<diskVars, op, arg, prev, was, todo, bad, countVars, listener, fw,
                 lock, forced, crashed, hostVars>>

-----------------------------------------------------------------------------
(* The forwarder: main() with "run", and fp_proxy_run without its clients.   *)

\* execl fails when the binary has been removed.
Exec(d) ==
  /\ proc[d].state = "forked"
  /\ IF binary THEN proc' = [proc EXCEPT ![d].state = "init"] /\ UNCHANGED listener
               ELSE Dies(d)
  /\ UNCHANGED <<diskVars, fw, lock, calls, ret, localVars, countVars, forced, crashed,
                 hostVars>>

\* fp_config_load; without a configuration it exits with status 1 at once.
LoadConfig(d) ==
  /\ proc[d].state = "init"
  /\ IF config # None
     THEN /\ proc' = [proc EXCEPT ![d].state = "loaded", ![d].cfg = config]
          /\ UNCHANGED listener
     ELSE Dies(d)
  /\ UNCHANGED <<diskVars, fw, lock, calls, ret, localVars, countVars, forced,
                 crashed, hostVars>>

\* Handlers installed, bind and listen.
Bind(d) ==
  /\ proc[d].state = "loaded"
  /\ IF listener = None
     THEN /\ listener' = d
          /\ proc' = [proc EXCEPT ![d].state = "bound"]
     ELSE /\ UNCHANGED listener
          /\ proc' = [proc EXCEPT ![d].state = "cleanup", ![d].ready = "E"]
  /\ UNCHANGED <<diskVars, fw, lock, calls, ret, localVars, countVars, forced,
                 crashed, hostVars>>

\* fp_stats_create and fp_write_pid
WritePid(d) ==
  /\ proc[d].state = "bound"
  /\ proc' = [proc EXCEPT ![d].state = "recorded"]
  /\ pidfile' = d
  /\ UNCHANGED <<config, listener, fw, lock, calls, ret, localVars, countVars, forced,
                 crashed, hostVars>>

\* fp_firewall_enable, and the ready byte.
Install(d) ==
  /\ proc[d].state = "recorded"
  /\ proc' = [proc EXCEPT ![d].state = "run", ![d].ready = "R"]
  /\ fw' = proc[d].cfg
  /\ UNCHANGED <<diskVars, listener, lock, calls, ret, localVars, countVars, forced,
                 crashed, hostVars>>

\* One of them fails: everything is undone and fp_proxy_run returns -1.
StartFails(d) ==
  /\ proc[d].state \in {"bound", "recorded"}
  /\ Fault
  /\ proc' = [proc EXCEPT ![d].state = "cleanup", ![d].ready = "E"]
  /\ listener' = None
  /\ pidfile' = None
  /\ fw' = None
  /\ UNCHANGED <<config, lock, calls, ret, localVars, crashes, units, opcount,
                 crashed, hostVars>>

\* The loop of fp_proxy_run is left: close(listener) ...
LeaveLoop(d) ==
  /\ proc[d].state = "run"
  /\ proc' = [proc EXCEPT ![d].state = "closed"]
  /\ listener' = None

\* ... when stop_proxy has cleared keep_running ...
CloseListener(d) ==
  /\ proc[d].term
  /\ LeaveLoop(d)
  /\ UNCHANGED <<diskVars, fw, lock, calls, ret, localVars, countVars, forced,
                 crashed, hostVars>>

\* ... fp_remove_pid, whatever it names by now ...
RemovePid(d) ==
  /\ proc[d].state = "closed"
  /\ proc' = [proc EXCEPT ![d].state = "cleanup"]
  /\ pidfile' = None
  /\ UNCHANGED <<config, listener, fw, lock, calls, ret, localVars, countVars, forced,
                 crashed, hostVars>>

\* ... and main() calls fp_firewall_disable, whatever fp_proxy_run returned.
Exit(d) ==
  /\ proc[d].state = "cleanup"
  /\ Dies(d)
  /\ \/ fw' = None /\ NoFault
     \/ fw' = fw /\ Fault
  /\ UNCHANGED <<diskVars, lock, calls, ret, localVars, crashes, units, opcount,
                 crashed, hostVars>>

\* The forwarder is killed or faults, or poll or accept fails and it leaves its loop.
Crash(d) ==
  /\ crashes < MaxCrashes
  /\ \/ Alive(d) /\ Dies(d)
     \/ LeaveLoop(d)
  /\ crashes' = crashes + 1
  /\ forced' = TRUE /\ crashed' = TRUE
  /\ UNCHANGED <<diskVars, fw, lock, calls, ret, localVars, faults, units, opcount,
                 hostVars>>

\* systemd starts the unit: at boot, on request, or RestartSec after a failure.
UnitStart(d) ==
  /\ units < MaxUnitStarts /\ unit /\ binary
  /\ \A e \in Daemon : Alive(e) => proc[e].parent # Systemd
  /\ UNCHANGED diskVars
  /\ NewProcess(d, "init", Systemd)
  /\ units' = units + 1
  /\ UNCHANGED <<listener, fw, lock, calls, ret, localVars, faults, crashes, opcount,
                 forced, crashed, hostVars>>

\* systemctl stop sends SIGTERM to the unit's forwarder.
UnitStop(d) ==
  /\ Alive(d) /\ proc[d].parent = Systemd /\ ~proc[d].term
  /\ Terminate(d)
  /\ crashed' = TRUE
  /\ UNCHANGED <<diskVars, fw, lock, calls, ret, localVars, countVars, forced,
                 hostVars>>

-----------------------------------------------------------------------------
Init ==
  /\ config = None /\ pidfile = None /\ listener = None /\ fw = None /\ lock = {}
  /\ lockfile = 1 /\ opened = [c \in Controller |-> 0] /\ unit = TRUE /\ binary = TRUE
  /\ proc = [d \in Daemon |-> NoProcess]
  /\ calls = [c \in Controller |-> <<>>]
  /\ ret = [c \in Controller |-> "ok"]
  /\ op = [c \in Controller |-> "none"]
  /\ arg = [c \in Controller |-> None]
  /\ prev = [c \in Controller |-> None]
  /\ was = [c \in Controller |-> FALSE]
  /\ target = [c \in Controller |-> None]
  /\ todo = [c \in Controller |-> {}]
  /\ bad = [c \in Controller |-> {}]
  /\ faults = 0 /\ crashes = 0 /\ units = 0 /\ opcount = 0
  /\ forced = FALSE /\ crashed = FALSE

ControllerStep(c) ==
  \/ OpenLock(c) \/ Acquire(c) \/ Release(c)
  \/ LoadEnable(c) \/ RejectProxy(c) \/ LoadSaved(c)
  \/ Activate(c) \/ Replace(c) \/ Started(c) \/ AfterEnable(c) \/ ReportFailure(c)
  \/ LoadBypass(c) \/ FirewallBypass(c) \/ FirewallRestore(c) \/ FirewallOff(c)
  \/ UnitStopBegin(c) \/ UnitStopDone(c) \/ UnitRemove(c) \/ UninstallFirewall(c)
  \/ UninstallRetry(c) \/ RemoveFiles(c) \/ RemoveLock(c) \/ RemoveBinary(c)
  \/ StopDaemon(c) \/ SendTerm(c) \/ WaitGone(c) \/ WaitTimeout(c) \/ KillGone(c)
  \/ Sweep(c) \/ (\E d \in Daemon : ScanEntry(c, d)) \/ ScanDone(c)
  \/ (\E s \in {"port", "port_again"} : PortReleased(c, s) \/ PortBusy(c, s))
  \/ StartDaemon(c) \/ (\E d \in Daemon : Spawn(c, d)) \/ SpawnFails(c)
  \/ AwaitReady(c) \/ AwaitFails(c) \/ Reap(c)

DaemonStep(d) ==
  \/ Exec(d) \/ LoadConfig(d) \/ Bind(d) \/ WritePid(d) \/ Install(d) \/ StartFails(d)
  \/ CloseListener(d) \/ RemovePid(d) \/ Exit(d)

Next ==
  \/ \E c \in Controller :
       \/ \E o \in Ops : Begin(c, o)
       \/ ControllerStep(c)
       \/ Quit(c)
  \/ \E d \in Daemon : DaemonStep(d) \/ Crash(d) \/ UnitStart(d) \/ UnitStop(d)

Spec == Init /\ [][Next]_vars

\* The kernel schedules every process, poll and nanosleep return, and flock is
\* granted in the end: strong fairness for Acquire.
Fairness ==
  /\ \A c \in Controller : SF_vars(Acquire(c)) /\ WF_vars(ControllerStep(c))
  /\ \A d \in Daemon : WF_vars(DaemonStep(d))

FairSpec == Spec /\ Fairness

-----------------------------------------------------------------------------
(* Properties.                                                               *)

Statements ==
  {"lock", "unlock", "load_enable", "load_saved", "load_bypass", "activate", "replace",
   "started", "after_enable", "report_failure", "fw_bypass", "fw_restore", "fw_off",
   "stop", "term", "wait", "killed", "sweep", "scan", "port", "port_again", "start",
   "spawn", "await", "reap", "flock", "unit_stop", "unit_wait", "unit_remove",
   "uninstall_fw", "uninstall_retry", "remove_files", "remove_lock",
   "remove_binary"}

\* Every variable keeps its type, and no forwarder runs without a configuration.
TypeOK ==
  /\ config \in Config \cup {None} /\ fw \in Config \cup {None}
  /\ pidfile \in Daemon \cup {None} /\ listener \in Daemon \cup {None}
  /\ lock \subseteq Controller /\ lockfile \in 1 .. MaxOps + 1
  /\ opened \in [Controller -> 0 .. lockfile]
  /\ unit \in BOOLEAN /\ binary \in BOOLEAN
  /\ proc \in [Daemon -> [state : Execed \cup {"none", "forked", "zombie"},
                         cfg : Config \cup {None}, term : BOOLEAN,
                         parent : Controller \cup {Systemd, InitProcess, None},
                         ready : {"none", "R", "E"}]]
  /\ \A d \in Daemon : proc[d].state \in Execed \ {"init"} => proc[d].cfg # None
  /\ calls \in [Controller -> Seq(Statements)]
  /\ ret \in [Controller -> {"ok", "fail"}]
  /\ op \in [Controller -> Ops \cup {"none"}]
  /\ arg \in [Controller -> Config \cup {None}]
  /\ prev \in [Controller -> Config \cup {None}]
  /\ was \in [Controller -> BOOLEAN]
  /\ target \in [Controller -> Daemon \cup {None}]
  /\ todo \in [Controller -> SUBSET Daemon]
  /\ bad \in [Controller -> SUBSET {"service", "stop", "firewall"}]
  /\ faults \in 0 .. MaxFaults /\ crashes \in 0 .. MaxCrashes
  /\ units \in 0 .. MaxUnitStarts /\ opcount \in 0 .. MaxOps
  /\ forced \in BOOLEAN /\ crashed \in BOOLEAN

\* Controller c is about to give up the lock, and to report value for operation o.
Reports(c, o, value) == At(c, "unlock") /\ op[c] = o /\ ret[c] = value

\* fp_uninstall has not unlinked the lock file: from then on an operation that waits
\* for the old file and one that creates the new one run together.
LockIntact == lockfile = 1

\* README: success is reported after the forwarder has bound its listener and
\* installed complete rules (unless it crashed or was stopped meanwhile).
ReadyBeforeSuccess ==
  \A c \in Controller :
    (Reports(c, "enable", "ok") \/ Reports(c, "saved", "ok")) /\ ~crashed /\ LockIntact =>
      \E d \in Daemon : /\ proc[d].state = "run" /\ listener = d
                        /\ proc[d].cfg.proxy = arg[c].proxy /\ IsEnabled(arg[c])

\* fp_disable_proxy and fp_uninstall return 0 only when no forwarder is left, the port
\* and the pid file are gone and nothing is redirected, also after crashes and stale
\* files and when a part of them failed at first.
DisabledMeansStopped ==
  \A c \in Controller :
    (Reports(c, "disable", "ok") \/ Reports(c, "uninstall", "ok")) /\ LockIntact =>
      /\ \A d \in Daemon : ~Alive(d)
      /\ listener = None /\ pidfile = None /\ fw = None

\* README: uninstall stops the forwarder and removes the rules, the configuration and
\* the unit.  When fp_uninstall returns 0, no forwarder, listener, pid file or
\* configuration is left, though systemd may have started the unit at any moment before
\* it forgot it.  Rules are left only if systemd did start it and something failed,
\* crashed or was killed: the second fp_stop_daemon comes after fp_firewall_disable, and
\* a forwarder that it has to kill takes no rules away.
UninstallRemoves ==
  \A c \in Controller : Reports(c, "uninstall", "ok") /\ ~unit /\ LockIntact =>
    /\ \A d \in Daemon : ~Alive(d)
    /\ listener = None /\ pidfile = None /\ config = None
    /\ fw = None \/ (forced /\ units > 0)

\* Between operations a forwarder that serves uses the saved configuration, and the
\* rules are the ones of that configuration: neither a switch whose forwarder dies
\* nor its rollback leaves a mixture, as long as files, fork and iptables work.
ServesSavedConfig ==
  (lock = {} /\ faults = 0 /\ LockIntact) =>
    \A d \in Daemon : proc[d].state = "run" /\ ~proc[d].term =>
      config # None /\ proc[d].cfg.proxy = config.proxy /\ fw = config

\* Rules without a forwarder behind them refuse every connection.  While systemd has
\* started none and nothing has crashed or failed, no operation leaves any: not when the
\* forwarder does not stop in time and is killed, at whatever moment of its exit, not
\* when it is a zombie that nobody collects and the operation fails, not when a start
\* times out and is rolled back.  The exception is set_bypass with a stale pid file,
\* which a disable that failed leaves: it does not look whether the process is alive.
NoStrandedRules ==
  (lock = {} /\ fw # None /\ faults = 0 /\ crashes = 0 /\ units = 0 /\ LockIntact) =>
    \/ \E d \in Daemon : Alive(d)
    \/ "bypass" \in Ops /\ pidfile # None

\* README: "The proxy remains enabled after the controller exits."  While no
\* operation runs, nothing takes the rules away from a forwarder that serves.
RemainsEnabled ==
  [][/\ lock = {} /\ ~forced /\ fw # None
     /\ \E d \in Daemon : proc[d].state = "run" /\ ~proc[d].term
     => fw' # None]_vars

\* Every operation returns and releases the lock.
OperationsEnd == \A c \in Controller : calls[c] # <<>> ~> calls[c] = <<>>

=============================================================================
