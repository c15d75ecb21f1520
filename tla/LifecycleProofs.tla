--------------------------- MODULE LifecycleProofs ---------------------------
(***************************************************************************)
(* What the operations leave behind, for any number of controllers,        *)
(* forwarders, configurations, faults and crashes.                         *)
(*                                                                         *)
(* The invariant follows the holder of the lock.  Its stack of calls is a  *)
(* chain of statements that can follow one another, so that the statement  *)
(* it is about to run says how far it is: which forwarders can be alive,   *)
(* what the pid file names, which configuration the rules are for.  The    *)
(* forwarders change nothing but what is theirs, and the controllers that  *)
(* wait for the lock change nothing.                                       *)
(***************************************************************************)
EXTENDS Lifecycle, FiniteSetTheorems, TLAPS

\* Statements before flock has been granted, and after the release of the lock.
Outside == {"lock", "flock", "remove_lock", "remove_binary"}
\* fp_stop_daemon, and activate_proxy_locked with fp_start_daemon.
Stopping == {"stop", "term", "wait", "killed", "sweep", "scan", "port", "port_again"}
Starting == {"activate", "replace", "start", "spawn", "await", "reap", "started"}

\* Statements that come before any rollback or retry.
Fresh ==
  {"lock", "flock", "load_enable", "load_saved", "unit_stop", "unit_wait", "unit_remove"}

\* The statements an operation is made of.
Of(o) ==
  {"lock", "flock", "unlock"} \cup
  (CASE o = "enable"    -> Stopping \cup Starting \cup
                           {"load_enable", "after_enable", "report_failure"}
     [] o = "saved"     -> Stopping \cup Starting \cup {"load_saved"}
     [] o = "bypass"    -> {"load_bypass", "fw_bypass", "fw_restore"}
     [] o = "disable"   -> Stopping \cup {"fw_off"}
     [] o = "uninstall" -> Stopping \cup
                           {"unit_stop", "unit_wait", "unit_remove", "uninstall_fw",
                            "uninstall_retry", "remove_files", "remove_lock", "remove_binary"}
     [] OTHER           -> {})

\* What can be the next statement of a stack.
Stopped == {"replace", "spawn", "fw_off", "uninstall_fw", "uninstall_retry"}
Activated == {"after_enable", "unlock", "report_failure"}
After(s) ==
  CASE s \in {"lock", "flock"} -> {"load_enable", "load_saved", "load_bypass", "stop", "unit_stop"}
    [] s \in {"load_enable", "load_saved"} -> {"activate"}
    [] s \in {"activate", "replace", "started"} -> Activated
    [] s \in {"load_bypass", "after_enable", "report_failure", "fw_bypass", "fw_restore",
              "fw_off", "remove_files"} -> {"unlock"}
    [] s \in {"stop", "port", "port_again"} -> Stopped
    [] s \in {"term", "wait", "killed"} -> {"sweep", "scan"}
    [] s = "sweep" -> {"scan"}
    [] s = "scan" -> {"port", "port_again", "spawn"}
    [] s \in {"start", "spawn", "await", "reap"} -> {"started"}
    [] s \in {"unit_stop", "unit_wait"} -> {"unit_remove"}
    [] s = "unit_remove" -> {"stop"}
    [] s = "uninstall_fw" -> {"uninstall_retry"}
    [] s = "uninstall_retry" -> {"remove_files"}
    [] s = "unlock" -> {"remove_lock"}
    [] s = "remove_lock" -> {"remove_binary"}
    [] OTHER -> {}
Last == {"unlock", "remove_binary"}

Chain(s) ==
  /\ \A k \in 1 .. Len(s) - 1 : s[k + 1] \in After(s[k])
  /\ s # <<>> => s[Len(s)] \in Last
Within(s, S) == \A k \in 1 .. Len(s) : s[k] \in S
\* Statement x is still to come; x comes when a stop_daemon has ended.
Has(s, x) == \E k \in 1 .. Len(s) : s[k] = x
Resuming == {"stop", "port", "port_again"}
Resumes(s, x) == \E k \in 1 .. Len(s) - 1 : s[k] \in Resuming /\ s[k + 1] = x

\* The statement a controller is about to run; whether it is putting the previous
\* configuration back, and whether fp_uninstall stops the forwarder once more.
Now(c) == IF calls[c] = <<>> THEN "idle" ELSE Head(calls[c])
Rolling(c) == Has(calls[c], "report_failure")
Retrying(c) == Resumes(calls[c], "uninstall_retry")

-----------------------------------------------------------------------------
(* The invariant.                                                            *)

Stacks ==
  \A c \in Controller :
    /\ Chain(calls[c]) /\ Within(calls[c], Of(op[c]))
    /\ calls[c] # <<>> => op[c] \in Ops
    /\ Now(c) \in {"term", "wait", "killed", "await", "reap", "unit_wait"} => target[c] \in Daemon
    /\ Now(c) \in Fresh => ~Rolling(c) /\ ~Retrying(c)

\* Each of the lock files made so far is held by one controller at most, and each of
\* them but the first was made for an operation that has unlinked its predecessor.
Unlinking == {c \in Controller : op[c] = "uninstall" /\ Now(c) \notin {"idle", "remove_binary"}}
Locked ==
  /\ \A c \in Controller :
       /\ c \in lock <=> Now(c) \notin Outside \cup {"idle"}
       /\ c \in lock \/ Now(c) = "flock" => opened[c] # 0
  /\ \A b, c \in lock : opened[b] = opened[c] => b = c
  /\ IsFiniteSet(Unlinking) /\ lockfile + Cardinality(Unlinking) <= opcount + 1

\* The forwarders: one owns the port while it needs it, one that has been forked has
\* its controller waiting, and the ready byte says that it serves.
Forwarders ==
  \A d \in Daemon :
    /\ proc[d].state \in {"bound", "recorded", "run"} <=> listener = d
    /\ proc[d].state = "forked" => \E c \in lock : Now(c) = "await" /\ target[c] = d
    /\ proc[d].ready = "R" => proc[d].state \in {"run", "closed", "cleanup", "zombie"}
    /\ proc[d].state = "none" => proc[d] = NoProcess
    /\ proc[d].state = "zombie" => proc[d].parent \in Controller

NoneAlive == \A d \in Daemon : ~Alive(d)

\* Rules belong to a forwarder that will take them away.
Rules ==
  fw # None /\ ~forced =>
    \/ \E d \in Daemon : proc[d].state \in {"run", "closed", "cleanup"}
    \/ "bypass" \in Ops

\* fp_stop_daemon, when systemd starts no forwarder meanwhile: one that the scan has
\* passed is dead.
Calm == LockIntact /\ (units = 0 \/ ~unit)
Scans(c) ==
  /\ Now(c) = "killed" => ~Alive(target[c]) /\ forced
  /\ Now(c) \in {"term", "wait", "killed"} /\ calls[c][2] = "scan" =>
       \A d \in Daemon \ todo[c] : Alive(d) => d = target[c]
  /\ Now(c) = "scan" /\ ret[c] = "ok" => \A d \in Daemon \ todo[c] : ~Alive(d)
  /\ Now(c) \in {"port", "port_again", "fw_off", "uninstall_fw", "uninstall_retry", "spawn"}
       /\ ret[c] = "ok" => NoneAlive
  /\ Now(c) = "fw_off" /\ ret[c] = "ok" => pidfile = None
Scanned == Calm => \A c \in lock : Scans(c)

\* fp_uninstall, once systemd has forgotten the unit.
Uninstalls(c) ==
  op[c] = "uninstall" =>
    /\ Now(c) \in {"sweep", "scan", "port", "port_again", "uninstall_fw"} /\ ret[c] = "fail" =>
         forced
    /\ Retrying(c) => forced
    /\ Now(c) \in {"uninstall_retry", "remove_files"} => forced \/ (fw = None /\ NoneAlive)
    /\ Now(c) = "remove_files" /\ "stop" \notin bad[c] => NoneAlive
    /\ Now(c) = "unlock" /\ ret[c] = "ok" =>
         NoneAlive /\ pidfile = None /\ config = None /\ (fw = None \/ forced)
Uninstalled == Calm => \A c \in lock : Uninstalls(c)

-----------------------------------------------------------------------------
(* The forwarders of controllers only: systemd never starts the unit.        *)

Serves(d) == proc[d].state = "run" /\ ~proc[d].term
Alone == LockIntact /\ units = 0

\* Who started a forwarder, and why one closes its listener after it was ready; when its
\* controller knows, and when the pid file does not name it; what fp_enable_proxy and
\* fp_enable_saved_proxy begin with.
Parents ==
  units = 0 => \A d \in Daemon : proc[d].state # "none" => proc[d].parent # Systemd
Signalled ==
  \A d \in Daemon :
    proc[d].state = "closed" \/ (proc[d].state = "cleanup" /\ proc[d].ready = "R") =>
      proc[d].term \/ (forced /\ crashes > 0)
Leaving ==
  \A d \in Daemon :
    /\ proc[d].state = "closed" /\ lock # {} => proc[d].term \/ crashed
    /\ proc[d].state \in {"forked", "init", "loaded", "bound", "cleanup"} => pidfile # d
Opening ==
  \A c \in Controller :
    Now(c) \in {"lock", "flock"} /\ op[c] \in {"enable", "saved"} =>
      calls[c][2] \in {"load_enable", "load_saved"}

\* There is one forwarder at most: it serves or leaves by itself, or the holder of the
\* lock waits for it.
Detached(d) ==
  proc[d].state \in {"run", "closed", "cleanup"} /\ proc[d].ready = "R" /\ ~proc[d].term
NoneServes == \A d \in Daemon : proc[d].state # "run"
Single ==
  /\ \A d, e \in Daemon : Alive(d) /\ Alive(e) => d = e
  /\ \A d \in Daemon :
       Alive(d) => \/ Detached(d)
                   \/ \E c \in lock : Now(c) \in {"await", "wait", "reap"} /\ target[c] = d
  /\ \A d \in Daemon : proc[d].state \in {"recorded", "run"} => pidfile = d

\* What the holder of the lock knows of it.
Knows(c) ==
  /\ Now(c) \in {"term", "wait", "killed", "await", "reap"} =>
       \A d \in Daemon : Alive(d) => d = target[c]
  /\ Now(c) = "await" => ~proc[target[c]].term
  /\ Now(c) \in {"sweep", "scan"} /\ ret[c] = "fail" => NoneAlive
  /\ Now(c) \in {"port", "port_again", "fw_off", "uninstall_fw", "uninstall_retry",
                 "remove_files", "spawn"} => NoneAlive
  /\ Retrying(c) => NoneAlive
  /\ Now(c) \in {"replace", "start"} => NoneServes /\ (ret[c] = "ok" => pidfile = None)
  /\ Now(c) \in {"started", "after_enable"} /\ ret[c] = "fail" => NoneServes
  /\ Now(c) = "activate" /\ Rolling(c) => NoneServes
  /\ Now(c) = "unlock" /\ op[c] \in {"disable", "uninstall"} =>
       NoneAlive /\ (ret[c] = "ok" => pidfile = None /\ fw = None)
  /\ /\ op[c] = "uninstall" /\ "firewall" \notin bad[c]
     /\ Retrying(c) \/ Now(c) \in {"uninstall_retry", "remove_files"}
     => fw = None
Known == Alone => Single /\ \A c \in lock : Knows(c)

\* The forwarder that is being started, and the one that has been.
Ready(c) ==
  \E d \in Daemon : /\ proc[d].state = "run" /\ listener = d
                    /\ proc[d].cfg.proxy = arg[c].proxy /\ IsEnabled(arg[c])
Enabling(c) == op[c] \in {"enable", "saved"} /\ ~Rolling(c)
Readies(c) ==
  /\ Now(c) = "start" => ret[c] = "ok"
  /\ Now(c) = "await" =>
       /\ proc[target[c]].ready = "R" => proc[target[c]].state = "run" \/ crashed
       /\ proc[target[c]].state \in Execed \ {"init", "cleanup"} =>
            proc[target[c]].cfg = config
       /\ proc[target[c]].state = "run" => fw = proc[target[c]].cfg
  /\ Enabling(c) /\ Now(c) \notin {"load_enable", "load_saved", "unlock"} =>
       config = arg[c] /\ arg[c] # None
  /\ /\ Enabling(c) /\ Now(c) \in {"started", "after_enable", "unlock"}
     /\ ret[c] = "ok" /\ ~crashed
     => Ready(c)
Begun == Alone => \A c \in lock : Readies(c)

\* A forwarder that serves has the configuration cfg, and so have the rules.
Settled(cfg) ==
  \A d \in Daemon : Serves(d) => cfg # None /\ proc[d].cfg.proxy = cfg.proxy /\ fw = cfg
Saves(c) ==
  /\ Now(c) \in {"load_enable", "load_saved", "load_bypass", "started", "after_enable",
                 "report_failure", "unlock"} => Settled(config)
  /\ Now(c) = "activate" /\ op[c] = "saved" => Settled(config)
  /\ Now(c) = "activate" /\ op[c] = "enable" /\ Enabling(c) =>
       Settled(prev[c]) /\ (prev[c] # None => arg[c].bypass = prev[c].bypass)
  /\ Now(c) = "fw_bypass" =>
       /\ Settled(prev[c]) /\ prev[c] # None /\ arg[c] # None
       /\ config = arg[c] /\ arg[c].proxy = prev[c].proxy
  /\ Now(c) # "fw_restore"
Saved ==
  Alone /\ faults = 0 => (lock = {} => Settled(config)) /\ \A c \in lock : Saves(c)

\* Without a failure, a crash or a kill the pid file names a forwarder that is there, and
\* rules belong to one that will take them away.
Named ==
  Alone /\ ~forced =>
    /\ pidfile # None => proc[pidfile].state \in {"recorded", "run", "closed"}
    /\ \A c \in lock : Now(c) = "fw_bypass" => \E d \in Daemon : Serves(d)
    /\ \A c \in lock : Now(c) # "fw_restore"
    /\ fw # None => \E d \in Daemon : proc[d].state \in {"run", "closed", "cleanup"}

\* What fp_enable_proxy comes back to, and what fp_uninstall has not failed in.
Ending ==
  \A c \in Controller :
    op[c] = "enable" /\ Now(c) \in {"lock", "flock", "load_enable"} \cup Stopping \cup Starting =>
      Has(calls[c], "after_enable") \/ Rolling(c)
Unfailed == faults = 0 => \A c \in Controller : "firewall" \notin bad[c]

\* Timeouts and kills, but no failure and no crash: a forwarder stands behind the rules, or
\* they wait for the rollback of fp_enable_proxy, which finds nobody to stop.
Unharmed == Alone /\ faults = 0 /\ crashes = 0
Standing ==
  fw # None => (\E d \in Daemon : Serves(d)) \/ ("bypass" \in Ops /\ pidfile # None)
Restores(c) == prev[c] # None /\ was[c]
Stands(c) ==
  /\ Now(c) \in {"load_enable", "load_saved", "load_bypass", "report_failure", "unlock"} =>
       Standing
  /\ Now(c) \in {"started", "after_enable"} /\ ret[c] = "ok" => Standing
  /\ Now(c) = "after_enable" /\ ret[c] = "fail" => fw = None \/ Restores(c)
  /\ Now(c) = "activate" /\ op[c] = "enable" /\ ~Rolling(c) => NoneServes \/ Restores(c)
  /\ Now(c) \in Stopping \cup {"replace"} /\ op[c] \in {"enable", "saved"} =>
       \/ op[c] = "enable" /\ ~Rolling(c) /\ Restores(c)
       \/ /\ NoneAlive /\ Now(c) \notin {"term", "wait", "killed"}
          /\ Now(c) # "stop" => ret[c] = "ok"
  /\ Now(c) = "fw_bypass" => pidfile # None
  /\ Now(c) = "await" /\ proc[target[c]].ready = "R" => proc[target[c]].state = "run"
Stood == Unharmed => (lock = {} => Standing) /\ \A c \in lock : Stands(c)

\* The inductive invariant.
LifeInv ==
  /\ TypeOK /\ Stacks /\ Locked /\ Forwarders /\ Rules /\ Scanned /\ Uninstalled
  /\ Parents /\ Signalled /\ Leaving /\ Opening /\ Known /\ Begun /\ Saved /\ Named
  /\ Ending /\ Unfailed /\ Stood


-----------------------------------------------------------------------------
(* Stacks of calls.                                                          *)

\* What is left of a stack when its head has returned.
LEMMA TailOf ==
  ASSUME NEW S, NEW s \in Seq(S), s # <<>>
  PROVE  /\ Tail(s) \in Seq(S) /\ Len(s) \in Nat \ {0} /\ Len(Tail(s)) = Len(s) - 1
         /\ Head(s) = s[1] /\ s[1] \in S
         /\ \A k \in 1 .. Len(s) - 1 : Tail(s)[k] = s[k + 1]
         /\ Tail(s) = <<>> <=> Len(s) = 1
<1>1. /\ Tail(s) \in Seq(S) /\ Len(s) \in Nat \ {0} /\ Len(Tail(s)) = Len(s) - 1
      /\ Head(s) = s[1] /\ s[1] \in S
      /\ \A k \in 1 .. Len(s) - 1 : Tail(s)[k] = s[k + 1]
  OBVIOUS
<1>2. ASSUME NEW t \in Seq(S) PROVE t = <<>> <=> Len(t) = 0
  OBVIOUS
<1>3. Tail(s) = <<>> <=> Len(Tail(s)) = 0
  BY <1>1, <1>2, Zenon
<1>4. ASSUME NEW m \in Nat PROVE m - 1 = 0 <=> m = 1
  BY <1>4
<1>5. Len(Tail(s)) = 0 <=> Len(s) = 1
  BY <1>1, <1>4
<1> QED
  BY <1>1, <1>3, <1>5, Zenon

\* What is on a stack when calls have been put onto it.
LEMMA ConcatOf ==
  ASSUME NEW S, NEW s \in Seq(S), NEW t \in Seq(S)
  PROVE  /\ s \o t \in Seq(S) /\ Len(s \o t) = Len(s) + Len(t)
         /\ \A k \in 1 .. Len(s) : (s \o t)[k] = s[k]
         /\ \A k \in 1 .. Len(t) : (s \o t)[Len(s) + k] = t[k]
         /\ s = <<>> => s \o t = t
OBVIOUS

\* A statement that returns leaves a chain, which goes on with one that can follow it.
LEMMA ChainTail ==
  ASSUME NEW S, NEW s \in Seq(S), s # <<>>, Chain(s)
  PROVE  /\ Chain(Tail(s))
         /\ s[1] \notin Last => Tail(s) # <<>> /\ Head(Tail(s)) = s[2] /\ s[2] \in After(s[1])
         /\ Tail(s) # <<>> => Head(Tail(s)) = s[2] /\ s[2] \in After(s[1])
         /\ \A T : Within(s, T) => s[1] \in T /\ Within(Tail(s), T)
         /\ \A x : Has(s, x) <=> s[1] = x \/ Has(Tail(s), x)
         /\ \A x : Resumes(s, x) <=> \/ s[1] \in Resuming /\ Tail(s) # <<>> /\ s[2] = x
                                     \/ Resumes(Tail(s), x)
<1> DEFINE t == Tail(s)
           n == Len(s)
<1>1. /\ t \in Seq(S) /\ n \in Nat \ {0} /\ Len(t) = n - 1 /\ Head(s) = s[1]
      /\ \A k \in 1 .. n - 1 : t[k] = s[k + 1]
      /\ t = <<>> <=> n = 1
  BY TailOf
<1>2. t # <<>> => Head(t) = t[1] /\ 1 \in 1 .. n - 1
  BY <1>1, TailOf
<1> HIDE DEF t
<1>3. /\ \A k \in 1 .. n - 1 : s[k + 1] \in After(s[k])
      /\ s[n] \in Last
  BY DEF Chain
<1>4. Chain(t)
  <2>1. ASSUME NEW k \in 1 .. Len(t) - 1 PROVE t[k + 1] \in After(t[k])
    <3>1. k \in 1 .. n - 1 /\ k + 1 \in 1 .. n - 1
      BY <1>1, <2>1
    <3> QED
      BY <1>1, <1>3, <3>1
  <2>2. ASSUME t # <<>> PROVE t[Len(t)] \in Last
    <3>1. n - 1 \in 1 .. n - 1 /\ (n - 1) + 1 = n
      BY <1>1, <2>2
    <3> QED
      BY <1>1, <1>3, <3>1
  <2> QED
    BY <2>1, <2>2 DEF Chain
<1>5. t # <<>> => Head(t) = s[2] /\ s[2] \in After(s[1])
  BY <1>1, <1>2, <1>3
<1>6. s[1] \notin Last => t # <<>>
  BY <1>1, <1>3
<1>7. ASSUME NEW T, Within(s, T) PROVE s[1] \in T /\ Within(t, T)
  BY <1>1, <1>7 DEF Within
<1>8. ASSUME NEW x PROVE Has(s, x) <=> s[1] = x \/ Has(t, x)
  <2>1. ASSUME NEW k \in 1 .. n, s[k] = x PROVE s[1] = x \/ Has(t, x)
    <3>1. k = 1 \/ (k - 1 \in 1 .. n - 1 /\ (k - 1) + 1 = k)
      BY <1>1
    <3> QED
      BY <1>1, <2>1, <3>1 DEF Has
  <2>2. ASSUME NEW k \in 1 .. Len(t), t[k] = x PROVE Has(s, x)
    <3>1. k + 1 \in 1 .. n /\ s[k + 1] = x
      BY <1>1, <2>2
    <3> QED
      BY <3>1 DEF Has
  <2>3. 1 \in 1 .. n
    BY <1>1
  <2> QED
    BY <2>1, <2>2, <2>3 DEF Has
<1>9. ASSUME NEW x
      PROVE  Resumes(s, x) <=> (s[1] \in Resuming /\ t # <<>> /\ s[2] = x) \/ Resumes(t, x)
  <2>1. ASSUME NEW k \in 1 .. n - 1, s[k] \in Resuming, s[k + 1] = x
        PROVE  (s[1] \in Resuming /\ t # <<>> /\ s[2] = x) \/ Resumes(t, x)
    <3>1. CASE k = 1
      BY <1>1, <2>1, <3>1
    <3>2. CASE k # 1
      <4>1. k - 1 \in 1 .. Len(t) - 1 /\ t[k - 1] = s[k] /\ t[(k - 1) + 1] = s[k + 1]
        BY <1>1, <3>2
      <4> QED
        BY <2>1, <4>1 DEF Resumes
    <3> QED
      BY <3>1, <3>2
  <2>2. ASSUME NEW k \in 1 .. Len(t) - 1, t[k] \in Resuming, t[k + 1] = x PROVE Resumes(s, x)
    <3>1. k + 1 \in 1 .. n - 1 /\ s[k + 1] \in Resuming /\ s[(k + 1) + 1] = x
      BY <1>1, <2>2
    <3> QED
      BY <3>1 DEF Resumes
  <2>3. t # <<>> => 1 \in 1 .. n - 1
    BY <1>1
  <2> QED
    BY <2>1, <2>2, <2>3 DEF Resumes
<1> QED
  BY <1>4, <1>5, <1>6, <1>7, <1>8, <1>9 DEF t

\* Calls that can follow one another, put onto a chain that can follow the last of them.
LEMMA ChainConcat ==
  ASSUME NEW S, NEW u \in Seq(S), NEW t \in Seq(S), Chain(t), u # <<>>, t # <<>>,
         \A k \in 1 .. Len(u) - 1 : u[k + 1] \in After(u[k]), Head(t) \in After(u[Len(u)])
  PROVE  /\ Chain(u \o t) /\ u \o t # <<>> /\ Head(u \o t) = u[1]
         /\ (u \o t)[2] = IF Len(u) = 1 THEN Head(t) ELSE u[2]
         /\ \A T : Within(u \o t, T) <=> Within(u, T) /\ Within(t, T)
         /\ \A x : Has(u \o t, x) <=> Has(u, x) \/ Has(t, x)
         /\ \A x : Resumes(u \o t, x) <=> \/ Resumes(u, x) \/ Resumes(t, x)
                                          \/ u[Len(u)] \in Resuming /\ Head(t) = x
<1> DEFINE s == u \o t
           m == Len(u)
           n == Len(t)
<1>1. /\ s \in Seq(S) /\ Len(s) = m + n /\ m \in Nat \ {0} /\ n \in Nat \ {0}
      /\ \A k \in 1 .. m : s[k] = u[k]
      /\ \A k \in 1 .. n : s[m + k] = t[k]
  BY ConcatOf, TailOf
<1>2. Head(t) = t[1] /\ \A k \in 1 .. n - 1 : t[k + 1] \in After(t[k])
  BY TailOf DEF Chain
<1>3. t[n] \in Last
  BY DEF Chain
<1> HIDE DEF s
<1>4. \A k \in 1 .. m + n : k \in 1 .. m \/ (k - m \in 1 .. n /\ m + (k - m) = k)
  BY <1>1
<1>5. s # <<>> /\ Head(s) = u[1]
  <2>1. s # <<>>
    BY <1>1
  <2>2. Head(s) = s[1] /\ 1 \in 1 .. m
    BY <1>1, <2>1, TailOf
  <2> QED
    BY <1>1, <2>1, <2>2
<1>6. \A k \in 1 .. m + n - 1 : \/ k \in 1 .. m - 1 /\ k + 1 \in 1 .. m
                                \/ k = m
                                \/ /\ k - m \in 1 .. n - 1 /\ m + (k - m) = k
                                   /\ (k - m) + 1 \in 1 .. n /\ m + ((k - m) + 1) = k + 1
  BY <1>1
<1>7. ASSUME NEW k \in 1 .. m + n - 1
      PROVE  \/ k \in 1 .. m - 1 /\ s[k] = u[k] /\ s[k + 1] = u[k + 1]
             \/ k = m /\ s[k] = u[m] /\ s[k + 1] = t[1]
             \/ k - m \in 1 .. n - 1 /\ s[k] = t[k - m] /\ s[k + 1] = t[(k - m) + 1]
  <2>1. CASE k \in 1 .. m - 1 /\ k + 1 \in 1 .. m
    BY <1>1, <2>1
  <2>2. CASE k = m
    <3>1. m \in 1 .. m /\ 1 \in 1 .. n
      BY <1>1
    <3> QED
      BY <1>1, <2>2, <3>1
  <2>3. CASE /\ k - m \in 1 .. n - 1 /\ m + (k - m) = k
             /\ (k - m) + 1 \in 1 .. n /\ m + ((k - m) + 1) = k + 1
    <3>1. k - m \in 1 .. n
      BY <1>1, <2>3
    <3> QED
      BY <1>1, <2>3, <3>1
  <2> QED
    BY <1>6, <2>1, <2>2, <2>3
<1>8. Chain(s)
  <2>1. \A k \in 1 .. Len(s) - 1 : s[k + 1] \in After(s[k])
    BY SMTT(30), <1>1, <1>2, <1>7
  <2>2. s[Len(s)] \in Last
    <3>1. n \in 1 .. n
      BY <1>1
    <3> QED
      BY <1>1, <1>3, <3>1
  <2> QED
    BY <2>1, <2>2 DEF Chain
<1>9. s[2] = IF m = 1 THEN Head(t) ELSE u[2]
  <2>1. m = 1 => 1 \in 1 .. n /\ m + 1 = 2
    BY <1>1
  <2>2. m # 1 => 2 \in 1 .. m
    <3>1. m \in Nat /\ m # 0
      BY <1>1
    <3> HIDE DEF m
    <3> QED
      BY <3>1
  <2> QED
    BY <1>1, <1>2, <2>1, <2>2
<1>10. \A k \in 1 .. m + n : \/ k \in 1 .. m /\ s[k] = u[k]
                             \/ k - m \in 1 .. n /\ s[k] = t[k - m]
  BY <1>1, <1>4
<1>11. /\ \A k \in 1 .. m : k \in 1 .. m + n
       /\ \A k \in 1 .. n : m + k \in 1 .. m + n
  BY <1>1
<1>12. ASSUME NEW T PROVE Within(s, T) <=> Within(u, T) /\ Within(t, T)
  BY <1>1, <1>10, <1>11 DEF Within
<1>13. ASSUME NEW x PROVE Has(s, x) <=> Has(u, x) \/ Has(t, x)
  BY <1>1, <1>10, <1>11 DEF Has
<1>14. ASSUME NEW x
       PROVE  Resumes(s, x) <=> \/ Resumes(u, x) \/ Resumes(t, x)
                                \/ u[m] \in Resuming /\ Head(t) = x
  <2>1. ASSUME NEW k \in 1 .. m + n - 1, s[k] \in Resuming, s[k + 1] = x
        PROVE  Resumes(u, x) \/ Resumes(t, x) \/ (u[m] \in Resuming /\ Head(t) = x)
    <3>1. \/ k \in 1 .. m - 1 /\ s[k] = u[k] /\ s[k + 1] = u[k + 1]
          \/ k = m /\ s[k] = u[m] /\ s[k + 1] = t[1]
          \/ k - m \in 1 .. n - 1 /\ s[k] = t[k - m] /\ s[k + 1] = t[(k - m) + 1]
      BY <1>7
    <3> QED
      BY <1>2, <2>1, <3>1 DEF Resumes
  <2>2. ASSUME NEW k \in 1 .. m - 1, u[k] \in Resuming, u[k + 1] = x PROVE Resumes(s, x)
    <3>1. k \in 1 .. m + n - 1 /\ k \in 1 .. m /\ k + 1 \in 1 .. m
      BY <1>1
    <3> QED
      BY <1>1, <2>2, <3>1 DEF Resumes
  <2>3. ASSUME NEW k \in 1 .. n - 1, t[k] \in Resuming, t[k + 1] = x PROVE Resumes(s, x)
    <3>1. /\ m + k \in 1 .. m + n - 1 /\ k \in 1 .. n /\ k + 1 \in 1 .. n
          /\ m + (k + 1) = (m + k) + 1
      BY <1>1
    <3>2. s[m + k] = t[k] /\ s[(m + k) + 1] = t[k + 1]
      BY <1>1, <3>1
    <3> QED
      BY <1>1, <2>3, <3>1, <3>2 DEF Resumes
  <2>4. ASSUME u[m] \in Resuming, Head(t) = x PROVE Resumes(s, x)
    <3>1. m \in 1 .. m + n - 1 /\ m \in 1 .. m /\ 1 \in 1 .. n
      BY <1>1
    <3> QED
      BY SMTT(30), <1>1, <1>2, <2>4, <3>1 DEF Resumes
  <2>5. ASSUME Resumes(s, x)
        PROVE  Resumes(u, x) \/ Resumes(t, x) \/ (u[m] \in Resuming /\ Head(t) = x)
    <3>1. PICK k \in 1 .. m + n - 1 : s[k] \in Resuming /\ s[k + 1] = x
      BY <1>1, <2>5 DEF Resumes
    <3> QED
      BY <2>1, <3>1
  <2>6. Resumes(u, x) => Resumes(s, x)
    BY <2>2 DEF Resumes
  <2>7. Resumes(t, x) => Resumes(s, x)
    BY <2>3 DEF Resumes
  <2> QED
    BY <2>4, <2>5, <2>6, <2>7
<1> QED
  BY <1>5, <1>8, <1>9, <1>12, <1>13, <1>14 DEF s

\* The head of c's stack has returned v, and c runs s next.
Goes(c, s, v) ==
  /\ calls' \in [Controller -> Seq(Statements)]
  /\ \A b \in Controller \ {c} : calls'[b] = calls[b]
  /\ Chain(calls'[c]) /\ Within(calls'[c], Of(op[c]))
  /\ Now(c)' = s /\ ret' = [ret EXCEPT ![c] = v]
Keeps(c) == (Rolling(c)' <=> Rolling(c)) /\ (Retrying(c)' <=> Retrying(c))

\* A statement at the head of a stack is one of the operation's.
LEMMA HeadOf ==
  ASSUME TypeOK, Stacks, NEW c \in Controller
  PROVE  /\ calls[c] \in Seq(Statements) /\ (Now(c) = "idle" <=> calls[c] = <<>>)
         /\ \A s : At(c, s) <=> Now(c) = s /\ Now(c) # "idle"
         /\ Now(c) # "idle" =>
              /\ calls[c][1] = Now(c) /\ Now(c) \in Of(op[c]) /\ op[c] \in Ops
              /\ Chain(calls[c]) /\ Within(calls[c], Of(op[c])) /\ Now(c) \in Statements
<1>1. calls[c] \in Seq(Statements) /\ "idle" \notin Statements
  BY DEF TypeOK, Statements
<1>2. CASE calls[c] = <<>>
  BY <1>1, <1>2 DEF Now, At
<1>3. CASE calls[c] # <<>>
  <2>1. /\ Head(calls[c]) = calls[c][1] /\ calls[c][1] \in Statements
        /\ 1 \in 1 .. Len(calls[c])
    BY <1>1, <1>3, TailOf
  <2>2. calls[c][1] \in Of(op[c])
    BY <2>1 DEF Stacks, Within
  <2> QED
    BY <1>1, <1>3, <2>1, <2>2 DEF Now, At, Stacks
<1> QED
  BY <1>2, <1>3

\* A call that returns.
LEMMA Returns ==
  ASSUME TypeOK, Stacks, NEW c \in Controller, Now(c) # "idle", NEW v, Then(c, <<>>, v)
  PROVE  /\ Goes(c, Now(c)', v)
         /\ Now(c) \notin Last =>
              Now(c)' = calls[c][2] /\ Now(c)' \in After(Now(c)) /\ Now(c)' # "idle"
         /\ Now(c)' # "idle" => Now(c)' \in After(Now(c))
         /\ \A x : x # Now(c) => (Has(calls'[c], x) <=> Has(calls[c], x))
         /\ \A x : Now(c) \notin Last =>
              (Resumes(calls[c], x) <=> \/ Now(c) \in Resuming /\ Now(c)' = x
                                        \/ Resumes(calls'[c], x))
         /\ \A x : Now(c) \in Last => (Resumes(calls[c], x) <=> Resumes(calls'[c], x))
<1>1. /\ calls[c] \in Seq(Statements) /\ calls[c] # <<>> /\ calls[c][1] = Now(c)
      /\ Chain(calls[c]) /\ Within(calls[c], Of(op[c]))
  BY HeadOf
<1> DEFINE t == Tail(calls[c])
<1>2. /\ Chain(t)
      /\ calls[c][1] \notin Last => /\ t # <<>> /\ Head(t) = calls[c][2]
                                    /\ calls[c][2] \in After(calls[c][1])
      /\ t # <<>> => Head(t) = calls[c][2] /\ calls[c][2] \in After(calls[c][1])
      /\ Within(t, Of(op[c]))
      /\ \A x : Has(calls[c], x) <=> calls[c][1] = x \/ Has(t, x)
      /\ \A x : Resumes(calls[c], x) <=> \/ calls[c][1] \in Resuming /\ t # <<>> /\ calls[c][2] = x
                                         \/ Resumes(t, x)
  BY <1>1, ChainTail
<1>3. t \in Seq(Statements) /\ <<>> \o t = t /\ (t # <<>> => Head(t) \in Statements)
  <2>1. t \in Seq(Statements)
    BY <1>1, TailOf
  <2>2. t # <<>> => Head(t) \in Statements
    BY <2>1, TailOf
  <2>3. <<>> \in Seq(Statements)
    OBVIOUS
  <2>4. <<>> \o t = t
    BY <2>1, <2>3, ConcatOf
  <2> QED
    BY <2>1, <2>2, <2>4
<1> HIDE DEF t
<1>4. /\ calls' = [calls EXCEPT ![c] = t] /\ ret' = [ret EXCEPT ![c] = v]
  BY <1>3 DEF Then, t
<1>5. /\ calls' \in [Controller -> Seq(Statements)] /\ calls'[c] = t
      /\ \A b \in Controller \ {c} : calls'[b] = calls[b]
  BY <1>3, <1>4 DEF TypeOK
<1>6. Now(c)' = IF t = <<>> THEN "idle" ELSE Head(t)
  BY <1>5 DEF Now
<1>7. Goes(c, Now(c)', v)
  BY <1>2, <1>4, <1>5 DEF Goes
<1>8. "idle" \notin Statements
  BY DEF Statements
<1>9. /\ Now(c) \notin Last => /\ Now(c)' = calls[c][2] /\ Now(c)' \in After(Now(c))
                               /\ Now(c)' # "idle"
      /\ Now(c)' # "idle" => Now(c)' \in After(Now(c))
  BY <1>1, <1>2, <1>3, <1>6, <1>8
<1>10. \A x : x # Now(c) => (Has(calls'[c], x) <=> Has(calls[c], x))
  BY <1>1, <1>2, <1>5
<1>11. Now(c) \in Last => Now(c) \notin Resuming
  BY DEF Last, Resuming
<1>12. /\ \A x : Now(c) \notin Last =>
              (Resumes(calls[c], x) <=> \/ Now(c) \in Resuming /\ Now(c)' = x
                                        \/ Resumes(calls'[c], x))
       /\ \A x : Now(c) \in Last => (Resumes(calls[c], x) <=> Resumes(calls'[c], x))
  BY <1>1, <1>2, <1>5, <1>9, <1>11
<1> QED
  BY <1>7, <1>9, <1>10, <1>12

\* Calls put in the place of a statement, which can be followed by what followed it.
LEMMA Calls ==
  ASSUME TypeOK, Stacks, NEW c \in Controller, Now(c) \notin Last \cup {"idle"}, NEW v,
         NEW u \in Seq(Statements), u # <<>>, Then(c, u, v),
         \A k \in 1 .. Len(u) - 1 : u[k + 1] \in After(u[k]),
         After(Now(c)) \subseteq After(u[Len(u)]), Within(u, Of(op[c]))
  PROVE  /\ Goes(c, u[1], v)
         /\ calls'[c][2] = IF Len(u) = 1 THEN calls[c][2] ELSE u[2]
         /\ \A x : x # Now(c) => (Has(calls'[c], x) <=> Has(u, x) \/ Has(calls[c], x))
         /\ \A x : /\ Resumes(calls[c], x) <=> \/ Now(c) \in Resuming /\ calls[c][2] = x
                                               \/ Resumes(Tail(calls[c]), x)
                   /\ Resumes(calls'[c], x) <=> \/ Resumes(u, x) \/ Resumes(Tail(calls[c]), x)
                                                \/ u[Len(u)] \in Resuming /\ calls[c][2] = x
         /\ calls[c][2] \in After(Now(c))
<1>1. /\ calls[c] \in Seq(Statements) /\ calls[c] # <<>> /\ calls[c][1] = Now(c)
      /\ Chain(calls[c]) /\ Within(calls[c], Of(op[c]))
  BY HeadOf
<1> DEFINE t == Tail(calls[c])
<1>2. /\ Chain(t)
      /\ t # <<>> /\ Head(t) = calls[c][2] /\ calls[c][2] \in After(Now(c))
      /\ Within(t, Of(op[c]))
      /\ \A x : Has(calls[c], x) <=> Now(c) = x \/ Has(t, x)
      /\ \A x : Resumes(calls[c], x) <=> \/ Now(c) \in Resuming /\ calls[c][2] = x
                                         \/ Resumes(t, x)
  BY <1>1, ChainTail
<1>3. t \in Seq(Statements)
  BY <1>1, TailOf
<1>4. /\ Chain(u \o t) /\ u \o t # <<>> /\ Head(u \o t) = u[1]
      /\ (u \o t)[2] = IF Len(u) = 1 THEN Head(t) ELSE u[2]
      /\ Within(u \o t, Of(op[c]))
      /\ \A x : Has(u \o t, x) <=> Has(u, x) \/ Has(t, x)
      /\ \A x : Resumes(u \o t, x) <=> \/ Resumes(u, x) \/ Resumes(t, x)
                                       \/ u[Len(u)] \in Resuming /\ Head(t) = x
  <2>1. Head(t) \in After(u[Len(u)])
    BY <1>2
  <2> HIDE DEF t
  <2> QED
    BY <1>2, <1>3, <2>1, ChainConcat
<1>5. u \o t \in Seq(Statements)
  BY <1>3, ConcatOf
<1>6. calls' = [calls EXCEPT ![c] = u \o t] /\ ret' = [ret EXCEPT ![c] = v]
  BY DEF Then
<1>7. /\ calls' \in [Controller -> Seq(Statements)] /\ calls'[c] = u \o t
      /\ \A b \in Controller \ {c} : calls'[b] = calls[b]
  BY <1>5, <1>6 DEF TypeOK
<1> HIDE DEF t
<1>8. Now(c)' = u[1]
  BY <1>4, <1>7 DEF Now
<1>9. Goes(c, u[1], v)
  BY <1>4, <1>6, <1>7, <1>8 DEF Goes
<1> QED
  BY <1>2, <1>4, <1>7, <1>9 DEF t

\* What an operation must be to be where it is.
LEMMA OpOf ==
  ASSUME TypeOK, Stacks, NEW c \in Controller
  PROVE  /\ Now(c) \in {"load_enable", "after_enable", "report_failure"} => op[c] = "enable"
         /\ Now(c) = "load_saved" => op[c] = "saved"
         /\ Now(c) \in Starting => op[c] \in {"enable", "saved"}
         /\ Now(c) \in {"load_bypass", "fw_bypass", "fw_restore"} => op[c] = "bypass"
         /\ Now(c) = "fw_off" => op[c] = "disable"
         /\ Now(c) \in {"unit_stop", "unit_wait", "unit_remove", "uninstall_fw", "uninstall_retry",
                        "remove_files", "remove_lock", "remove_binary"} => op[c] = "uninstall"
         /\ Now(c) # "idle" => op[c] \in {"enable", "saved", "bypass", "disable", "uninstall"}
<1>1. Now(c) # "idle" => Now(c) \in Of(op[c]) /\ op[c] \in Ops
  BY HeadOf
<1> QED
  BY <1>1, LifecycleAssumption DEF Of, Stopping, Starting

\* The caller's next statement is one of S.
GoesOn(c, S, v) == \E s \in S : Goes(c, s, v) /\ Keeps(c) /\ s = calls[c][2]

\* A statement that returns: what comes next, and what is kept.
LEMMA Pops ==
  ASSUME TypeOK, Stacks, NEW c \in Controller, NEW v, Then(c, <<>>, v)
  PROVE
    /\ Now(c) = "flock" =>
         GoesOn(c, {"load_enable", "load_saved", "load_bypass", "stop", "unit_stop"}, v)
    /\ Now(c) \in {"load_enable", "load_saved"} => Goes(c, "activate", v) /\ Keeps(c)
    /\ Now(c) \in {"load_bypass", "after_enable", "fw_bypass", "fw_restore",
                     "fw_off", "remove_files"} =>
         Goes(c, "unlock", v) /\ Keeps(c)
    /\ Now(c) \in {"activate", "replace", "started"} => GoesOn(c, Activated, v)
    /\ Now(c) \in {"wait", "killed"} => GoesOn(c, {"sweep", "scan"}, v)
    /\ Now(c) = "sweep" => Goes(c, "scan", v) /\ Keeps(c)
    /\ Now(c) = "scan" => GoesOn(c, {"port", "port_again", "spawn"}, v)
    /\ Now(c) \in {"start", "spawn", "await", "reap"} => Goes(c, "started", v) /\ Keeps(c)
    /\ Now(c) \in {"unit_stop", "unit_wait"} => Goes(c, "unit_remove", v) /\ Keeps(c)
    /\ Now(c) = "unit_remove" => Goes(c, "stop", v) /\ Keeps(c)
    /\ Now(c) = "uninstall_fw" => Goes(c, "uninstall_retry", v) /\ Keeps(c)
    /\ Now(c) = "uninstall_retry" => Goes(c, "remove_files", v) /\ Keeps(c)
    /\ Now(c) = "report_failure" => Goes(c, "unlock", v) /\ (Retrying(c)' <=> Retrying(c))
    /\ Now(c) \in {"port", "port_again"} =>
         \E s \in Stopped : /\ Goes(c, s, v) /\ (Rolling(c)' <=> Rolling(c))
                            /\ s # "uninstall_retry" => Keeps(c)
                            /\ s = "uninstall_retry" => Retrying(c)
    /\ Now(c) = "unlock" => \E s \in {"remove_lock", "idle"} : Goes(c, s, v)
    /\ Now(c) = "remove_lock" => \E s \in {"remove_binary", "idle"} : Goes(c, s, v)
    /\ Now(c) = "remove_binary" => Goes(c, "idle", v)
<1>1. ASSUME Now(c) # "idle"
      PROVE  /\ Goes(c, Now(c)', v)
             /\ Now(c) \notin Last =>
                  Now(c)' = calls[c][2] /\ Now(c)' \in After(Now(c)) /\ Now(c)' # "idle"
             /\ Now(c)' # "idle" => Now(c)' \in After(Now(c))
             /\ "report_failure" # Now(c) => (Rolling(c)' <=> Rolling(c))
             /\ Now(c) \notin Last =>
                  (Retrying(c) <=> \/ Now(c) \in Resuming /\ Now(c)' = "uninstall_retry"
                                   \/ Retrying(c)')
             /\ Now(c) \in Last => (Retrying(c) <=> Retrying(c)')
  BY <1>1, Returns DEF Rolling, Retrying
<1>2. ASSUME Now(c) \notin Last \cup Resuming \cup {"idle", "report_failure"} PROVE Keeps(c)
  BY <1>1, <1>2 DEF Keeps
<1> USE <1>1, <1>2 DEF Last, Resuming
<1>3. ASSUME Now(c) = "flock"
      PROVE  GoesOn(c, {"load_enable", "load_saved", "load_bypass", "stop", "unit_stop"}, v)
  BY <1>3 DEF After, GoesOn
<1>4. ASSUME Now(c) \in {"load_enable", "load_saved"}
      PROVE  Goes(c, "activate", v) /\ Keeps(c)
  BY <1>4 DEF After
<1>5. ASSUME Now(c) \in {"load_bypass", "after_enable", "fw_bypass", "fw_restore",
                     "fw_off", "remove_files"}
      PROVE  Goes(c, "unlock", v) /\ Keeps(c)
  BY <1>5 DEF After
<1>6. ASSUME Now(c) \in {"activate", "replace", "started"}
      PROVE  GoesOn(c, Activated, v)
  BY <1>6 DEF After, GoesOn
<1>7. ASSUME Now(c) \in {"wait", "killed"}
      PROVE  GoesOn(c, {"sweep", "scan"}, v)
  BY <1>7 DEF After, GoesOn
<1>8. ASSUME Now(c) = "sweep"
      PROVE  Goes(c, "scan", v) /\ Keeps(c)
  BY <1>8 DEF After
<1>9. ASSUME Now(c) = "scan"
      PROVE  GoesOn(c, {"port", "port_again", "spawn"}, v)
  BY <1>9 DEF After, GoesOn
<1>10. ASSUME Now(c) \in {"start", "spawn", "await", "reap"}
      PROVE  Goes(c, "started", v) /\ Keeps(c)
  BY <1>10 DEF After
<1>11. ASSUME Now(c) \in {"unit_stop", "unit_wait"}
      PROVE  Goes(c, "unit_remove", v) /\ Keeps(c)
  BY <1>11 DEF After
<1>12. ASSUME Now(c) = "unit_remove"
      PROVE  Goes(c, "stop", v) /\ Keeps(c)
  BY <1>12 DEF After
<1>13. ASSUME Now(c) = "uninstall_fw"
      PROVE  Goes(c, "uninstall_retry", v) /\ Keeps(c)
  BY <1>13 DEF After
<1>14. ASSUME Now(c) = "uninstall_retry"
      PROVE  Goes(c, "remove_files", v) /\ Keeps(c)
  BY <1>14 DEF After
<1>15. Now(c) = "report_failure" => Goes(c, "unlock", v) /\ (Retrying(c)' <=> Retrying(c))
  BY DEF After
<1>16. ASSUME Now(c) \in {"port", "port_again"}
       PROVE  \E s \in Stopped : /\ Goes(c, s, v) /\ (Rolling(c)' <=> Rolling(c))
                                 /\ s # "uninstall_retry" => Keeps(c)
                                 /\ s = "uninstall_retry" => Retrying(c)
  BY <1>16 DEF After, Keeps
<1>17. /\ Now(c) = "unlock" => \E s \in {"remove_lock", "idle"} : Goes(c, s, v)
       /\ Now(c) = "remove_lock" => \E s \in {"remove_binary", "idle"} : Goes(c, s, v)
       /\ Now(c) = "remove_binary" => Goes(c, "idle", v)
  BY DEF After
<1> QED
  BY <1>3, <1>4, <1>5, <1>6, <1>7, <1>8, <1>9, <1>10, <1>11, <1>12, <1>13, <1>14, <1>15, <1>16,
     <1>17

\* Calls that take the place of a statement.
LEMMA Pushes ==
  ASSUME TypeOK, Stacks, NEW c \in Controller, NEW v
  PROVE
    /\ Now(c) = "lock" /\ Then(c, <<"flock">>, v) =>
         Goes(c, "flock", v) /\ Keeps(c)
    /\ Now(c) = "activate" /\ Then(c, <<"stop", "replace">>, v) =>
         Goes(c, "stop", v) /\ Keeps(c)
    /\ Now(c) = "activate" /\ Then(c, <<"replace">>, v) =>
         Goes(c, "replace", v) /\ Keeps(c)
    /\ Now(c) = "replace" /\ Then(c, <<"start", "started">>, v) =>
         Goes(c, "start", v) /\ Keeps(c)
    /\ Now(c) = "after_enable" /\ Then(c, <<"activate", "report_failure">>, v) =>
         Goes(c, "activate", v) /\ Rolling(c)' /\ (Retrying(c)' <=> Retrying(c))
    /\ Now(c) = "load_bypass" /\ Then(c, <<"fw_bypass">>, v) =>
         Goes(c, "fw_bypass", v) /\ Keeps(c)
    /\ Now(c) = "load_bypass" /\ Then(c, <<"fw_restore">>, v) =>
         Goes(c, "fw_restore", v) /\ Keeps(c)
    /\ Now(c) = "fw_bypass" /\ Then(c, <<"fw_restore">>, v) =>
         Goes(c, "fw_restore", v) /\ Keeps(c)
    /\ Now(c) = "unit_stop" /\ Then(c, <<"unit_wait">>, v) =>
         Goes(c, "unit_wait", v) /\ Keeps(c)
    /\ Now(c) = "uninstall_fw" /\ Then(c, <<"stop">>, v) =>
         Goes(c, "stop", v) /\ Retrying(c)' /\ (Rolling(c)' <=> Rolling(c))
    /\ Now(c) = "stop" /\ Then(c, <<"term", "sweep", "scan", "port">>, v) =>
         Goes(c, "term", v) /\ Keeps(c) /\ calls'[c][2] = "sweep"
    /\ Now(c) = "stop" /\ Then(c, <<"sweep", "scan", "port">>, v) =>
         Goes(c, "sweep", v) /\ Keeps(c)
    /\ Now(c) = "term" /\ Then(c, <<"wait">>, v) =>
         Goes(c, "wait", v) /\ Keeps(c) /\ calls'[c][2] = calls[c][2]
    /\ Now(c) = "wait" /\ Then(c, <<"killed">>, v) =>
         Goes(c, "killed", v) /\ Keeps(c) /\ calls'[c][2] = calls[c][2]
    /\ Now(c) = "scan" /\ Then(c, <<"term", "scan">>, v) =>
         Goes(c, "term", v) /\ Keeps(c) /\ calls'[c][2] = "scan"
    /\ Now(c) = "scan" /\ Then(c, <<"scan">>, v) =>
         Goes(c, "scan", v) /\ Keeps(c)
    /\ Now(c) = "port" /\ Then(c, <<"sweep", "scan", "port_again">>, v) =>
         Goes(c, "sweep", v) /\ Keeps(c)
    /\ Now(c) = "start" /\ Then(c, <<"stop", "spawn">>, v) =>
         Goes(c, "stop", v) /\ Keeps(c)
    /\ Now(c) = "start" /\ Then(c, <<"sweep", "scan", "spawn">>, v) =>
         Goes(c, "sweep", v) /\ Keeps(c)
    /\ Now(c) = "spawn" /\ Then(c, <<"await">>, v) =>
         Goes(c, "await", v) /\ Keeps(c)
    /\ Now(c) = "await" /\ Then(c, <<"reap">>, v) =>
         Goes(c, "reap", v) /\ Keeps(c)
<1>1. ASSUME NEW u \in Seq(Statements), u # <<>>, Then(c, u, v), Now(c) \notin Last \cup {"idle"},
             \A k \in 1 .. Len(u) - 1 : u[k + 1] \in After(u[k]),
             After(Now(c)) \subseteq After(u[Len(u)]), Within(u, Of(op[c]))
      PROVE  /\ Goes(c, u[1], v)
             /\ calls'[c][2] = IF Len(u) = 1 THEN calls[c][2] ELSE u[2]
             /\ Now(c) # "report_failure" =>
                  (Rolling(c)' <=> Has(u, "report_failure") \/ Rolling(c))
             /\ (u[Len(u)] \in Resuming <=> Now(c) \in Resuming) =>
                  (Retrying(c)' <=> Resumes(u, "uninstall_retry") \/ Retrying(c))
             /\ u[Len(u)] \in Resuming /\ calls[c][2] = "uninstall_retry" => Retrying(c)'
             /\ calls[c][2] \in After(Now(c))
  BY <1>1, Calls DEF Rolling, Retrying
<1>2. Now(c) # "idle" => Now(c) \in Of(op[c]) /\ op[c] \in Ops
  BY HeadOf
<1> USE DEF Last
<1>3. ASSUME Now(c) = "lock", Then(c, <<"flock">>, v)
      PROVE  Goes(c, "flock", v) /\ Keeps(c)
  <2> DEFINE u == <<"flock">>
  <2>1. /\ u \in Seq(Statements) /\ u # <<>> /\ Len(u) = 1
        /\ u[1] = "flock"
    BY DEF Statements
  <2>2. Then(c, u, v)
    BY <1>3
  <2> HIDE DEF u
  <2>3. /\ \A k \in 1 .. Len(u) - 1 : u[k + 1] \in After(u[k])
        /\ After(Now(c)) \subseteq After(u[Len(u)]) /\ Within(u, Of(op[c]))
        /\ ~Resumes(u, "uninstall_retry") /\ ~Has(u, "report_failure")
    BY <1>2, <1>3, <2>1, OpOf DEF After, Stopped, Activated, Within, Of, Stopping, Starting,
                                   Has, Resumes, Resuming
  <2> QED
    BY <1>1, <1>3, <2>1, <2>2, <2>3 DEF Keeps, Resuming, After, Last
<1>4. ASSUME Now(c) = "activate", Then(c, <<"stop", "replace">>, v)
      PROVE  Goes(c, "stop", v) /\ Keeps(c)
  <2> DEFINE u == <<"stop", "replace">>
  <2>1. /\ u \in Seq(Statements) /\ u # <<>> /\ Len(u) = 2
        /\ u[1] = "stop" /\ u[2] = "replace"
    BY DEF Statements
  <2>2. Then(c, u, v)
    BY <1>4
  <2> HIDE DEF u
  <2>3. /\ \A k \in 1 .. Len(u) - 1 : u[k + 1] \in After(u[k])
        /\ After(Now(c)) \subseteq After(u[Len(u)]) /\ Within(u, Of(op[c]))
        /\ ~Resumes(u, "uninstall_retry") /\ ~Has(u, "report_failure")
    BY <1>2, <1>4, <2>1, OpOf DEF After, Stopped, Activated, Within, Of, Stopping, Starting,
                                   Has, Resumes, Resuming
  <2> QED
    BY <1>1, <1>4, <2>1, <2>2, <2>3 DEF Keeps, Resuming, After, Last
<1>5. ASSUME Now(c) = "activate", Then(c, <<"replace">>, v)
      PROVE  Goes(c, "replace", v) /\ Keeps(c)
  <2> DEFINE u == <<"replace">>
  <2>1. /\ u \in Seq(Statements) /\ u # <<>> /\ Len(u) = 1
        /\ u[1] = "replace"
    BY DEF Statements
  <2>2. Then(c, u, v)
    BY <1>5
  <2> HIDE DEF u
  <2>3. /\ \A k \in 1 .. Len(u) - 1 : u[k + 1] \in After(u[k])
        /\ After(Now(c)) \subseteq After(u[Len(u)]) /\ Within(u, Of(op[c]))
        /\ ~Resumes(u, "uninstall_retry") /\ ~Has(u, "report_failure")
    BY <1>2, <1>5, <2>1, OpOf DEF After, Stopped, Activated, Within, Of, Stopping, Starting,
                                   Has, Resumes, Resuming
  <2> QED
    BY <1>1, <1>5, <2>1, <2>2, <2>3 DEF Keeps, Resuming, After, Last
<1>6. ASSUME Now(c) = "replace", Then(c, <<"start", "started">>, v)
      PROVE  Goes(c, "start", v) /\ Keeps(c)
  <2> DEFINE u == <<"start", "started">>
  <2>1. /\ u \in Seq(Statements) /\ u # <<>> /\ Len(u) = 2
        /\ u[1] = "start" /\ u[2] = "started"
    BY DEF Statements
  <2>2. Then(c, u, v)
    BY <1>6
  <2> HIDE DEF u
  <2>3. /\ \A k \in 1 .. Len(u) - 1 : u[k + 1] \in After(u[k])
        /\ After(Now(c)) \subseteq After(u[Len(u)]) /\ Within(u, Of(op[c]))
        /\ ~Resumes(u, "uninstall_retry") /\ ~Has(u, "report_failure")
    BY <1>2, <1>6, <2>1, OpOf DEF After, Stopped, Activated, Within, Of, Stopping, Starting,
                                   Has, Resumes, Resuming
  <2> QED
    BY <1>1, <1>6, <2>1, <2>2, <2>3 DEF Keeps, Resuming, After, Last
<1>7. ASSUME Now(c) = "after_enable", Then(c, <<"activate", "report_failure">>, v)
      PROVE  Goes(c, "activate", v) /\ Rolling(c)' /\ (Retrying(c)' <=> Retrying(c))
  <2> DEFINE u == <<"activate", "report_failure">>
  <2>1. /\ u \in Seq(Statements) /\ u # <<>> /\ Len(u) = 2
        /\ u[1] = "activate" /\ u[2] = "report_failure"
    BY DEF Statements
  <2>2. Then(c, u, v)
    BY <1>7
  <2> HIDE DEF u
  <2>3. /\ \A k \in 1 .. Len(u) - 1 : u[k + 1] \in After(u[k])
        /\ After(Now(c)) \subseteq After(u[Len(u)]) /\ Within(u, Of(op[c]))
        /\ ~Resumes(u, "uninstall_retry") /\ Has(u, "report_failure")
    BY <1>2, <1>7, <2>1, OpOf DEF After, Stopped, Activated, Within, Of, Stopping, Starting,
                                   Has, Resumes, Resuming
  <2> QED
    BY ZenonT(40), <1>1, <1>7, <2>1, <2>2, <2>3 DEF Keeps, Resuming, After, Last
<1>8. ASSUME Now(c) = "load_bypass", Then(c, <<"fw_bypass">>, v)
      PROVE  Goes(c, "fw_bypass", v) /\ Keeps(c)
  <2> DEFINE u == <<"fw_bypass">>
  <2>1. /\ u \in Seq(Statements) /\ u # <<>> /\ Len(u) = 1
        /\ u[1] = "fw_bypass"
    BY DEF Statements
  <2>2. Then(c, u, v)
    BY <1>8
  <2> HIDE DEF u
  <2>3. /\ \A k \in 1 .. Len(u) - 1 : u[k + 1] \in After(u[k])
        /\ After(Now(c)) \subseteq After(u[Len(u)]) /\ Within(u, Of(op[c]))
        /\ ~Resumes(u, "uninstall_retry") /\ ~Has(u, "report_failure")
    BY <1>2, <1>8, <2>1, OpOf DEF After, Stopped, Activated, Within, Of, Stopping, Starting,
                                   Has, Resumes, Resuming
  <2> QED
    BY <1>1, <1>8, <2>1, <2>2, <2>3 DEF Keeps, Resuming, After, Last
<1>9. ASSUME Now(c) = "load_bypass", Then(c, <<"fw_restore">>, v)
      PROVE  Goes(c, "fw_restore", v) /\ Keeps(c)
  <2> DEFINE u == <<"fw_restore">>
  <2>1. /\ u \in Seq(Statements) /\ u # <<>> /\ Len(u) = 1
        /\ u[1] = "fw_restore"
    BY DEF Statements
  <2>2. Then(c, u, v)
    BY <1>9
  <2> HIDE DEF u
  <2>3. /\ \A k \in 1 .. Len(u) - 1 : u[k + 1] \in After(u[k])
        /\ After(Now(c)) \subseteq After(u[Len(u)]) /\ Within(u, Of(op[c]))
        /\ ~Resumes(u, "uninstall_retry") /\ ~Has(u, "report_failure")
    BY <1>2, <1>9, <2>1, OpOf DEF After, Stopped, Activated, Within, Of, Stopping, Starting,
                                   Has, Resumes, Resuming
  <2> QED
    BY <1>1, <1>9, <2>1, <2>2, <2>3 DEF Keeps, Resuming, After, Last
<1>10. ASSUME Now(c) = "fw_bypass", Then(c, <<"fw_restore">>, v)
      PROVE  Goes(c, "fw_restore", v) /\ Keeps(c)
  <2> DEFINE u == <<"fw_restore">>
  <2>1. /\ u \in Seq(Statements) /\ u # <<>> /\ Len(u) = 1
        /\ u[1] = "fw_restore"
    BY DEF Statements
  <2>2. Then(c, u, v)
    BY <1>10
  <2> HIDE DEF u
  <2>3. /\ \A k \in 1 .. Len(u) - 1 : u[k + 1] \in After(u[k])
        /\ After(Now(c)) \subseteq After(u[Len(u)]) /\ Within(u, Of(op[c]))
        /\ ~Resumes(u, "uninstall_retry") /\ ~Has(u, "report_failure")
    BY <1>2, <1>10, <2>1, OpOf DEF After, Stopped, Activated, Within, Of, Stopping, Starting,
                                   Has, Resumes, Resuming
  <2> QED
    BY <1>1, <1>10, <2>1, <2>2, <2>3 DEF Keeps, Resuming, After, Last
<1>11. ASSUME Now(c) = "unit_stop", Then(c, <<"unit_wait">>, v)
      PROVE  Goes(c, "unit_wait", v) /\ Keeps(c)
  <2> DEFINE u == <<"unit_wait">>
  <2>1. /\ u \in Seq(Statements) /\ u # <<>> /\ Len(u) = 1
        /\ u[1] = "unit_wait"
    BY DEF Statements
  <2>2. Then(c, u, v)
    BY <1>11
  <2> HIDE DEF u
  <2>3. /\ \A k \in 1 .. Len(u) - 1 : u[k + 1] \in After(u[k])
        /\ After(Now(c)) \subseteq After(u[Len(u)]) /\ Within(u, Of(op[c]))
        /\ ~Resumes(u, "uninstall_retry") /\ ~Has(u, "report_failure")
    BY <1>2, <1>11, <2>1, OpOf DEF After, Stopped, Activated, Within, Of, Stopping, Starting,
                                   Has, Resumes, Resuming
  <2> QED
    BY <1>1, <1>11, <2>1, <2>2, <2>3 DEF Keeps, Resuming, After, Last
<1>12. ASSUME Now(c) = "uninstall_fw", Then(c, <<"stop">>, v)
      PROVE  Goes(c, "stop", v) /\ Retrying(c)' /\ (Rolling(c)' <=> Rolling(c))
  <2> DEFINE u == <<"stop">>
  <2>1. /\ u \in Seq(Statements) /\ u # <<>> /\ Len(u) = 1
        /\ u[1] = "stop"
    BY DEF Statements
  <2>2. Then(c, u, v)
    BY <1>12
  <2> HIDE DEF u
  <2>3. /\ \A k \in 1 .. Len(u) - 1 : u[k + 1] \in After(u[k])
        /\ After(Now(c)) \subseteq After(u[Len(u)]) /\ Within(u, Of(op[c]))
        /\ ~Resumes(u, "uninstall_retry") /\ ~Has(u, "report_failure")
    BY <1>2, <1>12, <2>1, OpOf DEF After, Stopped, Activated, Within, Of, Stopping, Starting,
                                   Has, Resumes, Resuming
  <2> QED
    BY <1>1, <1>12, <2>1, <2>2, <2>3 DEF Keeps, Resuming, After, Last
<1>13. ASSUME Now(c) = "stop", Then(c, <<"term", "sweep", "scan", "port">>, v)
      PROVE  Goes(c, "term", v) /\ Keeps(c) /\ calls'[c][2] = "sweep"
  <2> DEFINE u == <<"term", "sweep", "scan", "port">>
  <2>1. /\ u \in Seq(Statements) /\ u # <<>> /\ Len(u) = 4
        /\ u[1] = "term" /\ u[2] = "sweep" /\ u[3] = "scan" /\ u[4] = "port"
    BY DEF Statements
  <2>2. Then(c, u, v)
    BY <1>13
  <2> HIDE DEF u
  <2>3. /\ \A k \in 1 .. Len(u) - 1 : u[k + 1] \in After(u[k])
        /\ After(Now(c)) \subseteq After(u[Len(u)]) /\ Within(u, Of(op[c]))
        /\ ~Resumes(u, "uninstall_retry") /\ ~Has(u, "report_failure")
    BY <1>2, <1>13, <2>1, OpOf DEF After, Stopped, Activated, Within, Of, Stopping, Starting,
                                   Has, Resumes, Resuming
  <2> QED
    BY ZenonT(40), <1>1, <1>13, <2>1, <2>2, <2>3 DEF Keeps, Resuming, After, Last
<1>14. ASSUME Now(c) = "stop", Then(c, <<"sweep", "scan", "port">>, v)
      PROVE  Goes(c, "sweep", v) /\ Keeps(c)
  <2> DEFINE u == <<"sweep", "scan", "port">>
  <2>1. /\ u \in Seq(Statements) /\ u # <<>> /\ Len(u) = 3
        /\ u[1] = "sweep" /\ u[2] = "scan" /\ u[3] = "port"
    BY DEF Statements
  <2>2. Then(c, u, v)
    BY <1>14
  <2> HIDE DEF u
  <2>3. /\ \A k \in 1 .. Len(u) - 1 : u[k + 1] \in After(u[k])
        /\ After(Now(c)) \subseteq After(u[Len(u)]) /\ Within(u, Of(op[c]))
        /\ ~Resumes(u, "uninstall_retry") /\ ~Has(u, "report_failure")
    BY <1>2, <1>14, <2>1, OpOf DEF After, Stopped, Activated, Within, Of, Stopping, Starting,
                                   Has, Resumes, Resuming
  <2> QED
    BY <1>1, <1>14, <2>1, <2>2, <2>3 DEF Keeps, Resuming, After, Last
<1>15. ASSUME Now(c) = "term", Then(c, <<"wait">>, v)
      PROVE  Goes(c, "wait", v) /\ Keeps(c) /\ calls'[c][2] = calls[c][2]
  <2> DEFINE u == <<"wait">>
  <2>1. /\ u \in Seq(Statements) /\ u # <<>> /\ Len(u) = 1
        /\ u[1] = "wait"
    BY DEF Statements
  <2>2. Then(c, u, v)
    BY <1>15
  <2> HIDE DEF u
  <2>3. /\ \A k \in 1 .. Len(u) - 1 : u[k + 1] \in After(u[k])
        /\ After(Now(c)) \subseteq After(u[Len(u)]) /\ Within(u, Of(op[c]))
        /\ ~Resumes(u, "uninstall_retry") /\ ~Has(u, "report_failure")
    BY <1>2, <1>15, <2>1, OpOf DEF After, Stopped, Activated, Within, Of, Stopping, Starting,
                                   Has, Resumes, Resuming
  <2> QED
    BY <1>1, <1>15, <2>1, <2>2, <2>3 DEF Keeps, Resuming, After, Last
<1>16. ASSUME Now(c) = "wait", Then(c, <<"killed">>, v)
      PROVE  Goes(c, "killed", v) /\ Keeps(c) /\ calls'[c][2] = calls[c][2]
  <2> DEFINE u == <<"killed">>
  <2>1. /\ u \in Seq(Statements) /\ u # <<>> /\ Len(u) = 1
        /\ u[1] = "killed"
    BY DEF Statements
  <2>2. Then(c, u, v)
    BY <1>16
  <2> HIDE DEF u
  <2>3. /\ \A k \in 1 .. Len(u) - 1 : u[k + 1] \in After(u[k])
        /\ After(Now(c)) \subseteq After(u[Len(u)]) /\ Within(u, Of(op[c]))
        /\ ~Resumes(u, "uninstall_retry") /\ ~Has(u, "report_failure")
    BY <1>2, <1>16, <2>1, OpOf DEF After, Stopped, Activated, Within, Of, Stopping, Starting,
                                   Has, Resumes, Resuming
  <2> QED
    BY <1>1, <1>16, <2>1, <2>2, <2>3 DEF Keeps, Resuming, After, Last
<1>17. ASSUME Now(c) = "scan", Then(c, <<"term", "scan">>, v)
      PROVE  Goes(c, "term", v) /\ Keeps(c) /\ calls'[c][2] = "scan"
  <2> DEFINE u == <<"term", "scan">>
  <2>1. /\ u \in Seq(Statements) /\ u # <<>> /\ Len(u) = 2
        /\ u[1] = "term" /\ u[2] = "scan"
    BY DEF Statements
  <2>2. Then(c, u, v)
    BY <1>17
  <2> HIDE DEF u
  <2>3. /\ \A k \in 1 .. Len(u) - 1 : u[k + 1] \in After(u[k])
        /\ After(Now(c)) \subseteq After(u[Len(u)]) /\ Within(u, Of(op[c]))
        /\ ~Resumes(u, "uninstall_retry") /\ ~Has(u, "report_failure")
    BY <1>2, <1>17, <2>1, OpOf DEF After, Stopped, Activated, Within, Of, Stopping, Starting,
                                   Has, Resumes, Resuming
  <2> QED
    BY SMTT(30), <1>1, <1>17, <2>1, <2>2, <2>3 DEF Keeps, Resuming, After, Last
<1>18. ASSUME Now(c) = "scan", Then(c, <<"scan">>, v)
      PROVE  Goes(c, "scan", v) /\ Keeps(c)
  <2> DEFINE u == <<"scan">>
  <2>1. /\ u \in Seq(Statements) /\ u # <<>> /\ Len(u) = 1
        /\ u[1] = "scan"
    BY DEF Statements
  <2>2. Then(c, u, v)
    BY <1>18
  <2> HIDE DEF u
  <2>3. /\ \A k \in 1 .. Len(u) - 1 : u[k + 1] \in After(u[k])
        /\ After(Now(c)) \subseteq After(u[Len(u)]) /\ Within(u, Of(op[c]))
        /\ ~Resumes(u, "uninstall_retry") /\ ~Has(u, "report_failure")
    BY <1>2, <1>18, <2>1, OpOf DEF After, Stopped, Activated, Within, Of, Stopping, Starting,
                                   Has, Resumes, Resuming
  <2> QED
    BY <1>1, <1>18, <2>1, <2>2, <2>3 DEF Keeps, Resuming, After, Last
<1>19. ASSUME Now(c) = "port", Then(c, <<"sweep", "scan", "port_again">>, v)
      PROVE  Goes(c, "sweep", v) /\ Keeps(c)
  <2> DEFINE u == <<"sweep", "scan", "port_again">>
  <2>1. /\ u \in Seq(Statements) /\ u # <<>> /\ Len(u) = 3
        /\ u[1] = "sweep" /\ u[2] = "scan" /\ u[3] = "port_again"
    BY DEF Statements
  <2>2. Then(c, u, v)
    BY <1>19
  <2> HIDE DEF u
  <2>3. /\ \A k \in 1 .. Len(u) - 1 : u[k + 1] \in After(u[k])
        /\ After(Now(c)) \subseteq After(u[Len(u)]) /\ Within(u, Of(op[c]))
        /\ ~Resumes(u, "uninstall_retry") /\ ~Has(u, "report_failure")
    BY <1>2, <1>19, <2>1, OpOf DEF After, Stopped, Activated, Within, Of, Stopping, Starting,
                                   Has, Resumes, Resuming
  <2> QED
    BY <1>1, <1>19, <2>1, <2>2, <2>3 DEF Keeps, Resuming, After, Last
<1>20. ASSUME Now(c) = "start", Then(c, <<"stop", "spawn">>, v)
      PROVE  Goes(c, "stop", v) /\ Keeps(c)
  <2> DEFINE u == <<"stop", "spawn">>
  <2>1. /\ u \in Seq(Statements) /\ u # <<>> /\ Len(u) = 2
        /\ u[1] = "stop" /\ u[2] = "spawn"
    BY DEF Statements
  <2>2. Then(c, u, v)
    BY <1>20
  <2> HIDE DEF u
  <2>3. /\ \A k \in 1 .. Len(u) - 1 : u[k + 1] \in After(u[k])
        /\ After(Now(c)) \subseteq After(u[Len(u)]) /\ Within(u, Of(op[c]))
        /\ ~Resumes(u, "uninstall_retry") /\ ~Has(u, "report_failure")
    BY <1>2, <1>20, <2>1, OpOf DEF After, Stopped, Activated, Within, Of, Stopping, Starting,
                                   Has, Resumes, Resuming
  <2> QED
    BY <1>1, <1>20, <2>1, <2>2, <2>3 DEF Keeps, Resuming, After, Last
<1>21. ASSUME Now(c) = "start", Then(c, <<"sweep", "scan", "spawn">>, v)
      PROVE  Goes(c, "sweep", v) /\ Keeps(c)
  <2> DEFINE u == <<"sweep", "scan", "spawn">>
  <2>1. /\ u \in Seq(Statements) /\ u # <<>> /\ Len(u) = 3
        /\ u[1] = "sweep" /\ u[2] = "scan" /\ u[3] = "spawn"
    BY DEF Statements
  <2>2. Then(c, u, v)
    BY <1>21
  <2> HIDE DEF u
  <2>3. /\ \A k \in 1 .. Len(u) - 1 : u[k + 1] \in After(u[k])
        /\ After(Now(c)) \subseteq After(u[Len(u)]) /\ Within(u, Of(op[c]))
        /\ ~Resumes(u, "uninstall_retry") /\ ~Has(u, "report_failure")
    BY <1>2, <1>21, <2>1, OpOf DEF After, Stopped, Activated, Within, Of, Stopping, Starting,
                                   Has, Resumes, Resuming
  <2> QED
    BY ZenonT(40), <1>1, <1>21, <2>1, <2>2, <2>3 DEF Keeps, Resuming, After, Last
<1>22. ASSUME Now(c) = "spawn", Then(c, <<"await">>, v)
      PROVE  Goes(c, "await", v) /\ Keeps(c)
  <2> DEFINE u == <<"await">>
  <2>1. /\ u \in Seq(Statements) /\ u # <<>> /\ Len(u) = 1
        /\ u[1] = "await"
    BY DEF Statements
  <2>2. Then(c, u, v)
    BY <1>22
  <2> HIDE DEF u
  <2>3. /\ \A k \in 1 .. Len(u) - 1 : u[k + 1] \in After(u[k])
        /\ After(Now(c)) \subseteq After(u[Len(u)]) /\ Within(u, Of(op[c]))
        /\ ~Resumes(u, "uninstall_retry") /\ ~Has(u, "report_failure")
    BY <1>2, <1>22, <2>1, OpOf DEF After, Stopped, Activated, Within, Of, Stopping, Starting,
                                   Has, Resumes, Resuming
  <2> QED
    BY <1>1, <1>22, <2>1, <2>2, <2>3 DEF Keeps, Resuming, After, Last
<1>23. ASSUME Now(c) = "await", Then(c, <<"reap">>, v)
      PROVE  Goes(c, "reap", v) /\ Keeps(c)
  <2> DEFINE u == <<"reap">>
  <2>1. /\ u \in Seq(Statements) /\ u # <<>> /\ Len(u) = 1
        /\ u[1] = "reap"
    BY DEF Statements
  <2>2. Then(c, u, v)
    BY <1>23
  <2> HIDE DEF u
  <2>3. /\ \A k \in 1 .. Len(u) - 1 : u[k + 1] \in After(u[k])
        /\ After(Now(c)) \subseteq After(u[Len(u)]) /\ Within(u, Of(op[c]))
        /\ ~Resumes(u, "uninstall_retry") /\ ~Has(u, "report_failure")
    BY <1>2, <1>23, <2>1, OpOf DEF After, Stopped, Activated, Within, Of, Stopping, Starting,
                                   Has, Resumes, Resuming
  <2> QED
    BY <1>1, <1>23, <2>1, <2>2, <2>3 DEF Keeps, Resuming, After, Last
<1> QED
  BY <1>3, <1>4, <1>5, <1>6, <1>7, <1>8, <1>9, <1>10, <1>11, <1>12, <1>13, <1>14, <1>15, <1>16,
     <1>17, <1>18, <1>19, <1>20, <1>21, <1>22, <1>23

\* goto: the lock is released next.
LEMMA Leaves ==
  ASSUME TypeOK, Stacks, NEW c \in Controller, NEW v, Leave(c, v)
  PROVE  Goes(c, "unlock", v) /\ ~Rolling(c)' /\ ~Retrying(c)'
<1> DEFINE u == <<"unlock">>
<1>1. /\ u \in Seq(Statements) /\ u # <<>> /\ Len(u) = 1 /\ u[1] = "unlock" /\ Head(u) = "unlock"
  BY DEF Statements
<1> HIDE DEF u
<1>2. Chain(u) /\ Within(u, Of(op[c])) /\ ~Has(u, "report_failure")
      /\ ~Resumes(u, "uninstall_retry")
  BY <1>1 DEF Chain, Within, Of, Has, Resumes, Last
<1>3. calls' = [calls EXCEPT ![c] = u] /\ ret' = [ret EXCEPT ![c] = v]
  BY DEF Leave, u
<1>4. calls' \in [Controller -> Seq(Statements)] /\ calls'[c] = u
      /\ \A b \in Controller \ {c} : calls'[b] = calls[b]
  BY <1>1, <1>3 DEF TypeOK
<1> QED
  BY <1>1, <1>2, <1>3, <1>4 DEF Goes, Now, Rolling, Retrying

\* An operation begins.
LEMMA Begins ==
  ASSUME TypeOK, Stacks, NEW c \in Controller, NEW o \in Ops, Begin(c, o)
  PROVE  /\ Now(c) = "idle" /\ Now(c)' = "lock" /\ ~Rolling(c)' /\ ~Retrying(c)'
         /\ calls' \in [Controller -> Seq(Statements)]
         /\ \A b \in Controller \ {c} : calls'[b] = calls[b]
         /\ Chain(calls'[c]) /\ Within(calls'[c], Of(o))
         /\ op' = [op EXCEPT ![c] = o] /\ op' \in [Controller -> Ops \cup {"none"}]
<1> DEFINE u == Program(o)
<1>1. o \in {"enable", "saved", "bypass", "disable", "uninstall"}
  BY LifecycleAssumption
<1>2. /\ u \in Seq(Statements) /\ u # <<>> /\ Len(u) \in Nat \ {0} /\ u[1] = "lock"
      /\ \A k \in 1 .. Len(u) - 1 : u[k + 1] \in After(u[k])
      /\ u[Len(u)] \in Last /\ Within(u, Of(o))
      /\ ~Has(u, "report_failure") /\ ~Resumes(u, "uninstall_retry")
  <2> USE DEF Program, Statements, Of, Stopping, Starting, After, Last, Stopped, Activated,
              Within, Has, Resumes, Resuming
  <2>1. CASE o = "enable"
    BY <2>1
  <2>2. CASE o = "saved"
    BY <2>2
  <2>3. CASE o = "bypass"
    BY <2>3
  <2>4. CASE o = "disable"
    BY <2>4
  <2>5. CASE o = "uninstall"
    BY <2>5
  <2> QED
    BY <1>1, <2>1, <2>2, <2>3, <2>4, <2>5
<1> HIDE DEF u
<1>3. calls' = [calls EXCEPT ![c] = u] /\ calls[c] = <<>> /\ op' = [op EXCEPT ![c] = o]
  BY DEF Begin, u
<1>4. calls' \in [Controller -> Seq(Statements)] /\ calls'[c] = u
      /\ \A b \in Controller \ {c} : calls'[b] = calls[b]
  BY <1>2, <1>3 DEF TypeOK
<1>5. Head(u) = u[1]
  BY <1>2, TailOf
<1>6. Chain(u)
  BY <1>2 DEF Chain
<1>7. op' \in [Controller -> Ops \cup {"none"}]
  BY <1>3 DEF TypeOK
<1> QED
  BY <1>2, <1>3, <1>4, <1>5, <1>6, <1>7 DEF Now, Rolling, Retrying

\* The lock file cannot be opened: the operation is over.
LEMMA OpenFails ==
  ASSUME TypeOK, Stacks, NEW c \in Controller, NEW v,
         calls' = [calls EXCEPT ![c] = <<>>], ret' = [ret EXCEPT ![c] = v]
  PROVE  Goes(c, "idle", v)
<1>1. /\ <<>> \in Seq(Statements) /\ Len(<<>>) = 0
  OBVIOUS
<1>2. Chain(<<>>) /\ Within(<<>>, Of(op[c]))
  BY <1>1 DEF Chain, Within
<1>3. calls' \in [Controller -> Seq(Statements)] /\ calls'[c] = <<>>
      /\ \A b \in Controller \ {c} : calls'[b] = calls[b]
  BY <1>1 DEF TypeOK
<1> QED
  BY <1>2, <1>3 DEF Goes, Now

\* Two ways to write the same calls.
LEMMA StopReplace ==
  /\ (IF TRUE THEN <<"stop">> ELSE <<>>) \o <<"replace">> = <<"stop", "replace">>
  /\ (IF FALSE THEN <<"stop">> ELSE <<>>) \o <<"replace">> = <<"replace">>
<1>1. <<"stop">> \o <<"replace">> = <<"stop", "replace">>
  <2> DEFINE u == <<"stop">> \o <<"replace">>
             w == <<"stop", "replace">>
             S == {"stop", "replace"}
  <2>1. /\ <<"stop">> \in Seq(S) /\ Len(<<"stop">>) = 1
        /\ <<"replace">> \in Seq(S) /\ Len(<<"replace">>) = 1
    OBVIOUS
  <2>2. u \in Seq(S) /\ Len(u) = 2 /\ u[1] = "stop" /\ u[2] = "replace"
    BY <2>1, ConcatOf
  <2>3. w \in Seq(S) /\ Len(w) = 2 /\ w[1] = "stop" /\ w[2] = "replace"
    OBVIOUS
  <2> HIDE DEF u, w, S
  <2>4. u = w
    BY <2>2, <2>3
  <2> QED
    BY <2>4 DEF u, w
<1>2. <<>> \o <<"replace">> = <<"replace">>
  OBVIOUS
<1> QED
  BY <1>1, <1>2

\* Every step of a controller takes it to a statement that can follow.
Turns(c) ==
  \E s, v : /\ Goes(c, s, v) /\ v \in {"ok", "fail"} /\ op' = op
            /\ s \in Fresh =>
                 ~Rolling(c)' /\ ~Retrying(c)'
            /\ Now(c) \notin Outside \cup {"unlock"} => s \notin Outside \cup {"idle"}

\* Every step of a controller is a turn of its stack.
LEMMA StackStep ==
  ASSUME TypeOK, Stacks, NEW c \in Controller, ControllerStep(c)
  PROVE  Turns(c)
<1>1. /\ \A s : At(c, s) <=> Now(c) = s /\ Now(c) # "idle"
      /\ ret[c] \in {"ok", "fail"}
      /\ Now(c) \in Fresh => ~Rolling(c) /\ ~Retrying(c)
  BY HeadOf DEF TypeOK, Stacks
<1> USE <1>1 DEF Turns, Fresh, Outside, localVars
<1>2. CASE OpenLock(c)
  <2>1. op' = op /\ Now(c) = "lock"
    BY <1>2 DEF OpenLock
  <2>2. CASE Then(c, <<"flock">>, "ok")
    BY <2>1, <2>2, Pushes DEF Keeps
  <2>3. CASE calls' = [calls EXCEPT ![c] = <<>>] /\ ret' = [ret EXCEPT ![c] = "fail"]
    <3>1. Goes(c, "idle", "fail")
      BY <2>3, OpenFails, Zenon
    <3> QED
      BY <2>1, <3>1
  <2> QED
    BY <1>2, <2>2, <2>3 DEF OpenLock
<1>3. CASE Acquire(c)
  BY <1>3, Pops, Pushes DEF Acquire, GoesOn, Keeps
<1>4. CASE Release(c)
  BY <1>4, Pops, Pushes DEF Release
<1>5. CASE LoadEnable(c)
  BY <1>5, Pops, Pushes, Leaves DEF LoadEnable
<1>6. CASE RejectProxy(c)
  BY <1>6, Pops, Pushes, Leaves DEF RejectProxy
<1>7. CASE LoadSaved(c)
  BY <1>7, Pops, Pushes, Leaves DEF LoadSaved
<1>8. CASE Activate(c)
  <2>1. op' = op /\ Now(c) = "activate"
    BY <1>8 DEF Activate
  <2>2. \/ Then(c, <<>>, "ok") \/ Then(c, <<"stop", "replace">>, "ok")
        \/ Then(c, <<"replace">>, "ok")
    BY <1>8, StopReplace DEF Activate
  <2> QED
    BY <2>1, <2>2, Pops, Pushes DEF GoesOn, Activated
<1>9. CASE Replace(c)
  BY <1>9, Pops, Pushes DEF Replace, GoesOn, Activated
<1>10. CASE Started(c)
  BY <1>10, Pops, Pushes DEF Started, GoesOn, Activated
<1>11. CASE AfterEnable(c)
  BY <1>11, Pops, Pushes DEF AfterEnable
<1>12. CASE ReportFailure(c)
  BY <1>12, Pops, Pushes DEF ReportFailure
<1>13. CASE LoadBypass(c)
  <2>1. op' = op /\ Now(c) = "load_bypass"
    BY <1>13 DEF LoadBypass
  <2>2. \/ Leave(c, "fail") \/ Then(c, <<>>, "ok") \/ Then(c, <<>>, "fail")
        \/ Then(c, <<"fw_bypass">>, "ok") \/ Then(c, <<"fw_restore">>, "fail")
    BY <1>13 DEF LoadBypass
  <2> QED
    BY <2>1, <2>2, Pops, Pushes, Leaves
<1>14. CASE FirewallBypass(c)
  <2>1. op' = op /\ Now(c) = "fw_bypass"
    BY <1>14 DEF FirewallBypass
  <2>2. Then(c, <<>>, "ok") \/ Then(c, <<"fw_restore">>, "fail")
    BY <1>14 DEF FirewallBypass
  <2> QED
    BY <2>1, <2>2, Pops, Pushes DEF Keeps
<1>15. CASE FirewallRestore(c)
  BY <1>15, Pops, Pushes DEF FirewallRestore
<1>16. CASE FirewallOff(c)
  BY <1>16, Pops, Pushes DEF FirewallOff
<1>17. CASE UnitStopBegin(c)
  <2>1. op' = op /\ Now(c) = "unit_stop"
    BY <1>17 DEF UnitStopBegin
  <2>2. CASE Then(c, <<>>, "ok")
    BY <2>1, <2>2, Pops DEF Keeps
  <2>3. CASE Then(c, <<"unit_wait">>, "ok")
    BY <2>1, <2>3, Pushes DEF Keeps
  <2> QED
    BY <1>17, <2>2, <2>3 DEF UnitStopBegin
<1>18. CASE UnitStopDone(c)
  <2>1. op' = op /\ Now(c) = "unit_wait"
    BY <1>18 DEF UnitStopDone
  <2>2. Then(c, <<>>, "ok")
    BY <1>18 DEF UnitStopDone
  <2> QED
    BY <2>1, <2>2, Pops DEF Keeps
<1>19. CASE UnitRemove(c)
  BY <1>19, Pops DEF UnitRemove
<1>20. CASE UninstallFirewall(c)
  <2>1. op' = op /\ Now(c) = "uninstall_fw"
    BY <1>20 DEF UninstallFirewall
  <2>2. \/ Then(c, <<>>, "ok") \/ Then(c, <<"stop">>, "ok")
    BY <1>20 DEF UninstallFirewall
  <2> QED
    BY <2>1, <2>2, Pops, Pushes
<1>21. CASE UninstallRetry(c)
  BY <1>21, Pops, Pushes DEF UninstallRetry
<1>22. CASE RemoveFiles(c)
  BY <1>22, Pops, Pushes DEF RemoveFiles
<1>23. CASE RemoveLock(c)
  BY <1>23, Pops, Pushes DEF RemoveLock
<1>24. CASE RemoveBinary(c)
  BY <1>24, Pops, Pushes DEF RemoveBinary
<1>25. CASE StopDaemon(c)
  BY <1>25, Pops, Pushes DEF StopDaemon
<1>26. CASE SendTerm(c)
  <2>1. op' = op /\ Now(c) = "term"
    BY <1>26 DEF SendTerm
  <2>2. Then(c, <<"wait">>, "ok")
    BY <1>26 DEF SendTerm
  <2> QED
    BY <2>1, <2>2, Pushes
<1>27. CASE WaitGone(c)
  BY <1>27, Pops, Pushes DEF WaitGone, GoesOn
<1>28. CASE WaitTimeout(c)
  BY <1>28, Pushes DEF WaitTimeout
<1>29. CASE KillGone(c)
  BY <1>29, Pops, Pushes DEF KillGone, GoesOn
<1>30. CASE Sweep(c)
  BY <1>30, Pops, Pushes DEF Sweep
<1>31. CASE ScanDone(c)
  BY <1>31, Pops, Pushes DEF ScanDone, GoesOn
<1>32. CASE StartDaemon(c)
  <2>1. op' = op /\ Now(c) = "start"
    BY <1>32 DEF StartDaemon
  <2>2. CASE Then(c, <<>>, "ok")
    BY <2>1, <2>2, Pops
  <2>3. CASE Then(c, <<"stop", "spawn">>, "ok") \/ Then(c, <<"sweep", "scan", "spawn">>, "ok")
    BY <2>1, <2>3, Pushes
  <2> QED
    BY <1>32, <2>2, <2>3 DEF StartDaemon
<1>33. CASE SpawnFails(c)
  BY <1>33, Pops, Pushes DEF SpawnFails
<1>34. CASE AwaitReady(c)
  BY <1>34, Pops, SMTT(30) DEF AwaitReady
<1>35. CASE AwaitFails(c)
  <2>1. op' = op /\ Now(c) = "await"
    BY <1>35 DEF AwaitFails
  <2>2. Then(c, <<"reap">>, "fail")
    BY <1>35 DEF AwaitFails
  <2> QED
    BY <2>1, <2>2, Pushes
<1>36. CASE Reap(c)
  <2>1. op' = op /\ Now(c) = "reap"
    BY <1>36 DEF Reap
  <2>2. Then(c, <<>>, "fail")
    BY <1>36 DEF Reap
  <2> QED
    BY <2>1, <2>2, Pops
<1>37. ASSUME NEW d \in Daemon, ScanEntry(c, d) PROVE Turns(c)
  <2>1. op' = op /\ Now(c) = "scan"
    BY <1>37 DEF ScanEntry
  <2>2. Then(c, <<"term", "scan">>, "ok") \/ Then(c, <<"scan">>, "ok")
    BY <1>37 DEF ScanEntry
  <2> QED
    BY <2>1, <2>2, Pushes
<1>38. ASSUME NEW d \in Daemon, Spawn(c, d) PROVE Turns(c)
  BY <1>38, Pushes DEF Spawn
<1>39. ASSUME NEW s \in {"port", "port_again"}, PortReleased(c, s) PROVE Turns(c)
  BY <1>39, Pops, Pushes DEF PortReleased, Stopped
<1>40. ASSUME NEW s \in {"port", "port_again"}, PortBusy(c, s) PROVE Turns(c)
  BY <1>40, Pops, Pushes DEF PortBusy, Stopped
<1> QED
  BY <1>2, <1>3, <1>4, <1>5, <1>6, <1>7, <1>8, <1>9, <1>10, <1>11, <1>12, <1>13, <1>14, <1>15,
     <1>16, <1>17, <1>18, <1>19, <1>20, <1>21, <1>22, <1>23, <1>24, <1>25, <1>26, <1>27, <1>28,
     <1>29, <1>30, <1>31, <1>32, <1>33, <1>34, <1>35, <1>36, <1>37, <1>38, <1>39, <1>40
  DEF ControllerStep

-----------------------------------------------------------------------------
(* Types.                                                                    *)

\* What the operations keep in files and in the system, and in their local variables.
Process == [state : Execed \cup {"none", "forked", "zombie"}, cfg : Config \cup {None},
            term : BOOLEAN, parent : Controller \cup {Systemd, InitProcess, None},
            ready : {"none", "R", "E"}]
Procs ==
  /\ proc \in [Daemon -> Process] /\ listener \in Daemon \cup {None}
  /\ \A d \in Daemon : proc[d].state \in Execed \ {"init"} => proc[d].cfg # None
Disk ==
  /\ config \in Config \cup {None} /\ fw \in Config \cup {None}
  /\ pidfile \in Daemon \cup {None} /\ lock \subseteq Controller
  /\ unit \in BOOLEAN /\ binary \in BOOLEAN /\ forced \in BOOLEAN /\ crashed \in BOOLEAN
Locals ==
  /\ arg \in [Controller -> Config \cup {None}] /\ prev \in [Controller -> Config \cup {None}]
  /\ was \in [Controller -> BOOLEAN]
  /\ target \in [Controller -> Daemon \cup {None}]
  /\ todo \in [Controller -> SUBSET Daemon]
  /\ bad \in [Controller -> SUBSET {"service", "stop", "firewall"}]
Counts ==
  /\ faults \in 0 .. MaxFaults /\ crashes \in 0 .. MaxCrashes /\ units \in 0 .. MaxUnitStarts

\* The end of a process, a signal and waitpid.
LEMMA ProcsEnd ==
  ASSUME Procs, NEW d \in Daemon
  PROVE  /\ Dies(d) => Procs'
         /\ Terminate(d) => Procs'
         /\ proc' = [proc EXCEPT ![d] = NoProcess] /\ listener' = listener => Procs'
         /\ UNCHANGED <<proc, listener>> => Procs'
<1>1. NoProcess \in Process /\ None \notin Daemon
  BY LifecycleAssumption DEF NoProcess, Process, Execed
<1>2. /\ proc[d] \in Process /\ proc \in [Daemon -> Process] /\ listener \in Daemon \cup {None}
      /\ proc[d].state \in Execed \ {"init"} => proc[d].cfg # None
      /\ \A e \in Daemon : proc[e].state \in Execed \ {"init"} => proc[e].cfg # None
  BY DEF Procs
<1>3. ASSUME NEW p \in Process, p.state \in Execed \ {"init"} => p.cfg # None,
             proc' = [proc EXCEPT ![d] = p], listener' \in {listener, None}
      PROVE  Procs'
  BY <1>2, <1>3 DEF Procs
<1>4. /\ [proc[d] EXCEPT !.state = "zombie"] \in Process
      /\ [proc[d] EXCEPT !.state = "zombie"].state = "zombie"
      /\ [proc[d] EXCEPT !.term = TRUE] \in Process
      /\ [proc[d] EXCEPT !.term = TRUE].state = proc[d].state
      /\ [proc[d] EXCEPT !.term = TRUE].cfg = proc[d].cfg
  BY <1>2 DEF Process
<1>5. NoProcess.state = "none" /\ "none" \notin Execed /\ "zombie" \notin Execed
  BY DEF NoProcess, Execed
<1>6. ASSUME Dies(d) PROVE Procs'
  <2>1. \E p \in {NoProcess, [proc[d] EXCEPT !.state = "zombie"]} : proc' = [proc EXCEPT ![d] = p]
    BY <1>6 DEF Dies
  <2>2. listener' \in {listener, None}
    BY <1>6 DEF Dies
  <2> QED
    BY <1>1, <1>3, <1>4, <1>5, <2>1, <2>2
<1>7. ASSUME Terminate(d) PROVE Procs'
  <2>1. CASE /\ proc' = [proc EXCEPT ![d].term = TRUE] /\ listener' = listener
    <3>1. proc' = [proc EXCEPT ![d] = [proc[d] EXCEPT !.term = TRUE]]
      BY <1>2, <2>1
    <3> QED
      BY <1>2, <1>3, <1>4, <2>1, <3>1
  <2>2. CASE UNCHANGED <<proc, listener>>
    BY <2>2 DEF Procs
  <2> QED
    BY <1>6, <1>7, <2>1, <2>2 DEF Terminate
<1>8. UNCHANGED <<proc, listener>> => Procs'
  BY DEF Procs
<1> QED
  BY <1>1, <1>3, <1>5, <1>6, <1>7, <1>8

Typed == Procs /\ Disk /\ Locals /\ Counts
Aimed(c) ==
  Now(c) \in {"term", "wait", "killed", "await", "reap", "unit_wait"} => target[c] \in Daemon

\* A controller's step keeps the types.
LEMMA TypedController ==
  ASSUME TypeOK, Stacks, NEW c \in Controller, ControllerStep(c)
  PROVE  Typed'
<1>1. /\ Procs /\ Disk /\ Locals /\ Counts /\ None \notin Daemon \cup Config
  BY LifecycleAssumption DEF TypeOK, Procs, Disk, Locals, Counts, Process
<1>2. /\ Aimed(c) /\ \A s : At(c, s) => Now(c) = s
  BY HeadOf DEF Stacks, Aimed
<1>0. Fault \/ NoFault => faults' \in 0 .. MaxFaults /\ forced' \in BOOLEAN
  <2>1. MaxFaults \in Nat
    BY LifecycleAssumption, Zenon
  <2>2. faults \in 0 .. MaxFaults /\ forced \in BOOLEAN
    BY <1>1 DEF Counts, Disk
  <2>3. CASE Fault
    <3>1. faults < MaxFaults /\ faults' = faults + 1 /\ forced' = TRUE
      BY <2>3 DEF Fault
    <3> QED
      BY <2>1, <2>2, <3>1
  <2>4. CASE NoFault
    BY <2>2, <2>4 DEF NoFault
  <2> QED
    BY <2>3, <2>4
<1> USE <1>0, <1>1, LifecycleAssumption DEF Typed, diskVars, hostVars, localVars, countVars
<1>3. CASE OpenLock(c)
  BY <1>3 DEF OpenLock, Procs, Disk, Locals, Counts
<1>4. CASE Acquire(c)
  BY <1>4 DEF Acquire, Procs, Disk, Locals, Counts
<1>5. CASE Release(c)
  BY <1>5 DEF Release, Procs, Disk, Locals, Counts
<1>6. CASE LoadEnable(c)
  <2>1. PICK p \in Proxy : arg' = [arg EXCEPT ![c] =
                              [proxy |-> p, bypass |-> IF config = None THEN {} ELSE config.bypass]]
    BY <1>6 DEF LoadEnable
  <2>2. [proxy |-> p, bypass |-> IF config = None THEN {} ELSE config.bypass] \in Config
    BY DEF Config, Disk
  <2>3. arg' \in [Controller -> Config \cup {None}] /\ arg'[c] \in Config
    BY <2>1, <2>2 DEF Locals
  <2>4. prev' \in [Controller -> Config \cup {None}] /\ was' \in [Controller -> BOOLEAN]
    BY <1>6 DEF LoadEnable, Locals, Disk, Recorded
  <2>5. config' \in Config \cup {None} /\ (Fault \/ NoFault)
    BY <1>6, <2>3 DEF LoadEnable, Disk
  <2> QED
    BY <1>6, <2>3, <2>4, <2>5 DEF LoadEnable, Procs, Disk, Locals, Counts
<1>7. CASE RejectProxy(c)
  BY <1>7 DEF RejectProxy, Procs, Disk, Locals, Counts
<1>8. CASE LoadSaved(c)
  BY <1>8 DEF LoadSaved, Procs, Disk, Locals, Counts
<1>9. CASE Activate(c)
  BY <1>9 DEF Activate, Procs, Disk, Locals, Counts
<1>10. CASE Replace(c)
  BY <1>10 DEF Replace, Procs, Disk, Locals, Counts
<1>11. CASE Started(c)
  BY <1>11 DEF Started, Procs, Disk, Locals, Counts
<1>12. CASE AfterEnable(c)
  BY <1>12 DEF AfterEnable, Procs, Disk, Locals, Counts
<1>13. CASE ReportFailure(c)
  BY <1>13 DEF ReportFailure, Procs, Disk, Locals, Counts
<1>14. CASE LoadBypass(c)
  <2>1. CASE NoFault /\ UNCHANGED <<config, arg, prev, was>>
    BY <1>14, <2>1 DEF LoadBypass, Procs, Disk, Locals, Counts
  <2>2. CASE /\ config # None
             /\ \E b \in Bypass : arg' = [arg EXCEPT ![c] = [config EXCEPT !.bypass = b]]
    <3>1. PICK b \in Bypass : arg' = [arg EXCEPT ![c] = [config EXCEPT !.bypass = b]]
      BY <2>2
    <3>2. [config EXCEPT !.bypass = b] \in Config
      BY <2>2 DEF Config, Disk
    <3>3. arg' \in [Controller -> Config \cup {None}] /\ arg'[c] \in Config
      BY <3>1, <3>2 DEF Locals
    <3>4. \/ NoFault /\ UNCHANGED <<config, arg, prev, was>>
          \/ /\ prev' = [prev EXCEPT ![c] = config] /\ was' = [was EXCEPT ![c] = Recorded]
             /\ config' \in {config, arg'[c]} /\ (Fault \/ NoFault)
      BY <1>14 DEF LoadBypass
    <3>5. CASE /\ prev' = [prev EXCEPT ![c] = config] /\ was' = [was EXCEPT ![c] = Recorded]
               /\ config' \in {config, arg'[c]} /\ (Fault \/ NoFault)
      <4>1. prev' \in [Controller -> Config \cup {None}] /\ was' \in [Controller -> BOOLEAN]
        BY <3>5 DEF Locals, Disk, Recorded
      <4> QED
        BY <1>14, <3>3, <3>5, <4>1 DEF LoadBypass, Procs, Disk, Locals, Counts
    <3> QED
      BY <2>1, <3>4, <3>5
  <2> QED
    BY <1>14, <2>1, <2>2 DEF LoadBypass
<1>15. CASE FirewallBypass(c)
  BY <1>15 DEF FirewallBypass, Procs, Disk, Locals, Counts
<1>16. CASE FirewallRestore(c)
  BY <1>16 DEF FirewallRestore, Procs, Disk, Locals, Counts
<1>17. CASE FirewallOff(c)
  BY <1>17 DEF FirewallOff, Procs, Disk, Locals, Counts
<1>18. CASE UnitStopBegin(c)
  <2>1. ASSUME NEW d \in Daemon, Terminate(d), target' = [target EXCEPT ![c] = d], NoFault
        PROVE  Typed'
    BY <1>18, <2>1, ProcsEnd DEF UnitStopBegin, Disk, Locals, Counts
  <2>2. CASE (NoFault \/ Fault) /\ UNCHANGED <<proc, listener, target>>
    BY <1>18, <2>2 DEF UnitStopBegin, Procs, Disk, Locals, Counts
  <2> QED
    BY <1>18, <2>1, <2>2 DEF UnitStopBegin
<1>19. CASE UnitStopDone(c)
  BY <1>19 DEF UnitStopDone, Procs, Disk, Locals, Counts
<1>20. CASE UnitRemove(c)
  <2>1. unit' \in BOOLEAN /\ (Fault \/ NoFault)
    BY <1>20 DEF UnitRemove, Disk
  <2>2. bad[c] \cup {"service"} \in SUBSET {"service", "stop", "firewall"}
    BY DEF Locals
  <2>3. bad' = bad \/ bad' = [bad EXCEPT ![c] = bad[c] \cup {"service"}]
    BY <1>20 DEF UnitRemove
  <2>4. bad' \in [Controller -> SUBSET {"service", "stop", "firewall"}]
    BY <2>2, <2>3 DEF Locals
  <2> QED
    BY <1>20, <2>1, <2>4 DEF UnitRemove, Procs, Disk, Locals, Counts
<1>21. CASE UninstallFirewall(c)
  BY <1>21 DEF UninstallFirewall, Procs, Disk, Locals, Counts
<1>22. CASE UninstallRetry(c)
  BY <1>22 DEF UninstallRetry, Procs, Disk, Locals, Counts
<1>23. CASE RemoveFiles(c)
  BY <1>23 DEF RemoveFiles, Procs, Disk, Locals, Counts
<1>24. CASE RemoveLock(c)
  BY <1>24 DEF RemoveLock, Procs, Disk, Locals, Counts
<1>25. CASE RemoveBinary(c)
  BY <1>25 DEF RemoveBinary, Procs, Disk, Locals, Counts
<1>26. CASE StopDaemon(c)
  BY <1>26 DEF StopDaemon, Procs, Disk, Locals, Counts
<1>27. CASE SendTerm(c)
  <2>1. Procs'
    BY <1>2, <1>27, ProcsEnd DEF SendTerm, Aimed
  <2> QED
    BY <1>27, <2>1 DEF SendTerm, Disk, Locals, Counts
<1>28. CASE WaitGone(c)
  <2>1. Procs'
    BY <1>2, <1>28, ProcsEnd DEF WaitGone, Collect, Aimed
  <2> QED
    BY <1>28, <2>1 DEF WaitGone, Disk, Locals, Counts
<1>29. CASE WaitTimeout(c)
  <2>1. Procs'
    BY <1>2, <1>29, ProcsEnd DEF WaitTimeout, Aimed
  <2> QED
    BY <1>29, <2>1 DEF WaitTimeout, Disk, Locals, Counts
<1>30. CASE KillGone(c)
  BY <1>30 DEF KillGone, Procs, Disk, Locals, Counts
<1>31. CASE Sweep(c)
  BY <1>31 DEF Sweep, Procs, Disk, Locals, Counts
<1>32. CASE ScanDone(c)
  BY <1>32 DEF ScanDone, Procs, Disk, Locals, Counts
<1>33. CASE StartDaemon(c)
  BY <1>33 DEF StartDaemon, Procs, Disk, Locals, Counts
<1>34. CASE SpawnFails(c)
  BY <1>34 DEF SpawnFails, Procs, Disk, Locals, Counts
<1>35. CASE AwaitReady(c)
  BY <1>35 DEF AwaitReady, Procs, Disk, Locals, Counts
<1>36. CASE AwaitFails(c)
  <2>1. Procs'
    BY <1>2, <1>36, ProcsEnd DEF AwaitFails, Aimed
  <2> QED
    BY <1>36, <2>1 DEF AwaitFails, Disk, Locals, Counts
<1>37. CASE Reap(c)
  <2>1. Procs'
    BY <1>2, <1>37, ProcsEnd DEF Reap, Collect, Aimed
  <2> QED
    BY <1>37, <2>1 DEF Reap, Disk, Locals, Counts
<1>38. ASSUME NEW d \in Daemon, ScanEntry(c, d) PROVE Typed'
  BY <1>38 DEF ScanEntry, Procs, Disk, Locals, Counts
<1>39. ASSUME NEW d \in Daemon, Spawn(c, d) PROVE Typed'
  BY <1>39 DEF Spawn, Procs, Disk, Locals, Counts, NewProcess, NoProcess, Process, Execed
<1>40. ASSUME NEW s \in {"port", "port_again"}, PortReleased(c, s) PROVE Typed'
  BY <1>40 DEF PortReleased, Procs, Disk, Locals, Counts
<1>41. ASSUME NEW s \in {"port", "port_again"}, PortBusy(c, s) PROVE Typed'
  BY <1>41 DEF PortBusy, Procs, Disk, Locals, Counts
<1> QED
  BY <1>3, <1>4, <1>5, <1>6, <1>7, <1>8, <1>9, <1>10, <1>11, <1>12, <1>13, <1>14, <1>15, <1>16,
     <1>17, <1>18, <1>19, <1>20, <1>21, <1>22, <1>23, <1>24, <1>25, <1>26, <1>27, <1>28,
     <1>29, <1>30, <1>31, <1>32, <1>33, <1>34, <1>35, <1>36, <1>37, <1>38, <1>39, <1>40, <1>41
  DEF ControllerStep

\* What follows a statement that sets no target is no statement that needs one.
Hits(c) == Aimed(c)' /\ target' \in [Controller -> Daemon \cup {None}]
           /\ \A b \in Controller \ {c} : target'[b] = target[b]

\* A controller that stops or starts a forwarder has one for a target.
LEMMA TargetStep ==
  ASSUME TypeOK, Stacks, NEW c \in Controller, ControllerStep(c)
  PROVE  Hits(c)
<1>1. /\ \A s : At(c, s) <=> Now(c) = s /\ Now(c) # "idle"
      /\ target \in [Controller -> Daemon \cup {None}] /\ None \notin Daemon
      /\ pidfile \in Daemon \cup {None}
      /\ Aimed(c)
  BY HeadOf, LifecycleAssumption DEF TypeOK, Stacks, Aimed
<1>2. \A s, v : Goes(c, s, v) => Now(c)' = s
  BY DEF Goes
<1> USE <1>1, <1>2 DEF Hits, Aimed, localVars
<1>3. CASE OpenLock(c)
  <2>1. Now(c) = "lock" /\ target' = target
    BY <1>3 DEF OpenLock
  <2>2. CASE Then(c, <<"flock">>, "ok")
    BY <2>1, <2>2, Pushes
  <2>3. CASE calls' = [calls EXCEPT ![c] = <<>>] /\ ret' = [ret EXCEPT ![c] = "fail"]
    <3>1. Goes(c, "idle", "fail")
      BY <2>3, OpenFails, Zenon
    <3> QED
      BY <2>1, <3>1
  <2> QED
    BY <1>3, <2>2, <2>3 DEF OpenLock
<1>4. CASE Acquire(c)
  BY <1>4, Pops DEF Acquire, GoesOn
<1>5. CASE Release(c)
  BY <1>5, Pops DEF Release
<1>6. CASE LoadEnable(c)
  BY <1>6, Pops, Leaves DEF LoadEnable
<1>7. CASE RejectProxy(c)
  BY <1>7, Pops, Leaves DEF RejectProxy
<1>8. CASE LoadSaved(c)
  BY <1>8, Pops, Leaves DEF LoadSaved
<1>9. CASE Activate(c)
  <2>1. target' = target /\ Now(c) = "activate"
    BY <1>9 DEF Activate
  <2>2. \/ Then(c, <<>>, "ok") \/ Then(c, <<"stop", "replace">>, "ok")
        \/ Then(c, <<"replace">>, "ok")
    BY <1>9, StopReplace DEF Activate
  <2> QED
    BY <2>1, <2>2, Pops, Pushes DEF GoesOn, Activated
<1>10. CASE Replace(c)
  BY ZenonT(40), <1>10, Pops, Pushes DEF Replace, GoesOn, Activated
<1>11. CASE Started(c)
  BY <1>11, Pops DEF Started, GoesOn, Activated
<1>12. CASE AfterEnable(c)
  BY <1>12, Pops, Pushes DEF AfterEnable
<1>13. CASE ReportFailure(c)
  BY <1>13, Pops DEF ReportFailure
<1>14. CASE LoadBypass(c)
  BY <1>14, Pops, Pushes, Leaves DEF LoadBypass
<1>15. CASE FirewallBypass(c)
  BY <1>15, Pops, Pushes DEF FirewallBypass
<1>16. CASE FirewallRestore(c)
  BY <1>16, Pops DEF FirewallRestore
<1>17. CASE FirewallOff(c)
  BY <1>17, Pops DEF FirewallOff
<1>18. CASE UnitStopBegin(c)
  <2>1. \/ \E d \in Daemon : target' = [target EXCEPT ![c] = d] /\ Then(c, <<"unit_wait">>, "ok")
        \/ target' = target /\ Then(c, <<>>, "ok")
    BY <1>18 DEF UnitStopBegin
  <2>2. Now(c) = "unit_stop"
    BY <1>18 DEF UnitStopBegin
  <2> QED
    BY SMTT(30), <2>1, <2>2, Pops, Pushes
<1>19. CASE UnitStopDone(c)
  BY <1>19, Pops DEF UnitStopDone
<1>20. CASE UnitRemove(c)
  BY <1>20, Pops DEF UnitRemove
<1>21. CASE UninstallFirewall(c)
  BY <1>21, Pops, Pushes DEF UninstallFirewall
<1>22. CASE UninstallRetry(c)
  BY <1>22, Pops DEF UninstallRetry
<1>23. CASE RemoveFiles(c)
  BY <1>23, Pops DEF RemoveFiles
<1>24. CASE RemoveLock(c)
  BY <1>24, Pops DEF RemoveLock
<1>25. CASE RemoveBinary(c)
  BY <1>25, Pops DEF RemoveBinary
<1>26. CASE StopDaemon(c)
  BY SMTT(30), <1>26, Pops, Pushes DEF StopDaemon, Recorded
<1>27. CASE SendTerm(c)
  BY <1>27, Pops, Pushes DEF SendTerm
<1>28. CASE WaitGone(c)
  BY <1>28, Pops DEF WaitGone, GoesOn
<1>29. CASE WaitTimeout(c)
  BY <1>29, Pops, Pushes DEF WaitTimeout
<1>30. CASE KillGone(c)
  BY <1>30, Pops DEF KillGone, GoesOn
<1>31. CASE Sweep(c)
  BY <1>31, Pops DEF Sweep
<1>32. CASE ScanDone(c)
  BY <1>32, Pops DEF ScanDone, GoesOn
<1>33. CASE StartDaemon(c)
  BY <1>33, Pops, Pushes DEF StartDaemon
<1>34. CASE SpawnFails(c)
  BY <1>34, Pops DEF SpawnFails
<1>35. CASE AwaitReady(c)
  BY <1>35, Pops DEF AwaitReady
<1>36. CASE AwaitFails(c)
  BY <1>36, Pops, Pushes DEF AwaitFails
<1>37. CASE Reap(c)
  BY <1>37, Pops DEF Reap
<1>38. ASSUME NEW d \in Daemon, ScanEntry(c, d) PROVE Hits(c)
  BY <1>38, Pops, Pushes DEF ScanEntry
<1>39. ASSUME NEW d \in Daemon, Spawn(c, d) PROVE Hits(c)
  BY <1>39, Pops, Pushes DEF Spawn, Stopped
<1>40. ASSUME NEW s \in {"port", "port_again"}, PortReleased(c, s) PROVE Hits(c)
  BY <1>40, Pops, Pushes DEF PortReleased, Stopped
<1>41. ASSUME NEW s \in {"port", "port_again"}, PortBusy(c, s) PROVE Hits(c)
  BY <1>41, Pops, Pushes DEF PortBusy, Stopped
<1> QED
  BY <1>3, <1>4, <1>5, <1>6, <1>7, <1>8, <1>9, <1>10, <1>11, <1>12, <1>13, <1>14, <1>15, <1>16,
     <1>17, <1>18, <1>19, <1>20, <1>21, <1>22, <1>23, <1>24, <1>25, <1>26, <1>27, <1>28, <1>29,
     <1>30, <1>31, <1>32, <1>33, <1>34, <1>35, <1>36, <1>37, <1>38, <1>39, <1>40, <1>41
  DEF ControllerStep

\* A process that is set anew.
LEMMA ProcsSet ==
  ASSUME Procs, NEW d \in Daemon, NEW p \in Process, p.state \in Execed \ {"init"} => p.cfg # None,
         proc' = [proc EXCEPT ![d] = p], listener' \in Daemon \cup {None}
  PROVE  Procs'
BY DEF Procs

\* A step of a forwarder or of systemd keeps the types, and the controllers as they are.
OnlyForwarders == UNCHANGED <<calls, ret, localVars, lock, hostVars, opcount>>
\* A forwarder's step keeps the types and the controllers.
LEMMA TypedForwarder ==
  ASSUME Typed, NEW d \in Daemon, DaemonStep(d) \/ Crash(d) \/ UnitStart(d) \/ UnitStop(d)
  PROVE  Typed' /\ OnlyForwarders
<1>1. /\ Procs /\ Disk /\ Locals /\ Counts /\ None \notin Daemon \cup Config
      /\ {MaxFaults, MaxCrashes, MaxUnitStarts} \subseteq Nat
  BY LifecycleAssumption DEF Typed
<1>2. /\ proc \in [Daemon -> Process] /\ proc[d] \in Process
      /\ proc[d].state \in Execed \ {"init"} => proc[d].cfg # None
  BY <1>1 DEF Procs
<1>3. OnlyForwarders
  BY DEF DaemonStep, Crash, UnitStart, UnitStop, Exec, LoadConfig, Bind, WritePid, Install,
         StartFails, CloseListener, RemovePid, Exit, OnlyForwarders, countVars, hostVars
<1>4. Locals' /\ lock' \subseteq Controller /\ unit' \in BOOLEAN /\ binary' \in BOOLEAN
  BY <1>1, <1>3 DEF Locals, Disk, OnlyForwarders, localVars, hostVars
<1>5. ASSUME NEW s \in Execed, proc[d].state \in Execed \ {"init"},
             NEW r \in {"R", "E"},
             \/ proc' = [proc EXCEPT ![d].state = s]
             \/ proc' = [proc EXCEPT ![d].state = s, ![d].ready = r],
             listener' \in {listener, d, None}
      PROVE  Procs'
  <2>1. PICK p \in {[proc[d] EXCEPT !.state = s], [proc[d] EXCEPT !.state = s, !.ready = r]} :
          proc' = [proc EXCEPT ![d] = p]
    BY <1>2, <1>5
  <2>2. p \in Process /\ p.cfg = proc[d].cfg
    BY <1>2, <1>5 DEF Process
  <2> QED
    BY <1>1, <1>2, <1>5, <2>1, <2>2, ProcsSet DEF Procs
<1>6. CASE Exec(d)
  <2>1. ASSUME proc' = [proc EXCEPT ![d].state = "init"], listener' = listener PROVE Procs'
    <3>1. PICK p \in {[proc[d] EXCEPT !.state = "init"]} : proc' = [proc EXCEPT ![d] = p]
      BY <1>2, <2>1
    <3>2. p \in Process /\ p.state = "init"
      BY <1>2 DEF Process, Execed
    <3> QED
      BY <1>1, <2>1, <3>1, <3>2, ProcsSet DEF Procs
  <2>2. \/ proc' = [proc EXCEPT ![d].state = "init"] /\ listener' = listener
        \/ Dies(d)
    BY <1>6, Zenon DEF Exec
  <2>3. Dies(d) => Procs'
    BY <1>1, ProcsEnd
  <2>4. Procs'
    BY <2>1, <2>2, <2>3, Zenon
  <2> QED
    BY <1>1, <1>3, <1>4, <1>6, <2>4 DEF Exec, Typed, Disk, Counts, diskVars, countVars
<1>7. CASE LoadConfig(d)
  <2>1. ASSUME config # None, proc' = [proc EXCEPT ![d].state = "loaded", ![d].cfg = config],
               listener' = listener
        PROVE  Procs'
    <3>1. PICK p \in {[proc[d] EXCEPT !.state = "loaded", !.cfg = config]} :
            proc' = [proc EXCEPT ![d] = p]
      BY <1>2, <2>1
    <3>2. p \in Process /\ p.cfg = config
      BY <1>1, <1>2 DEF Process, Execed, Disk
    <3> QED
      BY <1>1, <2>1, <3>1, <3>2, ProcsSet DEF Procs
  <2>2. \/ /\ config # None /\ proc' = [proc EXCEPT ![d].state = "loaded", ![d].cfg = config]
           /\ listener' = listener
        \/ Dies(d)
    BY <1>7, Zenon DEF LoadConfig
  <2>3. Dies(d) => Procs'
    BY <1>1, ProcsEnd
  <2>4. Procs'
    BY <2>1, <2>2, <2>3, Zenon
  <2> QED
    BY <1>1, <1>3, <1>4, <1>7, <2>4 DEF LoadConfig, Typed, Disk, Counts, diskVars, countVars
<1>8. CASE Bind(d)
  <2>1. Procs'
    BY <1>5, <1>8 DEF Bind, Execed
  <2> QED
    BY <1>1, <1>3, <1>4, <1>8, <2>1 DEF Bind, Typed, Disk, Counts, diskVars, countVars
<1>9. CASE WritePid(d)
  <2>1. Procs'
    BY <1>5, <1>9 DEF WritePid, Execed
  <2> QED
    BY <1>1, <1>3, <1>4, <1>9, <2>1 DEF WritePid, Typed, Disk, Counts, diskVars, countVars
<1>10. CASE Install(d)
  <2>1. Procs'
    BY <1>5, <1>10 DEF Install, Execed
  <2>2. proc[d].cfg \in Config
    BY <1>2, <1>10 DEF Install, Process, Execed
  <2> QED
    BY <1>1, <1>3, <1>4, <1>10, <2>1, <2>2 DEF Install, Typed, Disk, Counts, diskVars, countVars
<1>11. Fault \/ NoFault => faults' \in 0 .. MaxFaults /\ forced' \in BOOLEAN
  <2>1. MaxFaults \in Nat /\ faults \in 0 .. MaxFaults /\ forced \in BOOLEAN
    BY <1>1 DEF Counts, Disk
  <2>2. CASE Fault
    <3>1. faults < MaxFaults /\ faults' = faults + 1 /\ forced' = TRUE
      BY <2>2 DEF Fault
    <3> QED
      BY <2>1, <3>1
  <2>3. CASE NoFault
    BY <2>1, <2>3 DEF NoFault
  <2> QED
    BY <2>2, <2>3
<1>12. CASE StartFails(d)
  <2>1. Procs'
    BY <1>5, <1>12 DEF StartFails, Execed
  <2> QED
    BY <1>1, <1>3, <1>4, <1>11, <1>12, <2>1 DEF StartFails, Typed, Disk, Counts
<1>13. CASE CloseListener(d)
  <2>1. Procs'
    BY <1>5, <1>13 DEF CloseListener, LeaveLoop, Execed
  <2> QED
    BY <1>1, <1>3, <1>4, <1>13, <2>1 DEF CloseListener, Typed, Disk, Counts, diskVars, countVars
<1>14. CASE RemovePid(d)
  <2>1. Procs'
    BY <1>5, <1>14 DEF RemovePid, Execed
  <2> QED
    BY <1>1, <1>3, <1>4, <1>14, <2>1 DEF RemovePid, Typed, Disk, Counts, diskVars, countVars
<1>15. CASE Exit(d)
  <2>1. Procs'
    BY <1>1, <1>15, ProcsEnd DEF Exit
  <2> QED
    BY <1>1, <1>3, <1>4, <1>11, <1>15, <2>1 DEF Exit, Typed, Disk, Counts, diskVars
<1>16. CASE Crash(d)
  <2>1. Procs'
    BY <1>1, <1>5, <1>16, ProcsEnd DEF Crash, LeaveLoop, Execed
  <2>2. crashes' \in 0 .. MaxCrashes
    <3>1. /\ MaxCrashes \in Nat /\ crashes \in 0 .. MaxCrashes
          /\ crashes < MaxCrashes /\ crashes' = crashes + 1
      BY <1>1, <1>16 DEF Crash, Counts
    <3> QED
      BY <3>1
  <2> QED
    BY <1>1, <1>3, <1>4, <1>16, <2>1, <2>2 DEF Crash, Typed, Disk, Counts, diskVars
<1>17. CASE UnitStart(d)
  <2> DEFINE p == [NoProcess EXCEPT !.state = "init", !.parent = Systemd]
  <2>1. p \in Process /\ p.state = "init"
    BY DEF NoProcess, Process, Execed
  <2>2. proc' = [proc EXCEPT ![d] = p] /\ listener' = listener
    BY <1>17 DEF UnitStart, NewProcess
  <2> HIDE DEF p
  <2>3. Procs'
    BY <1>1, <2>1, <2>2, ProcsSet DEF Procs
  <2>4. units' \in 0 .. MaxUnitStarts
    <3>1. /\ MaxUnitStarts \in Nat /\ units \in 0 .. MaxUnitStarts
          /\ units < MaxUnitStarts /\ units' = units + 1
      BY <1>1, <1>17 DEF UnitStart, Counts
    <3> QED
      BY <3>1
  <2> QED
    BY <1>1, <1>3, <1>4, <1>17, <2>3, <2>4 DEF UnitStart, Typed, Disk, Counts, diskVars
<1>18. CASE UnitStop(d)
  <2>1. Procs'
    BY <1>1, <1>18, ProcsEnd DEF UnitStop
  <2> QED
    BY <1>1, <1>3, <1>4, <1>18, <2>1 DEF UnitStop, Typed, Disk, Counts, diskVars, countVars
<1> QED
  BY <1>3, <1>6, <1>7, <1>8, <1>9, <1>10, <1>12, <1>13, <1>14, <1>15, <1>16, <1>17, <1>18
  DEF DaemonStep

\* A controller that begins an operation or exits keeps the types.
LEMMA TypedIdle ==
  ASSUME Typed, NEW c \in Controller, (\E o \in Ops : Begin(c, o)) \/ Quit(c)
  PROVE  Typed'
<1>1. CASE \E o \in Ops : Begin(c, o)
  BY <1>1 DEF Begin, Typed, Procs, Disk, Locals, Counts, diskVars, hostVars
<1>2. CASE Quit(c)
  <2>1. proc \in [Daemon -> Process] /\ NoProcess \in Process /\ NoProcess.state = "none"
    BY DEF Typed, Procs, NoProcess, Process
  <2>2. ASSUME NEW d \in Daemon
        PROVE  /\ [proc[d] EXCEPT !.parent = InitProcess] \in Process
               /\ [proc[d] EXCEPT !.parent = InitProcess].cfg = proc[d].cfg
               /\ [proc[d] EXCEPT !.parent = InitProcess].state = proc[d].state
    BY <2>1 DEF Process
  <2>3. /\ proc' = [d \in Daemon |->
                      IF proc[d].parent # c THEN proc[d]
                      ELSE IF proc[d].state = "zombie" THEN NoProcess
                      ELSE [proc[d] EXCEPT !.parent = InitProcess]]
        /\ listener' = listener
    BY <1>2 DEF Quit
  <2>4. Procs'
    BY <2>1, <2>2, <2>3 DEF Typed, Procs, Execed
  <2> QED
    BY <1>2, <2>4 DEF Quit, Typed, Disk, Locals, Counts, diskVars, hostVars, localVars, countVars
<1> QED
  BY <1>1, <1>2

-----------------------------------------------------------------------------
(* Stacks, the lock and the types are invariant.                             *)

\* Only these touch the lock.
LockStep(c) == OpenLock(c) \/ Acquire(c) \/ Release(c) \/ RemoveLock(c)
\* The lock files are touched by a few statements only.
LEMMA LockFrame ==
  ASSUME NEW c \in Controller, ControllerStep(c)
  PROVE  /\ calls[c] # <<>> /\ opcount' = opcount /\ op' = op
         /\ \/ LockStep(c)
            \/ /\ UNCHANGED <<lock, opened, lockfile>>
               /\ ~At(c, "lock") /\ ~At(c, "flock") /\ ~At(c, "unlock") /\ ~At(c, "remove_lock")
BY DEF ControllerStep, LockStep, At, localVars, countVars, hostVars,
  OpenLock, Acquire, Release, LoadEnable, RejectProxy, LoadSaved, Activate, Replace, Started,
  AfterEnable, ReportFailure, LoadBypass, FirewallBypass, FirewallRestore, FirewallOff,
  UnitStopBegin, UnitStopDone, UnitRemove, UninstallFirewall, UninstallRetry, RemoveFiles,
  RemoveLock, RemoveBinary, StopDaemon, SendTerm, WaitGone, WaitTimeout, KillGone, Sweep,
  ScanDone, StartDaemon, SpawnFails, AwaitReady, AwaitFails, Reap, ScanEntry, Spawn,
  PortReleased, PortBusy

\* A controller whose stack is left alone is where it was.
LEMMA SameStack ==
  ASSUME NEW b \in Controller, calls'[b] = calls[b]
  PROVE  Now(b)' = Now(b) /\ (Rolling(b)' <=> Rolling(b)) /\ (Retrying(b)' <=> Retrying(b))
BY DEF Now, Rolling, Retrying

\* A step leaves every stack a chain of its operation's statements.
Stacked(c) ==
  /\ Chain(calls[c]) /\ Within(calls[c], Of(op[c]))
  /\ calls[c] # <<>> => op[c] \in Ops
  /\ Aimed(c)
  /\ Now(c) \in Fresh => ~Rolling(c) /\ ~Retrying(c)

\* Stacks is inductive.
LEMMA StacksNext ==
  ASSUME TypeOK, Stacks, Next
  PROVE  Stacks' /\ calls' \in [Controller -> Seq(Statements)]
         /\ ret' \in [Controller -> {"ok", "fail"}] /\ op' \in [Controller -> Ops \cup {"none"}]
<1>1. /\ Typed /\ \A b \in Controller : Stacked(b)
      /\ calls \in [Controller -> Seq(Statements)]
      /\ ret \in [Controller -> {"ok", "fail"}] /\ op \in [Controller -> Ops \cup {"none"}]
  BY DEF TypeOK, Typed, Procs, Disk, Locals, Counts, Process, Stacks, Stacked, Aimed
<1>2. ASSUME NEW b \in Controller, calls'[b] = calls[b], op'[b] = op[b], target'[b] = target[b]
      PROVE  Stacked(b)'
  BY <1>1, <1>2, SameStack DEF Stacked, Aimed, Fresh
<1>3. ASSUME NEW c \in Controller, ControllerStep(c)
      PROVE  /\ \A b \in Controller : Stacked(b)'
             /\ calls' \in [Controller -> Seq(Statements)] /\ op' = op
             /\ ret' \in [Controller -> {"ok", "fail"}]
  <2>1. Turns(c) /\ Hits(c) /\ op' = op /\ calls[c] # <<>>
    BY <1>3, StackStep, TargetStep, LockFrame
  <2>2. PICK s, v : /\ Goes(c, s, v) /\ v \in {"ok", "fail"}
                    /\ s \in Fresh =>
                         ~Rolling(c)' /\ ~Retrying(c)'
    BY <2>1 DEF Turns
  <2>3. /\ calls' \in [Controller -> Seq(Statements)] /\ Now(c)' = s
        /\ Chain(calls'[c]) /\ Within(calls'[c], Of(op'[c]))
        /\ ret' \in [Controller -> {"ok", "fail"}]
        /\ \A b \in Controller \ {c} : calls'[b] = calls[b] /\ op'[b] = op[b]
    BY <1>1, <2>1, <2>2 DEF Goes
  <2>4. Stacked(c)'
    BY <1>1, <2>1, <2>2, <2>3 DEF Stacked, Hits
  <2>5. ASSUME NEW b \in Controller \ {c} PROVE Stacked(b)'
    BY <1>2, <2>1, <2>3 DEF Hits
  <2> QED
    BY <2>1, <2>3, <2>4, <2>5
<1>4. ASSUME NEW c \in Controller, NEW o \in Ops, Begin(c, o)
      PROVE  /\ \A b \in Controller : Stacked(b)'
             /\ calls' \in [Controller -> Seq(Statements)] /\ ret' = ret
             /\ op' \in [Controller -> Ops \cup {"none"}]
  <2>1. /\ Now(c)' = "lock" /\ ~Rolling(c)' /\ ~Retrying(c)'
        /\ calls' \in [Controller -> Seq(Statements)]
        /\ \A b \in Controller \ {c} : calls'[b] = calls[b]
        /\ Chain(calls'[c]) /\ Within(calls'[c], Of(o))
        /\ op' = [op EXCEPT ![c] = o] /\ op' \in [Controller -> Ops \cup {"none"}]
    BY <1>4, Begins
  <2>2. target' = target /\ ret' = ret
    BY <1>4 DEF Begin
  <2>3. Stacked(c)'
    BY <1>1, <2>1, <2>2 DEF Stacked, Aimed, Fresh
  <2>4. ASSUME NEW b \in Controller \ {c} PROVE Stacked(b)'
    BY <1>1, <1>2, <2>1, <2>2
  <2> QED
    BY <2>1, <2>2, <2>3, <2>4
<1>5. ASSUME UNCHANGED <<calls, op, target, ret>>
      PROVE  \A b \in Controller : Stacked(b)'
  BY <1>2, <1>5
<1>6. ASSUME NEW c \in Controller, Quit(c) PROVE UNCHANGED <<calls, op, target, ret>>
  BY <1>6 DEF Quit, localVars
<1>7. ASSUME NEW d \in Daemon, DaemonStep(d) \/ Crash(d) \/ UnitStart(d) \/ UnitStop(d)
      PROVE  UNCHANGED <<calls, op, target, ret>>
  BY <1>1, <1>7, TypedForwarder DEF OnlyForwarders, localVars
<1>8. /\ \A b \in Controller : Stacked(b)'
      /\ calls' \in [Controller -> Seq(Statements)]
      /\ ret' \in [Controller -> {"ok", "fail"}] /\ op' \in [Controller -> Ops \cup {"none"}]
  BY <1>1, <1>3, <1>4, <1>5, <1>6, <1>7 DEF Next
<1> QED
  BY <1>8 DEF Stacks, Stacked, Aimed

\* fp_uninstall makes one controller at a time leave Unlinking.
LEMMA UnlinkingStep ==
  ASSUME TypeOK, Stacks, Locked, NEW c \in Controller, ControllerStep(c)
  PROVE  /\ Unlinking' \subseteq Unlinking
         /\ RemoveLock(c) => c \in Unlinking /\ c \notin Unlinking'
         /\ Now(c) = "remove_binary" => Now(c)' = "idle"
<1>1. Turns(c) /\ op' = op /\ calls[c] # <<>>
  BY StackStep, LockFrame
<1>2. PICK s, v : Goes(c, s, v)
  BY <1>1 DEF Turns
<1>3. \A b \in Controller \ {c} : Now(b)' = Now(b)
  BY <1>2, SameStack DEF Goes
<1>4. \A t : At(c, t) <=> Now(c) = t /\ Now(c) # "idle"
  BY HeadOf
<1>5. Now(c) # "idle"
  BY <1>1, HeadOf
<1>6. ASSUME RemoveLock(c) PROVE Now(c) = "remove_lock" /\ Now(c)' \in {"remove_binary", "idle"}
  <2>1. Now(c) = "remove_lock" /\ Then(c, <<>>, ret[c])
    BY <1>4, <1>6 DEF RemoveLock
  <2>2. \E t \in {"remove_binary", "idle"} : Goes(c, t, ret[c])
    BY <2>1, Pops
  <2> QED
    BY <2>1, <2>2 DEF Goes
<1>7. ASSUME Now(c) = "remove_binary" PROVE Now(c)' = "idle"
  <2>0. ~Acquire(c)
    <3>1. Acquire(c) => At(c, "flock")
      BY DEF Acquire
    <3> QED
      BY <1>4, <1>7, <3>1
  <2>1. RemoveBinary(c)
    BY <1>4, <1>7, <2>0 DEF ControllerStep,
      OpenLock, Release, LoadEnable, RejectProxy, LoadSaved, Activate, Replace, Started,
      AfterEnable, ReportFailure, LoadBypass, FirewallBypass, FirewallRestore, FirewallOff,
      UnitStopBegin, UnitStopDone, UnitRemove, UninstallFirewall, UninstallRetry, RemoveFiles,
      RemoveLock, RemoveBinary, StopDaemon, SendTerm, WaitGone, WaitTimeout, KillGone, Sweep,
      ScanDone, StartDaemon, SpawnFails, AwaitReady, AwaitFails, Reap, ScanEntry, Spawn,
      PortReleased, PortBusy
  <2>2. \E w : Then(c, <<>>, w)
    BY <2>1 DEF RemoveBinary
  <2> QED
    BY <1>7, <2>2, Pops DEF Goes
<1>8. RemoveLock(c) => op[c] = "uninstall"
  BY <1>6, OpOf
<1> QED
  BY <1>1, <1>3, <1>5, <1>6, <1>7, <1>8 DEF Unlinking

\* Each lock file has one holder at most, and there are no more of them than operations.
LEMMA LockedNext ==
  ASSUME TypeOK, Stacks, Locked, Next
  PROVE  Locked' /\ opened' \in [Controller -> 0 .. lockfile'] /\ lockfile' \in 1 .. MaxOps + 1
         /\ opcount' \in 0 .. MaxOps
<1>1. /\ MaxOps \in Nat /\ opcount \in 0 .. MaxOps /\ lockfile \in 1 .. MaxOps + 1
      /\ opened \in [Controller -> 0 .. lockfile] /\ lock \subseteq Controller
      /\ IsFiniteSet(Unlinking) /\ lockfile + Cardinality(Unlinking) <= opcount + 1
      /\ Typed
  BY LifecycleAssumption DEF TypeOK, Locked, Typed, Procs, Disk, Locals, Counts, Process
<1> DEFINE Held(c) == /\ c \in lock <=> Now(c) \notin Outside \cup {"idle"}
                      /\ c \in lock \/ Now(c) = "flock" => opened[c] # 0
           Apart == \A b, c \in lock : opened[b] = opened[c] => b = c
           Few == IsFiniteSet(Unlinking) /\ lockfile + Cardinality(Unlinking) <= opcount + 1
<1>2. (\A c \in Controller : Held(c)) /\ Apart /\ Few
  BY DEF Locked
<1>3. ASSUME NEW n \in Nat, NEW U, U \subseteq Unlinking
      PROVE  IsFiniteSet(U) /\ Cardinality(U) \in Nat /\ Cardinality(Unlinking) \in Nat
             /\ Cardinality(U) <= Cardinality(Unlinking)
  BY <1>1, <1>3, FS_Subset, FS_CardinalityType
<1>4. ASSUME UNCHANGED <<calls, op, lock, opened, lockfile, opcount>>
      PROVE  Locked' /\ opened' \in [Controller -> 0 .. lockfile'] /\ lockfile' \in 1 .. MaxOps + 1
             /\ opcount' \in 0 .. MaxOps
  <2>1. \A b \in Controller : Now(b)' = Now(b)
    BY <1>4, SameStack
  <2>2. Unlinking' = Unlinking
    BY <1>4, <2>1 DEF Unlinking
  <2> QED
    BY <1>1, <1>2, <1>4, <2>1, <2>2 DEF Locked
<1>5. ASSUME NEW c \in Controller, NEW o \in Ops, Begin(c, o)
      PROVE  Locked' /\ opened' \in [Controller -> 0 .. lockfile'] /\ lockfile' \in 1 .. MaxOps + 1
             /\ opcount' \in 0 .. MaxOps
  <2>1. /\ Now(c) = "idle" /\ Now(c)' = "lock"
        /\ \A b \in Controller \ {c} : calls'[b] = calls[b]
        /\ op' = [op EXCEPT ![c] = o]
    BY <1>5, Begins
  <2>2. /\ opcount < MaxOps /\ opcount' = opcount + 1
        /\ UNCHANGED <<lock, opened, lockfile>>
    BY <1>5 DEF Begin, hostVars
  <2>3. \A b \in Controller \ {c} : Now(b)' = Now(b) /\ op'[b] = op[b]
    BY <2>1, SameStack DEF TypeOK
  <2>4. \A b \in Controller : Held(b)'
    BY <1>2, <2>1, <2>2, <2>3 DEF Outside
  <2>5. Unlinking' \subseteq Unlinking \cup {c}
    BY <2>3 DEF Unlinking
  <2>6. /\ IsFiniteSet(Unlinking') /\ Cardinality(Unlinking') \in Nat
        /\ Cardinality(Unlinking) \in Nat /\ Cardinality(Unlinking') <= Cardinality(Unlinking) + 1
    <3>1. /\ IsFiniteSet(Unlinking \cup {c}) /\ Cardinality(Unlinking) \in Nat
          /\ \/ Cardinality(Unlinking \cup {c}) = Cardinality(Unlinking)
             \/ Cardinality(Unlinking \cup {c}) = Cardinality(Unlinking) + 1
      BY <1>1, FS_AddElement, FS_CardinalityType
    <3>2. /\ IsFiniteSet(Unlinking') /\ Cardinality(Unlinking') \in Nat
          /\ Cardinality(Unlinking') <= Cardinality(Unlinking \cup {c})
      BY <2>5, <3>1, FS_Subset, FS_CardinalityType
    <3> QED
      BY <3>1, <3>2
  <2>7. Few'
    BY <1>1, <2>2, <2>6
  <2> QED
    BY <1>1, <1>2, <2>2, <2>4, <2>7 DEF Locked
<1>6. ASSUME NEW c \in Controller, ControllerStep(c)
      PROVE  Locked' /\ opened' \in [Controller -> 0 .. lockfile'] /\ lockfile' \in 1 .. MaxOps + 1
             /\ opcount' \in 0 .. MaxOps
  <2>1. /\ calls[c] # <<>> /\ opcount' = opcount
        /\ \/ LockStep(c)
           \/ /\ UNCHANGED <<lock, opened, lockfile>>
              /\ ~At(c, "lock") /\ ~At(c, "flock") /\ ~At(c, "unlock") /\ ~At(c, "remove_lock")
        /\ Turns(c)
    BY <1>6, LockFrame, StackStep
  <2>2. PICK s, v : /\ Goes(c, s, v)
                    /\ Now(c) \notin Outside \cup {"unlock"} => s \notin Outside \cup {"idle"}
    BY <2>1 DEF Turns
  <2>3. Now(c)' = s /\ \A b \in Controller \ {c} : Now(b)' = Now(b)
    BY <2>2, SameStack DEF Goes
  <2>4. (\A t : At(c, t) <=> Now(c) = t /\ Now(c) # "idle") /\ Now(c) # "idle"
    BY <2>1, HeadOf
  <2>5. /\ Unlinking' \subseteq Unlinking
        /\ RemoveLock(c) => c \in Unlinking /\ c \notin Unlinking'
        /\ Now(c) = "remove_binary" => Now(c)' = "idle"
    BY <1>6, UnlinkingStep
  <2>6. /\ IsFiniteSet(Unlinking') /\ Cardinality(Unlinking') \in Nat
        /\ Cardinality(Unlinking) \in Nat /\ Cardinality(Unlinking') <= Cardinality(Unlinking)
    BY <1>1, <2>5, FS_Subset, FS_CardinalityType
  <2>7. RemoveLock(c) => Cardinality(Unlinking') + 1 <= Cardinality(Unlinking)
    <3>1. ASSUME RemoveLock(c) PROVE Unlinking' \subseteq Unlinking \ {c} /\ c \in Unlinking
      BY <2>5, <3>1
    <3>2. ASSUME RemoveLock(c)
          PROVE  /\ IsFiniteSet(Unlinking \ {c})
                 /\ Cardinality(Unlinking \ {c}) = Cardinality(Unlinking) - 1
      BY <1>1, <3>1, <3>2, FS_RemoveElement
    <3>3. ASSUME RemoveLock(c) PROVE Cardinality(Unlinking') <= Cardinality(Unlinking) - 1
      BY <3>1, <3>2, <3>3, FS_Subset
    <3> QED
      BY <2>6, <3>3
  <2>8. CASE UNCHANGED <<lock, opened, lockfile>> /\ Now(c) \notin Outside \cup {"unlock"}
    <3>1. \A b \in Controller : Held(b)'
      BY <1>2, <2>2, <2>3, <2>4, <2>8 DEF Outside
    <3>2. Few'
      BY <1>1, <2>1, <2>6, <2>8
    <3> QED
      BY <1>1, <1>2, <2>1, <2>8, <3>1, <3>2 DEF Locked
  <2>9. CASE UNCHANGED <<lock, opened, lockfile>> /\ Now(c) = "remove_binary"
    <3>1. Now(c)' = "idle"
      BY <2>5, <2>9
    <3>2. \A b \in Controller : Held(b)'
      BY <1>2, <2>3, <2>9, <3>1 DEF Outside
    <3>3. Few'
      BY <1>1, <2>1, <2>6, <2>9
    <3> QED
      BY <1>1, <1>2, <2>1, <2>9, <3>2, <3>3 DEF Locked
  <2>10. CASE OpenLock(c)
    <3>1. Now(c) = "lock" /\ UNCHANGED <<lock, lockfile>>
      BY <2>4, <2>10 DEF OpenLock
    <3>2. \/ opened' = [opened EXCEPT ![c] = lockfile] /\ Then(c, <<"flock">>, "ok")
          \/ opened' = opened /\ calls' = [calls EXCEPT ![c] = <<>>]
      BY <2>10 DEF OpenLock
    <3>3. \/ Now(c)' = "flock" /\ opened'[c] = lockfile
          \/ Now(c)' = "idle"
      <4>1. calls' = [calls EXCEPT ![c] = <<>>] => Now(c)' = "idle"
        BY DEF Now, TypeOK
      <4>2. Then(c, <<"flock">>, "ok") => Now(c)' = "flock"
        BY <3>1, Pushes DEF Goes
      <4> QED
        BY <1>1, <3>2, <4>1, <4>2
    <3>4. /\ opened' \in [Controller -> 0 .. lockfile]
          /\ \A b \in Controller \ {c} : opened'[b] = opened[b]
      BY <1>1, <3>2
    <3>5. \A b \in Controller : Held(b)'
      BY <1>1, <1>2, <2>3, <3>1, <3>3, <3>4 DEF Outside
    <3>6. Apart'
      BY <1>1, <1>2, <3>1, <3>4 DEF Outside
    <3>7. Few'
      BY <1>1, <2>1, <2>6, <3>1
    <3> QED
      BY <1>1, <2>1, <3>1, <3>4, <3>5, <3>6, <3>7 DEF Locked
  <2>11. CASE Acquire(c)
    <3>1. /\ Now(c) = "flock" /\ lock' = lock \cup {c} /\ UNCHANGED <<opened, lockfile>>
          /\ \A k \in lock : opened[k] # opened[c]
          /\ Then(c, <<>>, "ok")
      BY <2>4, <2>11 DEF Acquire, hostVars
    <3>2. Now(c)' \in {"load_enable", "load_saved", "load_bypass", "stop", "unit_stop"}
      BY <3>1, Pops DEF GoesOn, Goes
    <3>3. \A b \in Controller : Held(b)'
      BY <1>2, <2>3, <3>1, <3>2 DEF Outside
    <3>4. Apart'
      BY <1>2, <3>1
    <3>5. Few'
      BY <1>1, <2>1, <2>6, <3>1
    <3> QED
      BY <1>1, <2>1, <3>1, <3>3, <3>4, <3>5 DEF Locked
  <2>12. CASE Release(c)
    <3>1. /\ Now(c) = "unlock" /\ lock' = lock \ {c} /\ opened' = [opened EXCEPT ![c] = 0]
          /\ lockfile' = lockfile /\ Then(c, <<>>, ret[c])
      BY <2>4, <2>12 DEF Release
    <3>2. Now(c)' \in {"remove_lock", "idle"}
      BY <3>1, Pops DEF Goes
    <3>3. /\ opened' \in [Controller -> 0 .. lockfile]
          /\ \A b \in Controller \ {c} : opened'[b] = opened[b]
      BY <1>1, <3>1
    <3>4. \A b \in Controller : Held(b)'
      BY <1>2, <2>3, <3>1, <3>2, <3>3 DEF Outside
    <3>5. Apart'
      BY <1>1, <1>2, <3>1, <3>3
    <3>6. Few'
      BY <1>1, <2>1, <2>6, <3>1
    <3> QED
      BY <1>1, <2>1, <3>1, <3>3, <3>4, <3>5, <3>6 DEF Locked
  <2>13. CASE RemoveLock(c)
    <3>1. /\ Now(c) = "remove_lock" /\ lockfile' = lockfile + 1 /\ UNCHANGED <<lock, opened>>
          /\ Then(c, <<>>, ret[c])
      BY <2>4, <2>13 DEF RemoveLock
    <3>2. Now(c)' \in {"remove_binary", "idle"}
      BY <3>1, Pops DEF Goes
    <3>3. \A b \in Controller : Held(b)'
      BY <1>2, <2>3, <3>1, <3>2 DEF Outside
    <3>4. lockfile + Cardinality(Unlinking) <= opcount + 1
      BY <1>2
    <3>5. /\ lockfile' + Cardinality(Unlinking') <= opcount' + 1
          /\ lockfile' \in 1 .. MaxOps + 1
      BY <1>1, <2>1, <2>6, <2>7, <2>13, <3>1, <3>4
    <3>6. opened' \in [Controller -> 0 .. lockfile']
      BY <1>1, <3>1
    <3> QED
      BY <1>1, <1>2, <2>1, <2>6, <3>1, <3>3, <3>5, <3>6 DEF Locked
  <2> QED
    BY <2>1, <2>4, <2>8, <2>9, <2>10, <2>11, <2>12, <2>13 DEF LockStep, Outside
<1>7. ASSUME NEW c \in Controller, Quit(c)
      PROVE  UNCHANGED <<calls, op, lock, opened, lockfile, opcount>>
  BY <1>7 DEF Quit, localVars, hostVars, countVars
<1>8. ASSUME NEW d \in Daemon, DaemonStep(d) \/ Crash(d) \/ UnitStart(d) \/ UnitStop(d)
      PROVE  UNCHANGED <<calls, op, lock, opened, lockfile, opcount>>
  BY <1>1, <1>8, TypedForwarder DEF OnlyForwarders, localVars, hostVars
<1> QED
  BY <1>4, <1>5, <1>6, <1>7, <1>8 DEF Next

\* Every variable keeps its type.
LEMMA TypeNext ==
  ASSUME TypeOK, Stacks, Locked, Next
  PROVE  TypeOK'
<1>1. Typed /\ (Typed' => Procs' /\ Disk' /\ Locals' /\ Counts')
  BY DEF TypeOK, Typed, Procs, Disk, Locals, Counts, Process
<1>2. Typed'
  BY <1>1, TypedController, TypedIdle, TypedForwarder DEF Next
<1>3. /\ calls' \in [Controller -> Seq(Statements)]
      /\ ret' \in [Controller -> {"ok", "fail"}] /\ op' \in [Controller -> Ops \cup {"none"}]
  BY StacksNext
<1>4. /\ opened' \in [Controller -> 0 .. lockfile'] /\ lockfile' \in 1 .. MaxOps + 1
      /\ opcount' \in 0 .. MaxOps
  BY LockedNext
<1> QED
  BY <1>1, <1>2, <1>3, <1>4 DEF TypeOK, Procs, Disk, Locals, Counts, Process

-----------------------------------------------------------------------------
(* What a controller does to the forwarders and the rules.                   *)

\* What holds of a forwarder whatever the controllers do.
Sane(d) ==
  /\ proc[d].state \in {"bound", "recorded", "run"} <=> listener = d
  /\ proc[d].ready = "R" => proc[d].state \in {"run", "closed", "cleanup", "zombie"}
  /\ proc[d].state = "none" => proc[d] = NoProcess
  /\ proc[d].state = "zombie" => proc[d].parent \in Controller

\* d is gone, or a zombie that its controller has not waited for.
Gone(d) ==
  /\ \A e \in Daemon \ {d} : proc'[e] = proc[e]
  /\ \/ proc'[d] = NoProcess
     \/ proc'[d] = [proc[d] EXCEPT !.state = "zombie"] /\ proc[d].parent \in Controller
  /\ listener' = IF listener = d THEN None ELSE listener

\* d has been told to stop.
Told(d) ==
  /\ \A e \in Daemon \ {d} : proc'[e] = proc[e]
  /\ proc'[d] = [proc[d] EXCEPT !.term = TRUE] /\ proc[d].state \in Handled
  /\ listener' = listener

\* SIGTERM ends a forwarder that has no handler yet, and tells the others.
LEMMA SignalOf ==
  ASSUME Procs, NEW d \in Daemon
  PROVE  /\ Dies(d) => Gone(d)
         /\ Terminate(d) => \/ Told(d)
                            \/ Gone(d) /\ Alive(d) /\ proc[d].state \notin Handled
                            \/ UNCHANGED <<proc, listener>> /\ ~Alive(d)
<1>1. proc \in [Daemon -> Process] /\ proc[d] \in Process
  BY DEF Procs
<1>2. Dies(d) => Gone(d)
  BY <1>1 DEF Dies, Gone
<1>3. proc' = [proc EXCEPT ![d].term = TRUE] =>
         /\ \A e \in Daemon \ {d} : proc'[e] = proc[e]
         /\ proc'[d] = [proc[d] EXCEPT !.term = TRUE]
  BY <1>1
<1>4. proc[d].state \in Handled => Alive(d)
  BY DEF Handled, Alive, Execed
<1> QED
  BY <1>2, <1>3, <1>4 DEF Terminate, Told

\* Neither harms the others, nor what holds of every forwarder.
LEMMA SaneEnd ==
  ASSUME Procs, \A e \in Daemon : Sane(e), NEW d \in Daemon, Gone(d) \/ Told(d)
  PROVE  \A e \in Daemon : Sane(e)'
<1>1. /\ proc[d] \in Process /\ Sane(d) /\ listener \in Daemon \cup {None} /\ None \notin Daemon
      /\ NoProcess.state = "none" /\ NoProcess.ready = "none"
  BY LifecycleAssumption DEF Procs, NoProcess
<1>2. CASE Told(d)
  <2>1. /\ proc'[d].state = proc[d].state /\ proc'[d].ready = proc[d].ready
        /\ proc'[d].parent = proc[d].parent /\ proc[d].state \notin {"none"}
    BY <1>1, <1>2 DEF Told, Process, Handled
  <2>2. ASSUME NEW e \in Daemon, e # d PROVE Sane(e)'
    <3>1. proc'[e] = proc[e] /\ listener' = listener /\ Sane(e)
      BY <1>2, <2>2 DEF Told
    <3> QED
      BY <3>1 DEF Sane
  <2>3. Sane(d)'
    BY <1>1, <1>2, <2>1 DEF Told, Sane
  <2> QED
    BY <2>2, <2>3
<1>3. CASE Gone(d)
  <2>1. \/ proc'[d] = NoProcess
        \/ /\ proc'[d].state = "zombie" /\ proc'[d].parent = proc[d].parent
           /\ proc[d].parent \in Controller
    BY <1>1, <1>3 DEF Gone, Process
  <2>2. listener' # d /\ \A e \in Daemon \ {d} : listener' = e <=> listener = e
    BY <1>1, <1>3 DEF Gone
  <2>3. ASSUME NEW e \in Daemon, e # d PROVE Sane(e)'
    <3>1. proc'[e] = proc[e] /\ (listener' = e <=> listener = e) /\ Sane(e)
      BY <1>3, <2>2, <2>3 DEF Gone
    <3> QED
      BY <3>1 DEF Sane
  <2>4. Sane(d)'
    BY <1>1, <2>1, <2>2 DEF Sane
  <2> QED
    BY <2>3, <2>4
<1> QED
  BY <1>2, <1>3

\* The forwarder that controller c waits for is told to stop, killed or collected.
Deed(c) ==
  \/ UNCHANGED <<proc, listener>> /\ (Now(c) = "await" => proc[target[c]].ready = "R")
  \/ Now(c) \in {"term", "await"} /\ Terminate(target[c]) /\ (Now(c) = "await" => forced' = TRUE)
  \/ Now(c) = "unit_stop" /\ \E d \in Daemon : proc[d].parent = Systemd /\ Terminate(d)
  \/ Now(c) = "wait" /\ Dies(target[c]) /\ forced' = TRUE
  \/ /\ Now(c) \in {"wait", "reap"} /\ proc[target[c]].state = "zombie"
     /\ proc' = [proc EXCEPT ![target[c]] = NoProcess] /\ listener' = listener
  \/ \E d \in Daemon : Spawn(c, d)

\* Whatever a controller does, its deed is one of these, and rules come from fp_set_bypass only.
LEMMA DeedOf ==
  ASSUME TypeOK, Stacks, NEW c \in Controller, ControllerStep(c)
  PROVE  /\ Deed(c) /\ forced' \in {forced, TRUE} /\ crashes' = crashes /\ units' = units
         /\ \/ fw' \in {fw, None}
            \/ op[c] = "bypass" /\ "bypass" \in Ops
<1>1. /\ \A s : At(c, s) <=> Now(c) = s /\ Now(c) # "idle"
      /\ Now(c) # "idle" => op[c] \in Ops
      /\ Now(c) \in {"fw_bypass", "fw_restore"} => op[c] = "bypass"
  BY HeadOf, OpOf
<1> DEFINE Does == /\ Deed(c) /\ forced' \in {forced, TRUE} /\ crashes' = crashes /\ units' = units
                   /\ \/ fw' \in {fw, None}
                      \/ op[c] = "bypass" /\ "bypass" \in Ops
<1>0. Fault \/ NoFault => forced' \in {forced, TRUE}
  BY DEF Fault, NoFault
<1> USE <1>0, <1>1 DEF diskVars, hostVars, localVars, countVars
<1>2. CASE OpenLock(c)
  <2>1. Deed(c)
    BY <1>2 DEF Deed, OpenLock
  <2>2. forced' \in {forced, TRUE}
    BY <1>2 DEF OpenLock
  <2>3. crashes' = crashes /\ units' = units
    BY <1>2 DEF OpenLock
  <2>4. fw' \in {fw, None} \/ (op[c] = "bypass" /\ "bypass" \in Ops)
    BY <1>2 DEF OpenLock
  <2> QED
    BY <2>1, <2>2, <2>3, <2>4
<1>3. CASE Acquire(c)
  BY <1>3 DEF Deed, Acquire
<1>4. CASE Release(c)
  BY <1>4 DEF Deed, Release
<1>5. CASE LoadEnable(c)
  <2>1. Deed(c)
    BY <1>5 DEF Deed, LoadEnable
  <2>2. forced' \in {forced, TRUE}
    BY <1>5 DEF LoadEnable
  <2>3. crashes' = crashes /\ units' = units
    BY <1>5 DEF LoadEnable
  <2>4. fw' \in {fw, None} \/ (op[c] = "bypass" /\ "bypass" \in Ops)
    BY <1>5 DEF LoadEnable
  <2> QED
    BY <2>1, <2>2, <2>3, <2>4
<1>6. CASE RejectProxy(c)
  BY <1>6 DEF Deed, RejectProxy
<1>7. CASE LoadSaved(c)
  BY <1>7 DEF Deed, LoadSaved
<1>8. CASE Activate(c)
  BY <1>8 DEF Deed, Activate
<1>9. CASE Replace(c)
  <2>1. Deed(c)
    BY <1>9 DEF Deed, Replace
  <2>2. forced' \in {forced, TRUE}
    BY <1>9 DEF Replace
  <2>3. crashes' = crashes /\ units' = units
    BY <1>9 DEF Replace
  <2>4. fw' \in {fw, None} \/ (op[c] = "bypass" /\ "bypass" \in Ops)
    BY <1>9 DEF Replace
  <2> QED
    BY <2>1, <2>2, <2>3, <2>4
<1>10. CASE Started(c)
  <2>1. Deed(c)
    BY <1>10 DEF Deed, Started
  <2>2. forced' \in {forced, TRUE}
    BY <1>10 DEF Started
  <2>3. crashes' = crashes /\ units' = units
    BY <1>10 DEF Started
  <2>4. fw' \in {fw, None} \/ (op[c] = "bypass" /\ "bypass" \in Ops)
    BY <1>10 DEF Started
  <2> QED
    BY <2>1, <2>2, <2>3, <2>4
<1>11. CASE AfterEnable(c)
  <2>1. Deed(c)
    BY <1>11 DEF Deed, AfterEnable
  <2>2. forced' \in {forced, TRUE}
    BY <1>11 DEF AfterEnable
  <2>3. crashes' = crashes /\ units' = units
    BY <1>11 DEF AfterEnable
  <2>4. fw' \in {fw, None} \/ (op[c] = "bypass" /\ "bypass" \in Ops)
    BY <1>11 DEF AfterEnable
  <2> QED
    BY <2>1, <2>2, <2>3, <2>4
<1>12. CASE ReportFailure(c)
  BY <1>12 DEF Deed, ReportFailure
<1>13. CASE LoadBypass(c)
  <2>1. Deed(c)
    BY <1>13 DEF Deed, LoadBypass
  <2>2. forced' \in {forced, TRUE}
    BY <1>13 DEF LoadBypass
  <2>3. crashes' = crashes /\ units' = units
    BY <1>13 DEF LoadBypass
  <2>4. fw' \in {fw, None} \/ (op[c] = "bypass" /\ "bypass" \in Ops)
    BY <1>13 DEF LoadBypass
  <2> QED
    BY <2>1, <2>2, <2>3, <2>4
<1>14. CASE FirewallBypass(c)
  <2>1. Deed(c)
    BY <1>14 DEF Deed, FirewallBypass
  <2>2. forced' \in {forced, TRUE}
    BY <1>14 DEF FirewallBypass
  <2>3. crashes' = crashes /\ units' = units
    BY <1>14 DEF FirewallBypass
  <2>4. fw' \in {fw, None} \/ (op[c] = "bypass" /\ "bypass" \in Ops)
    BY <1>14 DEF FirewallBypass
  <2> QED
    BY <2>1, <2>2, <2>3, <2>4
<1>15. CASE FirewallRestore(c)
  <2>1. Deed(c)
    BY <1>15 DEF Deed, FirewallRestore
  <2>2. forced' \in {forced, TRUE}
    BY <1>15 DEF FirewallRestore
  <2>3. crashes' = crashes /\ units' = units
    BY <1>15 DEF FirewallRestore
  <2>4. fw' \in {fw, None} \/ (op[c] = "bypass" /\ "bypass" \in Ops)
    BY <1>15 DEF FirewallRestore
  <2> QED
    BY <2>1, <2>2, <2>3, <2>4
<1>16. CASE FirewallOff(c)
  <2>1. Deed(c)
    BY <1>16 DEF Deed, FirewallOff
  <2>2. forced' \in {forced, TRUE}
    BY <1>16 DEF FirewallOff
  <2>3. crashes' = crashes /\ units' = units
    BY <1>16 DEF FirewallOff
  <2>4. fw' \in {fw, None} \/ (op[c] = "bypass" /\ "bypass" \in Ops)
    BY <1>16 DEF FirewallOff
  <2> QED
    BY <2>1, <2>2, <2>3, <2>4
<1>17. CASE UnitStopBegin(c)
  <2>1. Deed(c)
    BY <1>17 DEF Deed, UnitStopBegin
  <2>2. forced' \in {forced, TRUE}
    BY <1>17 DEF UnitStopBegin
  <2>3. crashes' = crashes /\ units' = units
    BY <1>17 DEF UnitStopBegin
  <2>4. fw' \in {fw, None} \/ (op[c] = "bypass" /\ "bypass" \in Ops)
    BY <1>17 DEF UnitStopBegin
  <2> QED
    BY <2>1, <2>2, <2>3, <2>4
<1>18. CASE UnitStopDone(c)
  BY <1>18 DEF Deed, UnitStopDone
<1>19. CASE UnitRemove(c)
  <2>1. Deed(c)
    BY <1>19 DEF Deed, UnitRemove
  <2>2. forced' \in {forced, TRUE}
    BY <1>19 DEF UnitRemove
  <2>3. crashes' = crashes /\ units' = units
    BY <1>19 DEF UnitRemove
  <2>4. fw' \in {fw, None} \/ (op[c] = "bypass" /\ "bypass" \in Ops)
    BY <1>19 DEF UnitRemove
  <2> QED
    BY <2>1, <2>2, <2>3, <2>4
<1>20. CASE UninstallFirewall(c)
  <2>1. Deed(c)
    BY <1>20 DEF Deed, UninstallFirewall
  <2>2. forced' \in {forced, TRUE}
    BY <1>20 DEF UninstallFirewall
  <2>3. crashes' = crashes /\ units' = units
    BY <1>20 DEF UninstallFirewall
  <2>4. fw' \in {fw, None} \/ (op[c] = "bypass" /\ "bypass" \in Ops)
    BY <1>20 DEF UninstallFirewall
  <2> QED
    BY <2>1, <2>2, <2>3, <2>4
<1>21. CASE UninstallRetry(c)
  <2>1. Deed(c)
    BY <1>21 DEF Deed, UninstallRetry
  <2>2. forced' \in {forced, TRUE}
    BY <1>21 DEF UninstallRetry
  <2>3. crashes' = crashes /\ units' = units
    BY <1>21 DEF UninstallRetry
  <2>4. fw' \in {fw, None} \/ (op[c] = "bypass" /\ "bypass" \in Ops)
    BY <1>21 DEF UninstallRetry
  <2> QED
    BY <2>1, <2>2, <2>3, <2>4
<1>22. CASE RemoveFiles(c)
  BY <1>22 DEF Deed, RemoveFiles
<1>23. CASE RemoveLock(c)
  BY <1>23 DEF Deed, RemoveLock
<1>24. CASE RemoveBinary(c)
  <2>1. Deed(c)
    BY <1>24 DEF Deed, RemoveBinary
  <2>2. forced' \in {forced, TRUE}
    BY <1>24 DEF RemoveBinary
  <2>3. crashes' = crashes /\ units' = units
    BY <1>24 DEF RemoveBinary
  <2>4. fw' \in {fw, None} \/ (op[c] = "bypass" /\ "bypass" \in Ops)
    BY <1>24 DEF RemoveBinary
  <2> QED
    BY <2>1, <2>2, <2>3, <2>4
<1>25. CASE StopDaemon(c)
  BY <1>25 DEF Deed, StopDaemon
<1>26. CASE SendTerm(c)
  BY <1>26 DEF Deed, SendTerm
<1>27. CASE WaitGone(c)
  BY <1>27 DEF Deed, WaitGone, Collect
<1>28. CASE WaitTimeout(c)
  BY <1>28 DEF Deed, WaitTimeout
<1>29. CASE KillGone(c)
  BY <1>29 DEF Deed, KillGone
<1>30. CASE Sweep(c)
  BY <1>30 DEF Deed, Sweep
<1>31. CASE ScanDone(c)
  BY <1>31 DEF Deed, ScanDone
<1>32. CASE StartDaemon(c)
  BY <1>32 DEF Deed, StartDaemon
<1>33. CASE SpawnFails(c)
  <2>1. Deed(c)
    BY <1>33 DEF Deed, SpawnFails
  <2>2. forced' \in {forced, TRUE}
    BY <1>33 DEF SpawnFails
  <2>3. crashes' = crashes /\ units' = units
    BY <1>33 DEF SpawnFails
  <2>4. fw' \in {fw, None} \/ (op[c] = "bypass" /\ "bypass" \in Ops)
    BY <1>33 DEF SpawnFails
  <2> QED
    BY <2>1, <2>2, <2>3, <2>4
<1>34. CASE AwaitReady(c)
  BY <1>34 DEF Deed, AwaitReady
<1>35. CASE AwaitFails(c)
  BY <1>35 DEF Deed, AwaitFails
<1>36. CASE Reap(c)
  BY <1>36 DEF Deed, Reap, Collect
<1>37. ASSUME NEW d \in Daemon, ScanEntry(c, d) PROVE Does
  BY <1>37 DEF Deed, ScanEntry
<1>38. ASSUME NEW d \in Daemon, Spawn(c, d) PROVE Does
  BY <1>38 DEF Deed, Spawn
<1>39. ASSUME NEW s \in {"port", "port_again"}, PortReleased(c, s) PROVE Does
  BY <1>39 DEF Deed, PortReleased
<1>40. ASSUME NEW s \in {"port", "port_again"}, PortBusy(c, s) PROVE Does
  BY <1>40 DEF Deed, PortBusy
<1> QED
  BY <1>2, <1>3, <1>4, <1>5, <1>6, <1>7, <1>8, <1>9, <1>10, <1>11, <1>12, <1>13, <1>14, <1>15,
     <1>16, <1>17, <1>18, <1>19, <1>20, <1>21, <1>22, <1>23, <1>24, <1>25, <1>26, <1>27, <1>28,
     <1>29, <1>30, <1>31, <1>32, <1>33, <1>34, <1>35, <1>36, <1>37, <1>38, <1>39, <1>40
  DEF ControllerStep

-----------------------------------------------------------------------------
(* The forwarders, and the rules they will take away.                        *)

\* A forwarder's own steps change nothing of the others.
LEMMA OwnStep ==
  ASSUME Procs, \A e \in Daemon : Sane(e), NEW d \in Daemon,
         DaemonStep(d) \/ Crash(d) \/ UnitStart(d) \/ UnitStop(d)
  PROVE  /\ \A e \in Daemon : Sane(e)'
         /\ \A e \in Daemon \ {d} : proc'[e] = proc[e]
         /\ proc'[d].state # "forked" \/ UNCHANGED <<proc, listener>>
<1>1. /\ proc \in [Daemon -> Process] /\ proc[d] \in Process /\ Sane(d)
      /\ listener \in Daemon \cup {None} /\ None \notin Daemon
      /\ NoProcess \in Process /\ NoProcess.state = "none" /\ NoProcess.ready = "none"
  BY LifecycleAssumption DEF Procs, NoProcess, Process
<1> DEFINE Fine == /\ \A e \in Daemon : Sane(e)'
                   /\ \A e \in Daemon \ {d} : proc'[e] = proc[e]
                   /\ proc'[d].state # "forked" \/ UNCHANGED <<proc, listener>>
<1>2. ASSUME Gone(d) \/ Told(d) PROVE Fine
  <2>1. \A e \in Daemon : Sane(e)'
    BY <1>2, SaneEnd
  <2>2. proc'[d].state # "forked" /\ \A e \in Daemon \ {d} : proc'[e] = proc[e]
    BY <1>1, <1>2 DEF Gone, Told, Handled, Process
  <2> QED
    BY <2>1, <2>2
<1>3. ASSUME NEW s \in Execed, NEW r \in {"none", "R", "E"}, NEW p \in Process,
             proc' = [proc EXCEPT ![d] = p], p.state = s, p.ready = r,
             r = "R" => s \in {"run", "closed", "cleanup"},
             s \in {"bound", "recorded", "run"} <=> listener' = d,
             listener' \in {listener, d, None}, listener' = d => listener \in {d, None},
             listener' = None => listener \in {d, None}
      PROVE  Fine
  <2>1. proc'[d] = p /\ \A e \in Daemon \ {d} : proc'[e] = proc[e]
    BY <1>1, <1>3
  <2>2. Sane(d)'
    BY <1>1, <1>3, <2>1 DEF Sane, Execed
  <2>3. \A e \in Daemon \ {d} : listener' = e <=> listener = e
    BY <1>1, <1>3
  <2>4. \A e \in Daemon \ {d} : Sane(e)'
    BY <2>1, <2>3 DEF Sane
  <2> QED
    BY <1>3, <2>1, <2>2, <2>4 DEF Execed
<1>4. ASSUME NEW s \in Execed, proc' = [proc EXCEPT ![d].state = s]
      PROVE  \E p \in Process : /\ proc' = [proc EXCEPT ![d] = p]
                                /\ p.state = s /\ p.ready = proc[d].ready
  <2>1. PICK p \in {[proc[d] EXCEPT !.state = s]} : proc' = [proc EXCEPT ![d] = p]
    BY <1>1, <1>4
  <2> QED
    BY <1>1, <2>1 DEF Process
<1>5. ASSUME NEW s \in Execed, NEW r \in {"R", "E"},
             proc' = [proc EXCEPT ![d].state = s, ![d].ready = r]
      PROVE  \E p \in Process : /\ proc' = [proc EXCEPT ![d] = p]
                                /\ p.state = s /\ p.ready = r
  <2>1. PICK p \in {[proc[d] EXCEPT !.state = s, !.ready = r]} : proc' = [proc EXCEPT ![d] = p]
    BY <1>1, <1>5
  <2> QED
    BY <1>1, <2>1 DEF Process
<1>6. Dies(d) => Fine
  BY <1>2, SignalOf
<1>7. CASE Exec(d)
  <2>1. CASE Dies(d)
    BY <1>6, <2>1
  <2>2. CASE proc' = [proc EXCEPT ![d].state = "init"] /\ listener' = listener
    BY SMTT(30), <1>1, <1>3, <1>4, <1>7, <2>2 DEF Exec, Execed, Sane, Process
  <2> QED
    BY <1>7, <2>1, <2>2, Zenon DEF Exec
<1>8. CASE LoadConfig(d)
  <2>1. CASE Dies(d)
    BY <1>6, <2>1
  <2>2. CASE proc' = [proc EXCEPT ![d].state = "loaded", ![d].cfg = config] /\ config # None
             /\ listener' = listener
    <3>1. PICK p \in {[proc[d] EXCEPT !.state = "loaded", !.cfg = config]} :
            proc' = [proc EXCEPT ![d] = p]
      BY <1>1, <2>2
    <3>2. /\ proc'[d].state = "loaded" /\ proc'[d].ready = proc[d].ready
          /\ \A e \in Daemon \ {d} : proc'[e] = proc[e]
      BY <1>1, <3>1 DEF Process
    <3>3. proc[d].state = "init"
      BY <1>8 DEF LoadConfig
    <3> QED
      BY <1>1, <2>2, <3>2, <3>3 DEF Sane
  <2> QED
    BY <1>8, <2>1, <2>2, Zenon DEF LoadConfig
<1>9. CASE Bind(d)
  <2>1. CASE listener = None /\ listener' = d /\ proc' = [proc EXCEPT ![d].state = "bound"]
    BY <1>1, <1>3, <1>4, <1>9, <2>1 DEF Bind, Execed, Sane, Process
  <2>2. CASE listener # None /\ listener' = listener
             /\ proc' = [proc EXCEPT ![d].state = "cleanup", ![d].ready = "E"]
    <3>1. PICK p \in Process : /\ proc' = [proc EXCEPT ![d] = p]
                               /\ p.state = "cleanup" /\ p.ready = "E"
      BY <1>5, <2>2 DEF Execed
    <3>2. proc[d].state = "loaded" /\ listener # d
      BY <1>1, <1>9 DEF Bind, Sane
    <3> QED
      BY <1>3, <2>2, <3>1, <3>2 DEF Execed
  <2> QED
    BY <1>9, <2>1, <2>2 DEF Bind
<1>10. CASE WritePid(d)
  <2>1. /\ proc[d].state = "bound" /\ proc' = [proc EXCEPT ![d].state = "recorded"]
        /\ listener' = listener
    BY <1>10 DEF WritePid
  <2> QED
    BY <1>1, <1>3, <1>4, <2>1 DEF Execed, Sane, Process
<1>11. CASE Install(d)
  <2>1. /\ proc[d].state = "recorded" /\ listener' = listener
        /\ proc' = [proc EXCEPT ![d].state = "run", ![d].ready = "R"]
    BY <1>11 DEF Install
  <2>2. PICK p \in Process : /\ proc' = [proc EXCEPT ![d] = p] /\ p.state = "run" /\ p.ready = "R"
    BY <1>5, <2>1 DEF Execed
  <2> QED
    BY <1>1, <1>3, <2>1, <2>2 DEF Execed, Sane
<1>12. CASE StartFails(d)
  <2>1. /\ proc[d].state \in {"bound", "recorded"} /\ listener' = None
        /\ proc' = [proc EXCEPT ![d].state = "cleanup", ![d].ready = "E"]
    BY <1>12 DEF StartFails
  <2>2. PICK p \in Process : /\ proc' = [proc EXCEPT ![d] = p]
                             /\ p.state = "cleanup" /\ p.ready = "E"
    BY <1>5, <2>1 DEF Execed
  <2> QED
    BY <1>1, <1>3, <2>1, <2>2 DEF Execed, Sane
<1>13. CASE LeaveLoop(d)
  <2>1. /\ proc[d].state = "run" /\ listener' = None
        /\ proc' = [proc EXCEPT ![d].state = "closed"]
    BY <1>13 DEF LeaveLoop
  <2>2. PICK p \in Process : /\ proc' = [proc EXCEPT ![d] = p]
                             /\ p.state = "closed" /\ p.ready = proc[d].ready
    BY <1>4, <2>1 DEF Execed
  <2> QED
    BY <1>1, <1>3, <2>1, <2>2 DEF Execed, Sane, Process
<1>14. CASE RemovePid(d)
  <2>1. /\ proc[d].state = "closed" /\ listener' = listener
        /\ proc' = [proc EXCEPT ![d].state = "cleanup"]
    BY <1>14 DEF RemovePid
  <2>2. PICK p \in Process : /\ proc' = [proc EXCEPT ![d] = p]
                             /\ p.state = "cleanup" /\ p.ready = proc[d].ready
    BY <1>4, <2>1 DEF Execed
  <2> QED
    BY <1>1, <1>3, <2>1, <2>2 DEF Execed, Sane, Process
<1>15. CASE UnitStart(d)
  <2>1. PICK p \in {[NoProcess EXCEPT !.state = "init", !.parent = Systemd]} :
          proc' = [proc EXCEPT ![d] = p]
    BY <1>15 DEF UnitStart, NewProcess
  <2>2. p \in Process /\ p.state = "init" /\ p.ready = "none"
    BY <1>1, <2>1 DEF Process, Execed, NoProcess
  <2>3. proc[d].state = "none" /\ listener' = listener
    BY <1>15 DEF UnitStart, NewProcess
  <2> QED
    BY <1>1, <1>3, <2>1, <2>2, <2>3 DEF Execed, Sane
<1>16. /\ Exit(d) => Dies(d)
       /\ Crash(d) => Dies(d) \/ LeaveLoop(d)
       /\ CloseListener(d) => LeaveLoop(d)
  BY DEF Exit, Crash, CloseListener
<1>17. UnitStop(d) => Terminate(d) /\ Alive(d)
  BY DEF UnitStop
<1>18. Terminate(d) /\ Alive(d) => Fine
  BY <1>2, SignalOf
<1> QED
  BY <1>6, <1>7, <1>8, <1>9, <1>10, <1>11, <1>12, <1>13, <1>14, <1>15, <1>16, <1>17, <1>18
  DEF DaemonStep

\* A controller that exits leaves its forwarders to init.
LEMMA QuitSane ==
  ASSUME Procs, \A e \in Daemon : Sane(e), NEW c \in Controller, Quit(c)
  PROVE  \A d \in Daemon : /\ Sane(d)' /\ listener' = listener
                           /\ proc[d].state # "zombie" =>
                                \/ proc'[d] = proc[d]
                                \/ proc'[d] = [proc[d] EXCEPT !.parent = InitProcess]
                           /\ proc[d].state = "zombie" => proc'[d] \in {proc[d], NoProcess}
<1>1. /\ proc' = [d \in Daemon |->
                    IF proc[d].parent # c THEN proc[d]
                    ELSE IF proc[d].state = "zombie" THEN NoProcess
                    ELSE [proc[d] EXCEPT !.parent = InitProcess]]
      /\ listener' = listener
  BY DEF Quit
<1>2. /\ NoProcess.state = "none" /\ NoProcess.ready = "none" /\ NoProcess.parent = None
      /\ None \notin Controller
  BY LifecycleAssumption DEF NoProcess
<1>3. ASSUME NEW d \in Daemon, proc[d].parent # c PROVE proc'[d] = proc[d] /\ Sane(d)'
  BY <1>1, <1>3 DEF Sane
<1>4. ASSUME NEW d \in Daemon, proc[d].parent = c, proc[d].state = "zombie"
      PROVE  proc'[d] = NoProcess /\ Sane(d)'
  BY <1>1, <1>2, <1>4 DEF Sane
<1>5. ASSUME NEW d \in Daemon, proc[d].parent = c, proc[d].state # "zombie"
      PROVE  proc'[d] = [proc[d] EXCEPT !.parent = InitProcess] /\ Sane(d)'
  <2>1. proc'[d] = [proc[d] EXCEPT !.parent = InitProcess] /\ proc[d] \in Process
    BY <1>1, <1>5 DEF Procs
  <2>2. proc'[d].state = proc[d].state /\ proc'[d].ready = proc[d].ready
    BY <2>1 DEF Process
  <2>3. proc[d].state # "none"
    BY <1>2, <1>5 DEF Sane
  <2> QED
    BY <1>1, <1>5, <2>1, <2>2, <2>3 DEF Sane
<1> QED
  BY <1>1, <1>3, <1>4, <1>5

\* What a controller does keeps the forwarders sane; only the one it forks is new.
LEMMA DeedSane ==
  ASSUME TypeOK, \A e \in Daemon : Sane(e), NEW c \in Controller, Aimed(c), Deed(c)
  PROVE  /\ \A e \in Daemon : Sane(e)'
         /\ \/ /\ UNCHANGED <<proc, listener>>
               /\ Now(c) = "await" => proc[target[c]].state # "forked"
            \/ \E d \in Daemon : /\ Gone(d) \/ Told(d)
                                 /\ proc[d].state \in {"run", "closed", "cleanup"} =>
                                      Told(d) \/ forced' = TRUE
                                 /\ Now(c) = "await" => d = target[c]
            \/ /\ \E d \in Daemon : /\ Spawn(c, d) /\ proc[d].state = "none"
                                    /\ \A e \in Daemon \ {d} : proc'[e] = proc[e]
               /\ listener' = listener
<1>1. /\ Procs /\ proc \in [Daemon -> Process] /\ None \notin Daemon
      /\ NoProcess \in Process /\ NoProcess.state = "none" /\ NoProcess.ready = "none"
  BY LifecycleAssumption DEF TypeOK, Procs, NoProcess, Process
<1> DEFINE Well == /\ \A e \in Daemon : Sane(e)'
                   /\ \/ /\ UNCHANGED <<proc, listener>>
                         /\ Now(c) = "await" => proc[target[c]].state # "forked"
                      \/ \E d \in Daemon : /\ Gone(d) \/ Told(d)
                                           /\ proc[d].state \in {"run", "closed", "cleanup"} =>
                                                Told(d) \/ forced' = TRUE
                                           /\ Now(c) = "await" => d = target[c]
                      \/ /\ \E d \in Daemon : /\ Spawn(c, d) /\ proc[d].state = "none"
                                              /\ \A e \in Daemon \ {d} : proc'[e] = proc[e]
                         /\ listener' = listener
<1>2. ASSUME NEW d \in Daemon, Gone(d) \/ Told(d), Now(c) = "await" => d = target[c],
             proc[d].state \in {"run", "closed", "cleanup"} => Told(d) \/ forced' = TRUE
      PROVE  Well
  BY <1>1, <1>2, SaneEnd
<1>3. CASE UNCHANGED <<proc, listener>> /\ (Now(c) = "await" => proc[target[c]].state # "forked")
  BY <1>3 DEF Sane
<1>4. ASSUME NEW d \in Daemon, Terminate(d), Now(c) = "await" => d = target[c] /\ forced' = TRUE
      PROVE  Well
  <2>1. \/ Told(d)
        \/ Gone(d) /\ proc[d].state \notin Handled
        \/ UNCHANGED <<proc, listener>> /\ ~Alive(d)
    BY <1>1, <1>4, SignalOf
  <2>2. CASE Told(d)
    BY <1>2, <1>4, <2>2
  <2>3. CASE Gone(d) /\ proc[d].state \notin Handled
    BY <1>2, <1>4, <2>3 DEF Handled
  <2>4. CASE UNCHANGED <<proc, listener>> /\ ~Alive(d)
    BY <1>3, <1>4, <2>4 DEF Alive
  <2> QED
    BY <2>1, <2>2, <2>3, <2>4
<1>5. Now(c) \in {"term", "await", "wait", "reap"} => target[c] \in Daemon
  BY DEF Aimed
<1>6. CASE /\ Now(c) \in {"term", "await"} /\ Terminate(target[c])
           /\ Now(c) = "await" => forced' = TRUE
  BY <1>4, <1>5, <1>6
<1>7. CASE Now(c) = "unit_stop" /\ \E d \in Daemon : proc[d].parent = Systemd /\ Terminate(d)
  BY <1>4, <1>7
<1>8. CASE Now(c) = "wait" /\ Dies(target[c]) /\ forced' = TRUE
  BY <1>1, <1>2, <1>5, <1>8, SignalOf
<1>9. CASE /\ Now(c) \in {"wait", "reap"} /\ proc[target[c]].state = "zombie"
           /\ proc' = [proc EXCEPT ![target[c]] = NoProcess] /\ listener' = listener
  <2>1. PICK d \in Daemon : d = target[c]
    BY <1>5, <1>9
  <2>2. listener # d
    BY <1>9, <2>1 DEF Sane
  <2>3. Gone(d)
    BY <1>1, <1>9, <2>1, <2>2 DEF Gone
  <2> QED
    BY <1>2, <1>9, <2>1, <2>3
<1>10. ASSUME NEW d \in Daemon, Spawn(c, d) PROVE Well
  <2>1. /\ proc[d].state = "none" /\ listener' = listener
        /\ proc' = [proc EXCEPT ![d] = [NoProcess EXCEPT !.state = "forked", !.parent = c]]
    BY <1>10 DEF Spawn, NewProcess
  <2>2. PICK p \in {[NoProcess EXCEPT !.state = "forked", !.parent = c]} :
          proc' = [proc EXCEPT ![d] = p]
    BY <2>1
  <2>3. p.state = "forked" /\ p.ready = "none"
    BY <2>2 DEF NoProcess
  <2>4. proc'[d] = p /\ \A e \in Daemon \ {d} : proc'[e] = proc[e]
    BY <1>1, <2>2
  <2>5. \A e \in Daemon : Sane(e)'
    BY <2>1, <2>3, <2>4 DEF Sane
  <2> QED
    BY <1>10, <2>1, <2>4, <2>5
<1>11. CASE UNCHANGED <<proc, listener>> /\ (Now(c) = "await" => proc[target[c]].ready = "R")
  BY <1>3, <1>5, <1>11 DEF Sane
<1> QED
  BY <1>6, <1>7, <1>8, <1>9, <1>10, <1>11 DEF Deed

\* One that has been forked has its controller waiting.
Waited(d) == proc[d].state = "forked" => \E c \in lock : Now(c) = "await" /\ target[c] = d

\* What holds of the forwarders, and of those that were forked, is kept.
LEMMA ForwardersNext ==
  ASSUME TypeOK, Stacks, Locked, Forwarders, Next
  PROVE  Forwarders'
<1>1. /\ Procs /\ Typed /\ lock \subseteq Controller /\ proc \in [Daemon -> Process]
      /\ \A e \in Daemon : Sane(e) /\ Waited(e)
      /\ \A c \in Controller : Aimed(c)
      /\ \A c \in Controller : c \in lock <=> Now(c) \notin Outside \cup {"idle"}
  BY DEF TypeOK, Procs, Typed, Disk, Locals, Counts, Process, Forwarders, Sane, Waited, Stacks,
         Aimed, Locked
<1>2. /\ \A c \in Controller : c \in lock' <=> Now(c)' \notin Outside \cup {"idle"}
      /\ lock' \subseteq Controller
  BY LockedNext, TypeNext DEF Locked, TypeOK
<1>3. "await" \notin Outside \cup {"idle"}
  BY DEF Outside
<1>4. ASSUME NEW d \in Daemon, NEW c \in Controller, Now(c) = "await", target[c] = d,
             calls'[c] = calls[c], target'[c] = target[c]
      PROVE  Waited(d)'
  <2>1. Now(c)' = "await" /\ c \in lock'
    BY <1>2, <1>3, <1>4, SameStack
  <2> QED
    BY <1>4, <2>1 DEF Waited
<1>5. ASSUME NEW c \in Controller, ControllerStep(c)
      PROVE  \A d \in Daemon : Sane(d)' /\ Waited(d)'
  <2>1. /\ Deed(c) /\ Hits(c) /\ Turns(c)
    BY <1>5, DeedOf, TargetStep, StackStep
  <2>2. PICK s, v : Goes(c, s, v)
    BY <2>1 DEF Turns
  <2>3. \A b \in Controller \ {c} : calls'[b] = calls[b] /\ target'[b] = target[b]
    BY <2>1, <2>2 DEF Goes, Hits
  <2>4. /\ \A e \in Daemon : Sane(e)'
        /\ \/ /\ UNCHANGED <<proc, listener>>
              /\ Now(c) = "await" => proc[target[c]].state # "forked"
           \/ \E d \in Daemon : /\ Gone(d) \/ Told(d)
                                /\ Now(c) = "await" => d = target[c]
           \/ \E d \in Daemon : Spawn(c, d) /\ \A e \in Daemon \ {d} : proc'[e] = proc[e]
    BY <1>1, <2>1, DeedSane
  <2>5. ASSUME NEW e \in Daemon, proc[e].state = "forked", Now(c) # "await" \/ e # target[c]
        PROVE  Waited(e)'
    <3>1. PICK b \in Controller : Now(b) = "await" /\ target[b] = e
      BY <1>1, <2>5 DEF Waited
    <3> QED
      BY <1>4, <2>3, <2>5, <3>1
  <2>6. ASSUME NEW e \in Daemon, proc[e].state # "forked", proc'[e] = proc[e]
        PROVE  Waited(e)'
    BY <2>6 DEF Waited
  <2>7. CASE /\ UNCHANGED <<proc, listener>>
             /\ Now(c) = "await" => proc[target[c]].state # "forked"
    <3>1. ASSUME NEW e \in Daemon PROVE Waited(e)'
      <4>1. CASE proc[e].state = "forked"
        BY <2>5, <2>7, <4>1
      <4>2. CASE proc[e].state # "forked"
        BY <2>6, <2>7, <4>2
      <4> QED
        BY <4>1, <4>2
    <3>2. \A e \in Daemon : Sane(e)'
      BY <2>4
    <3> QED
      BY <3>1, <3>2
  <2>8. ASSUME NEW d \in Daemon, Gone(d) \/ Told(d), Now(c) = "await" => d = target[c]
        PROVE  \A e \in Daemon : Waited(e)'
    <3>1. proc'[d].state # "forked" /\ \A e \in Daemon \ {d} : proc'[e] = proc[e]
      <4>1. proc[d] \in Process
        BY <1>1
      <4> QED
        BY <2>8, <4>1 DEF Gone, Told, Handled, NoProcess, Process
    <3>2. Waited(d)'
      BY <3>1 DEF Waited
    <3>3. ASSUME NEW e \in Daemon \ {d} PROVE Waited(e)'
      BY <2>5, <2>6, <2>8, <3>1
    <3> QED
      BY <3>2, <3>3
  <2>9. ASSUME NEW d \in Daemon, Spawn(c, d), \A e \in Daemon \ {d} : proc'[e] = proc[e]
        PROVE  \A e \in Daemon : Waited(e)'
    <3>1. /\ Now(c) = "spawn" /\ target' = [target EXCEPT ![c] = d] /\ Then(c, <<"await">>, "ok")
      BY <2>9, HeadOf DEF Spawn
    <3>2. Now(c)' = "await" /\ target'[c] = d
      BY <1>1, <3>1, Pushes DEF Goes, Typed, Locals
    <3>3. Waited(d)'
      BY <1>2, <1>3, <3>2 DEF Waited
    <3>4. ASSUME NEW e \in Daemon \ {d} PROVE Waited(e)'
      BY <2>5, <2>6, <2>9, <3>1
    <3> QED
      BY <3>3, <3>4
  <2> QED
    BY <2>4, <2>7, <2>8, <2>9
<1>6. ASSUME UNCHANGED <<calls, target>>,
             \A d \in Daemon : Sane(d)' /\ (proc'[d].state = "forked" => proc[d].state = "forked")
      PROVE  \A d \in Daemon : Sane(d)' /\ Waited(d)'
  BY <1>1, <1>4, <1>6 DEF Waited
<1>7. ASSUME NEW c \in Controller, Quit(c) PROVE \A d \in Daemon : Sane(d)' /\ Waited(d)'
  <2>1. ASSUME NEW d \in Daemon
        PROVE  Sane(d)' /\ (proc'[d].state = "forked" => proc[d].state = "forked")
    <3>1. proc[d] \in Process
      BY <1>1
    <3>2. /\ Sane(d)'
          /\ proc[d].state # "zombie" =>
               proc'[d] = proc[d] \/ proc'[d] = [proc[d] EXCEPT !.parent = InitProcess]
          /\ proc[d].state = "zombie" => proc'[d] \in {proc[d], NoProcess}
      BY <1>1, <1>7, QuitSane
    <3> QED
      BY <3>1, <3>2 DEF NoProcess, Process
  <2>2. UNCHANGED <<calls, target>>
    BY <1>7 DEF Quit, localVars
  <2> QED
    BY <1>6, <2>1, <2>2
<1>8. ASSUME NEW d \in Daemon, DaemonStep(d) \/ Crash(d) \/ UnitStart(d) \/ UnitStop(d)
      PROVE  \A e \in Daemon : Sane(e)' /\ Waited(e)'
  <2>1. /\ \A e \in Daemon : Sane(e)'
        /\ \A e \in Daemon : proc'[e].state = "forked" => proc[e].state = "forked"
    BY <1>1, <1>8, OwnStep
  <2>2. UNCHANGED <<calls, target>>
    BY <1>1, <1>8, TypedForwarder DEF OnlyForwarders, localVars
  <2> QED
    BY <1>6, <2>1, <2>2
<1>9. ASSUME NEW c \in Controller, NEW o \in Ops, Begin(c, o)
      PROVE  \A d \in Daemon : Sane(d)' /\ Waited(d)'
  <2>1. /\ Now(c) = "idle" /\ \A b \in Controller \ {c} : calls'[b] = calls[b]
    BY <1>9, Begins
  <2>2. UNCHANGED <<proc, listener, target>>
    BY <1>9 DEF Begin
  <2>3. ASSUME NEW d \in Daemon PROVE Waited(d)'
    <3>1. CASE proc[d].state # "forked"
      BY <2>2, <3>1 DEF Waited
    <3>2. CASE proc[d].state = "forked"
      <4>1. PICK b \in Controller : Now(b) = "await" /\ target[b] = d
        BY <1>1, <3>2 DEF Waited
      <4> QED
        BY <1>4, <2>1, <2>2, <4>1
    <3> QED
      BY <3>1, <3>2
  <2> QED
    BY <1>1, <2>2, <2>3 DEF Sane
<1>10. \A d \in Daemon : Sane(d)' /\ Waited(d)'
  BY <1>5, <1>7, <1>8, <1>9 DEF Next
<1> QED
  BY <1>10 DEF Forwarders, Sane, Waited

\* Rules without a forwarder that will take them away are the work of a failure.
LEMMA RulesNext ==
  ASSUME TypeOK, Stacks, Forwarders, Rules, Next
  PROVE  Rules'
<1>1. /\ Procs /\ Typed /\ proc \in [Daemon -> Process]
      /\ \A e \in Daemon : Sane(e)
      /\ \A c \in Controller : Aimed(c)
  BY DEF TypeOK, Procs, Typed, Disk, Locals, Counts, Process, Forwarders, Sane, Stacks, Aimed
<1> DEFINE Owner(d) == proc[d].state \in {"run", "closed", "cleanup"}
<1> SUFFICES ASSUME fw' # None, ~forced', "bypass" \notin Ops
             PROVE  \E d \in Daemon : Owner(d)'
  BY DEF Rules
<1>2. ASSUME fw # None, ~forced PROVE \E d \in Daemon : Owner(d)
  BY <1>2 DEF Rules
<1>3. CASE \E c \in Controller, o \in Ops : Begin(c, o)
  BY <1>2, <1>3 DEF Begin
<1>4. ASSUME NEW c \in Controller, ControllerStep(c) PROVE \E d \in Daemon : Owner(d)'
  <2>1. /\ Deed(c) /\ forced' \in {forced, TRUE} /\ fw' \in {fw, None}
    BY <1>4, DeedOf
  <2>2. PICK d \in Daemon : Owner(d)
    <3>1. fw # None
      BY <2>1
    <3>2. forced' = forced \/ forced' = TRUE
      BY <2>1
    <3>3. ~forced
      BY <3>2, Zenon
    <3> QED
      BY <1>2, <3>1, <3>3
  <2>3. \/ UNCHANGED <<proc, listener>>
        \/ \E e \in Daemon : /\ Gone(e) \/ Told(e)
                             /\ Owner(e) => Told(e) \/ forced' = TRUE
        \/ \E e \in Daemon : proc[e].state = "none" /\ \A b \in Daemon \ {e} : proc'[b] = proc[b]
    <3>1. /\ \A e \in Daemon : Sane(e) /\ TypeOK
          /\ Aimed(c) /\ Deed(c)
      BY <1>1, <2>1
    <3> QED
      BY <3>1, DeedSane
  <2>4. ASSUME NEW e \in Daemon, Told(e) PROVE Owner(d)'
    <3>1. proc[e] \in Process
      BY <1>1
    <3>2. proc'[e].state = proc[e].state /\ \A b \in Daemon \ {e} : proc'[b] = proc[b]
      BY <2>4, <3>1 DEF Told, Process
    <3> QED
      BY <2>2, <3>2
  <2>5. ASSUME NEW e \in Daemon, Gone(e), ~Owner(e) PROVE Owner(d)'
    BY <2>2, <2>5 DEF Gone
  <2> QED
    BY <2>2, <2>3, <2>4, <2>5
<1>5. ASSUME NEW c \in Controller, Quit(c) PROVE \E d \in Daemon : Owner(d)'
  <2>1. fw' = fw /\ forced' = forced
    BY <1>5 DEF Quit
  <2>2. PICK d \in Daemon : Owner(d)
    BY <1>2, <2>1
  <2>3. proc'[d] = proc[d] \/ proc'[d] = [proc[d] EXCEPT !.parent = InitProcess]
    BY <1>1, <1>5, <2>2, QuitSane
  <2>4. proc[d] \in Process
    BY <1>1
  <2> QED
    BY <2>2, <2>3, <2>4 DEF Process
<1>6. ASSUME NEW d \in Daemon, DaemonStep(d) \/ Crash(d) \/ UnitStart(d) \/ UnitStop(d)
      PROVE  \E e \in Daemon : Owner(e)'
  <2>1. \A e \in Daemon \ {d} : proc'[e] = proc[e]
    BY <1>1, <1>6, OwnStep
  <2>2. proc[d] \in Process
    BY <1>1
  <2>3. CASE Install(d)
    <3>1. proc'[d].state = "run"
      BY <1>1, <2>2, <2>3 DEF Install, Process
    <3> QED
      BY <3>1
  <2>4. CASE Exit(d) \/ StartFails(d) \/ Crash(d)
    <3>1. fw' = None \/ forced' = TRUE
      BY <2>4 DEF Exit, StartFails, Crash, Fault
    <3> QED
      BY <3>1
  <2>5. CASE /\ fw' = fw /\ forced' = forced
             /\ ~Owner(d)
    BY <1>2, <2>1, <2>5
  <2>6. CASE CloseListener(d) \/ RemovePid(d)
    <3>1. proc'[d].state \in {"closed", "cleanup"}
      BY <1>1, <2>2, <2>6 DEF CloseListener, LeaveLoop, RemovePid, Process
    <3> QED
      BY <3>1
  <2>7. CASE UnitStop(d)
    <3>1. Terminate(d) /\ fw' = fw /\ forced' = forced
      BY <2>7 DEF UnitStop
    <3>2. Owner(d) => Told(d)
      BY <1>1, <3>1, SignalOf DEF Handled, Alive, Execed
    <3>3. Told(d) => proc'[d].state = proc[d].state
      BY <2>2 DEF Told, Process
    <3> QED
      BY <1>2, <2>1, <3>1, <3>2, <3>3
  <2>8. Exec(d) \/ LoadConfig(d) \/ Bind(d) \/ WritePid(d) \/ UnitStart(d) =>
          fw' = fw /\ forced' = forced /\ ~Owner(d)
    BY DEF Exec, LoadConfig, Bind, WritePid, UnitStart, NewProcess
  <2> QED
    BY <1>6, <2>3, <2>4, <2>5, <2>6, <2>7, <2>8 DEF DaemonStep
<1> QED
  BY <1>3, <1>4, <1>5, <1>6 DEF Next

-----------------------------------------------------------------------------
(* fp_stop_daemon and fp_uninstall, when systemd starts no forwarder.        *)

Base == TypeOK /\ Stacks /\ Locked /\ Forwarders /\ Rules

\* What the invariant so far says, in the terms of the proofs.
LEMMA BaseFacts ==
  ASSUME Base
  PROVE  /\ TypeOK /\ Stacks /\ Locked /\ Forwarders /\ Typed /\ Procs /\ Locals /\ Disk
         /\ proc \in [Daemon -> Process] /\ lock \subseteq Controller
         /\ \A d \in Daemon : Sane(d) /\ Waited(d)
         /\ \A c \in Controller : Aimed(c) /\ ret[c] \in {"ok", "fail"}
         /\ \A c \in Controller : Now(c) \in Fresh => ~Rolling(c) /\ ~Retrying(c)
         /\ \A c \in Controller : c \in lock <=> Now(c) \notin Outside \cup {"idle"}
         /\ None \notin Daemon
BY LifecycleAssumption DEF Base, TypeOK, Typed, Procs, Locals, Disk, Counts, Process, Forwarders,
  Sane, Waited, Stacks, Aimed, Locked

\* While the lock file is the first one, one controller at most has the lock.
LEMMA Holder ==
  ASSUME Base, LockIntact, NEW c \in lock
  PROVE  lock = {c}
<1>1. ASSUME NEW b \in lock PROVE opened[b] = 1
  <2>1. b \in Controller /\ lockfile = 1 /\ opened[b] \in 0 .. lockfile /\ opened[b] # 0
    BY <1>1 DEF Base, TypeOK, Locked, LockIntact
  <2>2. opened[b] \in 0 .. 1 /\ opened[b] # 0
    BY <2>1
  <2> QED
    BY <2>2
<1>2. ASSUME NEW b \in lock PROVE b = c
  BY <1>1 DEF Base, Locked
<1> QED
  BY <1>2

\* A forwarder that is gone or has been told to stop has not come to life.
LEMMA EndAlive ==
  ASSUME Procs, NEW d \in Daemon, Gone(d) \/ Told(d), NEW e \in Daemon, Alive(e)'
  PROVE  Alive(e)
<1>1. proc[d] \in Process
  BY DEF Procs
<1>2. CASE e # d
  BY <1>2 DEF Gone, Told, Alive
<1>3. CASE e = d /\ Gone(d)
  BY <1>1, <1>3 DEF Gone, Alive, Execed, NoProcess, Process
<1>4. CASE e = d /\ Told(d)
  BY <1>1, <1>4 DEF Told, Alive, Process
<1> QED
  BY <1>2, <1>3, <1>4

\* Controllers fork forwarders one at a time, and nothing else comes to life.
LEMMA AliveStep ==
  ASSUME Base, NEW c \in Controller, ControllerStep(c), \A d \in Daemon : ~Spawn(c, d),
         NEW e \in Daemon, Alive(e)'
  PROVE  Alive(e)
<1>1. Deed(c) /\ Procs /\ Aimed(c) /\ TypeOK /\ \A d \in Daemon : Sane(d)
  BY BaseFacts, DeedOf
<1>2. UNCHANGED <<proc, listener>> \/ \E d \in Daemon : Gone(d) \/ Told(d)
  BY <1>1, DeedSane
<1> QED
  BY <1>1, <1>2, EndAlive DEF Alive

\* Forwarders that systemd does not start were there before.
LEMMA OwnAlive ==
  ASSUME Base, NEW d \in Daemon, DaemonStep(d) \/ Crash(d) \/ UnitStop(d)
  PROVE  /\ Alive(d) /\ forced' \in {forced, TRUE} /\ unit' = unit /\ lockfile' = lockfile
         /\ \A e \in Daemon : Alive(e)' => Alive(e)
<1>1. Procs /\ Typed /\ \A e \in Daemon : Sane(e)
  BY BaseFacts
<1>2. Alive(d) /\ forced' \in {forced, TRUE}
  BY DEF DaemonStep, Crash, UnitStop, Exec, LoadConfig, Bind, WritePid, Install, StartFails,
         CloseListener, LeaveLoop, RemovePid, Exit, Alive, Execed, Fault, NoFault, countVars
<1>3. unit' = unit /\ lockfile' = lockfile
  BY <1>1, TypedForwarder DEF OnlyForwarders, hostVars
<1>4. \A e \in Daemon \ {d} : proc'[e] = proc[e]
  BY <1>1, OwnStep
<1> QED
  BY <1>2, <1>3, <1>4 DEF Alive

\* A holder of the lock whom the step of another leaves alone.
Still(b) ==
  /\ calls'[b] = calls[b] /\ op'[b] = op[b] /\ ret'[b] = ret[b]
  /\ target'[b] = target[b] /\ todo'[b] = todo[b] /\ bad'[b] = bad[b]

\* Steps after which b is where it was keep what its fp_stop_daemon and fp_uninstall know.
LEMMA CalmStill ==
  ASSUME Base, NEW b \in Controller, Still(b), \A e \in Daemon : Alive(e)' => Alive(e),
         forced' \in {forced, TRUE}, UNCHANGED <<config, pidfile, fw>> \/ ~NoneAlive,
         Scans(b), Uninstalls(b)
  PROVE  Scans(b)' /\ Uninstalls(b)'
<1>1. Now(b)' = Now(b) /\ (Retrying(b)' <=> Retrying(b))
  BY SameStack DEF Still
<1>2. (NoneAlive => NoneAlive') /\ (forced => forced')
  <2>1. forced' = forced \/ forced' = TRUE
    OBVIOUS
  <2>2. forced => forced'
    BY <2>1, Zenon
  <2> QED
    BY <2>2 DEF NoneAlive
<1>3. Now(b) = "killed" => target[b] \in Daemon
  BY BaseFacts DEF Aimed
<1>4. Scans(b)'
  BY <1>1, <1>2, <1>3 DEF Scans, Still
<1>5. Uninstalls(b)'
  BY <1>1, <1>2 DEF Uninstalls, Still
<1> QED
  BY <1>4, <1>5

-----------------------------------------------------------------------------
(* Where each statement leads.                                               *)

\* c runs s next, with v returned to it and what is still to come unchanged.
To(c, s, v) == Now(c)' = s /\ ret'[c] = v /\ Keeps(c)
Left(c, v) == Now(c)' = "unlock" /\ ret'[c] = v /\ ~Rolling(c)' /\ ~Retrying(c)'
\* What a step to statement s says of the stacks and the values returned.
LEMMA ToOf ==
  ASSUME TypeOK, NEW c \in Controller, NEW s, NEW v, Goes(c, s, v)
  PROVE  /\ Now(c)' = s /\ ret'[c] = v
         /\ \A b \in Controller \ {c} : calls'[b] = calls[b] /\ ret'[b] = ret[b]
BY DEF Goes, TypeOK

\* fp_stop_daemon
LEMMA FlowStop ==
  ASSUME TypeOK, Stacks, NEW c \in Controller
  PROVE
    /\ StopDaemon(c) =>
         /\ Now(c) = "stop"
         /\ \/ To(c, "sweep", "ok") /\ ~(Recorded /\ IsOurs(pidfile))
            \/ /\ To(c, "term", "ok") /\ calls'[c][2] = "sweep" /\ target'[c] = pidfile
               /\ Recorded /\ IsOurs(pidfile)
    /\ SendTerm(c) => Now(c) = "term" /\ To(c, "wait", "ok") /\ calls'[c][2] = calls[c][2]
    /\ WaitGone(c) =>
         Now(c) = "wait" /\ \E s \in {"sweep", "scan"} : To(c, s, "ok") /\ s = calls[c][2]
    /\ WaitTimeout(c) => Now(c) = "wait" /\ To(c, "killed", "ok") /\ calls'[c][2] = calls[c][2]
    /\ KillGone(c) =>
         /\ Now(c) = "killed"
         /\ \E s \in {"sweep", "scan"} :
              /\ s = calls[c][2]
              /\ \/ To(c, s, "ok") /\ proc[target[c]].state = "none"
                 \/ To(c, s, "fail") /\ proc[target[c]].state # "none"
    /\ Sweep(c) => Now(c) = "sweep" /\ To(c, "scan", ret[c])
    /\ \A d \in Daemon : ScanEntry(c, d) =>
         /\ Now(c) = "scan" /\ ret[c] = "ok"
         /\ \/ /\ To(c, "term", "ok") /\ calls'[c][2] = "scan" /\ IsOurs(d) /\ target'[c] = d
            \/ To(c, "scan", "ok") /\ ~IsOurs(d)
    /\ ScanDone(c) =>
         Now(c) = "scan" /\ \E s \in {"port", "port_again", "spawn"} : To(c, s, ret[c])
    /\ \A s \in {"port", "port_again"} :
         /\ PortReleased(c, s) =>
              Now(c) = s /\ \E t \in Stopped : /\ Now(c)' = t /\ ret'[c] = ret[c]
                                               /\ (Rolling(c)' <=> Rolling(c))
                                               /\ t # "uninstall_retry" => Keeps(c)
                                               /\ t = "uninstall_retry" => Retrying(c)
         /\ PortBusy(c, s) =>
              /\ Now(c) = s /\ ret[c] = "ok" /\ listener # None
              /\ \/ To(c, "sweep", "ok") /\ s = "port"
                 \/ /\ s = "port_again"
                    /\ \E t \in Stopped : /\ Now(c)' = t /\ ret'[c] = "fail"
                                          /\ (Rolling(c)' <=> Rolling(c))
                                          /\ t # "uninstall_retry" => Keeps(c)
                                          /\ t = "uninstall_retry" => Retrying(c)
<1>1. \A s : At(c, s) <=> Now(c) = s /\ Now(c) # "idle"
  BY HeadOf
<1>2. \A s, v : Goes(c, s, v) => Now(c)' = s /\ ret'[c] = v
  BY ToOf
<1>3. target \in [Controller -> Daemon \cup {None}]
  BY DEF TypeOK
<1> USE <1>1, <1>2, <1>3 DEF To
<1>4. ASSUME StopDaemon(c)
      PROVE  /\ Now(c) = "stop"
             /\ \/ To(c, "sweep", "ok") /\ ~(Recorded /\ IsOurs(pidfile))
                \/ /\ To(c, "term", "ok") /\ calls'[c][2] = "sweep" /\ target'[c] = pidfile
                   /\ Recorded /\ IsOurs(pidfile)
  BY <1>4, Pushes DEF StopDaemon
<1>5. SendTerm(c) => Now(c) = "term" /\ To(c, "wait", "ok") /\ calls'[c][2] = calls[c][2]
  BY Pushes DEF SendTerm
<1>6. WaitGone(c) =>
         Now(c) = "wait" /\ \E s \in {"sweep", "scan"} : To(c, s, "ok") /\ s = calls[c][2]
  BY Pops DEF WaitGone, GoesOn
<1>7. WaitTimeout(c) => Now(c) = "wait" /\ To(c, "killed", "ok") /\ calls'[c][2] = calls[c][2]
  BY Pushes DEF WaitTimeout
<1>8. ASSUME KillGone(c)
      PROVE  /\ Now(c) = "killed"
             /\ \E s \in {"sweep", "scan"} :
                  /\ s = calls[c][2]
                  /\ \/ To(c, s, "ok") /\ proc[target[c]].state = "none"
                     \/ To(c, s, "fail") /\ proc[target[c]].state # "none"
  <2>1. Now(c) = "killed" /\ \/ Then(c, <<>>, "ok") /\ proc[target[c]].state = "none"
                             \/ Then(c, <<>>, "fail") /\ proc[target[c]].state # "none"
    BY <1>8 DEF KillGone
  <2> QED
    BY <2>1, Pops DEF GoesOn
<1>9. Sweep(c) => Now(c) = "sweep" /\ To(c, "scan", ret[c])
  BY Pops DEF Sweep
<1>10. ASSUME NEW d \in Daemon, ScanEntry(c, d)
       PROVE  /\ Now(c) = "scan" /\ ret[c] = "ok"
              /\ \/ /\ To(c, "term", "ok") /\ calls'[c][2] = "scan" /\ IsOurs(d) /\ target'[c] = d
                 \/ To(c, "scan", "ok") /\ ~IsOurs(d)
  <2>1. /\ Now(c) = "scan" /\ ret[c] = "ok"
        /\ \/ Then(c, <<"term", "scan">>, "ok") /\ IsOurs(d) /\ target'[c] = d
           \/ Then(c, <<"scan">>, "ok") /\ ~IsOurs(d)
    BY <1>10 DEF ScanEntry
  <2> QED
    BY <2>1, Pushes
<1>11. ScanDone(c) =>
         Now(c) = "scan" /\ \E s \in {"port", "port_again", "spawn"} : To(c, s, ret[c])
  BY Pops DEF ScanDone, GoesOn
<1>12. ASSUME NEW s \in {"port", "port_again"}, PortReleased(c, s)
       PROVE  Now(c) = s /\ \E t \in Stopped : /\ Now(c)' = t /\ ret'[c] = ret[c]
                                               /\ (Rolling(c)' <=> Rolling(c))
                                               /\ t # "uninstall_retry" => Keeps(c)
                                               /\ t = "uninstall_retry" => Retrying(c)
  <2>1. Now(c) = s /\ Then(c, <<>>, ret[c])
    BY <1>12 DEF PortReleased
  <2> QED
    BY <2>1, Pops
<1>13. ASSUME NEW s \in {"port", "port_again"}, PortBusy(c, s)
       PROVE  /\ Now(c) = s /\ ret[c] = "ok" /\ listener # None
              /\ \/ To(c, "sweep", "ok") /\ s = "port"
                 \/ /\ s = "port_again"
                    /\ \E t \in Stopped : /\ Now(c)' = t /\ ret'[c] = "fail"
                                          /\ (Rolling(c)' <=> Rolling(c))
                                          /\ t # "uninstall_retry" => Keeps(c)
                                          /\ t = "uninstall_retry" => Retrying(c)
  <2>1. /\ Now(c) = s /\ ret[c] = "ok" /\ listener # None
        /\ \/ s = "port" /\ Then(c, <<"sweep", "scan", "port_again">>, "ok")
           \/ s = "port_again" /\ Then(c, <<>>, "fail")
    BY <1>13 DEF PortBusy
  <2>2. CASE s = "port" /\ Then(c, <<"sweep", "scan", "port_again">>, "ok")
    BY <2>1, <2>2, Pushes
  <2>3. CASE s = "port_again" /\ Then(c, <<>>, "fail")
    BY <2>1, <2>3, Pops
  <2> QED
    BY <2>1, <2>2, <2>3
<1> QED
  BY <1>4, <1>5, <1>6, <1>7, <1>8, <1>9, <1>10, <1>11, <1>12, <1>13

\* activate_proxy_locked and fp_start_daemon
LEMMA FlowStart ==
  ASSUME TypeOK, Stacks, NEW c \in Controller
  PROVE
    /\ Activate(c) =>
         /\ Now(c) = "activate"
         /\ \/ (\E s \in Activated : To(c, s, "ok")) /\ Matches(arg[c]) /\ IsEnabled(arg[c])
            \/ To(c, "stop", "ok") /\ ~(Matches(arg[c]) /\ IsEnabled(arg[c]))
            \/ To(c, "replace", "ok") /\ ~Recorded
    /\ Replace(c) =>
         /\ Now(c) = "replace"
         /\ \/ To(c, "start", "ok") /\ ret[c] = "ok" /\ fw' = None /\ NoFault
            \/ (\E s \in Activated : To(c, s, "fail")) /\ ret[c] = "fail" /\ fw' = fw /\ NoFault
            \/ (\E s \in Activated : To(c, s, "fail")) /\ ret[c] = "ok" /\ Fault
    /\ Started(c) => Now(c) = "started" /\ \E s \in Activated : To(c, s, ret[c])
    /\ StartDaemon(c) =>
         /\ Now(c) = "start"
         /\ \/ To(c, "started", "ok") /\ Matches(arg[c])
            \/ To(c, "stop", "ok") /\ Recorded
            \/ To(c, "sweep", "ok") /\ ~Recorded
    /\ \A d \in Daemon : Spawn(c, d) =>
         Now(c) = "spawn" /\ ret[c] = "ok" /\ To(c, "await", "ok") /\ target'[c] = d
    /\ SpawnFails(c) => Now(c) = "spawn" /\ To(c, "started", "fail")
    /\ AwaitReady(c) => Now(c) = "await" /\ To(c, "started", "ok")
    /\ AwaitFails(c) => Now(c) = "await" /\ To(c, "reap", "fail")
    /\ Reap(c) => Now(c) = "reap" /\ To(c, "started", "fail")
<1>1. \A s : At(c, s) <=> Now(c) = s /\ Now(c) # "idle"
  BY HeadOf
<1>2. \A s, v : Goes(c, s, v) => Now(c)' = s /\ ret'[c] = v
  BY ToOf
<1>3. target \in [Controller -> Daemon \cup {None}]
  BY DEF TypeOK
<1> USE <1>1, <1>2, <1>3 DEF To
<1>4. ASSUME Activate(c)
      PROVE  /\ Now(c) = "activate"
             /\ \/ (\E s \in Activated : To(c, s, "ok")) /\ Matches(arg[c]) /\ IsEnabled(arg[c])
                \/ To(c, "stop", "ok") /\ ~(Matches(arg[c]) /\ IsEnabled(arg[c]))
                \/ To(c, "replace", "ok") /\ ~Recorded
  <2>1. /\ Now(c) = "activate"
        /\ \/ Then(c, <<>>, "ok") /\ Matches(arg[c]) /\ IsEnabled(arg[c])
           \/ Then(c, <<"stop", "replace">>, "ok") /\ ~(Matches(arg[c]) /\ IsEnabled(arg[c]))
           \/ Then(c, <<"replace">>, "ok") /\ ~Recorded
    BY <1>4, StopReplace DEF Activate
  <2> QED
    BY <2>1, Pops, Pushes DEF GoesOn
<1>5. ASSUME Replace(c)
      PROVE  /\ Now(c) = "replace"
             /\ \/ To(c, "start", "ok") /\ ret[c] = "ok" /\ fw' = None /\ NoFault
                \/ (\E s \in Activated : To(c, s, "fail")) /\ ret[c] = "fail" /\ fw' = fw /\ NoFault
                \/ (\E s \in Activated : To(c, s, "fail")) /\ ret[c] = "ok" /\ Fault
  <2>1. /\ Now(c) = "replace"
        /\ \/ Then(c, <<"start", "started">>, "ok") /\ ret[c] = "ok" /\ fw' = None /\ NoFault
           \/ Then(c, <<>>, "fail") /\ ret[c] = "fail" /\ fw' = fw /\ NoFault
           \/ Then(c, <<>>, "fail") /\ ret[c] = "ok" /\ Fault
    BY <1>5 DEF Replace
  <2> QED
    BY <2>1, Pops, Pushes DEF GoesOn
<1>6. Started(c) => Now(c) = "started" /\ \E s \in Activated : To(c, s, ret[c])
  <2>1. Started(c) => Now(c) = "started" /\ Then(c, <<>>, ret[c])
    BY DEF Started
  <2> QED
    BY <2>1, Pops DEF GoesOn
<1>7. ASSUME StartDaemon(c)
      PROVE  /\ Now(c) = "start"
             /\ \/ To(c, "started", "ok") /\ Matches(arg[c])
                \/ To(c, "stop", "ok") /\ Recorded
                \/ To(c, "sweep", "ok") /\ ~Recorded
  <2>1. /\ Now(c) = "start"
        /\ \/ Then(c, <<>>, "ok") /\ Matches(arg[c])
           \/ Then(c, <<"stop", "spawn">>, "ok") /\ Recorded
           \/ Then(c, <<"sweep", "scan", "spawn">>, "ok") /\ ~Recorded
    BY <1>7 DEF StartDaemon
  <2>2. CASE Then(c, <<>>, "ok") /\ Matches(arg[c])
    BY <2>1, <2>2, Pops
  <2>3. CASE Then(c, <<"stop", "spawn">>, "ok") /\ Recorded
    BY <2>1, <2>3, Pushes
  <2>4. CASE Then(c, <<"sweep", "scan", "spawn">>, "ok") /\ ~Recorded
    BY <2>1, <2>4, Pushes
  <2> QED
    BY <2>1, <2>2, <2>3, <2>4
<1>8. ASSUME NEW d \in Daemon, Spawn(c, d)
      PROVE  Now(c) = "spawn" /\ ret[c] = "ok" /\ To(c, "await", "ok") /\ target'[c] = d
  <2>1. Now(c) = "spawn" /\ ret[c] = "ok" /\ Then(c, <<"await">>, "ok") /\ target'[c] = d
    BY <1>8 DEF Spawn
  <2> QED
    BY <2>1, Pushes
<1>9. SpawnFails(c) => Now(c) = "spawn" /\ To(c, "started", "fail")
  <2>1. SpawnFails(c) => Now(c) = "spawn" /\ Then(c, <<>>, "fail")
    BY DEF SpawnFails
  <2> QED
    BY <2>1, Pops
<1>10. AwaitReady(c) => Now(c) = "await" /\ To(c, "started", "ok")
  <2>1. AwaitReady(c) => Now(c) = "await" /\ Then(c, <<>>, "ok")
    BY DEF AwaitReady
  <2> QED
    BY <2>1, Pops
<1>11. AwaitFails(c) => Now(c) = "await" /\ To(c, "reap", "fail")
  <2>1. AwaitFails(c) => Now(c) = "await" /\ Then(c, <<"reap">>, "fail")
    BY DEF AwaitFails
  <2> QED
    BY <2>1, Pushes
<1>12. Reap(c) => Now(c) = "reap" /\ To(c, "started", "fail")
  <2>1. Reap(c) => Now(c) = "reap" /\ Then(c, <<>>, "fail")
    BY DEF Reap
  <2> QED
    BY <2>1, Pops
<1> QED
  BY <1>4, <1>5, <1>6, <1>7, <1>8, <1>9, <1>10, <1>11, <1>12

\* The rest of fp_enable_proxy, fp_enable_saved_proxy, fp_set_bypass and fp_disable_proxy
LEMMA FlowConfig ==
  ASSUME TypeOK, Stacks, NEW c \in Controller
  PROVE
    /\ LoadEnable(c) =>
         /\ Now(c) = "load_enable"
         /\ \/ To(c, "activate", "ok") /\ config' = arg'[c] /\ NoFault
            \/ Left(c, "fail") /\ config' = config /\ Fault
    /\ RejectProxy(c) => Now(c) = "load_enable" /\ Left(c, "fail")
    /\ LoadSaved(c) =>
         /\ Now(c) = "load_saved"
         /\ \/ To(c, "activate", "ok") /\ arg'[c] = config /\ config # None
            \/ Left(c, "fail")
    /\ AfterEnable(c) =>
         /\ Now(c) = "after_enable"
         /\ \/ /\ Now(c)' = "activate" /\ ret'[c] = "fail" /\ Rolling(c)'
               /\ ret[c] = "fail" /\ prev[c] # None
            \/ To(c, "unlock", "fail") /\ ret[c] = "fail" /\ prev[c] # None /\ ~was[c]
            \/ /\ To(c, "unlock", ret[c]) /\ UNCHANGED <<config, arg>> /\ NoFault
               /\ ret[c] # "fail" \/ prev[c] = None
    /\ ReportFailure(c) => Now(c) = "report_failure" /\ Now(c)' = "unlock" /\ ret'[c] = "fail"
    /\ LoadBypass(c) =>
         /\ Now(c) = "load_bypass"
         /\ \/ Left(c, "fail") /\ UNCHANGED <<config, arg, prev>> /\ NoFault
            \/ /\ IF Recorded THEN To(c, "fw_bypass", "ok") ELSE To(c, "unlock", "ok")
               /\ config # None /\ config' = arg'[c] /\ prev'[c] = config /\ NoFault
               /\ \E b \in Bypass : arg'[c] = [config EXCEPT !.bypass = b]
            \/ /\ \E s \in {"unlock", "fw_restore"} : To(c, s, "fail")
               /\ config' = config /\ Fault
    /\ FirewallBypass(c) =>
         /\ Now(c) = "fw_bypass"
         /\ \/ To(c, "unlock", "ok") /\ fw' = arg[c] /\ config' = config /\ NoFault
            \/ To(c, "fw_restore", "fail") /\ Fault
    /\ FirewallRestore(c) => Now(c) = "fw_restore" /\ To(c, "unlock", "fail")
    /\ FirewallOff(c) =>
         /\ Now(c) = "fw_off"
         /\ \/ To(c, "unlock", ret[c]) /\ fw' = None
            \/ To(c, "unlock", "fail")
<1>1. \A s : At(c, s) <=> Now(c) = s /\ Now(c) # "idle"
  BY HeadOf
<1>2. \A s, v : Goes(c, s, v) => Now(c)' = s /\ ret'[c] = v
  BY ToOf
<1>3. /\ prev \in [Controller -> Config \cup {None}] /\ arg \in [Controller -> Config \cup {None}]
  BY DEF TypeOK
<1> USE <1>1, <1>2, <1>3 DEF To, Left
<1>4. ASSUME LoadEnable(c)
      PROVE  /\ Now(c) = "load_enable"
             /\ \/ To(c, "activate", "ok") /\ config' = arg'[c] /\ NoFault
                \/ Left(c, "fail") /\ config' = config /\ Fault
  <2>1. /\ Now(c) = "load_enable"
        /\ \/ Then(c, <<>>, "ok") /\ config' = arg'[c] /\ NoFault
           \/ Leave(c, "fail") /\ config' = config /\ Fault
    BY <1>4 DEF LoadEnable
  <2> QED
    BY <2>1, Pops, Leaves
<1>5. RejectProxy(c) => Now(c) = "load_enable" /\ Left(c, "fail")
  BY Leaves DEF RejectProxy
<1>6. ASSUME LoadSaved(c)
      PROVE  /\ Now(c) = "load_saved"
             /\ \/ To(c, "activate", "ok") /\ arg'[c] = config /\ config # None
                \/ Left(c, "fail")
  <2>1. /\ Now(c) = "load_saved"
        /\ \/ Then(c, <<>>, "ok") /\ arg'[c] = config /\ config # None
           \/ Leave(c, "fail")
    BY <1>6 DEF LoadSaved
  <2> QED
    BY <2>1, Pops, Leaves
<1>7. ASSUME AfterEnable(c)
      PROVE  /\ Now(c) = "after_enable"
             /\ \/ /\ Now(c)' = "activate" /\ ret'[c] = "fail" /\ Rolling(c)'
                   /\ ret[c] = "fail" /\ prev[c] # None
                \/ To(c, "unlock", "fail") /\ ret[c] = "fail" /\ prev[c] # None /\ ~was[c]
                \/ /\ To(c, "unlock", ret[c]) /\ UNCHANGED <<config, arg>> /\ NoFault
                   /\ ret[c] # "fail" \/ prev[c] = None
  <2>1. /\ Now(c) = "after_enable"
        /\ \/ /\ Then(c, <<"activate", "report_failure">>, "fail")
              /\ ret[c] = "fail" /\ prev[c] # None
           \/ Then(c, <<>>, "fail") /\ ret[c] = "fail" /\ prev[c] # None /\ ~was[c]
           \/ /\ Then(c, <<>>, ret[c]) /\ UNCHANGED <<config, arg>> /\ NoFault
              /\ ret[c] # "fail" \/ prev[c] = None
    BY <1>7 DEF AfterEnable
  <2>2. CASE Then(c, <<"activate", "report_failure">>, "fail") /\ ret[c] = "fail" /\ prev[c] # None
    BY <2>1, <2>2, Pushes
  <2>3. CASE Then(c, <<>>, "fail") /\ ret[c] = "fail" /\ prev[c] # None /\ ~was[c]
    BY <2>1, <2>3, Pops
  <2>4. CASE /\ Then(c, <<>>, ret[c]) /\ UNCHANGED <<config, arg>> /\ NoFault
             /\ ret[c] # "fail" \/ prev[c] = None
    BY <2>1, <2>4, Pops
  <2> QED
    BY <2>1, <2>2, <2>3, <2>4
<1>8. ReportFailure(c) => Now(c) = "report_failure" /\ Now(c)' = "unlock" /\ ret'[c] = "fail"
  BY Pops DEF ReportFailure
<1>9. ASSUME LoadBypass(c)
      PROVE  /\ Now(c) = "load_bypass"
             /\ \/ Left(c, "fail") /\ UNCHANGED <<config, arg, prev>> /\ NoFault
                \/ /\ IF Recorded THEN To(c, "fw_bypass", "ok") ELSE To(c, "unlock", "ok")
                   /\ config # None /\ config' = arg'[c] /\ prev'[c] = config /\ NoFault
                   /\ \E b \in Bypass : arg'[c] = [config EXCEPT !.bypass = b]
                \/ /\ \E s \in {"unlock", "fw_restore"} : To(c, s, "fail")
                   /\ config' = config /\ Fault
  <2>1. /\ Now(c) = "load_bypass"
        /\ \/ Leave(c, "fail") /\ UNCHANGED <<config, arg, prev>> /\ NoFault
           \/ /\ IF Recorded THEN Then(c, <<"fw_bypass">>, "ok") ELSE Then(c, <<>>, "ok")
              /\ config # None /\ config' = arg'[c] /\ prev'[c] = config /\ NoFault
              /\ \E b \in Bypass : arg' = [arg EXCEPT ![c] = [config EXCEPT !.bypass = b]]
           \/ /\ Then(c, <<"fw_restore">>, "fail") \/ Then(c, <<>>, "fail")
              /\ config' = config /\ Fault
    BY <1>9 DEF LoadBypass
  <2>2. CASE Leave(c, "fail") /\ UNCHANGED <<config, arg, prev>> /\ NoFault
    BY <2>1, <2>2, Leaves
  <2>3. CASE /\ IF Recorded THEN Then(c, <<"fw_bypass">>, "ok") ELSE Then(c, <<>>, "ok")
             /\ config # None /\ config' = arg'[c] /\ prev'[c] = config /\ NoFault
             /\ \E b \in Bypass : arg' = [arg EXCEPT ![c] = [config EXCEPT !.bypass = b]]
    <3>1. IF Recorded THEN To(c, "fw_bypass", "ok") ELSE To(c, "unlock", "ok")
      BY <2>1, <2>3, Pops, Pushes
    <3>2. PICK b \in Bypass : arg' = [arg EXCEPT ![c] = [config EXCEPT !.bypass = b]]
      BY <2>3
    <3>3. arg'[c] = [config EXCEPT !.bypass = b]
      BY <3>2 DEF TypeOK
    <3> QED
      BY <2>1, <2>3, <3>1, <3>3
  <2>4. CASE /\ Then(c, <<"fw_restore">>, "fail") \/ Then(c, <<>>, "fail")
             /\ config' = config /\ Fault
    BY <2>1, <2>4, Pops, Pushes
  <2> QED
    BY <2>1, <2>2, <2>3, <2>4
<1>10. ASSUME FirewallBypass(c)
       PROVE  /\ Now(c) = "fw_bypass"
              /\ \/ To(c, "unlock", "ok") /\ fw' = arg[c] /\ config' = config /\ NoFault
                 \/ To(c, "fw_restore", "fail") /\ Fault
  <2>1. /\ Now(c) = "fw_bypass"
        /\ \/ Then(c, <<>>, "ok") /\ fw' = arg[c] /\ config' = config /\ NoFault
           \/ Then(c, <<"fw_restore">>, "fail") /\ Fault
    BY <1>10 DEF FirewallBypass
  <2> QED
    BY <2>1, Pops, Pushes
<1>11. FirewallRestore(c) => Now(c) = "fw_restore" /\ To(c, "unlock", "fail")
  <2>1. FirewallRestore(c) => Now(c) = "fw_restore" /\ Then(c, <<>>, "fail")
    BY DEF FirewallRestore
  <2> QED
    BY <2>1, Pops
<1>12. ASSUME FirewallOff(c)
       PROVE  /\ Now(c) = "fw_off"
              /\ \/ To(c, "unlock", ret[c]) /\ fw' = None
                 \/ To(c, "unlock", "fail")
  <2>1. /\ Now(c) = "fw_off"
        /\ (Then(c, <<>>, ret[c]) /\ fw' = None) \/ Then(c, <<>>, "fail")
    BY <1>12 DEF FirewallOff
  <2> QED
    BY <2>1, Pops
<1> QED
  BY <1>4, <1>5, <1>6, <1>7, <1>8, <1>9, <1>10, <1>11, <1>12

\* fp_uninstall
LEMMA FlowUninstall ==
  ASSUME TypeOK, Stacks, NEW c \in Controller
  PROVE
    /\ UnitStopBegin(c) =>
         Now(c) = "unit_stop" /\ \E s \in {"unit_wait", "unit_remove"} : To(c, s, "ok")
    /\ UnitStopDone(c) => Now(c) = "unit_wait" /\ To(c, "unit_remove", "ok")
    /\ UnitRemove(c) => Now(c) = "unit_remove" /\ To(c, "stop", "ok")
    /\ UninstallFirewall(c) =>
         /\ Now(c) = "uninstall_fw" /\ ret'[c] = "ok"
         /\ \/ /\ ret[c] = "fail" /\ Now(c)' = "stop" /\ Retrying(c)'
               /\ (Rolling(c)' <=> Rolling(c))
            \/ ret[c] # "fail" /\ To(c, "uninstall_retry", "ok")
         /\ (fw' = None /\ NoFault /\ bad' = bad) \/ (Fault /\ "firewall" \in bad'[c])
    /\ UninstallRetry(c) => Now(c) = "uninstall_retry" /\ To(c, "remove_files", "ok")
    /\ RemoveFiles(c) =>
         /\ Now(c) = "remove_files"
         /\ (To(c, "unlock", "ok") /\ bad[c] = {}) \/ To(c, "unlock", "fail")
<1>1. \A s : At(c, s) <=> Now(c) = s /\ Now(c) # "idle"
  BY HeadOf
<1>2. \A s, v : Goes(c, s, v) => Now(c)' = s /\ ret'[c] = v
  BY ToOf
<1>3. bad \in [Controller -> SUBSET {"service", "stop", "firewall"}]
  BY DEF TypeOK
<1> USE <1>1, <1>2, <1>3 DEF To
<1>4. ASSUME UnitStopBegin(c)
      PROVE  Now(c) = "unit_stop" /\ \E s \in {"unit_wait", "unit_remove"} : To(c, s, "ok")
  <2>1. Now(c) = "unit_stop" /\ (Then(c, <<"unit_wait">>, "ok") \/ Then(c, <<>>, "ok"))
    BY <1>4 DEF UnitStopBegin
  <2> QED
    BY <2>1, Pops, Pushes
<1>5. UnitStopDone(c) => Now(c) = "unit_wait" /\ To(c, "unit_remove", "ok")
  <2>1. UnitStopDone(c) => Now(c) = "unit_wait" /\ Then(c, <<>>, "ok")
    BY DEF UnitStopDone
  <2> QED
    BY <2>1, Pops
<1>6. UnitRemove(c) => Now(c) = "unit_remove" /\ To(c, "stop", "ok")
  <2>1. UnitRemove(c) => Now(c) = "unit_remove" /\ Then(c, <<>>, "ok")
    BY DEF UnitRemove
  <2> QED
    BY <2>1, Pops
<1>7. ASSUME UninstallFirewall(c)
      PROVE  /\ Now(c) = "uninstall_fw" /\ ret'[c] = "ok"
             /\ \/ /\ ret[c] = "fail" /\ Now(c)' = "stop" /\ Retrying(c)'
                   /\ (Rolling(c)' <=> Rolling(c))
                \/ ret[c] # "fail" /\ To(c, "uninstall_retry", "ok")
             /\ (fw' = None /\ NoFault /\ bad' = bad) \/ (Fault /\ "firewall" \in bad'[c])
  <2>1. /\ Now(c) = "uninstall_fw"
        /\ \/ ret[c] = "fail" /\ Then(c, <<"stop">>, "ok")
           \/ ret[c] # "fail" /\ Then(c, <<>>, "ok")
        /\ \/ fw' = None /\ NoFault /\ bad' = bad
           \/ Fault /\ bad' = [bad EXCEPT ![c] = bad[c] \cup {"firewall"}]
    BY <1>7 DEF UninstallFirewall
  <2>2. (fw' = None /\ NoFault /\ bad' = bad) \/ (Fault /\ "firewall" \in bad'[c])
    BY <2>1
  <2>3. CASE ret[c] = "fail" /\ Then(c, <<"stop">>, "ok")
    BY <2>1, <2>2, <2>3, Pushes
  <2>4. CASE ret[c] # "fail" /\ Then(c, <<>>, "ok")
    BY <2>1, <2>2, <2>4, Pops
  <2> QED
    BY <2>1, <2>3, <2>4
<1>8. UninstallRetry(c) => Now(c) = "uninstall_retry" /\ To(c, "remove_files", "ok")
  <2>1. UninstallRetry(c) => Now(c) = "uninstall_retry" /\ Then(c, <<>>, "ok")
    BY DEF UninstallRetry
  <2> QED
    BY <2>1, Pops
<1>9. ASSUME RemoveFiles(c)
      PROVE  /\ Now(c) = "remove_files"
             /\ (To(c, "unlock", "ok") /\ bad[c] = {}) \/ To(c, "unlock", "fail")
  <2>1. /\ Now(c) = "remove_files"
        /\ (Then(c, <<>>, "ok") /\ bad[c] = {}) \/ Then(c, <<>>, "fail")
    BY <1>9 DEF RemoveFiles
  <2> QED
    BY <2>1, Pops
<1> QED
  BY <1>4, <1>5, <1>6, <1>7, <1>8, <1>9

-----------------------------------------------------------------------------
(* What the holder of the lock leaves alive.                                 *)

\* The statements at which Scans says something.
Scanning == {"term", "wait", "killed", "scan", "port", "port_again", "fw_off", "uninstall_fw",
             "uninstall_retry", "spawn"}

\* A step of the holder of the lock leads to a statement that Scans is silent about, or it
\* belongs to fp_stop_daemon, or it is the first fp_firewall_disable of fp_uninstall.
LEMMA ScansElsewhere ==
  ASSUME TypeOK, Stacks, NEW c \in Controller, ControllerStep(c), Now(c) \notin Outside,
         Now(c)' \notin Outside \cup {"idle"}
  PROVE  \/ Now(c)' \notin Scanning
         \/ SendTerm(c) \/ WaitGone(c) \/ WaitTimeout(c) \/ KillGone(c) \/ Sweep(c)
         \/ (\E d \in Daemon : ScanEntry(c, d)) \/ ScanDone(c)
         \/ \E s \in {"port", "port_again"} : PortReleased(c, s) \/ PortBusy(c, s)
         \/ UninstallFirewall(c)
         \/ StopDaemon(c)
<1> USE DEF Scanning, Outside, To, Left, Activated
<1>1. \A s : At(c, s) => Now(c) = s
  BY HeadOf
<1>2. ~OpenLock(c) /\ ~Acquire(c) /\ ~RemoveLock(c) /\ ~RemoveBinary(c)
  BY <1>1 DEF OpenLock, Acquire, RemoveLock, RemoveBinary
<1>3. ~Release(c)
  BY <1>1, Pops DEF Release, Goes, TypeOK
<1>4. LoadEnable(c) \/ RejectProxy(c) \/ LoadSaved(c) \/ AfterEnable(c) \/ ReportFailure(c)
        \/ LoadBypass(c) \/ FirewallBypass(c) \/ FirewallRestore(c) \/ FirewallOff(c)
        => Now(c)' \notin Scanning
  BY FlowConfig
<1>5. Activate(c) \/ Replace(c) \/ Started(c) \/ StartDaemon(c) \/ SpawnFails(c)
        \/ AwaitReady(c) \/ AwaitFails(c) \/ Reap(c)
        => Now(c)' \notin Scanning
  BY FlowStart
<1>6. \A d \in Daemon : Spawn(c, d) => Now(c)' \notin Scanning
  BY FlowStart
<1>7. UnitStopBegin(c) \/ UnitStopDone(c) \/ UnitRemove(c) \/ UninstallRetry(c) \/ RemoveFiles(c)
        => Now(c)' \notin Scanning
  BY FlowUninstall
<1> QED
  BY <1>2, <1>3, <1>4, <1>5, <1>6, <1>7 DEF ControllerStep

\* The port is not busy when fp_stop_daemon has found every forwarder.
LEMMA PortFree ==
  ASSUME Base, NEW c \in Controller, Scans(c), NEW s \in {"port", "port_again"}, PortBusy(c, s)
  PROVE  FALSE
<1>1. /\ TypeOK /\ Stacks /\ Procs /\ \A d \in Daemon : Sane(d)
  BY BaseFacts
<1>2. Now(c) = s /\ ret[c] = "ok" /\ listener # None
  BY <1>1, FlowStop
<1>3. NoneAlive
  BY <1>2 DEF Scans
<1>4. PICK d \in Daemon : listener = d
  BY <1>1, <1>2 DEF Procs
<1> QED
  BY <1>1, <1>3, <1>4 DEF Sane, NoneAlive, Alive, Execed

\* fp_stop_daemon, step by step.
LEMMA ScansHolder ==
  ASSUME Base, LockIntact, NEW c \in lock, ControllerStep(c), Scans(c),
         Now(c)' \notin Outside \cup {"idle"}
  PROVE  Scans(c)'
<1>1. /\ c \in Controller /\ TypeOK /\ Stacks /\ Aimed(c) /\ Procs /\ lock = {c}
      /\ proc \in [Daemon -> Process] /\ ret[c] \in {"ok", "fail"} /\ None \notin Daemon
      /\ \A d \in Daemon : Sane(d) /\ Waited(d)
      /\ Now(c) \notin Outside
  BY BaseFacts, Holder
<1>2. CASE Now(c)' \notin Scanning
  BY <1>2 DEF Scans, Scanning
<1>3. ASSUME \A d \in Daemon : ~Spawn(c, d), NEW e \in Daemon, Alive(e)'
      PROVE  Alive(e)
  BY <1>1, <1>3, AliveStep
<1>4. \A s : At(c, s) => Now(c) = s
  BY <1>1, HeadOf
<1>5. /\ target \in [Controller -> Daemon \cup {None}] /\ todo \in [Controller -> SUBSET Daemon]
  BY <1>1 DEF TypeOK
<1>6. Now(c) # "spawn" => \A d \in Daemon : ~Spawn(c, d)
  BY <1>4 DEF Spawn
<1>7. CASE SendTerm(c)
  <2>1. Now(c) = "term" /\ To(c, "wait", "ok") /\ calls'[c][2] = calls[c][2]
    BY <1>1, <1>7, FlowStop
  <2>2. target' = target /\ todo' = todo
    BY <1>7 DEF SendTerm, localVars
  <2> QED
    BY <1>3, <1>6, <2>1, <2>2 DEF To, Scans
<1>8. CASE WaitGone(c)
  <2>1. PICK s \in {"sweep", "scan"} : Now(c) = "wait" /\ To(c, s, "ok") /\ s = calls[c][2]
    BY <1>1, <1>8, FlowStop
  <2>2. todo' = todo /\ Collect(c)
    BY <1>8 DEF WaitGone
  <2>3. target[c] \in Daemon /\ ~Alive(target[c])
    BY <1>1, <2>1, <2>2 DEF Aimed, Collect, Alive, Execed
  <2>4. ASSUME s = "scan", NEW d \in Daemon \ todo[c] PROVE ~Alive(d)'
    BY <1>3, <1>6, <2>1, <2>3, <2>4 DEF Scans
  <2> QED
    BY <2>1, <2>2, <2>4 DEF To, Scans
<1>9. CASE WaitTimeout(c)
  <2>1. Now(c) = "wait" /\ To(c, "killed", "ok") /\ calls'[c][2] = calls[c][2]
    BY <1>1, <1>9, FlowStop
  <2>2. target' = target /\ todo' = todo /\ forced' = TRUE
    BY <1>9 DEF WaitTimeout, localVars
  <2>3. target[c] \in Daemon
    BY <1>1, <2>1 DEF Aimed
  <2>4. ~Alive(target[c])' /\ target'[c] = target[c]
    <3>1. PICK d \in Daemon : d = target[c]
      BY <2>3
    <3>2. proc[d] \in Process
      BY <1>1
    <3>3. Gone(d) \/ (~Alive(d) /\ proc' = proc)
      BY <1>1, <1>9, <3>1, SignalOf DEF WaitTimeout
    <3>4. ~Alive(d)'
      BY <1>1, <3>2, <3>3 DEF Gone, Alive, Execed, NoProcess, Process
    <3> QED
      BY <2>2, <3>1, <3>4
  <2> QED
    BY <1>3, <1>6, <2>1, <2>2, <2>4 DEF To, Scans
<1>10. CASE KillGone(c)
  <2>1. PICK s \in {"sweep", "scan"} :
          /\ Now(c) = "killed" /\ s = calls[c][2]
          /\ To(c, s, "ok") \/ To(c, s, "fail")
    BY <1>1, <1>10, FlowStop
  <2>2. todo' = todo /\ proc' = proc
    BY <1>10 DEF KillGone
  <2>3. ASSUME s = "scan", NEW d \in Daemon \ todo[c] PROVE ~Alive(d)'
    BY <1>3, <1>6, <2>1, <2>3 DEF Scans
  <2> QED
    BY <2>1, <2>2, <2>3 DEF To, Scans
<1>11. CASE Sweep(c)
  <2>1. Now(c) = "sweep" /\ To(c, "scan", ret[c])
    BY <1>1, <1>11, FlowStop
  <2>2. ret[c] = "ok" => todo'[c] = Daemon
    BY <1>1, <1>5, <1>11 DEF Sweep
  <2> QED
    BY <2>1, <2>2 DEF To, Scans
<1>12. ASSUME NEW d \in Daemon, ScanEntry(c, d) PROVE Scans(c)'
  <2>1. /\ Now(c) = "scan" /\ ret[c] = "ok"
        /\ \/ /\ To(c, "term", "ok") /\ calls'[c][2] = "scan" /\ IsOurs(d) /\ target'[c] = d
           \/ To(c, "scan", "ok") /\ ~IsOurs(d)
    BY <1>1, <1>12, FlowStop
  <2>2. todo'[c] = todo[c] \ {d} /\ proc' = proc
    BY <1>1, <1>5, <1>12 DEF ScanEntry
  <2>3. ASSUME NEW e \in Daemon \ todo'[c], Alive(e)' PROVE e = d
    BY <2>1, <2>2, <2>3 DEF Scans, Alive
  <2>4. ~IsOurs(d) => ~Alive(d)
    <3>1. proc[d].state # "forked"
      BY <1>1, <2>1 DEF Waited
    <3> QED
      BY <3>1 DEF IsOurs, Alive
  <2>5. ~Alive(d) => ~Alive(d)'
    BY <2>2 DEF Alive
  <2> QED
    BY <2>1, <2>3, <2>4, <2>5 DEF To, Scans
<1>13. CASE ScanDone(c)
  <2>1. Now(c) = "scan" /\ \E s \in {"port", "port_again", "spawn"} : To(c, s, ret[c])
    BY <1>1, <1>13, FlowStop
  <2>2. proc' = proc /\ (ret[c] = "ok" => todo[c] = {})
    BY <1>13 DEF ScanDone
  <2>3. ret[c] = "ok" => NoneAlive'
    BY <2>1, <2>2 DEF Scans, NoneAlive, Alive
  <2> QED
    BY <2>1, <2>3 DEF To, Scans
<1>14. ASSUME NEW s \in {"port", "port_again"}, PortReleased(c, s) PROVE Scans(c)'
  <2>1. Now(c) = s /\ \E t \in Stopped : Now(c)' = t /\ ret'[c] = ret[c]
    BY <1>1, <1>14, FlowStop
  <2>2. proc' = proc /\ (ret[c] = "ok" => pidfile' = None)
    BY <1>14 DEF PortReleased
  <2>3. ret[c] = "ok" => NoneAlive'
    BY <2>1, <2>2 DEF Scans, NoneAlive, Alive
  <2> QED
    BY <2>1, <2>2, <2>3 DEF Scans, Stopped
<1>15. ASSUME NEW s \in {"port", "port_again"}, PortBusy(c, s) PROVE FALSE
  BY <1>1, <1>15, PortFree
<1>16. CASE UninstallFirewall(c)
  <2>1. /\ Now(c) = "uninstall_fw"
        /\ Now(c)' = "stop" \/ (ret[c] # "fail" /\ Now(c)' = "uninstall_retry")
    BY <1>1, <1>16, FlowUninstall DEF To
  <2>2. proc' = proc
    BY <1>16 DEF UninstallFirewall
  <2>3. ret[c] # "fail" => NoneAlive'
    BY <1>1, <2>1, <2>2 DEF Scans, NoneAlive, Alive
  <2> QED
    BY <2>1, <2>3 DEF Scans
<1>17. CASE StopDaemon(c)
  <2>1. \/ Now(c)' = "sweep"
        \/ Now(c)' = "term" /\ calls'[c][2] = "sweep"
    BY <1>1, <1>17, FlowStop DEF To
  <2> QED
    BY <2>1 DEF Scans
<1> QED
  BY <1>1, <1>2, <1>7, <1>8, <1>9, <1>10, <1>11, <1>12, <1>13, <1>14, <1>15, <1>16, <1>17,
     ScansElsewhere

\* fp_uninstall, step by step.
LEMMA UninstallsHolder ==
  ASSUME Base, LockIntact, NEW c \in lock, ControllerStep(c), Scans(c), Uninstalls(c),
         Now(c)' \notin Outside \cup {"idle"}
  PROVE  Uninstalls(c)'
<1>1. /\ c \in Controller /\ TypeOK /\ Stacks /\ Now(c) \notin Outside /\ op' = op
      /\ ret[c] \in {"ok", "fail"}
  BY BaseFacts, LockFrame
<1>2. CASE op[c] # "uninstall"
  BY <1>1, <1>2 DEF Uninstalls
<1>3. CASE op[c] = "uninstall"
  <2> USE DEF To, Keeps
  <2>1. forced => forced'
    <3>1. forced' \in {forced, TRUE}
      BY <1>1, DeedOf
    <3>2. forced' = forced \/ forced' = TRUE
      BY <3>1
    <3> QED
      BY <3>2, Zenon
  <2>2. /\ Now(c) \notin {"load_enable", "after_enable", "report_failure", "load_saved",
                          "load_bypass", "fw_bypass", "fw_restore", "fw_off"} \cup Starting
        /\ \A s : At(c, s) => Now(c) = s
    BY <1>1, <1>3, OpOf, HeadOf DEF Starting
  <2>3. CASE UnitStopBegin(c) \/ UnitStopDone(c) \/ UnitRemove(c)
    <3>1. /\ Retrying(c)' <=> Retrying(c)
          /\ Now(c)' \in {"unit_wait", "unit_remove", "stop"}
      BY <1>1, <2>3, FlowUninstall
    <3> QED
      BY <1>1, <1>3, <2>1, <3>1 DEF Uninstalls
  <2>4. CASE UninstallFirewall(c)
    <3>1. /\ Now(c) = "uninstall_fw" /\ ret'[c] = "ok"
          /\ \/ /\ ret[c] = "fail" /\ Now(c)' = "stop" /\ Retrying(c)'
             \/ ret[c] = "ok" /\ To(c, "uninstall_retry", "ok")
          /\ (fw' = None /\ NoFault) \/ Fault
      BY <1>1, <2>4, FlowUninstall
    <3>2. ret[c] = "ok" => NoneAlive'
      <4>1. proc' = proc
        BY <2>4 DEF UninstallFirewall
      <4> QED
        BY <3>1, <4>1 DEF Scans, NoneAlive, Alive
    <3>3. ret[c] = "fail" => forced'
      BY <1>3, <2>1, <3>1 DEF Uninstalls
    <3>4. fw' = None \/ forced'
      BY <3>1 DEF Fault
    <3> QED
      BY <1>3, <2>1, <3>1, <3>2, <3>3, <3>4 DEF Uninstalls
  <2>5. CASE UninstallRetry(c)
    <3>1. Now(c) = "uninstall_retry" /\ To(c, "remove_files", "ok")
      BY <1>1, <2>5, FlowUninstall
    <3>2. /\ proc' = proc /\ fw' \in {fw, None}
          /\ ret[c] = "fail" => "stop" \in bad'[c]
      <4>1. bad \in [Controller -> SUBSET {"service", "stop", "firewall"}]
        BY <1>1 DEF TypeOK
      <4> QED
        BY <1>1, <2>5, <4>1 DEF UninstallRetry
    <3>3. (NoneAlive => NoneAlive') /\ (ret[c] = "ok" => NoneAlive)
      BY <3>1, <3>2 DEF Scans, NoneAlive, Alive
    <3> QED
      BY <1>1, <1>3, <2>1, <3>1, <3>2, <3>3 DEF Uninstalls
  <2>6. CASE RemoveFiles(c)
    <3>1. /\ Now(c) = "remove_files"
          /\ (To(c, "unlock", "ok") /\ bad[c] = {}) \/ To(c, "unlock", "fail")
      BY <1>1, <2>6, FlowUninstall
    <3>2. proc' = proc /\ pidfile' = None /\ config' = None /\ fw' = fw
      BY <2>6 DEF RemoveFiles
    <3>3. NoneAlive => NoneAlive'
      BY <3>2 DEF NoneAlive, Alive
    <3> QED
      BY <1>1, <1>3, <2>1, <3>1, <3>2, <3>3 DEF Uninstalls
  <2>7. CASE StopDaemon(c) \/ SendTerm(c) \/ WaitGone(c) \/ WaitTimeout(c)
             \/ \E d \in Daemon : ScanEntry(c, d)
    <3>1. /\ Retrying(c)' <=> Retrying(c)
          /\ Now(c)' \in {"sweep", "term", "wait", "scan", "killed"} /\ ret'[c] = "ok"
      BY <1>1, <2>7, FlowStop
    <3> QED
      BY <1>1, <1>3, <2>1, <3>1 DEF Uninstalls
  <2>8. CASE KillGone(c)
    <3>1. /\ Retrying(c)' <=> Retrying(c)
          /\ Now(c)' \in {"sweep", "scan"} /\ Now(c) = "killed"
      BY <1>1, <2>8, FlowStop
    <3> QED
      BY <1>1, <1>3, <2>1, <3>1 DEF Scans, Uninstalls
  <2>9. CASE Sweep(c) \/ ScanDone(c)
    <3>1. /\ Retrying(c)' <=> Retrying(c)
          /\ Now(c)' \in {"scan", "port", "port_again", "spawn"} /\ Now(c) \in {"sweep", "scan"}
          /\ ret'[c] = ret[c]
      BY <1>1, <2>9, FlowStop
    <3> QED
      BY <1>1, <1>3, <2>1, <3>1 DEF Uninstalls
  <2>10. ASSUME NEW s \in {"port", "port_again"}, PortReleased(c, s) PROVE Uninstalls(c)'
    <3>1. Now(c) = s /\ \E t \in Stopped : /\ Now(c)' = t /\ ret'[c] = ret[c]
                                           /\ t # "uninstall_retry" => Keeps(c)
                                           /\ t = "uninstall_retry" => Retrying(c)
      BY <1>1, <2>10, FlowStop
    <3> QED
      BY <1>1, <1>3, <2>1, <3>1 DEF Uninstalls, Stopped
  <2>11. ~OpenLock(c) /\ ~Acquire(c) /\ ~RemoveLock(c) /\ ~RemoveBinary(c)
    BY <1>1, <2>2 DEF OpenLock, Acquire, RemoveLock, RemoveBinary, Outside
  <2>12. ~Release(c)
    BY <1>1, <2>2, Pops DEF Release, Goes, TypeOK, Outside
  <2>13. /\ ~LoadEnable(c) /\ ~RejectProxy(c) /\ ~LoadSaved(c) /\ ~Activate(c) /\ ~Replace(c)
         /\ ~Started(c) /\ ~AfterEnable(c) /\ ~ReportFailure(c) /\ ~LoadBypass(c)
         /\ ~FirewallBypass(c) /\ ~FirewallRestore(c) /\ ~FirewallOff(c) /\ ~StartDaemon(c)
         /\ (\A d \in Daemon : ~Spawn(c, d)) /\ ~SpawnFails(c) /\ ~AwaitReady(c)
         /\ ~AwaitFails(c) /\ ~Reap(c)
    BY <2>2 DEF LoadEnable, RejectProxy, LoadSaved, Activate, Replace, Started, AfterEnable,
       ReportFailure, LoadBypass, FirewallBypass, FirewallRestore, FirewallOff, StartDaemon,
       Spawn, SpawnFails, AwaitReady, AwaitFails, Reap, Starting
  <2>14. \A s \in {"port", "port_again"} : ~PortBusy(c, s)
    BY <1>1, PortFree
  <2> QED
    BY <2>3, <2>4, <2>5, <2>6, <2>7, <2>8, <2>9, <2>10, <2>11, <2>12, <2>13, <2>14
    DEF ControllerStep
<1> QED
  BY <1>2, <1>3

\* A controller without the lock waits for it or removes the lock file and the binary:
\* nothing else is touched.
LEMMA OutsideStep ==
  ASSUME TypeOK, Stacks, NEW c \in Controller, ControllerStep(c), Now(c) \in Outside
  PROVE  /\ OpenLock(c) \/ Acquire(c) \/ RemoveLock(c) \/ RemoveBinary(c)
         /\ UNCHANGED <<config, pidfile, proc, listener, fw, unit, localVars>>
         /\ \A b \in Controller \ {c} : calls'[b] = calls[b] /\ ret'[b] = ret[b]
<1>1. \A s : At(c, s) => Now(c) = s
  BY HeadOf
<1>2. OpenLock(c) \/ Acquire(c) \/ RemoveLock(c) \/ RemoveBinary(c)
  BY <1>1 DEF Outside, ControllerStep,
  Release, LoadEnable, RejectProxy, LoadSaved, Activate, Replace, Started,
  AfterEnable, ReportFailure, LoadBypass, FirewallBypass, FirewallRestore, FirewallOff,
  UnitStopBegin, UnitStopDone, UnitRemove, UninstallFirewall, UninstallRetry, RemoveFiles,
  StopDaemon, SendTerm, WaitGone, WaitTimeout, KillGone, Sweep,
  ScanDone, StartDaemon, SpawnFails, AwaitReady, AwaitFails, Reap, ScanEntry, Spawn,
  PortReleased, PortBusy
<1>3. UNCHANGED <<config, pidfile, proc, listener, fw, unit, localVars>>
  BY <1>2 DEF OpenLock, Acquire, RemoveLock, RemoveBinary, diskVars, hostVars
<1>4. \A b \in Controller \ {c} : calls'[b] = calls[b] /\ ret'[b] = ret[b]
  BY StackStep DEF Turns, Goes, TypeOK
<1> QED
  BY <1>2, <1>3, <1>4

\* The first lock file is never created anew.
LEMMA IntactBefore ==
  ASSUME TypeOK, [Next]_vars, LockIntact'
  PROVE  LockIntact
<1>1. lockfile' = lockfile \/ lockfile' = lockfile + 1
  <2>1. ASSUME NEW c \in Controller, ControllerStep(c)
        PROVE  lockfile' = lockfile \/ lockfile' = lockfile + 1
    BY <2>1, LockFrame DEF LockStep, OpenLock, Acquire, Release, RemoveLock, hostVars
  <2>2. ASSUME NEW d \in Daemon, DaemonStep(d) \/ Crash(d) \/ UnitStart(d) \/ UnitStop(d)
        PROVE  lockfile' = lockfile
    BY <2>2 DEF DaemonStep, Crash, UnitStart, UnitStop, Exec, LoadConfig, Bind, WritePid, Install,
       StartFails, CloseListener, RemovePid, Exit, hostVars
  <2> QED
    BY <2>1, <2>2 DEF Next, vars, Begin, Quit, hostVars
<1>2. lockfile \in Nat /\ lockfile >= 1
  BY LifecycleAssumption DEF TypeOK
<1> QED
  BY <1>1, <1>2 DEF LockIntact

\* What is remembered of failures, crashes and starts by systemd is not forgotten.
LEMMA HistoryGrows ==
  ASSUME Base, Next
  PROVE  (forced => forced') /\ crashes' >= crashes /\ units' >= units
<1>1. /\ TypeOK /\ Stacks /\ Procs /\ crashes \in Nat /\ units \in Nat
      /\ (forced' = forced => (forced => forced'))
  BY BaseFacts DEF Typed, Counts
<1>2. ASSUME NEW c \in Controller, ControllerStep(c)
      PROVE  (forced => forced') /\ crashes' = crashes /\ units' = units
  BY <1>1, <1>2, DeedOf
<1>3. ASSUME NEW d \in Daemon, DaemonStep(d) \/ Crash(d) \/ UnitStop(d)
      PROVE  /\ forced => forced'
             /\ crashes' = crashes \/ crashes' = crashes + 1
             /\ units' = units
  <2>1. forced => forced'
    BY <1>3, OwnAlive
  <2>2. (crashes' = crashes \/ crashes' = crashes + 1) /\ units' = units
    BY <1>3 DEF DaemonStep, Crash, UnitStop, Exec, LoadConfig, Bind, WritePid, Install,
       StartFails, CloseListener, RemovePid, Exit, countVars
  <2> QED
    BY <2>1, <2>2
<1>4. ASSUME NEW d \in Daemon, UnitStart(d)
      PROVE  forced' = forced /\ crashes' = crashes /\ units' = units + 1
  BY <1>4 DEF UnitStart
<1>5. ASSUME NEW c \in Controller, Quit(c) \/ \E o \in Ops : Begin(c, o)
      PROVE  forced' = forced /\ crashes' = crashes /\ units' = units
  BY <1>5 DEF Quit, Begin, countVars
<1> QED
  BY <1>1, <1>2, <1>3, <1>4, <1>5 DEF Next

\* What Scans and Uninstalls say of the holder of the lock stays true.
Calmed == Calm => \A c \in lock : Scans(c) /\ Uninstalls(c)
\* Calmed is inductive.
LEMMA CalmNext ==
  ASSUME Base, Base', Calmed, [Next]_vars
  PROVE  Calmed'
<1> SUFFICES ASSUME Calm', NEW b \in lock'
             PROVE  Scans(b)' /\ Uninstalls(b)'
  BY DEF Calmed
<1>1. /\ TypeOK /\ Stacks /\ Typed /\ Procs /\ lock \subseteq Controller /\ units \in Nat
      /\ \A e \in Daemon : Sane(e)
      /\ \A c \in Controller : c \in lock <=> Now(c) \notin Outside \cup {"idle"}
      /\ \A c \in Controller : Now(c) \in Fresh => ~Retrying(c)
  BY BaseFacts DEF Typed, Counts
<1>2. /\ b \in Controller /\ Now(b)' \notin Outside \cup {"idle"} /\ LockIntact
      /\ TypeOK'
  BY <1>1, IntactBefore DEF Base, Locked, TypeOK, Calm
<1>3. ASSUME calls'[b] = calls[b]
      PROVE  b \in lock
  BY <1>1, <1>2, <1>3, SameStack
<1>4. unit' = unit => Calm
  <2>1. units' >= units
    <3>1. CASE Next
      BY <3>1, HistoryGrows
    <3>2. CASE UNCHANGED vars
      BY <1>1, <3>2 DEF vars
    <3> QED
      BY <3>1, <3>2
  <2>2. units' = 0 => units = 0
    BY <1>1, <2>1
  <2> QED
    BY <1>2, <2>2 DEF Calm
<1>5. ASSUME unit' = unit, Still(b), \A e \in Daemon : Alive(e)' => Alive(e),
             forced' \in {forced, TRUE}, UNCHANGED <<config, pidfile, fw>> \/ ~NoneAlive
      PROVE  Scans(b)' /\ Uninstalls(b)'
  <2>1. b \in lock
    BY <1>3, <1>5 DEF Still
  <2>2. Scans(b) /\ Uninstalls(b)
    BY <1>4, <1>5, <2>1 DEF Calmed
  <2> QED
    BY <1>2, <1>5, <2>2, CalmStill
<1>6. ASSUME ControllerStep(b) PROVE Scans(b)' /\ Uninstalls(b)'
  <2>1. CASE b \notin lock
    <3>1. Now(b) \in Outside
      BY <1>1, <1>2, <1>6, <2>1, HeadOf, LockFrame
    <3>2. CASE Acquire(b)
      <4>1. Now(b) = "flock" /\ Then(b, <<>>, "ok")
        BY <1>1, <1>2, <3>2, HeadOf DEF Acquire
      <4>2. /\ Now(b)' \in {"load_enable", "load_saved", "load_bypass", "stop", "unit_stop"}
            /\ ~Retrying(b)'
        BY <1>1, <1>2, <4>1, Pops DEF GoesOn, Goes, Keeps, TypeOK, Fresh
      <4> QED
        BY <4>2 DEF Scans, Uninstalls
    <3>3. CASE ~Acquire(b)
      <4>1. OpenLock(b) \/ RemoveLock(b) \/ RemoveBinary(b)
        BY <1>1, <1>2, <1>6, <3>1, <3>3, OutsideStep
      <4>2. lock' = lock
        BY <4>1 DEF OpenLock, RemoveLock, RemoveBinary
      <4> QED
        BY <2>1, <4>2
    <3> QED
      BY <3>2, <3>3
  <2>2. CASE b \in lock /\ Calm
    BY <1>2, <1>6, <2>2, ScansHolder, UninstallsHolder DEF Calmed
  <2>3. CASE b \in lock /\ ~Calm
    <3>1. unit' # unit
      BY <1>4, <2>3
    <3>2. UnitRemove(b)
      BY <1>6, <3>1 DEF ControllerStep, OpenLock, Acquire, RemoveLock, RemoveBinary,
      Release, LoadEnable, RejectProxy, LoadSaved, Activate, Replace, Started,
      AfterEnable, ReportFailure, LoadBypass, FirewallBypass, FirewallRestore, FirewallOff,
      UnitStopBegin, UnitStopDone, UninstallFirewall, UninstallRetry, RemoveFiles,
      StopDaemon, SendTerm, WaitGone, WaitTimeout, KillGone, Sweep,
      ScanDone, StartDaemon, SpawnFails, AwaitReady, AwaitFails, Reap, ScanEntry, Spawn,
      PortReleased, PortBusy, hostVars
    <3>3. Now(b) = "unit_remove" /\ Now(b)' = "stop" /\ (Retrying(b)' <=> Retrying(b))
      BY <1>1, <1>2, <3>2, FlowUninstall DEF To, Keeps
    <3>4. ~Retrying(b)'
      BY <1>1, <1>2, <3>3 DEF Fresh
    <3> QED
      BY <3>3, <3>4 DEF Scans, Uninstalls
  <2> QED
    BY <2>1, <2>2, <2>3
<1>7. ASSUME NEW c \in Controller \ {b}, ControllerStep(c) PROVE Scans(b)' /\ Uninstalls(b)'
  <2>1. calls'[b] = calls[b] /\ ret'[b] = ret[b]
    <3>1. PICK s, v : Goes(c, s, v)
      BY <1>1, <1>7, StackStep DEF Turns
    <3>2. b \in Controller \ {c}
      BY <1>2
    <3> QED
      BY <1>1, <3>1, <3>2, ToOf
  <2>2. b \in lock
    BY <1>3, <2>1
  <2>3. c \notin lock
    BY <1>2, <1>7, <2>2, Holder
  <2>4. Now(c) \in Outside
    BY <1>1, <1>7, <2>3, HeadOf, LockFrame
  <2>5. UNCHANGED <<config, pidfile, proc, listener, fw, unit, localVars>>
    BY <1>1, <1>7, <2>4, OutsideStep
  <2>6. Still(b) /\ \A e \in Daemon : Alive(e)' => Alive(e)
    BY <2>1, <2>5 DEF Still, localVars, Alive
  <2>7. forced' \in {forced, TRUE}
    BY <1>1, <1>7, DeedOf
  <2> QED
    BY <1>5, <2>5, <2>6, <2>7
<1>8. ASSUME NEW c \in Controller, NEW o \in Ops, Begin(c, o) PROVE Scans(b)' /\ Uninstalls(b)'
  <2>1. c # b
    BY <1>1, <1>2, <1>8, Begins DEF Outside
  <2>2. Still(b)
    BY <1>1, <1>2, <1>8, <2>1 DEF Begin, Still, TypeOK
  <2>3. UNCHANGED <<config, pidfile, proc, fw, unit, forced>>
    BY <1>8 DEF Begin, diskVars, hostVars
  <2> QED
    BY <1>5, <2>2, <2>3 DEF Alive
<1>9. ASSUME NEW c \in Controller, Quit(c) PROVE Scans(b)' /\ Uninstalls(b)'
  <2>1. UNCHANGED <<config, pidfile, fw, unit, forced>> /\ Still(b)
    BY <1>9 DEF Quit, Still, diskVars, hostVars, localVars
  <2>2. ASSUME NEW e \in Daemon, Alive(e)' PROVE Alive(e)
    <3>1. CASE proc[e].state = "zombie"
      <4>1. proc'[e] \in {proc[e], NoProcess}
        BY <1>1, <1>9, <3>1, QuitSane
      <4> QED
        BY <2>2, <3>1, <4>1 DEF Alive, NoProcess, Execed
    <3>2. CASE proc[e].state # "zombie"
      <4>1. proc'[e] = proc[e] \/ proc'[e] = [proc[e] EXCEPT !.parent = InitProcess]
        BY <1>1, <1>9, <3>2, QuitSane
      <4>2. proc[e] \in Process
        BY <1>1 DEF Procs
      <4> QED
        BY <2>2, <4>1, <4>2 DEF Alive, Process
    <3> QED
      BY <3>1, <3>2
  <2> QED
    BY <1>5, <2>1, <2>2
<1>10. ASSUME NEW d \in Daemon, DaemonStep(d) \/ Crash(d) \/ UnitStop(d)
       PROVE  Scans(b)' /\ Uninstalls(b)'
  <2>1. /\ Alive(d) /\ forced' \in {forced, TRUE} /\ unit' = unit
        /\ \A e \in Daemon : Alive(e)' => Alive(e)
    BY <1>10, OwnAlive
  <2>2. Still(b)
    BY <1>1, <1>10, TypedForwarder DEF OnlyForwarders, localVars, Still
  <2> QED
    BY <1>5, <2>1, <2>2 DEF NoneAlive
<1>11. ASSUME NEW d \in Daemon, UnitStart(d) PROVE FALSE
  <2>1. units' = units + 1 /\ unit /\ unit' = unit
    BY <1>11 DEF UnitStart, hostVars
  <2>2. units' # 0
    BY <1>1, <2>1
  <2> QED
    BY <2>1, <2>2 DEF Calm
<1>12. CASE UNCHANGED vars
  BY <1>5, <1>12 DEF vars, Still, Alive
<1> QED
  BY <1>6, <1>7, <1>8, <1>9, <1>10, <1>11, <1>12 DEF Next

-----------------------------------------------------------------------------
(* What a forwarder does, and who started it.                                *)

\* d goes on with state s, ready byte r and configuration k.
Turned(d, s, r, k) ==
  /\ proc'[d].state = s /\ proc'[d].ready = r /\ proc'[d].cfg = k
  /\ proc'[d].term = proc[d].term /\ proc'[d].parent = proc[d].parent

\* The steps of a forwarder, field by field.
LEMMA OwnMoves ==
  ASSUME Procs, NEW d \in Daemon
  PROVE
    /\ Exec(d) =>
         /\ proc[d].state = "forked"
         /\ Gone(d) \/ Turned(d, "init", proc[d].ready, proc[d].cfg)
         /\ UNCHANGED <<config, pidfile, fw, faults, forced, crashed>>
    /\ LoadConfig(d) =>
         /\ proc[d].state = "init"
         /\ Gone(d) \/ Turned(d, "loaded", proc[d].ready, config)
         /\ UNCHANGED <<config, pidfile, fw, faults, forced, crashed>>
    /\ Bind(d) =>
         /\ proc[d].state = "loaded"
         /\ \/ Turned(d, "bound", proc[d].ready, proc[d].cfg)
            \/ Turned(d, "cleanup", "E", proc[d].cfg)
         /\ UNCHANGED <<config, pidfile, fw, faults, forced, crashed>>
    /\ WritePid(d) =>
         /\ proc[d].state = "bound" /\ Turned(d, "recorded", proc[d].ready, proc[d].cfg)
         /\ pidfile' = d /\ UNCHANGED <<config, fw, faults, forced, crashed>>
    /\ Install(d) =>
         /\ proc[d].state = "recorded" /\ Turned(d, "run", "R", proc[d].cfg)
         /\ fw' = proc[d].cfg /\ UNCHANGED <<config, pidfile, faults, forced, crashed>>
    /\ StartFails(d) =>
         /\ proc[d].state \in {"bound", "recorded"} /\ Turned(d, "cleanup", "E", proc[d].cfg)
         /\ pidfile' = None /\ fw' = None /\ Fault /\ UNCHANGED <<config, crashed>>
    /\ CloseListener(d) =>
         /\ proc[d].state = "run" /\ proc[d].term
         /\ Turned(d, "closed", proc[d].ready, proc[d].cfg)
         /\ UNCHANGED <<config, pidfile, fw, faults, forced, crashed>>
    /\ RemovePid(d) =>
         /\ proc[d].state = "closed" /\ Turned(d, "cleanup", proc[d].ready, proc[d].cfg)
         /\ pidfile' = None /\ UNCHANGED <<config, fw, faults, forced, crashed>>
    /\ Exit(d) =>
         /\ proc[d].state = "cleanup" /\ Gone(d)
         /\ (fw' = None /\ NoFault) \/ (fw' = fw /\ Fault)
         /\ UNCHANGED <<config, pidfile, crashed>>
    /\ Crash(d) =>
         /\ \/ Alive(d) /\ Gone(d)
            \/ proc[d].state = "run" /\ Turned(d, "closed", proc[d].ready, proc[d].cfg)
         /\ forced' = TRUE /\ crashed' = TRUE
         /\ UNCHANGED <<config, pidfile, fw, faults>>
    /\ UnitStop(d) => Alive(d) /\ proc[d].parent = Systemd
    /\ UnitStart(d) =>
         /\ units' = units + 1 /\ unit' = unit /\ unit /\ lockfile' = lockfile
         /\ proc'[d].parent = Systemd /\ proc'[d].state = "init"
<1>1. /\ proc \in [Daemon -> Process] /\ proc[d] \in Process
  BY DEF Procs
<1>2. Dies(d) => Gone(d)
  BY SignalOf
<1> USE <1>1, <1>2 DEF Turned, Process, diskVars, hostVars, countVars
<1>3. Exec(d) =>
         /\ proc[d].state = "forked"
         /\ Gone(d) \/ Turned(d, "init", proc[d].ready, proc[d].cfg)
         /\ UNCHANGED <<config, pidfile, fw, faults, forced, crashed>>
  BY DEF Exec
<1>4. LoadConfig(d) =>
         /\ proc[d].state = "init"
         /\ Gone(d) \/ Turned(d, "loaded", proc[d].ready, config)
         /\ UNCHANGED <<config, pidfile, fw, faults, forced, crashed>>
  BY DEF LoadConfig
<1>5. Bind(d) =>
         /\ proc[d].state = "loaded"
         /\ \/ Turned(d, "bound", proc[d].ready, proc[d].cfg)
            \/ Turned(d, "cleanup", "E", proc[d].cfg)
         /\ UNCHANGED <<config, pidfile, fw, faults, forced, crashed>>
  BY DEF Bind
<1>6. WritePid(d) =>
         /\ proc[d].state = "bound" /\ Turned(d, "recorded", proc[d].ready, proc[d].cfg)
         /\ pidfile' = d /\ UNCHANGED <<config, fw, faults, forced, crashed>>
  BY DEF WritePid
<1>7. Install(d) =>
         /\ proc[d].state = "recorded" /\ Turned(d, "run", "R", proc[d].cfg)
         /\ fw' = proc[d].cfg /\ UNCHANGED <<config, pidfile, faults, forced, crashed>>
  BY DEF Install
<1>8. StartFails(d) =>
         /\ proc[d].state \in {"bound", "recorded"} /\ Turned(d, "cleanup", "E", proc[d].cfg)
         /\ pidfile' = None /\ fw' = None /\ Fault /\ UNCHANGED <<config, crashed>>
  BY DEF StartFails
<1>9. LeaveLoop(d) =>
         proc[d].state = "run" /\ Turned(d, "closed", proc[d].ready, proc[d].cfg)
  <2>1. LeaveLoop(d) => proc' = [proc EXCEPT ![d].state = "closed"]
    BY DEF LeaveLoop
  <2> QED
    BY <2>1 DEF LeaveLoop
<1>15. CloseListener(d) =>
         /\ proc[d].state = "run" /\ proc[d].term
         /\ Turned(d, "closed", proc[d].ready, proc[d].cfg)
         /\ UNCHANGED <<config, pidfile, fw, faults, forced, crashed>>
  <2> HIDE DEF Turned, Process
  <2> QED
    BY <1>9 DEF CloseListener
<1>10. RemovePid(d) =>
         /\ proc[d].state = "closed" /\ Turned(d, "cleanup", proc[d].ready, proc[d].cfg)
         /\ pidfile' = None /\ UNCHANGED <<config, fw, faults, forced, crashed>>
  BY DEF RemovePid
<1>11. Exit(d) =>
         /\ proc[d].state = "cleanup" /\ Gone(d)
         /\ (fw' = None /\ NoFault) \/ (fw' = fw /\ Fault)
         /\ UNCHANGED <<config, pidfile, crashed>>
  BY DEF Exit
<1>12. Crash(d) =>
         /\ \/ Alive(d) /\ Gone(d)
            \/ proc[d].state = "run" /\ Turned(d, "closed", proc[d].ready, proc[d].cfg)
         /\ forced' = TRUE /\ crashed' = TRUE
         /\ UNCHANGED <<config, pidfile, fw, faults>>
  <2> HIDE DEF Turned, Process
  <2> QED
    BY <1>2, <1>9 DEF Crash
<1>13. UnitStop(d) => Alive(d) /\ proc[d].parent = Systemd
  BY DEF UnitStop
<1>14. UnitStart(d) =>
         /\ units' = units + 1 /\ unit' = unit /\ unit /\ lockfile' = lockfile
         /\ proc'[d].parent = Systemd /\ proc'[d].state = "init"
  BY DEF UnitStart, NewProcess, NoProcess
<1> QED
  BY <1>3, <1>4, <1>5, <1>6, <1>7, <1>8, <1>10, <1>11, <1>12, <1>13, <1>14, <1>15

\* A forwarder that is gone: nothing of it is left, or a zombie.
LEMMA GoneIs ==
  ASSUME Procs, NEW d \in Daemon, Gone(d)
  PROVE  /\ proc'[d].state \in {"none", "zombie"} /\ ~Alive(d)'
         /\ \/ proc'[d] = NoProcess
            \/ /\ proc'[d].state = "zombie" /\ proc'[d].parent = proc[d].parent
               /\ proc'[d].ready = proc[d].ready /\ proc'[d].term = proc[d].term
BY DEF Gone, Alive, Execed, NoProcess, Procs, Process

\* A forwarder that has been told to stop is where it was.
LEMMA ToldIs ==
  ASSUME Procs, NEW d \in Daemon, Told(d)
  PROVE  /\ proc'[d].state = proc[d].state /\ proc'[d].parent = proc[d].parent
         /\ proc'[d].ready = proc[d].ready /\ proc'[d].cfg = proc[d].cfg
         /\ proc'[d].term /\ proc[d].state \in Handled
BY DEF Told, Procs, Process

\* Without systemd every forwarder has a controller for a parent, or init.
LEMMA ParentsNext ==
  ASSUME Base, Parents, Next
  PROVE  Parents'
<1> SUFFICES ASSUME units' = 0
             PROVE  \A e \in Daemon : proc'[e].state # "none" => proc'[e].parent # Systemd
  BY DEF Parents
<1>0. units \in Nat /\ units = 0
  <2>1. units \in Nat /\ units' >= units
    BY HistoryGrows, BaseFacts DEF Typed, Counts
  <2> QED
    BY <2>1
<1>1. /\ TypeOK /\ Stacks /\ Procs /\ Typed /\ proc \in [Daemon -> Process]
      /\ \A e \in Daemon : Sane(e) /\ (proc[e].state # "none" => proc[e].parent # Systemd)
      /\ \A c \in Controller : Aimed(c)
      /\ NoProcess.state = "none" /\ InitProcess # Systemd /\ Systemd \notin Controller
  BY <1>0, BaseFacts, LifecycleAssumption DEF Parents, NoProcess
<1>2. ASSUME NEW c \in Controller, ControllerStep(c)
      PROVE  \A e \in Daemon : proc'[e].state # "none" => proc'[e].parent # Systemd
  <2>1. Deed(c)
    BY <1>1, <1>2, DeedOf
  <2>2. CASE UNCHANGED <<proc, listener>>
    BY <1>1, <2>1, <2>2
  <2>3. ASSUME NEW d \in Daemon, Gone(d)
        PROVE  \A e \in Daemon : proc'[e].state # "none" => proc'[e].parent # Systemd
    BY <1>1, <2>3, GoneIs DEF Gone
  <2>4. ASSUME NEW d \in Daemon, Told(d)
        PROVE  \A e \in Daemon : proc'[e].state # "none" => proc'[e].parent # Systemd
    BY <1>1, <2>4, ToldIs DEF Told
  <2>5. ASSUME NEW d \in Daemon, Spawn(c, d)
        PROVE  \A e \in Daemon : proc'[e].state # "none" => proc'[e].parent # Systemd
    BY <1>1, <2>5 DEF Spawn, NewProcess, NoProcess
  <2> QED
    BY <1>1, <2>1, <2>2, <2>3, <2>4, <2>5, DeedSane
<1>3. ASSUME NEW d \in Daemon, DaemonStep(d) \/ Crash(d)
      PROVE  \A e \in Daemon : proc'[e].state # "none" => proc'[e].parent # Systemd
  <2>2. \A e \in Daemon \ {d} : proc'[e] = proc[e]
    BY <1>1, <1>3, OwnStep
  <2>3. /\ proc[d].state # "none"
        /\ Gone(d) \/ proc'[d].parent = proc[d].parent
    BY <1>1, <1>3, OwnMoves DEF DaemonStep, Turned, Alive, Execed
  <2>4. proc'[d].state # "none" => proc'[d].parent # Systemd
    BY <1>1, <2>3, GoneIs
  <2> QED
    BY <1>1, <2>2, <2>4
<1>4. ASSUME NEW d \in Daemon, UnitStart(d) \/ UnitStop(d) PROVE FALSE
  <2>1. CASE UnitStart(d)
    <3>1. units' = units + 1
      BY <1>1, <2>1, OwnMoves
    <3> QED
      BY <1>0, <3>1
  <2>2. CASE UnitStop(d)
    <3>1. Alive(d) /\ proc[d].parent = Systemd
      BY <1>1, <2>2, OwnMoves
    <3> QED
      BY <1>1, <3>1 DEF Alive, Execed
  <2> QED
    BY <1>4, <2>1, <2>2
<1>5. ASSUME NEW c \in Controller, NEW o \in Ops, Begin(c, o)
      PROVE  \A e \in Daemon : proc'[e].state # "none" => proc'[e].parent # Systemd
  BY <1>1, <1>5 DEF Begin
<1>6. ASSUME NEW c \in Controller, Quit(c)
      PROVE  \A e \in Daemon : proc'[e].state # "none" => proc'[e].parent # Systemd
  <2>2. ASSUME NEW e \in Daemon, proc'[e].state # "none" PROVE proc'[e].parent # Systemd
    <3>1. \/ proc'[e] = proc[e] \/ proc'[e] = NoProcess
          \/ proc'[e] = [proc[e] EXCEPT !.parent = InitProcess]
      BY <1>1, <1>6, QuitSane
    <3>2. proc[e] \in Process
      BY <1>1
    <3> QED
      BY <1>1, <2>2, <3>1, <3>2 DEF Process
  <2> QED
    BY <2>2
<1> QED
  BY <1>2, <1>3, <1>4, <1>5, <1>6 DEF Next

\* A forwarder that was ready stops because it has been told to, or because of a failure
\* of its own.
LEMMA SignalledNext ==
  ASSUME Base, Base', Signalled, Next
  PROVE  Signalled'
<1> SUFFICES ASSUME ~(forced' /\ crashes' > 0) PROVE Signalled'
  BY DEF Signalled
<1>1. /\ TypeOK /\ Stacks /\ Procs /\ Typed /\ proc \in [Daemon -> Process]
      /\ \A e \in Daemon : Sane(e)
      /\ \A c \in Controller : Aimed(c)
      /\ NoProcess.state = "none"
  BY BaseFacts DEF NoProcess
<1> DEFINE Had(p) == p.state = "closed" \/ (p.state = "cleanup" /\ p.ready = "R") => p.term
<1>0. ~(forced /\ crashes > 0)
  <2>1. crashes' >= crashes /\ (forced => forced')
    BY HistoryGrows
  <2>2. crashes \in Nat
    BY <1>1 DEF Typed, Counts
  <2>3. TypeOK'
    BY DEF Base
  <2>4. crashes' \in Nat
    BY <2>3, LifecycleAssumption DEF TypeOK
  <2>5. crashes > 0 => crashes' > 0
    BY <2>1, <2>2, <2>4
  <2> QED
    BY <2>1, <2>5
<1>2. (\A e \in Daemon : Had(proc[e])) /\ ((\A e \in Daemon : Had(proc'[e])) => Signalled')
  BY <1>0 DEF Signalled
<1>3. ASSUME NEW c \in Controller, ControllerStep(c)
      PROVE  \A e \in Daemon : Had(proc'[e])
  <2>1. Deed(c)
    BY <1>1, <1>3, DeedOf
  <2>2. CASE UNCHANGED <<proc, listener>>
    BY <1>2, <2>2
  <2>3. ASSUME NEW d \in Daemon, Gone(d) PROVE \A e \in Daemon : Had(proc'[e])
    BY <1>1, <1>2, <2>3, GoneIs DEF Gone
  <2>4. ASSUME NEW d \in Daemon, Told(d) PROVE \A e \in Daemon : Had(proc'[e])
    BY <1>1, <1>2, <2>4, ToldIs DEF Told
  <2>5. ASSUME NEW d \in Daemon, Spawn(c, d) PROVE \A e \in Daemon : Had(proc'[e])
    BY <1>1, <1>2, <2>5 DEF Spawn, NewProcess, NoProcess
  <2> QED
    BY <1>1, <2>1, <2>2, <2>3, <2>4, <2>5, DeedSane
<1>4. ASSUME NEW d \in Daemon, DaemonStep(d) \/ Crash(d)
      PROVE  \A e \in Daemon : Had(proc'[e])
  <2>1. \A e \in Daemon \ {d} : proc'[e] = proc[e]
    BY <1>1, <1>4, OwnStep
  <2>0. ~Crash(d)
    <3>1. Crash(d) => crashes' = crashes + 1 /\ crashes \in Nat /\ forced' = TRUE
      BY <1>1 DEF Crash, Typed, Counts
    <3> QED
      BY <3>1
  <2>2. Gone(d) \/ Had(proc'[d])
    BY <1>1, <1>2, <1>4, <2>0, OwnMoves DEF DaemonStep, Turned
  <2>3. Had(proc'[d])
    BY <1>1, <2>2, GoneIs
  <2> QED
    BY <1>2, <2>1, <2>3
<1>5. ASSUME NEW d \in Daemon, UnitStart(d) \/ UnitStop(d)
      PROVE  \A e \in Daemon : Had(proc'[e])
  <2>1. \A e \in Daemon \ {d} : proc'[e] = proc[e]
    BY <1>1, <1>5, OwnStep
  <2>2. CASE UnitStart(d)
    BY <1>1, <1>2, <2>1, <2>2, OwnMoves
  <2>3. CASE UnitStop(d)
    BY <1>1, <1>2, <2>1, <2>3, SignalOf, GoneIs, ToldIs DEF UnitStop
  <2> QED
    BY <1>5, <2>2, <2>3
<1>6. ASSUME NEW c \in Controller, NEW o \in Ops, Begin(c, o)
      PROVE  \A e \in Daemon : Had(proc'[e])
  BY <1>2, <1>6 DEF Begin
<1>7. ASSUME NEW c \in Controller, Quit(c)
      PROVE  \A e \in Daemon : Had(proc'[e])
  <2>1. ASSUME NEW e \in Daemon PROVE Had(proc'[e])
    <3>1. \/ proc'[e] = proc[e] \/ proc'[e] = NoProcess
          \/ proc'[e] = [proc[e] EXCEPT !.parent = InitProcess]
      BY <1>1, <1>7, QuitSane
    <3>2. proc[e] \in Process
      BY <1>1
    <3> QED
      BY <1>1, <1>2, <3>1, <3>2 DEF Process
  <2> QED
    BY <2>1
<1> QED
  BY <1>2, <1>3, <1>4, <1>5, <1>6, <1>7 DEF Next

\* Controllers do not record a forwarder in the pid file, and look for forwarders that are
\* leaving their loop when they take the lock.
LEMMA ControllerFrame ==
  ASSUME NEW c \in Controller, ControllerStep(c)
  PROVE  /\ pidfile' \in {pidfile, None}
         /\ \/ crashed' = crashed /\ (lock' # {} => lock # {})
            \/ (crashed' <=> \E d \in Daemon : proc[d].state = "closed") /\ proc' = proc
<1>1. CASE Acquire(c)
  BY <1>1 DEF Acquire, diskVars
<1>2. CASE Release(c)
  BY <1>2 DEF Release, diskVars
<1>3. CASE ~Acquire(c) /\ ~Release(c)
  <2>1. pidfile' \in {pidfile, None} /\ crashed' = crashed
    BY <1>3 DEF ControllerStep, diskVars,
      OpenLock, LoadEnable, RejectProxy, LoadSaved, Activate, Replace, Started,
      AfterEnable, ReportFailure, LoadBypass, FirewallBypass, FirewallRestore, FirewallOff,
      UnitStopBegin, UnitStopDone, UnitRemove, UninstallFirewall, UninstallRetry, RemoveFiles,
      RemoveLock, RemoveBinary, StopDaemon, SendTerm, WaitGone, WaitTimeout, KillGone, Sweep,
      ScanDone, StartDaemon, SpawnFails, AwaitReady, AwaitFails, Reap, ScanEntry, Spawn,
      PortReleased, PortBusy
  <2>2. lock' = lock
    BY <1>3, LockFrame DEF LockStep, OpenLock, RemoveLock
  <2> QED
    BY <2>1, <2>2
<1> QED
  BY <1>1, <1>2, <1>3

\* A forwarder that leaves its loop on its own is one of those that the holder of the lock
\* has been told of, and the pid file names none that is past it.
LEMMA LeavingNext ==
  ASSUME Base, Leaving, Next
  PROVE  Leaving'
<1>1. /\ TypeOK /\ Stacks /\ Procs /\ Typed /\ proc \in [Daemon -> Process]
      /\ \A e \in Daemon : Sane(e)
      /\ \A c \in Controller : Aimed(c)
      /\ NoProcess.state = "none" /\ None \notin Daemon
  BY BaseFacts, LifecycleAssumption DEF NoProcess
<1> DEFINE Early == {"forked", "init", "loaded", "bound", "cleanup"}
           Fits(d) == /\ proc'[d].state = "closed" /\ lock' # {} => proc'[d].term \/ crashed'
                      /\ proc'[d].state \in Early => pidfile' # d
<1>2. ASSUME NEW c \in Controller, ControllerStep(c), NEW e \in Daemon
      PROVE  Fits(e)
  <2>1. /\ Deed(c) /\ pidfile' \in {pidfile, None}
        /\ \/ crashed' = crashed /\ (lock' # {} => lock # {})
           \/ (crashed' <=> \E d \in Daemon : proc[d].state = "closed") /\ proc' = proc
    BY <1>1, <1>2, DeedOf, ControllerFrame
  <2>2. CASE /\ proc'[e].state = proc[e].state
             /\ proc[e].term => proc'[e].term
    BY <1>1, <2>1, <2>2 DEF Leaving
  <2>3. CASE proc'[e].state \in {"none", "zombie"}
    BY <2>3
  <2>4. CASE UNCHANGED <<proc, listener>>
    BY <2>2, <2>4
  <2>5. ASSUME NEW d \in Daemon, Gone(d) PROVE Fits(e)
    <3>1. CASE e # d
      BY <2>2, <2>5, <3>1 DEF Gone
    <3>2. CASE e = d
      BY <1>1, <2>3, <2>5, <3>2, GoneIs
    <3> QED
      BY <3>1, <3>2
  <2>6. ASSUME NEW d \in Daemon, Told(d) PROVE Fits(e)
    <3>1. CASE e # d
      BY <2>2, <2>6, <3>1 DEF Told
    <3>2. CASE e = d
      BY <1>1, <2>2, <2>6, <3>2, ToldIs
    <3> QED
      BY <3>1, <3>2
  <2>7. ASSUME NEW d \in Daemon, Spawn(c, d) PROVE Fits(e)
    <3>1. /\ proc' = [proc EXCEPT ![d] = [NoProcess EXCEPT !.state = "forked", !.parent = c]]
          /\ pidfile' = None
      BY <2>7 DEF Spawn, NewProcess
    <3>2. CASE e # d
      BY <2>2, <3>1, <3>2
    <3>3. CASE e = d
      <4>1. proc'[e].state = "forked"
        BY <1>1, <3>1, <3>3 DEF NoProcess
      <4> QED
        BY <1>1, <3>1, <4>1
    <3> QED
      BY <3>2, <3>3
  <2> QED
    BY <1>1, <2>1, <2>4, <2>5, <2>6, <2>7, DeedSane
<1>3. ASSUME NEW d \in Daemon, DaemonStep(d) \/ Crash(d), NEW e \in Daemon
      PROVE  Fits(e)
  <2>1. (\A g \in Daemon \ {d} : proc'[g] = proc[g]) /\ lock' = lock
    BY <1>1, <1>3, OwnStep, TypedForwarder DEF OnlyForwarders
  <2>2. /\ (crashed => crashed') /\ pidfile' \in {pidfile, None, d}
        /\ \/ Gone(d)
           \/ proc'[d].state = "closed" /\ (proc'[d].term \/ crashed')
           \/ proc'[d].state = "cleanup" /\ pidfile' = None
           \/ proc'[d].state \in {"recorded", "run"}
           \/ /\ proc[d].state \in Early /\ pidfile' = pidfile
              /\ proc'[d].state # "closed"
    BY <1>1, <1>3, OwnMoves DEF DaemonStep, Turned, Execed
  <2>3. CASE e # d
    BY <2>1, <2>2, <2>3, <1>1 DEF Leaving
  <2>4. CASE e = d
    <3>1. proc[d].state \in Early => pidfile # d
      BY DEF Leaving
    <3>2. CASE Gone(d)
      BY <1>1, <2>4, <3>2, GoneIs
    <3>3. CASE proc[d].state \in Early /\ pidfile' = pidfile /\ proc'[d].state # "closed"
      BY <2>4, <3>1, <3>3
    <3> QED
      BY <1>1, <2>2, <2>4, <3>2, <3>3
  <2> QED
    BY <2>3, <2>4
<1>4. ASSUME NEW d \in Daemon, UnitStart(d), NEW e \in Daemon PROVE Fits(e)
  <2>1. /\ UNCHANGED <<lock, crashed, pidfile>> /\ pidfile' # d
        /\ proc' = [proc EXCEPT ![d] = [NoProcess EXCEPT !.state = "init", !.parent = Systemd]]
    BY <1>4 DEF UnitStart, NewProcess, diskVars
  <2>2. CASE e # d
    BY <1>1, <2>1, <2>2 DEF Leaving
  <2>3. CASE e = d
    <3>1. proc'[e].state = "init"
      BY <1>1, <2>1, <2>3 DEF NoProcess
    <3> QED
      BY <2>1, <2>3, <3>1
  <2> QED
    BY <2>2, <2>3
<1>5. ASSUME NEW d \in Daemon, UnitStop(d), NEW e \in Daemon PROVE Fits(e)
  <2>1. UNCHANGED <<lock, pidfile>> /\ crashed' = TRUE /\ (Gone(d) \/ Told(d))
    BY <1>1, <1>5, SignalOf DEF UnitStop, diskVars
  <2>2. CASE e # d
    BY <2>1, <2>2 DEF Leaving, Gone, Told
  <2>3. CASE e = d
    BY <1>1, <2>1, <2>3, GoneIs, ToldIs DEF Leaving
  <2> QED
    BY <2>2, <2>3
<1>6. ASSUME NEW c \in Controller, Quit(c) \/ \E o \in Ops : Begin(c, o), NEW e \in Daemon
      PROVE  Fits(e)
  <2>1. UNCHANGED <<lock, pidfile, crashed>>
    BY <1>6 DEF Quit, Begin, diskVars
  <2>2. \/ proc'[e] = proc[e] \/ proc'[e] = NoProcess
        \/ proc'[e] = [proc[e] EXCEPT !.parent = InitProcess]
    BY <1>1, <1>6, QuitSane DEF Begin
  <2>3. proc[e] \in Process
    BY <1>1
  <2>4. \/ proc'[e].state = proc[e].state /\ proc'[e].term = proc[e].term
        \/ proc'[e].state = "none"
    BY <1>1, <2>2, <2>3 DEF Process
  <2> QED
    BY <2>1, <2>4 DEF Leaving
<1>7. \A e \in Daemon : Fits(e)
  BY <1>2, <1>3, <1>4, <1>5, <1>6 DEF Next
<1> QED
  BY <1>7 DEF Leaving

\* fp_enable_proxy and fp_enable_saved_proxy load the configuration as soon as they have the
\* lock.
LEMMA OpeningNext ==
  ASSUME Base, Base', Opening, Next
  PROVE  Opening'
<1> SUFFICES ASSUME NEW b \in Controller, Now(b)' \in {"lock", "flock"},
                    op'[b] \in {"enable", "saved"}
             PROVE  calls'[b][2] \in {"load_enable", "load_saved"}
  BY DEF Opening
<1>1. /\ TypeOK /\ Stacks /\ Typed /\ b \notin lock'
      /\ \A c \in Controller : c \in lock <=> Now(c) \notin Outside \cup {"idle"}
  BY BaseFacts DEF Base, Locked, Outside
<1>2. ASSUME calls'[b] = calls[b], op'[b] = op[b]
      PROVE  calls'[b][2] \in {"load_enable", "load_saved"}
  BY <1>2, SameStack DEF Opening
<1>3. ASSUME ControllerStep(b)
      PROVE  calls'[b][2] \in {"load_enable", "load_saved"}
  <2>1. op' = op /\ Now(b) # "idle" /\ \A s : At(b, s) => Now(b) = s
    BY <1>1, <1>3, HeadOf, LockFrame
  <2>2. CASE LockStep(b)
    <3>1. OpenLock(b)
      <4>1. ~Acquire(b)
        BY <1>1 DEF Acquire
      <4>2. ~Release(b)
        BY <1>1, <2>1, Pops DEF Release, Goes
      <4>3. ~RemoveLock(b)
        BY <1>1, <2>1, Pops DEF RemoveLock, Goes
      <4> QED
        BY <2>2, <4>1, <4>2, <4>3 DEF LockStep
    <3>2. Now(b) = "lock" /\ \/ Then(b, <<"flock">>, "ok")
                             \/ /\ calls' = [calls EXCEPT ![b] = <<>>]
                                /\ ret' = [ret EXCEPT ![b] = "fail"]
      BY <2>1, <3>1 DEF OpenLock
    <3>3. CASE Then(b, <<"flock">>, "ok")
      <4> DEFINE u == <<"flock">>
      <4>1. /\ u \in Seq(Statements) /\ u # <<>> /\ Len(u) = 1 /\ u[1] = "flock"
            /\ "flock" \in Of(op[b])
        BY DEF Statements, Of
      <4>2. /\ \A k \in 1 .. Len(u) - 1 : u[k + 1] \in After(u[k])
            /\ After(Now(b)) \subseteq After(u[Len(u)]) /\ Within(u, Of(op[b]))
        BY <3>2, <4>1 DEF After, Within
      <4>3. Now(b) \notin Last \cup {"idle"} /\ Then(b, u, "ok")
        BY <3>2, <3>3 DEF Last
      <4> HIDE DEF u
      <4>4. calls'[b][2] = calls[b][2]
        BY <1>1, <4>1, <4>2, <4>3, Calls
      <4> QED
        BY <2>1, <3>2, <4>4 DEF Opening
    <3>4. CASE calls' = [calls EXCEPT ![b] = <<>>] /\ ret' = [ret EXCEPT ![b] = "fail"]
      <4>1. Now(b)' = "idle"
        BY <1>1, <3>4, OpenFails DEF Goes
      <4> QED
        BY <4>1
    <3> QED
      BY <3>2, <3>3, <3>4
  <2>3. CASE ~LockStep(b)
    <3>1. lock' = lock /\ Now(b) \notin {"lock", "flock", "unlock", "remove_lock"}
      BY <1>1, <1>3, <2>1, <2>3, LockFrame, HeadOf
    <3>2. Now(b) = "remove_binary"
      BY <1>1, <2>1, <3>1 DEF Outside
    <3>3. Now(b)' = "idle"
      BY <1>1, <1>3, <3>2, UnlinkingStep DEF Base
    <3> QED
      BY <3>3
  <2> QED
    BY <2>2, <2>3
<1>4. ASSUME NEW c \in Controller \ {b}, ControllerStep(c)
      PROVE  calls'[b] = calls[b] /\ op'[b] = op[b]
  <2>1. PICK s, v : Goes(c, s, v) /\ op' = op
    BY <1>1, <1>4, StackStep DEF Turns
  <2>2. b \in Controller \ {c}
    BY <1>4
  <2> QED
    BY <1>1, <2>1, <2>2, ToOf
<1>5. ASSUME NEW o \in Ops, Begin(b, o)
      PROVE  calls'[b][2] \in {"load_enable", "load_saved"}
  <2>1. calls'[b] = Program(o) /\ op'[b] = o
    BY <1>1, <1>5 DEF Begin, TypeOK
  <2> QED
    BY <2>1 DEF Program
<1>6. ASSUME NEW c \in Controller \ {b}, NEW o \in Ops, Begin(c, o)
      PROVE  calls'[b] = calls[b] /\ op'[b] = op[b]
  BY <1>1, <1>6 DEF Begin, TypeOK
<1>7. ASSUME NEW c \in Controller, Quit(c)
      PROVE  calls'[b] = calls[b] /\ op'[b] = op[b]
  BY <1>7 DEF Quit, localVars
<1>8. ASSUME NEW d \in Daemon, DaemonStep(d) \/ Crash(d) \/ UnitStart(d) \/ UnitStop(d)
      PROVE  calls'[b] = calls[b] /\ op'[b] = op[b]
  BY <1>1, <1>8, TypedForwarder DEF OnlyForwarders, localVars
<1> QED
  BY <1>2, <1>3, <1>4, <1>5, <1>6, <1>7, <1>8 DEF Next

-----------------------------------------------------------------------------
(* What can happen when systemd starts no forwarder and the lock file is the *)
(* first one: the holder of the lock runs on, a forwarder runs on, the lock  *)
(* is granted, or nothing that matters.                                      *)

Ground == Base /\ Calmed /\ Parents /\ Signalled /\ Leaving /\ Opening

\* Nothing that the holder of the lock or a forwarder relies on changes.
Passive ==
  /\ UNCHANGED <<lock, config, pidfile, listener, fw, crashed>>
  /\ faults' = 0 => faults = 0
  /\ forced => forced'
  /\ \A c \in lock :
       /\ calls'[c] = calls[c] /\ ret'[c] = ret[c] /\ op'[c] = op[c] /\ arg'[c] = arg[c]
       /\ prev'[c] = prev[c] /\ was'[c] = was[c] /\ target'[c] = target[c]
       /\ todo'[c] = todo[c] /\ bad'[c] = bad[c]
  /\ \A d \in Daemon :
       \/ /\ proc'[d].state = proc[d].state /\ proc'[d].cfg = proc[d].cfg
          /\ proc'[d].term = proc[d].term /\ proc'[d].ready = proc[d].ready
       \/ proc[d].state = "zombie" /\ proc'[d] = NoProcess

\* flock is granted to c.
Granted(c) ==
  /\ lock = {} /\ lock' = {c} /\ ~Rolling(c)' /\ ~Retrying(c)'
  /\ Now(c)' \in {"load_enable", "load_saved", "load_bypass", "stop", "unit_stop"}
  /\ op'[c] \in {"enable", "saved"} => Now(c)' \in {"load_enable", "load_saved"}
  /\ UNCHANGED <<config, pidfile, listener, fw, proc, faults, forced>>

\* A step of the holder of the lock.
Holds(c) == lock = {c} /\ ControllerStep(c) /\ (lock' = {c} \/ (lock' = {} /\ Release(c)))

\* Steps that are none of the holder's change nothing it relies on.
LEMMA PassiveOf ==
  ASSUME Base, NEW c \in Controller, c \notin lock,
         \/ (ControllerStep(c) /\ ~Acquire(c)) \/ Quit(c) \/ \E o \in Ops : Begin(c, o)
  PROVE  Passive
<1>1. /\ TypeOK /\ Stacks /\ Procs /\ Typed /\ lock \subseteq Controller \ {c}
      /\ Now(c) \in Outside \cup {"idle"}
      /\ proc \in [Daemon -> Process] /\ \A e \in Daemon : Sane(e)
  BY BaseFacts
<1>2. CASE ControllerStep(c) /\ ~Acquire(c)
  <2>1. Now(c) \in Outside
    BY <1>1, <1>2, HeadOf, LockFrame
  <2>2. /\ OpenLock(c) \/ RemoveLock(c) \/ RemoveBinary(c)
        /\ UNCHANGED <<config, pidfile, proc, listener, fw, unit, localVars>>
        /\ \A b \in Controller \ {c} : calls'[b] = calls[b] /\ ret'[b] = ret[b]
    BY <1>1, <1>2, <2>1, OutsideStep
  <2>3. lock' = lock /\ crashed' = crashed /\ (Fault \/ NoFault)
    BY <2>2 DEF OpenLock, RemoveLock, RemoveBinary, NoFault, countVars
  <2>4. (faults' = 0 => faults = 0) /\ (forced => forced')
    <3>1. CASE Fault
      BY <1>1, <3>1 DEF Fault, Typed, Counts
    <3>2. CASE NoFault
      <4>1. faults' = faults /\ forced' = forced
        BY <3>2 DEF NoFault
      <4> QED
        BY <4>1, Zenon
    <3> QED
      BY <2>3, <3>1, <3>2
  <2> QED
    BY <1>1, <2>2, <2>3, <2>4 DEF Passive, localVars
<1>3. CASE Quit(c)
  <2>1. /\ UNCHANGED <<lock, config, pidfile, listener, fw, crashed, faults, forced>>
        /\ UNCHANGED <<calls, ret, localVars>>
    BY <1>3 DEF Quit, diskVars, countVars
  <2>2. ASSUME NEW d \in Daemon
        PROVE  \/ /\ proc'[d].state = proc[d].state /\ proc'[d].cfg = proc[d].cfg
                  /\ proc'[d].term = proc[d].term /\ proc'[d].ready = proc[d].ready
               \/ proc[d].state = "zombie" /\ proc'[d] = NoProcess
    <3>1. \/ proc'[d] = proc[d] \/ (proc[d].state = "zombie" /\ proc'[d] = NoProcess)
          \/ proc'[d] = [proc[d] EXCEPT !.parent = InitProcess]
      BY <1>1, <1>3, QuitSane
    <3>2. proc[d] \in Process
      BY <1>1
    <3> QED
      BY <3>1, <3>2 DEF Process
  <2> QED
    BY <2>1, <2>2 DEF Passive, localVars
<1>4. ASSUME NEW o \in Ops, Begin(c, o) PROVE Passive
  BY <1>1, <1>4 DEF Begin, Passive, TypeOK, diskVars, countVars
<1> QED
  BY <1>2, <1>3, <1>4

\* The holder of the lock keeps it until it releases it.
LEMMA HoldsOf ==
  ASSUME Base, NEW c \in Controller, lock = {c}, ControllerStep(c)
  PROVE  Holds(c)
<1>1. /\ TypeOK /\ Stacks /\ Now(c) \notin Outside
      /\ \A s : At(c, s) => Now(c) = s
  BY BaseFacts, HeadOf
<1>2. ~OpenLock(c) /\ ~Acquire(c) /\ ~RemoveLock(c)
  BY <1>1 DEF OpenLock, Acquire, RemoveLock, Outside
<1>3. CASE Release(c)
  BY <1>3 DEF Release, Holds
<1>4. CASE ~Release(c)
  BY <1>2, <1>4, LockFrame DEF LockStep, Holds
<1> QED
  BY <1>3, <1>4

\* The steps there are.
LEMMA AloneStep ==
  ASSUME Ground, Base', Alone', [Next]_vars
  PROVE  /\ Alone
         /\ \/ Passive
            \/ \E c \in Controller : Granted(c)
            \/ \E c \in Controller : Holds(c)
            \/ \E d \in Daemon : DaemonStep(d) \/ Crash(d)
<1>0. units \in Nat /\ units = 0
  <2>1. units \in Nat
    BY BaseFacts DEF Ground, Typed, Counts
  <2>2. units' >= units
    <3>1. CASE Next
      BY <3>1, HistoryGrows DEF Ground
    <3>2. CASE UNCHANGED vars
      BY <2>1, <3>2 DEF vars
    <3> QED
      BY <3>1, <3>2
  <2> QED
    BY <2>1, <2>2 DEF Alone
<1>1. /\ Base /\ TypeOK /\ Stacks /\ Typed /\ Procs /\ lock \subseteq Controller /\ units = 0
      /\ \A c \in Controller : c \in lock <=> Now(c) \notin Outside \cup {"idle"}
      /\ \A c \in Controller : Now(c) \in Fresh => ~Rolling(c) /\ ~Retrying(c)
      /\ \A d \in Daemon : proc[d].state # "none" => proc[d].parent # Systemd
  BY <1>0, BaseFacts DEF Ground, Parents
<1>2. LockIntact /\ Alone
  BY <1>1, IntactBefore DEF Alone
<1>3. \A c \in lock : lock = {c}
  BY <1>1, <1>2, Holder
<1>4. ASSUME NEW b \in lock', NEW c \in lock' PROVE b = c
  <2>1. opened'[b] \in 0 .. lockfile' /\ opened'[c] \in 0 .. lockfile' /\ lockfile' = 1
    BY DEF Base, TypeOK, Alone, LockIntact
  <2>2. opened'[b] # 0 /\ opened'[c] # 0
    BY DEF Base, Locked, TypeOK
  <2>3. opened'[b] = opened'[c]
    BY <2>1, <2>2
  <2> QED
    BY <2>3 DEF Base, Locked
<1>5. ASSUME NEW c \in Controller, ControllerStep(c)
      PROVE  Passive \/ Granted(c) \/ Holds(c)
  <2>1. CASE c \in lock
    BY <1>1, <1>3, <1>5, <2>1, HoldsOf
  <2>2. CASE c \notin lock /\ ~Acquire(c)
    BY <1>1, <1>5, <2>2, PassiveOf
  <2>3. CASE Acquire(c)
    <3>1. lock = {} /\ lock' = {c}
      <4>1. lock' = lock \cup {c}
        BY <2>3 DEF Acquire
      <4>2. c \notin lock
        BY <1>1, <2>3, HeadOf DEF Acquire, Outside
      <4> QED
        BY <1>4, <4>1, <4>2
    <3>2. Now(c) = "flock" /\ Then(c, <<>>, "ok") /\ op' = op
      BY <1>1, <2>3, HeadOf DEF Acquire, localVars
    <3>3. PICK s \in {"load_enable", "load_saved", "load_bypass", "stop", "unit_stop"} :
            Goes(c, s, "ok") /\ Keeps(c) /\ s = calls[c][2]
      BY <1>1, <3>2, Pops DEF GoesOn
    <3>4. ~Rolling(c)' /\ ~Retrying(c)'
      BY <1>1, <3>2, <3>3 DEF Keeps, Fresh
    <3>5. op'[c] \in {"enable", "saved"} => s \in {"load_enable", "load_saved"}
      BY <3>2, <3>3 DEF Ground, Opening
    <3>6. UNCHANGED <<config, pidfile, listener, fw, proc, faults, forced>>
      BY <2>3 DEF Acquire, diskVars, countVars
    <3> QED
      BY <3>1, <3>3, <3>4, <3>5, <3>6 DEF Granted, Goes
  <2> QED
    BY <2>1, <2>2, <2>3
<1>6. ASSUME NEW c \in Controller, Quit(c) \/ \E o \in Ops : Begin(c, o)
      PROVE  Passive
  <2>1. CASE c \notin lock
    BY <1>1, <1>6, <2>1, PassiveOf
  <2>2. CASE c \in lock
    <3>1. calls[c] = <<>>
      BY <1>6 DEF Quit, Begin
    <3> QED
      BY <1>1, <2>2, <3>1 DEF Now
  <2> QED
    BY <2>1, <2>2
<1>7. ASSUME NEW d \in Daemon, UnitStart(d) \/ UnitStop(d) PROVE FALSE
  <2>1. CASE UnitStart(d)
    <3>1. units' = units + 1
      BY <1>1, <2>1, OwnMoves
    <3> QED
      BY <1>0, <3>1 DEF Alone
  <2>2. CASE UnitStop(d)
    <3>1. Alive(d) /\ proc[d].parent = Systemd
      BY <1>1, <2>2, OwnMoves
    <3> QED
      BY <1>1, <3>1 DEF Alive, Execed
  <2> QED
    BY <1>7, <2>1, <2>2
<1>8. CASE UNCHANGED vars
  <2>1. /\ UNCHANGED <<lock, config, pidfile, listener, fw, crashed, faults, forced>>
        /\ UNCHANGED <<calls, ret, localVars>>
    BY <1>8 DEF vars, localVars
  <2>2. ASSUME NEW d \in Daemon
        PROVE  \/ /\ proc'[d].state = proc[d].state /\ proc'[d].cfg = proc[d].cfg
                  /\ proc'[d].term = proc[d].term /\ proc'[d].ready = proc[d].ready
               \/ proc[d].state = "zombie" /\ proc'[d] = NoProcess
    BY <1>8 DEF vars
  <2>3. Passive
    BY <2>1, <2>2 DEF Passive, localVars
  <2> QED
    BY <1>2, <2>3
<1> QED
  BY <1>2, <1>5, <1>6, <1>7, <1>8 DEF Next

\* A stack that comes back to fp_uninstall is one of fp_uninstall, and one that reports the
\* failure of fp_enable_proxy is one of fp_enable_proxy.
LEMMA StackOf ==
  ASSUME NEW s, NEW o, Within(s, Of(o)), o \in {"enable", "saved", "bypass", "disable", "uninstall"}
  PROVE  /\ Resumes(s, "uninstall_retry") => o = "uninstall"
         /\ Has(s, "report_failure") => o = "enable"
<1>1. Resumes(s, "uninstall_retry") => "uninstall_retry" \in Of(o)
  BY DEF Resumes, Within
<1>2. Has(s, "report_failure") => "report_failure" \in Of(o)
  BY DEF Has, Within
<1> QED
  BY <1>1, <1>2 DEF Of, Stopping, Starting

-----------------------------------------------------------------------------
(* One forwarder at most, and what the holder of the lock knows of it.       *)

\* What the steps of others leave.
LEMMA PassiveIs ==
  ASSUME Base, Passive
  PROVE  /\ \A d \in Daemon : /\ Alive(d)' <=> Alive(d)
                              /\ Serves(d)' <=> Serves(d)
                              /\ Detached(d)' <=> Detached(d)
                              /\ Alive(d) => /\ proc'[d].state = proc[d].state
                                             /\ proc'[d].ready = proc[d].ready
                                             /\ proc'[d].cfg = proc[d].cfg
                              /\ proc'[d].term => proc[d].term
                              /\ proc'[d].state \in {proc[d].state, "none"}
                              /\ proc'[d].ready \in {proc[d].ready, "none"}
         /\ (NoneAlive' <=> NoneAlive) /\ (NoneServes' <=> NoneServes)
         /\ \A c \in lock : /\ Now(c)' = Now(c) /\ (Rolling(c)' <=> Rolling(c))
                            /\ (Retrying(c)' <=> Retrying(c))
<1>1. lock \subseteq Controller
  BY BaseFacts
<1>2. ASSUME NEW c \in lock
      PROVE  /\ Now(c)' = Now(c) /\ (Rolling(c)' <=> Rolling(c))
             /\ (Retrying(c)' <=> Retrying(c))
  BY <1>1, SameStack DEF Passive
<1>3. ASSUME NEW d \in Daemon
      PROVE  /\ Alive(d)' <=> Alive(d)
             /\ Serves(d)' <=> Serves(d)
             /\ Detached(d)' <=> Detached(d)
             /\ Alive(d) => /\ proc'[d].state = proc[d].state
                            /\ proc'[d].ready = proc[d].ready
                            /\ proc'[d].cfg = proc[d].cfg
             /\ proc'[d].term => proc[d].term
             /\ proc'[d].state \in {proc[d].state, "none"}
             /\ proc'[d].ready \in {proc[d].ready, "none"}
  <2>1. CASE proc[d].state = "zombie" /\ proc'[d] = NoProcess
    BY <2>1 DEF NoProcess, Alive, Serves, Detached, Execed
  <2>2. CASE /\ proc'[d].state = proc[d].state /\ proc'[d].cfg = proc[d].cfg
             /\ proc'[d].term = proc[d].term /\ proc'[d].ready = proc[d].ready
    BY <2>2 DEF Alive, Serves, Detached
  <2> QED
    BY <2>1, <2>2 DEF Passive
<1>4. (NoneAlive' <=> NoneAlive) /\ (NoneServes' <=> NoneServes)
  BY <1>3 DEF NoneAlive, NoneServes, Alive, Execed
<1> QED
  BY <1>2, <1>3, <1>4

\* What is known of the forwarder stays so in the steps of others.
LEMMA KnownPassive ==
  ASSUME Base, Passive, Single, \A c \in lock : Knows(c)
  PROVE  Single' /\ \A c \in lock' : Knows(c)'
<1>1. /\ lock' = lock /\ lock \subseteq Controller
      /\ UNCHANGED <<config, pidfile, listener, fw>>
      /\ \A c \in lock : /\ Aimed(c) /\ ret'[c] = ret[c] /\ op'[c] = op[c]
                         /\ target'[c] = target[c] /\ bad'[c] = bad[c]
  BY BaseFacts DEF Passive
<1>2. Single'
  BY <1>1, PassiveIs DEF Single, Alive, Execed
<1>3. ASSUME NEW c \in lock PROVE Knows(c)'
  <2>1. /\ Now(c)' = Now(c) /\ (Rolling(c)' <=> Rolling(c)) /\ (Retrying(c)' <=> Retrying(c))
        /\ (NoneAlive' <=> NoneAlive) /\ (NoneServes' <=> NoneServes)
    BY PassiveIs
  <2>2. Knows(c) /\ c \in Controller
    BY <1>1
  <2>3. /\ Now(c) \in {"term", "wait", "killed", "await", "reap"} =>
             \A d \in Daemon : Alive(d)' => d = target[c]
        /\ Now(c) = "await" => ~proc'[target[c]].term
    BY <1>1, <2>2, PassiveIs DEF Knows, Aimed
  <2> QED
    BY <1>1, <2>1, <2>2, <2>3 DEF Knows
<1> QED
  BY <1>1, <1>2, <1>3

\* The next holder of the lock knows nothing yet.
LEMMA KnownGranted ==
  ASSUME Base, NEW c \in Controller, Granted(c), Single
  PROVE  Single' /\ \A b \in lock' : Knows(b)'
<1>1. Single'
  BY DEF Granted, Single, Alive, Detached
<1>2. Knows(c)'
  BY DEF Granted, Knows
<1> QED
  BY <1>1, <1>2 DEF Granted

\* The one forwarder moves: it serves or its controller waits for it.
LEMMA KnownOwn ==
  ASSUME Base, Alone, Single, \A c \in lock : Knows(c), NEW d \in Daemon, DaemonStep(d) \/ Crash(d)
  PROVE  Single' /\ \A c \in lock' : Knows(c)'
<1>1. /\ Procs /\ Typed /\ lock' = lock /\ lock \subseteq Controller
      /\ UNCHANGED <<calls, ret, op, target, bad>>
      /\ \A e \in Daemon : Sane(e)
      /\ \A c \in Controller : Aimed(c)
  BY BaseFacts, TypedForwarder DEF OnlyForwarders, localVars
<1>2. /\ Alive(d) /\ \A e \in Daemon : Alive(e)' => Alive(e)
      /\ \A e \in Daemon \ {d} : proc'[e] = proc[e]
  BY <1>1, OwnAlive, OwnStep
<1>3. \A e \in Daemon : Alive(e) => e = d
  BY <1>2 DEF Single
<1>4. \A c \in lock : Now(c)' = Now(c) /\ (Rolling(c)' <=> Rolling(c))
                      /\ (Retrying(c)' <=> Retrying(c))
  BY <1>1, SameStack
<1>5. Gone(d) \/ proc'[d].term = proc[d].term
  BY <1>1, OwnMoves DEF DaemonStep, Turned
<1>6. proc'[d].term => proc[d].term
  <2>1. proc'[d].term = FALSE \/ proc'[d].term = proc[d].term
    BY <1>1, <1>5, GoneIs DEF NoProcess
  <2> QED
    BY <2>1, Zenon
<1>7. Detached(d) => /\ Alive(d)' => Detached(d)'
                  /\ proc'[d].state # "run" /\ pidfile' \in {pidfile, None}
  <2>1. Detached(d) => /\ pidfile' \in {pidfile, None}
                    /\ \/ Gone(d)
                       \/ /\ proc'[d].state \in {"closed", "cleanup"}
                          /\ proc'[d].term = proc[d].term /\ proc'[d].ready = proc[d].ready
    BY <1>1, OwnMoves DEF DaemonStep, Detached, Turned
  <2> QED
    BY <1>1, <2>1, GoneIs DEF Detached
<1>8. proc'[d].state \in {"recorded", "run"} => pidfile' = d
  <2>1. \/ Gone(d)
        \/ proc'[d].state \notin {"recorded", "run"}
        \/ pidfile' = d
        \/ proc[d].state = "recorded" /\ pidfile' = pidfile
    BY <1>1, OwnMoves DEF DaemonStep, Turned
  <2> QED
    BY <1>1, <2>1, GoneIs DEF Single
<1>9. Single'
  <2>1. \A e, g \in Daemon : Alive(e)' /\ Alive(g)' => e = g
    BY <1>2, <1>3
  <2>2. ASSUME NEW e \in Daemon, Alive(e)'
        PROVE  \/ Detached(e)'
               \/ \E c \in lock' : Now(c)' \in {"await", "wait", "reap"} /\ target'[c] = e
    <3>1. e = d
      BY <1>2, <1>3, <2>2
    <3>2. Detached(d) \/ \E c \in lock : Now(c) \in {"await", "wait", "reap"} /\ target[c] = e
      BY <1>2, <3>1 DEF Single
    <3> QED
      BY <1>1, <1>4, <1>7, <2>2, <3>1, <3>2
  <2>3. ASSUME NEW e \in Daemon, proc'[e].state \in {"recorded", "run"} PROVE pidfile' = e
    <3>1. Alive(e)'
      BY <2>3 DEF Alive, Execed
    <3> QED
      BY <1>2, <1>3, <1>8, <2>3, <3>1
  <2> QED
    BY <2>1, <2>2, <2>3 DEF Single
<1>10. ASSUME NEW c \in lock PROVE Knows(c)'
  <2>1. Knows(c) /\ ~NoneAlive /\ c \in Controller
    BY <1>1, <1>2 DEF NoneAlive
  <2>2. Now(c) = "await" => ~proc'[target[c]].term
    <3>1. Now(c) = "await" => target[c] \in Daemon /\ ~proc[target[c]].term
      BY <1>1, <2>1 DEF Knows, Aimed
    <3> QED
      BY <1>2, <1>6, <3>1
  <2>3. Now(c) \in {"term", "wait", "killed", "await", "reap"} =>
             \A e \in Daemon : Alive(e)' => e = target[c]
    BY <1>2, <2>1 DEF Knows
  <2>4. Now(c) \in {"replace", "start", "started", "after_enable", "activate"} =>
          /\ NoneServes => NoneServes'
          /\ pidfile = None => pidfile' = None
    <3>1. lock = {c}
      BY Holder DEF Alone
    <3>2. Now(c) \in {"replace", "start", "started", "after_enable", "activate"} => Detached(d)
      BY <1>1, <1>2, <3>1 DEF Single
    <3> QED
      BY <1>2, <1>7, <3>2 DEF NoneServes
  <2>5. Now(c) \in {"replace", "start"} /\ ret[c] = "ok" => pidfile = None
    BY <2>1 DEF Knows
  <2> QED
    BY <1>1, <1>4, <2>1, <2>2, <2>3, <2>4, <2>5 DEF Knows
<1> QED
  BY <1>1, <1>9, <1>10

\* The only steps of the holder that a forwarder notices.
LEMMA HolderProc ==
  ASSUME Ground, Alone, NEW c \in Controller, ControllerStep(c)
  PROVE  \/ proc' = proc /\ listener' = listener
         \/ SendTerm(c) \/ WaitGone(c) \/ WaitTimeout(c) \/ AwaitFails(c) \/ Reap(c)
         \/ \E d \in Daemon : Spawn(c, d)
<1>1. \A d \in Daemon : Alive(d) => proc[d].parent # Systemd
  BY DEF Ground, Parents, Alone, Alive, Execed
<1>2. UnitStopBegin(c) => proc' = proc /\ listener' = listener
  BY <1>1 DEF UnitStopBegin
<1> QED
  BY <1>2 DEF ControllerStep, OpenLock, Acquire, RemoveLock, RemoveBinary,
      Release, LoadEnable, RejectProxy, LoadSaved, Activate, Replace, Started,
      AfterEnable, ReportFailure, LoadBypass, FirewallBypass, FirewallRestore, FirewallOff,
      UnitStopDone, UnitRemove, UninstallFirewall, UninstallRetry, RemoveFiles,
      StopDaemon, KillGone, Sweep,
      ScanDone, StartDaemon, SpawnFails, AwaitReady, ScanEntry,
      PortReleased, PortBusy, diskVars, hostVars

\* One forwarder at most, when the forwarders do not move or none is left.
LEMMA SingleSame ==
  ASSUME Single, proc' = proc, pidfile' = pidfile \/ NoneAlive,
         \A d \in Daemon : Alive(d) => Detached(d)
  PROVE  Single' /\ (NoneAlive' <=> NoneAlive) /\ (NoneServes' <=> NoneServes)
BY DEF Single, NoneAlive, NoneServes, Alive, Detached, Execed

\* When none is left there is one at most.
LEMMA SingleNone ==
  ASSUME NoneAlive'
  PROVE  Single'
BY DEF Single, NoneAlive, Alive, Execed

\* When none is left none serves.
LEMMA AliveServes ==
  /\ NoneAlive => NoneServes
  /\ NoneAlive' => NoneServes'
BY DEF NoneAlive, NoneServes, Alive, Execed

\* What is known of the holder at each of its steps.
LEMMA HolderFacts ==
  ASSUME Ground, Alone, NEW c \in lock, ControllerStep(c)
  PROVE  /\ Base /\ TypeOK /\ Stacks /\ Procs /\ lock = {c} /\ c \in Controller /\ op' = op
         /\ ret[c] \in {"ok", "fail"} /\ Scans(c) /\ Uninstalls(c)
         /\ Now(c) \notin Outside \cup {"idle"} /\ \A s : At(c, s) => Now(c) = s
         /\ Retrying(c) => op[c] = "uninstall"
         /\ Rolling(c) => op[c] = "enable"
         /\ Retrying(c)' => op[c] = "uninstall"
         /\ Rolling(c)' => op[c] = "enable"
         /\ \A e \in Daemon : Sane(e)
         /\ Now(c) # "spawn" => \A e \in Daemon : Alive(e)' => Alive(e)
<1>1. /\ Base /\ TypeOK /\ Stacks /\ Procs /\ lock = {c} /\ c \in Controller /\ op' = op
      /\ ret[c] \in {"ok", "fail"} /\ Now(c) \notin Outside \cup {"idle"}
      /\ \A e \in Daemon : Sane(e)
  BY BaseFacts, Holder, LockFrame DEF Ground, Alone
<1>2. Scans(c) /\ Uninstalls(c)
  BY DEF Ground, Calmed, Calm, Alone
<1>3. \A s : At(c, s) => Now(c) = s
  BY <1>1, HeadOf
<1>4. /\ op[c] \in {"enable", "saved", "bypass", "disable", "uninstall"}
      /\ Within(calls[c], Of(op[c]))
  BY <1>1, OpOf DEF Stacks
<1>5. Within(calls'[c], Of(op[c]))
  BY <1>1, StackStep DEF Turns, Goes
<1>6. /\ Retrying(c) => op[c] = "uninstall"
      /\ Rolling(c) => op[c] = "enable"
  BY <1>4, StackOf DEF Retrying, Rolling
<1>7. /\ Retrying(c)' => op[c] = "uninstall"
      /\ Rolling(c)' => op[c] = "enable"
  BY <1>4, <1>5, StackOf DEF Retrying, Rolling
<1>8. Now(c) # "spawn" => \A e \in Daemon : Alive(e)' => Alive(e)
  BY <1>1, <1>3, AliveStep DEF Spawn
<1> QED
  BY <1>1, <1>2, <1>3, <1>6, <1>7, <1>8

\* fp_enable_proxy, fp_enable_saved_proxy, fp_set_bypass and fp_disable_proxy.
LEMMA KnowsConfig ==
  ASSUME Ground, Alone, Single, NEW c \in lock, Knows(c), ControllerStep(c),
         \/ LoadEnable(c) \/ RejectProxy(c) \/ LoadSaved(c) \/ AfterEnable(c) \/ ReportFailure(c)
         \/ LoadBypass(c) \/ FirewallBypass(c) \/ FirewallRestore(c) \/ FirewallOff(c)
  PROVE  Single' /\ Knows(c)'
<1>1. /\ Base /\ TypeOK /\ Stacks /\ lock = {c} /\ c \in Controller /\ op' = op
      /\ ret[c] \in {"ok", "fail"} /\ Scans(c) /\ \A s : At(c, s) => Now(c) = s
      /\ Retrying(c)' => op[c] = "uninstall"
  BY HolderFacts
<1>2. /\ Now(c) \in {"load_enable", "load_saved", "after_enable", "report_failure",
                      "load_bypass", "fw_bypass", "fw_restore", "fw_off"}
      /\ proc' = proc /\ pidfile' = pidfile
  BY <1>1 DEF LoadEnable, RejectProxy, LoadSaved, AfterEnable, ReportFailure, LoadBypass,
     FirewallBypass, FirewallRestore, FirewallOff, diskVars
<1>3. Single' /\ (NoneAlive' <=> NoneAlive) /\ (NoneServes' <=> NoneServes)
  <2>1. \A d \in Daemon : Alive(d) => Detached(d)
    BY <1>1, <1>2 DEF Single
  <2> QED
    BY <1>2, <2>1, SingleSame
<1>4. /\ op[c] = "disable" <=> Now(c) = "fw_off"
      /\ op[c] # "uninstall"
  BY <1>1, <1>2, OpOf
<1>5. Now(c) \in {"load_enable", "load_saved"} => ~Rolling(c)
  BY <1>1, BaseFacts DEF Fresh
<1>6. CASE FirewallOff(c)
  <2>1. /\ Now(c) = "fw_off"
        /\ \/ To(c, "unlock", ret[c]) /\ fw' = None
           \/ To(c, "unlock", "fail")
    BY <1>1, <1>6, FlowConfig
  <2>2. NoneAlive' /\ (ret[c] = "ok" => pidfile' = None)
    BY <1>1, <1>2, <1>3, <2>1 DEF Knows, Scans
  <2> QED
    BY <1>1, <1>3, <1>4, <2>1, <2>2 DEF Knows, To
<1>7. CASE AfterEnable(c)
  <2>1. /\ Now(c) = "after_enable"
        /\ \/ /\ Now(c)' = "activate" /\ ret'[c] = "fail" /\ Rolling(c)'
              /\ ret[c] = "fail" /\ prev[c] # None
           \/ Now(c)' = "unlock"
    BY <1>1, <1>7, FlowConfig DEF To
  <2>2. ret[c] = "fail" => NoneServes'
    BY <1>3, <2>1 DEF Knows
  <2> QED
    BY <1>1, <1>3, <1>4, <2>1, <2>2 DEF Knows
<1>8. CASE LoadEnable(c) \/ RejectProxy(c) \/ LoadSaved(c)
  <2>1. /\ Now(c) \in {"load_enable", "load_saved"}
        /\ Now(c)' \in {"activate", "unlock"}
        /\ Now(c)' = "activate" => (Rolling(c)' <=> Rolling(c))
    BY <1>1, <1>8, FlowConfig DEF To, Keeps, Left
  <2> QED
    BY <1>1, <1>3, <1>4, <1>5, <2>1 DEF Knows
<1>9. CASE ReportFailure(c) \/ LoadBypass(c) \/ FirewallBypass(c) \/ FirewallRestore(c)
  <2>1. Now(c)' \in {"unlock", "fw_bypass", "fw_restore"} /\ Now(c) # "fw_off"
    BY <1>1, <1>9, FlowConfig DEF To, Left
  <2> QED
    BY <1>1, <1>3, <1>4, <2>1 DEF Knows
<1> QED
  BY <1>6, <1>7, <1>8, <1>9

\* activate_proxy_locked and fp_start_daemon.
LEMMA KnowsStart ==
  ASSUME Ground, Alone, Single, NEW c \in lock, Knows(c), ControllerStep(c),
         \/ Activate(c) \/ Replace(c) \/ Started(c) \/ StartDaemon(c) \/ SpawnFails(c)
         \/ AwaitReady(c) \/ AwaitFails(c) \/ Reap(c)
         \/ \E d \in Daemon : Spawn(c, d)
  PROVE  (lock' = {c} => Single') /\ Knows(c)'
<1>1. /\ Base /\ TypeOK /\ Stacks /\ lock = {c} /\ c \in Controller /\ op' = op /\ Procs
      /\ ret[c] \in {"ok", "fail"} /\ Scans(c) /\ \A s : At(c, s) => Now(c) = s
      /\ Retrying(c)' => op[c] = "uninstall"
      /\ Now(c) # "spawn" => \A e \in Daemon : Alive(e)' => Alive(e)
      /\ Aimed(c) /\ (\A e \in Daemon : Sane(e)) /\ proc \in [Daemon -> Process]
      /\ target \in [Controller -> Daemon \cup {None}]
  BY HolderFacts, BaseFacts DEF TypeOK
<1>2. Now(c) \in Starting
  BY <1>1 DEF Starting, Activate, Replace, Started, StartDaemon, SpawnFails, AwaitReady, AwaitFails,
     Reap, Spawn
<1>3. op[c] \in {"enable", "saved"} /\ ~Retrying(c)'
  BY <1>1, <1>2, OpOf
<1>4. Now(c) \notin {"await", "wait", "reap"} => \A d \in Daemon : Alive(d) => Detached(d)
  BY <1>1 DEF Single
<1> USE DEF To
<1>5. CASE Activate(c)
  <2>1. /\ Now(c) = "activate"
        /\ \/ Now(c)' \in Activated /\ ret'[c] = "ok"
           \/ To(c, "stop", "ok")
           \/ To(c, "replace", "ok") /\ ~Recorded
    BY <1>1, <1>5, FlowStart
  <2>2. Single' /\ (NoneServes' <=> NoneServes) /\ pidfile' = pidfile
    BY <1>4, <1>5, <2>1, SingleSame DEF Activate, diskVars
  <2>3. ~Recorded => NoneServes
    BY LifecycleAssumption DEF Single, Recorded, NoneServes
  <2> QED
    BY <1>1, <1>3, <2>1, <2>2, <2>3 DEF Knows, Activated, Recorded
<1>6. CASE Replace(c)
  <2>1. /\ Now(c) = "replace"
        /\ \/ To(c, "start", "ok") /\ ret[c] = "ok"
           \/ Now(c)' \in Activated /\ ret'[c] = "fail"
    BY <1>1, <1>6, FlowStart
  <2>2. Single' /\ (NoneServes' <=> NoneServes) /\ pidfile' = pidfile
    BY <1>4, <1>6, <2>1, SingleSame DEF Replace, diskVars
  <2> QED
    BY <1>1, <1>3, <2>1, <2>2 DEF Knows, Activated
<1>7. CASE Started(c)
  <2>1. Now(c) = "started" /\ Now(c)' \in Activated /\ ret'[c] = ret[c]
    BY <1>1, <1>7, FlowStart
  <2>2. Single' /\ (NoneServes' <=> NoneServes) /\ pidfile' = pidfile
    BY <1>4, <1>7, <2>1, SingleSame DEF Started, diskVars
  <2> QED
    BY <1>1, <1>3, <2>1, <2>2 DEF Knows, Activated
<1>8. CASE StartDaemon(c)
  <2>1. Now(c) = "start" /\ Now(c)' \in {"started", "stop", "sweep"} /\ ret'[c] = "ok"
    BY <1>1, <1>8, FlowStart
  <2>2. Single' /\ (NoneServes' <=> NoneServes) /\ pidfile' = pidfile
    BY <1>4, <1>8, <2>1, SingleSame DEF StartDaemon, diskVars
  <2> QED
    BY <1>1, <1>3, <2>1, <2>2 DEF Knows
<1>9. CASE SpawnFails(c)
  <2>1. Now(c) = "spawn" /\ Now(c)' = "started" /\ proc' = proc
    BY <1>1, <1>9, FlowStart DEF SpawnFails
  <2>2. Single' /\ NoneAlive'
    BY <1>4, <2>1, SingleSame DEF Knows
  <2> QED
    BY <1>1, <1>3, <2>1, <2>2, AliveServes DEF Knows
<1>10. ASSUME NEW d \in Daemon, Spawn(c, d) PROVE (lock' = {c} => Single') /\ Knows(c)'
  <2>1. Now(c) = "spawn" /\ Now(c)' = "await" /\ target'[c] = d
    BY <1>1, <1>10, FlowStart
  <2>2. /\ proc'[d] = [NoProcess EXCEPT !.state = "forked", !.parent = c]
        /\ \A e \in Daemon \ {d} : proc'[e] = proc[e]
    BY <1>1, <1>10 DEF Spawn, NewProcess
  <2>3. /\ proc'[d].state = "forked" /\ ~proc'[d].term
        /\ \A e \in Daemon \ {d} : ~Alive(e)'
    BY <2>1, <2>2 DEF Knows, NoneAlive, Alive, NoProcess
  <2>4. lock' = {c} => Single'
    BY <2>1, <2>3 DEF Single, Alive, Execed
  <2> QED
    BY <1>1, <1>3, <2>1, <2>3, <2>4 DEF Knows
<1>11. CASE AwaitReady(c)
  <2>1. Now(c) = "await" /\ Now(c)' = "started" /\ ret'[c] = "ok"
    BY <1>1, <1>11, FlowStart
  <2>2. PICK d \in Daemon : d = target[c] /\ ~proc[d].term /\ proc[d].ready = "R"
    BY <1>1, <1>11, <2>1 DEF Aimed, Knows, AwaitReady
  <2>3. Alive(d) => proc[d].state \in {"run", "closed", "cleanup"}
    BY <1>1, <2>2 DEF Sane, Alive, Execed
  <2>4. \A e \in Daemon : Alive(e) => Detached(e)
    BY <2>1, <2>2, <2>3 DEF Knows, Detached
  <2>5. Single'
    BY <1>11, <2>4, SingleSame DEF AwaitReady, diskVars
  <2> QED
    BY <1>1, <1>3, <2>1, <2>5 DEF Knows
<1>12. CASE AwaitFails(c)
  <2>1. Now(c) = "await" /\ Now(c)' = "reap"
    BY <1>1, <1>12, FlowStart
  <2>2. PICK d \in Daemon : d = target[c]
    BY <1>1, <2>1 DEF Aimed
  <2>3. Terminate(d) /\ target' = target /\ pidfile' = pidfile
    BY <1>12, <2>2 DEF AwaitFails, localVars, diskVars
  <2>4. \A e \in Daemon : Alive(e)' => Alive(e) /\ e = d
    BY <1>1, <2>1, <2>2 DEF Knows
  <2>5. proc'[d].state \in {"recorded", "run"} => proc[d].state = proc'[d].state
    BY <1>1, <2>3, SignalOf, GoneIs, ToldIs
  <2>6. lock' = {c} => Single'
    <3>1. ASSUME NEW e \in Daemon, proc'[e].state \in {"recorded", "run"} PROVE pidfile' = e
      <4>1. Alive(e)'
        BY <3>1 DEF Alive, Execed
      <4> QED
        BY <2>3, <2>4, <2>5, <3>1, <4>1 DEF Single
    <3> QED
      BY <2>1, <2>2, <2>3, <2>4, <3>1 DEF Single
  <2> QED
    BY <1>1, <1>3, <2>1, <2>2, <2>3, <2>4, <2>6 DEF Knows
<1>13. CASE Reap(c)
  <2>1. Now(c) = "reap" /\ Now(c)' = "started" /\ Collect(c)
    BY <1>1, <1>13, FlowStart DEF Reap
  <2>2. ~Alive(target[c])
    BY <2>1 DEF Collect, Alive, Execed
  <2>3. NoneAlive'
    BY <1>1, <2>1, <2>2 DEF Knows, NoneAlive
  <2> QED
    BY <1>1, <1>3, <2>1, <2>3, SingleNone, AliveServes DEF Knows
<1> QED
  BY <1>5, <1>6, <1>7, <1>8, <1>9, <1>10, <1>11, <1>12, <1>13

\* fp_stop_daemon.
LEMMA KnowsStop ==
  ASSUME Ground, Alone, Single, NEW c \in lock, Knows(c), ControllerStep(c), lock' = {c},
         \/ StopDaemon(c) \/ SendTerm(c) \/ WaitGone(c) \/ WaitTimeout(c) \/ KillGone(c)
         \/ Sweep(c) \/ (\E d \in Daemon : ScanEntry(c, d)) \/ ScanDone(c)
         \/ \E s \in {"port", "port_again"} : PortReleased(c, s) \/ PortBusy(c, s)
  PROVE  Single' /\ Knows(c)'
<1>1. /\ Base /\ TypeOK /\ Stacks /\ lock = {c} /\ c \in Controller /\ op' = op /\ Procs
      /\ ret[c] \in {"ok", "fail"} /\ Scans(c) /\ \A s : At(c, s) => Now(c) = s
      /\ \A e \in Daemon : Alive(e)' => Alive(e)
      /\ Aimed(c) /\ (\A e \in Daemon : Sane(e)) /\ proc \in [Daemon -> Process]
      /\ target \in [Controller -> Daemon \cup {None}]
  <2>1. Now(c) # "spawn"
    BY HolderFacts DEF StopDaemon, SendTerm, WaitGone, WaitTimeout, KillGone, Sweep, ScanEntry,
       ScanDone, PortReleased, PortBusy
  <2> QED
    BY <2>1, HolderFacts, BaseFacts DEF TypeOK
<1>2. Now(c) \notin {"await", "wait", "reap"} => \A d \in Daemon : Alive(d) => Detached(d)
  BY <1>1 DEF Single
<1>3. NoneAlive => NoneAlive'
  BY <1>1 DEF NoneAlive
<1>4. /\ UNCHANGED <<fw, bad>> /\ config' = config
  BY DEF StopDaemon, SendTerm, WaitGone, WaitTimeout, KillGone, Sweep, ScanEntry,
     ScanDone, PortReleased, PortBusy, localVars, diskVars
<1> USE DEF To, Keeps
<1>5. CASE StopDaemon(c)
  <2>1. /\ Now(c) = "stop" /\ (Retrying(c)' <=> Retrying(c)) /\ ret'[c] = "ok"
        /\ \/ Now(c)' = "sweep"
           \/ Now(c)' = "term" /\ target'[c] = pidfile /\ Recorded /\ IsOurs(pidfile)
    BY <1>1, <1>5, FlowStop
  <2>2. Single'
    BY <1>2, <1>5, <2>1, SingleSame DEF StopDaemon, diskVars
  <2>3. Now(c)' = "term" => \A d \in Daemon : Alive(d)' => d = target'[c]
    <3>1. ASSUME Now(c)' = "term", NEW d \in Daemon, Alive(d)' PROVE d = pidfile
      <4>1. pidfile \in Daemon /\ Alive(pidfile) /\ Alive(d)
        BY <1>1, <2>1, <3>1 DEF Recorded, IsOurs, Alive, TypeOK
      <4> QED
        BY <4>1 DEF Single
    <3> QED
      BY <2>1, <3>1
  <2> QED
    BY <1>1, <1>3, <1>4, <2>1, <2>2, <2>3 DEF Knows
<1>6. CASE SendTerm(c)
  <2>1. Now(c) = "term" /\ Now(c)' = "wait" /\ ret'[c] = "ok" /\ (Retrying(c)' <=> Retrying(c))
    BY <1>1, <1>6, FlowStop
  <2>2. PICK d \in Daemon : d = target[c]
    BY <1>1, <2>1 DEF Aimed
  <2>3. Terminate(d) /\ target' = target /\ pidfile' = pidfile
    BY <1>6, <2>2 DEF SendTerm, localVars, diskVars
  <2>4. \A e \in Daemon : Alive(e)' => Alive(e) /\ e = d
    BY <1>1, <2>1, <2>2 DEF Knows
  <2>5. proc'[d].state \in {"recorded", "run"} => proc[d].state = proc'[d].state
    BY <1>1, <2>3, SignalOf, GoneIs, ToldIs
  <2>6. Single'
    <3>1. ASSUME NEW e \in Daemon, proc'[e].state \in {"recorded", "run"} PROVE pidfile' = e
      <4>1. Alive(e)'
        BY <3>1 DEF Alive, Execed
      <4> QED
        BY <2>3, <2>4, <2>5, <3>1, <4>1 DEF Single
    <3> QED
      BY <2>1, <2>2, <2>3, <2>4, <3>1 DEF Single
  <2> QED
    BY <1>1, <1>3, <1>4, <2>1, <2>2, <2>3, <2>4, <2>6 DEF Knows
<1>7. CASE WaitGone(c)
  <2>1. /\ Now(c) = "wait" /\ Now(c)' \in {"sweep", "scan"} /\ Collect(c) /\ ret'[c] = "ok"
        /\ (Retrying(c)' <=> Retrying(c))
    BY <1>1, <1>7, FlowStop DEF WaitGone
  <2>2. ~Alive(target[c])
    BY <2>1 DEF Collect, Alive, Execed
  <2>3. NoneAlive'
    BY <1>1, <2>1, <2>2 DEF Knows, NoneAlive
  <2> QED
    BY <1>1, <1>4, <2>1, <2>3, SingleNone DEF Knows
<1>8. CASE WaitTimeout(c)
  <2>1. Now(c) = "wait" /\ Now(c)' = "killed" /\ ret'[c] = "ok" /\ (Retrying(c)' <=> Retrying(c))
    BY <1>1, <1>8, FlowStop
  <2>2. PICK d \in Daemon : d = target[c]
    BY <1>1, <2>1 DEF Aimed
  <2>3. Gone(d) \/ (~Alive(d) /\ proc' = proc)
    BY <1>1, <1>8, <2>2, SignalOf DEF WaitTimeout
  <2>4. ~Alive(d)'
    BY <1>1, <2>3, GoneIs DEF Alive
  <2>5. NoneAlive'
    BY <1>1, <2>1, <2>2, <2>4 DEF Knows, NoneAlive
  <2> QED
    BY <1>1, <1>4, <2>1, <2>5, SingleNone DEF Knows, NoneAlive
<1>9. CASE KillGone(c)
  <2>1. Now(c) = "killed" /\ Now(c)' \in {"sweep", "scan"} /\ (Retrying(c)' <=> Retrying(c))
    BY <1>1, <1>9, FlowStop
  <2>2. NoneAlive
    BY <1>1, <2>1 DEF Scans, Knows, NoneAlive
  <2> QED
    BY <1>1, <1>3, <1>4, <2>1, <2>2, SingleNone DEF Knows
<1>10. CASE Sweep(c)
  <2>1. /\ Now(c) = "sweep" /\ Now(c)' = "scan" /\ ret'[c] = ret[c]
        /\ (Retrying(c)' <=> Retrying(c))
    BY <1>1, <1>10, FlowStop
  <2>2. Single'
    BY <1>2, <1>10, <2>1, SingleSame DEF Sweep, diskVars
  <2> QED
    BY <1>1, <1>3, <1>4, <2>1, <2>2 DEF Knows
<1>11. ASSUME NEW d \in Daemon, ScanEntry(c, d) PROVE Single' /\ Knows(c)'
  <2>1. /\ Now(c) = "scan" /\ ret'[c] = "ok" /\ (Retrying(c)' <=> Retrying(c))
        /\ Now(c)' = "scan" \/ (Now(c)' = "term" /\ target'[c] = d /\ IsOurs(d))
    BY <1>1, <1>11, FlowStop
  <2>2. Single'
    BY <1>2, <1>11, <2>1, SingleSame DEF ScanEntry, diskVars
  <2>3. Now(c)' = "term" => \A e \in Daemon : Alive(e)' => e = target'[c]
    BY <1>1, <2>1 DEF Single, IsOurs, Alive
  <2> QED
    BY <1>1, <1>3, <1>4, <2>1, <2>2, <2>3 DEF Knows
<1>12. CASE ScanDone(c)
  <2>1. /\ Now(c) = "scan" /\ Now(c)' \in {"port", "port_again", "spawn"} /\ ret'[c] = ret[c]
        /\ (Retrying(c)' <=> Retrying(c))
    BY <1>1, <1>12, FlowStop
  <2>2. NoneAlive
    <3>1. ret[c] = "ok" => todo[c] = {}
      BY <1>12 DEF ScanDone
    <3> QED
      BY <1>1, <2>1, <3>1 DEF Scans, Knows, NoneAlive
  <2> QED
    BY <1>1, <1>3, <1>4, <2>1, <2>2, SingleNone DEF Knows
<1>13. ASSUME NEW s \in {"port", "port_again"}, PortReleased(c, s) PROVE Single' /\ Knows(c)'
  <2>1. Now(c) = s /\ \E t \in Stopped : /\ Now(c)' = t /\ ret'[c] = ret[c]
                                         /\ t # "uninstall_retry" => Keeps(c)
                                         /\ t = "uninstall_retry" => Retrying(c)
    BY <1>1, <1>13, FlowStop
  <2>2. NoneAlive' /\ NoneServes' /\ Single'
    BY <1>3, <2>1, SingleNone, AliveServes DEF Knows
  <2>3. ret[c] = "ok" => pidfile' = None
    BY <1>13 DEF PortReleased
  <2> QED
    BY <1>1, <1>4, <2>1, <2>2, <2>3 DEF Knows, Stopped
<1>14. ASSUME NEW s \in {"port", "port_again"}, PortBusy(c, s) PROVE FALSE
  BY <1>1, <1>14, PortFree
<1> QED
  BY <1>5, <1>6, <1>7, <1>8, <1>9, <1>10, <1>11, <1>12, <1>13, <1>14

\* fp_uninstall.
LEMMA KnowsUninstall ==
  ASSUME Ground, Alone, Single, NEW c \in lock, Knows(c), ControllerStep(c),
         \/ UnitStopBegin(c) \/ UnitStopDone(c) \/ UnitRemove(c) \/ UninstallFirewall(c)
         \/ UninstallRetry(c) \/ RemoveFiles(c)
  PROVE  Single' /\ Knows(c)'
<1>1. /\ Base /\ TypeOK /\ Stacks /\ lock = {c} /\ c \in Controller /\ op' = op
      /\ ret[c] \in {"ok", "fail"} /\ \A s : At(c, s) => Now(c) = s
      /\ bad \in [Controller -> SUBSET {"service", "stop", "firewall"}]
      /\ Now(c) \in Fresh => ~Retrying(c)
      /\ proc' = proc /\ (pidfile' = pidfile \/ RemoveFiles(c))
  <2>1. proc' = proc
    BY HolderFacts, HolderProc DEF UnitStopBegin, UnitStopDone, UnitRemove, UninstallFirewall,
       UninstallRetry, RemoveFiles, SendTerm, WaitGone, WaitTimeout, AwaitFails, Reap, Spawn
  <2>2. pidfile' = pidfile \/ RemoveFiles(c)
    BY DEF UnitStopBegin, UnitStopDone, UnitRemove, UninstallFirewall, UninstallRetry, diskVars
  <2> QED
    BY <2>1, <2>2, HolderFacts, BaseFacts DEF TypeOK
<1>2. /\ Now(c) \in {"unit_stop", "unit_wait", "unit_remove", "uninstall_fw", "uninstall_retry",
                    "remove_files"}
      /\ op[c] = "uninstall"
  <2>1. Now(c) \in {"unit_stop", "unit_wait", "unit_remove", "uninstall_fw", "uninstall_retry",
                    "remove_files"}
    BY <1>1 DEF UnitStopBegin, UnitStopDone, UnitRemove, UninstallFirewall, UninstallRetry,
       RemoveFiles
  <2> QED
    BY <1>1, <2>1, OpOf
<1>3. Single' /\ (NoneAlive' <=> NoneAlive) /\ (NoneServes' <=> NoneServes)
  <2>1. \A d \in Daemon : Alive(d) => Detached(d)
    BY <1>1, <1>2 DEF Single
  <2>2. RemoveFiles(c) => NoneAlive
    BY <1>1 DEF RemoveFiles, Knows
  <2> QED
    BY <1>1, <2>1, <2>2, SingleSame
<1> USE DEF To, Keeps
<1>4. CASE UnitStopBegin(c) \/ UnitStopDone(c)
  <2>1. /\ Now(c)' \in {"unit_wait", "unit_remove"} /\ (Retrying(c)' <=> Retrying(c))
        /\ Now(c) \in {"unit_stop", "unit_wait"}
    BY <1>1, <1>4, FlowUninstall
  <2>2. UNCHANGED <<fw, bad>>
    BY <1>4 DEF UnitStopBegin, UnitStopDone
  <2> QED
    BY <1>1, <1>2, <1>3, <2>1, <2>2 DEF Knows
<1>5. CASE UnitRemove(c)
  <2>1. Now(c) = "unit_remove" /\ Now(c)' = "stop" /\ (Retrying(c)' <=> Retrying(c))
    BY <1>1, <1>5, FlowUninstall
  <2> QED
    BY <1>1, <1>2, <1>3, <2>1 DEF Knows, Fresh
<1>6. CASE UninstallFirewall(c)
  <2>1. /\ Now(c) = "uninstall_fw" /\ Now(c)' \in {"stop", "uninstall_retry"}
        /\ fw' = None \/ "firewall" \in bad'[c]
    BY <1>1, <1>6, FlowUninstall
  <2> QED
    BY <1>1, <1>2, <1>3, <2>1 DEF Knows
<1>7. CASE UninstallRetry(c)
  <2>1. /\ Now(c) = "uninstall_retry" /\ Now(c)' = "remove_files"
        /\ (Retrying(c)' <=> Retrying(c))
    BY <1>1, <1>7, FlowUninstall
  <2>2. "firewall" \notin bad'[c] => fw' = None \/ (fw' = fw /\ "firewall" \notin bad[c])
    BY <1>1, <1>7 DEF UninstallRetry
  <2> QED
    BY <1>1, <1>2, <1>3, <2>1, <2>2 DEF Knows
<1>8. CASE RemoveFiles(c)
  <2>1. /\ Now(c) = "remove_files" /\ Now(c)' = "unlock" /\ (Retrying(c)' <=> Retrying(c))
        /\ ret'[c] = "ok" => bad[c] = {}
    BY <1>1, <1>8, FlowUninstall
  <2>2. pidfile' = None /\ fw' = fw /\ bad' = bad
    BY <1>8 DEF RemoveFiles, localVars
  <2> QED
    BY <1>1, <1>2, <1>3, <2>1, <2>2 DEF Knows
<1> QED
  BY <1>4, <1>5, <1>6, <1>7, <1>8

\* The holder of the lock.
LEMMA KnownHolds ==
  ASSUME Ground, Alone, Single, NEW c \in Controller, Holds(c), Knows(c)
  PROVE  Single' /\ \A b \in lock' : Knows(b)'
<1>1. /\ c \in lock /\ lock = {c} /\ ControllerStep(c)
      /\ lock' = {c} \/ (lock' = {} /\ Release(c))
  BY DEF Holds
<1>2. /\ \A s : At(c, s) => Now(c) = s
      /\ Now(c) \notin Outside
  BY <1>1, HolderFacts
<1>3. CASE Release(c)
  <2>1. Now(c) = "unlock" /\ proc' = proc /\ pidfile' = pidfile
    BY <1>2, <1>3 DEF Release, diskVars
  <2>2. \A d \in Daemon : Alive(d) => Detached(d)
    BY <1>1, <2>1 DEF Single
  <2> QED
    BY <1>3, <2>1, <2>2, <1>1, SingleSame DEF Release
<1>4. CASE ~Release(c)
  <2>1. ~OpenLock(c) /\ ~Acquire(c) /\ ~RemoveLock(c) /\ ~RemoveBinary(c)
    BY <1>2 DEF OpenLock, Acquire, RemoveLock, RemoveBinary, Outside
  <2>2. lock' = {c}
    BY <1>1, <1>4
  <2> QED
    BY <1>1, <1>4, <2>1, <2>2, KnowsConfig, KnowsStart, KnowsStop, KnowsUninstall
    DEF ControllerStep
<1> QED
  BY <1>3, <1>4

\* Known is inductive.
LEMMA KnownNext ==
  ASSUME Ground, Base', Known, [Next]_vars
  PROVE  Known'
<1> SUFFICES ASSUME Alone'
             PROVE  Single' /\ \A c \in lock' : Knows(c)'
  BY DEF Known
<1>1. Alone /\ Single /\ Base /\ \A c \in lock : Knows(c)
  BY AloneStep DEF Known, Ground
<1>2. ASSUME NEW c \in Controller, Granted(c)
      PROVE  Single' /\ \A b \in lock' : Knows(b)'
  BY <1>1, <1>2, KnownGranted
<1>3. ASSUME NEW c \in Controller, Holds(c)
      PROVE  Single' /\ \A b \in lock' : Knows(b)'
  BY <1>1, <1>3, KnownHolds DEF Holds
<1>4. ASSUME NEW d \in Daemon, DaemonStep(d) \/ Crash(d)
      PROVE  Single' /\ \A b \in lock' : Knows(b)'
  BY <1>1, <1>4, KnownOwn
<1> QED
  BY <1>1, <1>2, <1>3, <1>4, AloneStep, KnownPassive

-----------------------------------------------------------------------------
(* The forwarder that is being started.                                      *)

\* What the holder knows of the forwarder it starts stays so in the steps of others.
LEMMA BegunPassive ==
  ASSUME Base, Passive, \A c \in lock : Readies(c)
  PROVE  \A c \in lock' : Readies(c)'
<1> SUFFICES ASSUME NEW c \in lock PROVE Readies(c)'
  BY DEF Passive
<1>1. /\ UNCHANGED <<config, listener, fw, crashed>>
      /\ Aimed(c) /\ ret'[c] = ret[c] /\ op'[c] = op[c] /\ arg'[c] = arg[c]
      /\ target'[c] = target[c] /\ Readies(c)
  BY BaseFacts DEF Passive
<1>2. Now(c)' = Now(c) /\ (Rolling(c)' <=> Rolling(c))
  BY PassiveIs
<1>3. ASSUME NEW d \in Daemon
      PROVE  /\ proc'[d].state \in {proc[d].state, "none"}
             /\ proc'[d].ready \in {proc[d].ready, "none"}
             /\ proc[d].state = "run" => proc'[d].state = "run" /\ proc'[d].cfg = proc[d].cfg
             /\ proc'[d].state \in Execed => proc'[d].cfg = proc[d].cfg
  BY PassiveIs DEF Alive, Execed
<1>4. Now(c) = "await" =>
         /\ proc'[target[c]].ready = "R" => proc'[target[c]].state = "run" \/ crashed'
         /\ proc'[target[c]].state \in Execed \ {"init", "cleanup"} =>
              proc'[target[c]].cfg = config
         /\ proc'[target[c]].state = "run" => fw = proc'[target[c]].cfg
  <2> SUFFICES ASSUME Now(c) = "await", NEW d \in Daemon, d = target[c]
               PROVE  /\ proc'[d].ready = "R" => proc'[d].state = "run" \/ crashed'
                      /\ proc'[d].state \in Execed \ {"init", "cleanup"} => proc'[d].cfg = config
                      /\ proc'[d].state = "run" => fw = proc'[d].cfg
    BY <1>1 DEF Aimed
  <2>1. /\ proc[d].ready = "R" => proc[d].state = "run" \/ crashed
        /\ proc[d].state \in Execed \ {"init", "cleanup"} => proc[d].cfg = config
        /\ proc[d].state = "run" => fw = proc[d].cfg
    BY <1>1 DEF Readies
  <2>2. crashed' = crashed
    BY <1>1
  <2>3. proc'[d].ready = "R" => proc'[d].state = "run" \/ crashed
    BY <1>3, <2>1
  <2>4. proc'[d].ready = "R" => proc'[d].state = "run" \/ crashed'
    BY <2>2, <2>3, Zenon
  <2> QED
    BY <1>3, <2>1, <2>4 DEF Execed
<1>5. Ready(c) => Ready(c)'
  BY <1>1, <1>3 DEF Ready, IsEnabled
<1>6. ~crashed' => ~crashed
  BY <1>1, Zenon
<1> QED
  BY <1>1, <1>2, <1>4, <1>5, <1>6 DEF Readies, Enabling

\* The next holder of the lock has not started any.
LEMMA BegunGranted ==
  ASSUME NEW c \in Controller, Granted(c)
  PROVE  \A b \in lock' : Readies(b)'
<1>1. Readies(c)'
  BY DEF Granted, Readies, Enabling
<1> QED
  BY <1>1 DEF Granted

\* The forwarder that is started loads the saved configuration and is ready when it serves.
LEMMA BegunOwn ==
  ASSUME Ground, Alone, Single, NEW c \in lock, Knows(c), Readies(c),
         NEW d \in Daemon, DaemonStep(d) \/ Crash(d)
  PROVE  Readies(c)'
<1>1. /\ Procs /\ Typed /\ c \in Controller
      /\ UNCHANGED <<calls, ret, op, target, arg>>
      /\ \A e \in Daemon : Sane(e)
      /\ Aimed(c) /\ Base /\ lock = {c}
  BY BaseFacts, TypedForwarder, Holder DEF Alone, OnlyForwarders, localVars, Ground
<1>2. Alive(d) /\ \A e \in Daemon : Alive(e) => e = d
  BY <1>1, OwnAlive DEF Single
<1>3. Now(c)' = Now(c) /\ (Rolling(c)' <=> Rolling(c))
  BY <1>1, SameStack
<1>4. config' = config
  BY <1>1, OwnMoves DEF DaemonStep
<1>5. Now(c) = "await" =>
         /\ proc'[target[c]].ready = "R" => proc'[target[c]].state = "run" \/ crashed'
         /\ proc'[target[c]].state \in Execed \ {"init", "cleanup"} =>
              proc'[target[c]].cfg = config
         /\ proc'[target[c]].state = "run" => fw' = proc'[target[c]].cfg
  <2> SUFFICES ASSUME Now(c) = "await", target[c] = d
               PROVE  /\ proc'[d].ready = "R" => proc'[d].state = "run" \/ crashed'
                      /\ proc'[d].state \in Execed \ {"init", "cleanup"} => proc'[d].cfg = config
                      /\ proc'[d].state = "run" => fw' = proc'[d].cfg
    BY <1>2 DEF Knows
  <2>1. /\ ~proc[d].term
        /\ proc[d].ready = "R" => proc[d].state \in {"run", "closed", "cleanup", "zombie"}
        /\ proc[d].ready = "R" /\ proc[d].state # "run" => crashed
        /\ proc[d].state = "closed" => crashed
        /\ proc[d].state \in Execed \ {"init", "cleanup"} => proc[d].cfg = config
    BY <1>1 DEF Knows, Sane, Ground, Leaving, Readies
  <2>2. \/ Crash(d)
        \/ Install(d)
        \/ proc[d].ready # "R" /\ Gone(d)
        \/ crashed /\ crashed' = crashed /\ Gone(d)
        \/ /\ crashed /\ crashed' = crashed
           /\ Turned(d, "cleanup", proc[d].ready, proc[d].cfg)
        \/ proc[d].ready # "R" /\ Turned(d, "init", proc[d].ready, proc[d].cfg)
        \/ proc[d].ready # "R" /\ Turned(d, "loaded", proc[d].ready, config)
        \/ /\ proc[d].ready # "R" /\ proc[d].state \in {"loaded", "bound"}
           /\ \/ Turned(d, "bound", proc[d].ready, proc[d].cfg)
              \/ Turned(d, "recorded", proc[d].ready, proc[d].cfg)
        \/ Turned(d, "cleanup", "E", proc[d].cfg)
    BY <1>1, <2>1, OwnMoves DEF DaemonStep
  <2>3. CASE Crash(d)
    <3>1. crashed' = TRUE
      BY <1>1, <2>3, OwnMoves
    <3>2. CASE Gone(d)
      BY <1>1, <3>1, <3>2, GoneIs DEF Execed
    <3>3. CASE proc[d].state = "run" /\ Turned(d, "closed", proc[d].ready, proc[d].cfg)
      BY <2>1, <3>1, <3>3 DEF Turned, Execed
    <3> QED
      BY <1>1, <2>3, <3>2, <3>3, OwnMoves
  <2>7. CASE crashed /\ crashed' = crashed /\ Gone(d)
    BY <1>1, <2>7, GoneIs DEF Execed
  <2>8. CASE /\ crashed /\ crashed' = crashed
             /\ Turned(d, "cleanup", proc[d].ready, proc[d].cfg)
    BY <2>8 DEF Turned
  <2>4. CASE Install(d)
    BY ZenonT(40), <1>1, <2>1, <2>4, OwnMoves DEF Turned, Execed
  <2>5. CASE proc[d].ready # "R" /\ Gone(d)
    BY <1>1, <2>5, GoneIs DEF Execed, NoProcess
  <2>6. CASE \/ proc[d].ready # "R" /\ Turned(d, "init", proc[d].ready, proc[d].cfg)
             \/ proc[d].ready # "R" /\ Turned(d, "loaded", proc[d].ready, config)
             \/ /\ proc[d].ready # "R" /\ proc[d].state \in {"loaded", "bound"}
                /\ \/ Turned(d, "bound", proc[d].ready, proc[d].cfg)
                   \/ Turned(d, "recorded", proc[d].ready, proc[d].cfg)
             \/ Turned(d, "cleanup", "E", proc[d].cfg)
    BY <2>1, <2>6 DEF Turned, Execed
  <2> QED
    BY <2>2, <2>3, <2>4, <2>5, <2>6, <2>7, <2>8
<1>6. ASSUME Enabling(c), Now(c) \in {"started", "after_enable", "unlock"}, ret[c] = "ok",
             ~crashed'
      PROVE  Ready(c)'
  <2>0. ~crashed
    <3>1. crashed => crashed'
      BY <1>1, OwnMoves DEF DaemonStep
    <3> QED
      BY <1>6, <3>1
  <2>1. Serves(d)
    <3>1. PICK e \in Daemon : proc[e].state = "run"
      BY <1>6, <2>0 DEF Readies, Ready
    <3>2. e = d
      BY <1>2, <3>1 DEF Alive, Execed
    <3>3. Detached(d)
      BY <1>1, <1>2, <1>6 DEF Single
    <3> QED
      BY <3>1, <3>2, <3>3 DEF Detached, Serves
  <2>2. Crash(d)
    BY <1>1, <2>1, OwnMoves DEF DaemonStep, Serves
  <2> QED
    BY <1>1, <1>6, <2>2, OwnMoves
<1> QED
  BY <1>1, <1>3, <1>4, <1>5, <1>6 DEF Readies, Enabling

\* After the release of the lock only fp_uninstall has something to do.
LEMMA LastOf ==
  ASSUME NEW s \in Seq(Statements), Chain(s), s # <<>>, Head(s) = "unlock", NEW x, Has(s, x)
  PROVE  x \in {"unlock", "remove_lock", "remove_binary"}
<1>1. Chain(s) /\ s[1] = "unlock"
  BY TailOf
<1>2. Len(s) \in Nat
  OBVIOUS
<1>3. \A k \in 1 .. Len(s) :
        /\ k \in {1, 2, 3}
        /\ s[k] \in {"unlock", "remove_lock", "remove_binary"}
  <2>1. 1 < Len(s) => s[2] = "remove_lock"
    <3>1. 1 < Len(s) => s[2] \in After(s[1])
      BY <1>1, <1>2 DEF Chain
    <3>2. After("unlock") = {"remove_lock"}
      BY DEF After
    <3> QED
      BY <1>1, <3>1, <3>2
  <2>2. 2 < Len(s) => s[3] = "remove_binary"
    <3>1. 2 < Len(s) => s[3] \in After(s[2])
      BY <1>1, <1>2 DEF Chain
    <3>2. After("remove_lock") = {"remove_binary"}
      BY DEF After
    <3> QED
      BY <1>2, <2>1, <3>1, <3>2
  <2>3. ~(3 < Len(s))
    <3>1. 3 < Len(s) => s[4] \in After(s[3])
      BY <1>1, <1>2 DEF Chain
    <3>2. After("remove_binary") = {}
      BY DEF After
    <3> QED
      BY <1>2, <2>2, <3>1, <3>2
  <2> QED
    BY <1>1, <1>2, <2>1, <2>2, <2>3
<1> QED
  BY <1>3 DEF Has

\* An operation that is about to release the lock is not in the middle of a rollback.
LEMMA LastNotRolling ==
  ASSUME TypeOK, Stacks, NEW c \in Controller, Now(c) = "unlock"
  PROVE  ~Rolling(c)
<1>1. calls[c] \in Seq(Statements) /\ Chain(calls[c]) /\ calls[c] # <<>>
      /\ Head(calls[c]) = "unlock"
  BY HeadOf DEF Now
<1> QED
  BY <1>1, LastOf DEF Rolling

\* fp_enable_proxy, fp_enable_saved_proxy, fp_set_bypass and fp_disable_proxy.
LEMMA BegunConfig ==
  ASSUME Ground, Alone, Single, NEW c \in lock, Readies(c), ControllerStep(c),
         \/ LoadEnable(c) \/ RejectProxy(c) \/ LoadSaved(c) \/ AfterEnable(c) \/ ReportFailure(c)
         \/ LoadBypass(c) \/ FirewallBypass(c) \/ FirewallRestore(c) \/ FirewallOff(c)
  PROVE  Readies(c)'
<1>1. /\ Base /\ TypeOK /\ Stacks /\ c \in Controller /\ op' = op
      /\ ret[c] \in {"ok", "fail"} /\ \A s : At(c, s) => Now(c) = s
      /\ arg \in [Controller -> Config \cup {None}] /\ config \in Config \cup {None}
  BY HolderFacts DEF TypeOK
<1>2. /\ Now(c) \in {"load_enable", "load_saved", "after_enable", "report_failure",
                      "load_bypass", "fw_bypass", "fw_restore", "fw_off"}
      /\ proc' = proc /\ listener' = listener /\ crashed' = crashed
  BY <1>1 DEF LoadEnable, RejectProxy, LoadSaved, AfterEnable, ReportFailure, LoadBypass,
     FirewallBypass, FirewallRestore, FirewallOff, diskVars
<1>3. Now(c) \in {"load_bypass", "fw_bypass", "fw_restore", "fw_off"} =>
        op[c] \notin {"enable", "saved"}
  BY <1>1, OpOf
<1>4. CASE LoadEnable(c)
  <2>1. /\ Now(c) = "load_enable"
        /\ \/ Now(c)' = "activate" /\ config' = arg'[c]
           \/ Now(c)' = "unlock" /\ ret'[c] = "fail"
    BY <1>1, <1>4, FlowConfig DEF To, Left
  <2>2. arg'[c] # None
    <3>1. PICK p \in Proxy :
            arg' = [arg EXCEPT ![c] = [proxy |-> p, bypass |-> IF config = None THEN {}
                                                              ELSE config.bypass]]
      BY <1>4 DEF LoadEnable
    <3>2. arg'[c] = [proxy |-> p, bypass |-> IF config = None THEN {} ELSE config.bypass]
      BY <1>1, <3>1
    <3>3. arg'[c] \in Config
      BY <1>1, <3>2, LifecycleAssumption DEF Config
    <3> QED
      BY <3>3, LifecycleAssumption
  <2> QED
    BY <1>1, <2>1, <2>2 DEF Readies, Enabling
<1>5. CASE RejectProxy(c) \/ LoadSaved(c)
  <2>1. \/ Now(c)' = "activate" /\ arg'[c] = config /\ config # None
        \/ Now(c)' = "unlock" /\ ret'[c] = "fail"
    BY <1>1, <1>5, FlowConfig DEF To, Left
  <2>2. config' = config
    BY <1>5 DEF RejectProxy, LoadSaved, diskVars
  <2> QED
    BY <1>1, <2>1, <2>2 DEF Readies, Enabling
<1>6. CASE AfterEnable(c)
  <2>1. /\ Now(c) = "after_enable"
        /\ \/ Now(c)' = "activate" /\ Rolling(c)'
           \/ Now(c)' = "unlock" /\ ret'[c] = "fail"
           \/ To(c, "unlock", ret[c]) /\ UNCHANGED <<config, arg>>
    BY <1>1, <1>6, FlowConfig DEF To
  <2>2. fw' = fw
    BY <1>6 DEF AfterEnable
  <2>3. CASE To(c, "unlock", ret[c]) /\ UNCHANGED <<config, arg>>
    <3>1. Now(c)' = "unlock" /\ ret'[c] = ret[c] /\ (Rolling(c)' <=> Rolling(c))
      BY <2>3 DEF To, Keeps
    <3>2. Ready(c) => Ready(c)'
      BY <1>2, <2>2, <2>3 DEF Ready, IsEnabled
    <3>3. ~crashed' => ~crashed
      BY <1>2, Zenon
    <3> QED
      BY <1>1, <2>1, <3>1, <3>2, <3>3 DEF Readies, Enabling
  <2> QED
    BY <1>1, <2>1, <2>3 DEF Readies, Enabling
<1>7. CASE ReportFailure(c)
  <2>1. Now(c)' = "unlock" /\ ret'[c] = "fail"
    BY <1>1, <1>7, FlowConfig
  <2> QED
    BY <1>1, <2>1 DEF Readies
<1>8. CASE LoadBypass(c) \/ FirewallBypass(c) \/ FirewallRestore(c) \/ FirewallOff(c)
  <2>1. /\ Now(c) \in {"load_bypass", "fw_bypass", "fw_restore", "fw_off"}
        /\ Now(c)' \in {"unlock", "fw_bypass", "fw_restore"}
    BY <1>1, <1>8, FlowConfig DEF To, Left
  <2> QED
    BY <1>1, <1>3, <2>1 DEF Readies, Enabling
<1> QED
  BY <1>4, <1>5, <1>6, <1>7, <1>8

\* activate_proxy_locked and fp_start_daemon.
LEMMA BegunStart ==
  ASSUME Ground, Alone, Single, NEW c \in lock, Knows(c), Readies(c), ControllerStep(c),
         \/ Activate(c) \/ Replace(c) \/ Started(c) \/ StartDaemon(c) \/ SpawnFails(c)
         \/ (\E d \in Daemon : Spawn(c, d)) \/ AwaitReady(c) \/ AwaitFails(c) \/ Reap(c)
  PROVE  Readies(c)'
<1>1. /\ Base /\ TypeOK /\ Stacks /\ Procs /\ lock = {c} /\ c \in Controller /\ op' = op
      /\ ret[c] \in {"ok", "fail"} /\ \A s : At(c, s) => Now(c) = s
      /\ \A e \in Daemon : Sane(e)
      /\ Aimed(c)
  BY HolderFacts, BaseFacts
<1>2. /\ config' = config /\ arg' = arg /\ (crashed' = crashed)
  BY DEF Activate, Replace, Started, StartDaemon, SpawnFails, Spawn, AwaitReady, AwaitFails,
     Reap, localVars, diskVars
<1>3. /\ Now(c) \in Starting /\ op[c] \in {"enable", "saved"}
      /\ Now(c) \notin {"load_enable", "load_saved", "unlock", "after_enable"}
  <2>1. Now(c) \in Starting
    BY <1>1 DEF Activate, Replace, Started, StartDaemon, SpawnFails, Spawn, AwaitReady,
       AwaitFails, Reap, Starting
  <2> QED
    BY <1>1, <2>1, OpOf DEF Starting
<1>4. Enabling(c) => config = arg[c] /\ arg[c] # None
  BY <1>3 DEF Readies, Enabling
<1>5. ~crashed' => ~crashed
  BY <1>2, Zenon
<1> USE DEF To, Keeps
\* What is left to show of a statement that returns to the caller.
<1>6. ASSUME Now(c)' \notin {"start", "await"}, Rolling(c)' <=> Rolling(c),
             /\ Now(c)' \in {"started", "after_enable", "unlock"}
             /\ ret'[c] = "ok" /\ ~crashed' /\ Enabling(c)
             => Ready(c)'
      PROVE  Readies(c)'
  BY <1>1, <1>2, <1>4, <1>6 DEF Readies, Enabling
<1>7. CASE Activate(c)
  <2>1. /\ Now(c) = "activate" /\ (Rolling(c)' <=> Rolling(c))
        /\ \/ Now(c)' \in Activated /\ Matches(arg[c]) /\ IsEnabled(arg[c])
           \/ Now(c)' \in {"stop", "replace"}
    BY <1>1, <1>7, FlowStart
  <2>2. UNCHANGED <<proc, listener, fw>>
    BY <1>7 DEF Activate
  <2>3. Matches(arg[c]) /\ IsEnabled(arg[c]) /\ ~crashed => Ready(c)'
    <3>1. ASSUME Matches(arg[c]), IsEnabled(arg[c]), ~crashed PROVE Ready(c)'
      <4>1. PICK d \in Daemon : /\ d = pidfile /\ Alive(d) /\ proc[d].cfg.proxy = arg[c].proxy
        BY <1>1, <3>1 DEF Matches, Recorded, IsOurs, Alive, TypeOK
      <4>2. Detached(d)
        BY <1>1, <2>1, <4>1 DEF Single
      <4>3. proc[d].state = "run" /\ listener = d
        BY <1>1, <3>1, <4>1, <4>2 DEF Detached, Sane, Ground, Leaving
      <4> QED
        BY <1>2, <2>2, <3>1, <4>1, <4>3 DEF Ready, IsEnabled
    <3> QED
      BY <3>1
  <2> QED
    BY <1>5, <1>6, <2>1, <2>3 DEF Activated
<1>8. CASE Replace(c)
  <2>1. /\ Now(c) = "replace" /\ (Rolling(c)' <=> Rolling(c))
        /\ \/ Now(c)' = "start" /\ ret'[c] = "ok"
           \/ Now(c)' \in Activated /\ ret'[c] = "fail"
    BY <1>1, <1>8, FlowStart
  <2> QED
    BY <1>1, <1>2, <1>4, <2>1 DEF Readies, Enabling, Activated
<1>9. CASE Started(c)
  <2>1. /\ Now(c) = "started" /\ (Rolling(c)' <=> Rolling(c))
        /\ Now(c)' \in Activated /\ ret'[c] = ret[c]
    BY <1>1, <1>9, FlowStart
  <2>2. ret[c] = "ok" => UNCHANGED <<proc, listener, fw>>
    BY <1>9 DEF Started
  <2>3. Enabling(c) /\ ret[c] = "ok" /\ ~crashed => Ready(c)
    BY <2>1 DEF Readies
  <2>4. Enabling(c) /\ ret[c] = "ok" /\ ~crashed => Ready(c)'
    BY <1>2, <2>2, <2>3 DEF Ready, IsEnabled
  <2> QED
    BY <1>5, <1>6, <2>1, <2>4 DEF Activated
<1>10. CASE StartDaemon(c)
  <2>1. /\ Now(c) = "start" /\ (Rolling(c)' <=> Rolling(c))
        /\ Now(c)' \in {"stop", "sweep"} \/ Matches(arg[c])
    BY <1>1, <1>10, FlowStart
  <2>2. ~Matches(arg[c])
    BY <2>1 DEF Knows, Readies, Matches, Recorded
  <2> QED
    BY <1>6, <2>1, <2>2
<1>11. CASE SpawnFails(c)
  <2>1. Now(c)' = "started" /\ ret'[c] = "fail" /\ (Rolling(c)' <=> Rolling(c))
    BY <1>1, <1>11, FlowStart
  <2> QED
    BY <1>6, <2>1
<1>12. ASSUME NEW d \in Daemon, Spawn(c, d) PROVE Readies(c)'
  <2>1. Now(c)' = "await" /\ target'[c] = d /\ (Rolling(c)' <=> Rolling(c))
    BY <1>1, <1>12, FlowStart
  <2>2. proc'[d] = [NoProcess EXCEPT !.state = "forked", !.parent = c]
    BY <1>1, <1>12 DEF Spawn, NewProcess, Procs
  <2>3. proc'[d].state = "forked" /\ proc'[d].ready = "none"
    BY <2>2 DEF NoProcess
  <2> QED
    BY <1>1, <1>2, <1>4, <2>1, <2>3 DEF Readies, Enabling, Execed
<1>13. CASE AwaitReady(c)
  <2>1. Now(c) = "await" /\ Now(c)' = "started" /\ (Rolling(c)' <=> Rolling(c))
    BY <1>1, <1>13, FlowStart
  <2>2. PICK d \in Daemon : d = target[c] /\ proc[d].ready = "R"
    BY <1>1, <1>13, <2>1 DEF Aimed, AwaitReady
  <2>3. UNCHANGED <<proc, listener, fw>>
    BY <1>13 DEF AwaitReady
  <2>4. ~crashed => /\ proc[d].state = "run" /\ proc[d].cfg = config /\ fw = config
                    /\ listener = d
    BY <1>1, <2>1, <2>2 DEF Readies, Sane, Execed
  <2>5. ~crashed /\ Enabling(c) => Ready(c)'
    <3>1. arg[c].bypass \subseteq arg[c].bypass
      OBVIOUS
    <3> QED
      BY <1>2, <1>4, <2>3, <2>4, <3>1 DEF Ready, IsEnabled
  <2> QED
    BY <1>5, <1>6, <2>1, <2>5
<1>14. CASE AwaitFails(c)
  <2>1. Now(c)' = "reap" /\ (Rolling(c)' <=> Rolling(c))
    BY <1>1, <1>14, FlowStart
  <2> QED
    BY <1>6, <2>1
<1>15. CASE Reap(c)
  <2>1. Now(c)' = "started" /\ ret'[c] = "fail" /\ (Rolling(c)' <=> Rolling(c))
    BY <1>1, <1>15, FlowStart
  <2> QED
    BY <1>6, <2>1
<1> QED
  BY <1>7, <1>8, <1>9, <1>10, <1>11, <1>12, <1>13, <1>14, <1>15

\* fp_stop_daemon: where it goes from each of its statements.
LEMMA StopGoes ==
  ASSUME TypeOK, Stacks, NEW c \in Controller,
         \/ StopDaemon(c) \/ SendTerm(c) \/ WaitGone(c) \/ WaitTimeout(c) \/ KillGone(c)
         \/ Sweep(c) \/ (\E d \in Daemon : ScanEntry(c, d)) \/ ScanDone(c)
         \/ \E s \in {"port", "port_again"} : PortReleased(c, s) \/ PortBusy(c, s)
  PROVE  Now(c)' \in Stopping \cup Stopped /\ (Rolling(c)' <=> Rolling(c))
<1>1. ASSUME NEW s, NEW v, To(c, s, v) PROVE Now(c)' = s /\ (Rolling(c)' <=> Rolling(c))
  BY <1>1 DEF To, Keeps
<1>2. CASE \/ StopDaemon(c) \/ SendTerm(c) \/ WaitGone(c) \/ WaitTimeout(c) \/ KillGone(c)
           \/ Sweep(c)
  BY <1>1, <1>2, FlowStop DEF Stopping
<1>3. CASE ScanDone(c)
  BY <1>1, <1>3, FlowStop DEF Stopping, Stopped
<1>4. ASSUME NEW d \in Daemon, ScanEntry(c, d)
      PROVE  Now(c)' \in Stopping \cup Stopped /\ (Rolling(c)' <=> Rolling(c))
  BY <1>1, <1>4, FlowStop DEF Stopping
<1>5. ASSUME NEW s \in {"port", "port_again"}, PortReleased(c, s)
      PROVE  Now(c)' \in Stopping \cup Stopped /\ (Rolling(c)' <=> Rolling(c))
  BY <1>1, <1>5, FlowStop
<1>6. ASSUME NEW s \in {"port", "port_again"}, PortBusy(c, s)
      PROVE  Now(c)' \in Stopping \cup Stopped /\ (Rolling(c)' <=> Rolling(c))
  BY <1>1, <1>6, FlowStop DEF Stopping
<1> QED
  BY <1>2, <1>3, <1>4, <1>5, <1>6

\* fp_stop_daemon and fp_uninstall.
LEMMA BegunStop ==
  ASSUME Ground, Alone, NEW c \in lock, Readies(c), ControllerStep(c),
         \/ StopDaemon(c) \/ SendTerm(c) \/ WaitGone(c) \/ WaitTimeout(c) \/ KillGone(c)
         \/ Sweep(c) \/ (\E d \in Daemon : ScanEntry(c, d)) \/ ScanDone(c)
         \/ \E s \in {"port", "port_again"} : PortReleased(c, s) \/ PortBusy(c, s)
  PROVE  Readies(c)'
<1>1. /\ Base /\ TypeOK /\ Stacks /\ lock = {c} /\ c \in Controller /\ op' = op
      /\ \A s : At(c, s) => Now(c) = s
  BY HolderFacts
<1>2. Now(c) \in Stopping
  BY <1>1 DEF StopDaemon, SendTerm, WaitGone, WaitTimeout, KillGone, Sweep, ScanEntry, ScanDone,
     PortReleased, PortBusy, Stopping
<1>3. config' = config /\ arg' = arg
  BY DEF StopDaemon, SendTerm, WaitGone, WaitTimeout, KillGone, Sweep, ScanEntry, ScanDone,
     PortReleased, PortBusy, diskVars, localVars
<1>4. Now(c)' \in Stopping \cup Stopped /\ (Rolling(c)' <=> Rolling(c))
  BY <1>1, StopGoes
<1> QED
  BY <1>1, <1>2, <1>3, <1>4 DEF Readies, Enabling, Stopping, Stopped

\* fp_uninstall.
LEMMA BegunUninstall ==
  ASSUME Ground, Alone, NEW c \in lock, Readies(c), ControllerStep(c),
         \/ UnitStopBegin(c) \/ UnitStopDone(c) \/ UnitRemove(c) \/ UninstallFirewall(c)
         \/ UninstallRetry(c) \/ RemoveFiles(c)
  PROVE  Readies(c)'
<1>1. /\ TypeOK /\ Stacks /\ c \in Controller /\ op' = op
      /\ \A s : At(c, s) => Now(c) = s
  BY HolderFacts
<1>2. Now(c) \in {"unit_stop", "unit_wait", "unit_remove", "uninstall_fw", "uninstall_retry",
                  "remove_files"}
  BY <1>1 DEF UnitStopBegin, UnitStopDone, UnitRemove, UninstallFirewall, UninstallRetry,
     RemoveFiles
<1>3. op[c] = "uninstall"
  BY <1>1, <1>2, OpOf
<1>4. Now(c)' \notin {"start", "await"}
  BY <1>1, FlowUninstall DEF To
<1> QED
  BY <1>1, <1>3, <1>4 DEF Readies, Enabling

\* The holder of the lock.
LEMMA BegunHolds ==
  ASSUME Ground, Alone, Single, NEW c \in Controller, Holds(c), Knows(c), Readies(c)
  PROVE  \A b \in lock' : Readies(b)'
<1>1. /\ c \in lock /\ lock = {c} /\ ControllerStep(c)
      /\ lock' = {c} \/ (lock' = {} /\ Release(c))
  BY DEF Holds
<1>2. /\ \A s : At(c, s) => Now(c) = s
      /\ Now(c) \notin Outside
  BY <1>1, HolderFacts
<1>3. CASE Release(c)
  BY <1>1, <1>3 DEF Release
<1>4. CASE ~Release(c)
  <2>1. ~OpenLock(c) /\ ~Acquire(c) /\ ~RemoveLock(c) /\ ~RemoveBinary(c)
    BY <1>2 DEF OpenLock, Acquire, RemoveLock, RemoveBinary, Outside
  <2>2. lock' = {c}
    BY <1>1, <1>4
  <2> QED
    BY <1>1, <1>4, <2>1, <2>2, BegunConfig, BegunStart, BegunStop, BegunUninstall
    DEF ControllerStep
<1> QED
  BY <1>3, <1>4

\* Begun is inductive.
LEMMA BegunNext ==
  ASSUME Ground, Base', Known, Begun, [Next]_vars
  PROVE  Begun'
<1> SUFFICES ASSUME Alone'
             PROVE  \A c \in lock' : Readies(c)'
  BY DEF Begun
<1>1. /\ Alone /\ Single /\ Base /\ \A c \in lock : Knows(c) /\ Readies(c)
  BY AloneStep DEF Known, Ground, Begun
<1>2. ASSUME NEW c \in Controller, Granted(c)
      PROVE  \A b \in lock' : Readies(b)'
  BY <1>2, BegunGranted
<1>3. ASSUME NEW c \in Controller, Holds(c)
      PROVE  \A b \in lock' : Readies(b)'
  BY <1>1, <1>3, BegunHolds DEF Holds
<1>4. ASSUME NEW d \in Daemon, DaemonStep(d) \/ Crash(d)
      PROVE  \A b \in lock' : Readies(b)'
  <2>1. lock' = lock
    BY <1>1, <1>4, BaseFacts, TypedForwarder DEF OnlyForwarders
  <2> QED
    BY <1>1, <1>4, <2>1, BegunOwn
<1> QED
  BY <1>1, <1>2, <1>3, <1>4, AloneStep, BegunPassive

-----------------------------------------------------------------------------
(* The saved configuration, as long as files, fork and iptables work.        *)

\* Nothing has failed in a step after which nothing has failed.
LEMMA FaultLess ==
  ASSUME Base, faults' = 0
  PROVE  ~Fault /\ (NoFault => faults = 0)
<1>1. faults \in Nat
  BY BaseFacts DEF Typed, Counts
<1>2. ~Fault
  BY <1>1 DEF Fault
<1>3. NoFault => faults = 0
  BY DEF NoFault
<1> QED
  BY <1>2, <1>3

\* No controller takes a failure back.
LEMMA FaultFree ==
  ASSUME Base, faults' = 0, NEW c \in Controller, ControllerStep(c)
  PROVE  faults = 0
<1>1. Fault \/ faults' = faults
  BY DEF ControllerStep, OpenLock, Acquire, RemoveLock, RemoveBinary,
      Release, LoadEnable, RejectProxy, LoadSaved, Activate, Replace, Started,
      AfterEnable, ReportFailure, LoadBypass, FirewallBypass, FirewallRestore, FirewallOff,
      UnitStopBegin, UnitStopDone, UnitRemove, UninstallFirewall, UninstallRetry, RemoveFiles,
      StopDaemon, SendTerm, WaitGone, WaitTimeout, KillGone, Sweep, ScanDone, StartDaemon,
      Spawn, SpawnFails, AwaitReady, AwaitFails, Reap, ScanEntry, PortReleased, PortBusy,
      countVars, NoFault
<1> QED
  BY <1>1, FaultLess

\* No forwarder is left to have another configuration.
LEMMA SavesNone ==
  ASSUME NEW c, NoneServes', Now(c)' \notin {"fw_bypass", "fw_restore"},
         ~Enabling(c)' \/ Now(c)' # "activate"
  PROVE  Saves(c)'
<1>1. \A d \in Daemon : ~Serves(d)'
  BY DEF NoneServes, Serves
<1> QED
  BY <1>1 DEF Saves, Settled

\* The forwarder and the saved configuration stay together in the steps of others.
LEMMA SavedPassive ==
  ASSUME Base, Passive, lock = {} => Settled(config), \A c \in lock : Saves(c)
  PROVE  (lock' = {} => Settled(config)') /\ \A c \in lock' : Saves(c)'
<1>1. \A d \in Daemon : Serves(d)' => Serves(d) /\ proc'[d].cfg = proc[d].cfg
  BY PassiveIs DEF Serves, Alive, Execed
<1>2. /\ lock' = lock /\ config' = config /\ fw' = fw
      /\ \A c \in lock : /\ op'[c] = op[c] /\ arg'[c] = arg[c] /\ prev'[c] = prev[c]
                         /\ Now(c)' = Now(c) /\ (Rolling(c)' <=> Rolling(c))
  BY PassiveIs DEF Passive
<1>3. Settled(config) => Settled(config)'
  BY <1>1, <1>2 DEF Settled
<1>4. ASSUME NEW c \in lock PROVE Saves(c)'
  <2>1. Saves(c)
    OBVIOUS
  <2>2. Settled(prev[c]) => Settled(prev[c])'
    BY <1>1, <1>2 DEF Settled
  <2> QED
    BY <1>2, <1>3, <2>1, <2>2 DEF Saves, Enabling
<1> QED
  BY <1>2, <1>3, <1>4

\* The next holder of the lock finds them together.
LEMMA SavedGranted ==
  ASSUME NEW c \in Controller, Granted(c), lock = {} => Settled(config)
  PROVE  (lock' = {} => Settled(config)') /\ \A b \in lock' : Saves(b)'
<1>1. Settled(config)'
  BY DEF Granted, Settled, Serves
<1> QED
  BY <1>1 DEF Granted, Saves

\* The forwarder moves: one that serves can only crash.
LEMMA SavedOwn ==
  ASSUME Ground, Alone, Single, NEW d \in Daemon, DaemonStep(d) \/ Crash(d),
         \A c \in lock : Saves(c)
  PROVE  (lock' = {} => Settled(config)') /\ \A c \in lock' : Saves(c)'
<1>1. /\ Procs /\ Typed /\ lock \subseteq Controller /\ lock' = lock
      /\ UNCHANGED <<calls, op, arg, prev>> /\ Base
      /\ \A c \in lock : lock = {c}
  BY BaseFacts, TypedForwarder, Holder DEF OnlyForwarders, Alone, localVars, Ground
<1>2. Alive(d) /\ \A e \in Daemon : Alive(e)' => Alive(e)
  BY <1>1, OwnAlive
<1>3. \A c \in lock : Now(c)' = Now(c) /\ (Rolling(c)' <=> Rolling(c))
  BY <1>1, SameStack
<1>4. config' = config
  BY <1>1, OwnMoves DEF DaemonStep
<1>5. CASE Detached(d)
  <2>1. Gone(d) \/ proc'[d].state \in {"closed", "cleanup"}
    BY <1>1, <1>5, OwnMoves DEF DaemonStep, Detached, Turned
  <2>2. proc'[d].state # "run" /\ \A e \in Daemon \ {d} : ~Alive(e)'
    BY <1>1, <1>2, <2>1, GoneIs DEF Single
  <2>3. \A e \in Daemon : ~Serves(e)'
    BY <2>2 DEF Alive, Serves, Execed
  <2>4. ASSUME NEW c \in lock PROVE Saves(c)'
    <3>1. Saves(c)
      OBVIOUS
    <3> QED
      BY <1>1, <1>3, <1>4, <2>3, <3>1 DEF Saves, Settled, Enabling
  <2> QED
    BY <1>1, <2>3, <2>4 DEF Settled
<1>6. CASE ~Detached(d)
  <2>1. PICK c \in lock : Now(c) \in {"await", "wait", "reap"}
    BY <1>2, <1>6 DEF Single
  <2>2. lock' = {c} /\ Now(c)' \in {"await", "wait", "reap"}
    BY <1>1, <1>3, <2>1
  <2> QED
    BY <2>2 DEF Saves
<1> QED
  BY <1>5, <1>6

\* fp_enable_proxy, fp_enable_saved_proxy, fp_set_bypass and fp_disable_proxy.
LEMMA SavedConfig ==
  ASSUME Ground, Alone, Single, NEW c \in lock, Knows(c), Saves(c), ControllerStep(c),
         faults' = 0,
         \/ LoadEnable(c) \/ RejectProxy(c) \/ LoadSaved(c) \/ AfterEnable(c) \/ ReportFailure(c)
         \/ LoadBypass(c) \/ FirewallBypass(c) \/ FirewallRestore(c) \/ FirewallOff(c)
  PROVE  Saves(c)'
<1>1. /\ Base /\ TypeOK /\ Stacks /\ c \in Controller /\ op' = op
      /\ ret[c] \in {"ok", "fail"} /\ \A s : At(c, s) => Now(c) = s
      /\ arg \in [Controller -> Config \cup {None}] /\ config \in Config \cup {None}
      /\ prev \in [Controller -> Config \cup {None}]
      /\ (NoneAlive => NoneAlive')
  <2>1. proc' = proc
    BY DEF LoadEnable, RejectProxy, LoadSaved, AfterEnable, ReportFailure, LoadBypass,
       FirewallBypass, FirewallRestore, FirewallOff
  <2> QED
    BY <2>1, HolderFacts DEF TypeOK, NoneAlive, Alive
<1>2. /\ Now(c) \in {"load_enable", "load_saved", "after_enable", "report_failure",
                      "load_bypass", "fw_bypass", "fw_off"}
      /\ proc' = proc
  BY <1>1 DEF LoadEnable, RejectProxy, LoadSaved, AfterEnable, ReportFailure, LoadBypass,
     FirewallBypass, FirewallRestore, FirewallOff, Saves
<1>3. \A d \in Daemon : Serves(d)' <=> Serves(d)
  BY <1>2 DEF Serves
<1>4. ~Fault /\ Base
  BY <1>1, FaultLess
<1>5. CASE LoadEnable(c)
  <2>1. Now(c) = "load_enable" /\ Now(c)' = "activate" /\ op[c] = "enable"
    BY <1>1, <1>4, <1>5, FlowConfig, OpOf DEF To
  <2>2. fw' = fw /\ prev'[c] = config
    BY <1>1, <1>5 DEF LoadEnable
  <2>3. config # None => arg'[c].bypass = config.bypass
    <3>1. PICK p \in Proxy :
            arg' = [arg EXCEPT ![c] = [proxy |-> p, bypass |-> IF config = None THEN {}
                                                              ELSE config.bypass]]
      BY <1>5 DEF LoadEnable
    <3> QED
      BY <1>1, <3>1
  <2>4. Settled(config)
    BY <2>1 DEF Saves
  <2>5. Settled(prev[c])'
    BY <1>2, <1>3, <2>2, <2>4 DEF Settled
  <2> QED
    BY <1>1, <2>1, <2>2, <2>3, <2>5 DEF Saves
<1>6. CASE RejectProxy(c) \/ LoadSaved(c) \/ ReportFailure(c)
  <2>1. /\ Now(c) \in {"load_enable", "load_saved", "report_failure"}
        /\ Now(c)' = "unlock" \/ (Now(c)' = "activate" /\ Now(c) = "load_saved")
    BY <1>1, <1>6, FlowConfig DEF To, Left
  <2>2. Now(c)' = "activate" => op[c] = "saved"
    BY <1>1, <2>1, OpOf
  <2>3. UNCHANGED <<config, fw>> /\ Settled(config)
    BY <1>6, <2>1 DEF RejectProxy, LoadSaved, ReportFailure, diskVars, Saves
  <2>4. Settled(config)'
    BY <1>2, <1>3, <2>3 DEF Settled
  <2> QED
    BY <1>1, <2>1, <2>2, <2>4 DEF Saves
<1>7. CASE AfterEnable(c)
  <2>1. /\ Now(c) = "after_enable" /\ fw' = fw
        /\ \/ Now(c)' = "activate" /\ Rolling(c)' /\ ret[c] = "fail"
           \/ Now(c)' = "unlock" /\ ret[c] = "fail"
           \/ Now(c)' = "unlock" /\ config' = config
    BY <1>1, <1>7, FlowConfig DEF To, AfterEnable
  <2>2. ret[c] = "fail" => NoneServes'
    BY <1>1, <1>2, <2>1 DEF Knows, NoneServes
  <2>3. config' = config => Settled(config)'
    BY <1>2, <1>3, <2>1 DEF Settled, Saves
  <2>4. CASE ret[c] = "fail"
    BY <2>1, <2>2, <2>4, SavesNone DEF Enabling
  <2>5. CASE Now(c)' = "unlock" /\ config' = config
    BY <2>3, <2>5 DEF Saves
  <2> QED
    BY <2>1, <2>4, <2>5
<1>8. CASE LoadBypass(c)
  <2>1. Now(c) = "load_bypass" /\ Settled(config) /\ fw' = fw
    BY <1>1, <1>8, FlowConfig DEF Saves, LoadBypass
  <2>2. \/ Now(c)' = "unlock" /\ config' = config
        \/ /\ Now(c)' = "fw_bypass" \/ (Now(c)' = "unlock" /\ ~Recorded)
           /\ config # None /\ config' = arg'[c] /\ prev'[c] = config
           /\ \E b \in Bypass : arg'[c] = [config EXCEPT !.bypass = b]
    BY <1>1, <1>4, <1>8, FlowConfig DEF To, Left
  <2>3. CASE Now(c)' = "unlock" /\ config' = config
    BY <1>2, <1>3, <2>1, <2>3 DEF Settled, Saves
  <2>4. CASE Now(c)' = "unlock" /\ ~Recorded
    <3>1. \A d \in Daemon : ~Serves(d)'
      BY <1>1, <1>3, <2>4, BaseFacts DEF Single, Serves, Recorded
    <3> QED
      BY <2>4, <3>1 DEF Saves, Settled
  <2>5. CASE /\ Now(c)' = "fw_bypass"
             /\ config # None /\ config' = arg'[c] /\ prev'[c] = config
             /\ \E b \in Bypass : arg'[c] = [config EXCEPT !.bypass = b]
    <3>1. config \in Config /\ arg'[c] \in Config /\ arg'[c].proxy = config.proxy
      BY <1>1, <2>5 DEF Config
    <3>2. arg'[c] # None
      BY <3>1, LifecycleAssumption
    <3>3. Settled(prev[c])'
      BY <1>2, <1>3, <2>1, <2>5 DEF Settled
    <3> QED
      BY <2>5, <3>1, <3>2, <3>3 DEF Saves
  <2> QED
    BY <2>2, <2>3, <2>4, <2>5
<1>9. CASE FirewallBypass(c)
  <2>1. Now(c) = "fw_bypass" /\ Now(c)' = "unlock" /\ fw' = arg[c] /\ config' = config
    BY <1>1, <1>4, <1>9, FlowConfig DEF To
  <2>2. /\ Settled(prev[c]) /\ arg[c] # None
        /\ config = arg[c] /\ arg[c].proxy = prev[c].proxy
    BY <2>1 DEF Saves
  <2>3. Settled(config)'
    BY <1>2, <1>3, <2>1, <2>2 DEF Settled
  <2> QED
    BY <2>1, <2>3 DEF Saves
<1>10. CASE FirewallRestore(c)
  BY <1>1, <1>2, <1>10, FlowConfig
<1>11. CASE FirewallOff(c)
  <2>1. Now(c) = "fw_off" /\ Now(c)' = "unlock"
    BY <1>1, <1>11, FlowConfig DEF To
  <2>2. NoneAlive'
    BY <1>1, <2>1 DEF Knows
  <2> QED
    BY <2>1, <2>2, SavesNone, AliveServes
<1> QED
  BY <1>5, <1>6, <1>7, <1>8, <1>9, <1>10, <1>11

\* activate_proxy_locked and fp_start_daemon.
LEMMA SavedStart ==
  ASSUME Ground, Alone, Single, NEW c \in lock, Knows(c), Readies(c), Saves(c),
         ControllerStep(c), faults' = 0,
         \/ Activate(c) \/ Replace(c) \/ Started(c) \/ StartDaemon(c) \/ SpawnFails(c)
         \/ (\E d \in Daemon : Spawn(c, d)) \/ AwaitReady(c) \/ AwaitFails(c) \/ Reap(c)
  PROVE  Saves(c)'
<1>1. /\ Base /\ TypeOK /\ Stacks /\ Procs /\ lock = {c} /\ c \in Controller /\ op' = op
      /\ ret[c] \in {"ok", "fail"} /\ \A s : At(c, s) => Now(c) = s
      /\ Aimed(c)
      /\ arg \in [Controller -> Config \cup {None}] /\ prev \in [Controller -> Config \cup {None}]
      /\ Now(c) # "spawn" => \A e \in Daemon : Alive(e)' => Alive(e)
  BY HolderFacts, BaseFacts DEF TypeOK
<1>2. config' = config
  BY DEF Activate, Replace, Started, StartDaemon, SpawnFails, Spawn, AwaitReady, AwaitFails,
     Reap, diskVars
<1>3. NoneServes /\ Now(c) \in {"replace", "started", "start"} => NoneServes'
  BY <1>1, HolderProc DEF NoneServes, SendTerm, WaitGone, WaitTimeout, AwaitFails, Reap, Spawn
<1> USE DEF To
<1>4. CASE Activate(c)
  <2>1. /\ Now(c) = "activate" /\ UNCHANGED <<proc, fw>>
        /\ \/ Now(c)' \in Activated /\ Matches(arg[c]) /\ IsEnabled(arg[c])
           \/ Now(c)' \in {"stop", "replace"}
    BY <1>1, <1>4, FlowStart DEF Activate
  <2>2. CASE Now(c)' \in {"stop", "replace"}
    BY <2>2 DEF Saves
  <2>3. CASE Now(c)' \in Activated /\ Matches(arg[c]) /\ IsEnabled(arg[c])
    <3>1. op[c] \in {"enable", "saved"}
      BY <1>1, <2>1, OpOf DEF Starting
    <3>2. Settled(config)
      <4>1. CASE op[c] = "saved"
        BY <2>1, <4>1 DEF Saves
      <4>2. CASE Rolling(c)
        BY <2>1, <4>2 DEF Knows, NoneServes, Settled, Serves
      <4>3. CASE op[c] = "enable" /\ Enabling(c)
        <5>1. /\ Settled(prev[c]) /\ (prev[c] # None => arg[c].bypass = prev[c].bypass)
              /\ config = arg[c] /\ arg[c] # None
          BY <2>1, <4>3 DEF Saves, Readies
        <5>2. ASSUME NEW d \in Daemon, Serves(d)
              PROVE  proc[d].cfg.proxy = arg[c].proxy /\ fw = arg[c]
          <6>1. /\ prev[c] # None /\ proc[d].cfg.proxy = prev[c].proxy /\ fw = prev[c]
                /\ arg[c].bypass = prev[c].bypass
            BY <5>1, <5>2 DEF Settled
          <6>2. arg[c].proxy = prev[c].proxy
            BY <2>3, <6>1 DEF IsEnabled
          <6>3. arg[c] \in Config /\ prev[c] \in Config
            BY <1>1, <5>1, <6>1
          <6>4. arg[c] = prev[c]
            BY <6>1, <6>2, <6>3 DEF Config
          <6> QED
            BY <6>1, <6>2, <6>4
        <5> QED
          BY <5>1, <5>2 DEF Settled
      <4> QED
        BY <3>1, <4>1, <4>2, <4>3 DEF Enabling
    <3>3. Settled(config)'
      BY <1>2, <2>1, <3>2 DEF Settled, Serves
    <3> QED
      BY <2>3, <3>3 DEF Saves, Activated
  <2> QED
    BY <2>1, <2>2, <2>3
<1>5. CASE Replace(c)
  <2>1. Now(c) = "replace" /\ Now(c)' \in Activated \cup {"start"}
    BY <1>1, <1>5, FlowStart
  <2> QED
    BY <1>3, <2>1, SavesNone DEF Knows, Activated
<1>6. CASE Started(c)
  <2>1. Now(c) = "started" /\ Now(c)' \in Activated /\ Settled(config)
    BY <1>1, <1>6, FlowStart DEF Saves
  <2>2. CASE ret[c] = "fail"
    BY <1>3, <2>1, <2>2, SavesNone DEF Knows, Activated
  <2>3. CASE ret[c] = "ok"
    <3>1. UNCHANGED <<proc, fw>>
      BY <1>6, <2>3 DEF Started
    <3>2. Settled(config)'
      BY <1>2, <2>1, <3>1 DEF Settled, Serves
    <3> QED
      BY <2>1, <3>2 DEF Saves, Activated
  <2> QED
    BY <1>1, <2>2, <2>3
<1>7. CASE StartDaemon(c)
  <2>1. Now(c) = "start" /\ Now(c)' \in {"started", "stop", "sweep"}
    BY <1>1, <1>7, FlowStart
  <2> QED
    BY <1>3, <2>1, SavesNone DEF Knows
<1>8. CASE SpawnFails(c)
  <2>1. Now(c) = "spawn" /\ Now(c)' = "started" /\ proc' = proc
    BY <1>1, <1>8, FlowStart DEF SpawnFails
  <2>2. NoneAlive'
    BY <2>1 DEF Knows, NoneAlive, Alive
  <2> QED
    BY <2>1, <2>2, SavesNone, AliveServes
<1>9. ASSUME NEW d \in Daemon, Spawn(c, d) PROVE Saves(c)'
  BY <1>1, <1>9, FlowStart DEF Saves
<1>10. CASE AwaitReady(c)
  <2>1. Now(c) = "await" /\ Now(c)' = "started" /\ UNCHANGED <<proc, fw>>
    BY <1>1, <1>10, FlowStart DEF AwaitReady
  <2>2. PICK d \in Daemon : d = target[c]
    BY <1>1, <2>1 DEF Aimed
  <2>3. \A e \in Daemon : Serves(e) => e = d
    BY <2>1, <2>2 DEF Knows, Serves, Alive, Execed
  <2>4. Serves(d) => /\ proc[d].cfg = config /\ fw = proc[d].cfg /\ proc[d].cfg # None
    BY <1>1, <2>1, <2>2 DEF Readies, Serves, Execed, Procs
  <2>5. Settled(config)'
    BY <1>2, <2>1, <2>3, <2>4 DEF Settled, Serves
  <2> QED
    BY <2>1, <2>5 DEF Saves
<1>11. CASE AwaitFails(c)
  BY <1>1, <1>11, FlowStart DEF Saves
<1>12. CASE Reap(c)
  <2>1. Now(c) = "reap" /\ Now(c)' = "started" /\ Collect(c)
    BY <1>1, <1>12, FlowStart DEF Reap
  <2>2. ~Alive(target[c])
    BY <2>1 DEF Collect, Alive, Execed
  <2>3. NoneAlive'
    BY <1>1, <2>1, <2>2 DEF Knows, NoneAlive
  <2> QED
    BY <2>1, <2>3, SavesNone, AliveServes
<1> QED
  BY <1>4, <1>5, <1>6, <1>7, <1>8, <1>9, <1>10, <1>11, <1>12

\* The holder of the lock.
LEMMA SavedHolds ==
  ASSUME Ground, Alone, Single, NEW c \in Controller, Holds(c), Knows(c), Readies(c), Saves(c),
         faults' = 0
  PROVE  (lock' = {} => Settled(config)') /\ \A b \in lock' : Saves(b)'
<1>1. /\ c \in lock /\ lock = {c} /\ ControllerStep(c)
      /\ lock' = {c} \/ (lock' = {} /\ Release(c))
  BY DEF Holds
<1>2. /\ \A s : At(c, s) => Now(c) = s
      /\ Now(c) \notin Outside /\ TypeOK /\ Stacks
  BY <1>1, HolderFacts
<1>3. CASE Release(c)
  <2>1. Now(c) = "unlock" /\ UNCHANGED <<config, fw, proc>>
    BY <1>2, <1>3 DEF Release, diskVars
  <2>2. Settled(config)'
    BY <2>1 DEF Saves, Settled, Serves
  <2> QED
    BY <1>1, <1>3, <2>2 DEF Release
<1>4. CASE ~Release(c)
  <2>1. ~OpenLock(c) /\ ~Acquire(c) /\ ~RemoveLock(c) /\ ~RemoveBinary(c)
    BY <1>2 DEF OpenLock, Acquire, RemoveLock, RemoveBinary, Outside
  <2>2. lock' = {c}
    BY <1>1, <1>4
  <2>3. ASSUME \/ StopDaemon(c) \/ SendTerm(c) \/ WaitGone(c) \/ WaitTimeout(c) \/ KillGone(c)
               \/ Sweep(c) \/ (\E d \in Daemon : ScanEntry(c, d)) \/ ScanDone(c)
               \/ \E s \in {"port", "port_again"} : PortReleased(c, s) \/ PortBusy(c, s)
        PROVE  Saves(c)'
    BY <1>1, <1>2, <2>3, StopGoes DEF Saves, Stopping, Stopped
  <2>4. ASSUME \/ UnitStopBegin(c) \/ UnitStopDone(c) \/ UnitRemove(c) \/ UninstallFirewall(c)
               \/ UninstallRetry(c)
        PROVE  Saves(c)'
    <3>1. Now(c)' \in {"unit_wait", "unit_remove", "stop", "uninstall_retry", "remove_files"}
      BY <1>1, <1>2, <2>4, FlowUninstall DEF To
    <3> QED
      BY <3>1 DEF Saves
  <2>5. ASSUME RemoveFiles(c) PROVE Saves(c)'
    <3>1. Now(c) = "remove_files" /\ Now(c)' = "unlock" /\ proc' = proc
      BY <1>1, <1>2, <2>5, FlowUninstall DEF To, RemoveFiles
    <3>2. NoneAlive'
      BY <3>1 DEF Knows, NoneAlive, Alive
    <3> QED
      BY <3>1, <3>2, SavesNone, AliveServes
  <2>6. Saves(c)'
    BY <1>1, <1>4, <2>1, <2>3, <2>4, <2>5, SavedConfig, SavedStart DEF ControllerStep
  <2> QED
    BY <2>2, <2>6
<1> QED
  BY <1>3, <1>4

\* Saved is inductive.
LEMMA SavedNext ==
  ASSUME Ground, Base', Known, Begun, Saved, [Next]_vars
  PROVE  Saved'
<1> SUFFICES ASSUME Alone', faults' = 0
             PROVE  (lock' = {} => Settled(config)') /\ \A c \in lock' : Saves(c)'
  BY DEF Saved
<1>1. /\ Alone /\ Single /\ Base /\ \A c \in lock : Knows(c) /\ Readies(c)
  BY AloneStep DEF Known, Ground, Begun
<1>2. faults = 0 => (lock = {} => Settled(config)) /\ \A c \in lock : Saves(c)
  BY <1>1 DEF Saved
<1>3. ASSUME NEW c \in Controller, Granted(c)
      PROVE  (lock' = {} => Settled(config)') /\ \A b \in lock' : Saves(b)'
  <2>1. faults = 0
    BY <1>3 DEF Granted
  <2> QED
    BY <1>2, <1>3, <2>1, SavedGranted
<1>4. ASSUME NEW c \in Controller, Holds(c)
      PROVE  (lock' = {} => Settled(config)') /\ \A b \in lock' : Saves(b)'
  <2>1. faults = 0
    BY <1>1, <1>4, FaultFree DEF Holds
  <2> QED
    BY <1>1, <1>2, <1>4, <2>1, SavedHolds DEF Holds
<1>5. ASSUME NEW d \in Daemon, DaemonStep(d) \/ Crash(d)
      PROVE  (lock' = {} => Settled(config)') /\ \A b \in lock' : Saves(b)'
  <2>1. faults' = faults \/ Fault
    BY <1>1, <1>5, BaseFacts, OwnMoves DEF DaemonStep, NoFault
  <2>2. faults = 0
    BY <1>1, <2>1, FaultLess
  <2> QED
    BY <1>1, <1>2, <1>5, <2>2, SavedOwn
<1>6. CASE Passive
  <2>1. faults = 0
    BY <1>6 DEF Passive
  <2> QED
    BY <1>1, <1>2, <1>6, <2>1, SavedPassive
<1> QED
  BY <1>3, <1>4, <1>5, <1>6, AloneStep

-----------------------------------------------------------------------------
(* The pid file and the rules, as long as nothing fails, crashes or is killed.*)

Kept == {"recorded", "run", "closed"}
\* The four parts of Named, for the holders of the lock in L.
Naming ==
  /\ pidfile # None => proc[pidfile].state \in Kept
  /\ fw # None => \E d \in Daemon : proc[d].state \in {"run", "closed", "cleanup"}
Calling(c) ==
  /\ Now(c) = "fw_bypass" => \E d \in Daemon : Serves(d)
  /\ Now(c) # "fw_restore"

\* Named in these terms.
LEMMA NamedIs == Named <=> (Alone /\ ~forced => Naming /\ \A c \in lock : Calling(c))
BY DEF Named, Naming, Calling, Kept

\* The steps of others leave the pid file, the rules and their forwarder.
LEMMA NamedPassive ==
  ASSUME Base, Passive, Naming, \A c \in lock : Calling(c)
  PROVE  Naming' /\ \A c \in lock' : Calling(c)'
<1>1. lock' = lock /\ pidfile' = pidfile /\ fw' = fw /\ pidfile \in Daemon \cup {None}
  BY BaseFacts DEF Passive, Disk
<1>2. \A d \in Daemon : /\ Serves(d) => Serves(d)'
                        /\ Alive(d) => proc'[d].state = proc[d].state
  BY PassiveIs
<1>3. \A d \in Daemon : proc[d].state \in Kept \cup {"cleanup"} => Alive(d)
  BY DEF Alive, Kept, Execed
<1>4. \A c \in lock : Now(c)' = Now(c)
  BY PassiveIs
<1>5. Naming'
  BY <1>1, <1>2, <1>3 DEF Naming, Kept
<1>6. ASSUME NEW c \in lock PROVE Calling(c)'
  <2>1. Calling(c)
    OBVIOUS
  <2> QED
    BY <1>2, <1>4, <2>1 DEF Calling
<1> QED
  BY <1>1, <1>5, <1>6

\* The next holder of the lock is not in the middle of fp_set_bypass.
LEMMA NamedGranted ==
  ASSUME NEW c \in Controller, Granted(c), Naming
  PROVE  Naming' /\ \A b \in lock' : Calling(b)'
<1>1. Naming'
  BY DEF Granted, Naming
<1>2. Calling(c)'
  BY DEF Granted, Calling
<1> QED
  BY <1>1, <1>2 DEF Granted

\* The forwarder moves: its rules go when it goes.
LEMMA NamedOwn ==
  ASSUME Base, Single, Naming, \A c \in lock : Calling(c),
         NEW d \in Daemon, DaemonStep(d) \/ Crash(d), ~forced'
  PROVE  Naming' /\ \A c \in lock' : Calling(c)'
<1>1. /\ Procs /\ Typed /\ lock \subseteq Controller /\ lock' = lock /\ calls' = calls
      /\ pidfile \in Daemon \cup {None} /\ None \notin Daemon
  BY BaseFacts, TypedForwarder DEF OnlyForwarders, Disk
<1>2. Alive(d) /\ \A e \in Daemon : Alive(e) => e = d
  BY <1>1, OwnAlive DEF Single
<1>3. \A c \in lock : Now(c)' = Now(c)
  BY <1>1, SameStack
<1>4. ~Fault /\ ~Crash(d)
  BY <1>1, OwnMoves DEF Fault
<1>5. ~Serves(d)
  BY <1>1, <1>4, OwnMoves DEF DaemonStep, Serves
<1>6. \A c \in lock : Calling(c)'
  <2>1. ASSUME NEW c \in lock PROVE Calling(c)'
    <3>1. Calling(c) /\ \A e \in Daemon : ~Serves(e)
      BY <1>2, <1>5 DEF Serves, Alive, Execed
    <3> QED
      BY <1>3, <3>1 DEF Calling
  <2> QED
    BY <2>1
<1>7. pidfile # None => pidfile = d /\ proc[d].state \in Kept
  BY <1>1, <1>2 DEF Naming, Alive, Kept, Execed
<1>8. fw # None => proc[d].state \in {"run", "closed", "cleanup"}
  BY <1>2 DEF Naming, Alive, Execed
<1>9. /\ pidfile' # None => pidfile' = d /\ proc'[d].state \in Kept
      /\ fw' # None => proc'[d].state \in {"run", "closed", "cleanup"}
  <2>1. CASE Exec(d) \/ LoadConfig(d) \/ Bind(d)
    <3>1. proc[d].state \in {"forked", "init", "loaded"} /\ UNCHANGED <<pidfile, fw>>
      BY <1>1, <2>1, OwnMoves
    <3> QED
      BY <1>7, <1>8, <3>1 DEF Kept
  <2>2. CASE WritePid(d)
    <3>1. /\ proc[d].state = "bound" /\ pidfile' = d /\ fw' = fw
          /\ proc'[d].state = "recorded"
      BY <1>1, <2>2, OwnMoves DEF Turned
    <3> QED
      BY <1>8, <3>1 DEF Kept
  <2>3. CASE Install(d) \/ CloseListener(d)
    <3>1. /\ proc[d].state \in {"recorded", "run"} /\ pidfile' = pidfile
          /\ proc'[d].state \in {"run", "closed"}
      BY <1>1, <2>3, OwnMoves DEF Turned
    <3> QED
      BY <1>7, <3>1 DEF Kept
  <2>4. CASE StartFails(d)
    BY <1>1, <1>4, <2>4, OwnMoves
  <2>5. CASE RemovePid(d)
    <3>1. pidfile' = None /\ proc'[d].state = "cleanup"
      BY <1>1, <2>5, OwnMoves DEF Turned
    <3> QED
      BY <3>1
  <2>6. CASE Exit(d)
    <3>1. proc[d].state = "cleanup" /\ pidfile' = pidfile /\ fw' = None
      BY <1>1, <1>4, <2>6, OwnMoves
    <3> QED
      BY <1>7, <3>1 DEF Kept
  <2> QED
    BY <1>4, <2>1, <2>2, <2>3, <2>4, <2>5, <2>6 DEF DaemonStep
<1>10. Naming'
  BY <1>9 DEF Naming
<1> QED
  BY <1>1, <1>6, <1>10

\* What a controller does to the pid file and to the rules.
LEMMA RulesOf ==
  ASSUME NEW c \in Controller, ControllerStep(c)
  PROVE  /\ pidfile' \in {pidfile, None}
         /\ fw' \in {fw, None} \/ FirewallBypass(c) \/ FirewallRestore(c)
<1>1. pidfile' \in {pidfile, None}
  BY DEF ControllerStep, OpenLock, Acquire, RemoveLock, RemoveBinary,
     Release, LoadEnable, RejectProxy, LoadSaved, Activate, Replace, Started,
     AfterEnable, ReportFailure, LoadBypass, FirewallBypass, FirewallRestore, FirewallOff,
     UnitStopBegin, UnitStopDone, UnitRemove, UninstallFirewall, UninstallRetry, RemoveFiles,
     StopDaemon, SendTerm, WaitGone, WaitTimeout, KillGone, Sweep, ScanDone, StartDaemon,
     Spawn, SpawnFails, AwaitReady, AwaitFails, Reap, ScanEntry, PortReleased, PortBusy,
     diskVars, hostVars
<1>2. fw' \in {fw, None} \/ FirewallBypass(c) \/ FirewallRestore(c)
  BY DEF ControllerStep, OpenLock, Acquire, RemoveLock, RemoveBinary,
     Release, LoadEnable, RejectProxy, LoadSaved, Activate, Replace, Started,
     AfterEnable, ReportFailure, LoadBypass, FirewallOff,
     UnitStopBegin, UnitStopDone, UnitRemove, UninstallFirewall, UninstallRetry, RemoveFiles,
     StopDaemon, SendTerm, WaitGone, WaitTimeout, KillGone, Sweep, ScanDone, StartDaemon,
     Spawn, SpawnFails, AwaitReady, AwaitFails, Reap, ScanEntry, PortReleased, PortBusy,
     diskVars, hostVars
<1> QED
  BY <1>1, <1>2

\* Only fp_set_bypass comes to its own statements.
LEMMA FirstOf ==
  ASSUME NEW o, NEW s \in Seq(Statements), Within(s, Of(o)), s # <<>>
  PROVE  Head(s) \in Of(o)
<1>1. Head(s) = s[1] /\ 1 \in 1 .. Len(s)
  BY TailOf
<1> QED
  BY <1>1 DEF Within

\* Only fp_set_bypass comes to its own statements.
LEMMA BypassFlow ==
  ASSUME TypeOK, Stacks, NEW c \in Controller, ControllerStep(c),
         Now(c) \notin Outside \cup {"idle"},
         ~LoadBypass(c), ~FirewallBypass(c), ~FirewallRestore(c)
  PROVE  Now(c)' \notin {"fw_bypass", "fw_restore"}
<1>1. /\ \A s : At(c, s) => Now(c) = s
      /\ Now(c) \in Of(op[c])
      /\ op[c] \in {"enable", "saved", "bypass", "disable", "uninstall"}
  BY HeadOf, OpOf
<1>2. PICK s, v : Goes(c, s, v)
  BY StackStep DEF Turns
<1>3. CASE op[c] = "bypass"
  <2>1. Now(c) \in {"unlock", "load_bypass", "fw_bypass", "fw_restore"}
    BY <1>1, <1>3 DEF Of, Outside
  <2>2. Release(c)
    BY <1>1, <2>1 DEF ControllerStep, OpenLock, Acquire, RemoveLock, RemoveBinary, LoadEnable,
       RejectProxy, LoadSaved, Activate, Replace, Started, AfterEnable, ReportFailure, FirewallOff,
       UnitStopBegin, UnitStopDone, UnitRemove, UninstallFirewall, UninstallRetry, RemoveFiles,
       StopDaemon, SendTerm, WaitGone, WaitTimeout, KillGone, Sweep, ScanDone, StartDaemon,
       Spawn, SpawnFails, AwaitReady, AwaitFails, Reap, ScanEntry, PortReleased, PortBusy
  <2>3. Now(c) = "unlock" /\ Then(c, <<>>, ret[c])
    BY <1>1, <2>2 DEF Release
  <2> QED
    BY <2>3, Pops DEF Goes
<1>4. CASE op[c] # "bypass"
  <2>1. calls'[c] \in Seq(Statements) /\ Within(calls'[c], Of(op[c]))
    BY <1>2 DEF Goes
  <2>2. calls'[c] # <<>> => Head(calls'[c]) \in Of(op[c])
    BY <2>1, FirstOf
  <2>3. {"fw_bypass", "fw_restore"} \cap Of(op[c]) = {}
    BY <1>1, <1>4 DEF Of, Stopping, Starting
  <2> QED
    BY <2>2, <2>3 DEF Now
<1> QED
  BY <1>3, <1>4

\* The holder of the lock runs on.
LEMMA NamedHolds ==
  ASSUME Ground, Alone, Single, NEW c \in Controller, Holds(c), Knows(c), Naming, Calling(c),
         ~forced, ~forced'
  PROVE  Naming' /\ \A b \in lock' : Calling(b)'
<1>1. /\ c \in lock /\ lock = {c} /\ ControllerStep(c)
      /\ lock' = {c} \/ lock' = {}
  BY DEF Holds
<1>2. /\ \A s : At(c, s) => Now(c) = s
      /\ Base /\ TypeOK /\ Stacks /\ Procs /\ Aimed(c) /\ Now(c) \notin Outside \cup {"idle"}
      /\ pidfile \in Daemon \cup {None} /\ None \notin Daemon
      /\ \A d \in Daemon : Alive(d) => proc[d].parent # Systemd
  <2>1. \A d \in Daemon : Alive(d) => proc[d].parent # Systemd
    BY DEF Ground, Parents, Alone, Alive, Execed
  <2> QED
    BY <1>1, <2>1, HolderFacts, BaseFacts DEF TypeOK
<1>3. ~Fault
  BY DEF Fault

\* A forwarder that the pid file names, or that will take the rules away, stays.
<1>4. ASSUME NEW e \in Daemon, proc[e].state \in Handled
      PROVE  proc'[e].state = proc[e].state
  <2>1. Alive(e)
    BY <1>4 DEF Handled, Alive, Execed
  <2>2. \/ UNCHANGED <<proc, listener>>
        \/ Now(c) = "term" /\ Terminate(target[c])
        \/ /\ Now(c) \in {"wait", "reap"} /\ proc[target[c]].state = "zombie"
           /\ proc' = [proc EXCEPT ![target[c]] = NoProcess]
        \/ \E d \in Daemon : Spawn(c, d)
    <3>1. ASSUME NEW d \in Daemon, proc[d].parent = Systemd, Terminate(d)
          PROVE  UNCHANGED <<proc, listener>>
      BY <1>2, <3>1 DEF Terminate, Alive, Handled, Execed
    <3> QED
      BY <1>1, <1>2, <3>1, DeedOf DEF Deed
  <2>3. CASE Now(c) = "term" /\ Terminate(target[c])
    <3>1. PICK d \in Daemon : d = target[c]
      BY <1>2, <2>3 DEF Aimed
    <3>2. \/ Told(d)
          \/ Gone(d) /\ proc[d].state \notin Handled
          \/ proc' = proc
      BY <1>2, <2>3, <3>1, SignalOf
    <3>3. CASE Told(d)
      <4>1. proc'[d].state = proc[d].state /\ \A g \in Daemon \ {d} : proc'[g] = proc[g]
        BY <1>2, <3>3, ToldIs DEF Told
      <4> QED
        BY <4>1
    <3>4. CASE Gone(d) /\ proc[d].state \notin Handled
      BY <1>4, <3>4 DEF Gone
    <3> QED
      BY <3>2, <3>3, <3>4
  <2>4. CASE /\ Now(c) \in {"wait", "reap"} /\ proc[target[c]].state = "zombie"
             /\ proc' = [proc EXCEPT ![target[c]] = NoProcess]
    <3>1. target[c] # e
      BY <1>4, <2>4 DEF Handled
    <3> QED
      BY <1>2, <2>4, <3>1 DEF Procs
  <2>5. ASSUME NEW d \in Daemon, Spawn(c, d) PROVE proc'[e] = proc[e]
    <3>1. proc[d].state = "none" /\ proc' = [proc EXCEPT ![d] = proc'[d]]
      BY <1>2, <2>5 DEF Spawn, NewProcess, Procs
    <3>2. d # e
      BY <1>4, <3>1 DEF Handled
    <3> QED
      BY <1>2, <3>1, <3>2 DEF Procs
  <2> QED
    BY <2>2, <2>3, <2>4, <2>5
<1>5. pidfile' # None => proc'[pidfile'].state \in Kept
  <2>1. pidfile' # None => pidfile' = pidfile /\ pidfile \in Daemon
    BY <1>1, <1>2, RulesOf
  <2>2. pidfile' # None => proc[pidfile].state \in Kept
    BY <2>1 DEF Naming
  <2> QED
    BY <1>4, <2>1, <2>2 DEF Kept, Handled
<1>6. fw' # None => \E d \in Daemon : proc'[d].state \in {"run", "closed", "cleanup"}
  <2>1. ~FirewallRestore(c)
    BY <1>2 DEF FirewallRestore, Calling
  <2>2. CASE FirewallBypass(c)
    <3>1. \E d \in Daemon : Serves(d)
      BY <1>2, <2>2 DEF FirewallBypass, Calling
    <3> QED
      BY <1>4, <3>1 DEF Serves, Handled
  <2>3. CASE fw' \in {fw, None}
    <3>1. fw' # None => \E d \in Daemon : proc[d].state \in {"run", "closed", "cleanup"}
      BY <2>3 DEF Naming
    <3> QED
      BY <1>4, <3>1 DEF Handled
  <2> QED
    BY <1>1, <2>1, <2>2, <2>3, RulesOf
<1>7. Calling(c)'
  <2>1. CASE LoadBypass(c)
    <3>1. /\ Now(c) = "load_bypass" /\ proc' = proc
          /\ Now(c)' = "unlock" \/ (Now(c)' = "fw_bypass" /\ Recorded)
      BY <1>2, <1>3, <2>1, FlowConfig DEF To, Left, LoadBypass
    <3>2. Recorded => Serves(pidfile)
      <4>1. Recorded => pidfile \in Daemon /\ Alive(pidfile)
        BY <1>2 DEF Recorded, Naming, Kept, Alive, Execed
      <4>2. Recorded => Detached(pidfile)
        BY <1>1, <3>1, <4>1 DEF Single
      <4>3. Recorded => proc[pidfile].state # "cleanup"
        BY <1>2 DEF Recorded, Naming, Kept
      <4> QED
        BY <4>1, <4>2, <4>3 DEF Detached, Serves, Ground, Signalled
    <3>3. Recorded => \E d \in Daemon : Serves(d)'
      BY <1>2, <3>1, <3>2 DEF Recorded, Serves
    <3> QED
      BY <3>1, <3>3 DEF Calling
  <2>2. CASE FirewallBypass(c)
    BY <1>2, <1>3, <2>2, FlowConfig DEF To, Calling
  <2>3. CASE ~LoadBypass(c) /\ ~FirewallBypass(c)
    <3>1. ~FirewallRestore(c)
      BY <1>2 DEF FirewallRestore, Calling
    <3>2. Now(c)' \notin {"fw_bypass", "fw_restore"}
      BY <1>1, <1>2, <2>3, <3>1, BypassFlow
    <3> QED
      BY <3>2 DEF Calling
  <2> QED
    BY <2>1, <2>2, <2>3
<1> QED
  BY <1>1, <1>5, <1>6, <1>7 DEF Naming

\* Named is inductive.
LEMMA NamedNext ==
  ASSUME Ground, Base', Known, Named, [Next]_vars
  PROVE  Named'
<1> SUFFICES ASSUME Alone', ~forced'
             PROVE  Naming' /\ \A c \in lock' : Calling(c)'
  BY DEF Named, Naming, Calling, Kept
<1>1. /\ Alone /\ Single /\ Base /\ Procs /\ \A c \in lock : Knows(c)
      /\ ~forced => Naming /\ \A c \in lock : Calling(c)
  BY AloneStep, NamedIs, BaseFacts DEF Known, Ground
<1>2. CASE Passive
  <2>1. ~forced
    BY <1>2 DEF Passive
  <2> QED
    BY <1>1, <1>2, <2>1, NamedPassive
<1>3. ASSUME NEW c \in Controller, Granted(c)
      PROVE  Naming' /\ \A b \in lock' : Calling(b)'
  <2>1. forced' = forced
    BY <1>3 DEF Granted
  <2>2. ~forced
    BY <2>1, Zenon
  <2> QED
    BY <1>1, <1>3, <2>2, NamedGranted
<1>4. ASSUME NEW c \in Controller, Holds(c)
      PROVE  Naming' /\ \A b \in lock' : Calling(b)'
  <2>1. forced' \in {forced, TRUE}
    BY <1>1, <1>4, BaseFacts, DeedOf DEF Holds
  <2>2. ~forced
    BY <2>1, Zenon
  <2> QED
    BY <1>1, <1>4, <2>2, NamedHolds DEF Holds
<1>5. ASSUME NEW d \in Daemon, DaemonStep(d) \/ Crash(d)
      PROVE  Naming' /\ \A b \in lock' : Calling(b)'
  <2>1. forced' \in {forced, TRUE}
    BY <1>1, <1>5, OwnAlive
  <2>2. ~forced
    BY <2>1, Zenon
  <2> QED
    BY <1>1, <1>5, <2>2, NamedOwn
<1> QED
  BY <1>2, <1>3, <1>4, <1>5, AloneStep

-----------------------------------------------------------------------------
(* What fp_enable_proxy comes back to, and what fp_uninstall has not failed  *)
(* in.                                                                       *)

Body == {"lock", "flock", "load_enable"} \cup Stopping \cup Starting

\* A statement further down a stack stays on it.
LEMMA Carried ==
  ASSUME TypeOK, NEW c \in Controller, calls[c] # <<>>, NEW u \in Seq(Statements), NEW v,
         Then(c, u, v), NEW x, x # Now(c), Has(calls[c], x)
  PROVE  Has(calls'[c], x)
<1> DEFINE t == Tail(calls[c])
<1>1. /\ calls[c] \in Seq(Statements) /\ Now(c) = calls[c][1]
      /\ t \in Seq(Statements) /\ Len(calls[c]) \in Nat \ {0} /\ Len(t) = Len(calls[c]) - 1
      /\ \A k \in 1 .. Len(calls[c]) - 1 : t[k] = calls[c][k + 1]
  BY TailOf DEF TypeOK, Now
<1>2. PICK k \in 1 .. Len(calls[c]) : calls[c][k] = x
  BY DEF Has
<1>3. k # 1
  BY <1>1, <1>2
<1>4. PICK j \in 1 .. Len(t) : k = j + 1
  BY <1>1, <1>2, <1>3
<1>5. t[j] = x
  BY <1>1, <1>2, <1>4
<1>6. calls'[c] = u \o t
  BY DEF Then, TypeOK
<1> HIDE DEF t
<1>7. /\ Len(u) \in Nat /\ Len(t) \in Nat /\ Len(u \o t) = Len(u) + Len(t)
      /\ (u \o t)[Len(u) + j] = t[j]
  <2>1. Len(u) \in Nat /\ Len(t) \in Nat /\ t \in Seq(Statements)
    BY <1>1
  <2>2. ASSUME NEW S, NEW v1 \in Seq(S), NEW v2 \in Seq(S)
        PROVE  /\ Len(v1 \o v2) = Len(v1) + Len(v2)
               /\ \A i \in 1 .. Len(v2) : (v1 \o v2)[Len(v1) + i] = v2[i]
    BY ConcatOf
  <2>3. /\ Len(u \o t) = Len(u) + Len(t)
        /\ \A i \in 1 .. Len(t) : (u \o t)[Len(u) + i] = t[i]
    BY <2>1, <2>2
  <2> QED
    BY <1>4, <2>1, <2>3
<1>8. Len(u) + j \in 1 .. Len(u \o t)
  BY <1>7
<1> QED
  BY <1>5, <1>6, <1>7, <1>8 DEF Has

\* Statements that fp_enable_proxy does not leave by a goto only call and return.
LEMMA BodyStep ==
  ASSUME TypeOK, Stacks, NEW c \in Controller, ControllerStep(c), Now(c) \in Body,
         Now(c)' \notin {"idle", "unlock"}
  PROVE  \E u \in Seq(Statements), v \in {"ok", "fail"} : Then(c, u, v)
<1>1. /\ \A s : At(c, s) => Now(c) = s
      /\ Now(c) \in {"lock", "flock", "load_enable"} \cup Stopping \cup Starting
      /\ ret[c] \in {"ok", "fail"}
  BY HeadOf DEF Body, TypeOK
<1>2. \A v : ~Leave(c, v)
  BY Leaves DEF Goes
<1>3. calls' # [calls EXCEPT ![c] = <<>>]
  BY DEF TypeOK, Now
<1>4. <<>> \in Seq(Statements) /\ <<"flock">> \in Seq(Statements)
  BY DEF Statements
<1>5. CASE OpenLock(c) \/ Acquire(c) \/ LoadEnable(c) \/ RejectProxy(c)
  BY <1>2, <1>3, <1>4, <1>5 DEF OpenLock, Acquire, LoadEnable, RejectProxy
<1>6. CASE \/ Replace(c) \/ Started(c) \/ SpawnFails(c) \/ AwaitReady(c) \/ Reap(c)
  <2>1. <<"start", "started">> \in Seq(Statements)
    BY DEF Statements
  <2> QED
    BY <1>4, <1>6, <2>1 DEF Replace, Started, SpawnFails, AwaitReady, Reap
<1>7. CASE AwaitFails(c) \/ \E d \in Daemon : Spawn(c, d)
  <2>1. <<"reap">> \in Seq(Statements) /\ <<"await">> \in Seq(Statements)
    BY DEF Statements
  <2> QED
    BY <1>7, <2>1 DEF AwaitFails, Spawn
<1>8. CASE Activate(c)
  <2>1. <<"stop", "replace">> \in Seq(Statements) /\ <<"replace">> \in Seq(Statements)
    BY DEF Statements
  <2>2. \/ Then(c, <<>>, "ok") \/ Then(c, <<"stop", "replace">>, "ok")
        \/ Then(c, <<"replace">>, "ok")
    BY <1>8, StopReplace DEF Activate
  <2> QED
    BY <1>4, <2>1, <2>2
<1>9. CASE StartDaemon(c)
  <2>1. /\ <<"stop", "spawn">> \in Seq(Statements)
        /\ <<"sweep", "scan", "spawn">> \in Seq(Statements)
    BY DEF Statements
  <2> QED
    BY <1>4, <1>9, <2>1 DEF StartDaemon
<1>10. CASE StopDaemon(c) \/ SendTerm(c) \/ WaitTimeout(c)
  <2>1. /\ <<"term", "sweep", "scan", "port">> \in Seq(Statements)
        /\ <<"sweep", "scan", "port">> \in Seq(Statements)
        /\ <<"wait">> \in Seq(Statements) /\ <<"killed">> \in Seq(Statements)
    BY DEF Statements
  <2> QED
    BY <1>10, <2>1 DEF StopDaemon, SendTerm, WaitTimeout
<1>11. CASE WaitGone(c) \/ KillGone(c) \/ Sweep(c) \/ ScanDone(c)
  BY <1>1, <1>4, <1>11 DEF WaitGone, KillGone, Sweep, ScanDone
<1>12. ASSUME NEW d \in Daemon, ScanEntry(c, d) PROVE \E u \in Seq(Statements), v \in {"ok", "fail"} : Then(c, u, v)
  <2>1. <<"term", "scan">> \in Seq(Statements) /\ <<"scan">> \in Seq(Statements)
    BY DEF Statements
  <2> QED
    BY <1>12, <2>1 DEF ScanEntry
<1>13. ASSUME NEW s \in {"port", "port_again"}, PortReleased(c, s) \/ PortBusy(c, s)
       PROVE  \E u \in Seq(Statements), v \in {"ok", "fail"} : Then(c, u, v)
  <2>1. <<"sweep", "scan", "port_again">> \in Seq(Statements)
    BY DEF Statements
  <2> QED
    BY <1>1, <1>4, <1>13, <2>1 DEF PortReleased, PortBusy
<1>14. ~ \/ Release(c) \/ LoadSaved(c) \/ AfterEnable(c) \/ ReportFailure(c) \/ LoadBypass(c)
         \/ FirewallBypass(c) \/ FirewallRestore(c) \/ FirewallOff(c) \/ UnitStopBegin(c)
         \/ UnitStopDone(c) \/ UnitRemove(c) \/ UninstallFirewall(c) \/ UninstallRetry(c)
         \/ RemoveFiles(c) \/ RemoveLock(c) \/ RemoveBinary(c)
  BY <1>1 DEF Stopping, Starting, Release, LoadSaved, AfterEnable, ReportFailure, LoadBypass,
     FirewallBypass, FirewallRestore, FirewallOff, UnitStopBegin, UnitStopDone, UnitRemove,
     UninstallFirewall, UninstallRetry, RemoveFiles, RemoveLock, RemoveBinary
<1> QED
  BY <1>5, <1>6, <1>7, <1>8, <1>9, <1>10, <1>11, <1>12, <1>13, <1>14 DEF ControllerStep

\* fp_enable_proxy comes back to its rollback, or is in it.
LEMMA EndingNext ==
  ASSUME Base, Base', Ending, Next
  PROVE  Ending'
<1> SUFFICES ASSUME NEW b \in Controller, Now(b)' \in Body, op'[b] = "enable"
             PROVE  Has(calls'[b], "after_enable") \/ Rolling(b)'
  BY DEF Ending, Body
<1>1. TypeOK /\ Stacks /\ Typed /\ TypeOK' /\ Stacks'
  BY BaseFacts DEF Base
<1>2. ASSUME calls'[b] = calls[b], op'[b] = op[b]
      PROVE  Has(calls'[b], "after_enable") \/ Rolling(b)'
  BY <1>2, SameStack DEF Ending, Body
<1>3. ASSUME ControllerStep(b)
      PROVE  Has(calls'[b], "after_enable") \/ Rolling(b)'
  <2>1. /\ op' = op /\ Now(b) # "idle" /\ \A s : At(b, s) => Now(b) = s
        /\ calls[b] # <<>> /\ Now(b) \in Of("enable")
        /\ Now(b)' \notin {"idle", "unlock", "remove_lock", "remove_binary"}
    BY <1>1, <1>3, HeadOf, LockFrame DEF Body, Stopping, Starting
  <2>2. CASE Now(b) \in Body
    <3>1. Has(calls[b], "after_enable") \/ Has(calls[b], "report_failure")
      BY <2>1, <2>2 DEF Ending, Body, Rolling
    <3>2. Now(b) \notin {"after_enable", "report_failure"}
      BY <2>2 DEF Body, Stopping, Starting
    <3>3. PICK u \in Seq(Statements), v \in {"ok", "fail"} : Then(b, u, v)
      BY <1>1, <1>3, <2>1, <2>2, BodyStep
    <3> QED
      BY <1>1, <2>1, <3>1, <3>2, <3>3, Carried DEF Rolling
  <2>3. CASE Now(b) \notin Body
    <3>1. Now(b) \in {"unlock", "after_enable", "report_failure"}
      BY <2>1, <2>3 DEF Body, Of
    <3>2. ~ \/ OpenLock(b) \/ Acquire(b) \/ RemoveLock(b) \/ RemoveBinary(b) \/ LoadEnable(b)
             \/ RejectProxy(b) \/ LoadSaved(b) \/ Activate(b) \/ Replace(b) \/ Started(b)
             \/ LoadBypass(b) \/ FirewallBypass(b) \/ FirewallRestore(b) \/ FirewallOff(b)
             \/ UnitStopBegin(b) \/ UnitStopDone(b) \/ UnitRemove(b) \/ UninstallFirewall(b)
             \/ UninstallRetry(b) \/ RemoveFiles(b) \/ StopDaemon(b) \/ SendTerm(b)
             \/ WaitGone(b) \/ WaitTimeout(b) \/ KillGone(b) \/ Sweep(b) \/ ScanDone(b)
             \/ StartDaemon(b) \/ SpawnFails(b) \/ AwaitReady(b) \/ AwaitFails(b) \/ Reap(b)
             \/ (\E d \in Daemon : Spawn(b, d) \/ ScanEntry(b, d))
             \/ (\E s \in {"port", "port_again"} : PortReleased(b, s) \/ PortBusy(b, s))
      BY <2>1, <3>1 DEF OpenLock, Acquire, RemoveLock, RemoveBinary, LoadEnable,
         RejectProxy, LoadSaved, Activate, Replace, Started, LoadBypass, FirewallBypass,
         FirewallRestore, FirewallOff, UnitStopBegin, UnitStopDone, UnitRemove, UninstallFirewall,
         UninstallRetry, RemoveFiles, StopDaemon, SendTerm, WaitGone, WaitTimeout, KillGone, Sweep,
         ScanDone, StartDaemon, Spawn, SpawnFails, AwaitReady, AwaitFails, Reap, ScanEntry,
         PortReleased, PortBusy
    <3>3. CASE Release(b)
      BY <1>1, <2>1, <3>3, Pops DEF Release, Goes
    <3>4. CASE AfterEnable(b) \/ ReportFailure(b)
      BY <1>1, <2>1, <3>4, FlowConfig DEF To
    <3> QED
      BY <1>3, <3>2, <3>3, <3>4 DEF ControllerStep
  <2> QED
    BY <2>2, <2>3
<1>4. ASSUME NEW c \in Controller \ {b}, ControllerStep(c)
      PROVE  calls'[b] = calls[b] /\ op'[b] = op[b]
  <2>1. PICK s, v : Goes(c, s, v) /\ op' = op
    BY <1>1, <1>4, StackStep DEF Turns
  <2>2. b \in Controller \ {c}
    BY <1>4
  <2> QED
    BY <1>1, <2>1, <2>2, ToOf
<1>5. ASSUME NEW o \in Ops, Begin(b, o)
      PROVE  Has(calls'[b], "after_enable")
  <2>1. calls'[b] = Program(o) /\ op'[b] = o
    BY <1>1, <1>5 DEF Begin, TypeOK
  <2>2. calls'[b] = <<"lock", "load_enable", "activate", "after_enable", "unlock">>
    BY <2>1 DEF Program
  <2> QED
    BY <2>2 DEF Has
<1>6. ASSUME NEW c \in Controller \ {b}, NEW o \in Ops, Begin(c, o)
      PROVE  calls'[b] = calls[b] /\ op'[b] = op[b]
  BY <1>1, <1>6 DEF Begin, TypeOK
<1>7. ASSUME NEW c \in Controller, Quit(c)
      PROVE  calls'[b] = calls[b] /\ op'[b] = op[b]
  BY <1>7 DEF Quit, localVars
<1>8. ASSUME NEW d \in Daemon, DaemonStep(d) \/ Crash(d) \/ UnitStart(d) \/ UnitStop(d)
      PROVE  calls'[b] = calls[b] /\ op'[b] = op[b]
  BY <1>1, <1>8, TypedForwarder DEF OnlyForwarders, localVars
<1> QED
  BY <1>2, <1>3, <1>4, <1>5, <1>6, <1>7, <1>8 DEF Next

\* fp_firewall_disable fails in fp_uninstall only when something fails.
LEMMA UnfailedNext ==
  ASSUME Base, Unfailed, Next
  PROVE  Unfailed'
<1> SUFFICES ASSUME faults' = 0, NEW b \in Controller
             PROVE  "firewall" \notin bad'[b]
  BY DEF Unfailed
<1>1. /\ TypeOK /\ Stacks /\ Typed /\ bad \in [Controller -> SUBSET {"service", "stop", "firewall"}]
      /\ ~Fault /\ (NoFault => faults = 0)
  BY BaseFacts, FaultLess DEF Base, TypeOK
<1>2. ASSUME NEW c \in Controller, ControllerStep(c) PROVE "firewall" \notin bad'[b]
  <2>1. "firewall" \notin bad[b] /\ "firewall" \notin bad[c]
    BY <1>2, FaultFree DEF Unfailed
  <2>2. CASE \/ Release(c) \/ UnitRemove(c) \/ UninstallFirewall(c)
    BY <1>1, <2>1, <2>2 DEF Release, UnitRemove, UninstallFirewall
  <2>3. CASE UninstallRetry(c)
    <3> DEFINE left == bad[c] \cup (IF ret[c] = "fail" THEN {"stop"} ELSE {})
    <3>1. "firewall" \notin left
      BY <2>1
    <3>2. bad' = [bad EXCEPT ![c] = left]
      BY <2>3, <3>1 DEF UninstallRetry
    <3> QED
      BY <1>1, <2>1, <3>1, <3>2
  <2>4. CASE ~(Release(c) \/ UnitRemove(c) \/ UninstallFirewall(c) \/ UninstallRetry(c))
    <3>1. \/ OpenLock(c) \/ Acquire(c) \/ RemoveLock(c) \/ RemoveBinary(c) \/ LoadEnable(c)
          \/ RejectProxy(c) \/ LoadSaved(c) \/ Activate(c) \/ Replace(c) \/ Started(c)
          \/ AfterEnable(c) \/ ReportFailure(c) \/ LoadBypass(c) \/ FirewallBypass(c)
          \/ FirewallRestore(c) \/ FirewallOff(c) \/ UnitStopBegin(c) \/ UnitStopDone(c)
          \/ RemoveFiles(c)
          => bad' = bad
      BY DEF OpenLock, Acquire, RemoveLock, RemoveBinary,
      LoadEnable, RejectProxy, LoadSaved, Activate, Replace, Started,
      AfterEnable, ReportFailure, LoadBypass, FirewallBypass, FirewallRestore, FirewallOff,
      UnitStopBegin, UnitStopDone, RemoveFiles, localVars
    <3>2. \/ StopDaemon(c) \/ SendTerm(c) \/ WaitGone(c) \/ WaitTimeout(c) \/ KillGone(c)
          \/ Sweep(c) \/ ScanDone(c) \/ StartDaemon(c) \/ SpawnFails(c) \/ AwaitReady(c)
          \/ AwaitFails(c) \/ Reap(c) \/ (\E d \in Daemon : Spawn(c, d) \/ ScanEntry(c, d))
          \/ (\E s \in {"port", "port_again"} : PortReleased(c, s) \/ PortBusy(c, s))
          => bad' = bad
      BY DEF StopDaemon, SendTerm, WaitGone, WaitTimeout, KillGone, Sweep,
      ScanDone, StartDaemon, SpawnFails, AwaitReady, AwaitFails, Reap, ScanEntry, Spawn,
      PortReleased, PortBusy, localVars
    <3>3. bad' = bad
      BY <1>2, <2>4, <3>1, <3>2 DEF ControllerStep
    <3> QED
      BY <2>1, <3>3
  <2> QED
    BY <2>2, <2>3, <2>4
<1>3. ASSUME NEW d \in Daemon, DaemonStep(d) \/ Crash(d) \/ UnitStart(d) \/ UnitStop(d)
      PROVE  "firewall" \notin bad'[b]
  <2>1. bad' = bad
    BY <1>1, <1>3, TypedForwarder DEF OnlyForwarders, localVars
  <2>2. faults' = faults \/ Fault
    BY <1>3 DEF DaemonStep, Crash, UnitStart, UnitStop, Exec, LoadConfig, Bind, WritePid, Install,
       StartFails, CloseListener, RemovePid, Exit, countVars, NoFault
  <2> QED
    BY <1>1, <2>1, <2>2 DEF Unfailed
<1>4. ASSUME NEW c \in Controller, Quit(c) \/ \E o \in Ops : Begin(c, o)
      PROVE  "firewall" \notin bad'[b]
  <2>1. bad' = bad /\ faults' = faults
    BY <1>4 DEF Quit, Begin, localVars, countVars
  <2> QED
    BY <2>1 DEF Unfailed
<1> QED
  BY <1>2, <1>3, <1>4 DEF Next

-----------------------------------------------------------------------------
(* The forwarder behind the rules, as long as nothing fails or crashes:      *)
(* timeouts and kills are allowed.                                           *)

\* A forwarder that nobody waits for serves, and the pid file names it.
LEMMA CrashFree ==
  ASSUME Ground, Single, crashes = 0
  PROVE  /\ \A d \in Daemon : Detached(d) => Serves(d) /\ pidfile = d
         /\ \A c \in lock : lock = {c} /\ Now(c) \notin {"await", "wait", "reap"} =>
              /\ \A d \in Daemon : Alive(d) => Serves(d) /\ pidfile = d
              /\ NoneServes => NoneAlive
<1>1. \A d \in Daemon : Detached(d) => Serves(d)
  BY DEF Ground, Signalled, Detached, Serves
<1>2. \A d \in Daemon : Serves(d) => pidfile = d
  BY DEF Single, Serves
<1>3. ASSUME NEW c \in lock, lock = {c}, Now(c) \notin {"await", "wait", "reap"}
      PROVE  \A d \in Daemon : Alive(d) => Detached(d)
  BY <1>3 DEF Single
<1>4. NoneAlive <=> \A d \in Daemon : ~Alive(d)
  BY DEF NoneAlive
<1>5. NoneServes => \A d \in Daemon : ~Serves(d)
  BY DEF NoneServes, Serves
<1> QED
  BY <1>1, <1>2, <1>3, <1>4, <1>5

\* Nothing moves: what stands behind the rules stays.
LEMMA StandingSame ==
  ASSUME proc' = proc, pidfile' = pidfile, fw' \in {fw, None}, Standing
  PROVE  Standing'
BY DEF Standing, Serves

\* What is asked of a holder of the lock that is where it only has to find things standing.
LEMMA StandsThere ==
  ASSUME NEW c,
         Now(c)' \notin Stopping \cup {"activate", "replace", "fw_bypass", "await"},
         Standing', Now(c)' = "after_enable" => ret'[c] = "ok"
  PROVE  Stands(c)'
BY DEF Stands, Stopping

\* The steps of others leave what stands.
LEMMA StandsPassive ==
  ASSUME Base, Passive, lock = {} => Standing, \A c \in lock : Stands(c)
  PROVE  (lock' = {} => Standing') /\ \A c \in lock' : Stands(c)'
<1>1. /\ UNCHANGED <<lock, fw, pidfile>>
      /\ \A c \in lock : /\ ret'[c] = ret[c] /\ op'[c] = op[c] /\ prev'[c] = prev[c]
                         /\ was'[c] = was[c] /\ target'[c] = target[c]
      /\ \A c \in lock : Aimed(c)
  BY BaseFacts DEF Passive
<1>2. /\ \A d \in Daemon : /\ Serves(d)' <=> Serves(d)
                           /\ proc'[d].ready \in {proc[d].ready, "none"}
      /\ (NoneAlive' <=> NoneAlive) /\ (NoneServes' <=> NoneServes)
      /\ \A c \in lock : Now(c)' = Now(c) /\ (Rolling(c)' <=> Rolling(c))
  BY PassiveIs
<1>3. Standing' <=> Standing
  BY <1>1, <1>2 DEF Standing
<1>4. ASSUME NEW c \in lock PROVE Stands(c)'
  <2>1. /\ Stands(c) /\ (Restores(c)' <=> Restores(c))
        /\ Now(c)' = Now(c) /\ (Rolling(c)' <=> Rolling(c))
        /\ ret'[c] = ret[c] /\ op'[c] = op[c] /\ target'[c] = target[c]
    BY <1>1, <1>2 DEF Restores
  <2>2. Now(c) = "await" /\ proc'[target[c]].ready = "R" => proc'[target[c]].state = "run"
    <3>1. Now(c) = "await" => target[c] \in Daemon
      BY <1>1 DEF Aimed
    <3>2. Now(c) = "await" /\ proc[target[c]].ready = "R" => proc[target[c]].state = "run"
      BY DEF Stands
    <3>3. \A d \in Daemon : proc'[d].ready = "R" /\ proc[d].state = "run" => proc'[d].state = "run"
      BY DEF Passive
    <3>4. \A d \in Daemon : proc'[d].ready = "R" => proc[d].ready = "R"
      BY <1>2
    <3> QED
      BY <3>1, <3>2, <3>3, <3>4
  <2> QED
    BY <1>1, <1>2, <1>3, <2>1, <2>2 DEF Stands
<1> QED
  BY <1>1, <1>3, <1>4

\* The next holder of the lock finds things standing.
LEMMA StandsGranted ==
  ASSUME NEW c \in Controller, Granted(c), lock = {} => Standing
  PROVE  (lock' = {} => Standing') /\ \A b \in lock' : Stands(b)'
<1>1. Standing'
  BY DEF Granted, Standing, Serves
<1>2. Stands(c)'
  BY <1>1 DEF Granted, Stands, Stopping
<1> QED
  BY <1>2 DEF Granted

\* A forwarder moves: one that serves does not, so that its controller waits for it.
LEMMA StandsOwn ==
  ASSUME Ground, Alone, Single, \A c \in lock : Knows(c) /\ Stands(c), crashes = 0,
         NEW d \in Daemon, DaemonStep(d)
  PROVE  (lock' = {} => Standing') /\ \A c \in lock' : Stands(c)'
<1>1. /\ Procs /\ Typed /\ lock \subseteq Controller /\ lock' = lock /\ Base
      /\ UNCHANGED <<calls, ret, op, prev, was, target>>
      /\ \A c \in lock : lock = {c} /\ Aimed(c)
  BY BaseFacts, TypedForwarder, Holder DEF OnlyForwarders, Alone, localVars, Ground
<1>2. Alive(d)
  BY <1>1, OwnAlive
<1>3. ~Serves(d)
  BY <1>1, OwnMoves DEF DaemonStep, Serves
<1>4. PICK c \in lock : Now(c) \in {"await", "wait", "reap"} /\ target[c] = d
  BY <1>2, <1>3, CrashFree DEF Single
<1>5. /\ lock' = {c} /\ Now(c)' = Now(c) /\ (Rolling(c)' <=> Rolling(c))
      /\ (Restores(c)' <=> Restores(c)) /\ op'[c] = op[c] /\ target'[c] = d
  BY <1>1, <1>4, SameStack DEF Restores
<1>6. Now(c) = "await" /\ proc'[d].ready = "R" => proc'[d].state = "run"
  <2> SUFFICES ASSUME Now(c) = "await", proc'[d].ready = "R" PROVE proc'[d].state = "run"
    OBVIOUS
  <2>1. proc[d].ready # "R"
    <3>1. proc[d].ready = "R" => proc[d].state = "run"
      BY <1>4 DEF Stands
    <3>2. ~proc[d].term
      BY <1>4 DEF Knows
    <3> QED
      BY <1>3, <3>1, <3>2 DEF Serves
  <2>2. ~Gone(d)
    BY <1>1, <2>1, GoneIs DEF NoProcess
  <2>3. Install(d)
    BY <1>1, <2>1, <2>2, OwnMoves DEF DaemonStep, Turned
  <2> QED
    BY <1>1, <2>3, OwnMoves DEF Turned
<1>7. Stands(c)'
  <2>1. Stands(c)
    BY <1>4
  <2> QED
    BY <1>4, <1>5, <1>6, <2>1 DEF Stands, Stopping
<1> QED
  BY <1>5, <1>7

\* fp_enable_proxy, fp_enable_saved_proxy, fp_set_bypass and fp_disable_proxy.
LEMMA StandsConfig ==
  ASSUME Ground, Alone, Single, NEW c \in lock, Knows(c), Saves(c), Stands(c), ControllerStep(c),
         faults' = 0, crashes = 0,
         \/ LoadEnable(c) \/ RejectProxy(c) \/ LoadSaved(c) \/ AfterEnable(c) \/ ReportFailure(c)
         \/ LoadBypass(c) \/ FirewallBypass(c) \/ FirewallRestore(c) \/ FirewallOff(c)
  PROVE  Stands(c)'
<1>1. /\ Base /\ TypeOK /\ Stacks /\ lock = {c} /\ c \in Controller /\ op' = op
      /\ ret[c] \in {"ok", "fail"} /\ \A s : At(c, s) => Now(c) = s
      /\ was \in [Controller -> BOOLEAN] /\ prev \in [Controller -> Config \cup {None}]
      /\ Now(c) # "idle" /\ None \notin Daemon
  BY HolderFacts, BaseFacts DEF TypeOK
<1>2. proc' = proc /\ pidfile' = pidfile
  BY DEF LoadEnable, RejectProxy, LoadSaved, AfterEnable, ReportFailure, LoadBypass,
     FirewallBypass, FirewallRestore, FirewallOff, diskVars
<1>3. ~Fault
  BY <1>1, FaultLess
<1> USE DEF To, Left
<1>4. CASE LoadEnable(c)
  <2>1. Now(c) = "load_enable" /\ Now(c)' = "activate"
    BY <1>1, <1>3, <1>4, FlowConfig
  <2>2. prev'[c] = config /\ was'[c] = Recorded
    BY <1>1, <1>4 DEF LoadEnable
  <2>3. ASSUME NEW d \in Daemon, proc[d].state = "run" PROVE Restores(c)'
    <3>1. Serves(d) /\ pidfile = d
      BY <1>1, <2>1, <2>3, CrashFree DEF Alive, Execed
    <3>2. config # None
      BY <2>1, <3>1 DEF Saves, Settled
    <3>3. prev'[c] # None /\ was'[c]
      BY <1>1, <2>2, <3>1, <3>2 DEF Recorded
    <3> QED
      BY <3>3 DEF Restores
  <2>4. NoneServes' \/ Restores(c)'
    BY <1>2, <2>3 DEF NoneServes
  <2> QED
    BY <2>1, <2>4 DEF Stands, Stopping
<1>5. CASE RejectProxy(c) \/ LoadSaved(c) \/ ReportFailure(c)
  <2>1. /\ Now(c) \in {"load_enable", "load_saved", "report_failure"}
        /\ Now(c)' = "unlock" \/ (Now(c)' = "activate" /\ Now(c) = "load_saved")
    BY <1>1, <1>5, FlowConfig
  <2>2. fw' = fw
    BY <1>5 DEF RejectProxy, LoadSaved, ReportFailure
  <2>3. Standing'
    BY <1>2, <2>1, <2>2, StandingSame DEF Stands
  <2>4. CASE Now(c)' = "unlock"
    BY <2>3, <2>4, StandsThere DEF Stopping
  <2>5. CASE Now(c)' = "activate" /\ Now(c) = "load_saved"
    <3>1. op'[c] = "saved"
      BY <1>1, <2>5, OpOf
    <3> QED
      BY <2>5, <3>1 DEF Stands, Stopping
  <2> QED
    BY <2>1, <2>4, <2>5
<1>6. CASE AfterEnable(c)
  <2>1. /\ Now(c) = "after_enable" /\ fw' = fw
        /\ \/ Now(c)' = "activate" /\ Rolling(c)'
           \/ Now(c)' = "unlock" /\ ret[c] = "fail" /\ ~was[c]
           \/ Now(c)' = "unlock" /\ (ret[c] # "fail" \/ prev[c] = None)
    BY <1>1, <1>6, FlowConfig DEF AfterEnable
  <2>2. CASE Now(c)' = "activate" /\ Rolling(c)'
    BY <2>2 DEF Stands, Stopping
  <2>3. CASE Now(c)' = "unlock" /\ ((ret[c] = "fail" /\ ~Restores(c)) \/ ret[c] = "ok")
    <3>1. fw = None \/ Standing
      BY <2>1, <2>3 DEF Stands
    <3>2. Standing
      BY <3>1 DEF Standing
    <3>3. Standing'
      BY <1>2, <2>1, <3>2, StandingSame
    <3> QED
      BY <2>3, <3>3, StandsThere DEF Stopping
  <2> QED
    BY <1>1, <2>1, <2>2, <2>3 DEF Restores
<1>7. CASE LoadBypass(c)
  <2>1. /\ Now(c) = "load_bypass" /\ fw' = fw
        /\ Now(c)' = "unlock" \/ (Now(c)' = "fw_bypass" /\ Recorded)
    BY <1>1, <1>3, <1>7, FlowConfig DEF LoadBypass
  <2>2. Standing'
    BY <1>2, <2>1, StandingSame DEF Stands
  <2>3. CASE Now(c)' = "unlock"
    BY <2>2, <2>3, StandsThere DEF Stopping
  <2>4. CASE Now(c)' = "fw_bypass" /\ Recorded
    BY <1>2, <2>4 DEF Stands, Recorded, Stopping
  <2> QED
    BY <2>1, <2>3, <2>4
<1>8. CASE FirewallBypass(c)
  <2>1. Now(c) = "fw_bypass" /\ Now(c)' = "unlock"
    BY <1>1, <1>3, <1>8, FlowConfig
  <2>2. op[c] = "bypass" /\ op[c] \in Ops
    BY <1>1, <2>1, OpOf, HeadOf
  <2>3. Standing'
    BY <1>2, <2>1, <2>2 DEF Stands, Standing
  <2> QED
    BY <2>1, <2>3, StandsThere DEF Stopping
<1>9. CASE FirewallRestore(c)
  <2>1. Now(c) = "fw_restore"
    BY <1>1, <1>9, FlowConfig
  <2> QED
    BY <2>1 DEF Saves
<1>10. CASE FirewallOff(c)
  <2>1. Now(c)' = "unlock" /\ fw' = None
    BY <1>1, <1>3, <1>10, FlowConfig DEF FirewallOff
  <2> QED
    BY <2>1, StandsThere DEF Standing, Stopping
<1> QED
  BY <1>4, <1>5, <1>6, <1>7, <1>8, <1>9, <1>10

\* A return of fp_enable_proxy's own activate_proxy_locked comes to its rollback.
LEMMA ComesBack ==
  ASSUME Base, Ending, NEW c \in Controller, NEW v, Then(c, <<>>, v),
         Now(c) \in Starting, op[c] = "enable", ~Rolling(c), Now(c)' \in Activated
  PROVE  Now(c)' = "after_enable"
<1>1. TypeOK /\ Stacks /\ Now(c) \notin {"idle", "after_enable", "report_failure"}
  BY BaseFacts DEF Starting
<1>2. Has(calls[c], "after_enable")
  BY DEF Ending
<1>3. Has(calls'[c], "after_enable") /\ ~Has(calls'[c], "report_failure")
  BY <1>1, <1>2, Returns DEF Rolling
<1>4. /\ calls'[c] \in Seq(Statements) /\ Chain(calls'[c])
      /\ calls'[c] # <<>> /\ Head(calls'[c]) = Now(c)'
  <2>1. calls'[c] \in Seq(Statements) /\ Chain(calls'[c])
    BY <1>1, Returns DEF Goes
  <2>2. Now(c)' # "idle"
    BY DEF Activated
  <2> QED
    BY <2>1, <2>2 DEF Now
<1>5. Now(c)' # "report_failure"
  <2>1. Head(calls'[c]) = calls'[c][1] /\ 1 \in 1 .. Len(calls'[c])
    BY <1>4, TailOf
  <2> QED
    BY <1>3, <1>4, <2>1 DEF Has
<1>6. Now(c)' # "unlock"
  BY <1>3, <1>4, LastOf
<1> QED
  BY <1>5, <1>6 DEF Activated

\* activate_proxy_locked and fp_start_daemon.
LEMMA StandsStart ==
  ASSUME Ground, Alone, Single, NEW c \in lock, Knows(c), Readies(c), Saves(c), Stands(c),
         Ending, ControllerStep(c), faults' = 0, crashes = 0,
         \/ Activate(c) \/ Replace(c) \/ Started(c) \/ StartDaemon(c) \/ SpawnFails(c)
         \/ (\E d \in Daemon : Spawn(c, d)) \/ AwaitReady(c) \/ AwaitFails(c) \/ Reap(c)
  PROVE  Stands(c)'
<1>1. /\ Base /\ TypeOK /\ Stacks /\ Procs /\ lock = {c} /\ c \in Controller /\ op' = op
      /\ ret[c] \in {"ok", "fail"} /\ \A s : At(c, s) => Now(c) = s
      /\ Aimed(c) /\ None \notin Daemon /\ pidfile \in Daemon \cup {None}
      /\ target \in [Controller -> Daemon \cup {None}]
      /\ (Rolling(c) => op[c] = "enable") /\ (Rolling(c)' => op[c] = "enable")
  BY HolderFacts, BaseFacts DEF TypeOK
<1>2. prev' = prev /\ was' = was /\ (Restores(c)' <=> Restores(c))
  BY DEF Activate, Replace, Started, StartDaemon, SpawnFails, Spawn, AwaitReady, AwaitFails,
     Reap, localVars, Restores
<1>3. ~Fault
  BY <1>1, FaultLess
<1>4. Now(c) \notin {"await", "wait", "reap"} =>
        /\ \A d \in Daemon : Alive(d) => Serves(d) /\ pidfile = d
        /\ NoneServes => NoneAlive
  BY <1>1, CrashFree
<1> USE DEF To
<1>5. CASE Activate(c)
  <2>1. /\ Now(c) = "activate" /\ proc' = proc /\ fw' = fw /\ pidfile' = pidfile /\ ret'[c] = "ok"
        /\ (Rolling(c)' <=> Rolling(c))
        /\ \/ Now(c)' \in Activated /\ Matches(arg[c])
           \/ Now(c)' = "stop" /\ ~(Matches(arg[c]) /\ IsEnabled(arg[c]))
           \/ Now(c)' = "replace" /\ ~Recorded
    BY <1>1, <1>5, FlowStart DEF Activate, diskVars, Keeps
  <2>2. op[c] \in {"enable", "saved"}
    BY <1>1, <2>1, OpOf DEF Starting
  <2>3. CASE Now(c)' \in Activated /\ Matches(arg[c])
    <3>1. pidfile \in Daemon /\ Alive(pidfile)
      BY <1>1, <2>3 DEF Matches, Recorded, IsOurs, Alive
    <3>2. Standing'
      BY <1>4, <2>1, <3>1 DEF Standing, Serves
    <3> QED
      BY <2>1, <2>3, <3>2, StandsThere DEF Activated, Stopping
  <2>4. CASE Now(c)' \in {"stop", "replace"}
    <3>1. CASE op[c] = "saved"
      <4>1. Settled(config) /\ config = arg[c]
        BY <1>1, <2>1, <3>1 DEF Saves, Readies, Enabling
      <4>2. ASSUME NEW d \in Daemon, Alive(d) PROVE FALSE
        <5>1. Serves(d) /\ pidfile = d
          BY <1>4, <2>1, <4>2
        <5>2. config # None /\ proc[d].cfg.proxy = config.proxy /\ fw = config
          BY <4>1, <5>1 DEF Settled
        <5>3. Recorded /\ Matches(arg[c])
          BY <1>1, <4>1, <5>1, <5>2 DEF Recorded, Matches, IsOurs, Serves, Execed
        <5>4. IsEnabled(arg[c])
          BY <4>1, <5>2 DEF IsEnabled
        <5> QED
          BY <2>1, <2>4, <5>3, <5>4 DEF Activated
      <4>3. NoneAlive'
        BY <2>1, <4>2 DEF NoneAlive, Alive
      <4> QED
        BY <2>1, <2>4, <4>3 DEF Stands, Stopping
    <3>2. CASE op[c] = "enable" /\ ~Rolling(c) /\ Restores(c)
      BY <1>1, <1>2, <2>1, <2>4, <3>2 DEF Stands, Stopping
    <3>3. CASE op[c] = "enable" /\ (Rolling(c) \/ ~Restores(c))
      <4>1. NoneServes
        BY <2>1, <3>3 DEF Knows, Stands
      <4>2. NoneAlive'
        BY <1>4, <2>1, <4>1 DEF NoneAlive, Alive
      <4> QED
        BY <2>1, <2>4, <4>2 DEF Stands, Stopping
    <3> QED
      BY <2>2, <3>1, <3>2, <3>3
  <2> QED
    BY <2>1, <2>3, <2>4
<1>6. CASE Replace(c)
  <2>1. /\ Now(c) = "replace" /\ op[c] \in {"enable", "saved"}
        /\ \/ Now(c)' = "start"
           \/ /\ Now(c)' \in Activated /\ ret[c] = "fail" /\ ret'[c] = "fail"
              /\ Then(c, <<>>, "fail") /\ (Rolling(c)' <=> Rolling(c))
    <3>1. Now(c) = "replace" /\ op[c] \in {"enable", "saved"}
      BY <1>1, <1>6, OpOf DEF Replace, Starting
    <3> QED
      BY <1>1, <1>3, <1>6, <3>1, FlowStart DEF Keeps, Replace
  <2>2. CASE Now(c)' = "start"
    BY <2>2 DEF Stands, Stopping
  <2>3. CASE /\ Now(c)' \in Activated /\ ret[c] = "fail" /\ ret'[c] = "fail"
             /\ Then(c, <<>>, "fail")
    <3>1. op[c] = "enable" /\ ~Rolling(c) /\ Restores(c)
      BY <2>1, <2>3 DEF Stands
    <3>2. Now(c)' = "after_enable"
      BY <1>1, <2>1, <2>3, <3>1, ComesBack DEF Starting
    <3> QED
      BY <1>2, <2>3, <3>1, <3>2 DEF Stands, Stopping
  <2> QED
    BY <2>1, <2>2, <2>3
<1>7. CASE Started(c)
  <2>1. Now(c) = "started" /\ Now(c)' \in Activated /\ ret'[c] = ret[c]
    BY <1>1, <1>7, FlowStart
  <2>2. CASE ret[c] = "fail"
    <3>1. fw' = None
      BY <1>3, <1>7, <2>2 DEF Started
    <3> QED
      BY <2>1, <3>1 DEF Stands, Standing, Activated, Stopping
  <2>3. CASE ret[c] = "ok"
    <3>1. UNCHANGED <<proc, fw, pidfile>>
      BY <1>7, <2>3 DEF Started, diskVars
    <3>2. Standing'
      BY <2>1, <2>3, <3>1, StandingSame DEF Stands
    <3> QED
      BY <2>1, <2>3, <3>2, StandsThere DEF Activated, Stopping
  <2> QED
    BY <1>1, <2>2, <2>3
<1>8. CASE StartDaemon(c)
  <2>1. /\ Now(c) = "start" /\ proc' = proc
        /\ \/ Matches(arg[c]) \/ Recorded
           \/ Now(c)' = "sweep" /\ ret'[c] = "ok"
    BY <1>1, <1>8, FlowStart DEF StartDaemon
  <2>2. NoneServes /\ pidfile = None
    BY <2>1 DEF Knows, Readies
  <2>3. Now(c)' = "sweep" /\ ret'[c] = "ok"
    BY <2>1, <2>2 DEF Matches, Recorded
  <2>4. NoneAlive'
    BY <1>4, <2>1, <2>2 DEF NoneAlive, Alive
  <2> QED
    BY <2>3, <2>4 DEF Stands, Stopping
<1>9. CASE SpawnFails(c) \/ AwaitFails(c) \/ Reap(c)
  <2>1. \/ Now(c)' = "started" /\ ret'[c] = "fail"
        \/ Now(c)' = "reap"
    BY <1>1, <1>9, FlowStart
  <2> QED
    BY <2>1 DEF Stands, Stopping
<1>10. ASSUME NEW d \in Daemon, Spawn(c, d) PROVE Stands(c)'
  <2>1. Now(c)' = "await" /\ target'[c] = d
    BY <1>1, <1>10, FlowStart
  <2>2. proc'[d].ready # "R"
    BY <1>1, <1>10 DEF Spawn, NewProcess, NoProcess, Procs
  <2> QED
    BY <2>1, <2>2 DEF Stands, Stopping
<1>11. CASE AwaitReady(c)
  <2>1. Now(c) = "await" /\ Now(c)' = "started" /\ UNCHANGED <<proc, fw, pidfile>>
    BY <1>1, <1>11, FlowStart DEF AwaitReady, diskVars
  <2>2. proc[target[c]].ready = "R" /\ target[c] \in Daemon
    BY <1>1, <1>11, <2>1 DEF AwaitReady, Aimed
  <2>3. Serves(target[c])
    BY <2>1, <2>2 DEF Stands, Knows, Serves
  <2>4. Standing'
    BY <2>1, <2>2, <2>3 DEF Standing, Serves
  <2> QED
    BY <2>1, <2>4, StandsThere DEF Stopping
<1> QED
  BY <1>5, <1>6, <1>7, <1>8, <1>9, <1>10, <1>11

\* fp_stop_daemon: what it is called for is remembered, or it finds nobody.
LEMMA StandsStop ==
  ASSUME Ground, Alone, Single, NEW c \in lock, Stands(c), ControllerStep(c),
         \/ StopDaemon(c) \/ SendTerm(c) \/ WaitGone(c) \/ WaitTimeout(c) \/ KillGone(c)
         \/ Sweep(c) \/ (\E d \in Daemon : ScanEntry(c, d)) \/ ScanDone(c)
         \/ \E s \in {"port", "port_again"} : PortReleased(c, s) \/ PortBusy(c, s)
  PROVE  Stands(c)'
<1>1. /\ TypeOK /\ Stacks /\ c \in Controller /\ op' = op
      /\ \A s : At(c, s) => Now(c) = s
      /\ None \notin Daemon /\ pidfile \in Daemon \cup {None} /\ listener \in Daemon \cup {None}
      /\ \A e \in Daemon : Sane(e)
  BY HolderFacts, BaseFacts DEF TypeOK
<1>2. Now(c) \in Stopping
  BY <1>1 DEF StopDaemon, SendTerm, WaitGone, WaitTimeout, KillGone, Sweep, ScanEntry, ScanDone,
     PortReleased, PortBusy, Stopping
<1>3. Restores(c)' <=> Restores(c)
  BY DEF StopDaemon, SendTerm, WaitGone, WaitTimeout, KillGone, Sweep, ScanEntry, ScanDone,
     PortReleased, PortBusy, localVars, Restores
<1>4. Now(c)' \in Stopping \cup Stopped /\ (Rolling(c)' <=> Rolling(c))
  BY <1>1, StopGoes
<1>5. CASE op[c] \notin {"enable", "saved"} \/ Now(c)' \notin Stopping \cup {"replace"}
  BY <1>1, <1>4, <1>5 DEF Stands, Stopping, Stopped
<1>6. CASE op[c] = "enable" /\ ~Rolling(c) /\ Restores(c)
  BY <1>1, <1>3, <1>4, <1>6 DEF Stands, Stopping, Stopped
<1>7. CASE /\ NoneAlive /\ Now(c) \notin {"term", "wait", "killed"}
           /\ Now(c) # "stop" => ret[c] = "ok"
  <2>1. \A d \in Daemon : ~IsOurs(d)
    BY <1>7 DEF NoneAlive, Alive, IsOurs
  <2>2. listener = None
    BY <1>1, <1>7 DEF Sane, NoneAlive, Alive, Execed
  <2>3. /\ proc' = proc
        /\ ~SendTerm(c) /\ ~WaitGone(c) /\ ~WaitTimeout(c) /\ ~KillGone(c)
        /\ \A s \in {"port", "port_again"} : ~PortBusy(c, s)
    BY <1>1, <1>7, <2>2 DEF StopDaemon, SendTerm, WaitGone, WaitTimeout, KillGone, Sweep,
       ScanEntry, ScanDone, PortReleased, PortBusy
  <2>4. ret'[c] = "ok" /\ Now(c)' \notin {"term", "wait", "killed"}
    <3> USE DEF To
    <3>1. CASE StopDaemon(c)
      BY <1>1, <2>1, <3>1, FlowStop DEF Recorded
    <3>2. CASE Sweep(c) \/ ScanDone(c)
      BY <1>1, <1>7, <3>2, FlowStop
    <3>3. ASSUME NEW d \in Daemon, ScanEntry(c, d)
          PROVE  ret'[c] = "ok" /\ Now(c)' \notin {"term", "wait", "killed"}
      BY <1>1, <2>1, <3>3, FlowStop
    <3>4. ASSUME NEW s \in {"port", "port_again"}, PortReleased(c, s)
          PROVE  ret'[c] = "ok" /\ Now(c)' \notin {"term", "wait", "killed"}
      BY <1>1, <1>7, <3>4, FlowStop DEF Stopped
    <3> QED
      BY <2>3, <3>1, <3>2, <3>3, <3>4
  <2>5. NoneAlive'
    BY <1>7, <2>3 DEF NoneAlive, Alive
  <2> QED
    BY <1>4, <2>4, <2>5 DEF Stands, Stopping, Stopped
<1> QED
  BY <1>2, <1>5, <1>6, <1>7 DEF Stands

\* fp_uninstall: it does not come to its end with rules left.
LEMMA StandsUninstall ==
  ASSUME Ground, Alone, Single, NEW c \in lock, Knows(c), Stands(c), Unfailed,
         ControllerStep(c), faults = 0,
         \/ UnitStopBegin(c) \/ UnitStopDone(c) \/ UnitRemove(c) \/ UninstallFirewall(c)
         \/ UninstallRetry(c) \/ RemoveFiles(c)
  PROVE  Stands(c)'
<1>1. /\ TypeOK /\ Stacks /\ c \in Controller /\ op' = op
      /\ \A s : At(c, s) => Now(c) = s
  BY HolderFacts
<1>2. Now(c) \in {"unit_stop", "unit_wait", "unit_remove", "uninstall_fw", "uninstall_retry",
                  "remove_files"}
  BY <1>1 DEF UnitStopBegin, UnitStopDone, UnitRemove, UninstallFirewall, UninstallRetry,
     RemoveFiles
<1>3. op[c] = "uninstall" /\ op'[c] = "uninstall"
  BY <1>1, <1>2, OpOf
<1>4. CASE ~RemoveFiles(c)
  <2>1. Now(c)' \in {"unit_wait", "unit_remove", "stop", "uninstall_retry", "remove_files"}
    BY <1>1, <1>4, FlowUninstall DEF To
  <2> QED
    BY <1>3, <2>1 DEF Stands, Stopping
<1>5. CASE RemoveFiles(c)
  <2>1. Now(c) = "remove_files" /\ Now(c)' = "unlock" /\ fw' = fw
    BY <1>1, <1>5, FlowUninstall DEF To, RemoveFiles
  <2>2. fw = None
    BY <1>1, <1>3, <2>1 DEF Knows, Unfailed
  <2> QED
    BY <2>1, <2>2, StandsThere DEF Standing, Stopping
<1> QED
  BY <1>4, <1>5

\* The holder of the lock runs on.
LEMMA StandsHolds ==
  ASSUME Ground, Alone, Single, NEW c \in Controller, Holds(c), Knows(c), Readies(c), Saves(c),
         Stands(c), Ending, Unfailed, faults = 0, faults' = 0, crashes = 0
  PROVE  (lock' = {} => Standing') /\ \A b \in lock' : Stands(b)'
<1>1. /\ c \in lock /\ lock = {c} /\ ControllerStep(c)
      /\ lock' = {c} \/ (lock' = {} /\ Release(c))
  BY DEF Holds
<1>2. /\ \A s : At(c, s) => Now(c) = s
      /\ Now(c) \notin Outside
  BY <1>1, HolderFacts
<1>3. CASE Release(c)
  <2>1. Now(c) = "unlock" /\ UNCHANGED <<fw, proc, pidfile>>
    BY <1>2, <1>3 DEF Release, diskVars
  <2>2. Standing'
    BY <2>1, StandingSame DEF Stands
  <2>3. lock' = {}
    BY <1>1, <1>3 DEF Release
  <2> QED
    BY <2>2, <2>3
<1>4. CASE ~Release(c)
  <2>1. ~OpenLock(c) /\ ~Acquire(c) /\ ~RemoveLock(c) /\ ~RemoveBinary(c)
    BY <1>2 DEF OpenLock, Acquire, RemoveLock, RemoveBinary, Outside
  <2>2. lock' = {c}
    BY <1>1, <1>4
  <2>3. Stands(c)'
    BY <1>1, <1>4, <2>1, StandsConfig, StandsStart, StandsStop, StandsUninstall
    DEF ControllerStep
  <2> QED
    BY <2>2, <2>3
<1> QED
  BY <1>3, <1>4

\* Stood is inductive.
LEMMA StoodNext ==
  ASSUME Ground, Base', Known, Begun, Saved, Ending, Unfailed, Stood, [Next]_vars
  PROVE  Stood'
<1> SUFFICES ASSUME Unharmed'
             PROVE  (lock' = {} => Standing') /\ \A c \in lock' : Stands(c)'
  BY DEF Stood
<1>1. /\ Alone /\ Single /\ Base /\ \A c \in lock : Knows(c) /\ Readies(c)
      /\ crashes \in Nat /\ faults' = 0
  <2>1. Alone' /\ faults' = 0
    BY DEF Unharmed
  <2> QED
    BY <2>1, AloneStep, BaseFacts DEF Known, Ground, Begun, Typed, Counts
<1>2. crashes = 0 /\ crashes' = 0
  <2>1. crashes' >= crashes
    <3>1. CASE Next
      BY <1>1, <3>1, HistoryGrows
    <3>2. CASE UNCHANGED vars
      BY <1>1, <3>2 DEF vars
    <3> QED
      BY <3>1, <3>2
  <2> QED
    BY <1>1, <2>1 DEF Unharmed
<1>3. faults = 0 =>
        /\ lock = {} => Standing
        /\ \A c \in lock : Saves(c) /\ Stands(c)
  BY <1>1, <1>2 DEF Saved, Stood, Unharmed
<1>4. ASSUME NEW c \in Controller, Granted(c)
      PROVE  (lock' = {} => Standing') /\ \A b \in lock' : Stands(b)'
  <2>1. faults = 0
    BY <1>1, <1>4 DEF Granted
  <2> QED
    BY <1>3, <1>4, <2>1, StandsGranted
<1>5. ASSUME NEW c \in Controller, Holds(c)
      PROVE  (lock' = {} => Standing') /\ \A b \in lock' : Stands(b)'
  <2>1. faults = 0 /\ c \in lock
    BY <1>1, <1>5, FaultFree DEF Holds
  <2> QED
    BY <1>1, <1>2, <1>3, <1>5, <2>1, StandsHolds
<1>6. ASSUME NEW d \in Daemon, DaemonStep(d) \/ Crash(d)
      PROVE  (lock' = {} => Standing') /\ \A b \in lock' : Stands(b)'
  <2>1. ~Crash(d)
    BY <1>2 DEF Crash
  <2>2. faults' = faults \/ Fault
    BY <1>1, <1>6, BaseFacts, OwnMoves DEF DaemonStep, NoFault
  <2>3. faults = 0
    BY <1>1, <2>2, FaultLess
  <2> QED
    BY <1>1, <1>2, <1>3, <1>6, <2>1, <2>3, StandsOwn
<1>7. CASE Passive
  <2>1. faults = 0
    BY <1>1, <1>7 DEF Passive
  <2> QED
    BY <1>1, <1>3, <1>7, <2>1, StandsPassive
<1> QED
  BY <1>1, <1>4, <1>5, <1>6, <1>7, AloneStep DEF Unharmed

-----------------------------------------------------------------------------
(* The theorems.                                                             *)

\* The part of the invariant that holds with systemd and every operation.
LEMMA BaseInit ==
  ASSUME Init
  PROVE  TypeOK /\ Stacks /\ Locked /\ Forwarders /\ Rules
<1>1. {MaxFaults, MaxCrashes, MaxUnitStarts, MaxOps} \subseteq Nat
  BY LifecycleAssumption
<1>2. TypeOK
  <2>1. /\ 0 \in 0 .. MaxFaults /\ 0 \in 0 .. MaxCrashes /\ 0 \in 0 .. MaxUnitStarts
        /\ 0 \in 0 .. MaxOps /\ 1 \in 1 .. MaxOps + 1 /\ 0 \in 0 .. 1
    BY <1>1
  <2>2. calls \in [Controller -> Seq(Statements)]
    BY DEF Init
  <2> QED
    BY <2>1, <2>2 DEF Init, TypeOK, NoProcess, Execed
<1>3. ASSUME NEW c \in Controller
      PROVE  Now(c) = "idle" /\ Chain(calls[c]) /\ Within(calls[c], Of(op[c])) /\ calls[c] = <<>>
  <2>1. calls[c] = <<>> /\ Len(<<>>) = 0
    BY DEF Init
  <2> QED
    BY <2>1 DEF Now, Chain, Within
<1>4. Stacks
  <2>1. \A c \in Controller : Now(c) \notin Fresh
    BY <1>3 DEF Fresh
  <2> QED
    BY <1>3, <2>1 DEF Stacks
<1>5. Locked
  <2>1. Unlinking = {} /\ lock = {} /\ lockfile = 1 /\ opcount = 0
    BY <1>3 DEF Unlinking, Init
  <2>2. IsFiniteSet({}) /\ Cardinality({}) = 0
    BY FS_EmptySet
  <2> QED
    BY <1>3, <2>1, <2>2 DEF Locked, Outside
<1>6. Forwarders
  BY LifecycleAssumption DEF Init, Forwarders, NoProcess
<1> QED
  BY <1>2, <1>4, <1>5, <1>6 DEF Rules, Init

\* The part of the invariant that needs no hypothesis on systemd is inductive.
LEMMA BaseNext ==
  ASSUME Base, [Next]_vars
  PROVE  Base'
<1>1. CASE Next
  BY <1>1, TypeNext, StacksNext, LockedNext, ForwardersNext, RulesNext DEF Base
<1>2. CASE UNCHANGED vars
  <2>1. \A c \in Controller : /\ Now(c)' = Now(c) /\ (Rolling(c)' <=> Rolling(c))
                              /\ (Retrying(c)' <=> Retrying(c))
    BY <1>2, SameStack DEF vars
  <2>2. Unlinking' = Unlinking
    BY <1>2, <2>1 DEF vars, Unlinking
  <2>3. Stacks'
    BY <1>2, <2>1 DEF vars, Stacks, Base
  <2> QED
    BY <1>2, <2>1, <2>2, <2>3 DEF vars, Base, TypeOK, Locked, Forwarders, Rules
<1> QED
  BY <1>1, <1>2

\* It is an invariant.
THEOREM BaseHolds == Spec => []Base
<1>1. Init => Base
  BY BaseInit DEF Base
<1>2. Base /\ [Next]_vars => Base'
  BY BaseNext
<1> QED
  BY <1>1, <1>2, PTL DEF Spec

\* Every variable of the operations keeps its type, and no forwarder runs without a
\* configuration: TypeOK for any number of controllers and forwarders.
THEOREM LifecycleTypes == Spec => []TypeOK
<1>1. Base => TypeOK
  BY DEF Base
<1> QED
  BY <1>1, BaseHolds, PTL

\* A forwarder stands behind the rules as long as nothing has failed, crashed or been
\* killed and no fp_set_bypass installs them after it has gone, however often systemd
\* starts the unit and whichever files are locked.
Backed == fw # None /\ ~forced => \E d \in Daemon : Alive(d)
THEOREM RulesHaveForwarder == "bypass" \notin Ops => (Spec => []Backed)
<1> SUFFICES ASSUME "bypass" \notin Ops PROVE Spec => []Backed
  OBVIOUS
<1>1. Base => Backed
  BY DEF Base, Rules, Backed, Alive, Execed
<1> QED
  BY <1>1, BaseHolds, PTL

\* What fp_stop_daemon and fp_uninstall know while systemd starts no forwarder.
THEOREM CalmHolds == Spec => []Calmed
<1>1. Init => Calmed
  BY DEF Init, Calmed
<1>2. Base /\ Base' /\ Calmed /\ [Next]_vars => Calmed'
  BY CalmNext
<1> QED
  BY <1>1, <1>2, BaseHolds, PTL DEF Spec

\* Without systemd, who started the forwarders, and why they stop.
THEOREM GroundHolds == Spec => []Ground
<1>1. Init => Parents /\ Signalled /\ Leaving /\ Opening
  <2>1. Init => Parents /\ Signalled /\ Leaving
    BY LifecycleAssumption DEF Init, Parents, Signalled, Leaving, NoProcess
  <2>2. Init => \A c \in Controller : Now(c) = "idle"
    BY DEF Init, Now
  <2> QED
    BY <2>1, <2>2 DEF Opening
<1>2. Base /\ Base' /\ Parents /\ Signalled /\ Leaving /\ Opening /\ [Next]_vars
        => Parents' /\ Signalled' /\ Leaving' /\ Opening'
  <2> SUFFICES ASSUME Base, Base', Parents, Signalled, Leaving, Opening, [Next]_vars
               PROVE  Parents' /\ Signalled' /\ Leaving' /\ Opening'
    OBVIOUS
  <2>1. CASE Next
    BY <2>1, ParentsNext, SignalledNext, LeavingNext, OpeningNext
  <2>2. CASE UNCHANGED vars
    <3>1. \A c \in Controller : Now(c)' = Now(c)
      BY <2>2, SameStack DEF vars
    <3> QED
      BY <2>2, <3>1 DEF vars, Parents, Signalled, Leaving, Opening
  <2> QED
    BY <2>1, <2>2
<1>3. Base /\ Calmed /\ Parents /\ Signalled /\ Leaving /\ Opening => Ground
  BY DEF Ground
<1> QED
  BY <1>1, <1>2, <1>3, BaseHolds, CalmHolds, PTL DEF Spec

\* One forwarder at most, and the holder of the lock knows of it.
THEOREM KnownAlways == Spec => []Known
<1>1. Init => Known
  BY LifecycleAssumption DEF Init, Known, Single, Alive, Execed, NoProcess
<1>2. Ground => Base
  BY DEF Ground
<1>3. Ground /\ Base' /\ Known /\ [Next]_vars => Known'
  BY KnownNext
<1> QED
  BY <1>1, <1>2, <1>3, GroundHolds, PTL DEF Spec

\* fp_uninstall returns 0 with no forwarder, listener, pid file or configuration left,
\* for any number of controllers, forwarders and starts by systemd until it has forgotten
\* the unit.  Rules are left only if systemd has started the unit and something failed,
\* crashed or was killed: UninstallRemoves.
THEOREM UninstallComplete == Spec => []UninstallRemoves
<1>1. Ground /\ Known => UninstallRemoves
  <2> SUFFICES ASSUME Ground, Known, NEW c \in Controller,
                      Reports(c, "uninstall", "ok"), ~unit, LockIntact
               PROVE  /\ NoneAlive /\ listener = None /\ pidfile = None /\ config = None
                      /\ fw = None \/ (forced /\ units > 0)
    BY DEF UninstallRemoves, NoneAlive
  <2>1. /\ Procs /\ (\A d \in Daemon : Sane(d)) /\ Now(c) = "unlock" /\ op[c] = "uninstall"
        /\ ret[c] = "ok" /\ c \in lock /\ units \in Nat
    BY BaseFacts, HeadOf DEF Reports, Outside, Ground, Typed, Counts
  <2>2. NoneAlive /\ pidfile = None /\ config = None /\ (fw = None \/ forced)
    BY <2>1 DEF Ground, Calmed, Calm, Uninstalls
  <2>3. units = 0 => fw = None
    BY <2>1 DEF Known, Alone, Knows
  <2>4. listener = None
    BY <2>1, <2>2 DEF Procs, Sane, NoneAlive, Alive, Execed
  <2> QED
    BY <2>1, <2>2, <2>3, <2>4
<1> QED
  BY <1>1, GroundHolds, KnownAlways, PTL

\* fp_disable_proxy and fp_uninstall return 0 only when nothing is left, whatever failed
\* or crashed before, as long as systemd has started no forwarder behind their back:
\* DisabledMeansStopped.
THEOREM DisableComplete == Spec => [](units = 0 => DisabledMeansStopped)
<1>1. Ground /\ Known => (units = 0 => DisabledMeansStopped)
  <2> SUFFICES ASSUME Ground, Known, LockIntact, units = 0, NEW c \in Controller,
                      Reports(c, "disable", "ok") \/ Reports(c, "uninstall", "ok")
               PROVE  NoneAlive /\ listener = None /\ pidfile = None /\ fw = None
    BY DEF DisabledMeansStopped, NoneAlive
  <2>1. /\ Procs /\ (\A d \in Daemon : Sane(d)) /\ Now(c) = "unlock"
        /\ op[c] \in {"disable", "uninstall"} /\ ret[c] = "ok" /\ c \in lock
    BY BaseFacts, HeadOf DEF Reports, Outside, Ground
  <2>2. NoneAlive /\ pidfile = None /\ fw = None
    BY <2>1 DEF Known, Alone, Knows
  <2>3. listener = None
    BY <2>1, <2>2 DEF Procs, Sane, NoneAlive, Alive, Execed
  <2> QED
    BY <2>2, <2>3
<1> QED
  BY <1>1, GroundHolds, KnownAlways, PTL

\* The forwarder that is started: what fp_start_daemon and its callers may conclude.
THEOREM BegunAlways == Spec => []Begun
<1>1. Init => Begun
  BY DEF Init, Begun
<1>2. Ground => Base
  BY DEF Ground
<1>3. Ground /\ Base' /\ Known /\ Begun /\ [Next]_vars => Begun'
  BY BegunNext
<1> QED
  BY <1>1, <1>2, <1>3, GroundHolds, KnownAlways, PTL DEF Spec

\* README: fp_enable_proxy and fp_enable_saved_proxy report success when a forwarder of
\* their configuration listens and the rules are complete, for any number of controllers
\* and whatever fails, as long as systemd has started no forwarder:
\* ReadyBeforeSuccess.
THEOREM SuccessMeansReady == Spec => [](units = 0 => ReadyBeforeSuccess)
<1>1. Ground /\ Begun => (units = 0 => ReadyBeforeSuccess)
  <2> SUFFICES ASSUME Ground, Begun, LockIntact, units = 0, ~crashed, NEW c \in Controller,
                      Reports(c, "enable", "ok") \/ Reports(c, "saved", "ok")
               PROVE  Ready(c)
    BY DEF ReadyBeforeSuccess, Ready
  <2>1. /\ Now(c) = "unlock" /\ TypeOK /\ Stacks
        /\ op[c] \in {"enable", "saved"} /\ ret[c] = "ok" /\ c \in lock
    BY BaseFacts, HeadOf DEF Reports, Outside, Ground
  <2>2. ~Rolling(c)
    BY <2>1, LastNotRolling
  <2> QED
    BY <2>1, <2>2 DEF Begun, Alone, Readies, Enabling
<1> QED
  BY <1>1, GroundHolds, BegunAlways, PTL

\* The saved configuration and the forwarder that serves.
THEOREM SavedAlways == Spec => []Saved
<1>1. Init => Saved
  BY DEF Init, Saved, Settled, Serves, NoProcess
<1>2. Ground => Base
  BY DEF Ground
<1>3. Ground /\ Base' /\ Known /\ Begun /\ Saved /\ [Next]_vars => Saved'
  BY SavedNext
<1> QED
  BY <1>1, <1>2, <1>3, GroundHolds, KnownAlways, BegunAlways, PTL DEF Spec

\* Between operations a forwarder that serves has the saved configuration, and the rules
\* are the ones of that configuration: no switch, rollback or crash leaves a mixture, as
\* long as files, fork and iptables work and systemd has started no forwarder:
\* ServesSavedConfig.
THEOREM ServesWhatIsSaved == Spec => [](units = 0 => ServesSavedConfig)
<1>1. Saved => (units = 0 => ServesSavedConfig)
  BY DEF Saved, Alone, Settled, Serves, ServesSavedConfig
<1> QED
  BY <1>1, SavedAlways, PTL

\* The pid file and the rules without a failure.
THEOREM NamedAlways == Spec => []Named
<1>1. Init => Named
  BY DEF Init, Named
<1>2. Ground => Base
  BY DEF Ground
<1>3. Ground /\ Base' /\ Known /\ Named /\ [Next]_vars => Named'
  BY NamedNext
<1> QED
  BY <1>1, <1>2, <1>3, GroundHolds, KnownAlways, PTL DEF Spec

\* As long as nothing has failed, crashed or been killed there is a forwarder behind the
\* rules with fp_set_bypass as well, while systemd has started none: the pid file that it
\* goes by names one.
THEOREM BypassBacked == Spec => [](LockIntact /\ units = 0 => Backed)
<1>1. Named => (LockIntact /\ units = 0 => Backed)
  BY DEF Named, Alone, Backed, Alive, Execed
<1> QED
  BY <1>1, NamedAlways, PTL

\* fp_enable_proxy comes back to its rollback; fp_uninstall has not failed without a failure.
THEOREM EndingAlways == Spec => [](Ending /\ Unfailed)
<1>1. Init => Ending /\ Unfailed
  <2>1. Init => \A c \in Controller : Now(c) = "idle" /\ bad[c] = {}
    BY DEF Init, Now
  <2> QED
    BY <2>1 DEF Ending, Unfailed, Stopping, Starting
<1>2. Base /\ Base' /\ Ending /\ Unfailed /\ [Next]_vars => Ending' /\ Unfailed'
  <2> SUFFICES ASSUME Base, Base', Ending, Unfailed, [Next]_vars PROVE Ending' /\ Unfailed'
    OBVIOUS
  <2>1. CASE Next
    BY <2>1, EndingNext, UnfailedNext
  <2>2. CASE UNCHANGED vars
    <3>1. \A c \in Controller : Now(c)' = Now(c) /\ (Rolling(c)' <=> Rolling(c))
      BY <2>2, SameStack DEF vars
    <3> QED
      BY <2>2, <3>1 DEF vars, Ending, Unfailed
  <2> QED
    BY <2>1, <2>2
<1> QED
  BY <1>1, <1>2, BaseHolds, PTL DEF Spec

\* What stands behind the rules through timeouts and kills.
THEOREM StoodAlways == Spec => []Stood
<1>1. Init => Stood
  BY DEF Init, Stood, Standing
<1>2. Ground /\ Base' /\ Known /\ Begun /\ Saved /\ Ending /\ Unfailed /\ Stood /\ [Next]_vars
        => Stood'
  BY StoodNext
<1>3. Ground => Base
  BY DEF Ground
<1> QED
  BY <1>1, <1>2, <1>3, GroundHolds, KnownAlways, BegunAlways, SavedAlways, EndingAlways,
     PTL DEF Spec

\* No operation leaves rules without a forwarder behind them while systemd has started
\* none and nothing has failed or crashed, for any number of controllers and forwarders:
\* not after a timeout and a SIGKILL, a zombie that nobody collects or a rollback, only
\* through fp_set_bypass with a stale pid file: NoStrandedRules.
THEOREM NothingStranded == Spec => []NoStrandedRules
<1>1. Stood => NoStrandedRules
  BY DEF Stood, Unharmed, Alone, Standing, Serves, Alive, Execed, NoStrandedRules
<1> QED
  BY <1>1, StoodAlways, PTL

\* The inductive invariant holds.
THEOREM LifeInvHolds == Spec => []LifeInv
<1>1. Base /\ Calmed /\ Ground => /\ TypeOK /\ Stacks /\ Locked /\ Forwarders /\ Rules
                                  /\ Scanned /\ Uninstalled /\ Parents /\ Signalled
                                  /\ Leaving /\ Opening
  BY DEF Base, Calmed, Ground, Scanned, Uninstalled
<1>2. Base /\ Calmed /\ Ground /\ Known /\ Begun /\ Saved /\ Named /\ Ending /\ Unfailed /\ Stood
        => LifeInv
  BY <1>1 DEF LifeInv
<1> QED
  BY <1>2, BaseHolds, CalmHolds, GroundHolds, KnownAlways, BegunAlways, SavedAlways,
     NamedAlways, EndingAlways, StoodAlways, PTL
=============================================================================
