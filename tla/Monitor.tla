------------------------------- MODULE Monitor -------------------------------
(***************************************************************************)
(* The traffic table as a file, and the monitor page that reads it: a      *)
(* forwarder creates the file, fills it in and unlinks it when it ends     *)
(* (src/src/stats.c, fp_proxy_run); controllers unlink it when they stop   *)
(* or start a forwarder (src/src/process.c); systemd starts forwarders     *)
(* without asking; and the page maps whatever file the path names, keeps   *)
(* the mapping while the file has a link, and derives the rates it shows   *)
(* from two readings of the totals (src/src/tui.c).                        *)
(*                                                                         *)
(* A forwarder creates one table, so a table is named by its forwarder.    *)
(* Upload and download are treated alike: one direction is modelled.       *)
(***************************************************************************)
EXTENDS Integers

CONSTANTS
  Starts,      \* bound on forwarder incarnations
  None,        \* no forwarder, no file
  MaxBytes,    \* bound on the bytes counted
  MaxCrashes,  \* bound on forwarder crashes
  Short,       \* 200 ms, in ticks of the page's clock
  Window       \* 1000 ms

Daemon == 1 .. Starts  \* forwarder incarnations, numbered as they start and bind

ASSUME MonitorAssumption ==
  /\ Starts \in Nat /\ None \notin Daemon
  /\ MaxBytes \in Nat /\ MaxCrashes \in Nat
  /\ Short \in Nat \ {0} /\ Window \in Nat /\ Short < Window

VARIABLES
  path,     \* the table that FP_STATS_PATH names
  pidfile,  \* the forwarder that FP_PID_PATH names
  listener, \* the forwarder bound to the port
  daemon,   \* daemon[d]: what forwarder d does
  table,    \* table[d].form: how much of it has been written; table[d].up: its total
  ctl,      \* what the controller that stops or starts a forwarder does
  crashes,
  mon,      \* what the page does
  running,  \* its status.daemon_running
  att,      \* the table that is mapped
  again,    \* fp_stats_snapshot has called fp_stats_open_readonly
  rates,    \* its struct monitor_rate_state
  frame,    \* the table whose totals this pass of the loop shows
  serving,  \* history: the forwarder that has served since the status was read
  real,     \* history: bytes carried by all forwarders
  anchored, \* history: real when the anchor was taken
  carried   \* history: bytes carried in the window of the rate that is shown

fileVars == <<path, pidfile, listener, daemon, table, crashes>>
pageVars == <<mon, running, att, again, rates, frame, anchored, carried>>
vars == <<path, pidfile, listener, daemon, table, ctl, crashes, mon, running, att,
          again, rates, frame, serving, real, anchored, carried>>

Starting == {"start", "bound", "unlinked", "opened", "sized", "filled", "stamped"}
Stopping == {"closed", "unrecorded", "failed"}
Alive(d) == daemon[d] \in Starting \cup Stopping \cup {"run"}

\* kill(pid, 0) == 0: a forwarder whose parent has not waited for it still counts.
Exists(d) == Alive(d) \/ daemon[d] = "zombie"

\* started_ms, which no two tables share, and whether magic and version are there.
Stamp(d) == IF table[d].form = "stamped" THEN d ELSE None
Usable(d) == table[d].form \in {"filled", "stamped"}

NoRates == [has |-> FALSE, started |-> None, up |-> 0, age |-> 0, shown |-> 0]

-----------------------------------------------------------------------------
(* The forwarder: fp_proxy_run with fp_stats_create and fp_stats_close.      *)

\* One step of d from state a to state b.
Moves(d, a, b) ==
  /\ daemon[d] = a
  /\ daemon' = [daemon EXCEPT ![d] = b]
  /\ UNCHANGED <<ctl, crashes, pageVars, real>>

Bind(d) ==
  /\ \A e \in 1 .. (d - 1) : daemon[e] # "start"
  /\ Moves(d, "start", IF listener = None THEN "bound" ELSE "gone")
  /\ listener' = IF listener = None THEN d ELSE listener
  /\ UNCHANGED <<path, pidfile, table, serving>>

\* fp_stats_create: unlink, open with O_EXCL, ftruncate, the header, started_ms.
UnlinkOld(d) ==
  /\ Moves(d, "bound", "unlinked")
  /\ path' = None
  /\ UNCHANGED <<pidfile, listener, table, serving>>

CreateTable(d) ==
  /\ Moves(d, "unlinked", "opened")
  /\ path = None /\ path' = d
  /\ table' = [table EXCEPT ![d].form = "empty"]
  /\ UNCHANGED <<pidfile, listener, serving>>

FillTable(d) ==
  /\ \/ Moves(d, "opened", "sized") /\ table' = [table EXCEPT ![d].form = "zeros"]
     \/ Moves(d, "sized", "filled") /\ table' = [table EXCEPT ![d].form = "filled"]
     \/ Moves(d, "filled", "stamped") /\ table' = [table EXCEPT ![d].form = "stamped"]
  /\ UNCHANGED <<path, pidfile, listener, serving>>

\* open, ftruncate or mmap fails: the new file goes, and fp_proxy_run gives up.
CreateFails(d) ==
  /\ \E state \in {"unlinked", "opened", "sized"} : Moves(d, state, "failed")
  /\ path' = IF daemon[d] = "unlinked" THEN path ELSE None
  /\ listener' = None
  /\ UNCHANGED <<pidfile, table, serving>>

WritePid(d) ==
  /\ Moves(d, "stamped", "run")
  /\ pidfile' = d
  /\ UNCHANGED <<path, listener, table, serving>>

\* A worker of d counts a byte: fp_stats_add on the total.
Carry(d) ==
  /\ daemon[d] = "run" /\ real < MaxBytes
  /\ table' = [table EXCEPT ![d].up = @ + 1]
  /\ real' = real + 1
  /\ UNCHANGED <<path, pidfile, listener, daemon, ctl, crashes, pageVars, serving>>

\* SIGTERM ends the loop, or fp_write_pid or fp_firewall_enable fails:
\* close(listener), fp_remove_pid, fp_stats_close.
CloseListener(d) ==
  /\ \E state \in {"stamped", "run"} : Moves(d, state, "closed")
  /\ listener' = None
  /\ serving' = IF serving = d THEN None ELSE serving
  /\ UNCHANGED <<path, pidfile, table>>

\* A table that could not be created is not unlinked again.
RemovePid(d) ==
  /\ Moves(d, "closed", "unrecorded") \/ Moves(d, "failed", "gone")
  /\ pidfile' = None
  /\ UNCHANGED <<path, listener, table, serving>>

CloseStats(d) ==
  /\ Moves(d, "unrecorded", "gone")
  /\ path' = None
  /\ UNCHANGED <<pidfile, listener, table, serving>>

\* It is killed; a forwarder that a controller started stays a zombie for a while.
Crash(d) ==
  /\ Alive(d) /\ crashes < MaxCrashes
  /\ daemon' = [daemon EXCEPT ![d] = "zombie"]
  /\ listener' = IF listener = d THEN None ELSE listener
  /\ serving' = IF serving = d THEN None ELSE serving
  /\ crashes' = crashes + 1
  /\ UNCHANGED <<path, pidfile, table, ctl, pageVars, real>>

Reap(d) ==
  /\ Moves(d, "zombie", "gone")
  /\ UNCHANGED <<path, pidfile, listener, table, serving>>

\* The incarnation that starts next.
Fresh(d) == daemon[d] = "none" /\ \A e \in 1 .. (d - 1) : daemon[e] # "none"

UnitStart(d) ==
  /\ Fresh(d)
  /\ Moves(d, "none", "start")
  /\ UNCHANGED <<path, pidfile, listener, table, serving>>

-----------------------------------------------------------------------------
(* The controller: the last steps of fp_stop_daemon and, before the fork, of *)
(* fp_start_daemon, once no forwarder was found.                             *)

Swept ==
  /\ ctl = "idle" /\ listener = None /\ \A d \in Daemon : ~Alive(d)
  /\ ctl' = "remove_pid"
  /\ UNCHANGED <<fileVars, pageVars, serving, real>>

ControllerRemovePid ==
  /\ ctl = "remove_pid" /\ ctl' = "unlink"
  /\ pidfile' = None
  /\ UNCHANGED <<path, listener, daemon, table, crashes, pageVars, serving, real>>

ControllerUnlink ==
  /\ ctl = "unlink"
  /\ ctl' \in {"idle", "fork"}
  /\ path' = None
  /\ UNCHANGED <<pidfile, listener, daemon, table, crashes, pageVars, serving, real>>

Fork(d) ==
  /\ ctl = "fork" /\ Fresh(d)
  /\ ctl' = "idle"
  /\ daemon' = [daemon EXCEPT ![d] = "start"]
  /\ UNCHANGED <<path, pidfile, listener, table, crashes, pageVars, serving, real>>

-----------------------------------------------------------------------------
(* The page: one pass of the loop in run_monitor_page or run_monitor_test.   *)

\* fp_collect_status
Status ==
  /\ mon = "status"
  /\ running' = (pidfile # None /\ Exists(pidfile))
  /\ serving' = IF pidfile # None /\ daemon[pidfile] = "run" THEN pidfile ELSE None
  /\ mon' = "reopen" /\ frame' = None
  /\ UNCHANGED <<fileVars, ctl, att, again, rates, anchored, carried, real>>

\* fp_stats_reopen_readonly trusts any mapping it has.
Reopen_AnyMapping ==
  /\ mon = "reopen"
  /\ mon' = IF att # None THEN "snapshot" ELSE "open"
  /\ UNCHANGED <<fileVars, ctl, running, att, again, rates, frame, serving, real,
                 anchored, carried>>

\* fp_stats_reopen_readonly keeps a mapping whose file still has a link.
Reopen ==
  /\ mon = "reopen"
  /\ IF att # None /\ path = att
     THEN mon' = "snapshot" /\ UNCHANGED att
     ELSE mon' = "open" /\ att' = None
  /\ UNCHANGED <<fileVars, ctl, running, again, rates, frame, serving, real, anchored,
                 carried>>

\* fp_stats_open_readonly: open and mmap ...
Open ==
  /\ mon = "open"
  /\ IF path = None
     THEN mon' = "snapshot" /\ UNCHANGED att
     ELSE mon' = "check" /\ att' = path
  /\ UNCHANGED <<fileVars, ctl, running, again, rates, frame, serving, real, anchored,
                 carried>>

\* fp_stats_open_readonly keeps the mapping of a file that has no header yet.
Check_NoHeader ==
  /\ mon = "check"
  /\ mon' = "snapshot"
  /\ UNCHANGED <<fileVars, ctl, running, att, again, rates, frame, serving, real,
                 anchored, carried>>

\* ... and the header.  Reading a page beyond the end of the file, which is empty
\* until ftruncate, is SIGBUS.
Check ==
  /\ mon = "check"
  /\ mon' = IF table[att].form = "empty" THEN "killed" ELSE "snapshot"
  /\ att' = IF Usable(att) THEN att ELSE None
  /\ UNCHANGED <<fileVars, ctl, running, again, rates, frame, serving, real, anchored,
                 carried>>

\* fp_stats_snapshot opens the table itself when none is mapped.
SnapshotOpens ==
  /\ mon = "snapshot" /\ running /\ att = None /\ ~again
  /\ mon' = "open" /\ again' = TRUE
  /\ UNCHANGED <<fileVars, ctl, running, att, rates, frame, serving, real, anchored,
                 carried>>

\* update_monitor_rates compares the totals only.
UpdateRates_IgnoreStart(total, started) ==
  IF ~rates.has \/ total < rates.up
  THEN /\ rates' = [has |-> TRUE, started |-> started, up |-> total, age |-> 0, shown |-> 0]
       /\ anchored' = real /\ carried' = 0
  ELSE IF rates.age < Short THEN UNCHANGED <<rates, anchored, carried>>
  ELSE /\ rates' = [rates EXCEPT !.shown = total - rates.up,
                                 !.up = IF rates.age >= Window THEN total ELSE @,
                                 !.age = IF @ >= Window THEN 0 ELSE @]
       /\ carried' = real - anchored
       /\ anchored' = IF rates.age >= Window THEN real ELSE anchored

\* update_monitor_rates: shown is the numerator of the rate.
UpdateRates(total, started) ==
  IF ~rates.has \/ rates.started # started \/ total < rates.up
  THEN /\ rates' = [has |-> TRUE, started |-> started, up |-> total, age |-> 0, shown |-> 0]
       /\ anchored' = real /\ carried' = 0
  ELSE IF rates.age < Short THEN UNCHANGED <<rates, anchored, carried>>
  ELSE /\ rates' = [rates EXCEPT !.shown = total - rates.up,
                                 !.up = IF rates.age >= Window THEN total ELSE @,
                                 !.age = IF @ >= Window THEN 0 ELSE @]
       /\ carried' = real - anchored
       /\ anchored' = IF rates.age >= Window THEN real ELSE anchored

\* memset(&rates, 0, sizeof(rates))
ClearRates == rates' = NoRates /\ anchored' = 0 /\ carried' = 0

\* fp_stats_snapshot, then update_monitor_rates and draw_monitor_page.  The rates of
\* a table that is not available are cleared, but not during a test.
Snapshot ==
  /\ mon = "snapshot" /\ (running /\ att = None => again)
  /\ mon' = "status"
  /\ IF running /\ att # None
     THEN frame' = att /\ UpdateRates(table[att].up, Stamp(att))
     ELSE frame' = None /\ (ClearRates \/ UNCHANGED <<rates, anchored, carried>>)
  /\ running' = FALSE /\ again' = FALSE
  /\ UNCHANGED <<fileVars, ctl, att, serving, real>>

\* 'q' leaves the page: fp_stats_close.  Entering it again starts from nothing.
Leave ==
  /\ mon = "status"
  /\ att' = None /\ frame' = None /\ ClearRates
  /\ UNCHANGED <<fileVars, ctl, mon, running, again, serving, real>>

\* The page's clock: beyond Window only the fact counts.
Tick ==
  /\ mon = "status" /\ rates.has /\ rates.age < Window
  /\ rates' = [rates EXCEPT !.age = @ + 1]
  /\ UNCHANGED <<fileVars, ctl, mon, running, att, again, frame, serving, real, anchored,
                 carried>>

-----------------------------------------------------------------------------
Init ==
  /\ path = None /\ pidfile = None /\ listener = None
  /\ daemon = [d \in Daemon |-> "none"]
  /\ table = [d \in Daemon |-> [form |-> "none", up |-> 0]]
  /\ ctl = "idle" /\ crashes = 0
  /\ mon = "status" /\ running = FALSE /\ att = None /\ again = FALSE
  /\ rates = NoRates /\ frame = None /\ serving = None
  /\ real = 0 /\ anchored = 0 /\ carried = 0

DaemonStep(d) ==
  \/ Bind(d) \/ UnlinkOld(d) \/ CreateTable(d) \/ FillTable(d) \/ WritePid(d)
  \/ CreateFails(d) \/ RemovePid(d) \/ CloseStats(d)

ControllerStep ==
  Swept \/ ControllerRemovePid \/ ControllerUnlink \/ \E d \in Daemon : Fork(d)

PageStep == Status \/ Reopen \/ Open \/ Check \/ SnapshotOpens \/ Snapshot

Next ==
  \/ \E d \in Daemon : \/ DaemonStep(d) \/ Carry(d) \/ CloseListener(d)
                        \/ Crash(d) \/ Reap(d) \/ UnitStart(d)
  \/ ControllerStep
  \/ PageStep \/ Leave \/ Tick

Spec == Init /\ [][Next]_vars

\* The page's loop does not block: getch() returns at once and napms() returns.
FairSpec == Spec /\ WF_vars(PageStep)

-----------------------------------------------------------------------------
(* Properties.                                                               *)

\* Every variable keeps its type, and what stays mapped between two passes of the
\* loop has a header.
TypeOK ==
  /\ {path, pidfile, listener, att, frame, serving} \subseteq Daemon \cup {None}
  /\ daemon \in [Daemon -> Starting \cup Stopping \cup {"none", "run", "zombie", "gone"}]
  /\ table \in [Daemon -> [form : {"none", "empty", "zeros", "filled", "stamped"},
                           up : 0 .. MaxBytes]]
  /\ ctl \in {"idle", "remove_pid", "unlink", "fork"} /\ crashes \in 0 .. MaxCrashes
  /\ mon \in {"status", "reopen", "open", "check", "snapshot", "killed"}
  /\ running \in BOOLEAN /\ again \in BOOLEAN
  /\ rates \in [has : BOOLEAN, started : Daemon \cup {None}, up : 0 .. MaxBytes,
                age : 0 .. Window, shown : 0 .. MaxBytes]
  /\ {real, anchored, carried} \subseteq 0 .. MaxBytes
  /\ mon \in {"status", "reopen", "snapshot"} /\ att # None => Usable(att)

\* README: the monitor shows totals since daemon start.  While one forwarder serves
\* from the moment its status is read until the page is drawn, the page shows that
\* forwarder's table or none: never the one of a forwarder that was replaced.
ShowsServing ==
  mon = "status" /\ serving # None /\ frame # None => frame = serving

\* The rate never exceeds what the forwarders carried in its window, and is exactly
\* that while one forwarder serves: it is never the difference of two tables, and the
\* subtraction never wraps around.
RatesSound ==
  /\ rates.shown <= carried
  /\ mon = "status" /\ serving # None /\ frame = serving => rates.shown = carried

\* README: while the forwarder is running the page shows its totals.  A forwarder that
\* keeps serving, recorded and with its table in place, comes to be shown again and
\* again, unless SIGBUS has ended the controller.
ServingIsShown ==
  \A d \in Daemon :
    <>[](daemon[d] = "run" /\ pidfile = d /\ path = d)
      => []<>(frame = d \/ mon = "killed")

=============================================================================
