--------------------------- MODULE MonitorProofs -----------------------------
(***************************************************************************)
(* What the monitor page shows, proved for any number of forwarders, bytes *)
(* and crashes.                                                            *)
(*                                                                         *)
(* Two facts about the files carry the argument: only the forwarder that   *)
(* owns the port writes the path, so while one serves the path names its   *)
(* table or nothing; and only that forwarder counts bytes, so while it     *)
(* serves its total and the bytes really carried grow together.            *)
(***************************************************************************)
EXTENDS Monitor, TLAPS

\* What a forwarder does while the port is its own.
Owning == {"bound", "unlinked", "opened", "sized", "filled", "stamped", "run"}

\* ... and from the moment its table exists.
Writing == {"opened", "sized", "filled", "stamped", "run"}

\* The port belongs to the one forwarder that is between bind and close.
PortOwned == \A d \in Daemon : daemon[d] \in Owning <=> listener = d

\* How far a forwarder has come is how far its table is written.
FormFollows ==
  \A d \in Daemon :
    /\ daemon[d] \in {"none", "start", "bound", "unlinked"} => table[d].form = "none"
    /\ daemon[d] = "opened" => table[d].form = "empty"
    /\ daemon[d] = "sized" => table[d].form = "zeros"
    /\ daemon[d] = "filled" => table[d].form = "filled"
    /\ daemon[d] \in {"stamped", "run"} => table[d].form = "stamped"

\* While a forwarder has the port, the path names its table or none.
PathOwned == \A d \in Daemon : daemon[d] \in Writing => path \in {d, None}

\* A total counts bytes that were carried, and none before started_ms is there.
Totals ==
  \A d \in Daemon : /\ table[d].up <= real
                    /\ table[d].form # "stamped" => table[d].up = 0

\* Between the reading of the status and the drawing of the page: the forwarder that
\* has served all along runs, and no other table than its own is mapped.
PassInv ==
  /\ serving # None => daemon[serving] = "run"
  /\ mon = "open" => att = None
  /\ mon = "check" => att # None
  /\ mon \in {"open", "check", "snapshot"} /\ serving # None => att \in {None, serving}
  /\ mon # "status" => frame = None

\* The anchor: since it was taken the total of its table has grown by no more than what
\* was carried, and by exactly that as long as the forwarder of that table has the port.
AnchorInv ==
  /\ anchored <= real /\ rates.shown <= carried
  /\ rates.has /\ rates.started = None => rates.up = 0
  /\ \A d \in Daemon : rates.has /\ rates.started = d =>
       /\ table[d].form = "stamped"
       /\ rates.up <= table[d].up
       /\ table[d].up - rates.up <= real - anchored
       /\ daemon[d] \in {"stamped", "run"} =>
            /\ table[d].up - rates.up = real - anchored
            /\ rates.shown = carried

\* The inductive invariant.
MonitorInv ==
  /\ TypeOK /\ PortOwned /\ FormFollows /\ PathOwned /\ Totals
  /\ PassInv /\ AnchorInv /\ ShowsServing /\ RatesSound

-----------------------------------------------------------------------------
\* Only bind takes the port and only its owner gives it up.
LEMMA PortNext == TypeOK /\ PortOwned /\ [Next]_vars => PortOwned'
<1> SUFFICES ASSUME TypeOK, PortOwned, [Next]_vars PROVE PortOwned'
  OBVIOUS
<1> USE MonitorAssumption DEF TypeOK, PortOwned, Owning
<1>1. ASSUME NEW d \in Daemon, DaemonStep(d) PROVE PortOwned'
  <2>1. CASE Bind(d)
    BY <2>1 DEF Bind, Moves, pageVars
  <2>2. CASE UnlinkOld(d)
    BY <2>2 DEF UnlinkOld, Moves, pageVars
  <2>3. CASE CreateTable(d)
    BY <2>3 DEF CreateTable, Moves, pageVars
  <2>4. CASE FillTable(d)
    BY <2>4 DEF FillTable, Moves, pageVars
  <2>5. CASE WritePid(d)
    BY <2>5 DEF WritePid, Moves, pageVars
  <2>6. CASE CreateFails(d)
    BY <2>6 DEF CreateFails, Moves, pageVars
  <2>7. CASE RemovePid(d)
    BY <2>7 DEF RemovePid, Moves, pageVars
  <2>8. CASE CloseStats(d)
    BY <2>8 DEF CloseStats, Moves, pageVars
  <2> QED
    BY <1>1, <2>1, <2>2, <2>3, <2>4, <2>5, <2>6, <2>7, <2>8 DEF DaemonStep
<1>2. ASSUME NEW d \in Daemon, Carry(d) PROVE PortOwned'
  BY <1>2 DEF Carry, Moves, pageVars
<1>3. ASSUME NEW d \in Daemon, CloseListener(d) PROVE PortOwned'
  BY <1>3 DEF CloseListener, Moves, pageVars
<1>4. ASSUME NEW d \in Daemon, Crash(d) PROVE PortOwned'
  BY <1>4 DEF Crash, Moves, pageVars, Alive
<1>5. ASSUME NEW d \in Daemon, Reap(d) PROVE PortOwned'
  BY <1>5 DEF Reap, Moves, pageVars
<1>6. ASSUME NEW d \in Daemon, UnitStart(d) PROVE PortOwned'
  BY <1>6 DEF UnitStart, Moves, pageVars, Fresh
<1>7. CASE ControllerStep
  <2>1. CASE Swept
    BY <2>1 DEF Swept, fileVars, pageVars
  <2>2. CASE ControllerRemovePid
    BY <2>2 DEF ControllerRemovePid, fileVars, pageVars
  <2>3. CASE ControllerUnlink
    BY <2>3 DEF ControllerUnlink, fileVars, pageVars
  <2>4. ASSUME NEW d \in Daemon, Fork(d) PROVE PortOwned'
    BY <2>4 DEF Fork, Fresh, pageVars
  <2> QED
    BY <1>7, <2>1, <2>2, <2>3, <2>4 DEF ControllerStep
<1>8. CASE PageStep \/ Leave \/ Tick
  <2>1. UNCHANGED <<fileVars, real>>
    BY <1>8 DEF PageStep, Status, Reopen, Open, Check, SnapshotOpens, Snapshot, Leave, Tick
  <2> QED
    BY <2>1 DEF fileVars
<1>9. CASE UNCHANGED vars
  BY <1>9 DEF vars
<1> QED
  BY <1>1, <1>2, <1>3, <1>4, <1>5, <1>6, <1>7, <1>8, <1>9 DEF Next

\* Only a forwarder writes its table, in the order of fp_stats_create.
LEMMA FormNext == TypeOK /\ FormFollows /\ [Next]_vars => FormFollows'
<1> SUFFICES ASSUME TypeOK, FormFollows, [Next]_vars PROVE FormFollows'
  OBVIOUS
<1> USE MonitorAssumption DEF TypeOK, FormFollows
<1>1. ASSUME NEW d \in Daemon, DaemonStep(d) PROVE FormFollows'
  <2>1. CASE Bind(d)
    BY <2>1 DEF Bind, Moves, pageVars
  <2>2. CASE UnlinkOld(d)
    BY <2>2 DEF UnlinkOld, Moves, pageVars
  <2>3. CASE CreateTable(d)
    BY <2>3 DEF CreateTable, Moves, pageVars
  <2>4. CASE FillTable(d)
    <3>1. UNCHANGED <<path, pidfile, listener, serving>>
      BY <2>4 DEF FillTable
    <3>2. CASE Moves(d, "opened", "sized") /\ table' = [table EXCEPT ![d].form = "zeros"]
      BY <3>1, <3>2 DEF Moves, pageVars
    <3>3. CASE Moves(d, "sized", "filled") /\ table' = [table EXCEPT ![d].form = "filled"]
      BY <3>1, <3>3 DEF Moves, pageVars
    <3>4. CASE Moves(d, "filled", "stamped") /\ table' = [table EXCEPT ![d].form = "stamped"]
      BY <3>1, <3>4 DEF Moves, pageVars
    <3> QED
      BY <2>4, <3>2, <3>3, <3>4 DEF FillTable
  <2>5. CASE WritePid(d)
    BY <2>5 DEF WritePid, Moves, pageVars
  <2>6. CASE CreateFails(d)
    BY <2>6 DEF CreateFails, Moves, pageVars
  <2>7. CASE RemovePid(d)
    BY <2>7 DEF RemovePid, Moves, pageVars
  <2>8. CASE CloseStats(d)
    BY <2>8 DEF CloseStats, Moves, pageVars
  <2> QED
    BY <1>1, <2>1, <2>2, <2>3, <2>4, <2>5, <2>6, <2>7, <2>8 DEF DaemonStep
<1>2. ASSUME NEW d \in Daemon, Carry(d) PROVE FormFollows'
  BY <1>2 DEF Carry, Moves, pageVars
<1>3. ASSUME NEW d \in Daemon, CloseListener(d) PROVE FormFollows'
  BY <1>3 DEF CloseListener, Moves, pageVars
<1>4. ASSUME NEW d \in Daemon, Crash(d) PROVE FormFollows'
  BY <1>4 DEF Crash, Moves, pageVars, Alive
<1>5. ASSUME NEW d \in Daemon, Reap(d) PROVE FormFollows'
  BY <1>5 DEF Reap, Moves, pageVars
<1>6. ASSUME NEW d \in Daemon, UnitStart(d) PROVE FormFollows'
  BY <1>6 DEF UnitStart, Moves, pageVars, Fresh
<1>7. CASE ControllerStep
  <2>1. CASE Swept
    BY <2>1 DEF Swept, fileVars, pageVars
  <2>2. CASE ControllerRemovePid
    BY <2>2 DEF ControllerRemovePid, fileVars, pageVars
  <2>3. CASE ControllerUnlink
    BY <2>3 DEF ControllerUnlink, fileVars, pageVars
  <2>4. ASSUME NEW d \in Daemon, Fork(d) PROVE FormFollows'
    BY <2>4 DEF Fork, Fresh, pageVars
  <2> QED
    BY <1>7, <2>1, <2>2, <2>3, <2>4 DEF ControllerStep
<1>8. CASE PageStep \/ Leave \/ Tick
  <2>1. UNCHANGED <<fileVars, real>>
    BY <1>8 DEF PageStep, Status, Reopen, Open, Check, SnapshotOpens, Snapshot, Leave, Tick
  <2> QED
    BY <2>1 DEF fileVars
<1>9. CASE UNCHANGED vars
  BY <1>9 DEF vars
<1> QED
  BY <1>1, <1>2, <1>3, <1>4, <1>5, <1>6, <1>7, <1>8, <1>9 DEF Next

\* Nobody but the owner of the port creates a file at the path.
LEMMA PathNext == TypeOK /\ PortOwned /\ PathOwned /\ [Next]_vars => PathOwned'
<1> SUFFICES ASSUME TypeOK, PortOwned, PathOwned, [Next]_vars PROVE PathOwned'
  OBVIOUS
<1> USE MonitorAssumption DEF TypeOK, PortOwned, PathOwned, Owning, Writing
<1>1. ASSUME NEW d \in Daemon, DaemonStep(d) PROVE PathOwned'
  <2>1. CASE Bind(d)
    BY <2>1 DEF Bind, Moves, pageVars
  <2>2. CASE UnlinkOld(d)
    BY <2>2 DEF UnlinkOld, Moves, pageVars
  <2>3. CASE CreateTable(d)
    BY <2>3 DEF CreateTable, Moves, pageVars
  <2>4. CASE FillTable(d)
    BY <2>4 DEF FillTable, Moves, pageVars
  <2>5. CASE WritePid(d)
    BY <2>5 DEF WritePid, Moves, pageVars
  <2>6. CASE CreateFails(d)
    BY <2>6 DEF CreateFails, Moves, pageVars
  <2>7. CASE RemovePid(d)
    BY <2>7 DEF RemovePid, Moves, pageVars
  <2>8. CASE CloseStats(d)
    BY <2>8 DEF CloseStats, Moves, pageVars
  <2> QED
    BY <1>1, <2>1, <2>2, <2>3, <2>4, <2>5, <2>6, <2>7, <2>8 DEF DaemonStep
<1>2. ASSUME NEW d \in Daemon, Carry(d) PROVE PathOwned'
  BY <1>2 DEF Carry, Moves, pageVars
<1>3. ASSUME NEW d \in Daemon, CloseListener(d) PROVE PathOwned'
  BY <1>3 DEF CloseListener, Moves, pageVars
<1>4. ASSUME NEW d \in Daemon, Crash(d) PROVE PathOwned'
  BY <1>4 DEF Crash, Moves, pageVars, Alive
<1>5. ASSUME NEW d \in Daemon, Reap(d) PROVE PathOwned'
  BY <1>5 DEF Reap, Moves, pageVars
<1>6. ASSUME NEW d \in Daemon, UnitStart(d) PROVE PathOwned'
  BY <1>6 DEF UnitStart, Moves, pageVars, Fresh
<1>7. CASE ControllerStep
  <2>1. CASE Swept
    BY <2>1 DEF Swept, fileVars, pageVars
  <2>2. CASE ControllerRemovePid
    BY <2>2 DEF ControllerRemovePid, fileVars, pageVars
  <2>3. CASE ControllerUnlink
    BY <2>3 DEF ControllerUnlink, fileVars, pageVars
  <2>4. ASSUME NEW d \in Daemon, Fork(d) PROVE PathOwned'
    BY <2>4 DEF Fork, Fresh, pageVars
  <2> QED
    BY <1>7, <2>1, <2>2, <2>3, <2>4 DEF ControllerStep
<1>8. CASE PageStep \/ Leave \/ Tick
  <2>1. UNCHANGED <<fileVars, real>>
    BY <1>8 DEF PageStep, Status, Reopen, Open, Check, SnapshotOpens, Snapshot, Leave, Tick
  <2> QED
    BY <2>1 DEF fileVars
<1>9. CASE UNCHANGED vars
  BY <1>9 DEF vars
<1> QED
  BY <1>1, <1>2, <1>3, <1>4, <1>5, <1>6, <1>7, <1>8, <1>9 DEF Next

\* A byte is counted in a table that is complete, and carried.
LEMMA TotalsNext == TypeOK /\ FormFollows /\ Totals /\ [Next]_vars => Totals'
<1> SUFFICES ASSUME TypeOK, FormFollows, Totals, [Next]_vars PROVE Totals'
  OBVIOUS
<1> USE MonitorAssumption DEF TypeOK, FormFollows, Totals
<1>1. ASSUME NEW d \in Daemon, DaemonStep(d) PROVE Totals'
  <2>1. CASE Bind(d)
    BY <2>1 DEF Bind, Moves, pageVars
  <2>2. CASE UnlinkOld(d)
    BY <2>2 DEF UnlinkOld, Moves, pageVars
  <2>3. CASE CreateTable(d)
    BY <2>3 DEF CreateTable, Moves, pageVars
  <2>4. CASE FillTable(d)
    <3>1. UNCHANGED <<path, pidfile, listener, serving>>
      BY <2>4 DEF FillTable
    <3>2. CASE Moves(d, "opened", "sized") /\ table' = [table EXCEPT ![d].form = "zeros"]
      BY <3>1, <3>2 DEF Moves, pageVars
    <3>3. CASE Moves(d, "sized", "filled") /\ table' = [table EXCEPT ![d].form = "filled"]
      BY <3>1, <3>3 DEF Moves, pageVars
    <3>4. CASE Moves(d, "filled", "stamped") /\ table' = [table EXCEPT ![d].form = "stamped"]
      BY <3>1, <3>4 DEF Moves, pageVars
    <3> QED
      BY <2>4, <3>2, <3>3, <3>4 DEF FillTable
  <2>5. CASE WritePid(d)
    BY <2>5 DEF WritePid, Moves, pageVars
  <2>6. CASE CreateFails(d)
    BY <2>6 DEF CreateFails, Moves, pageVars
  <2>7. CASE RemovePid(d)
    BY <2>7 DEF RemovePid, Moves, pageVars
  <2>8. CASE CloseStats(d)
    BY <2>8 DEF CloseStats, Moves, pageVars
  <2> QED
    BY <1>1, <2>1, <2>2, <2>3, <2>4, <2>5, <2>6, <2>7, <2>8 DEF DaemonStep
<1>2. ASSUME NEW d \in Daemon, Carry(d) PROVE Totals'
  BY <1>2 DEF Carry, Moves, pageVars
<1>3. ASSUME NEW d \in Daemon, CloseListener(d) PROVE Totals'
  BY <1>3 DEF CloseListener, Moves, pageVars
<1>4. ASSUME NEW d \in Daemon, Crash(d) PROVE Totals'
  BY <1>4 DEF Crash, Moves, pageVars, Alive
<1>5. ASSUME NEW d \in Daemon, Reap(d) PROVE Totals'
  BY <1>5 DEF Reap, Moves, pageVars
<1>6. ASSUME NEW d \in Daemon, UnitStart(d) PROVE Totals'
  BY <1>6 DEF UnitStart, Moves, pageVars, Fresh
<1>7. CASE ControllerStep
  <2>1. CASE Swept
    BY <2>1 DEF Swept, fileVars, pageVars
  <2>2. CASE ControllerRemovePid
    BY <2>2 DEF ControllerRemovePid, fileVars, pageVars
  <2>3. CASE ControllerUnlink
    BY <2>3 DEF ControllerUnlink, fileVars, pageVars
  <2>4. ASSUME NEW d \in Daemon, Fork(d) PROVE Totals'
    BY <2>4 DEF Fork, Fresh, pageVars
  <2> QED
    BY <1>7, <2>1, <2>2, <2>3, <2>4 DEF ControllerStep
<1>8. CASE PageStep \/ Leave \/ Tick
  <2>1. UNCHANGED <<fileVars, real>>
    BY <1>8 DEF PageStep, Status, Reopen, Open, Check, SnapshotOpens, Snapshot, Leave, Tick
  <2> QED
    BY <2>1 DEF fileVars
<1>9. CASE UNCHANGED vars
  BY <1>9 DEF vars
<1> QED
  BY <1>1, <1>2, <1>3, <1>4, <1>5, <1>6, <1>7, <1>8, <1>9 DEF Next

\* While a forwarder serves, what the page maps and keeps mapped is its table or none:
\* the path names no other.
LEMMA PassNext == TypeOK /\ PortOwned /\ PathOwned /\ PassInv /\ [Next]_vars => PassInv'
<1> SUFFICES ASSUME TypeOK, PortOwned, PathOwned, PassInv, [Next]_vars PROVE PassInv'
  OBVIOUS
<1> USE MonitorAssumption DEF TypeOK, PortOwned, PathOwned, PassInv, Owning, Writing
<1>1. ASSUME NEW d \in Daemon, DaemonStep(d) PROVE PassInv'
  <2>1. CASE Bind(d)
    BY <2>1 DEF Bind, Moves, pageVars
  <2>2. CASE UnlinkOld(d)
    BY <2>2 DEF UnlinkOld, Moves, pageVars
  <2>3. CASE CreateTable(d)
    BY <2>3 DEF CreateTable, Moves, pageVars
  <2>4. CASE FillTable(d)
    BY <2>4 DEF FillTable, Moves, pageVars
  <2>5. CASE WritePid(d)
    BY <2>5 DEF WritePid, Moves, pageVars
  <2>6. CASE CreateFails(d)
    BY <2>6 DEF CreateFails, Moves, pageVars
  <2>7. CASE RemovePid(d)
    BY <2>7 DEF RemovePid, Moves, pageVars
  <2>8. CASE CloseStats(d)
    BY <2>8 DEF CloseStats, Moves, pageVars
  <2> QED
    BY <1>1, <2>1, <2>2, <2>3, <2>4, <2>5, <2>6, <2>7, <2>8 DEF DaemonStep
<1>2. ASSUME NEW d \in Daemon, Carry(d) PROVE PassInv'
  BY <1>2 DEF Carry, Moves, pageVars
<1>3. ASSUME NEW d \in Daemon, CloseListener(d) PROVE PassInv'
  BY <1>3 DEF CloseListener, Moves, pageVars
<1>4. ASSUME NEW d \in Daemon, Crash(d) PROVE PassInv'
  BY <1>4 DEF Crash, Moves, pageVars, Alive
<1>5. ASSUME NEW d \in Daemon, Reap(d) PROVE PassInv'
  BY <1>5 DEF Reap, Moves, pageVars
<1>6. ASSUME NEW d \in Daemon, UnitStart(d) PROVE PassInv'
  BY <1>6 DEF UnitStart, Moves, pageVars, Fresh
<1>7. CASE ControllerStep
  <2>1. CASE Swept
    BY <2>1 DEF Swept, fileVars, pageVars
  <2>2. CASE ControllerRemovePid
    BY <2>2 DEF ControllerRemovePid, fileVars, pageVars
  <2>3. CASE ControllerUnlink
    BY <2>3 DEF ControllerUnlink, fileVars, pageVars
  <2>4. ASSUME NEW d \in Daemon, Fork(d) PROVE PassInv'
    BY <2>4 DEF Fork, Fresh, pageVars
  <2> QED
    BY <1>7, <2>1, <2>2, <2>3, <2>4 DEF ControllerStep
<1>8. CASE Status
  BY <1>8 DEF Status, fileVars
<1>9. CASE Reopen
  BY <1>9 DEF Reopen, fileVars
<1>10. CASE Open
  BY <1>10 DEF Open, fileVars
<1>11. CASE Check
  BY <1>11 DEF Check, fileVars
<1>12. CASE SnapshotOpens
  BY <1>12 DEF SnapshotOpens, fileVars
<1>13. CASE Snapshot
  BY <1>13 DEF Snapshot, fileVars, UpdateRates, ClearRates, NoRates, Stamp
<1>14. CASE Leave
  BY <1>14 DEF Leave, fileVars, UpdateRates, ClearRates, NoRates, Stamp
<1>15. CASE Tick
  BY <1>15 DEF Tick, fileVars
<1>16. CASE UNCHANGED vars
  BY <1>16 DEF vars
<1> QED
  BY <1>1, <1>2, <1>3, <1>4, <1>5, <1>6, <1>7, <1>8, <1>9, <1>10, <1>11, <1>12, <1>13, <1>14, <1>15, <1>16 DEF Next, PageStep

\* A byte moves the total of the owner of the port and the bytes carried together; any
\* other step of a forwarder moves neither, and the page moves the anchor to a reading.
LEMMA AnchorNext == TypeOK /\ PortOwned /\ FormFollows /\ Totals /\ AnchorInv /\ [Next]_vars => AnchorInv'
<1> SUFFICES ASSUME TypeOK, PortOwned, FormFollows, Totals, AnchorInv, [Next]_vars PROVE AnchorInv'
  OBVIOUS
<1> /\ {real, anchored, carried, MaxBytes, rates.up, rates.shown, rates.age} \subseteq Nat
    /\ real <= MaxBytes /\ anchored <= MaxBytes /\ carried <= MaxBytes
    /\ rates.started \in Daemon \cup {None} /\ rates.has \in BOOLEAN
    /\ \A d \in Daemon : table[d].up \in Nat
  BY MonitorAssumption DEF TypeOK
<1> USE MonitorAssumption DEF TypeOK, PortOwned, FormFollows, Totals, AnchorInv, Owning
<1>1. ASSUME NEW d \in Daemon, DaemonStep(d) PROVE AnchorInv'
  <2>1. CASE Bind(d)
    BY <2>1 DEF Bind, Moves, pageVars
  <2>2. CASE UnlinkOld(d)
    BY <2>2 DEF UnlinkOld, Moves, pageVars
  <2>3. CASE CreateTable(d)
    BY <2>3 DEF CreateTable, Moves, pageVars
  <2>4. CASE FillTable(d)
    <3>1. UNCHANGED <<path, pidfile, listener, serving>>
      BY <2>4 DEF FillTable
    <3>2. CASE Moves(d, "opened", "sized") /\ table' = [table EXCEPT ![d].form = "zeros"]
      BY <3>1, <3>2 DEF Moves, pageVars
    <3>3. CASE Moves(d, "sized", "filled") /\ table' = [table EXCEPT ![d].form = "filled"]
      BY <3>1, <3>3 DEF Moves, pageVars
    <3>4. CASE Moves(d, "filled", "stamped") /\ table' = [table EXCEPT ![d].form = "stamped"]
      BY <3>1, <3>4 DEF Moves, pageVars
    <3> QED
      BY <2>4, <3>2, <3>3, <3>4 DEF FillTable
  <2>5. CASE WritePid(d)
    BY <2>5 DEF WritePid, Moves, pageVars
  <2>6. CASE CreateFails(d)
    BY <2>6 DEF CreateFails, Moves, pageVars
  <2>7. CASE RemovePid(d)
    <3>1. pidfile' = None /\ UNCHANGED <<path, listener, table, serving>>
      BY <2>7 DEF RemovePid
    <3>2. CASE Moves(d, "closed", "unrecorded")
      BY <3>1, <3>2 DEF Moves, pageVars
    <3>3. CASE Moves(d, "failed", "gone")
      BY <3>1, <3>3 DEF Moves, pageVars
    <3> QED
      BY <2>7, <3>2, <3>3 DEF RemovePid
  <2>8. CASE CloseStats(d)
    BY <2>8 DEF CloseStats, Moves, pageVars
  <2> QED
    BY <1>1, <2>1, <2>2, <2>3, <2>4, <2>5, <2>6, <2>7, <2>8 DEF DaemonStep
<1>2. ASSUME NEW d \in Daemon, Carry(d) PROVE AnchorInv'
  <2>1. UNCHANGED <<daemon, rates, anchored, carried>> /\ real' = real + 1
    BY <1>2 DEF Carry, pageVars
  <2>2. /\ table'[d].up = table[d].up + 1 /\ table'[d].form = table[d].form
        /\ \A e \in Daemon \ {d} : table'[e] = table[e]
    BY <1>2 DEF Carry
  <2>3. \A e \in Daemon : daemon[e] \in {"stamped", "run"} => e = d
    BY <1>2 DEF Carry
  <2> QED
    BY <2>1, <2>2, <2>3
<1>3. ASSUME NEW d \in Daemon, CloseListener(d) PROVE AnchorInv'
  BY <1>3 DEF CloseListener, Moves, pageVars
<1>4. ASSUME NEW d \in Daemon, Crash(d) PROVE AnchorInv'
  BY <1>4 DEF Crash, Moves, pageVars, Alive
<1>5. ASSUME NEW d \in Daemon, Reap(d) PROVE AnchorInv'
  BY <1>5 DEF Reap, Moves, pageVars
<1>6. ASSUME NEW d \in Daemon, UnitStart(d) PROVE AnchorInv'
  BY <1>6 DEF UnitStart, Moves, pageVars, Fresh
<1>7. CASE ControllerStep
  <2>1. CASE Swept
    BY <2>1 DEF Swept, fileVars, pageVars
  <2>2. CASE ControllerRemovePid
    BY <2>2 DEF ControllerRemovePid, fileVars, pageVars
  <2>3. CASE ControllerUnlink
    BY <2>3 DEF ControllerUnlink, fileVars, pageVars
  <2>4. ASSUME NEW d \in Daemon, Fork(d) PROVE AnchorInv'
    BY <2>4 DEF Fork, Fresh, pageVars
  <2> QED
    BY <1>7, <2>1, <2>2, <2>3, <2>4 DEF ControllerStep
<1>8. CASE Status
  BY <1>8 DEF Status, fileVars
<1>9. CASE Reopen
  BY <1>9 DEF Reopen, fileVars
<1>10. CASE Open
  BY <1>10 DEF Open, fileVars
<1>11. CASE Check
  BY <1>11 DEF Check, fileVars
<1>12. CASE SnapshotOpens
  BY <1>12 DEF SnapshotOpens, fileVars
<1>13. CASE Snapshot
  <2>1. UNCHANGED <<daemon, table, real>>
    BY <1>13 DEF Snapshot, fileVars
  <2>2. CASE running /\ att # None
    <3> DEFINE total == table[att].up
               started == Stamp(att)
    <3>1. UpdateRates(total, started) /\ att \in Daemon
      BY <1>13, <2>2 DEF Snapshot
    <3>2. \/ started = None /\ total = 0
          \/ started = att /\ table[att].form = "stamped"
      BY <3>1 DEF Stamp
    <3> HIDE DEF total, started
    <3>3. CASE ~rates.has \/ rates.started # started \/ total < rates.up
      BY <2>1, <3>1, <3>2, <3>3 DEF UpdateRates, total
    <3>4. CASE /\ ~(~rates.has \/ rates.started # started \/ total < rates.up)
               /\ rates.age < Short
      BY <2>1, <3>1, <3>4 DEF UpdateRates
    <3>5. CASE /\ ~(~rates.has \/ rates.started # started \/ total < rates.up)
               /\ ~(rates.age < Short)
      <4>1. /\ rates' = [rates EXCEPT !.shown = total - rates.up,
                                      !.up = IF rates.age >= Window THEN total ELSE @,
                                      !.age = IF @ >= Window THEN 0 ELSE @]
            /\ carried' = real - anchored
            /\ anchored' = IF rates.age >= Window THEN real ELSE anchored
        BY <3>1, <3>5 DEF UpdateRates
      <4>2. /\ rates'.has /\ rates'.started = started /\ rates'.shown = total - rates.up
            /\ rates'.up = IF rates.age >= Window THEN total ELSE rates.up
        BY <3>5, <4>1
      <4>3. CASE started = None
        BY <2>1, <3>1, <3>2, <3>5, <4>1, <4>2, <4>3
      <4>4. CASE started = att /\ table[att].form = "stamped"
        BY <2>1, <3>1, <3>5, <4>1, <4>2, <4>4 DEF total
      <4> QED
        BY <3>2, <4>3, <4>4
    <3> QED
      BY <3>3, <3>4, <3>5
  <2>3. CASE ~(running /\ att # None)
    BY <1>13, <2>1, <2>3 DEF Snapshot, ClearRates, NoRates
  <2> QED
    BY <2>2, <2>3
<1>14. CASE Leave
  BY <1>14 DEF Leave, fileVars, UpdateRates, ClearRates, NoRates, Stamp
<1>15. CASE Tick
  BY <1>15 DEF Tick, fileVars
<1>16. CASE UNCHANGED vars
  BY <1>16 DEF vars
<1> QED
  BY <1>1, <1>2, <1>3, <1>4, <1>5, <1>6, <1>7, <1>8, <1>9, <1>10, <1>11, <1>12, <1>13, <1>14, <1>15, <1>16 DEF Next, PageStep

\* The type of struct monitor_rate_state.
RateStates == [has : BOOLEAN, started : Daemon \cup {None}, up : 0 .. MaxBytes,
               age : 0 .. Window, shown : 0 .. MaxBytes]

\* A new anchor is a rate state ...
LEMMA RatesTaken ==
  ASSUME NEW h \in BOOLEAN, NEW s \in Daemon \cup {None}, NEW u \in 0 .. MaxBytes,
         NEW a \in 0 .. Window, NEW w \in 0 .. MaxBytes
  PROVE  [has |-> h, started |-> s, up |-> u, age |-> a, shown |-> w] \in RateStates
BY DEF RateStates

\* ... and so is a new reading against the old one.
LEMMA RatesRead ==
  ASSUME rates \in RateStates, NEW u \in 0 .. MaxBytes, NEW a \in 0 .. Window,
         NEW w \in 0 .. MaxBytes
  PROVE  [rates EXCEPT !.shown = w, !.up = u, !.age = a] \in RateStates
BY DEF RateStates

\* The totals stay within the bytes carried, the difference with the anchor within the
\* totals, and fp_stats_open_readonly keeps no mapping without a header.
LEMMA TypeNext == TypeOK /\ PortOwned /\ FormFollows /\ Totals /\ PassInv /\ AnchorInv /\ [Next]_vars => TypeOK'
<1> SUFFICES ASSUME TypeOK, PortOwned, FormFollows, Totals, PassInv, AnchorInv, [Next]_vars PROVE TypeOK'
  OBVIOUS
<1> /\ {real, anchored, carried, MaxBytes, rates.up, rates.shown, rates.age} \subseteq Nat
    /\ real <= MaxBytes /\ anchored <= MaxBytes /\ carried <= MaxBytes
    /\ rates.started \in Daemon \cup {None} /\ rates.has \in BOOLEAN
    /\ \A d \in Daemon : table[d].up \in Nat
  BY MonitorAssumption DEF TypeOK
<1> USE MonitorAssumption DEF TypeOK, PortOwned, FormFollows, Totals, PassInv, AnchorInv, Owning, Starting, Stopping, Usable, NoRates
<1>1. ASSUME NEW d \in Daemon, DaemonStep(d) PROVE TypeOK'
  <2>1. CASE Bind(d)
    BY <2>1 DEF Bind, Moves, pageVars
  <2>2. CASE UnlinkOld(d)
    BY <2>2 DEF UnlinkOld, Moves, pageVars
  <2>3. CASE CreateTable(d)
    BY <2>3 DEF CreateTable, Moves, pageVars
  <2>4. CASE FillTable(d)
    <3>1. UNCHANGED <<path, pidfile, listener, serving>>
      BY <2>4 DEF FillTable
    <3>2. CASE Moves(d, "opened", "sized") /\ table' = [table EXCEPT ![d].form = "zeros"]
      BY <3>1, <3>2 DEF Moves, pageVars
    <3>3. CASE Moves(d, "sized", "filled") /\ table' = [table EXCEPT ![d].form = "filled"]
      BY <3>1, <3>3 DEF Moves, pageVars
    <3>4. CASE Moves(d, "filled", "stamped") /\ table' = [table EXCEPT ![d].form = "stamped"]
      BY <3>1, <3>4 DEF Moves, pageVars
    <3> QED
      BY <2>4, <3>2, <3>3, <3>4 DEF FillTable
  <2>5. CASE WritePid(d)
    BY <2>5 DEF WritePid, Moves, pageVars
  <2>6. CASE CreateFails(d)
    <3>1. PICK state \in {"unlinked", "opened", "sized"} : Moves(d, state, "failed")
      BY <2>6 DEF CreateFails
    <3> QED
      BY <2>6, <3>1 DEF CreateFails, Moves, pageVars
  <2>7. CASE RemovePid(d)
    <3>1. pidfile' = None /\ UNCHANGED <<path, listener, table, serving>>
      BY <2>7 DEF RemovePid
    <3>2. CASE Moves(d, "closed", "unrecorded")
      BY <3>1, <3>2 DEF Moves, pageVars
    <3>3. CASE Moves(d, "failed", "gone")
      BY <3>1, <3>3 DEF Moves, pageVars
    <3> QED
      BY <2>7, <3>2, <3>3 DEF RemovePid
  <2>8. CASE CloseStats(d)
    BY <2>8 DEF CloseStats, Moves, pageVars
  <2> QED
    BY <1>1, <2>1, <2>2, <2>3, <2>4, <2>5, <2>6, <2>7, <2>8 DEF DaemonStep
<1>2. ASSUME NEW d \in Daemon, Carry(d) PROVE TypeOK'
  <2>1. real' \in 0 .. MaxBytes /\ table[d].up + 1 \in 0 .. MaxBytes
    BY <1>2 DEF Carry
  <2>2. table' \in [Daemon -> [form : {"none", "empty", "zeros", "filled", "stamped"},
                               up : 0 .. MaxBytes]]
    BY <1>2, <2>1 DEF Carry
  <2>3. \A e \in Daemon : table'[e].form = table[e].form
    BY <1>2 DEF Carry
  <2> QED
    BY <1>2, <2>1, <2>2, <2>3 DEF Carry, pageVars
<1>3. ASSUME NEW d \in Daemon, CloseListener(d) PROVE TypeOK'
  BY <1>3 DEF CloseListener, Moves, pageVars
<1>4. ASSUME NEW d \in Daemon, Crash(d) PROVE TypeOK'
  BY <1>4 DEF Crash, Moves, pageVars, Alive
<1>5. ASSUME NEW d \in Daemon, Reap(d) PROVE TypeOK'
  BY <1>5 DEF Reap, Moves, pageVars
<1>6. ASSUME NEW d \in Daemon, UnitStart(d) PROVE TypeOK'
  BY <1>6 DEF UnitStart, Moves, pageVars, Fresh
<1>7. CASE ControllerStep
  <2>1. CASE Swept
    BY <2>1 DEF Swept, fileVars, pageVars
  <2>2. CASE ControllerRemovePid
    BY <2>2 DEF ControllerRemovePid, fileVars, pageVars
  <2>3. CASE ControllerUnlink
    BY <2>3 DEF ControllerUnlink, fileVars, pageVars
  <2>4. ASSUME NEW d \in Daemon, Fork(d) PROVE TypeOK'
    BY <2>4 DEF Fork, Fresh, pageVars
  <2> QED
    BY <1>7, <2>1, <2>2, <2>3, <2>4 DEF ControllerStep
<1>8. CASE Status
  BY <1>8 DEF Status, fileVars
<1>9. CASE Reopen
  BY <1>9 DEF Reopen, fileVars
<1>10. CASE Open
  BY <1>10 DEF Open, fileVars
<1>11. CASE Check
  BY <1>11 DEF Check, fileVars
<1>12. CASE SnapshotOpens
  BY <1>12 DEF SnapshotOpens, fileVars
<1>13. CASE Snapshot
  <2>1. /\ UNCHANGED <<fileVars, ctl, att, serving, real>>
        /\ mon' = "status" /\ running' = FALSE /\ again' = FALSE
    BY <1>13 DEF Snapshot
  <2>0. rates \in RateStates
    BY DEF RateStates
  <2> DEFINE Kept == /\ rates' \in RateStates /\ anchored' \in 0 .. MaxBytes
                     /\ carried' \in 0 .. MaxBytes /\ frame' \in Daemon \cup {None}
  <2>2. ASSUME running, att # None PROVE Kept
    <3> DEFINE total == table[att].up
               started == Stamp(att)
    <3>1. UpdateRates(total, started) /\ att \in Daemon /\ frame' = att
      BY <1>13, <2>2 DEF Snapshot
    <3>2. total \in 0 .. MaxBytes /\ started \in Daemon \cup {None}
      BY <3>1 DEF Stamp
    <3> HIDE DEF total, started
    <3>3. CASE ~rates.has \/ rates.started # started \/ total < rates.up
      <4>1. /\ rates' = [has |-> TRUE, started |-> started, up |-> total, age |-> 0,
                         shown |-> 0]
            /\ anchored' = real /\ carried' = 0
        BY <3>1, <3>3 DEF UpdateRates
      <4>2. 0 \in 0 .. MaxBytes /\ 0 \in 0 .. Window
        OBVIOUS
      <4>3. rates' \in RateStates
        BY <3>2, <4>1, <4>2, RatesTaken, Zenon
      <4> QED
        BY <3>1, <4>1, <4>3
    <3>4. CASE /\ ~(~rates.has \/ rates.started # started \/ total < rates.up)
               /\ rates.age < Short
      BY <2>0, <3>1, <3>4 DEF UpdateRates
    <3>5. CASE /\ ~(~rates.has \/ rates.started # started \/ total < rates.up)
               /\ ~(rates.age < Short)
      <4>1. /\ total - rates.up \in 0 .. MaxBytes /\ real - anchored \in 0 .. MaxBytes
            /\ total \in 0 .. MaxBytes
        BY <3>2, <3>5
      <4>2. /\ rates' = [rates EXCEPT !.shown = total - rates.up,
                                      !.up = IF rates.age >= Window THEN total ELSE @,
                                      !.age = IF @ >= Window THEN 0 ELSE @]
            /\ carried' = real - anchored
            /\ anchored' = IF rates.age >= Window THEN real ELSE anchored
        BY <3>1, <3>5 DEF UpdateRates
      <4> DEFINE u == IF rates.age >= Window THEN total ELSE rates.up
                 a == IF rates.age >= Window THEN 0 ELSE rates.age
      <4>3. u \in 0 .. MaxBytes /\ a \in 0 .. Window
        BY <4>1
      <4>4. rates' = [rates EXCEPT !.shown = total - rates.up, !.up = u, !.age = a]
        BY <4>2
      <4> HIDE DEF u, a
      <4>5. rates' \in RateStates
        BY <2>0, <4>1, <4>3, <4>4, RatesRead
      <4> QED
        BY <3>1, <4>1, <4>2, <4>5
    <3> QED
      BY <3>3, <3>4, <3>5
  <2>3. ASSUME ~(running /\ att # None) PROVE Kept
    <3>1. NoRates \in RateStates
      BY DEF RateStates
    <3> HIDE DEF NoRates
    <3>2. CASE ClearRates /\ frame' = None
      BY <3>1, <3>2 DEF ClearRates
    <3>3. CASE UNCHANGED <<rates, anchored, carried>> /\ frame' = None
      BY <2>0, <3>3
    <3> QED
      BY <1>13, <2>3, <3>2, <3>3 DEF Snapshot
  <2>4. Kept
    BY <2>2, <2>3
  <2>5. att # None => Usable(att)
    BY <1>13 DEF Snapshot
  <2> HIDE DEF Kept
  <2>6. table' = table /\ daemon' = daemon
    BY <2>1 DEF fileVars
  <2>7. att' # None => Usable(att)'
    BY <2>1, <2>5, <2>6
  <2>8. rates' \in RateStates /\ {real', anchored', carried'} \subseteq 0 .. MaxBytes
    BY <2>1, <2>4 DEF Kept
  <2>9. {path', pidfile', listener', att', frame', serving'} \subseteq Daemon \cup {None}
    BY <2>1, <2>4 DEF Kept, fileVars
  <2> QED
    BY <2>1, <2>6, <2>7, <2>8, <2>9 DEF fileVars, RateStates
<1>14. CASE Leave
  BY <1>14 DEF Leave, fileVars, UpdateRates, ClearRates, NoRates, Stamp
<1>15. CASE Tick
  <2>1. rates.age + 1 \in 0 .. Window
    BY <1>15 DEF Tick
  <2>2. rates' \in [has : BOOLEAN, started : Daemon \cup {None}, up : 0 .. MaxBytes,
                    age : 0 .. Window, shown : 0 .. MaxBytes]
    BY <1>15, <2>1 DEF Tick
  <2> QED
    BY <1>15, <2>2 DEF Tick, fileVars
<1>16. CASE UNCHANGED vars
  BY <1>16 DEF vars
<1> QED
  BY <1>1, <1>2, <1>3, <1>4, <1>5, <1>6, <1>7, <1>8, <1>9, <1>10, <1>11, <1>12, <1>13, <1>14, <1>15, <1>16 DEF Next, PageStep

-----------------------------------------------------------------------------
\* What is shown.  The page draws in Snapshot only: the mapped table is the one of the
\* forwarder that has served all along, whose total and anchor agree with the bytes
\* carried.  Until the next status is read that forwarder goes on or is gone.
LEMMA ShownNext == MonitorInv /\ [Next]_vars => ShowsServing' /\ RatesSound'
<1> SUFFICES ASSUME MonitorInv, [Next]_vars PROVE ShowsServing' /\ RatesSound'
  OBVIOUS
<1>1. PassInv' /\ AnchorInv'
  BY PassNext, AnchorNext DEF MonitorInv
<1>2. CASE Snapshot
  <2>1. CASE running /\ att # None
    <3>1. ASSUME serving # None
          PROVE  /\ att = serving /\ serving \in Daemon /\ daemon[serving] = "run"
                 /\ rates'.has /\ rates'.started = serving
      <4>1. att = serving /\ serving \in Daemon /\ daemon[serving] = "run"
        BY <1>2, <2>1, <3>1 DEF MonitorInv, PassInv, Snapshot, TypeOK
      <4>2. Stamp(att) = serving
        BY <4>1 DEF MonitorInv, FormFollows, Stamp
      <4>3. UpdateRates(table[att].up, serving)
        BY <1>2, <2>1, <4>2 DEF Snapshot
      <4>4. rates \in RateStates
        BY DEF MonitorInv, TypeOK, RateStates
      <4>5. CASE ~rates.has \/ rates.started # serving \/ table[att].up < rates.up
        BY <4>1, <4>3, <4>5 DEF UpdateRates
      <4>6. CASE rates.has /\ rates.started = serving /\ rates' = rates
        BY <4>1, <4>6
      <4>7. CASE /\ rates.has /\ rates.started = serving
                 /\ rates' = [rates EXCEPT !.shown = table[att].up - rates.up,
                      !.up = IF rates.age >= Window THEN table[att].up ELSE @,
                      !.age = IF @ >= Window THEN 0 ELSE @]
        BY <4>1, <4>4, <4>7 DEF RateStates
      <4> QED
        BY <4>1, <4>3, <4>5, <4>6, <4>7 DEF UpdateRates
    <3>2. UNCHANGED <<daemon, serving>> /\ frame' = att
      BY <1>2, <2>1 DEF Snapshot, fileVars
    <3> QED
      BY <1>1, <3>1, <3>2 DEF ShowsServing, RatesSound, AnchorInv
  <2>2. CASE ~(running /\ att # None)
    BY <1>1, <1>2, <2>2 DEF Snapshot, ShowsServing, RatesSound, AnchorInv
  <2> QED
    BY <2>1, <2>2
<1>3. CASE mon' # "status"
  BY <1>1, <1>3 DEF ShowsServing, RatesSound, AnchorInv
<1>4. CASE ~Snapshot /\ mon' = "status"
  <2>1. \/ Leave
        \/ /\ mon = "status" /\ serving' \in {serving, None}
           /\ UNCHANGED <<frame, carried, rates.shown>>
    <3>1. ASSUME NEW d \in Daemon, DaemonStep(d)
          PROVE  UNCHANGED <<mon, frame, carried, rates, serving>>
      BY <3>1 DEF DaemonStep, Bind, UnlinkOld, CreateTable, FillTable, WritePid,
                  CreateFails, RemovePid, CloseStats, Moves, pageVars
    <3>2. ASSUME NEW d \in Daemon,
                 Carry(d) \/ CloseListener(d) \/ Crash(d) \/ Reap(d) \/ UnitStart(d)
          PROVE  /\ UNCHANGED <<mon, frame, carried, rates>>
                 /\ serving' \in {serving, None}
      BY <3>2 DEF Carry, CloseListener, Crash, Reap, UnitStart, Moves, pageVars
    <3>3. CASE ControllerStep
      BY <1>4, <3>3 DEF ControllerStep, Swept, ControllerRemovePid, ControllerUnlink, Fork,
                        pageVars
    <3>4. CASE PageStep
      BY <1>4, <3>4 DEF PageStep, Status, Reopen, Open, Check, SnapshotOpens
    <3>5. CASE Tick
      BY <1>4, <3>5 DEF Tick, MonitorInv, TypeOK
    <3>6. CASE UNCHANGED vars
      BY <1>4, <3>6 DEF vars
    <3> QED
      BY <1>4, <3>1, <3>2, <3>3, <3>4, <3>5, <3>6 DEF Next
  <2>2. CASE Leave
    BY <1>1, <2>2 DEF Leave, ShowsServing, RatesSound, AnchorInv
  <2>3. CASE /\ mon = "status" /\ serving' \in {serving, None}
             /\ UNCHANGED <<frame, carried, rates.shown>>
    BY <1>1, <2>3 DEF MonitorInv, ShowsServing, RatesSound, AnchorInv
  <2> QED
    BY <2>1, <2>2, <2>3
<1> QED
  BY <1>2, <1>3, <1>4

\* At first there is no forwarder, no file and no anchor.
LEMMA MonitorInit == Init => MonitorInv
<1> SUFFICES ASSUME Init PROVE MonitorInv
  OBVIOUS
<1>1. TypeOK
  <2>1. rates \in RateStates
    BY MonitorAssumption DEF Init, NoRates, RateStates
  <2>2. 0 \in 0 .. MaxBytes /\ 0 \in 0 .. MaxCrashes
    BY MonitorAssumption
  <2>3. /\ daemon \in [Daemon -> Starting \cup Stopping \cup {"none", "run", "zombie", "gone"}]
        /\ table \in [Daemon -> [form : {"none", "empty", "zeros", "filled", "stamped"},
                                 up : 0 .. MaxBytes]]
    BY <2>2 DEF Init
  <2> QED
    BY <2>1, <2>2, <2>3 DEF Init, TypeOK, RateStates
<1>2. PortOwned /\ FormFollows /\ PathOwned /\ Totals
  BY MonitorAssumption DEF Init, PortOwned, FormFollows, PathOwned, Totals, Owning, Writing
<1>3. PassInv /\ AnchorInv /\ ShowsServing /\ RatesSound
  BY MonitorAssumption
  DEF Init, PassInv, AnchorInv, ShowsServing, RatesSound, NoRates
<1> QED
  BY <1>1, <1>2, <1>3 DEF MonitorInv

\* Every reachable state satisfies the inductive invariant.
THEOREM MonitorInvHolds == Spec => []MonitorInv
<1>1. MonitorInv /\ [Next]_vars => MonitorInv'
  BY PortNext, FormNext, PathNext, TotalsNext, PassNext, AnchorNext, TypeNext, ShownNext
  DEF MonitorInv
<1> QED
  BY MonitorInit, <1>1, PTL DEF Spec

\* Every variable keeps its type, the totals and the rates stay within the bytes carried
\* (no subtraction of update_monitor_rates wraps), and what stays mapped from one pass to
\* the next has the header fp_stats_open_readonly asks for.
THEOREM MonitorTypes == Spec => []TypeOK
<1>1. MonitorInv => TypeOK
  BY DEF MonitorInv
<1> QED
  BY MonitorInvHolds, <1>1, PTL

\* The page shows the totals of the forwarder that serves, however many were replaced.
THEOREM PageShowsServing == Spec => []ShowsServing
<1>1. MonitorInv => ShowsServing
  BY DEF MonitorInv
<1> QED
  BY MonitorInvHolds, <1>1, PTL

\* The rate on the page is what was really carried in its window.
THEOREM PageRatesSound == Spec => []RatesSound
<1>1. MonitorInv => RatesSound
  BY DEF MonitorInv
<1> QED
  BY MonitorInvHolds, <1>1, PTL

=============================================================================
