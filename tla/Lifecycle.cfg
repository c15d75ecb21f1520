SPECIFICATION Spec
CONSTANTS
  Controller = {c1, c2}
  Daemon = {d1, d2}
  None = None
  Systemd = Systemd
  InitProcess = InitProcess
  Proxy = {p1, p2}
  Bypass = {{}, {"lan"}}
  Ops = {"enable", "saved", "bypass", "disable", "uninstall"}
  MaxFaults = 1
  MaxCrashes = 1
  MaxUnitStarts = 0
  MaxOps = 4
CONSTRAINT LockIntact
SYMMETRY ProcessSymmetry
INVARIANTS
  ReadyBeforeSuccess
  DisabledMeansStopped
  ServesSavedConfig
  NoStrandedRules
CHECK_DEADLOCK FALSE
