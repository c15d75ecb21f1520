SPECIFICATION FairSpec
CONSTANTS
  Controller = {c1, c2}
  Daemon = {d1, d2, d3}
  None = None
  Systemd = Systemd
  InitProcess = InitProcess
  Proxy = {p1}
  Bypass = {{}}
  Ops = {"enable", "disable", "uninstall"}
  MaxFaults = 0
  MaxCrashes = 0
  MaxUnitStarts = 1
  MaxOps = 2
INVARIANTS
  TypeOK
  UninstallRemoves
PROPERTY OperationsEnd
CHECK_DEADLOCK FALSE
