SPECIFICATION FairSpec
CONSTANTS
  Controller = {c1, c2}
  Daemon = {d1, d2}
  None = None
  Systemd = Systemd
  InitProcess = InitProcess
  Proxy = {p1}
  Bypass = {{}}
  Ops = {"enable", "disable"}
  MaxFaults = 0
  MaxCrashes = 0
  MaxUnitStarts = 1
  MaxOps = 2
PROPERTY RemainsEnabled
CHECK_DEADLOCK FALSE
