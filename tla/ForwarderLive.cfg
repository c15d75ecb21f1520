SPECIFICATION FairSpec
CONSTANTS
  Pid = {p1, p2}
  NoPid = NoPid
  MaxClients = 2
  MaxBytes = 0
PROPERTIES
  TermStops
  ZombiesReaped
CHECK_DEADLOCK FALSE
