SPECIFICATION Spec
CONSTANTS
  Pid = {p1, p2}
  NoPid = NoPid
  MaxClients = 2
  MaxBytes = 0
SYMMETRY PidSymmetry
INVARIANT TouchesMappedTable
CHECK_DEADLOCK FALSE
