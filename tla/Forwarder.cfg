SPECIFICATION Spec
CONSTANTS
  Pid = {p1, p2, p3}
  NoPid = NoPid
  MaxClients = 2
  MaxBytes = 1
SYMMETRY PidSymmetry
INVARIANTS
  TypeOK
  ActiveClientsExact
  WorkerLimit
  NoLostZombie
  SlotExclusive
  OwnCounters
  NoSlotMeansOrphan
CHECK_DEADLOCK FALSE
