SPECIFICATION FairSpec
CONSTANTS
  Byte = {0, 5}
  DomainLength = {0, 1}
  Refusal <- SomeRefusals
  MaxBytes = 2
  BufferSize = 2
  SendBuffer = 1
INVARIANTS
  TypeOK
  Accounted
PROPERTIES
  RefinesTunnel
  WorkerEnds
CHECK_DEADLOCK FALSE
