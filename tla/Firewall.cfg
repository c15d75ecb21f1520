SPECIFICATION Spec
CONSTANTS
  Width = 3
  MaxBypass = 2
  MaxPort = 1
  Bad = Bad
  Writer = {w1}
  Loopback <- LoopbackNet
  Request <- SomeRequests
  NoRequest = NoRequest
  Redirect = Redirect
  MaxFaults = 1
  MaxJumps = 3
INVARIANTS
  TypeOK
  DirectStaysDirect
  EnableComplete
  DisableUnhooks
  CheckSound
  CheckComplete
