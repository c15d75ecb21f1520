SPECIFICATION Spec
CONSTANTS
  Width = 3
  MaxBypass = 2
  MaxPort = 1
  Bad = Bad
  Writer = {forwarder, controller}
  Loopback <- LoopbackNet
  Request <- OneRequest
  NoRequest = NoRequest
  Redirect = Redirect
  MaxFaults = 0
  MaxJumps = 2
INVARIANT MatchedBeforeRedirection
