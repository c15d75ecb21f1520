SPECIFICATION FairSpec
CONSTANTS
  Starts = 2
  None = None
  MaxBytes = 2
  MaxCrashes = 1
  Short = 1
  Window = 2
INVARIANTS
  TypeOK
  ShowsServing
  RatesSound
PROPERTY ServingIsShown
CHECK_DEADLOCK FALSE
