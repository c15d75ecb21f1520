SPECIFICATION FairSpec
CONSTANTS
  Job = {j1, j2}
  NoJob = NoJob
  Sites = 2
  Speeds = 2
  Addresses = 2
  MaxProgress = 1
  PipeSize = 2
INVARIANTS
  TypeOK
  NoUseAfterFree
  NothingLeaked
  ReportConsistent
  DoneIsLast
  HistoryAgrees
  DiagnosisStops
  StackOutlives
PROPERTIES
  UsesResolver
  CancelEnds
CHECK_DEADLOCK FALSE
