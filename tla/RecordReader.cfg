CONSTANTS
  w1 = w1
  w2 = w2
  Workers <- TwoWorkers
  TotalRecords = 7
  BatchSize = 2
  PrefetchLimit = 2
  MayFail = TRUE
  MayTruncate = TRUE
  Absent = Absent
  Failed = Failed
  NoTask = NoTask
SPECIFICATION FairSpec
INVARIANTS
  TypeOK
  InOrder
  CompleteAtEnd
  OnePlace
  AwaitedBatchScheduled
  NoSleeperWithWork
PROPERTIES
  NextReturns
  BusyWorkerExits
  ImplementsCursorSafe
