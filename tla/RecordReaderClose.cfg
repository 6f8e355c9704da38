CONSTANTS
  w1 = w1
  w2 = w2
  Workers <- TwoWorkers
  TotalRecords = 3
  BatchSize = 2
  PrefetchLimit = 2
  MayFail = FALSE
  MayTruncate = FALSE
  Absent = Absent
  Failed = Failed
  NoTask = NoTask
SPECIFICATION FairSpec
PROPERTIES
  CloseReturns
