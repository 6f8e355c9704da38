CONSTANTS
  MaxPolls = 3
  RowCounts = {0, 2, 3, 6}
  IntRange = 6
  CountRange = 20
  NoInstance = NoInstance
SPECIFICATION FairSpec
INVARIANTS
  TypeOK
  ResultOnlyOfSuccess
  RunsOnce
  ExplainedAsRun
PROPERTIES
  CallsReturn
  ImplementsCursorSafe
