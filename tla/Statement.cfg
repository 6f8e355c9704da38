CONSTANTS
  MaxExecutions = 2
  MaxRows = 2
  MaxColumns = 2
  NoStream = NoStream
  NoRow = NoRow
SPECIFICATION FairSpec
INVARIANTS
  TypeOK
  CurrentRowIsLastTaken
  EndIsTrue
  RowsAccountedFor
PROPERTIES
  NoRowAfterError
  FetchLoopEnds
