CONSTANTS
  t1 = t1
  t2 = t2
  NoThread = NoThread
  Threads <- MCThreads
  MaxObjects = 3
  MaxClients = 2
SPECIFICATION FairSpec
INVARIANTS
  NoUseOfDestroyed
  HandleFindsItsObject
  ListsItsStatements
PROPERTIES
  CallsReturn
