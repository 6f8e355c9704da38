CONSTANTS
  NumColumns = 3
  ArrayColumns = {2, 3}
  UnreadableArrays = {3}
  Downloads <- SomeDownloads
  Items <- AnyItem
  MaxDamage = 2
  TotalBytesLimit = 12
  ArrayLimit = 2
  Null = Null
SPECIFICATION Spec
INVARIANTS
  DeliveredIsSent
  AcceptedIsSent
  UndamagedIsRead
