CONSTANTS
  NoNumber = NoNumber
  Unbound = Unbound
  None = None
  Rows <- MCRows
  Bindings <- MCBindings
  Charsets <- MCCharsets
  Messages <- MCMessages
  ConnectionNames <- MCConnectionNames
  LengthMax = 31
  DiagSizes = {0, 1, 3, 6, 7, 12, 20}
  ShortMax = 1
  LongMax = 3
  DoubleMax = 4
  BigMax = 7
  MomentMax = 3
  MaxRows = 2
  MaxRecords = 2
SPECIFICATION Spec
INVARIANTS
  WrittenFits
  NoTextLostUntold
  DeliveredAsItIs
