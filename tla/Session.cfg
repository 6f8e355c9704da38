CONSTANTS
  None = None
  NoValue = NoValue
  Numerals = {"60", "5"}
  UrlUsers <- MCUrlUsers
  ConnectStrings <- MCConnectStrings
  Users <- MCUsers
  Passwords <- MCPasswords
  Environments <- MCEnvironments
  OutLength = 2
  MaxConnects = 2
  Schemas = {"default", "s_1"}
  TableNames <- MCTableNames
  PageSize = 1
  MaxChanges = 1
  MaxUsed = 1
  InitialTables <- MCInitialTables
  Like <- MCLike
  SchemaArgs = {"", "s_1", "default", "%"}
  TableArgs = {"%", "ta"}
  ColumnArgs = {"", "c2"}
  CatalogArgs = {"%", "p1"}
  Wildcards = {"%", "s_1", "%fault", "t%"}
  TypeArgs <- MCTypeArgs
  Columns <- MCColumns
  PartitionColumns <- MCPartitionColumns
SPECIFICATION FairSpec
INVARIANTS
  ConnectedAsGiven
  StableAreListed
  RoundTrip
PROPERTIES
  ListingEnds
