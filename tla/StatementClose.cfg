CONSTANTS
  MaxExecutions = 2
  MaxRows = 2
  MaxColumns = 2
  NoStream = NoStream
  NoRow = NoRow
SPECIFICATION Spec
INVARIANTS
  CloseLeavesNoCursorState
