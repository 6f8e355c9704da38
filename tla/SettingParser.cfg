CONSTANTS
  Words = {"x", "y"}
  Queries <- MCQueries
  MaxPieces = 4
SPECIFICATION Spec
INVARIANTS
  ParsedAsMeant
  OnlySetsRemoved
