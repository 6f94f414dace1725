SPECIFICATION MCSpec
CONSTANTS
  Meshes <- MCMeshes
  Queries <- MCQueries
  N_SEARCH_TURNON = 20
  Thins <- MCThins
  Reads <- MCReads
  NALLOCATED_START = 1
  NaN = NaN
  Unset = Unset
  Bad = Bad
  Arrays <- MCArrays
  Sizes <- MCSizes
  Zooms <- MCZooms
  MaxCalls = 2
INVARIANTS
  TypesOK
  ListsExact
  SearchExact
  ThinlinRight
  ReadExact
  CellsRight
  RangeRight
PROPERTIES
  SearchReturns
  SearchProgresses
  SquareAndBack
CHECK_DEADLOCK FALSE
