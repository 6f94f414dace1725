SPECIFICATION DelaunaySpec
CONSTANTS
  Meshes <- MCMeshes
  Queries <- MCQueries
  N_SEARCH_TURNON = 20
INVARIANTS
  DeepCopy
CHECK_DEADLOCK FALSE
