SPECIFICATION DelaunaySpec
CONSTANTS
  Meshes <- MCMeshes
  Queries <- MCQueries
  N_SEARCH_TURNON = 20
INVARIANTS
  AllCirclesFound
CHECK_DEADLOCK FALSE
