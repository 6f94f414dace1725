SPECIFICATION Spec
CONSTANTS
  Intensities = {low, mid}
  DefaultIntensity = mid
  FrameTimes <- None
  Indefinite = indefinite
  Invalid = invalid
  MovieInputs <- None
  CheckDisabled <- None
  MaxLocks = 2
  Requests <- Photos
  Size <- Sizes
  NilImages <- None
  NilCompletions <- None
  MaxMoves = 1
INVARIANTS
  FeaturesNonnull
CHECK_DEADLOCK FALSE
