SPECIFICATION Spec
CONSTANTS
  Intensities = {low, mid}
  DefaultIntensity = mid
  FrameTimes <- None
  Indefinite = indefinite
  Invalid = invalid
  MovieInputs <- None
  CheckDisabled <- None
  MaxLocks = 2
  Requests <- Photos
  Size <- Sizes
  NilImages <- None
  NilCompletions <- None
  MaxMoves = 2
INVARIANTS
  TypeOK
  SemaphoreDiscipline
  MaskedFramesNormalized
  LocksPaired
  LocksLeftBehind
  SettledFrameCurrent
PROPERTIES
  MaskedFrameComes
  MovementShown
CHECK_DEADLOCK FALSE
