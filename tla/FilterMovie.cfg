SPECIFICATION FilterSpec
CONSTANTS
  Intensities = {low, mid}
  DefaultIntensity = mid
  FrameTimes <- TwoTimes
  Indefinite = indefinite
  Invalid = invalid
  MovieInputs <- SecondInput
  CheckDisabled <- NoInputs
  MaxLocks = 2
INVARIANTS
  DefiniteTimeKept
  NoOverRelease
CHECK_DEADLOCK TRUE
