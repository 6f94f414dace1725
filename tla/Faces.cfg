SPECIFICATION MCSpec
CONSTANTS
  first = first
  second = second
  large = large
  empty = empty
  skipped = skipped
  Requests <- AllRequests
  Size <- Sizes
  NilImages <- Ignored
  NilCompletions <- None
  Photos <- FivePhotos
  NoPhoto = NoPhoto
  TinyFace <- TenPixels
  Pixel <- PixelUnits
  IntensitySteps = 2
INVARIANTS
  TypesOK
  OwnBuffer
  LeakOnlyWithoutFace
  NormalizedRight
  FramesRight
PROPERTIES
  ImplementsService
CHECK_DEADLOCK FALSE
