SPECIFICATION DetectSpec
CONSTANTS
  a = a
  b = b
  c = c
  empty = empty
  skipped = skipped
  Requests <- Photos
  Size <- PhotoSizes
  NilImages <- None
  NilCompletions <- None
INVARIANTS
  CompletionNonnull
CHECK_DEADLOCK FALSE
