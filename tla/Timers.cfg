SPECIFICATION MCSpec
CONSTANTS
  o1 = o1
  o2 = o2
  c1 = c1
  c2 = c2
  Objects <- TwoObjects
  Callers <- TwoCallers
  MaxCalls = 4
  MaxTimerCalls = 3
  Delays <- ShortAndLong
  DefaultDelay = 1
INVARIANTS
  ObjectSound
  TimerSound
PROPERTIES
  RequestsServed
  TimersServed
CHECK_DEADLOCK FALSE
