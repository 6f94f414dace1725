SPECIFICATION PipeSpec
CONSTANTS
  t1 = t1
  t2 = t2
  t3 = t3
  Threads <- Three
  Junk = Junk
  max_size = 0
  Nums <- NoNums
  Ops <- Meeting
  MaxCalls = 5
INVARIANTS
  PipeSound
PROPERTIES
  ImplementsChannel
CHECK_DEADLOCK FALSE
