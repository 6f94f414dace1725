SPECIFICATION PipeSpec
CONSTANTS
  t1 = t1
  t2 = t2
  t3 = t3
  Threads <- Three
  Junk = Junk
  max_size = 2
  Nums <- SomeNums
  Ops <- Ending
  MaxCalls = 4
INVARIANTS
  PipeSound
PROPERTIES
  ImplementsChannel
  EverybodyLetGo
CHECK_DEADLOCK FALSE
