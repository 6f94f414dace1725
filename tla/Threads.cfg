SPECIFICATION MCSpec
CONSTANTS
  t1 = t1
  t2 = t2
  t3 = t3
  t4 = t4
  w1 = w1
  w2 = w2
  u1 = u1
  Lockers <- FourLockers
  max_locks = 2
  Entries = 6
  Workers <- TwoWorkers
  Users <- OneUser
  MaxTasks = 3
INVARIANTS
  MutexSound
  PoolSound
PROPERTIES
  EveryoneServed
  WaitsReturnRight
  NobodyWaitsForEver
CHECK_DEADLOCK FALSE
