SPECIFICATION EventSpec
CONSTANTS
  t1 = t1
  t2 = t2
  b1 = b1
  b2 = b2
  Idle = idle
  Zombie = zombie
  NoCall = NoCall
  Forever = forever
  Task = {t1, t2}
  Root = t1
  RootPrio = 1
  UserPrio = {0, 1}
  Lowest = 2
  EventBit = {b1, b2}
  WaitList = {}
  RR = {}
  TaskCalls = {"create", "resume"}
  IsrCalls = {"suspend", "delete"}
  MaxDelay = 0
  MaxLock = 0
  Timeouts = {1, forever}
INVARIANTS
  NoLostEvent
PROPERTIES
  TimedReadEnds
  ImplementsFlags
