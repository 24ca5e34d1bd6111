SPECIFICATION RwSpec
CONSTANTS
  t1 = t1
  t2 = t2
  t3 = t3
  r1 = r1
  Idle = idle
  Zombie = zombie
  NoTask = NoTask
  NoCall = NoCall
  Forever = forever
  Task = {t1, t2, t3}
  Root = t1
  RootPrio = 1
  UserPrio = {0, 1}
  Lowest = 2
  Lock = {r1}
  WaitList <- RwLists
  RR = {}
  TaskCalls = {"create", "resume", "suspend"}
  IsrCalls = {"suspend", "delete"}
  MaxDelay = 0
  MaxLock = 0
  Timeouts = {1, forever}
  MaxRead = 2
INVARIANTS
  RwExclusion
  RwWaitersServed
PROPERTIES
  ReaderYields
