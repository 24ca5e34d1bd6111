SPECIFICATION SemFairSpec
CONSTANTS
  t1 = t1
  t2 = t2
  t3 = t3
  m1 = m1
  m2 = m2
  c1 = c1
  Idle = idle
  Zombie = zombie
  NoTask = NoTask
  NoSem = NoSem
  Forever = forever
  Task = {t1, t2, t3}
  Root = t1
  RootPrio = 1
  UserPrio = {0, 1}
  Lowest = 2
  Mutex = {m1, m2}
  Count = {}
  WaitList = {m1, m2}
  RR = {}
  TaskCalls = {"create", "resume", "priority"}
  IsrCalls = {"delete"}
  MaxDelay = 0
  MaxLock = 0
  Timeouts = {1, forever}
  MaxCount = 1
  MaxRecur = 1
INVARIANTS
  SemTypeOK
  MutexOwnedOnce
  WaitersExact
  WaitersByPriority
  OwnerInherits
  PriorityRestored
  ResultMatchesOwner
PROPERTIES
  InheritEnds
