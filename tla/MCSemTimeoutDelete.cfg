SPECIFICATION SemSpec
CONSTANTS
  t1 = t1
  t2 = t2
  t3 = t3
  m1 = m1
  m2 = m2
  c1 = c1
  Idle = idle
  Zombie = zombie
  NoTask = NoTask
  NoSem = NoSem
  Forever = forever
  Task = {t1, t2}
  Root = t1
  RootPrio = 1
  UserPrio = {0, 1}
  Lowest = 2
  Mutex = {}
  Count = {c1}
  WaitList = {c1}
  RR = {}
  TaskCalls = {"create", "resume", "delete"}
  IsrCalls = {"delete"}
  MaxDelay = 0
  MaxLock = 0
  Timeouts = {1}
  MaxCount = 1
  MaxRecur = 0
PROPERTIES
  DeleteReleases
