SPECIFICATION TaskSpec
CONSTANTS
  t1 = t1
  t2 = t2
  t3 = t3
  Idle = idle
  Zombie = zombie
  Task = {t1, t2}
  Root = t1
  RootPrio = 1
  UserPrio = {0, 1}
  Lowest = 1
  WaitList = {}
  RR = {t1}
  TaskCalls = {"create", "delete", "resume", "suspend", "priority"}
  IsrCalls = {"create", "delete", "resume", "priority", "suspend"}
  MaxDelay = 0
  MaxLock = 0
INVARIANTS
  SuspendedNotReady
