SPECIFICATION TaskSpec
CONSTANTS
  t1 = t1
  t2 = t2
  t3 = t3
  Idle = idle
  Zombie = zombie
  Task = {t1, t2, t3}
  Root = t1
  RootPrio = 1
  UserPrio = {0, 1}
  Lowest = 1
  WaitList = {}
  RR = {}
  TaskCalls = {"create", "delete", "resume", "suspend", "priority"}
  IsrCalls = {"create", "delete", "resume", "priority", "suspend"}
  MaxDelay = 2
  MaxLock = 2
INVARIANTS
  TypeOK
  NoFault
  ReadyListsExact
  ReadyIffNotBlocked
  RunsHighest
  DelayListExact
  TcbAccounted
  LockedTaskRuns
PROPERTIES
  NoSwitchWhileLocked
  SelfDeleteDeferred
