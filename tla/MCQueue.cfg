SPECIFICATION QueueSpec
CONSTANTS
  t1 = t1
  t2 = t2
  t3 = t3
  q1 = q1
  x = x
  y = y
  Idle = idle
  Zombie = zombie
  NoMsg = NoMsg
  NoCall = NoCall
  Forever = forever
  Task = {t1, t2}
  Root = t1
  RootPrio = 1
  UserPrio = {0, 1}
  Lowest = 2
  Queue = {q1}
  Msg = {x, y}
  WaitList <- QueueLists
  RR = {}
  TaskCalls = {"create", "resume", "suspend", "delete"}
  IsrCalls = {"suspend", "delete"}
  MaxDelay = 0
  MaxLock = 0
  Timeouts = {1, forever}
  MaxNode = 2
INVARIANTS
  NodesAccounted
  BusyExact
  NoIdleWaiter
PROPERTIES
  ImplementsDeque
