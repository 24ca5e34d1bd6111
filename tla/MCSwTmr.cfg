SPECIFICATION SwTmrSpec
CONSTANTS
  s1 = s1
  s2 = s2
  s3 = s3
  Timer = {s1, s2, s3}
  WheelLen = 2
  Kind <- Kinds
INVARIANTS
  TimersPlaced
PROPERTIES
  TimerFires
  ImplementsDeadlines
