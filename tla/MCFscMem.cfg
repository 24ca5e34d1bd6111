SPECIFICATION FscMemSpec
CONSTANTS
  Start = 1
  HeapSize = 38
  LastIdx = 6
  LinkHalf = 3
  MaxOverrun = 1
  Request <- Requests
INVARIANTS
  HeapExact
  AllocComplete
  AreasApart
