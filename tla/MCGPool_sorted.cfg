\* Capacity 2, workers reverting around a clock tick: the scavenger retrieves the wrong workers from an out-of-order store.
CONSTANTS
  c1 = c1  c2 = c2  c3 = c3
  w1 = w1  w2 = w2  w3 = w3  w4 = w4
  s1 = s1  s2 = s2
  None = None
  Callers <- MCCallers2
  Workers <- MCWorkers3
  Scavengers <- MCScavengers1
  Size = 2
  PreAlloc = FALSE
  Nonblocking = FALSE
  MaxBlockingTasks = 0
  Expiry = 1
  MaxClock = 1
  TuneSizes = {}
  TaskPanics = FALSE
  AdminOps = {}
  MaxCalls = 0
SPECIFICATION Spec
PROPERTY RetrieveExact
