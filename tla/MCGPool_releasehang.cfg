\* Capacity 1, two callers, Release, at most 6 API calls: a caller blocked around Release waits forever.
CONSTANTS
  c1 = c1  c2 = c2  c3 = c3
  w1 = w1  w2 = w2  w3 = w3  w4 = w4
  s1 = s1  s2 = s2
  None = None
  Callers <- MCCallers2
  Workers <- MCWorkers3
  Scavengers <- MCScavengers1
  Size = 1
  PreAlloc = FALSE
  Nonblocking = FALSE
  MaxBlockingTasks = 0
  Expiry = 1
  MaxClock = 0
  TuneSizes = {}
  TaskPanics = FALSE
  AdminOps = {"release"}
  MaxCalls = 6
SPECIFICATION FairSpec
PROPERTY SubmitReturns
\* A released pool that receives no further call stops: nothing is left to run.
CHECK_DEADLOCK FALSE
