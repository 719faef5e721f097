\* Capacity 1, two callers, panicking tasks, Tune between 1 and 2, at most 6 API calls: every Submit returns.
CONSTANTS
  c1 = c1  c2 = c2  c3 = c3
  w1 = w1  w2 = w2  w3 = w3  w4 = w4
  s1 = s1  s2 = s2
  None = None
  Callers <- MCCallers2
  Workers <- MCWorkers3
  Scavengers <- MCScavengers1
  Size = 1
  PreAlloc = FALSE
  Nonblocking = FALSE
  MaxBlockingTasks = 0
  Expiry = 1
  MaxClock = 0
  TuneSizes = {1, 2}
  TaskPanics = TRUE
  AdminOps = {"tune"}
  MaxCalls = 6
SPECIFICATION FairSpec
PROPERTY SubmitReturns
