\* Blocking pool of capacity 1 with two callers, panicking tasks, Release and
\* Reboot (two scavenger goroutines): worker ownership and the blocking count.
CONSTANTS
  c1 = c1  c2 = c2  c3 = c3
  w1 = w1  w2 = w2  w3 = w3  w4 = w4
  s1 = s1  s2 = s2
  None = None
  Callers <- MCCallers2
  Workers <- MCWorkers3
  Scavengers <- MCScavengers
  Size = 1
  PreAlloc = FALSE
  Nonblocking = FALSE
  MaxBlockingTasks = 1
  Expiry = 1
  MaxClock = 2
  TuneSizes = {}
  TaskPanics = TRUE
  AdminOps = {"release", "reboot"}
  MaxCalls = 0
SPECIFICATION Spec
SYMMETRY WorkerSymmetry
VIEW View
INVARIANT TypeOK
INVARIANT WorkerOwnership
INVARIANT BlockedWithinLimit
