\* Deregistrations only, no registry errors: a valid cached entry with a live watcher still lists a dead node as up.
CONSTANTS
  n1 = n1  n2 = n2  g1 = g1  g2 = g2  r1 = r1  r2 = r2  r3 = r3  t1 = t1  t2 = t2
  None = None
  Nodes <- MCNodes
  Getters <- MCGetters2
  Runs <- MCRuns2
  Stoppers <- MCStoppers1
  RegActions = {"delete"}
  MaxRegOps = 1
  MaxFails = 0
  MaxCalls = 2
SPECIFICATION Spec
INVARIANT WatchConsistent
CHECK_DEADLOCK FALSE
