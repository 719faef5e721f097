\* Preallocated nonblocking pool of capacity 2 (ring-buffer store, Tune a
\* no-op) with two callers, Release, at most 6 API calls: the ring buffer
\* never refuses a reverting worker, and running drains to zero once closed;
\* then a SlabBuffer (constants in MCRing) behaves as a byte queue.
CONSTANTS
  c1 = c1  c2 = c2  c3 = c3
  w1 = w1  w2 = w2  w3 = w3  w4 = w4
  s1 = s1  s2 = s2
  None = None
  Callers <- MCCallers2
  Workers <- MCWorkers3
  Scavengers <- MCScavengers1
  Size = 2
  PreAlloc = TRUE
  Nonblocking = TRUE
  MaxBlockingTasks = 0
  Expiry = 1
  MaxClock = 1
  TuneSizes = {1}
  TaskPanics = TRUE
  AdminOps = {"release", "tune"}
  MaxCalls = 5
SPECIFICATION RingSpec
INVARIANT RingNeverFull SlabTypeOK
PROPERTY DrainAfterRelease BufferIsQueue
\* A released pool that receives no further call stops: nothing is left to run.
CHECK_DEADLOCK FALSE
