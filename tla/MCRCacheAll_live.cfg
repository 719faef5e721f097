\* One node, two getters, five registry errors, Stop once: after Stop every
\* watcher goroutine ends, and run's backoff counters stay within 0..4; or
\* two All calls of two inputs each (see MCRCacheAll.tla).
CONSTANTS
  n1 = n1  g1 = g1  g2 = g2  r1 = r1  r2 = r2  t1 = t1
  a = a  b = b  c = c  v1 = v1  v2 = v2
  all1 = all1  h1 = h1  k1 = k1  h2 = h2  k2 = k2
  all2 = all2  h3 = h3  k3 = k3  h4 = h4  k4 = k4
  None = None
SPECIFICATION Spec
INVARIANT TypeOK PromiseAllAgrees
PROPERTY StopEndsWatchers
CHECK_DEADLOCK FALSE
