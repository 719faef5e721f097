\* Twelve promises covering every executor of ProGoroutine, then two
\* goroutines firing events on one Manager; or the Apollo client;
\* or two websocket clients (see MCUtil.tla).
CONSTANTS
  a = a  b = b  n = n  f = f  g = g  z = z
  all1 = all1  t1 = t1  k1 = k1  all2 = all2  t2 = t2  k2 = k2
  v1 = v1
  n1 = n1  l1 = l1  l2 = l2  g1 = g1  g2 = g2
  ws1 = ws1  ws2 = ws2  wn1 = wn1  wn2 = wn2
  ak1 = ak1  ak2 = ak2  av1 = av1  av2 = av2  asrv = asrv  Absent = Absent  Meta = Meta
  None = None
SPECIFICATION Spec
INVARIANT PromiseTypeOK ManagerTypeOK ViewAgreesWithCache
  IsConnectedMeansOpen
PROPERTY PromiseEventuallySettled ManagerNoHandleAfterAbort ReaderExitsAfterClose
CHECK_DEADLOCK FALSE
