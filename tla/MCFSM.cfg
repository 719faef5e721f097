\* The FSM with two Event callers, then one asynchronous logger; or the
\* FileItems table with two keys and one user; or the RabbitMQ
\* connection (the constants are given in
\* MCFSM).
CONSTANTS
  g1 = g1  g2 = g2  l1 = l1
  fk1 = fk1  fk2 = fk2  fu1 = fu1
  rc1 = rc1  rl1 = rl1  rl2 = rl2
  None = None
SPECIFICATION Spec
INVARIANT TypeOK NoDuplicateLine RabbitTypeOK ChannelsClosedOnce
PROPERTY AtomicCalls EventReturns RotationShifts PoolDrains ExpiredEventuallyRemoved
  
CHECK_DEADLOCK FALSE
