\* One key, one caller deleting and re-adding it while an expiration check
\* is between its range and its deletes.
CONSTANTS
  k1 = k1  k2 = k2  u1 = u1  u2 = u2
  None = None
  Keys <- MCKeys1
  Users <- MCUsers1
  Spans = {1}
  TableSpan = 1
  IdleInterval = 2
  Ops = {"add", "delete"}
  MaxCalls = 3
  MaxRestarts = 0
SPECIFICATION Spec
PROPERTY ExpireOnlyExpired
