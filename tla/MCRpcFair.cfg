SPECIFICATION FairSpec
CONSTANTS
  Callers = {c1, c2}
  Workers = {w1}
  Servers = {v1, v2}
  kMaxInFlight = 1
  MaxCalls = 1
PROPERTY CallReturns
PROPERTY CallServed
 
CHECK_DEADLOCK FALSE
