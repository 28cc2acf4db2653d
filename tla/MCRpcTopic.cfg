SPECIFICATION Spec
CONSTANTS
  Callers = {c1, c2, c3}
  Workers = {w1, w2}
  Servers = {v1}
  kMaxInFlight = 2
  MaxCalls = 1
SYMMETRY RpcSymmetry
INVARIANTS SlotExclusive EverySlotOwed
PROPERTY CallsOneShot
CHECK_DEADLOCK FALSE
