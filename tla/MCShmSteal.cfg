SPECIFICATION Spec
CONSTANTS
  Pubs = {p1}
  Subs = {s1, s2, s3}
  s1 = s1
  s2 = s2
  s3 = s3
  Casts <- AllLatest
  Detachers = {}
  kMaxSubscribers = 1
  Depth = 1
  Prompt = TRUE
  MaxAccepted = 1
  MaxTakes = 1
  MaxCrashes = 1
  None = None
INVARIANT SlotOwnedOnce
CHECK_DEADLOCK FALSE
