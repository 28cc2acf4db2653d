SPECIFICATION Spec
CONSTANTS
  Pubs = {p1}
  Subs = {s1, s2}
  s1 = s1
  s2 = s2
  Casts <- AllLatest
  Detachers = {}
  kMaxSubscribers = 1
  Depth = 1
  Prompt = TRUE
  MaxAccepted = 1
  MaxTakes = 1
  MaxCrashes = 1
  None = None
PROPERTY RefusedOnlyWhenHeld
CHECK_DEADLOCK FALSE
