SPECIFICATION Spec
CONSTANTS
  Pubs = {p1, p2, p3}
  Subs = {s1, s2}
  s1 = s1
  s2 = s2
  Casts <- RestartCasts
  Detachers = {s1, s2}
  kMaxSubscribers = 1
  Depth = 1
  Prompt = TRUE
  MaxAccepted = 2
  MaxTakes = 2
  MaxCrashes = 2
  None = None
SYMMETRY PubSymmetry
INVARIANT PublisherExclusive
INVARIANT CellsRepaired
 
INVARIANT ExclusiveRegion
PROPERTY Conflates
CHECK_DEADLOCK FALSE
