SPECIFICATION Spec
CONSTANTS
  Pubs = {p1}
  Subs = {s1}
  p1 = p1
  s1 = s1
  PubQos <- ExclusiveQos
  SubQos <- LatestQos
  kMaxSubscribers = 1
  Depth = 1
  MaxAccepted = 2
  MaxTime = 0
  None = None
INVARIANT WarmStartCurrent
CHECK_DEADLOCK FALSE
