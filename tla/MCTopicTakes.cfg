SPECIFICATION Spec
CONSTANTS
  Pubs = {p1, p2}
  Subs = {s1, s2}
  p1 = p1
  p2 = p2
  s1 = s1
  s2 = s2
  PubQos <- SharedBestEffort
  SubQos <- DeadlineQos
  kMaxSubscribers = 2
  Depth = 2
  MaxAccepted = 3
  MaxTime = 2
  None = None
SYMMETRY AllSymmetry
INVARIANT NoSilentLoss
INVARIANT OverwriteCount
INVARIANT StampOrder
INVARIANT OneMissPerRecord
PROPERTY Conflates
CHECK_DEADLOCK FALSE
