SPECIFICATION Spec
CONSTANTS
  Pubs = {p1, p2}
  Subs = {s1, s2, s3}
  p1 = p1
  p2 = p2
  s1 = s1
  s2 = s2
  s3 = s3
  PubQos <- AllPubQos
  SubQos <- QueueQos
  kMaxSubscribers = 2
  Depth = 1
  MaxAccepted = 2
  MaxTime = 0
  None = None
SYMMETRY AllSymmetry
INVARIANT SingleWriter
INVARIANT MatchCounts
INVARIANT ReliableRoom
INVARIANT QueueConservation
CHECK_DEADLOCK FALSE
