SPECIFICATION XSpec
CONSTANTS
  Pubs = {p1, p2}
  Subs = {s1}
  Casts = {{p1, p2}, {p1, s1}}
  kMaxSubscribers = 1
  kIntrospectRetryBudget = 1
  MaxAccepted = 2
  MaxCrashes = 1
  None = None
  kNameBound = 7
  kHexDigits = 2
  Fnv1a64 <- MCFnv
  Directory <- MCDirectory
  Commands <- MCCommands
INVARIANT EnvelopeWhole
 
INVARIANT ReportHonest
 
PROPERTY LiveSpared
PROPERTY CmdReturns
CHECK_DEADLOCK FALSE
