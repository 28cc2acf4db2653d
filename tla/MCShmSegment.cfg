SPECIFICATION Spec
CONSTANTS
  p1 = p1
  p2 = p2
  s1 = s1
  Procs = {p1, p2, s1}
  Publishers = {p1, p2}
  Decl <- MCDecl
  Fnv1a64 <- MCFnv1a64
  Profiles <- MCProfiles
  kAttempts = 2
  kPolls = 1
  MaxFaults = 2
  MaxCleans = 1
  None = None
INVARIANT OneSegment
INVARIANT TypeAgreement
 
PROPERTY RefusedForCause
PROPERTY WiringReturns
CHECK_DEADLOCK FALSE
