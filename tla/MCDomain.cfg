SPECIFICATION Spec
CONSTANTS
  e1 = e1
  e2 = e2
  e3 = e3
  d1 = d1
  d2 = d2
  Domains = {d1, d2}
  Endpoints = {e1, e2, e3}
  KeyOf <- MCKeyOf
  Flat = {"A", "B"}
  Requests <- MCRequests
  HashOf <- MCHashOf
  Lists <- MCLists
  kMaxSubscribers = 1
  MaxDeadline = 1
  MaxStates = 2
INVARIANT SharedRegistry
INVARIANT TypeAgreement
INVARIANT CensusExact
INVARIANT SupportsHonest
PROPERTY BarrierHonest
PROPERTY BarrierReturns
