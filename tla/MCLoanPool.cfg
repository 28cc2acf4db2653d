SPECIFICATION LoanSpec
CONSTANTS
  Handles = {h1, h2, h3}
  Values = {v1, v2}
  h1 = h1
  h2 = h2
  h3 = h3
  v1 = v1
  v2 = v2
  kSlots = 2
  kMaxHops = 2
  MaxPublished = 4
  None = None
SYMMETRY LoanSymmetry
INVARIANT LoanIntact
INVARIANT CellsAccounted
INVARIANT LineageExact
