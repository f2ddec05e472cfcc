\* Two nodes, one carrier on each
CONSTANTS
  c1 = c1
  c2 = c2
  c3 = c3
  Carriers = {c1, c2}
  Nodes = {c1, c2}
  NodeOf <- OneEach
  None = None
  TicksPerMs = 1
  Term = 4
  MinLead = 2
  MaxLead = 2
  MaxLag = 1
  MaxTime = 4
  MaxRequests = 3
  MaxEpoch = 2
  MaxFaults = 2
SYMMETRY CarrierSymmetry
CHECK_DEADLOCK FALSE
SPECIFICATION Spec
INVARIANTS TypeOK HolderIsKept RestartAccepts BlockedOneTerm
PROPERTIES RestartRetiresTokens OwnersInFenceOrder
