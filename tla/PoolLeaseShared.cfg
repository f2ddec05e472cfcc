\* Two carriers on one node, a third on another
CONSTANTS
  c1 = c1
  c2 = c2
  c3 = c3
  Carriers = {c1, c2, c3}
  Nodes = {c1, c3}
  NodeOf <- TwoOnOne
  None = None
  TicksPerMs = 1
  Term = 5
  MinLead = 2
  MaxLead = 2
  MaxLag = 1
  MaxTime = 2
  MaxRequests = 4
  MaxEpoch = 1
  MaxFaults = 0
CHECK_DEADLOCK FALSE
SPECIFICATION Spec
INVARIANT SingleWriter
