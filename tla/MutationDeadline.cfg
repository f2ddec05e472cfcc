CONSTANTS
  Renewers = {r1, r2}
  Gates = {g1}
  TicksPerMs = 2
  MaxNow = 4
  MaxGrant = 5
SPECIFICATION Spec
INVARIANTS TypeOK WithinGrant
PROPERTIES AdmittedWithinGrant FenceIsFinal
