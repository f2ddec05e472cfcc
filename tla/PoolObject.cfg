\* One copy on two devices: receipts go to both, the payload to either, so a
\* replacement may move it.  Three faults are a crash in the middle of a call, a
\* failure while the first is cleaned up, and a power loss after that.
CONSTANTS
  Devices = {d1, d2}
  Values = {v1, v2}
  None = None
  Copies = 1
  MaxGeneration = 3
  MaxFaults = 3
SPECIFICATION Spec
INVARIANTS TypeOK AckedIsRead
