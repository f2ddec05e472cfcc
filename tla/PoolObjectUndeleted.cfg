\* A crash inside a put, a failed sync inside delete, and a power loss.
CONSTANTS
  Devices = {d1, d2}
  Values = {v1, v2}
  None = None
  Copies = 1
  MaxGeneration = 2
  MaxFaults = 3
SPECIFICATION Spec
INVARIANT DeletionIsFinal
