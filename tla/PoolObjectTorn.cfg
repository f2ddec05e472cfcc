\* One replacement and one crash.
CONSTANTS
  Devices = {d1, d2}
  Values = {v1, v2}
  None = None
  Copies = 1
  MaxGeneration = 2
  MaxFaults = 1
SPECIFICATION Spec
INVARIANT OldOrNew
