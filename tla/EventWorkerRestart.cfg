\* No failed call: one kill is enough.
CONSTANTS
  Torn = Torn
  Ids = {a, b}
  Retention = 1
  Threshold = 2
  MaxChunks = 2
  MaxCrashes = 1
  MaxFaults = 0
SPECIFICATION Spec
INVARIANTS NoDoubleProcessing
