\* Two IDs over four writes, so that an ID can come back after the cleanup of a
\* memory that retains one; one kill and two failed calls at any point.
CONSTANTS
  Torn = Torn
  Ids = {a, b}
  Retention = 1
  Threshold = 2
  MaxChunks = 4
  MaxCrashes = 1
  MaxFaults = 2
SPECIFICATION FairSpec
INVARIANTS TypeOK DedupWindow DedupMemoryBounded NoAckedLineSkipped
PROPERTIES ImplementsDelivery Drained
