\* More calls than the windows hold, so that a rolled back or weighted score is seen to
\* enter the windows and to leave them again.
CONSTANTS
  Torn = Torn
  Candidates = {0, 4}
  Weights = {1, 2}
  DetectorSize = 3
  LongSize = 4
  VarianceLimit = 10
  MaxCalls = 5
  MaxCrashes = 1
  MaxFaults = 1
SPECIFICATION Spec
INVARIANTS TypeOK GateInStep WriteAhead ChainMarksLosses ReplayCatchesUp
CHECK_DEADLOCK FALSE
