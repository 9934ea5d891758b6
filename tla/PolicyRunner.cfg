SPECIFICATION Spec
CONSTANTS
  Torn = Torn
  Inputs <- SmallInputs
  Learners = {l1, l2}
  MinScores = 2
  MinSamples = 3
  MaxBuffer = 2
  MaxSamples = 1
  MaxHistory = 1
  MaxRuns = 5
  MaxShort = 1
  MaxRollbacks = 1
  MaxRestarts = 1
SYMMETRY Symmetry
INVARIANT TypeOK HardFailNeverPasses FailingMoreNeverHelps TracesReplay
CHECK_DEADLOCK FALSE
