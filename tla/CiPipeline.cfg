\* Two jobs that need nothing, each other, themselves or an unknown one, with or
\* without a step, one of which may fail.
CONSTANTS
  JobCount = 2
  StepCount = 1
  Ids = {1, 2, 3, 4, 5, 6, 7, 8}
  Limits = {1, 2}
  Default = 4
  Inputs <- SmallInputs
  Failures <- OneMayFail
  Torn = Torn
  Garbage = Garbage
  MaxChecks = 2
  MaxFaults = 1
SPECIFICATION PipelineSpec
INVARIANTS PipelineTypeOK OrderSound AllPlannedRuns SequentialRunPasses
CHECK_DEADLOCK FALSE
