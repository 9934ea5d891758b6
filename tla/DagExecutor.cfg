\* All graphs of up to three nodes, cycles and unknown dependencies among them: two
\* nodes of a batch with a common dependent, and a node that becomes ready before one
\* that has waited, are the cases that matter.
CONSTANTS
  Ids = {1, 2, 3}
  Limits = {0, 1, 2}
  Default = 4
SPECIFICATION FairSpec
INVARIANTS TypeOK Reproducible OnlyCyclesLeftOut
PROPERTIES RunsInOrder Returns
CHECK_DEADLOCK FALSE
