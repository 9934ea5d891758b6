\* The pool alone, its window of full size: what a sandbox that fails does to the others.
SPECIFICATION Spec
CONSTANTS
  Wirings = {"pool"}
  Agents = {"greedy", "exploratory"}
  Modes = {"stable"}
  Arms = {"greedy", "exploratory", "stable"}
  Unreadable = Unreadable
  MaxAttempts = 3
  TripAfter = 5
  PoolWindow = 10
  MaxPassed = 2
  MaxRounds = 0
  MaxRunAlls = 2
  MaxEvents = 0
  MaxEdits = 0
  MaxKills = 0
INVARIANT FailuresAreLearned
CHECK_DEADLOCK FALSE
