\* The service alone: what an autonomous cycle commits.
SPECIFICATION Spec
CONSTANTS
  Wirings = {"service"}
  Agents = {"greedy"}
  Modes = {"stable", "bandit"}
  Arms = {"greedy", "stable", "bandit"}
  Unreadable = Unreadable
  MaxAttempts = 2
  TripAfter = 1
  PoolWindow = 3
  MaxPassed = 2
  MaxRounds = 2
  MaxRunAlls = 0
  MaxEvents = 1
  MaxEdits = 1
  MaxKills = 1
INVARIANT CommittedPassed
CHECK_DEADLOCK FALSE
