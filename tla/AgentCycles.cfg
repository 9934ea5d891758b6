\* Both programs: two agents of a pool over two calls of RunAll; the service with two
\* requests, one event of the worker, one edit by the developer and one kill.
SPECIFICATION FairSpec
CONSTANTS
  Wirings = {"service", "pool"}
  Agents = {"greedy", "exploratory"}
  Modes = {"stable", "bandit"}
  Arms = {"greedy", "exploratory", "stable", "bandit"}
  Unreadable = Unreadable
  MaxAttempts = 2
  TripAfter = 1
  PoolWindow = 3
  MaxPassed = 2
  MaxRounds = 2
  MaxRunAlls = 2
  MaxEvents = 1
  MaxEdits = 1
  MaxKills = 1
INVARIANT TypeOK  PullsMatchDecisions NoUpdateUnsaved
PROPERTY TasksEnd
CHECK_DEADLOCK FALSE
