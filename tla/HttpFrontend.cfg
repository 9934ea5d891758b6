\* Two requests that race, each for either endpoint and with any token; a quota of
\* one and one tracked token, so that the limit, the window and the cap are reached.
CONSTANTS
  Tokens = {t1, t2, t3, stub}
  Limit = 1
  Window = 2
  MaxTokens = 1
  MaxTime = 2
  Requests = {r1, r2}
  None = None
  Empty = Empty
  Stub = stub
  EnvToken = t1
  MaxCrashes = 1
  MaxFaults = 1
SPECIFICATION FairSpec
INVARIANTS TypeOK AuthStillValid RetiredStaysOut RepliesTruthful QuotaPerWindow
PROPERTIES ServedUnlessStalled
CHECK_DEADLOCK FALSE
