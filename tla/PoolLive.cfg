SPECIFICATION FairSpec
CONSTANTS
  NumUnits = 2
  Workers = {w1, w2}
  Covered = {1}
  WithFallback = {}
  Errors = {"429", "circuit_open"}
  Lanes = {"l1", "l2"}
  Providers = {"p"}
  LaneOf <- TwoLaneOf
  ProviderOf <- OneProviderOf
  Throttled = TRUE
  Serial = FALSE
  MaxAttempts = 2
  Budget = 1
  RateBackoff = 1
  OutageBackoff = 1
  CircuitWait = 1
  CircuitBudget = 1
  ServerStreak = 1
  ServerWindow = 1
PROPERTIES
  RefinesSlotContract
