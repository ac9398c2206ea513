SPECIFICATION FairSpec
CONSTANTS
  NumUnits = 2
  Workers = {w1}
  Covered = {1, 2}
  WithFallback = {2}
  Errors = {"429", "circuit_open", "deadline"}
  Lanes = {"l1"}
  Providers = {}
  LaneOf <- OneLaneOf
  ProviderOf <- NoProviderOf
  Throttled = FALSE
  Serial = TRUE
  MaxAttempts = 2
  Budget = 2
  RateBackoff = 1
  OutageBackoff = 1
  CircuitWait = 1
  CircuitBudget = 2
  ServerStreak = 1
  ServerWindow = 1
INVARIANTS
  BudgetsHold
PROPERTIES
  RefinesSlotContract
