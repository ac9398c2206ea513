SPECIFICATION Spec
CONSTANTS
  NumUnits = 3
  Workers = {w1, w2}
  Covered = {1, 2}
  WithFallback = {2}
  Errors = {"429", "5xx"}
  Lanes = {"l1", "l2"}
  Providers = {"p"}
  LaneOf <- TwoLaneOf
  ProviderOf <- OneProviderOf
  Throttled = TRUE
  Serial = FALSE
  MaxAttempts = 2
  Budget = 3
  RateBackoff = 1
  OutageBackoff = 1
  CircuitWait = 1
  CircuitBudget = 1
  ServerStreak = 1
  ServerWindow = 1
SYMMETRY WorkerSymmetry
INVARIANTS
  TypeOK
  UnitInOnePlace
  InFlightExact
  SkippedHasHolder
  BlockedWillWake
  ExitMeansDrained
  BudgetsHold
PROPERTIES
  CancelStopsWork
  OutageOneLease
