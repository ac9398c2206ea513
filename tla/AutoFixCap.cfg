SPECIFICATION Spec
CONSTANTS
  Deliveries <- ThreeIssueDeliveries
  Event <- ThreeIssues
  DailyCap = 1
  Horizon = 2
  MaxDay = 1
  MaxRestarts = 0
  MaxFaults = 0
INVARIANTS
  DailyCapHolds
