SPECIFICATION FairSpec
CONSTANTS
  Deliveries <- SharedPRDeliveries
  Event <- SharedPR
  DailyCap = 2
  Horizon = 1
  MaxDay = 1
  MaxRestarts = 1
  MaxFaults = 1
INVARIANTS
  TypeOK
  OneOwner
  HandledOnce
  KeyNotBurned
  CapHolds
  StoppedIsQuiet
PROPERTIES
  FixOnce
  ShutdownEnds
CONSTRAINTS
  FirstThenSecond
  CapUsedFirst
