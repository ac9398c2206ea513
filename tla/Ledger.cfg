SPECIFICATION Spec
CONSTANTS
  Bins = {b1, b2}
  MaxRequeues = 1
  MaxFaults = 1
  MaxRuns = 2
SYMMETRY BinSymmetry
INVARIANTS
  TypeOK
  DurableCompletion
  AttemptsHonest
  StatusVouches
  ReplayedInStep
  MergedOnce
PROPERTIES
  ReviewedStays
