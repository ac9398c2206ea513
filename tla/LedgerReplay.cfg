SPECIFICATION Spec
CONSTANTS
  Bins = {b1, b2}
  MaxRequeues = 0
  MaxFaults = 0
  MaxRuns = 3
SYMMETRY BinSymmetry
INVARIANTS
  ReplayedHasFindings
