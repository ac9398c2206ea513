SPECIFICATION Spec
CONSTANTS
  ann1 = ann1
  ann2 = ann2
  bob = bob
  Clients <- ThreeClients
  Ids = {i, j}
  Holder <- TwoHolders
  MaxLocks = 2
SYMMETRY TwinSymmetry
INVARIANTS
  TypeOK
  LockedWhileHeld
  AnswersTrue
