SPECIFICATION FairSpec
CONSTANTS
  Callers = {c1, c2, c3}
  Threshold = 2
  Cooldown = 2
  MaxRetries = 1
INVARIANTS
  TypeOK
  SlotHasOwner
  OpenAdmitsNobody
  FailureRunClean
PROPERTIES
  ProbeResolves
  RefinesCircuit
