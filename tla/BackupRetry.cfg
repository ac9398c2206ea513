SPECIFICATION Spec
CONSTANTS
  Paths = {"dir"}
  Moved = {"dir"}
  MaxGen = 3
  Dir = "dir"
  Fixes <- NoFixes
  MaxRuns = 3
INVARIANTS
  BackupOutlivesRetry
