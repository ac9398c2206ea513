SPECIFICATION Spec
CONSTANTS
  Paths = {"dir", "a", "b", "c"}
  Moved = {"dir"}
  MaxGen = 3
  Dir = "dir"
  Fixes <- FourFixes
  MaxRuns = 3
INVARIANTS
  TypeOK
  PreRunKept
  OneGeneration
  AnswerTrue
