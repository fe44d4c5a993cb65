SPECIFICATION Spec
CONSTANTS
  PathDepthLimit = 2
  QueryBranchLimit = 2
  CountModulus = 65536
  Scores = {}
  MaxBranchings = 1
  SolverMayFail = TRUE
  FailureDepths = {0}
  TimeoutAsUnsat = TRUE
  NonfatalSolver = FALSE
  Concolic = TRUE
  OtherQueries = TRUE
INVARIANTS AllSeenSubtree CountsExact
PROPERTY EnumeratesPaths
