SPECIFICATION Spec
CONSTANTS
  PathDepthLimit = 1
  QueryBranchLimit = 9
  CountModulus = 65536
  Scores = {}
  MaxBranchings = 9
  SolverMayFail = TRUE
  FailureDepths = {0, 1}
  TimeoutAsUnsat = FALSE
  NonfatalSolver = TRUE
  Concolic = FALSE
  OtherQueries = TRUE
INVARIANT AllSeenSubtree
