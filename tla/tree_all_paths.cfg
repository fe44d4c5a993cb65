SPECIFICATION FairSpec
CONSTANTS
  PathDepthLimit = 1
  QueryBranchLimit = 9
  CountModulus = 65536
  Scores = {5}
  MaxBranchings = 9
  SolverMayFail = TRUE
  FailureDepths = {0, 1}
  TimeoutAsUnsat = FALSE
  NonfatalSolver = TRUE
  Concolic = FALSE
  OtherQueries = FALSE
INVARIANTS HeurRangesNest AssertionsHold DifferentPaths Complete
PROPERTIES Termination EnumeratesPaths
