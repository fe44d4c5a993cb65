SPECIFICATION MCSpec
CONSTANTS
  PathDepthLimit = 1
  QueryBranchLimit = 1
  CountModulus = 65536
  Scores = {5}
  MaxBranchings = 2
  SolverMayFail = TRUE
  FailureDepths = {0, 1}
  TimeoutAsUnsat = TRUE
  NonfatalSolver = TRUE
  Concolic = TRUE
  OtherQueries = FALSE
  MaxSignals = 1
PROPERTIES NoLostUpdate Implements
