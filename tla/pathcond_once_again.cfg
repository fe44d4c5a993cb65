SPECIFICATION Spec
CONSTANTS
  Inputs <- MCInputs
  Vars <- MCVars
  Preds <- MCPreds
  Holds <- MCHolds
  Mentions <- MCMentions
  ExtraConditions <- NoExtra
  Behaviours <- OnceLater
  PathDepth = 3
  NumPaths = 3
  GlobalCELimit = 1
  DisableCECache = FALSE
  Incremental = TRUE
  SolverMayFail = FALSE
  ModelsOf <- OneModel
  TimeoutAsUnsat = FALSE
  NonfatalSolver = FALSE
  SolveFinalPC = FALSE
INVARIANT PathFeasible
