SPECIFICATION Spec
CONSTANTS
  Inputs <- MCInputs
  Vars <- MCVars
  Preds <- MCPreds
  Holds <- MCHolds
  Mentions <- MCMentions
  ExtraConditions <- YIsSet
  Behaviours <- PlainUniqueOnce
  PathDepth = 2
  NumPaths = 2
  GlobalCELimit = 1
  DisableCECache = FALSE
  Incremental = TRUE
  SolverMayFail = TRUE
  ModelsOf <- AnyModel
  TimeoutAsUnsat = TRUE
  NonfatalSolver = FALSE
  SolveFinalPC = TRUE
INVARIANTS SatIsReal CachesFit
