SPECIFICATION Spec
CONSTANTS
  Inputs <- MCInputs
  Vars <- MCVars
  Preds <- MCPreds
  Holds <- MCHolds
  Mentions <- MCMentions
  ExtraConditions <- NoExtra
  Behaviours <- ChoosingUnique
  PathDepth = 2
  NumPaths = 3
  GlobalCELimit = 1
  DisableCECache = FALSE
  Incremental = FALSE
  SolverMayFail = TRUE
  ModelsOf <- AnyModel
  TimeoutAsUnsat = FALSE
  NonfatalSolver = TRUE
  SolveFinalPC = FALSE
INVARIANTS TypeOK AsksPathCondition DeclaredOnce PathCondExact TreeSound AssertionsHold
