SPECIFICATION Spec
CONSTANTS
  H = 3
  E = 5
  Drop53 = 1
  Drop24 = 4
  NRegs = 2
  ESingle = 3
  EDouble = 4
  ShortBits = 2
  BcdMax = 9
  Sigs <- MCSigs
  Diffs <- MCDiffs
  Exps <- MCExps
  Modes <- MCModes
CHECK_DEADLOCK FALSE
INVARIANTS SumsProductsBest Faithful FlagsTrue PremNearExact CompareTrue StoresBest IntsBest CopyExact
