SPECIFICATION Spec
CONSTANTS
  H = 6
  E = 6
  Drop53 = 3
  Drop24 = 8
  NRegs = 3
  ESingle = 3
  EDouble = 4
  ShortBits = 3
  BcdMax = 99
  ControlWords <- MCControlWords
  Files <- MCFiles
  Approximations <- MCApproximations
  Singles <- MCSingles
  Doubles <- MCDoubles
  Extendeds <- MCExtendeds
  Ints <- MCInts
  Decimals <- MCDecimals
  StatusWords <- MCStatusWords
  Images <- MCImages
  MaxSteps = 1
CHECK_DEADLOCK FALSE
INVARIANTS TypeOK SummaryFits SaveRestores
PROPERTIES TagsStay NoInternalRaised NoneGenerated TrapKeepsOperands StickyFlags KeepsStack
