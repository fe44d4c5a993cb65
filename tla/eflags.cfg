SPECIFICATION RunSpec
CONSTANTS
  W8 = 3
  W16 = 6
  W32 = 12
  Nibble = 2
  MaxDone = 2
  Instrs <- MCInstrs
INVARIANTS ConditionsTrue WideArithmetic
PROPERTY FollowsX86
