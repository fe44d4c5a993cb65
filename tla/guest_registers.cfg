SPECIFICATION Spec
CONSTANTS
  BYTE = 3
  XMMs = 2
  Seeds <- MCSeeds
  Tops = {3, 7}
  Values <- MCValues
  Operands <- MCOperands
  FBinOp <- MCFBinOp
  Masks = {0, 1, 21930, 65535, 33024}
  MaxStmts = 1
CHECK_DEADLOCK FALSE
PROPERTY ActsAsBytes
