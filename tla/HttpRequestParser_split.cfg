CONSTANT MaxPieces = 2
SPECIFICATION Spec
INVARIANT WholeTokens
CHECK_DEADLOCK FALSE
