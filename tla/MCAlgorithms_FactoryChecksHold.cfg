SPECIFICATION AlgorithmsSpec
CONSTANTS
  MaxNodes = 6
  Moduli = {2, 3, 4, 5, 6, 7, 8, 9, 11, 12, 13}
  Length = 2
  NumKeys = 2
  MaxRejects = 2
CHECK_DEADLOCK FALSE
INVARIANT FactoryChecksHold
