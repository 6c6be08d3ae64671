SPECIFICATION Spec
CONSTANTS
  c1 = c1
  c2 = c2
  Takers = {c1, c2}
  Asks = {1, 3}
  Bulks = {3}
  IndexSize = 2
  BLOCK_SIZE = 2
  Scarce = {"bulk"}
  MaxGiven = 1
  MaxTail = 5
  MaxBlocks = 4
SYMMETRY Symmetric
INVARIANT AssertsHold
CHECK_DEADLOCK FALSE
