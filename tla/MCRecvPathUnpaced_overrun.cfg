SPECIFICATION Spec
CONSTANTS
  Capacity = 4
  MaxSeq = 4
  Start <- MCStart
  SeqBit = 8
  MaxAhead = 6
CHECK_DEADLOCK FALSE
INVARIANT ReadsInOrder
