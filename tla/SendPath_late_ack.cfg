SPECIFICATION PacedSpec
CONSTANTS
  Size = 5
  MTU = 1
  MaxWindow = 3
  MaxSend = 2
  MaxSeq = 3
  MaxClock = 6
  MaxSock = 1
CHECK_DEADLOCK FALSE
INVARIANT AckAfterSend
