SPECIFICATION PacedSpec
CONSTANTS
  Size = 3
  MTU = 1
  MaxWindow = 1
  MaxSend = 1
  MaxSeq = 4
  MaxClock = 6
  MaxSock = 1
CHECK_DEADLOCK FALSE
INVARIANT AckedMeansReceived
