SPECIFICATION PacedSpec
CONSTANTS
  Size = 4
  MTU = 1
  MaxWindow = 2
  MaxSend = 2
  MaxSeq = 2
  MaxClock = 4
  MaxSock = 1
CHECK_DEADLOCK FALSE
INVARIANT OnlyOldRetransmitted
