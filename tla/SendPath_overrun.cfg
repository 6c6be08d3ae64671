SPECIFICATION Spec
CONSTANTS
  Size = 4
  MTU = 1
  MaxWindow = 0
  MaxSend = 2
  MaxSeq = 4
  MaxClock = 6
  MaxSock = 1
CHECK_DEADLOCK FALSE
PROPERTY RingNeverOverrun
