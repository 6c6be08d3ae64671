SPECIFICATION MCFairSpec
CONSTANTS
  sender = sender
  app = app
  receiver = receiver
  Waiters <- MCWaiters
  Signallers <- MCSignallers
  MaxCount = 8
  MAX_BLOCK_SIZE = 4
  MaxElements = 5
  Sizes = {1}
  Capacity = 8
  MaxSeq = 4
  Start <- MCStart
  SeqBit = 8
  MaxAhead = 7
  Inputs = {0, 2, 3}
  BlockSize = 2
  HeaderBytes = 2
  MTU = 3
INVARIANTS PostsMatchWaiters Fifo HoldsSize SizesAgree
INVARIANTS ReadsInOrder AckedIsReadable AckedIsHeld
INVARIANTS HeaderIsWhole OutputIsInput EndIsTheEnd
PROPERTIES ImplementsCounter SignalIsTaken WaitEnds
PROPERTIES ImplementsDelivery AllIsRead NobodyWaits
CHECK_DEADLOCK FALSE
