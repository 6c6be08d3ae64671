SPECIFICATION MCSpec
CONSTANTS
  Unit = 4
  Burst = 5
  Sizes <- MCSizes
  Rates <- MCRates
  Epoch = 11
  MaxTime = 22
  Windows <- MCWindows
  Values <- MCValues
  MaxSamples = 7
  Entries = 4
  Reorder = 1
  MinPackets = 1
  Wnd = 2
  Delays <- MCDelays
  Garbage <- MCGarbage
  Start = 8
  Cap = 10
  Mtu = 6
  MaxSeq = 6
PROPERTY JudgedAtPresentRate
CHECK_DEADLOCK FALSE
