SPECIFICATION Spec
CONSTANTS
  t1 = t1
  t2 = t2
  t3 = t3
  t4 = t4
  invalid_thread_id = invalid_thread_id
  Threads <- MCThreads
  WithToken <- MCThreads
  WithoutToken <- MCThreads
  HashSize = 1
  MaxHash = 1
  MaxMade = 3
  PoolSize = 1
  MaxNodes = 2
  SHOULD_BE_ON_FREELIST = 8
  TokenUsers <- MCTokenUsers
  Others <- MCOthers
  Maxima = {1, 2}
  Quota = 2
  MaxProducers = 3
  MaxElements = 2
  MaxOffset = 1
  Enqueuers <- MCThreads
  Dequeuers <- MCThreads
  Counts = {1, 2}
  AskedFor = {1, 2}
  MaxInQueue = 3
  Takers <- MCThreads
  Asks = {2}
  Bulks = {5}
  IndexSize = 2
  BLOCK_SIZE = 2
  Scarce = {}
  MaxGiven = 1
  MaxTail = 7
  MaxBlocks = 4
SYMMETRY Symmetric
INVARIANTS RightElements CountsAgree BlocksReturn AssertsOfBoth OneOwner NoneLost OwnProducer SlotIsFree EveryoneAsked PermitsMatchElements
CHECK_DEADLOCK FALSE
