------------------------- MODULE MCConcurrentQueue -------------------------
(* Instances of the parts of concurrentqueue.h and blockingconcurrentqueue.h *)
(* for TLC, in one state space: a behaviour runs one part, and the others    *)
(* stay as they were made, or their variables are unused.                    *)
EXTENDS TLC, FreeList, ConcurrentQueue, BlockingConcurrentQueue, Producers,
  ImplicitProducer

CONSTANTS t1, t2, t3, t4
MCThreads    == {t1, t2}
MCTokenUsers == {t3}
MCOthers     == {t4}
Symmetric == Permutations(MCThreads)   \* t3 and t4 are told apart

VARIABLES
  part,                   \* which part this is
  ringProd, front, used   \* ExplicitProducer, whose other variables are those of SubQueue

explicitOnly == <<ringProd, front, used>>
implicitOnly == <<prod, entry, free>>

Unused == 0
NotExplicit == ringProd = Unused /\ front = Unused /\ used = Unused
NoEntries   == entry = <<>> /\ free = {}
NotImplicit == NoEntries /\ prod = [IdleProducer EXCEPT !.pc = "unused"]
NoSubQueue  == NotExplicit /\ NoEntries /\ QueueInit /\ headers = <<>>

\* Producers is at its start, with one choice of hashes; a part of its own has them all.
NoCallers == hashOf = [t \in Callers |-> 0]

\* The index of IndexSize 2 grows and wraps around; with 4 it does not within
\* the bounds, and a failed bulk call is harmless.
Explicit == INSTANCE ExplicitProducer WITH prod <- ringProd, Takers <- MCThreads,
  Asks <- {1, 3}, Bulks <- {3},
  IndexSize <- 2, BLOCK_SIZE <- 2, Scarce <- {"enqueue"},
  MaxGiven <- 1, MaxTail <- 5, MaxBlocks <- 4
ExplicitBulk == INSTANCE ExplicitProducer WITH prod <- ringProd, Takers <- MCThreads,
  Asks <- {3}, Bulks <- {3},
  IndexSize <- 4, BLOCK_SIZE <- 2, Scarce <- {"bulk"},
  MaxGiven <- 1, MaxTail <- 5, MaxBlocks <- 6

\* The module's own constants are for growth of an index that has turned; and
\* there are calls that fail.
ImplicitScarce == INSTANCE ImplicitProducer WITH Asks <- {3}, Bulks <- {3}, MaxTail <- 5,
  Scarce <- {"enqueue", "bulk"}

\* A consumer of each kind is the module's own; and two with tokens.
Tokens == INSTANCE ConcurrentQueue WITH TokenUsers <- MCThreads, Others <- {}, MaxOffset <- 2

ASSUME Explicit!SubQueueAssumption /\ ExplicitBulk!SubQueueAssumption
ASSUME ImplicitScarce!SubQueueAssumption

Init ==
  /\ FreeListInit /\ BlockingInit /\ ProducersInit
  /\ \/ part = "explicit" /\ Explicit!Init /\ NotImplicit /\ NoCallers /\ CallsInit
     \/ part = "explicit bulk" /\ ExplicitBulk!Init /\ NotImplicit /\ NoCallers /\ CallsInit
     \/ part = "implicit" /\ ImplicitInit /\ NotExplicit /\ NoCallers /\ CallsInit
     \/ part = "implicit scarce" /\ ImplicitScarce!ImplicitInit /\ NotExplicit /\ NoCallers /\ CallsInit
     \/ part = "list" /\ NoSubQueue /\ CallsInit
     \/ part = "tokens" /\ Tokens!CallsInit /\ NoSubQueue /\ NoCallers
     \/ part \in {"blocks", "dequeue", "blocking"} /\ NoSubQueue /\ CallsInit /\ NoCallers

OnlySubQueue == UNCHANGED <<part, producersVars, freeListVars, callsVars, blockingVars>>
OnlyExplicit == UNCHANGED implicitOnly /\ OnlySubQueue
OnlyImplicit == UNCHANGED explicitOnly /\ OnlySubQueue
NoQueue == UNCHANGED <<part, implicitVars, explicitOnly>>

Next ==
  \/ part = "explicit" /\ Explicit!Next /\ OnlyExplicit
  \/ part = "explicit bulk" /\ ExplicitBulk!Next /\ OnlyExplicit
  \/ part = "implicit" /\ ImplicitNext /\ OnlyImplicit
  \/ part = "implicit scarce" /\ ImplicitScarce!ImplicitNext /\ OnlyImplicit
  \/ part = "list" /\ ProducersNext /\ UNCHANGED <<freeListVars, callsVars, blockingVars>> /\ NoQueue
  \/ part = "blocks" /\ FreeListNext /\ UNCHANGED <<producersVars, callsVars, blockingVars>> /\ NoQueue
  \/ part = "dequeue" /\ CallsNext /\ UNCHANGED <<producersVars, freeListVars, blockingVars>> /\ NoQueue
  \/ part = "tokens" /\ Tokens!CallsNext /\ UNCHANGED <<producersVars, freeListVars, blockingVars>> /\ NoQueue
  \/ part = "blocking" /\ BlockingNext /\ UNCHANGED <<producersVars, freeListVars, callsVars>> /\ NoQueue

Spec == Init /\ [][Next]_<<part, implicitVars, explicitOnly, producersVars,
                          freeListVars, callsVars, blockingVars>>

\* The asserts of either kind of queue hold (set_empty, set_many_empty,
\* get_block_index_index_for_index).
AssertsOfBoth ==
  /\ part \in {"explicit", "explicit bulk"} => Explicit!AssertsHold
  /\ part \in {"implicit", "implicit scarce"} => EntryAsserts
=============================================================================
