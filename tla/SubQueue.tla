------------------------------ MODULE SubQueue ------------------------------
(***************************************************************************)
(* What the two kinds of producer of concurrentqueue.h have in common: the *)
(* counters by which the consumers of a producer's queue share out its     *)
(* elements without a lock, and the filling and emptying of blocks.  A     *)
(* consumer first reserves as many as it saw by raising an optimistic      *)
(* count, gives back through dequeueOvercommit what was not there after    *)
(* all, and only then claims indices from headIndex.                       *)
(*                                                                         *)
(* One action for each atomic access.  dequeue is dequeue_bulk with a      *)
(* maximum of 1.  The element at index i is i + 1.  The indices of the     *)
(* code are 64 bits wide and taken not to wrap around.                     *)
(***************************************************************************)
EXTENDS Integers, Sequences, FiniteSetsExt

CONSTANTS
  Takers,       \* threads that dequeue
  Asks,         \* how many elements a dequeue asks for
  Bulks,        \* how many elements an enqueue_bulk has
  IndexSize,    \* entries of the first block index
  BLOCK_SIZE,   \* slots of a block
  Scarce,       \* the calls ("enqueue", "bulk") that may find no memory
  MaxGiven,     \* bound: elements given back before no dequeue begins
  MaxTail,      \* bound: elements enqueued
  MaxBlocks     \* bound: blocks that can be had

\* What is assumed of the constants.
SubQueueAssumption ==
  /\ IsFiniteSet(Takers)
  /\ Asks \subseteq Nat \ {0} /\ Bulks \subseteq Nat \ {0}
  /\ IndexSize \in Nat \ {0, 1} /\ BLOCK_SIZE \in Nat \ {0, 1}
  /\ Scarce \subseteq {"enqueue", "bulk"}
  /\ MaxGiven \in Nat \ {0} /\ MaxTail \in Nat /\ MaxBlocks \in Nat

ASSUME SubQueueFits == SubQueueAssumption

VARIABLES
  tailIndex,   \* where the producer enqueues next
  headIndex,   \* the next index to claim
  dequeueOptimisticCount, dequeueOvercommit,
  cons,        \* what each consumer is doing
  block,       \* the blocks: their elements, what is empty of them, and next
  tailBlock,   \* the block enqueued into; 0 for nullptr
  headers,     \* the block indices made so far; the last is blockIndex
  prod         \* what the producer is doing

counters == <<headIndex, dequeueOptimisticCount, dequeueOvercommit>>

blocks == <<block, tailBlock, headers, prod>>

Destroyed == 0   \* what a slot without an element holds

Slots == 0..BLOCK_SIZE - 1
Base(i) == (i \div BLOCK_SIZE) * BLOCK_SIZE
EndOfBlock(i, end) == Min({Base(i) + BLOCK_SIZE, end})

\* n: elements of the call; left: blocks still to find for it, the last found
\* being for base; first: the first one found; start, front, used: to go back
\* to; at, i: the block and the index filled next.
IdleProducer == [pc |-> "idle", n |-> 0, left |-> 0, base |-> 0, first |-> 0,
                 start |-> 0, front |-> 0, used |-> 0, at |-> 0, i |-> 0]

\* n: what the consumer asks for, then reserved, then claimed; over: the overcommit
\* it loaded; mine: myDequeueCount; back: what it gives back; at .. end - 1: indices
\* claimed; index, slot: where it looks for the block, and the block found.
IdleConsumer == [pc |-> "idle", n |-> 0, tail |-> 0, over |-> 0, mine |-> 0, back |-> 0,
                 at |-> 0, end |-> 0, index |-> 0, slot |-> 0, block |-> 0, got |-> <<>>]

QueueInit ==
  /\ tailIndex = 0 /\ headIndex = 0
  /\ dequeueOptimisticCount = 0 /\ dequeueOvercommit = 0
  /\ cons = [c \in Takers |-> IdleConsumer]
  /\ block = <<>> /\ tailBlock = 0 /\ prod = IdleProducer

-----------------------------------------------------------------------------
(* The producer.                                                           *)

Tick(pc, next) == prod.pc = pc /\ prod' = next
Unshared == UNCHANGED <<counters, tailIndex, cons>>

StartsBlock == tailIndex % BLOCK_SIZE = 0
CanEnqueue == prod.pc = "idle" /\ tailIndex < MaxTail

\* enqueue of one element, to go on at a step and to fill a block.
One(pc, b) == [IdleProducer EXCEPT !.pc = pc, !.n = 1, !.at = b, !.i = tailIndex]

\* The blocks that n elements need are counted; f and u can be gone back to.
BulkStart(n, f, u) ==
  LET base == Base(tailIndex - 1)
      left == (Base(tailIndex + n - 1) - base) \div BLOCK_SIZE
  IN /\ tailIndex + n <= MaxTail
     /\ Tick("idle", [pc |-> IF left > 0 THEN "find" ELSE "fill", n |-> n, left |-> left,
                      base |-> base, first |-> 0, start |-> tailBlock, front |-> f,
                      used |-> u, at |-> tailBlock, i |-> tailIndex])
     /\ Unshared /\ UNCHANGED <<block, tailBlock, headers>>

\* Block b was found for the next base.
BlockFound(pc, b, fallback) ==
  [prod EXCEPT !.pc = pc, !.left = @ - 1, !.base = @ + BLOCK_SIZE,
               !.first = IF @ = 0 THEN b ELSE @, !.front = fallback]

\* All are found: the first is filled, or the rest of the block there was.
FillBlocks(first) ==
  [prod EXCEPT !.pc = "fill", !.at = IF StartsBlock THEN first ELSE prod.start]

\* Elements are constructed in one block, then in the next.
Fill ==
  LET end == EndOfBlock(prod.i, tailIndex + prod.n)
  IN /\ Tick("fill", IF prod.at = tailBlock THEN [prod EXCEPT !.pc = "publish", !.i = end]
                     ELSE [prod EXCEPT !.at = block[prod.at].next, !.i = end])
     /\ block' = [block EXCEPT ![prod.at].data =
                    [s \in Slots |-> LET i == Base(prod.i) + s
                                     IN IF i \in prod.i .. end - 1 THEN i + 1 ELSE @[s]]]
     /\ Unshared /\ UNCHANGED <<tailBlock, headers>>

Publish ==
  /\ Tick("publish", IdleProducer)
  /\ tailIndex' = tailIndex + prod.n
  /\ UNCHANGED <<counters, cons, block, tailBlock, headers>>

-----------------------------------------------------------------------------
(* The consumers, up to where they have claimed their elements.            *)

Does(c, from, next) == cons[c].pc = from /\ cons' = [cons EXCEPT ![c] = next]

\* A call begins: the tail is loaded.
LoadTail(c, max) ==
  /\ Does(c, "idle", [IdleConsumer EXCEPT !.pc = "overcommit", !.n = max, !.tail = tailIndex])
  /\ dequeueOvercommit < MaxGiven
  /\ UNCHANGED <<counters, tailIndex, blocks>>

LoadOvercommit(c) ==
  /\ Does(c, "overcommit", [cons[c] EXCEPT !.pc = "check", !.over = dequeueOvercommit])
  /\ UNCHANGED <<counters, tailIndex, blocks>>

\* Does there seem to be something?
Check(c) ==
  LET d == cons[c].tail - (dequeueOptimisticCount - cons[c].over)
  IN /\ Does(c, "check", IF d > 0
          THEN [cons[c] EXCEPT !.pc = "reserve", !.n = Min({d, @}), !.tail = 0]
          ELSE IdleConsumer)
     /\ UNCHANGED <<counters, tailIndex, blocks>>

\* fetch_add on the optimistic count.
Reserve(c) ==
  /\ Does(c, "reserve", [cons[c] EXCEPT !.pc = "reload", !.mine = dequeueOptimisticCount])
  /\ dequeueOptimisticCount' = dequeueOptimisticCount + cons[c].n
  /\ UNCHANGED <<headIndex, dequeueOvercommit, tailIndex, blocks>>

\* Mutant of There: what others reserved meanwhile is not counted.
ThereAtAll(c) == Min({cons[c].n, tailIndex - headIndex})

\* How many of the reserved elements are there.
There(c) == Min({cons[c].n, tailIndex - (cons[c].mine - cons[c].over)})

\* The tail is loaded again.
Reload(c) ==
  LET n    == Max({There(c), 0})
      back == cons[c].n - n
  IN /\ Does(c, "reload", [cons[c] EXCEPT !.pc = IF back > 0 THEN "give" ELSE "claim",
                             !.n = n, !.back = back, !.over = 0, !.mine = 0])
     /\ UNCHANGED <<counters, tailIndex, blocks>>

\* Mutant of GiveBack: the excess of a part that was there is kept.
GiveBackNone(c) ==
  /\ Does(c, "give", IF cons[c].n > 0 THEN [cons[c] EXCEPT !.pc = "claim", !.back = 0]
                     ELSE IdleConsumer)
  /\ dequeueOvercommit' = dequeueOvercommit + (IF cons[c].n > 0 THEN 0 ELSE cons[c].back)
  /\ UNCHANGED <<headIndex, dequeueOptimisticCount, tailIndex, blocks>>

\* fetch_add on the overcommit: the excess counts as dequeued no more.
GiveBack(c) ==
  /\ Does(c, "give", IF cons[c].n > 0 THEN [cons[c] EXCEPT !.pc = "claim", !.back = 0]
                     ELSE IdleConsumer)
  /\ dequeueOvercommit' = dequeueOvercommit + cons[c].back
  /\ UNCHANGED <<headIndex, dequeueOptimisticCount, tailIndex, blocks>>

\* fetch_add on headIndex: these elements are this consumer's.
Claim(c) ==
  /\ Does(c, "claim", [cons[c] EXCEPT !.pc = "locate", !.n = 0,
                         !.at = headIndex, !.end = headIndex + cons[c].n])
  /\ headIndex' = headIndex + cons[c].n
  /\ UNCHANGED <<dequeueOptimisticCount, dequeueOvercommit, tailIndex, blocks>>

Claiming(c) ==
  \/ \E max \in Asks : LoadTail(c, max)
  \/ LoadOvercommit(c) \/ Check(c) \/ Reserve(c) \/ Reload(c) \/ GiveBack(c) \/ Claim(c)

-----------------------------------------------------------------------------
(* Emptying blocks.                                                        *)

\* The elements claimed in block b are moved out and destroyed.
TakeFrom(c, b) ==
  LET in == cons[c].at .. EndOfBlock(cons[c].at, cons[c].end) - 1
      at == [k \in 1..Cardinality(in) |-> (cons[c].at + k - 1) % BLOCK_SIZE]
  IN /\ Does(c, "take", [cons[c] EXCEPT !.pc = "empty", !.block = b, !.at = @ + Len(at),
                           !.got = [k \in DOMAIN at |-> block[b].data[at[k]]]])
     /\ block' = [block EXCEPT ![b].data = [s \in Slots |->
                    IF \E k \in DOMAIN at : at[k] = s THEN Destroyed ELSE @[s]]]
     /\ UNCHANGED <<counters, tailIndex, tailBlock, headers, prod>>

\* A block done with, the next block of the index is, if more was claimed.
NextBlock(c) ==
  IF cons[c].at < cons[c].end
  THEN [cons[c] EXCEPT !.pc = "take", !.block = 0, !.got = <<>>,
                       !.slot = (@ + 1) % headers[cons[c].index].size]
  ELSE IdleConsumer

-----------------------------------------------------------------------------

\* The elements a consumer finds at the indices it claimed are the ones that
\* were enqueued there, however their block was found and whatever was reused
\* meanwhile: each element is dequeued once, by who claimed it.
RightElements ==
  \A c \in Takers : \A k \in DOMAIN cons[c].got :
    cons[c].got[k] = cons[c].at - Len(cons[c].got) + k

\* When no dequeue is going on, the two optimistic counts add up to what was
\* dequeued: what was reserved in vain is given back, and no element is hidden
\* by the counters for ever.  Meanwhile no more is claimed than was enqueued.
CountsAgree ==
  /\ headIndex <= tailIndex
  /\ (\A c \in Takers : cons[c].pc = "idle")
       => dequeueOptimisticCount - dequeueOvercommit = headIndex
=============================================================================
