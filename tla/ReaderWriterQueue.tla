------------------------- MODULE ReaderWriterQueue -------------------------
(***************************************************************************)
(* BlockingReaderWriterQueue (readerwriterqueue.h) over the semaphore of   *)
(* atomicops.h: the queue through which Plot hands its plots to the thread *)
(* that draws them.  One producer and one consumer; a ring of blocks that  *)
(* grows when it is full, each block a ring of slots of which one stays    *)
(* empty.  The producer owns tailBlock and every tail, the consumer        *)
(* frontBlock and every front; each keeps a copy of the other's index.     *)
(*                                                                         *)
(* One action for each access to what the other thread writes; the fences  *)
(* of the code are taken to order them.  Element n is the n-th enqueued.   *)
(***************************************************************************)
EXTENDS Integers, Sequences, Folds, Functions

CONSTANTS
  Sizes,            \* arguments of the constructor
  MAX_BLOCK_SIZE,   \* the template's parameter
  MaxElements       \* bound: elements enqueued

\* The smallest power of two that is not below n.
CeilToPow2(n) == CHOOSE p \in {2^k : k \in 0..n} : n <= p /\ p < 2 * n

\* The asserts of the constructor; and, as the provers do not know of powers,
\* that the one it computes is where its definition says.
ASSUME QueueAssumption ==
  /\ Sizes \subseteq Nat \ {0}
  /\ MAX_BLOCK_SIZE \in Nat /\ MAX_BLOCK_SIZE >= 2 /\ CeilToPow2(MAX_BLOCK_SIZE) = MAX_BLOCK_SIZE
  /\ \A s \in Sizes : CeilToPow2(s + 1) \in s + 1 .. 2 * s + 1
  /\ MaxElements \in Nat

VARIABLES
  block, frontBlock, tailBlock,   \* the blocks, and the two ends of the ring
  largestBlockSize,               \* size of the latest block
  count, sema,                    \* m_count, and the kernel semaphore's value
  prod, cons,                     \* where the two threads are
  given, taken,                   \* elements enqueued, and dequeued
  size                            \* the constructor's argument

queue == <<block, frontBlock, tailBlock, largestBlockSize>>
queueVars == <<queue, count, sema, prod, cons, given, taken, size>>

None == 0       \* no element: the thread holds none
Garbage == -1   \* what a slot without an element holds

\* The constructor of a block; its first slots hold the elements of els.
Block(capacity, els, next) ==
  [front |-> 0, localTail |-> Len(els), tail |-> Len(els), localFront |-> 0,
   next |-> next,
   data |-> [i \in 1..capacity |-> IF i <= Len(els) THEN els[i] ELSE Garbage]]

SlotsOf(b) == Len(block[b].data)
After(b, i) == (i + 1) % SlotsOf(b)
Held(b) == (block[b].tail - block[b].front) % SlotsOf(b)

\* Mutant of BlockCount: the block being read from is not counted.
BlockCountShort(n) == (n + MAX_BLOCK_SIZE - 2) \div (MAX_BLOCK_SIZE - 1)

\* Blocks that hold n elements while another is being read from.
BlockCount(n) == (n + MAX_BLOCK_SIZE * 2 - 3) \div (MAX_BLOCK_SIZE - 1)

\* The ring of blocks the constructor makes for s elements.
Blocks(s) ==
  LET one == CeilToPow2(s + 1)
      n   == BlockCount(s)
  IN IF one <= MAX_BLOCK_SIZE * 2
     THEN <<Block(one, <<>>, 1)>>
     ELSE [b \in 1..n |-> Block(MAX_BLOCK_SIZE, <<>>, (b % n) + 1)]

QueueInit ==
  /\ size \in Sizes
  /\ block = Blocks(size)
  /\ frontBlock = 1 /\ tailBlock = 1
  /\ largestBlockSize = SlotsOf(1)
  /\ count = 0 /\ sema = 0
  /\ prod = [pc |-> "idle", alloc |-> TRUE, room |-> TRUE]
  /\ cons = [pc |-> "idle", op |-> "try", el |-> None]
  /\ given = 0 /\ taken = 0

\* Each thread goes on from one label to the next.
Produce(from, to) == prod.pc = from /\ prod' = [prod EXCEPT !.pc = to] /\ UNCHANGED cons
Consume(from, to) == cons.pc = from /\ cons' = [cons EXCEPT !.pc = to] /\ UNCHANGED prod

\* size_approx () of the blocks, and of the semaphore.
SizeApprox == FoldFunction(+, 0, [b \in DOMAIN block |-> Held(b)])
AvailableApprox == IF count > 0 THEN count ELSE 0

-----------------------------------------------------------------------------
(* The producer: enqueue and try_enqueue.                                  *)

\* inner_enqueue: is there room in the tail block?  front is only looked at
\* when the copy of it says there is none.
Enqueue(alloc) ==
  LET b    == tailBlock
      t    == After(b, block[b].tail)
      seen == IF t # block[b].localFront THEN block[b].localFront ELSE block[b].front
  IN /\ prod.pc = "idle" /\ given < MaxElements
     /\ block' = [block EXCEPT ![b].localFront = seen]
     /\ prod' = [pc |-> IF t # seen THEN "room" ELSE "full",
                 alloc |-> alloc, room |-> SizeApprox < size]
     /\ UNCHANGED <<frontBlock, tailBlock, largestBlockSize, count, sema, cons, given, taken, size>>

\* The element is constructed in its slot.
Construct ==
  /\ Produce("room", "built")
  /\ block' = [block EXCEPT ![tailBlock].data[block[tailBlock].tail + 1] = given + 1]
  /\ UNCHANGED <<frontBlock, tailBlock, largestBlockSize, count, sema, given, taken, size>>

\* The new tail lets the consumer see it.
Publish ==
  /\ Produce("built", "signal")
  /\ block' = [block EXCEPT ![tailBlock].tail = After(tailBlock, @)]
  /\ given' = given + 1
  /\ UNCHANGED <<frontBlock, tailBlock, largestBlockSize, count, sema, taken, size>>

\* The block after the tail block is not the one the consumer reads from.
AheadIsFree == block[tailBlock].next # frontBlock

LookAhead ==
  /\ Produce("full", IF AheadIsFree THEN "ahead" ELSE "grow")
  /\ UNCHANGED <<queue, count, sema, given, taken, size>>

\* The free block takes the element.
FillAhead ==
  LET n == block[tailBlock].next
      b == block[n]
  IN /\ Produce("ahead", "advance")
     /\ block' = [block EXCEPT ![n] = [b EXCEPT !.localFront = b.front, !.tail = After(n, b.tail),
                                               !.data = [b.data EXCEPT ![b.tail + 1] = given + 1]]]
     /\ UNCHANGED <<frontBlock, tailBlock, largestBlockSize, count, sema, given, taken, size>>

\* A new block with the element is linked in after the tail block.
Grow ==
  LET s == IF largestBlockSize >= MAX_BLOCK_SIZE THEN largestBlockSize ELSE largestBlockSize * 2
  IN /\ Produce("grow", "advance") /\ prod.alloc
     /\ block' = Append([block EXCEPT ![tailBlock].next = Len(block) + 1],
                        Block(s, <<given + 1>>, block[tailBlock].next))
     /\ largestBlockSize' = s
     /\ UNCHANGED <<frontBlock, tailBlock, count, sema, given, taken, size>>

\* try_enqueue allocates nothing, and an allocation may fail.
Refuse ==
  /\ Produce("grow", "idle")
  /\ UNCHANGED <<queue, count, sema, given, taken, size>>

\* The tail block is the one just written.
Advance ==
  /\ Produce("advance", "signal")
  /\ tailBlock' = block[tailBlock].next
  /\ given' = given + 1
  /\ UNCHANGED <<block, frontBlock, largestBlockSize, count, sema, taken, size>>

\* Mutant of WaiterCounted: only a second waiter would be woken.
WaitersCounted == count < -1

\* The consumer is counted as waiting.
WaiterCounted == count < 0

SignalCount ==
  /\ Produce("signal", IF WaiterCounted THEN "post" ELSE "idle")
  /\ count' = count + 1
  /\ UNCHANGED <<queue, sema, given, taken, size>>

SignalSema ==
  /\ Produce("post", "idle")
  /\ sema' = sema + 1
  /\ UNCHANGED <<queue, count, given, taken, size>>

Producing ==
  \/ Construct \/ Publish \/ LookAhead \/ FillAhead \/ Grow \/ Refuse
  \/ Advance \/ SignalCount \/ SignalSema

-----------------------------------------------------------------------------
(* The consumer at the semaphore.                                          *)

\* peek () does not go through the semaphore.
CallDequeue(op) ==
  /\ cons.pc = "idle"
  /\ cons' = [pc |-> IF op = "peek" THEN "look" ELSE "load", op |-> op, el |-> None]
  /\ UNCHANGED <<queue, count, sema, prod, given, taken, size>>

Waits == cons.op \in {"wait", "timed"}

\* tryWait and the spin loop: there is something, or it is given up.
LoadCount ==
  /\ Consume("load", IF count > 0 THEN "dec" ELSE IF Waits THEN "sub" ELSE "idle")
  /\ UNCHANGED <<queue, count, sema, given, taken, size>>

Spin ==
  /\ Consume("sub", "load")
  /\ count > 0
  /\ UNCHANGED <<queue, count, sema, given, taken, size>>

Decrement ==
  /\ Consume("dec", "look")
  /\ count' = count - 1
  /\ UNCHANGED <<queue, sema, given, taken, size>>

\* After the spin loop the consumer counts itself as waiting.
Subtract ==
  /\ Consume("sub", IF count > 0 THEN "look" ELSE "asleep")
  /\ count' = count - 1
  /\ UNCHANGED <<queue, sema, given, taken, size>>

\* m_sema.wait () and timed_wait ().
Wake ==
  /\ Consume("asleep", "look")
  /\ sema > 0 /\ sema' = sema - 1
  /\ UNCHANGED <<queue, count, given, taken, size>>

TimeOut ==
  /\ Consume("asleep", "undo")
  /\ cons.op = "timed" /\ sema = 0
  /\ UNCHANGED <<queue, count, sema, given, taken, size>>

\* Mutant of Undo: the post that is on its way is not waited for.
UndoOnly ==
  /\ Consume("undo", "idle")
  /\ count' = count + 1
  /\ UNCHANGED <<queue, sema, given, taken, size>>

\* The decrement is undone, unless the producer has signalled since.
Undo ==
  /\ Consume("undo", IF count < 0 THEN "idle" ELSE "redo")
  /\ count' = count + 1
  /\ UNCHANGED <<queue, sema, given, taken, size>>

Redo ==
  /\ Consume("redo", IF count > 0 THEN "again" ELSE "undo")
  /\ count' = count - 1
  /\ UNCHANGED <<queue, sema, given, taken, size>>

TryAgain ==
  /\ Consume("again", IF sema > 0 THEN "look" ELSE "undo")
  /\ sema' = IF sema > 0 THEN sema - 1 ELSE 0
  /\ UNCHANGED <<queue, count, given, taken, size>>

-----------------------------------------------------------------------------
(* The consumer in the blocks: try_dequeue, pop and peek.                  *)

\* Is there an element in the front block?  tail is only looked at when the
\* copy of it says there is none.
Look ==
  LET b    == block[frontBlock]
      seen == IF b.front # b.localTail THEN b.localTail ELSE b.tail
  IN /\ Consume("look", IF b.front # seen THEN "element" ELSE "empty")
     /\ block' = [block EXCEPT ![frontBlock].localTail = seen]
     /\ UNCHANGED <<frontBlock, tailBlock, largestBlockSize, count, sema, given, taken, size>>

\* Is the producer in another block?
LookBehind ==
  /\ Consume("empty", IF frontBlock # tailBlock THEN "recheck"
                      ELSE IF cons.op = "peek" THEN "idle" ELSE "failed")
  /\ UNCHANGED <<queue, count, sema, given, taken, size>>

\* Mutant of SeenLate: the tail is not read again.
SeenBefore == block[frontBlock].localTail

\* The tail, read after the tail block was seen to be another one.
SeenLate == block[frontBlock].tail

\* It may have filled this block before it left for the other.
Recheck ==
  /\ Consume("recheck", IF block[frontBlock].front # SeenLate THEN "element" ELSE "next")
  /\ block' = [block EXCEPT ![frontBlock].localTail = SeenLate]
  /\ UNCHANGED <<frontBlock, tailBlock, largestBlockSize, count, sema, given, taken, size>>

\* The next block is the front block from now on.
NextBlock ==
  LET n == block[frontBlock].next
  IN /\ Consume("next", "element") /\ cons.op # "peek"
     /\ block' = [block EXCEPT ![n].localTail = block[n].tail]
     /\ frontBlock' = n
     /\ UNCHANGED <<tailBlock, largestBlockSize, count, sema, given, taken, size>>

\* try_dequeue moves the element out, pop only destroys it.
Remove ==
  LET b == block[frontBlock]
  IN /\ cons.pc = "element" /\ cons.op # "peek"
     /\ cons' = [cons EXCEPT !.pc = "removed", !.el = b.data[b.front + 1]]
     /\ block' = [block EXCEPT ![frontBlock].data[b.front + 1] = Garbage]
     /\ taken' = taken + 1
     /\ UNCHANGED <<frontBlock, tailBlock, largestBlockSize, count, sema, prod, given, size>>

\* The new front lets the producer use the slot.
Release ==
  /\ Consume("removed", "idle")
  /\ block' = [block EXCEPT ![frontBlock].front = After(frontBlock, @)]
  /\ UNCHANGED <<frontBlock, tailBlock, largestBlockSize, count, sema, given, taken, size>>

\* peek () returns where the element is, and stays in its block.
Peek ==
  LET b == block[IF cons.pc = "next" THEN block[frontBlock].next ELSE frontBlock]
  IN /\ cons.op = "peek" /\ cons.pc \in {"element", "next"}
     /\ cons' = [cons EXCEPT !.pc = "idle", !.el = b.data[b.front + 1]]
     /\ UNCHANGED <<queue, count, sema, prod, given, taken, size>>

Consuming ==
  \/ LoadCount \/ Spin \/ Decrement \/ Subtract \/ Wake \/ Undo \/ Redo \/ TryAgain
  \/ Look \/ LookBehind \/ Recheck \/ NextBlock \/ Remove \/ Release \/ Peek

-----------------------------------------------------------------------------
QueueNext ==
  \/ \E alloc \in BOOLEAN : Enqueue(alloc)
  \/ Producing
  \/ \E op \in {"try", "wait", "timed", "pop", "peek"} : CallDequeue(op)
  \/ TimeOut \/ Consuming

\* Both threads run on inside a call; nobody has to make one, and a timeout
\* is never counted on.
QueueSpec == QueueInit /\ [][QueueNext]_queueVars
QueueFairSpec == QueueSpec /\ WF_queueVars(Producing) /\ WF_queueVars(Consuming)

-----------------------------------------------------------------------------
(* Properties.                                                             *)

\* The asserts of the two headers: a next block the producer enters is empty
\* (574), one the consumer enters is not (337, 402, 453), at most one thread
\* waits (atomicops.h:655), and who got past the semaphore finds an element
\* (825, 841, 860, 898).
AssertsHold ==
  LET n(b) == block[block[b].next]
  IN /\ prod.pc = "ahead" => n(tailBlock).front = n(tailBlock).tail
     /\ cons.pc = "next" => n(frontBlock).front # n(frontBlock).tail
     /\ prod.pc = "signal" => count >= -1
     /\ cons.pc # "failed"

\* Elements come out in the order they went in, each once and none made up,
\* whatever blocks they went through; peek () shows the one that is next.  And
\* neither thread meets a block in a state it does not expect.
Fifo ==
  /\ taken <= given
  /\ cons.el # None => cons.el = IF cons.op = "peek" THEN taken + 1 ELSE taken
  /\ AssertsHold

\* The constructor's promise (86): as long as the queue holds fewer than
\* size elements when enqueue is called, no block is allocated for them and
\* try_enqueue does not refuse.
HoldsSize == prod.pc = "grow" => ~prod.room

\* Between calls the blocks hold what was not taken, and the semaphore
\* counts it with no post left over: neither size drifts with the timeouts
\* (atomicops.h:608-612).
SizesAgree ==
  prod.pc = "idle" /\ cons.pc = "idle" =>
    SizeApprox = given - taken /\ AvailableApprox = SizeApprox /\ sema = 0

\* A consumer in wait_dequeue gets an element there is: no wake-up is lost.
WaitEnds ==
  cons.op = "wait" /\ cons.pc # "idle" /\ taken < given ~> cons.pc = "removed"
=============================================================================
