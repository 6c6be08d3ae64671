-------------------------- MODULE ExplicitProducer --------------------------
(***************************************************************************)
(* The queue of a producer with a token (concurrentqueue.h): a ring of     *)
(* blocks that are used again when all their elements were taken, and a    *)
(* circular index from which a consumer finds the block of an index it     *)
(* claimed.  A full index is copied into one twice the size; consumers may *)
(* still be reading the old one.                                           *)
(*                                                                         *)
(* Elements are not thrown while they are constructed or moved: the code   *)
(* for that is left out.                                                   *)
(***************************************************************************)
EXTENDS SubQueue

VARIABLES front, used   \* pr_blockIndexFront and pr_blockIndexSlotsUsed

vars == <<counters, tailIndex, cons, blocks, front, used>>

NewHeader(size, exposed, entries) ==
  [size |-> size, front |-> exposed - 1, entries |-> entries]
NoEntry == [base |-> 0, block |-> 0]

\* The constructor's allocation of an index may fail.
Init ==
  /\ QueueInit /\ front = 0 /\ used = 0
  /\ headers \in {<<NewHeader(IndexSize, 0, [j \in 0..IndexSize - 1 |-> NoEntry])>>}
                 \cup (IF Scarce # {} THEN {<<>>} ELSE {})

Header == headers[Len(headers)]
HeaderSize == IF headers = <<>> THEN IndexSize \div 2 ELSE Header.size
Successor(i) == (i + 1) % HeaderSize
IndexIsFull == headers = <<>> \/ used = HeaderSize

\* new_block_index: the entries in use, oldest first, in an index twice the size.
LargerIndex(exposed) ==
  NewHeader(HeaderSize * 2, exposed,
    [j \in 0..HeaderSize * 2 - 1 |->
       IF j < used THEN Header.entries[(front - used + j) % HeaderSize] ELSE NoEntry])

\* An index with the block of a base entered at the front; it is not exposed yet.
Entered(h, at, base, b) == [h EXCEPT !.entries[at] = [base |-> base, block |-> b]]
SetHeader(h) == headers' = [headers EXCEPT ![Len(headers)] = h]

Ahead == block[tailBlock].next

\* is_empty () of the block after the tail block: it can be used again.
AheadIsEmpty == tailBlock # 0 /\ block[Ahead].empty = Slots

\* The block given by requisition_block () becomes the tail block.
Insert(empty) ==
  LET n == Len(block) + 1
      b == [data |-> [i \in Slots |-> Destroyed], empty |-> empty,
            next |-> IF tailBlock = 0 THEN n ELSE Ahead]
  IN /\ n <= MaxBlocks /\ tailBlock' = n /\ used' = used + 1
     /\ block' = Append(IF tailBlock = 0 THEN block ELSE [block EXCEPT ![tailBlock].next = n], b)

-----------------------------------------------------------------------------
(* enqueue and try_enqueue.                                                *)

EnqueueInBlock ==
  /\ CanEnqueue /\ ~StartsBlock
  /\ prod' = One("fill", tailBlock)
  /\ Unshared /\ UNCHANGED <<block, tailBlock, headers, front, used>>

EnqueueReuse ==
  /\ CanEnqueue /\ StartsBlock /\ AheadIsEmpty
  /\ tailBlock' = Ahead
  /\ block' = [block EXCEPT ![Ahead].empty = {}]
  /\ prod' = One("index", Ahead)
  /\ Unshared /\ UNCHANGED <<headers, front, used>>

\* A full index is replaced, with all that it exposed.
GrowIndex(exposed) ==
  IF IndexIsFull THEN headers' = Append(headers, LargerIndex(exposed)) /\ front' = used
                 ELSE UNCHANGED <<headers, front>>

EnqueueNewBlock ==
  /\ CanEnqueue /\ StartsBlock /\ ~AheadIsEmpty
  /\ GrowIndex(used) /\ Insert({})
  /\ prod' = One("index", tailBlock')
  /\ Unshared

\* No block is to be had, after the index was replaced; without memory for
\* the index nothing changes at all.
EnqueueFails ==
  /\ CanEnqueue /\ StartsBlock /\ ~AheadIsEmpty /\ "enqueue" \in Scarce
  /\ GrowIndex(used)
  /\ Unshared /\ UNCHANGED <<block, tailBlock, used, prod>>

\* The block is entered in the index and exposed.
EnqueueIndex ==
  /\ Tick("index", [prod EXCEPT !.pc = "fill"])
  /\ SetHeader([Entered(Header, front, tailIndex, tailBlock) EXCEPT !.front = front])
  /\ front' = Successor(front)
  /\ Unshared /\ UNCHANGED <<block, tailBlock, used>>

-----------------------------------------------------------------------------
(* enqueue_bulk and try_enqueue_bulk.                                      *)

BulkBegin(n) == BulkStart(n, front, used) /\ UNCHANGED <<front, used>>

CanReuse == AheadIsEmpty /\ Ahead # prod.first

\* The block ahead is entered in the index.
BulkAhead ==
  /\ prod.left > 0 /\ CanReuse /\ Tick("find", BlockFound("find", Ahead, prod.front))
  /\ SetHeader(Entered(Header, front, prod.base + BLOCK_SIZE, Ahead))
  /\ tailBlock' = Ahead /\ front' = Successor(front)
  /\ Unshared /\ UNCHANGED <<block, used>>

NeedsNew == prod.left > 0 /\ (prod.pc = "new" \/ (prod.pc = "find" /\ ~CanReuse))

\* A new block is entered, in a new index if that is full.
BulkNewBlock ==
  LET grows == IndexIsFull
      h     == IF grows THEN LargerIndex(prod.used) ELSE Header
      at    == IF grows THEN used ELSE front
      old   == SubSeq(headers, 1, IF grows THEN Len(headers) ELSE Len(headers) - 1)
  IN /\ NeedsNew /\ Insert(Slots)
     /\ headers' = Append(old, Entered(h, at, prod.base + BLOCK_SIZE, tailBlock'))
     /\ front' = (at + 1) % h.size
     /\ prod' = BlockFound("new", tailBlock', IF grows THEN prod.used ELSE prod.front)
     /\ Unshared

\* The call fails: all goes back, but the new blocks stay in the ring and a new
\* index stays in use.
BulkFails ==
  /\ NeedsNew /\ "bulk" \in Scarce
  /\ \/ /\ IndexIsFull
        /\ headers' = Append(headers, LargerIndex(prod.used)) /\ front' = prod.used
     \/ headers' = headers /\ front' = prod.front
  /\ used' = prod.used
  /\ tailBlock' = IF prod.start = 0 THEN prod.first ELSE prod.start
  /\ prod' = IdleProducer
  /\ Unshared /\ UNCHANGED block

\* The emptyFlags of the blocks found are reset; then the last entry is exposed.
BulkReset ==
  LET b == IF prod.pc = "reset" THEN prod.at ELSE prod.first
  IN /\ prod.left = 0 /\ prod.pc \in {"find", "new", "reset"}
     /\ block' = [block EXCEPT ![b].empty = {}]
     /\ IF b = tailBlock
        THEN /\ SetHeader([Header EXCEPT !.front = (front - 1) % HeaderSize])
             /\ prod' = FillBlocks(prod.first)
        ELSE /\ prod' = [prod EXCEPT !.pc = "reset", !.at = block[b].next]
             /\ UNCHANGED headers
     /\ Unshared /\ UNCHANGED <<tailBlock, front, used>>

Enqueue == EnqueueInBlock \/ EnqueueReuse \/ EnqueueNewBlock \/ EnqueueFails \/ EnqueueIndex
EnqueueBulk == (\E n \in Bulks : BulkBegin(n)) \/ BulkAhead \/ BulkNewBlock
               \/ BulkFails \/ BulkReset
Producing == Enqueue \/ EnqueueBulk \/ ((Fill \/ Publish) /\ UNCHANGED <<front, used>>)

-----------------------------------------------------------------------------
(* dequeue and dequeue_bulk, from where the elements are claimed.          *)

LoadIndex(c) ==
  /\ Does(c, "locate", [cons[c] EXCEPT !.pc = "front", !.index = Len(headers)])
  /\ UNCHANGED <<counters, tailIndex, blocks>>

\* The front of that index is loaded: the block is as many entries behind it as
\* its base is blocks behind.
LoadFront(c) ==
  LET h == headers[cons[c].index]
      offset == (Base(cons[c].at) - h.entries[h.front].base) \div BLOCK_SIZE
  IN /\ Does(c, "front", [cons[c] EXCEPT !.pc = "take",
                            !.slot = (h.front + offset) % h.size])
     /\ UNCHANGED <<counters, tailIndex, blocks>>

Take(c) == TakeFrom(c, headers[cons[c].index].entries[cons[c].slot].block)

\* The slots that the consumer has just emptied.
Emptied(c) == {i % BLOCK_SIZE : i \in cons[c].at - Len(cons[c].got) .. cons[c].at - 1}

\* set_many_empty ().
SetEmpty(c) ==
  /\ Does(c, "empty", NextBlock(c))
  /\ block' = [block EXCEPT ![cons[c].block].empty = @ \cup Emptied(c)]
  /\ UNCHANGED <<counters, tailIndex, tailBlock, headers, prod>>

Consuming(c) ==
  (Claiming(c) \/ LoadIndex(c) \/ LoadFront(c) \/ Take(c) \/ SetEmpty(c)) /\ UNCHANGED <<front, used>>

Next == Producing \/ \E c \in Takers : Consuming(c)
Spec == Init /\ [][Next]_vars

\* The asserts of the queue: no slot is emptied twice before its block is used
\* again (set_empty, set_many_empty).
AssertsHold ==
  \A c \in Takers : cons[c].pc = "empty"
    => block[cons[c].block].empty \cap Emptied(c) = {}
=============================================================================
