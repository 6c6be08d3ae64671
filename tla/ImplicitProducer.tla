-------------------------- MODULE ImplicitProducer --------------------------
(***************************************************************************)
(* The queue of a producer without a token (concurrentqueue.h): its blocks *)
(* come from the pool all producers share and go back there as soon as     *)
(* their last element was dequeued.  The circular index points to entries  *)
(* of a base and a block; an index twice the size points to the same       *)
(* entries and to as many new ones, so that consumers may use either.      *)
(*                                                                         *)
(* Elements are not thrown while they are constructed or moved: the code   *)
(* for that is left out.                                                   *)
(***************************************************************************)
EXTENDS SubQueue

VARIABLES
  entry,   \* the block index entries made so far
  free     \* the blocks in the pool (FreeList)

implicitVars == <<counters, tailIndex, cons, blocks, entry, free>>

INVALID_BLOCK_BASE == 1   \* no base is odd
NoBlock == 0

NewEntries(n) == [j \in 1..n |-> [key |-> INVALID_BLOCK_BASE, value |-> NoBlock]]

\* The constructor's allocation of an index may fail, and is not tried again.
ImplicitInit ==
  /\ QueueInit /\ free = {}
  /\ \/ /\ entry = NewEntries(IndexSize)
        /\ headers = <<[size |-> IndexSize, tail |-> IndexSize - 1,
                        index |-> [j \in 0..IndexSize - 1 |-> j + 1]]>>
     \/ entry = <<>> /\ headers = <<>> /\ Scarce # {}

LastHeader == headers[Len(headers)]
Put(h) == [headers EXCEPT ![Len(headers)] = h]

\* new_block_index: the entries in order of age, then new ones.
LargerEntryIndex ==
  LET n == LastHeader.size
  IN [size |-> 2 * n, tail |-> n - 1,
      index |-> [j \in 0..2 * n - 1 |-> IF j < n THEN LastHeader.index[(LastHeader.tail + 1 + j) % n]
                                        ELSE Len(entry) + j - n + 1]]

NextEntry(h) == h.index[(h.tail + 1) % h.size]

\* Mutant of IsUsable: the block of an entry is not looked at.
IsUsableAlways(e) == TRUE

\* Its block was given back, or it never had one.
IsUsable(e) == e.key = INVALID_BLOCK_BASE \/ e.value = NoBlock

\* insert_block_index_entry: the next entry is for the block with this base; it
\* becomes the tail.
InsertEntry(base) ==
  /\ headers # <<>>
  /\ LET fits == IsUsable(entry[NextEntry(LastHeader)])
         h    == IF fits THEN LastHeader ELSE LargerEntryIndex
         es   == IF fits THEN entry ELSE entry \o NewEntries(LastHeader.size)
         turn == [h EXCEPT !.tail = (@ + 1) % h.size]
     IN /\ headers' = IF fits THEN Put(turn) ELSE Append(headers, turn)
        /\ entry' = [es EXCEPT ![NextEntry(h)].key = base]

\* The entry of a base, as the producer finds it.
TailEntry(back) == LastHeader.index[(LastHeader.tail - back) % LastHeader.size]

\* rewind_block_index_tail, by some entries.
Rewind(n) == headers' = Put([LastHeader EXCEPT !.tail = (@ - n) % LastHeader.size])

\* A block from the pool, or a new one if there is none.
AnyBlock(b) == IF free = {} THEN b = Len(block) + 1 /\ b <= MaxBlocks ELSE b \in free

Fresh == [data |-> [i \in Slots |-> Destroyed], empty |-> 0, next |-> 0]

\* It is reset, linked after block p if there is one, and entered.
Enter(b, p) ==
  /\ AnyBlock(b) /\ free' = free \ {b}
  /\ block' = LET bs == IF b > Len(block) THEN Append(block, Fresh) ELSE [block EXCEPT ![b] = Fresh]
              IN IF p = 0 THEN bs ELSE [bs EXCEPT ![p].next = b]
  /\ entry' = [entry EXCEPT ![TailEntry(0)].value = b]
  /\ tailBlock' = b

-----------------------------------------------------------------------------
(* enqueue and try_enqueue.                                                *)

EnqueueInTail ==
  /\ CanEnqueue /\ ~StartsBlock
  /\ prod' = One("fill", tailBlock)
  /\ Unshared /\ UNCHANGED <<block, tailBlock, headers, entry, free>>

EnqueueEntry ==
  /\ CanEnqueue /\ StartsBlock
  /\ InsertEntry(tailIndex)
  /\ prod' = One("block", 0)
  /\ Unshared /\ UNCHANGED <<block, tailBlock, free>>

EnqueueBlock ==
  /\ \E b \in 1..MaxBlocks : Tick("block", [prod EXCEPT !.pc = "fill", !.at = b]) /\ Enter(b, 0)
  /\ Unshared /\ UNCHANGED headers

\* An entry but no block; without an entry nothing changes at all.
EnqueueGivesUp ==
  /\ "enqueue" \in Scarce /\ Tick("block", IdleProducer)
  /\ Rewind(1) /\ entry' = [entry EXCEPT ![TailEntry(0)].value = NoBlock]
  /\ Unshared /\ UNCHANGED <<block, tailBlock, free>>

-----------------------------------------------------------------------------
(* enqueue_bulk and try_enqueue_bulk.                                      *)

ImplicitBulkBegin(n) == BulkStart(n, 0, 0) /\ UNCHANGED <<entry, free>>

BulkIndex ==
  /\ prod.left > 0 /\ Tick("find", [prod EXCEPT !.pc = "found"])
  /\ InsertEntry(prod.base + BLOCK_SIZE)
  /\ Unshared /\ UNCHANGED <<block, tailBlock, free>>

\* The new block is chained to the one before, unless it is the first and none
\* is begun.
BulkBlock ==
  /\ \E b \in 1..MaxBlocks :
       /\ Tick("found", BlockFound("find", b, 0))
       /\ Enter(b, IF StartsBlock /\ prod.first = 0 THEN 0 ELSE tailBlock)
  /\ Unshared /\ UNCHANGED headers

\* Mutant of Allocated: the block found first is not given back.
AllocatedLater(from, n) == {TailEntry(k) : k \in from .. from + n - 2}

\* The entries of the n blocks found so far, the tail being the last or after it.
Allocated(from, n) == {TailEntry(k) : k \in from .. from + n - 1}

\* No entry for the next base, or an entry but no block: all goes back.
BulkGivesUp ==
  LET m   == IF prod.pc = "found" THEN 1 ELSE 0
      n   == (prod.base - Base(prod.i - 1)) \div BLOCK_SIZE
      old == Allocated(m, n)
  IN /\ "bulk" \in Scarce /\ prod.left > 0 /\ prod.pc \in {"find", "found"}
     /\ free' = free \cup {entry[e].value : e \in old}
     /\ entry' = [e \in DOMAIN entry |->
                    IF e \in old \/ (m = 1 /\ e = TailEntry(0))
                    THEN [entry[e] EXCEPT !.value = NoBlock] ELSE entry[e]]
     /\ IF n + m = 0 THEN UNCHANGED headers ELSE Rewind(n + m)
     /\ tailBlock' = prod.start /\ prod' = IdleProducer
     /\ Unshared /\ UNCHANGED block

BulkFound ==
  /\ prod.left = 0 /\ Tick("find", FillBlocks(prod.first))
  /\ Unshared /\ UNCHANGED <<block, tailBlock, headers, entry, free>>

ImplicitEnqueue == EnqueueInTail \/ EnqueueEntry \/ EnqueueBlock \/ EnqueueGivesUp
ImplicitEnqueueBulk ==
  (\E n \in Bulks : ImplicitBulkBegin(n)) \/ BulkIndex \/ BulkBlock \/ BulkGivesUp \/ BulkFound
ImplicitProducing ==
  ImplicitEnqueue \/ ImplicitEnqueueBulk \/ ((Fill \/ Publish) /\ UNCHANGED <<entry, free>>)

-----------------------------------------------------------------------------
(* dequeue and dequeue_bulk, from where the elements are claimed.          *)

LoadTailEntry(c) ==
  /\ Does(c, "locate", [cons[c] EXCEPT !.pc = "key", !.index = Len(headers),
                          !.slot = LastHeader.tail])
  /\ UNCHANGED <<counters, tailIndex, blocks>>

\* get_block_index_index_for_index, from where the tail was loaded.
LoadKey(c) ==
  LET h == headers[cons[c].index]
      offset == (Base(cons[c].at) - entry[h.index[cons[c].slot]].key) \div BLOCK_SIZE
  IN /\ Does(c, "key", [cons[c] EXCEPT !.pc = "take", !.slot = (@ + offset) % h.size])
     /\ UNCHANGED <<counters, tailIndex, blocks>>

EntryOf(c) == headers[cons[c].index].index[cons[c].slot]

TakeEntry(c) == TakeFrom(c, entry[EntryOf(c)].value)

\* set_many_empty: the one who dequeued the last element of the block frees it.
AddEmpty(c) ==
  LET n == block[cons[c].block].empty + Len(cons[c].got)
  IN /\ Does(c, "empty", IF n = BLOCK_SIZE THEN [cons[c] EXCEPT !.pc = "unlist"] ELSE NextBlock(c))
     /\ block' = [block EXCEPT ![cons[c].block].empty = n]
     /\ UNCHANGED <<counters, tailIndex, tailBlock, headers, prod, entry, free>>

Unlist(c) ==
  /\ Does(c, "unlist", [cons[c] EXCEPT !.pc = "free"])
  /\ entry' = [entry EXCEPT ![EntryOf(c)].value = NoBlock]
  /\ UNCHANGED <<counters, tailIndex, blocks, free>>

Free(c) ==
  /\ Does(c, "free", NextBlock(c))
  /\ free' = free \cup {cons[c].block}
  /\ UNCHANGED <<counters, tailIndex, blocks, entry>>

ImplicitConsuming(c) ==
  \/ (Claiming(c) \/ LoadTailEntry(c) \/ LoadKey(c) \/ TakeEntry(c)) /\ UNCHANGED <<entry, free>>
  \/ AddEmpty(c) \/ Unlist(c) \/ Free(c)

ImplicitNext == ImplicitProducing \/ \E c \in Takers : ImplicitConsuming(c)
ImplicitSpec == ImplicitInit /\ [][ImplicitNext]_implicitVars

-----------------------------------------------------------------------------

\* The asserts: a consumer finds the entry of the block it claimed in, with a
\* block (get_block_index_index_for_index); a block is not emptied beyond its
\* size (set_many_empty).
EntryAsserts ==
  \A c \in Takers :
    /\ cons[c].pc = "take" =>
         entry[EntryOf(c)].key = Base(cons[c].at) /\ entry[EntryOf(c)].value # NoBlock
    /\ cons[c].pc = "empty" =>
         block[cons[c].block].empty + Len(cons[c].got) <= BLOCK_SIZE

\* The bases of the blocks that hold elements, or will, or are being emptied.
Live ==
  {Base(i) : i \in headIndex .. tailIndex - 1}
    \cup {Base(i) : i \in {j \in {tailIndex - 1} : ~StartsBlock}}
    \cup UNION {{Base(i) : i \in cons[c].at - Len(cons[c].got) .. cons[c].end - 1} : c \in Takers}

\* No block is leaked or owned twice: between the producer's calls a block is in
\* the pool exactly if no element is, will be or was just now in it.  A failed
\* call gives back all it took.
BlocksReturn ==
  prod.pc = "idle" =>
    Len(block) = Cardinality(free) + Cardinality(Live)
=============================================================================
