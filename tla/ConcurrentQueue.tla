--------------------------- MODULE ConcurrentQueue ---------------------------
(***************************************************************************)
(* The dequeue calls of ConcurrentQueue: how a consumer, with a token or   *)
(* without, goes through the producers' queues.  A queue here is its two   *)
(* indices: what its own dequeue and dequeue_bulk do in between is the     *)
(* matter of ExplicitProducer and ImplicitProducer, and they may come back *)
(* with less than there is when other consumers are at it.                 *)
(*                                                                         *)
(* One action for each queue looked at.  Producers join the list at its    *)
(* tail while consumers walk it.                                           *)
(***************************************************************************)
EXTENDS Integers, Sequences, FiniteSetsExt, Functions

CONSTANTS
  TokenUsers, Others,   \* the threads that dequeue with a token; and without
  Maxima,        \* how many elements a call asks for
  Quota,         \* EXPLICIT_CONSUMER_CONSUMPTION_QUOTA_BEFORE_ROTATE
  MaxProducers,  \* bound: producers
  MaxElements,   \* bound: elements
  MaxOffset      \* bound: rotations

ASSUME ConcurrentQueueAssumption ==
  /\ Maxima \subseteq Nat \ {0} /\ Quota \in Nat \ {0}
  /\ MaxProducers \in Nat /\ MaxElements \in Nat /\ MaxOffset \in Nat

Consumers == TokenUsers \cup Others

VARIABLES
  queue,                          \* tailIndex and headIndex, by producer; the last is producerListTail
  globalExplicitConsumerOffset,
  nextExplicitConsumerId,
  tok,                            \* the ConsumerToken of each consumer
  call                            \* the call each consumer is in

callsVars == <<queue, globalExplicitConsumerOffset, nextExplicitConsumerId, tok, call>>

None == 0

\* max, left: elements asked for, and still to get; ptr: the queue looked at;
\* tail: producerListTail as loaded, or a tailIndex; best, size, nonEmpty: of
\* the scoring; there, empty: the producers at the call's start, and those that
\* appeared empty since (history).
NoCall == [pc |-> "idle", max |-> 0, left |-> 0, ptr |-> None, tail |-> None, best |-> None,
         size |-> 0, nonEmpty |-> 0, there |-> 0, empty |-> {}]

NoToken == [initial |-> -1, desired |-> None, current |-> None, items |-> 0, known |-> -1]

CallsInit ==
  /\ queue = <<>> /\ globalExplicitConsumerOffset = 0 /\ nextExplicitConsumerId = 0
  /\ tok = [c \in Consumers |-> NoToken] /\ call = [c \in Consumers |-> NoCall]

Last == Len(queue)
Turns(c, from, next) == call[c].pc = from /\ call' = [call EXCEPT ![c] = next]
Begin(pc, max) == [NoCall EXCEPT !.pc = pc, !.max = max, !.left = max, !.ptr = Last,
                               !.tail = Last, !.there = Last]
Finished(c) == [call[c] EXCEPT !.pc = "done"]
Rest == UNCHANGED <<globalExplicitConsumerOffset, nextExplicitConsumerId, tok>>

AddProducer ==
  /\ Last < MaxProducers
  /\ queue' = Append(queue, [tail |-> 0, head |-> 0])
  /\ UNCHANGED call /\ Rest

Enqueue(p) ==
  /\ SumFunctionOnSet([q \in 1..Last |-> queue[q].tail], 1..Last) < MaxElements
  /\ queue' = [queue EXCEPT ![p].tail = @ + 1]
  /\ UNCHANGED call /\ Rest

\* dequeue_bulk of the queue at p gives n elements.
Gives(p, want, n) ==
  /\ n \in 0 .. Min({want, queue[p].tail - queue[p].head})
  /\ queue' = [queue EXCEPT ![p].head = @ + n]

\* What is left to get once p gave n.
Got(c, p, n) == [call[c] EXCEPT !.left = @ - n, !.empty = IF n < call[c].left THEN @ \cup {p} ELSE @]

-----------------------------------------------------------------------------
(* Without a token: try_dequeue scores up to three queues that are not     *)
(* empty, and tries the longest before all others.                         *)

TryDequeue(c) ==
  /\ Turns(c, "idle", Begin("score", 1))
  /\ UNCHANGED queue /\ Rest

\* size_approx: the tail is loaded,
ScoreTail(c) ==
  LET p == call[c].ptr
  IN /\ call[c].nonEmpty < 3 /\ p # None
     /\ Turns(c, "score", [call[c] EXCEPT !.pc = "head", !.tail = queue[p].tail])
     /\ UNCHANGED queue /\ Rest

\* then the head, which may have passed it.
ScoreHead(c) ==
  LET p    == call[c].ptr
      size == Max({call[c].tail - queue[p].head, 0})
      next == [call[c] EXCEPT !.pc = "score", !.ptr = p - 1]
  IN /\ Turns(c, "head",
          IF size = 0 THEN [next EXCEPT !.empty = @ \cup {p}]
          ELSE [next EXCEPT !.nonEmpty = @ + 1, !.size = Max({@, size}),
                            !.best = IF size > call[c].size THEN p ELSE @])
     /\ UNCHANGED queue /\ Rest

\* The scores are known: all are empty, or the best is tried, and then the others.
Scored(c) ==
  /\ call[c].nonEmpty >= 3 \/ call[c].ptr = None
  /\ Turns(c, "score", IF call[c].best = None THEN Finished(c) ELSE [call[c] EXCEPT !.pc = "best"])
  /\ UNCHANGED queue /\ Rest

TryBest(c) ==
  /\ call[c].pc = "best"
  /\ \E n \in 0..1 :
       /\ Gives(call[c].best, 1, n)
       /\ Turns(c, "best", [Got(c, call[c].best, n) EXCEPT !.pc = "all", !.ptr = Last])
  /\ Rest

\* try_dequeue_non_interleaved, and try_dequeue_bulk.
TryDequeueBulk(c, max) ==
  /\ Turns(c, "idle", Begin("all", max))
  /\ UNCHANGED queue /\ Rest

\* Mutant of Ends: one queue that was short ends the call.
EndsShort(c) == call[c].left = 0 \/ call[c].ptr = None \/ call[c].left < call[c].max

\* Enough was got, or the list is at its end.
Ends(c) == call[c].left = 0 \/ call[c].ptr = None

TryNext(c) ==
  LET p == call[c].ptr
  IN /\ call[c].pc = "all"
     /\ IF Ends(c) THEN Turns(c, "all", Finished(c)) /\ UNCHANGED queue
        ELSE IF p = call[c].best THEN /\ Turns(c, "all", [call[c] EXCEPT !.ptr = p - 1])
                                      /\ UNCHANGED queue
        ELSE \E n \in 0 .. call[c].left :
               Gives(p, call[c].left, n) /\ Turns(c, "all", [Got(c, p, n) EXCEPT !.ptr = p - 1])
     /\ Rest

-----------------------------------------------------------------------------
(* With a token: the consumer stays with a producer until that is empty or *)
(* until one of the consumers had its quota, which moves them all.         *)

ConsumerToken(c) ==
  /\ Turns(c, "idle", NoCall) /\ tok[c].initial = -1
  /\ nextExplicitConsumerId' = nextExplicitConsumerId + 1
  /\ tok' = [tok EXCEPT ![c].initial = nextExplicitConsumerId]
  /\ UNCHANGED <<queue, globalExplicitConsumerOffset>>

\* n producers further on in the list, and around.
Further(p, n) == ((p - 1 - n) % Last) + 1

\* The place of a token when producerCount is count.
Moved(c, count) ==
  LET t     == tok[c]
      start == IF t.desired = None THEN Further(Last, count - 1 - (t.initial % count)) ELSE t.desired
      to    == Further(start, (globalExplicitConsumerOffset - t.known) % count)
  IN [t EXCEPT !.desired = to, !.current = to, !.items = 0, !.known = globalExplicitConsumerOffset]

\* A call begins: after a rotation, and at first, the token's place is looked
\* for (update_current_producer_after_rotation).  A producer is counted before
\* it is in the list.
TokenDequeue(c, max) ==
  LET stays == tok[c].desired # None /\ tok[c].known = globalExplicitConsumerOffset
  IN /\ tok[c].initial # -1
     /\ Turns(c, "idle", IF ~stays /\ Last = 0 THEN [Begin("done", max) EXCEPT !.ptr = None]
                        ELSE Begin("current", max))
     /\ IF stays \/ Last = 0 THEN UNCHANGED tok
        ELSE \E count \in Last .. MaxProducers : tok' = [tok EXCEPT ![c] = Moved(c, count)]
     /\ UNCHANGED <<queue, globalExplicitConsumerOffset, nextExplicitConsumerId>>

\* Who has its quota moves all; one element is counted exactly, more at least.
HasQuota(c, items) ==
  /\ globalExplicitConsumerOffset < MaxOffset
  /\ IF call[c].max = 1 THEN items = Quota ELSE items >= Quota

\* The token's own producer; the tail is loaded if that was not enough.
TryCurrent(c) ==
  LET p == tok[c].current
  IN /\ call[c].pc = "current"
     /\ \E n \in 0 .. call[c].max :
          LET items == tok[c].items + n
          IN /\ Gives(p, call[c].max, n)
             /\ Turns(c, "current", IF n = call[c].max THEN [Got(c, p, n) EXCEPT !.pc = "done"]
                                   ELSE [Got(c, p, n) EXCEPT !.pc = "ring", !.tail = Last,
                                           !.ptr = IF p = 1 THEN Last ELSE p - 1])
             /\ tok' = [tok EXCEPT ![c].items = items]
             /\ globalExplicitConsumerOffset' = globalExplicitConsumerOffset +
                  (IF n = call[c].max /\ HasQuota(c, items) THEN 1 ELSE 0)
             /\ UNCHANGED nextExplicitConsumerId

\* The ring of the producers that were there when the tail was loaded.
After(c) == IF call[c].ptr = 1 THEN call[c].tail ELSE call[c].ptr - 1

\* The others in turn; one that has something becomes the current one.
TryRing(c) ==
  LET p == call[c].ptr
  IN /\ call[c].pc = "ring"
     /\ IF call[c].left = 0 \/ p = tok[c].current
        THEN Turns(c, "ring", Finished(c)) /\ UNCHANGED <<queue, tok>>
        ELSE \E n \in 0 .. call[c].left :
               /\ Gives(p, call[c].left, n)
               /\ Turns(c, "ring", [Got(c, p, n) EXCEPT !.ptr = After(c)])
               /\ tok' = IF n = 0 THEN tok
                         ELSE [tok EXCEPT ![c].current = p, ![c].items = n]
     /\ UNCHANGED <<globalExplicitConsumerOffset, nextExplicitConsumerId>>

\* The call returns how many it got.
Return(c) ==
  /\ Turns(c, "done", NoCall)
  /\ UNCHANGED queue /\ Rest

Plain(c) == TryDequeue(c) \/ ScoreTail(c) \/ ScoreHead(c) \/ Scored(c) \/ TryBest(c)
            \/ (\E max \in Maxima : TryDequeueBulk(c, max)) \/ TryNext(c)
ByToken(c) == ConsumerToken(c) \/ (\E max \in Maxima : TokenDequeue(c, max))
                \/ TryCurrent(c) \/ TryRing(c)

CallsNext == AddProducer \/ (\E p \in 1..Last : Enqueue(p))
        \/ (\E c \in Others : Plain(c)) \/ (\E c \in TokenUsers : ByToken(c))
        \/ \E c \in Consumers : Return(c)
CallsSpec == CallsInit /\ [][CallsNext]_callsVars

-----------------------------------------------------------------------------

\* A call that returns less than it was asked for found every producer that was
\* in the list when it began to appear empty, as the comments on the calls say:
\* none is passed over, wherever the token pointed and however the list grew.
EveryoneAsked ==
  \A c \in DOMAIN call : call[c].pc = "done" /\ call[c].left > 0 => 1 .. call[c].there \subseteq call[c].empty
=============================================================================
