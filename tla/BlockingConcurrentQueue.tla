----------------------- MODULE BlockingConcurrentQueue -----------------------
(***************************************************************************)
(* blockingconcurrentqueue.h: a ConcurrentQueue and a semaphore that       *)
(* counts its elements.  An enqueue signals after its elements are in; a   *)
(* dequeue first takes as many permits as it can get, at least one if it   *)
(* waits, and then tries the queue until it has an element for each.       *)
(*                                                                         *)
(* The semaphore is LightweightSemaphore with the calls that take or give  *)
(* several at once.  As there, a load and a compare-and-swap that succeeds *)
(* are one step.  A call with a token is the same call, and a call for one *)
(* element is the bulk call with a maximum of 1.                           *)
(***************************************************************************)
EXTENDS Integers, FiniteSetsExt, Functions

CONSTANTS
  Enqueuers, Dequeuers,   \* the threads that enqueue; and that dequeue
  Counts,                 \* how many elements a call enqueues
  AskedFor,               \* how many elements a call asks for
  MaxInQueue              \* bound: elements in the queue

ASSUME BlockingAssumption ==
  /\ IsFiniteSet(Enqueuers) /\ IsFiniteSet(Dequeuers)
  /\ Counts \subseteq Nat \ {0} /\ AskedFor \subseteq Nat \ {0} /\ MaxInQueue \in Nat

VARIABLES
  elements,          \* elements in inner
  m_count, m_sema,   \* the semaphore's count, and the kernel's
  signal,            \* what each producer has yet to signal
  post,              \* posts each producer has yet to make
  deq                \* the call each consumer is in

blockingVars == <<elements, m_count, m_sema, signal, post, deq>>

\* waits: "no", "forever" or "timed"; max: asked for; permits: taken and not yet
\* used; oldCount: of the loop after a timeout.
Outside == [pc |-> "idle", waits |-> "no", max |-> 0, permits |-> 0, oldCount |-> 0]

BlockingInit ==
  /\ elements = 0 /\ m_count = 0 /\ m_sema = 0
  /\ signal = [p \in Enqueuers |-> 0] /\ post = [p \in Enqueuers |-> 0]
  /\ deq = [c \in Dequeuers |-> Outside]

-----------------------------------------------------------------------------
(* The enqueue calls.                                                      *)

EnqueueMany(p, n) ==
  /\ signal[p] = 0 /\ post[p] = 0
  /\ elements + n <= MaxInQueue
  /\ elements' = elements + n
  /\ signal' = [signal EXCEPT ![p] = n]
  /\ UNCHANGED <<m_count, m_sema, post, deq>>

\* Mutant of ToRelease: one waiter is woken, however many were signalled.
ToReleaseOne(p) == Max({Min({-m_count, 1}), 0})

\* The threads that wait for what is signalled.
ToRelease(p) == Max({Min({-m_count, signal[p]}), 0})

\* signal (count): fetch_add,
Signal(p) ==
  /\ signal[p] > 0
  /\ m_count' = m_count + signal[p]
  /\ post' = [post EXCEPT ![p] = ToRelease(p)]
  /\ signal' = [signal EXCEPT ![p] = 0]
  /\ UNCHANGED <<elements, m_sema, deq>>

\* and a post to the kernel's for each who waits.
Post(p) ==
  /\ post[p] > 0
  /\ m_sema' = m_sema + 1
  /\ post' = [post EXCEPT ![p] = @ - 1]
  /\ UNCHANGED <<elements, m_count, signal, deq>>

-----------------------------------------------------------------------------
(* The dequeue calls.                                                      *)

Moves(c, from, next) == deq[c].pc = from /\ deq' = [deq EXCEPT ![c] = next]
Gains(c, pc, n) == [deq[c] EXCEPT !.pc = pc, !.permits = @ + n]
Still == UNCHANGED <<elements, signal, post>>

\* try_dequeue, wait_dequeue, wait_dequeue_timed and the bulk calls.
DequeueMany(c, waits, max) ==
  /\ Moves(c, "idle", [Outside EXCEPT !.pc = "try", !.waits = waits, !.max = max])
  /\ Still /\ UNCHANGED <<m_count, m_sema>>

\* How many tryWaitMany (max) takes.
Greedily(max) == Min({max, m_count})

\* tryWaitMany (), or the spinning that follows it.
TakeMany(c) ==
  /\ m_count > 0
  /\ Moves(c, "try", Gains(c, "use", Greedily(deq[c].max)))
  /\ m_count' = m_count - Greedily(deq[c].max)
  /\ Still /\ UNCHANGED m_sema

\* Nothing was there, and the call does not wait.
TakeNone(c) ==
  /\ m_count <= 0 /\ deq[c].waits = "no"
  /\ Moves(c, "try", Outside)
  /\ Still /\ UNCHANGED <<m_count, m_sema>>

\* fetch_sub takes one after all, or the thread is counted as waiting.
Subtract(c) ==
  /\ deq[c].waits # "no"
  /\ Moves(c, "try", IF m_count > 0 THEN Gains(c, "more", 1) ELSE Gains(c, "kernel", 0))
  /\ m_count' = m_count - 1
  /\ Still /\ UNCHANGED m_sema

KernelTake(c) ==
  /\ m_sema > 0 /\ m_sema' = m_sema - 1
  /\ Moves(c, "kernel", Gains(c, "more", 1))
  /\ Still /\ UNCHANGED m_count

KernelTimeout(c) ==
  /\ deq[c].waits = "timed"
  /\ Moves(c, "kernel", Gains(c, "load", 0))
  /\ Still /\ UNCHANGED <<m_count, m_sema>>

Load(c) ==
  /\ Moves(c, "load", [deq[c] EXCEPT !.pc = "decide", !.oldCount = m_count])
  /\ Still /\ UNCHANGED <<m_count, m_sema>>

\* Signalled after all, or the decrement is undone, or once more.
Decide(c) ==
  \/ /\ deq[c].oldCount >= 0 /\ m_sema > 0 /\ m_sema' = m_sema - 1
     /\ Moves(c, "decide", [Gains(c, "more", 1) EXCEPT !.oldCount = 0])
     /\ Still /\ UNCHANGED m_count
  \/ /\ deq[c].oldCount < 0 /\ m_count = deq[c].oldCount /\ m_count' = m_count + 1
     /\ Moves(c, "decide", Outside)
     /\ Still /\ UNCHANGED m_sema
  \/ /\ IF deq[c].oldCount >= 0 THEN m_sema = 0 ELSE m_count # deq[c].oldCount
     /\ Moves(c, "decide", [Gains(c, "load", 0) EXCEPT !.oldCount = 0])
     /\ Still /\ UNCHANGED <<m_count, m_sema>>

\* With one permit, a bulk call takes what else is there.
TakeMore(c) ==
  LET n == Max({Greedily(deq[c].max - 1), 0})
  IN /\ Moves(c, "more", Gains(c, "use", n))
     /\ m_count' = m_count - n
     /\ Still /\ UNCHANGED m_sema

\* The queue is tried until there is an element for each permit; it may give less
\* than it has (ConcurrentQueue).
TryInner(c) ==
  \E n \in 0 .. Min({deq[c].permits, elements}) :
    /\ Moves(c, "use", IF n = deq[c].permits THEN Outside ELSE Gains(c, "use", -n))
    /\ elements' = elements - n
    /\ UNCHANGED <<m_count, m_sema, signal, post>>

Enqueues(p) == (\E n \in Counts : EnqueueMany(p, n)) \/ Signal(p) \/ Post(p)
WaitMany(c) == TakeMany(c) \/ TakeNone(c) \/ Subtract(c) \/ KernelTake(c) \/ KernelTimeout(c)
               \/ Load(c) \/ Decide(c) \/ TakeMore(c)
Dequeues(c) == (\E waits \in {"no", "forever", "timed"}, max \in AskedFor : DequeueMany(c, waits, max))
               \/ WaitMany(c) \/ TryInner(c)

BlockingNext == (\E p \in Enqueuers : Enqueues(p)) \/ (\E c \in Dequeuers : Dequeues(c))
BlockingSpec == BlockingInit /\ [][BlockingNext]_blockingVars

-----------------------------------------------------------------------------

\* Permits taken and not yet used; and the consumers counted below zero.
Reserved == SumFunction([c \in Dequeuers |-> deq[c].permits])
Asleep == {c \in Dequeuers : deq[c].pc \in {"kernel", "load", "decide"}}

\* There is an element for every permit that was taken, so that no consumer
\* tries an empty queue for ever: signal comes after enqueue, and no permit is
\* taken twice, by a timeout that meets a signal or by who takes several.
PermitIsElement == Reserved <= elements

\* When the producers' calls are over, the consumers asleep in the kernel have
\* posts for all the elements that nobody has a permit for: none sleeps on while
\* there is an element for it.
NoneSleepsOn ==
  (\A p \in Enqueuers : signal[p] = 0 /\ post[p] = 0) =>
    m_sema = Min({Cardinality(Asleep), elements - Reserved})

\* A permit of the semaphore stands for an element, and an element without one
\* is waited for.
PermitsMatchElements == PermitIsElement /\ NoneSleepsOn
=============================================================================
