------------------------ MODULE LightweightSemaphore ------------------------
(***************************************************************************)
(* The semaphore of lightweightsemaphore.h that PacketQueue signals and    *)
(* waits on: an atomic count, and a kernel semaphore for threads that find *)
(* nothing in it.  signal () and wait (timeout) are modelled, the two      *)
(* operations the program calls, one action per atomic access.             *)
(*                                                                         *)
(* A load followed by a compare-and-swap that succeeds is one step: it     *)
(* succeeds only while the count is what was loaded.  A negative count is  *)
(* the number of threads the kernel semaphore still owes a post.           *)
(***************************************************************************)
EXTENDS Integers, FiniteSets

CONSTANTS
  Waiters,     \* threads that call wait (timeout): the sender
  Signallers,  \* threads that call signal (): the caller and the receiver
  MaxCount     \* bound: signal () is not called beyond this count

ASSUME ThreadsAssumption ==
  /\ IsFiniteSet(Waiters) /\ IsFiniteSet(Signallers)
  /\ MaxCount \in Nat

VARIABLES
  m_count,   \* the atomic count
  m_sema,    \* the value of the kernel semaphore
  wpc,       \* where each waiter is
  oldCount,  \* each waiter's last load of m_count after a timeout
  result,    \* what each waiter's last wait () returned
  posting    \* signallers that have yet to post

semaphoreVars == <<m_count, m_sema, wpc, oldCount, result, posting>>

WaiterLabels == {"out", "spin", "kernel", "load", "decide"}

SemaphoreInit ==
  /\ m_count = 0
  /\ m_sema = 0
  /\ wpc = [w \in Waiters |-> "out"]
  /\ oldCount = [w \in Waiters |-> 0]
  /\ result = [w \in Waiters |-> FALSE]
  /\ posting = {}

SemaphoreTypeOK ==
  /\ m_count \in Int
  /\ m_sema \in Nat
  /\ wpc \in [Waiters -> WaiterLabels]
  /\ oldCount \in [Waiters -> Int]
  /\ result \in [Waiters -> BOOLEAN]
  /\ posting \subseteq Signallers

\* Threads inside wait (), and those of them the count was decremented for.
Waiting == {w \in Waiters : wpc[w] # "out"}
Counted == {w \in Waiters : wpc[w] \in {"kernel", "load", "decide"}}

\* Signals that no wait () has taken.
Available == m_count + Cardinality(Counted)

Goto(w, from, to) ==
  /\ wpc[w] = from
  /\ wpc' = [wpc EXCEPT ![w] = to]

Return(w, from, value) ==
  /\ Goto(w, from, "out")
  /\ result' = [result EXCEPT ![w] = value]

-----------------------------------------------------------------------------
(* wait (timeout).                                                         *)

Call(w) ==
  /\ Goto(w, "out", "spin")
  /\ UNCHANGED <<m_count, m_sema, oldCount, result, posting>>

\* tryWait (), the spin loop, or the fetch_sub after it takes one.
Take(w) ==
  /\ Return(w, "spin", TRUE)
  /\ m_count > 0
  /\ m_count' = m_count - 1
  /\ UNCHANGED <<m_sema, oldCount, posting>>

\* fetch_sub finds nothing to take: the thread is counted as waiting.
SubWait(w) ==
  /\ Goto(w, "spin", "kernel")
  /\ m_count <= 0
  /\ m_count' = m_count - 1
  /\ UNCHANGED <<m_sema, oldCount, result, posting>>

\* timed_wait succeeds.
KernelTake(w) ==
  /\ Return(w, "kernel", TRUE)
  /\ m_sema > 0
  /\ m_sema' = m_sema - 1
  /\ UNCHANGED <<m_count, oldCount, posting>>

\* timed_wait times out; a post may come at the same moment.
KernelTimeout(w) ==
  /\ Goto(w, "kernel", "load")
  /\ UNCHANGED <<m_count, m_sema, oldCount, result, posting>>

\* The loop that undoes the decrement: oldCount = m_count.load ().
Load(w) ==
  /\ Goto(w, "load", "decide")
  /\ oldCount' = [oldCount EXCEPT ![w] = m_count]
  /\ UNCHANGED <<m_count, m_sema, result, posting>>

\* The count was not negative and try_wait () succeeds: signalled after all.
LateTake(w) ==
  /\ Return(w, "decide", TRUE)
  /\ oldCount[w] >= 0
  /\ m_sema > 0
  /\ m_sema' = m_sema - 1
  /\ UNCHANGED <<m_count, oldCount, posting>>

\* Mutant of GiveUp: the decrement is not undone.
GiveUpForgets(w) ==
  /\ Return(w, "decide", FALSE)
  /\ oldCount[w] < 0
  /\ m_count = oldCount[w]
  /\ UNCHANGED <<m_count, m_sema, oldCount, posting>>

\* The count was negative and is unchanged: the decrement is undone.
GiveUp(w) ==
  /\ Return(w, "decide", FALSE)
  /\ oldCount[w] < 0
  /\ m_count = oldCount[w]
  /\ m_count' = m_count + 1
  /\ UNCHANGED <<m_sema, oldCount, posting>>

\* Neither: the loop goes round again.
Again(w) ==
  /\ Goto(w, "decide", "load")
  /\ IF oldCount[w] >= 0 THEN m_sema = 0 ELSE m_count # oldCount[w]
  /\ UNCHANGED <<m_count, m_sema, oldCount, result, posting>>

Waiter(w) ==
  \/ Take(w) \/ SubWait(w)
  \/ KernelTake(w) \/ KernelTimeout(w)
  \/ Load(w) \/ LateTake(w) \/ GiveUp(w) \/ Again(w)

-----------------------------------------------------------------------------
(* signal ().                                                              *)

\* Mutant of Owed: a thread that waits alone is not woken.
OwedMany == m_count < -1

\* toRelease > 0: some waiter was counted below zero.
Owed == m_count < 0

\* fetch_add.
Signal(s) ==
  /\ s \notin posting
  /\ Available < MaxCount
  /\ m_count' = m_count + 1
  /\ posting' = IF Owed THEN posting \cup {s} ELSE posting
  /\ UNCHANGED <<m_sema, wpc, oldCount, result>>

\* m_sema.signal (1).
Post(s) ==
  /\ s \in posting
  /\ m_sema' = m_sema + 1
  /\ posting' = posting \ {s}
  /\ UNCHANGED <<m_count, wpc, oldCount, result>>

SemaphoreNext ==
  \/ \E w \in Waiters : Call(w) \/ Waiter(w)
  \/ \E s \in Signallers : Signal(s) \/ Post(s)

SemaphoreSpec == SemaphoreInit /\ [][SemaphoreNext]_semaphoreVars

\* Threads run on inside wait () and signal (); nobody has to call them.
SemaphoreFairSpec ==
  /\ SemaphoreSpec
  /\ \A w \in Waiters : WF_semaphoreVars(Waiter(w))
  /\ \A s \in Signallers : WF_semaphoreVars(Post(s))

-----------------------------------------------------------------------------
(* Properties.                                                             *)

\* The posts made and on the way are those owed to the threads that counted
\* themselves and that the count does not show as waiting any more.
PostsMatchWaiters ==
  m_sema + Cardinality(posting) =
    Cardinality(Counted) + (IF m_count < 0 THEN m_count ELSE 0)

\* The two-level semaphore is the counter its callers take it for: in
\* particular wait () times out only when what is there is not enough for
\* all who wait (lightweightsemaphore.h:282-286).
Counter == INSTANCE Semaphore WITH count <- Available, waiting <- Waiting

ImplementsCounter == Counter!Spec

\* No wake-up is lost: with one waiter, if it is inside wait () while there
\* is a signal to take, that wait () returns true.
SignalIsTaken ==
  \A w \in Waiters :
    wpc[w] # "out" /\ Available > 0 ~> wpc[w] = "out" /\ result[w]
=============================================================================
