------------------------ MODULE ConcurrentQueueProofs ------------------------
(***************************************************************************)
(* Theorems about the parts of concurrentqueue.h and                       *)
(* blockingconcurrentqueue.h, for every number of threads and calls for    *)
(* any number of elements: the semaphore of the blocking queue, the choice *)
(* of the producers that a dequeue call asks, how threads come by a        *)
(* producer, and, for any pool and any number of blocks, the free list     *)
(* (its threads fewer than the flag in the counts, 2^31).                  *)
(***************************************************************************)
EXTENDS BlockingConcurrentQueue, ConcurrentQueue, Producers, FreeList, SumTheorems, SequenceTheorems

-----------------------------------------------------------------------------
(* The inductive invariant of BlockingConcurrentQueue.                     *)

\* What a consumer in a call may be.
AtTheSemaphore == {"try", "kernel", "load", "decide"}
DeqCalls == [pc : {"idle", "more", "use"} \cup AtTheSemaphore, waits : {"no", "forever", "timed"},
             max : Nat, permits : Nat, oldCount : Int]

BlockingTypes ==
  /\ elements \in Nat /\ m_count \in Int /\ m_sema \in Nat
  /\ signal \in [Enqueuers -> Nat] /\ post \in [Enqueuers -> Nat]
  /\ deq \in [Dequeuers -> DeqCalls]

\* Permits are held from the semaphore to the elements; and a call is for one
\* element at least.
PermitsInUse ==
  \A c \in Dequeuers :
    /\ deq[c].pc \in {"idle"} \cup AtTheSemaphore => deq[c].permits = 0
    /\ deq[c].pc # "idle" => deq[c].max > 0

\* A producer posts what it has signalled before it signals again.
OneSignal == \A p \in Enqueuers : signal[p] > 0 => post[p] = 0

Sleepers    == Cardinality(Asleep)
Unsignalled == SumFunctionOnSet(signal, Enqueuers)
Unposted    == SumFunctionOnSet(post, Enqueuers)

\* Elements without a permit are those not signalled yet and those counted.
ElementsCounted == elements = Reserved + Unsignalled + m_count + Sleepers

\* Posts, made or to be made, are owed to those who sleep and are not counted
\* below zero any more.
PostsOwed == m_sema + Unposted = Sleepers + (IF m_count < 0 THEN m_count ELSE 0)

BlockingInv ==
  BlockingTypes /\ PermitsInUse /\ OneSignal /\ ElementsCounted /\ PostsOwed

-----------------------------------------------------------------------------
(* Who takes how many.                                                     *)

LEMMA MinOfTwo ==
  ASSUME NEW a \in Int, NEW b \in Int
  PROVE  Min({a, b}) = IF a <= b THEN a ELSE b
<1>1. \A x \in {a, b} : (\A y \in {a, b} : x <= y) <=> x = IF a <= b THEN a ELSE b
  OBVIOUS
<1> QED
  BY <1>1 DEF Min

LEMMA MaxOfTwo ==
  ASSUME NEW a \in Int, NEW b \in Int
  PROVE  Max({a, b}) = IF a >= b THEN a ELSE b
<1>1. \A x \in {a, b} : (\A y \in {a, b} : x >= y) <=> x = IF a >= b THEN a ELSE b
  OBVIOUS
<1> QED
  BY <1>1 DEF Max

\* What one call changes of the permits in use and of those who sleep.
Sleeps(r) == IF r.pc \in {"kernel", "load", "decide"} THEN 1 ELSE 0

LEMMA CallTypes ==
  ASSUME NEW r \in DeqCalls
  PROVE  r.permits \in Nat /\ r.max \in Nat /\ r.oldCount \in Int /\ r.permits \in Int
<1>1. r.permits \in Nat /\ r.max \in Nat
  BY DEF DeqCalls
<1>2. r.oldCount \in Int
  BY DEF DeqCalls
<1> QED
  BY <1>1, <1>2

LEMMA SleepersType == Sleepers \in Nat
BY BlockingAssumption, FS_Subset, FS_CardinalityType DEF BlockingAssumption, Sleepers, Asleep

LEMMA ReservedType ==
  ASSUME BlockingTypes
  PROVE  Reserved \in Nat
<1> DEFINE f == [c \in Dequeuers |-> deq[c].permits]
<1>1. \A c \in Dequeuers : f[c] \in Nat
  BY DEF BlockingTypes, DeqCalls
<1>2. Reserved = SumFunctionOnSet(f, Dequeuers)
  BY DEF Reserved, SumFunction
<1> HIDE DEF f
<1> QED
  BY <1>1, <1>2, BlockingAssumption, SumNat DEF BlockingAssumption

LEMMA ReservedChange ==
  ASSUME BlockingTypes, NEW c \in Dequeuers, NEW r \in DeqCalls, deq' = [deq EXCEPT ![c] = r]
  PROVE  Reserved' = Reserved + (r.permits - deq[c].permits)
<1> DEFINE f == [d \in Dequeuers |-> deq[d].permits]
           e == [d \in Dequeuers |-> IF d = c THEN r.permits ELSE deq[d].permits]
<1>1. \A d \in Dequeuers : f[d] \in Int /\ e[d] \in Int
  <2>1. r.permits \in Int /\ \A d \in Dequeuers : deq[d].permits \in Int
    BY CallTypes DEF BlockingTypes
  <2> QED
    BY <2>1
<1>2. \A d \in Dequeuers : d # c => e[d] = f[d]
  OBVIOUS
<1>3. Reserved = SumFunctionOnSet(f, Dequeuers)
  BY DEF Reserved, SumFunction
<1>4. [d \in Dequeuers |-> deq[d].permits]' = e
  BY DEF BlockingTypes
<1>5. Reserved' = SumFunctionOnSet(e, Dequeuers)
  BY <1>4 DEF Reserved, SumFunction
<1>6. e[c] = r.permits /\ f[c] = deq[c].permits
  OBVIOUS
<1> HIDE DEF e, f
<1>7. SumFunctionOnSet(e, Dequeuers) = SumFunctionOnSet(f, Dequeuers) + (e[c] - f[c])
  BY <1>1, <1>2, BlockingAssumption, SumChange DEF BlockingAssumption
<1> QED
  BY <1>3, <1>5, <1>6, <1>7

LEMMA SleepersChange ==
  ASSUME BlockingTypes, NEW c \in Dequeuers, NEW r \in DeqCalls, deq' = [deq EXCEPT ![c] = r]
  PROVE  Sleepers' = Sleepers + (Sleeps(r) - Sleeps(deq[c]))
<1>1. IsFiniteSet(Asleep) /\ Sleepers \in Nat
  BY BlockingAssumption, FS_Subset, SleepersType DEF BlockingAssumption, Asleep
<1>2. c \in Asleep <=> Sleeps(deq[c]) = 1
  BY DEF Asleep, Sleeps
<1>3. Asleep' = IF Sleeps(r) = 1 THEN Asleep \cup {c} ELSE Asleep \ {c}
  BY DEF Asleep, Sleeps, BlockingTypes
<1>4. Cardinality(Asleep \cup {c}) = IF c \in Asleep THEN Cardinality(Asleep) ELSE Cardinality(Asleep) + 1
  BY <1>1, FS_AddElement
<1>5. Cardinality(Asleep \ {c}) = IF c \in Asleep THEN Cardinality(Asleep) - 1 ELSE Cardinality(Asleep)
  BY <1>1, FS_RemoveElement
<1>6. CASE Sleeps(r) = 1
  <2>1. Sleepers' = Cardinality(Asleep \cup {c})
    BY <1>3, <1>6 DEF Sleepers
  <2> QED
    BY <1>1, <1>2, <1>4, <1>6, <2>1 DEF Sleepers, Sleeps
<1>7. CASE Sleeps(r) = 0
  <2>1. Sleepers' = Cardinality(Asleep \ {c})
    BY <1>3, <1>7 DEF Sleepers
  <2> QED
    BY <1>1, <1>2, <1>5, <1>7, <2>1 DEF Sleepers, Sleeps
<1> QED
  BY <1>6, <1>7 DEF Sleeps

LEMMA CountTypes ==
  ASSUME BlockingTypes
  PROVE  /\ elements \in Nat /\ m_count \in Int /\ m_sema \in Nat
         /\ Reserved \in Int /\ Sleepers \in Int /\ Unsignalled \in Int /\ Unposted \in Int
<1>1. \A p \in Enqueuers : signal[p] \in Int /\ post[p] \in Int
  BY DEF BlockingTypes
<1> QED
  BY <1>1, ReservedType, SleepersType, SumType, BlockingAssumption
     DEF BlockingTypes, Unsignalled, Unposted, BlockingAssumption

\* The two balances, when a consumer's call becomes r, the queue n, the count k
\* and the kernel's semaphore s.
LEMMA ConsumerBalance ==
  ASSUME BlockingTypes, ElementsCounted, PostsOwed,
         NEW c \in Dequeuers, NEW r \in DeqCalls, NEW n \in Nat, NEW k \in Int, NEW s \in Nat,
         n - elements + deq[c].permits + Sleeps(deq[c]) = r.permits + k - m_count + Sleeps(r),
         s - m_sema + Sleeps(deq[c]) =
           Sleeps(r) + (IF k < 0 THEN k ELSE 0) - (IF m_count < 0 THEN m_count ELSE 0)
  PROVE  /\ n = (Reserved + (r.permits - deq[c].permits)) + Unsignalled + k
                   + (Sleepers + (Sleeps(r) - Sleeps(deq[c])))
         /\ s + Unposted = Sleepers + (Sleeps(r) - Sleeps(deq[c])) + (IF k < 0 THEN k ELSE 0)
<1>1. /\ deq[c].permits \in Int /\ Sleeps(deq[c]) \in Int
      /\ r.permits \in Int /\ Sleeps(r) \in Int
  BY CallTypes DEF BlockingTypes, Sleeps
<1>2. /\ elements \in Int /\ m_count \in Int /\ m_sema \in Int
      /\ Reserved \in Int /\ Sleepers \in Int /\ Unsignalled \in Int /\ Unposted \in Int
  BY CountTypes
<1>3. elements = Reserved + Unsignalled + m_count + Sleepers
  BY DEF ElementsCounted
<1>4. m_sema + Unposted = Sleepers + (IF m_count < 0 THEN m_count ELSE 0)
  BY DEF PostsOwed
<1>5. n = (Reserved + (r.permits - deq[c].permits)) + Unsignalled + k
            + (Sleepers + (Sleeps(r) - Sleeps(deq[c])))
  BY <1>1, <1>2, <1>3
<1>6. s + Unposted = Sleepers + (Sleeps(r) - Sleeps(deq[c])) + (IF k < 0 THEN k ELSE 0)
  BY <1>1, <1>2, <1>4
<1> QED
  BY <1>5, <1>6

\* The types, and what does not depend on the counts, after a consumer's step.
LEMMA ConsumerMoves ==
  ASSUME BlockingTypes, PermitsInUse, OneSignal, UNCHANGED <<signal, post>>,
         NEW c \in Dequeuers, NEW r \in DeqCalls, deq' = [deq EXCEPT ![c] = r],
         r.pc \in {"idle"} \cup AtTheSemaphore => r.permits = 0,
         r.pc # "idle" => r.max > 0,
         NEW n \in Nat, elements' = n, NEW k \in Int, m_count' = k, NEW s \in Nat, m_sema' = s,
         n - elements + deq[c].permits + Sleeps(deq[c]) = r.permits + k - m_count + Sleeps(r),
         s - m_sema + Sleeps(deq[c]) =
           Sleeps(r) + (IF k < 0 THEN k ELSE 0) - (IF m_count < 0 THEN m_count ELSE 0),
         ElementsCounted, PostsOwed
  PROVE  BlockingInv'
<1>1. /\ n = (Reserved + (r.permits - deq[c].permits)) + Unsignalled + k
                + (Sleepers + (Sleeps(r) - Sleeps(deq[c])))
      /\ s + Unposted = Sleepers + (Sleeps(r) - Sleeps(deq[c])) + (IF k < 0 THEN k ELSE 0)
  BY ConsumerBalance
<1>2. Reserved' = Reserved + (r.permits - deq[c].permits)
  BY ReservedChange
<1>3. Sleepers' = Sleepers + (Sleeps(r) - Sleeps(deq[c]))
  BY SleepersChange
<1>4. Unsignalled' = Unsignalled /\ Unposted' = Unposted
  BY DEF Unsignalled, Unposted
<1>5. ElementsCounted' /\ PostsOwed'
  BY <1>1, <1>2, <1>3, <1>4 DEF ElementsCounted, PostsOwed
<1>6. BlockingTypes' /\ PermitsInUse' /\ OneSignal'
  BY DEF BlockingTypes, PermitsInUse, OneSignal
<1> QED
  BY <1>5, <1>6 DEF BlockingInv

-----------------------------------------------------------------------------
(* Every step keeps the invariant.                                         *)

LEMMA BlockingStarts == BlockingInit => BlockingInv
<1> SUFFICES ASSUME BlockingInit PROVE BlockingInv
  OBVIOUS
<1> USE DEF BlockingInit
<1>1. BlockingTypes /\ PermitsInUse /\ OneSignal
  BY DEF BlockingTypes, PermitsInUse, OneSignal, DeqCalls, Outside
<1>2. Asleep = {} /\ Sleepers = 0
  BY FS_EmptySet DEF Asleep, Sleepers, Outside
<1>3. Unsignalled = 0 /\ Unposted = 0
  BY SumOfZeros, BlockingAssumption DEF Unsignalled, Unposted, BlockingAssumption
<1>4. Reserved = 0
  <2> DEFINE f == [c \in Dequeuers |-> deq[c].permits]
  <2>1. \A c \in Dequeuers : f[c] = 0
    BY DEF Outside
  <2>2. Reserved = SumFunctionOnSet(f, Dequeuers)
    BY DEF Reserved, SumFunction
  <2> HIDE DEF f
  <2> QED
    BY <2>1, <2>2, SumOfZeros, BlockingAssumption DEF BlockingAssumption
<1> QED
  BY <1>1, <1>2, <1>3, <1>4 DEF BlockingInv, ElementsCounted, PostsOwed

LEMMA SignalledChange ==
  ASSUME BlockingTypes, NEW p \in Enqueuers, NEW v \in Nat, signal' = [signal EXCEPT ![p] = v]
  PROVE  Unsignalled' = Unsignalled + (v - signal[p])
<1>1. IsFiniteSet(Enqueuers) /\ signal \in [Enqueuers -> Int] /\ v \in Int
  BY BlockingAssumption DEF BlockingAssumption, BlockingTypes
<1>2. SumFunctionOnSet([signal EXCEPT ![p] = v], Enqueuers)
        = SumFunctionOnSet(signal, Enqueuers) + (v - signal[p])
  BY <1>1, SumUpdate
<1> QED
  BY <1>2 DEF Unsignalled

LEMMA PostedChange ==
  ASSUME BlockingTypes, NEW p \in Enqueuers, NEW v \in Nat, post' = [post EXCEPT ![p] = v]
  PROVE  Unposted' = Unposted + (v - post[p])
<1>1. IsFiniteSet(Enqueuers) /\ post \in [Enqueuers -> Int] /\ v \in Int
  BY BlockingAssumption DEF BlockingAssumption, BlockingTypes
<1>2. SumFunctionOnSet([post EXCEPT ![p] = v], Enqueuers) = SumFunctionOnSet(post, Enqueuers) + (v - post[p])
  BY <1>1, SumUpdate
<1> QED
  BY <1>2 DEF Unposted

\* More elements, none signalled yet.
LEMMA EnqueueStep ==
  ASSUME BlockingInv, NEW p \in Enqueuers, NEW n \in Counts, EnqueueMany(p, n)
  PROVE  BlockingInv'
<1> USE DEF EnqueueMany
<1>1. n \in Nat
  BY BlockingAssumption DEF BlockingAssumption
<1>2. Unsignalled' = Unsignalled + n
  <2>1. Unsignalled' = Unsignalled + (n - signal[p]) /\ signal[p] = 0
    BY <1>1, SignalledChange DEF BlockingInv
  <2> QED
    BY <1>1, <2>1, CountTypes DEF BlockingInv
<1>3. UNCHANGED <<Reserved, Asleep, Unposted, Sleepers>>
  BY DEF Reserved, Asleep, Sleepers, Unposted
<1>4. ElementsCounted'
  <2>1. elements + n = Reserved + (Unsignalled + n) + m_count + Sleepers
    BY <1>1, CountTypes DEF BlockingInv, ElementsCounted
  <2> QED
    BY <1>2, <1>3, <2>1 DEF ElementsCounted
<1>5. PostsOwed'
  BY <1>3 DEF BlockingInv, PostsOwed
<1>6. BlockingTypes' /\ PermitsInUse' /\ OneSignal'
  BY <1>1 DEF BlockingInv, BlockingTypes, PermitsInUse, OneSignal
<1> QED
  BY <1>4, <1>5, <1>6 DEF BlockingInv

\* What is signalled is counted, and each who sleeps below zero is owed a post.
LEMMA SignalStep ==
  ASSUME BlockingInv, NEW p \in Enqueuers, Signal(p)
  PROVE  BlockingInv'
<1> USE DEF Signal
<1>1. PICK n \in Nat : n = signal[p] /\ n > 0
  BY DEF BlockingInv, BlockingTypes
<1>2. PICK w \in Nat : /\ w = ToRelease(p)
                       /\ w = (IF m_count + n < 0 THEN m_count + n ELSE 0)
                               - (IF m_count < 0 THEN m_count ELSE 0)
  <2>1. m_count \in Int /\ -m_count \in Int
    BY CountTypes DEF BlockingInv
  <2>2. Min({-m_count, n}) = IF -m_count <= n THEN -m_count ELSE n
    BY <2>1, MinOfTwo
  <2>3. ToRelease(p) = Max({IF -m_count <= n THEN -m_count ELSE n, 0})
    BY <1>1, <2>2 DEF ToRelease
  <2>4. ToRelease(p) = IF m_count >= 0 THEN 0 ELSE IF -m_count <= n THEN -m_count ELSE n
    BY <2>1, <2>3, MaxOfTwo
  <2> QED
    BY <2>1, <2>4
<1>3. Unsignalled' = Unsignalled - n
  <2>1. Unsignalled' = Unsignalled + (0 - n)
    BY <1>1, SignalledChange DEF BlockingInv
  <2> QED
    BY <1>1, <2>1, CountTypes DEF BlockingInv
<1>4. Unposted' = Unposted + w
  <2>1. Unposted' = Unposted + (w - post[p]) /\ post[p] = 0
    BY <1>1, <1>2, PostedChange DEF BlockingInv, OneSignal
  <2> QED
    BY <1>2, <2>1, CountTypes DEF BlockingInv
<1>5. UNCHANGED <<Reserved, Asleep, Sleepers>>
  BY DEF Reserved, Asleep, Sleepers
<1>6. m_count' = m_count + n
  BY <1>1
<1>7. ElementsCounted'
  <2>1. elements = Reserved + (Unsignalled - n) + (m_count + n) + Sleepers
    BY <1>1, CountTypes DEF BlockingInv, ElementsCounted
  <2> QED
    BY <1>3, <1>5, <1>6, <2>1 DEF ElementsCounted
<1>8. PostsOwed'
  <2>1. m_sema + (Unposted + w) = Sleepers + (IF m_count + n < 0 THEN m_count + n ELSE 0)
    BY <1>1, <1>2, CountTypes DEF BlockingInv, PostsOwed
  <2> QED
    BY <1>4, <1>5, <1>6, <2>1 DEF PostsOwed
<1>9. BlockingTypes' /\ PermitsInUse' /\ OneSignal'
  BY <1>1, <1>2 DEF BlockingInv, BlockingTypes, PermitsInUse, OneSignal
<1> QED
  BY <1>7, <1>8, <1>9 DEF BlockingInv

LEMMA PostStep ==
  ASSUME BlockingInv, NEW p \in Enqueuers, Post(p)
  PROVE  BlockingInv'
<1> USE DEF Post
<1>1. PICK w \in Nat : w = post[p] /\ w > 0
  BY DEF BlockingInv, BlockingTypes
<1>2. Unposted' = Unposted - 1
  <2>1. post' = [post EXCEPT ![p] = w - 1] /\ w - 1 \in Nat
    BY <1>1
  <2>2. Unposted' = Unposted + ((w - 1) - w)
    BY <1>1, <2>1, PostedChange DEF BlockingInv
  <2> QED
    BY <1>1, <2>2, CountTypes DEF BlockingInv
<1>3. UNCHANGED <<Reserved, Asleep, Sleepers, Unsignalled>>
  BY DEF Reserved, Asleep, Sleepers, Unsignalled
<1>4. ElementsCounted'
  BY <1>3 DEF BlockingInv, ElementsCounted
<1>5. PostsOwed'
  <2>1. (m_sema + 1) + (Unposted - 1) = Sleepers + (IF m_count < 0 THEN m_count ELSE 0)
    BY CountTypes DEF BlockingInv, PostsOwed
  <2> QED
    BY <1>2, <1>3, <2>1 DEF PostsOwed
<1>6. BlockingTypes' /\ PermitsInUse' /\ OneSignal'
  BY <1>1 DEF BlockingInv, BlockingTypes, PermitsInUse, OneSignal
<1> QED
  BY <1>4, <1>5, <1>6 DEF BlockingInv

-----------------------------------------------------------------------------
(* The steps of a consumer.                                                *)

CallPlaces == {"idle", "more", "use"} \cup AtTheSemaphore

LEMMA GainsCall ==
  ASSUME NEW r \in DeqCalls, NEW pc \in CallPlaces, NEW n \in Int, r.permits + n \in Nat
  PROVE  /\ [r EXCEPT !.pc = pc, !.permits = r.permits + n] \in DeqCalls
         /\ [r EXCEPT !.pc = pc, !.permits = r.permits + n].pc = pc
         /\ [r EXCEPT !.pc = pc, !.permits = r.permits + n].permits = r.permits + n
         /\ [r EXCEPT !.pc = pc, !.permits = r.permits + n].max = r.max
<1>1. PICK m \in Nat : m = r.permits + n
  OBVIOUS
<1>2. PICK e : e = [r EXCEPT !.pc = pc, !.permits = m]
  OBVIOUS
<1>3. e \in DeqCalls
  BY <1>1, <1>2, Zenon DEF DeqCalls, CallPlaces
<1>4. e.pc = pc /\ e.permits = m /\ e.max = r.max
  BY <1>2 DEF DeqCalls
<1> QED
  BY <1>1, <1>2, <1>3, <1>4

LEMMA LoadsCall ==
  ASSUME NEW r \in DeqCalls, NEW pc \in CallPlaces, NEW k \in Int
  PROVE  /\ [r EXCEPT !.pc = pc, !.oldCount = k] \in DeqCalls
         /\ [r EXCEPT !.pc = pc, !.oldCount = k].pc = pc
         /\ [r EXCEPT !.pc = pc, !.oldCount = k].permits = r.permits
         /\ [r EXCEPT !.pc = pc, !.oldCount = k].max = r.max
<1>1. PICK e : e = [r EXCEPT !.pc = pc, !.oldCount = k]
  OBVIOUS
<1>2. e \in DeqCalls
  BY <1>1, Zenon DEF DeqCalls, CallPlaces
<1>3. e.pc = pc /\ e.permits = r.permits /\ e.max = r.max
  BY <1>1 DEF DeqCalls
<1> QED
  BY <1>1, <1>2, <1>3

LEMMA OutsideCall ==
  ASSUME NEW pc \in CallPlaces, NEW w \in {"no", "forever", "timed"}, NEW m \in Nat,
         NEW e, e = [pc |-> pc, waits |-> w, max |-> m, permits |-> 0, oldCount |-> 0]
  PROVE  e \in DeqCalls /\ e.pc = pc /\ e.permits = 0 /\ e.max = m
<1>1. e \in DeqCalls
  BY DEF DeqCalls, CallPlaces
<1>2. e.pc = pc /\ e.permits = 0 /\ e.max = m
  OBVIOUS
<1> QED
  BY <1>1, <1>2

LEMMA NewCall ==
  ASSUME NEW pc, NEW w, NEW m,
         NEW e, e = [Outside EXCEPT !.pc = pc, !.waits = w, !.max = m]
  PROVE  e = [pc |-> pc, waits |-> w, max |-> m, permits |-> 0, oldCount |-> 0]
BY DEF Outside

LEMMA OutsideType == Outside \in DeqCalls /\ Outside.pc = "idle" /\ Outside.permits = 0
BY DEF Outside, DeqCalls

\* A call at the semaphore holds no permits.
LEMMA CallState ==
  ASSUME BlockingInv, NEW c \in Dequeuers
  PROVE  /\ deq[c] \in DeqCalls /\ deq[c].permits \in Nat /\ deq[c].max \in Nat
         /\ elements \in Nat /\ m_count \in Int /\ m_sema \in Nat
         /\ deq[c].pc = "idle" => deq[c].permits = 0 /\ Sleeps(deq[c]) = 0
         /\ deq[c].pc # "idle" => deq[c].max > 0
         /\ deq[c].pc = "try" => deq[c].permits = 0 /\ Sleeps(deq[c]) = 0
         /\ deq[c].pc \in {"kernel", "load", "decide"} => deq[c].permits = 0 /\ Sleeps(deq[c]) = 1
         /\ deq[c].pc \in {"more", "use"} => Sleeps(deq[c]) = 0
<1>1. /\ deq[c] \in DeqCalls
      /\ elements \in Nat /\ m_count \in Int /\ m_sema \in Nat
  BY DEF BlockingInv, BlockingTypes
<1>2. deq[c].permits \in Nat /\ deq[c].max \in Nat
  BY <1>1, CallTypes
<1> QED
  BY <1>1, <1>2 DEF BlockingInv, PermitsInUse, AtTheSemaphore, Sleeps

LEMMA DequeueStep ==
  ASSUME BlockingInv, NEW c \in Dequeuers, NEW w \in {"no", "forever", "timed"},
         NEW m \in AskedFor, DequeueMany(c, w, m)
  PROVE  BlockingInv'
<1>1. m \in Nat /\ m > 0
  BY BlockingAssumption DEF BlockingAssumption
<1>2. PICK r : r = [Outside EXCEPT !.pc = "try", !.waits = w, !.max = m]
  OBVIOUS
<1>3. /\ deq[c].pc = "idle" /\ deq' = [deq EXCEPT ![c] = r]
      /\ UNCHANGED <<elements, m_count, m_sema, signal, post>>
  BY <1>2 DEF DequeueMany, Moves, Still
<1>4. r \in DeqCalls /\ r.pc = "try" /\ r.permits = 0 /\ r.max = m
  <2>1. "try" \in CallPlaces
    BY DEF CallPlaces, AtTheSemaphore
  <2>2. r = [pc |-> "try", waits |-> w, max |-> m, permits |-> 0, oldCount |-> 0]
    BY <1>2, NewCall
  <2> QED
    BY <1>1, <2>1, <2>2, OutsideCall
<1>5. Sleeps(r) = 0
  BY <1>4 DEF Sleeps
<1>6. deq[c].permits = 0 /\ Sleeps(deq[c]) = 0 /\ elements \in Nat /\ m_count \in Int /\ m_sema \in Nat
  BY <1>3, CallState
<1>7. /\ elements - elements + deq[c].permits + Sleeps(deq[c]) = r.permits + m_count - m_count + Sleeps(r)
      /\ m_sema - m_sema + Sleeps(deq[c]) =
           Sleeps(r) + (IF m_count < 0 THEN m_count ELSE 0) - (IF m_count < 0 THEN m_count ELSE 0)
  BY <1>4, <1>5, <1>6
<1> QED
  BY <1>1, <1>3, <1>4, <1>6, <1>7, ConsumerMoves DEF BlockingInv

\* The queue becomes n, the count k and the kernel's semaphore s, with g permits
\* more for c, who sleeps then if z = 1: what keeps the two balances.
Become(n, k, s) ==
  elements' = n /\ m_count' = k /\ m_sema' = s /\ UNCHANGED <<signal, post>>
Balanced(c, n, k, s, g, z) ==
  /\ n - elements + Sleeps(deq[c]) = g + k - m_count + z
  /\ s - m_sema + Sleeps(deq[c]) =
       z + (IF k < 0 THEN k ELSE 0) - (IF m_count < 0 THEN m_count ELSE 0)

\* A call goes on, and asks for as many as before.
LEMMA GoesOn ==
  ASSUME BlockingInv, NEW c \in Dequeuers, NEW r \in DeqCalls, NEW g \in Int, NEW z \in Int,
         NEW n \in Nat, NEW k \in Int, NEW s \in Nat,
         deq' = [deq EXCEPT ![c] = r], Become(n, k, s), Balanced(c, n, k, s, g, z),
         deq[c].pc # "idle", r.pc # "idle", r.max = deq[c].max,
         r.permits = deq[c].permits + g, z = Sleeps(r),
         r.pc \in AtTheSemaphore => r.permits = 0
  PROVE  BlockingInv'
<1>1. /\ deq[c].permits \in Int /\ elements \in Int /\ m_count \in Int /\ m_sema \in Int
      /\ Sleeps(deq[c]) \in Int /\ deq[c].max > 0
  BY CallState DEF Sleeps
<1>2. n - elements + deq[c].permits + Sleeps(deq[c]) = r.permits + k - m_count + Sleeps(r)
  BY <1>1 DEF Balanced
<1>3. s - m_sema + Sleeps(deq[c]) =
        Sleeps(r) + (IF k < 0 THEN k ELSE 0) - (IF m_count < 0 THEN m_count ELSE 0)
  BY DEF Balanced
<1>4. r.max > 0 /\ (r.pc \in {"idle"} \cup AtTheSemaphore => r.permits = 0)
  BY <1>1
<1>5. elements' = n /\ m_count' = k /\ m_sema' = s /\ UNCHANGED <<signal, post>>
  BY DEF Become
<1> QED
  BY <1>2, <1>3, <1>4, <1>5, ConsumerMoves DEF BlockingInv

LEMMA GainsTypes ==
  ASSUME BlockingInv, NEW c \in Dequeuers, NEW pc \in CallPlaces, NEW g \in Int,
         deq[c].permits + g \in Nat
  PROVE  /\ Gains(c, pc, g) \in DeqCalls /\ Gains(c, pc, g).pc = pc
         /\ Gains(c, pc, g).permits = deq[c].permits + g /\ Gains(c, pc, g).max = deq[c].max
<1>1. PICK r \in DeqCalls : r = deq[c]
  BY CallState
<1>2. PICK e : e = [r EXCEPT !.pc = pc, !.permits = r.permits + g]
  OBVIOUS
<1>3. e \in DeqCalls /\ e.pc = pc /\ e.permits = r.permits + g /\ e.max = r.max
  <2>1. r.permits + g \in Nat
    BY <1>1
  <2>2. /\ [r EXCEPT !.pc = pc, !.permits = r.permits + g] \in DeqCalls
        /\ [r EXCEPT !.pc = pc, !.permits = r.permits + g].pc = pc
        /\ [r EXCEPT !.pc = pc, !.permits = r.permits + g].permits = r.permits + g
        /\ [r EXCEPT !.pc = pc, !.permits = r.permits + g].max = r.max
    BY <2>1, GainsCall, ZenonT(60)
  <2> QED
    BY <1>2, <2>2, Zenon
<1>4. Gains(c, pc, g) = e
  BY <1>1, <1>2 DEF Gains
<1> QED
  BY <1>1, <1>3, <1>4

LEMMA LoadsType ==
  ASSUME BlockingInv, NEW c \in Dequeuers, NEW k \in Int
  PROVE  /\ [deq[c] EXCEPT !.pc = "decide", !.oldCount = k] \in DeqCalls
         /\ [deq[c] EXCEPT !.pc = "decide", !.oldCount = k].pc = "decide"
         /\ [deq[c] EXCEPT !.pc = "decide", !.oldCount = k].permits = deq[c].permits
         /\ [deq[c] EXCEPT !.pc = "decide", !.oldCount = k].max = deq[c].max
<1>1. PICK r \in DeqCalls : r = deq[c]
  BY CallState
<1>2. "decide" \in CallPlaces
  BY DEF CallPlaces, AtTheSemaphore
<1>3. /\ [r EXCEPT !.pc = "decide", !.oldCount = k] \in DeqCalls
      /\ [r EXCEPT !.pc = "decide", !.oldCount = k].pc = "decide"
      /\ [r EXCEPT !.pc = "decide", !.oldCount = k].permits = r.permits
      /\ [r EXCEPT !.pc = "decide", !.oldCount = k].max = r.max
  BY <1>2, LoadsCall, ZenonT(60)
<1> QED
  BY <1>1, <1>3, Zenon

\* The same after a timeout, for who forgets what it read of the count.
Forgets(r) == [r EXCEPT !.oldCount = 0]

LEMMA ForgetsType ==
  ASSUME BlockingInv, NEW c \in Dequeuers, NEW pc \in CallPlaces, NEW g \in Int,
         deq[c].permits + g \in Nat
  PROVE  /\ Forgets(Gains(c, pc, g)) \in DeqCalls /\ Forgets(Gains(c, pc, g)).pc = pc
         /\ Forgets(Gains(c, pc, g)).permits = deq[c].permits + g
         /\ Forgets(Gains(c, pc, g)).max = deq[c].max
<1>1. PICK r : r = Gains(c, pc, g)
  OBVIOUS
<1>2. /\ r \in DeqCalls /\ r.pc = pc
      /\ r.permits = deq[c].permits + g /\ r.max = deq[c].max
  BY <1>1, GainsTypes
<1>3. PICK e : e = [r EXCEPT !.oldCount = 0] /\ e = Forgets(r)
  BY DEF Forgets
<1>4. e \in DeqCalls
  <2>1. 0 \in Int
    OBVIOUS
  <2> QED
    BY <1>2, <1>3, <2>1, Zenon DEF DeqCalls
<1>5. e.pc = r.pc /\ e.permits = r.permits /\ e.max = r.max
  BY <1>2, <1>3 DEF DeqCalls
<1> QED
  BY <1>1, <1>2, <1>3, <1>4, <1>5

\* The same for who goes on to pc with g permits more.
LEMMA GainsStep ==
  ASSUME BlockingInv, NEW c \in Dequeuers, NEW pc \in CallPlaces, NEW g \in Int, NEW z \in Int,
         NEW n \in Nat, NEW k \in Int, NEW s \in Nat,
         deq' = [deq EXCEPT ![c] = Gains(c, pc, g)], Become(n, k, s), Balanced(c, n, k, s, g, z),
         deq[c].pc # "idle", pc # "idle", deq[c].permits + g \in Nat,
         z = IF pc \in {"kernel", "load", "decide"} THEN 1 ELSE 0,
         pc \in AtTheSemaphore => deq[c].permits + g = 0
  PROVE  BlockingInv'
<1>1. PICK r : r = Gains(c, pc, g)
  OBVIOUS
<1>2. /\ r \in DeqCalls /\ r.pc = pc
      /\ r.permits = deq[c].permits + g /\ r.max = deq[c].max
  BY <1>1, GainsTypes
<1>3. z = Sleeps(r) /\ r.pc # "idle" /\ (r.pc \in AtTheSemaphore => r.permits = 0)
  BY <1>2 DEF Sleeps
<1>4. deq' = [deq EXCEPT ![c] = r]
  BY <1>1
<1> QED
  BY <1>2, <1>3, <1>4, GoesOn

\* Who has permits is awake, and who sleeps has none.
LEMMA AwakeStep ==
  ASSUME BlockingInv, NEW c \in Dequeuers, NEW pc \in {"more", "use"}, NEW g \in Int,
         NEW n \in Nat, NEW k \in Int, NEW s \in Nat,
         deq' = [deq EXCEPT ![c] = Gains(c, pc, g)], Become(n, k, s), Balanced(c, n, k, s, g, 0),
         deq[c].pc # "idle", deq[c].permits + g \in Nat
  PROVE  BlockingInv'
<1>1. /\ pc \in CallPlaces /\ pc \notin AtTheSemaphore /\ pc # "idle" /\ 0 \in Int
      /\ 0 = IF pc \in {"kernel", "load", "decide"} THEN 1 ELSE 0
  BY DEF CallPlaces, AtTheSemaphore
<1> QED
  BY <1>1, GainsStep, ZenonT(60)

LEMMA AsleepStep ==
  ASSUME BlockingInv, NEW c \in Dequeuers, NEW pc \in {"kernel", "load", "decide"},
         NEW n \in Nat, NEW k \in Int, NEW s \in Nat,
         deq' = [deq EXCEPT ![c] = Gains(c, pc, 0)], Become(n, k, s), Balanced(c, n, k, s, 0, 1),
         deq[c].pc # "idle", deq[c].permits = 0
  PROVE  BlockingInv'
<1>1. /\ pc \in CallPlaces /\ pc # "idle" /\ 0 \in Int /\ 1 \in Int
      /\ 1 = IF pc \in {"kernel", "load", "decide"} THEN 1 ELSE 0
  BY DEF CallPlaces, AtTheSemaphore
<1>2. deq[c].permits + 0 \in Nat /\ deq[c].permits + 0 = 0
  OBVIOUS
<1> QED
  BY <1>1, <1>2, GainsStep, ZenonT(60)

\* And for who leaves.
LEMMA LeavesStep ==
  ASSUME BlockingInv, NEW c \in Dequeuers,
         NEW n \in Nat, NEW k \in Int, NEW s \in Nat,
         deq' = [deq EXCEPT ![c] = Outside], Become(n, k, s),
         n - elements + deq[c].permits + Sleeps(deq[c]) = k - m_count,
         s - m_sema + Sleeps(deq[c]) =
           (IF k < 0 THEN k ELSE 0) - (IF m_count < 0 THEN m_count ELSE 0)
  PROVE  BlockingInv'
<1>1. PICK r : r = Outside
  OBVIOUS
<1>2. r \in DeqCalls /\ r.pc = "idle" /\ r.permits = 0 /\ Sleeps(r) = 0
  BY <1>1, OutsideType DEF Sleeps
<1>3. m_count \in Int /\ deq' = [deq EXCEPT ![c] = r]
  BY <1>1, CallState
<1>4. n - elements + deq[c].permits + Sleeps(deq[c]) = r.permits + k - m_count + Sleeps(r)
  BY <1>2, <1>3
<1>5. s - m_sema + Sleeps(deq[c]) =
        Sleeps(r) + (IF k < 0 THEN k ELSE 0) - (IF m_count < 0 THEN m_count ELSE 0)
  BY <1>2, <1>3
<1>6. /\ r.pc \in {"idle"} \cup AtTheSemaphore => r.permits = 0
      /\ r.pc # "idle" => r.max > 0
  BY <1>2
<1> QED
  BY <1>2, <1>3, <1>4, <1>5, <1>6, ConsumerMoves, ZenonT(60) DEF BlockingInv, Become

LEMMA TakeManyStep ==
  ASSUME BlockingInv, NEW c \in Dequeuers, TakeMany(c)
  PROVE  BlockingInv'
<1>1. /\ deq[c].pc = "try" /\ deq[c].permits = 0 /\ Sleeps(deq[c]) = 0
      /\ deq[c].max \in Nat /\ deq[c].max > 0 /\ m_count \in Int /\ m_count > 0
      /\ elements \in Nat /\ m_sema \in Nat
  BY CallState DEF TakeMany, Moves
<1>2. PICK g : g = Greedily(deq[c].max)
  OBVIOUS
<1>3. g \in Int /\ g >= 0 /\ g <= m_count
  <2>1. PICK m \in Nat : m = deq[c].max
    BY <1>1
  <2>2. g = Min({m, m_count})
    BY <1>2, <2>1 DEF Greedily
  <2>3. g = IF m <= m_count THEN m ELSE m_count
    BY <1>1, <2>1, <2>2, MinOfTwo
  <2> QED
    BY <1>1, <2>1, <2>3
<1>4. PICK k \in Int : k = m_count - g /\ k >= 0
  BY <1>1, <1>3
<1>5. deq' = [deq EXCEPT ![c] = Gains(c, "use", g)] /\ Become(elements, k, m_sema)
  BY <1>2, <1>4 DEF TakeMany, Moves, Still, Become
<1>6. Balanced(c, elements, k, m_sema, g, 0)
  BY <1>1, <1>3, <1>4 DEF Balanced
<1>7. deq[c].permits + g \in Nat /\ deq[c].pc # "idle"
  BY <1>1, <1>3
<1> QED
  BY <1>1, <1>3, <1>4, <1>5, <1>6, <1>7, AwakeStep

LEMMA TakeNoneStep ==
  ASSUME BlockingInv, NEW c \in Dequeuers, TakeNone(c)
  PROVE  BlockingInv'
<1>1. /\ deq[c].permits = 0 /\ Sleeps(deq[c]) = 0 /\ m_count \in Int
      /\ elements \in Nat /\ m_sema \in Nat
  BY CallState DEF TakeNone, Moves
<1>2. deq' = [deq EXCEPT ![c] = Outside] /\ Become(elements, m_count, m_sema)
  BY DEF TakeNone, Moves, Still, Become
<1>3. elements - elements + deq[c].permits + Sleeps(deq[c]) = m_count - m_count
  BY <1>1
<1>4. m_sema - m_sema + Sleeps(deq[c]) =
        (IF m_count < 0 THEN m_count ELSE 0) - (IF m_count < 0 THEN m_count ELSE 0)
  BY <1>1
<1> QED
  BY <1>1, <1>2, <1>3, <1>4, LeavesStep

\* One is taken after all, or who takes is counted below zero and sleeps.
LEMMA SubtractStep ==
  ASSUME BlockingInv, NEW c \in Dequeuers, Subtract(c)
  PROVE  BlockingInv'
<1>1. /\ deq[c].pc = "try" /\ deq[c].permits = 0 /\ Sleeps(deq[c]) = 0 /\ m_count \in Int
      /\ elements \in Nat /\ m_sema \in Nat
  BY CallState DEF Subtract, Moves
<1>2. PICK k \in Int : k = m_count - 1
  BY <1>1
<1>3. Become(elements, k, m_sema)
  BY <1>2 DEF Subtract, Still, Become
<1>4. CASE m_count > 0
  <2>1. deq' = [deq EXCEPT ![c] = Gains(c, "more", 1)]
    BY <1>4 DEF Subtract, Moves
  <2>3. Balanced(c, elements, k, m_sema, 1, 0)
    BY <1>1, <1>2, <1>4 DEF Balanced
  <2>4. deq[c].permits + 1 \in Nat /\ deq[c].pc # "idle" /\ 1 \in Int
    BY <1>1
  <2> QED
    BY <1>1, <1>2, <1>3, <2>1, <2>3, <2>4, AwakeStep
<1>5. CASE ~ (m_count > 0)
  <2>1. deq' = [deq EXCEPT ![c] = Gains(c, "kernel", 0)]
    BY <1>5 DEF Subtract, Moves
  <2>3. Balanced(c, elements, k, m_sema, 0, 1)
    BY <1>1, <1>2, <1>5 DEF Balanced
  <2> QED
    BY <1>1, <1>2, <1>3, <2>1, <2>3, AsleepStep
<1> QED
  BY <1>4, <1>5

LEMMA KernelTakeStep ==
  ASSUME BlockingInv, NEW c \in Dequeuers, KernelTake(c)
  PROVE  BlockingInv'
<1>1. /\ deq[c].pc = "kernel" /\ deq[c].permits = 0 /\ Sleeps(deq[c]) = 1 /\ m_count \in Int
      /\ elements \in Nat /\ m_sema \in Nat /\ m_sema > 0
  BY CallState DEF KernelTake, Moves
<1>2. PICK s \in Nat : s = m_sema - 1
  BY <1>1
<1>3. deq' = [deq EXCEPT ![c] = Gains(c, "more", 1)] /\ Become(elements, m_count, s)
  BY <1>2 DEF KernelTake, Moves, Still, Become
<1>4. Balanced(c, elements, m_count, s, 1, 0)
  BY <1>1, <1>2 DEF Balanced
<1>5. deq[c].permits + 1 \in Nat /\ deq[c].pc # "idle" /\ 1 \in Int
  BY <1>1
<1> QED
  BY <1>1, <1>2, <1>3, <1>4, <1>5, AwakeStep

LEMMA KernelTimeoutStep ==
  ASSUME BlockingInv, NEW c \in Dequeuers, KernelTimeout(c)
  PROVE  BlockingInv'
<1>1. /\ deq[c].pc = "kernel" /\ deq[c].permits = 0 /\ Sleeps(deq[c]) = 1 /\ m_count \in Int
      /\ elements \in Nat /\ m_sema \in Nat
  BY CallState DEF KernelTimeout, Moves
<1>2. deq' = [deq EXCEPT ![c] = Gains(c, "load", 0)] /\ Become(elements, m_count, m_sema)
  BY DEF KernelTimeout, Moves, Still, Become
<1>3. Balanced(c, elements, m_count, m_sema, 0, 1)
  BY <1>1 DEF Balanced
<1>4. deq[c].pc # "idle"
  BY <1>1
<1> QED
  BY <1>1, <1>2, <1>3, <1>4, AsleepStep

\* What was read of the count does not count.
LEMMA LoadStep ==
  ASSUME BlockingInv, NEW c \in Dequeuers, Load(c)
  PROVE  BlockingInv'
<1>1. /\ deq[c].pc = "load" /\ deq[c].permits = 0 /\ Sleeps(deq[c]) = 1 /\ m_count \in Int
      /\ elements \in Nat /\ m_sema \in Nat
  BY CallState DEF Load, Moves
<1>2. PICK r : r = [deq[c] EXCEPT !.pc = "decide", !.oldCount = m_count]
  OBVIOUS
<1>3. r \in DeqCalls /\ r.pc = "decide" /\ r.permits = deq[c].permits /\ r.max = deq[c].max
  BY <1>1, <1>2, LoadsType, Zenon
<1>4. deq' = [deq EXCEPT ![c] = r] /\ Become(elements, m_count, m_sema)
  BY <1>2 DEF Load, Moves, Still, Become
<1>5. Balanced(c, elements, m_count, m_sema, 0, 1)
  BY <1>1 DEF Balanced
<1>6. /\ Sleeps(r) = 1 /\ r.permits = deq[c].permits + 0 /\ deq[c].pc # "idle"
      /\ r.pc # "idle" /\ r.permits = 0 /\ 0 \in Int /\ 1 \in Int
  BY <1>1, <1>3 DEF Sleeps
<1> QED
  BY <1>1, <1>3, <1>4, <1>5, <1>6, GoesOn

LEMMA TakeMoreStep ==
  ASSUME BlockingInv, NEW c \in Dequeuers, TakeMore(c)
  PROVE  BlockingInv'
<1>1. /\ deq[c].pc = "more" /\ Sleeps(deq[c]) = 0 /\ deq[c].permits \in Nat /\ m_count \in Int
      /\ deq[c].max \in Nat /\ elements \in Nat /\ m_sema \in Nat
  BY CallState DEF TakeMore, Moves
<1>2. PICK g : g = Max({Greedily(deq[c].max - 1), 0})
  OBVIOUS
<1>3. g \in Int /\ g >= 0 /\ (g > 0 => g <= m_count)
  <2>1. PICK m \in Int : m = deq[c].max - 1
    BY <1>1
  <2>2. Greedily(m) = IF m <= m_count THEN m ELSE m_count
    BY <1>1, <2>1, MinOfTwo DEF Greedily
  <2>3. PICK h \in Int : h = Greedily(m) /\ h <= m_count
    BY <1>1, <2>1, <2>2
  <2>4. g = IF h >= 0 THEN h ELSE 0
    BY <1>2, <2>1, <2>3, MaxOfTwo
  <2> QED
    BY <1>1, <2>3, <2>4
<1>4. PICK k \in Int : k = m_count - g
  BY <1>1, <1>3
<1>5. deq' = [deq EXCEPT ![c] = Gains(c, "use", g)] /\ Become(elements, k, m_sema)
  BY <1>2, <1>4 DEF TakeMore, Moves, Still, Become
<1>6. Balanced(c, elements, k, m_sema, g, 0)
  BY <1>1, <1>3, <1>4 DEF Balanced
<1>7. deq[c].permits + g \in Nat /\ deq[c].pc # "idle"
  BY <1>1, <1>3
<1> QED
  BY <1>1, <1>3, <1>4, <1>5, <1>6, <1>7, AwakeStep

\* A permit is given back for each element taken.
LEMMA TryInnerStep ==
  ASSUME BlockingInv, NEW c \in Dequeuers, TryInner(c)
  PROVE  BlockingInv'
<1>1. /\ deq[c].pc = "use" /\ Sleeps(deq[c]) = 0 /\ deq[c].permits \in Nat /\ m_count \in Int
      /\ elements \in Nat /\ m_sema \in Nat
  BY CallState DEF TryInner, Moves
<1>2. PICK n \in 0 .. Min({deq[c].permits, elements}) :
        /\ deq' = [deq EXCEPT ![c] = IF n = deq[c].permits THEN Outside ELSE Gains(c, "use", -n)]
        /\ elements' = elements - n /\ UNCHANGED <<m_count, m_sema, signal, post>>
  BY DEF TryInner, Moves
<1>3. n \in Int /\ n <= deq[c].permits /\ n <= elements /\ n >= 0
  BY <1>1, MinOfTwo
<1>4. PICK e \in Nat : e = elements - n
  BY <1>1, <1>3
<1>5. Become(e, m_count, m_sema)
  BY <1>2, <1>4 DEF Become
<1>6. CASE n = deq[c].permits
  <2>1. deq' = [deq EXCEPT ![c] = Outside]
    BY <1>2, <1>6
  <2>2. e - elements + deq[c].permits + Sleeps(deq[c]) = m_count - m_count
    BY <1>1, <1>3, <1>4, <1>6
  <2>3. m_sema - m_sema + Sleeps(deq[c]) =
          (IF m_count < 0 THEN m_count ELSE 0) - (IF m_count < 0 THEN m_count ELSE 0)
    BY <1>1
  <2> QED
    BY <1>1, <1>5, <2>1, <2>2, <2>3, LeavesStep
<1>7. CASE n # deq[c].permits
  <2>1. PICK g \in Int : g = -n
    BY <1>3
  <2>2. deq' = [deq EXCEPT ![c] = Gains(c, "use", g)]
    BY <1>2, <1>7, <2>1
  <2>3. Balanced(c, e, m_count, m_sema, g, 0)
    BY <1>1, <1>3, <1>4, <2>1 DEF Balanced
  <2>4. deq[c].permits + g \in Nat /\ deq[c].pc # "idle"
    BY <1>1, <1>3, <2>1
  <2> QED
    BY <1>1, <1>5, <2>2, <2>3, <2>4, AwakeStep
<1> QED
  BY <1>6, <1>7

\* Signalled after all: as if the kernel had given it; or the count is as it was,
\* and the decrement is undone; or once more.
LEMMA DecideStep ==
  ASSUME BlockingInv, NEW c \in Dequeuers, Decide(c)
  PROVE  BlockingInv'
<1>1. /\ deq[c].pc = "decide" /\ deq[c].permits = 0 /\ Sleeps(deq[c]) = 1 /\ m_count \in Int
      /\ elements \in Nat /\ m_sema \in Nat /\ deq[c].pc # "idle"
  BY CallState DEF Decide, Moves
<1>2. CASE /\ deq[c].oldCount >= 0 /\ m_sema > 0 /\ m_sema' = m_sema - 1
           /\ Moves(c, "decide", [Gains(c, "more", 1) EXCEPT !.oldCount = 0])
           /\ Still /\ UNCHANGED m_count
  <2>1. PICK s \in Nat : s = m_sema - 1
    BY <1>1, <1>2
  <2>2. PICK r : r = Forgets(Gains(c, "more", 1))
    OBVIOUS
  <2>3. deq[c].permits + 1 \in Nat /\ 1 \in Int /\ "more" \in CallPlaces
    BY <1>1 DEF CallPlaces
  <2>4. /\ r \in DeqCalls /\ r.pc = "more"
        /\ r.permits = deq[c].permits + 1 /\ r.max = deq[c].max
    BY <2>2, <2>3, ForgetsType
  <2>5. deq' = [deq EXCEPT ![c] = r] /\ Become(elements, m_count, s)
    BY <1>2, <2>1, <2>2 DEF Moves, Still, Become, Forgets
  <2>6. Balanced(c, elements, m_count, s, 1, 0)
    BY <1>1, <2>1 DEF Balanced
  <2>7. Sleeps(r) = 0 /\ r.pc # "idle" /\ r.pc \notin AtTheSemaphore /\ 0 \in Int
    BY <2>4 DEF Sleeps, AtTheSemaphore
  <2> QED
    BY <1>1, <2>1, <2>3, <2>4, <2>5, <2>6, <2>7, GoesOn, ZenonT(60)
<1>3. CASE /\ deq[c].oldCount < 0 /\ m_count = deq[c].oldCount /\ m_count' = m_count + 1
           /\ Moves(c, "decide", Outside)
           /\ Still /\ UNCHANGED m_sema
  <2>1. PICK k \in Int : k = m_count + 1 /\ m_count < 0
    BY <1>1, <1>3
  <2>2. deq' = [deq EXCEPT ![c] = Outside] /\ Become(elements, k, m_sema)
    BY <1>3, <2>1 DEF Moves, Still, Become
  <2>3. elements - elements + deq[c].permits + Sleeps(deq[c]) = k - m_count
    BY <1>1, <2>1
  <2>4. m_sema - m_sema + Sleeps(deq[c]) =
          (IF k < 0 THEN k ELSE 0) - (IF m_count < 0 THEN m_count ELSE 0)
    BY <1>1, <2>1
  <2> QED
    BY <1>1, <2>1, <2>2, <2>3, <2>4, LeavesStep
<1>4. CASE /\ Moves(c, "decide", [Gains(c, "load", 0) EXCEPT !.oldCount = 0])
           /\ Still /\ UNCHANGED <<m_count, m_sema>>
  <2>1. PICK r : r = Forgets(Gains(c, "load", 0))
    OBVIOUS
  <2>2. deq[c].permits + 0 \in Nat /\ 0 \in Int /\ 1 \in Int /\ "load" \in CallPlaces
    BY <1>1 DEF CallPlaces, AtTheSemaphore
  <2>3. /\ r \in DeqCalls /\ r.pc = "load"
        /\ r.permits = deq[c].permits + 0 /\ r.max = deq[c].max
    BY <2>1, <2>2, ForgetsType
  <2>4. deq' = [deq EXCEPT ![c] = r] /\ Become(elements, m_count, m_sema)
    BY <1>4, <2>1 DEF Moves, Still, Become, Forgets
  <2>5. Balanced(c, elements, m_count, m_sema, 0, 1)
    BY <1>1 DEF Balanced
  <2>6. Sleeps(r) = 1 /\ r.pc # "idle" /\ r.permits = 0
    BY <1>1, <2>3 DEF Sleeps
  <2> QED
    BY <1>1, <2>2, <2>3, <2>4, <2>5, <2>6, GoesOn, ZenonT(60)
<1> QED
  BY <1>2, <1>3, <1>4 DEF Decide

LEMMA BlockingKept ==
  ASSUME BlockingInv, [BlockingNext]_blockingVars
  PROVE  BlockingInv'
<1>1. CASE \E p \in Enqueuers : Enqueues(p)
  BY <1>1, EnqueueStep, SignalStep, PostStep DEF Enqueues
<1>2. CASE \E c \in Dequeuers : Dequeues(c)
  <2>1. PICK c \in Dequeuers : Dequeues(c)
    BY <1>2
  <2>2. CASE \E waits \in {"no", "forever", "timed"}, max \in AskedFor : DequeueMany(c, waits, max)
    BY <2>2, DequeueStep
  <2>3. CASE WaitMany(c)
    BY <2>3, TakeManyStep, TakeNoneStep, SubtractStep, KernelTakeStep, KernelTimeoutStep,
       LoadStep, DecideStep, TakeMoreStep DEF WaitMany
  <2>4. CASE TryInner(c)
    BY <2>4, TryInnerStep
  <2> QED
    BY <2>1, <2>2, <2>3, <2>4 DEF Dequeues
<1>3. CASE UNCHANGED blockingVars
  BY <1>3 DEF blockingVars, BlockingInv, BlockingTypes, PermitsInUse, OneSignal, ElementsCounted, PostsOwed,
              Reserved, Unsignalled, Unposted, Sleepers, Asleep
<1> QED
  BY <1>1, <1>2, <1>3 DEF BlockingNext

\* Elements, permits and posts are counted exactly: BlockingInv, in every state.
THEOREM BlockingInvariant == BlockingSpec => []BlockingInv
<1>1. BlockingInit => BlockingInv
  BY BlockingStarts
<1>2. BlockingInv /\ [BlockingNext]_blockingVars => BlockingInv'
  BY BlockingKept
<1> QED
  BY <1>1, <1>2, PTL DEF BlockingSpec

-----------------------------------------------------------------------------
(* A permit is an element, and nobody sleeps on.                           *)

LEMMA CountsMatch ==
  ASSUME BlockingInv
  PROVE  PermitsMatchElements
<1>1. /\ elements \in Nat /\ m_count \in Int /\ m_sema \in Nat
      /\ Reserved \in Int /\ Sleepers \in Int /\ Unsignalled \in Int /\ Unposted \in Int
  BY CountTypes DEF BlockingInv
<1>2. Unsignalled >= 0 /\ Unposted >= 0
  <2>1. \A p \in Enqueuers : signal[p] \in Nat /\ post[p] \in Nat
    BY DEF BlockingInv, BlockingTypes
  <2>2. Unsignalled \in Nat /\ Unposted \in Nat
    BY <2>1, SumNat, BlockingAssumption DEF Unsignalled, Unposted, BlockingAssumption
  <2> QED
    BY <2>2
<1>3. /\ elements = Reserved + Unsignalled + m_count + Sleepers
      /\ m_sema + Unposted = Sleepers + (IF m_count < 0 THEN m_count ELSE 0)
  BY DEF BlockingInv, ElementsCounted, PostsOwed
<1>4. PermitIsElement
  BY <1>1, <1>2, <1>3 DEF PermitIsElement
<1>5. NoneSleepsOn
  <2> SUFFICES ASSUME \A p \in Enqueuers : signal[p] = 0 /\ post[p] = 0
               PROVE  m_sema = Min({Sleepers, elements - Reserved})
    BY DEF NoneSleepsOn, Sleepers
  <2>1. Unsignalled = 0 /\ Unposted = 0
    BY SumOfZeros, BlockingAssumption DEF Unsignalled, Unposted, BlockingAssumption
  <2>2. PICK n \in Int : n = elements - Reserved
    BY <1>1
  <2>3. Min({Sleepers, n}) = IF Sleepers <= n THEN Sleepers ELSE n
    BY <1>1, MinOfTwo
  <2>4. m_sema = IF Sleepers <= n THEN Sleepers ELSE n
    BY <1>1, <1>3, <2>1, <2>2
  <2> QED
    BY <2>2, <2>3, <2>4
<1> QED
  BY <1>4, <1>5 DEF PermitsMatchElements

\* In the blocking queue a permit that was taken stands for an element, whatever
\* the threads do between an enqueue and its signal, between the decrement and the
\* sleep, and after a timeout; and once the producers' calls are over, the
\* consumers asleep have a post for every element that nobody has a permit for.
THEOREM PermitsAreElements == BlockingSpec => []PermitsMatchElements
<1>1. BlockingInv => PermitsMatchElements
  BY CountsMatch
<1> QED
  BY <1>1, BlockingInvariant, PTL

-----------------------------------------------------------------------------
(* The inductive invariant of ConcurrentQueue's dequeue calls: for a call,   *)
(* the token's current producer and the length of the list.                  *)

Calls == [pc : {"idle", "score", "head", "best", "all", "current", "ring", "done"},
          max : Nat, left : Nat, ptr : Nat, tail : Int, best : Nat, size : Nat, nonEmpty : Nat,
          there : Nat, empty : SUBSET Int]
Toks == [initial : Int, desired : Nat, current : Nat, items : Int, known : Int]

\* The queues from the pointer's on were seen empty, if none was seen that is not.
ScoredSoFar(r) ==
  /\ r.left = 1
  /\ r.best = None =>
       r.size = 0 /\ r.nonEmpty = 0 /\ \A q \in 1..r.there : q > r.ptr => q \in r.empty

\* Down the list, the best one having been asked before.
AskedSoFar(r) ==
  r.left > 0 =>
    /\ r.best # None => r.best \in r.empty
    /\ \A q \in 1..r.there : q > r.ptr => q \in r.empty

\* Around the list, from the current one down to the pointer's.
RoundSoFar(r, current) ==
  /\ r.ptr \in 1..r.tail /\ current \in 1..r.tail /\ r.there <= r.tail
  /\ r.left > 0 =>
       \A q \in 1..r.tail :
         (IF r.ptr < current THEN r.ptr < q /\ q <= current ELSE q <= current \/ r.ptr < q)
           => q \in r.empty

CallFits(r, current, last) ==
  /\ r.there <= last
  /\ r.pc \in {"score", "head", "all"} => r.ptr <= last
  /\ r.pc \in {"score", "head"} => ScoredSoFar(r)
  /\ r.pc = "head" => r.ptr # None
  /\ r.pc = "best" => r.left = 1 /\ r.best # None
  /\ r.pc = "all" => AskedSoFar(r)
  /\ r.pc = "current" => r.left = r.max /\ current \in 1..last
  /\ r.pc = "ring" => RoundSoFar(r, current) /\ r.tail <= last
  /\ r.pc = "done" /\ r.left > 0 => \A q \in 1..r.there : q \in r.empty

\* A token that has a place has it in the list.
TokenFits(t, last) == t.desired # None => t.desired \in 1..last /\ t.current \in 1..last

CallsTypes ==
  /\ queue \in Seq([tail : Int, head : Int])
  /\ globalExplicitConsumerOffset \in Int /\ nextExplicitConsumerId \in Int
  /\ tok \in [Consumers -> Toks] /\ call \in [Consumers -> Calls]

CallsInv ==
  /\ CallsTypes
  /\ \A c \in Consumers : CallFits(call[c], tok[c].current, Last) /\ TokenFits(tok[c], Last)


-----------------------------------------------------------------------------
(* What the steps make of a call.                                          *)

LEMMA CallFields ==
  ASSUME NEW r \in Calls
  PROVE  /\ r.max \in Nat /\ r.left \in Nat /\ r.ptr \in Nat /\ r.tail \in Int /\ r.best \in Nat
         /\ r.size \in Nat /\ r.nonEmpty \in Nat /\ r.there \in Nat
BY DEF Calls

LEMMA CallMonotone ==
  ASSUME NEW r \in Calls, NEW current \in Nat, NEW m \in Nat, NEW n \in Nat, m <= n,
         CallFits(r, current, m)
  PROVE  CallFits(r, current, n)
<1>1. r.there \in Nat /\ r.ptr \in Nat /\ r.tail \in Int
  BY CallFields
<1> QED
  BY <1>1 DEF CallFits

LEMMA TokenMonotone ==
  ASSUME NEW t \in Toks, NEW m \in Nat, NEW n \in Nat, m <= n, TokenFits(t, m)
  PROVE  TokenFits(t, n)
BY DEF TokenFits

\* A step of one call leaves the others, and the list.
LEMMA CallMoves ==
  ASSUME CallsInv, NEW c \in Consumers, NEW r \in Calls, NEW t \in Toks,
         call' = [call EXCEPT ![c] = r], tok' = [tok EXCEPT ![c] = t],
         queue' \in Seq([tail : Int, head : Int]), Len(queue') = Last,
         globalExplicitConsumerOffset' \in Int, nextExplicitConsumerId' \in Int,
         CallFits(r, t.current, Last), TokenFits(t, Last)
  PROVE  CallsInv'
<1>1. CallsTypes'
  BY DEF CallsInv, CallsTypes
<1>2. Last' = Last
  BY DEF Last
<1>3. ASSUME NEW d \in Consumers
      PROVE  (CallFits(call[d], tok[d].current, Last) /\ TokenFits(tok[d], Last))'
  <2>1. CASE d = c
    <3>1. call'[d] = r /\ tok'[d] = t
      BY <2>1 DEF CallsInv, CallsTypes
    <3>2. CallFits(call'[d], tok'[d].current, Last') /\ TokenFits(tok'[d], Last')
      BY <1>2, <3>1
    <3> QED
      BY <3>2
  <2>2. CASE d # c
    <3>1. call'[d] = call[d] /\ tok'[d] = tok[d]
      BY <2>2 DEF CallsInv, CallsTypes
    <3>2. CallFits(call'[d], tok'[d].current, Last') /\ TokenFits(tok'[d], Last')
      BY <1>2, <3>1 DEF CallsInv
    <3> QED
      BY <3>2
  <2> QED
    BY <2>1, <2>2
<1> QED
  BY <1>1, <1>3 DEF CallsInv

\* What the invariant says of one call.
LEMMA CallNow ==
  ASSUME CallsInv, NEW c \in Consumers
  PROVE  /\ call[c] \in Calls /\ tok[c] \in Toks /\ Last \in Nat
         /\ tok[c].current \in Nat /\ tok[c].desired \in Nat /\ tok[c].initial \in Int
         /\ tok[c].known \in Int /\ tok[c].items \in Int
         /\ CallFits(call[c], tok[c].current, Last) /\ TokenFits(tok[c], Last)
<1>1. call[c] \in Calls /\ tok[c] \in Toks /\ Last \in Nat
  BY LenProperties DEF CallsInv, CallsTypes, Last
<1>2. /\ tok[c].current \in Nat /\ tok[c].desired \in Nat /\ tok[c].initial \in Int
      /\ tok[c].known \in Int /\ tok[c].items \in Int
  BY <1>1 DEF Toks
<1> QED
  BY <1>1, <1>2 DEF CallsInv

\* The elements that a queue gives leave the list as long as it is.
LEMMA GivesLength ==
  ASSUME CallsInv, NEW p, NEW want, NEW n \in Int, Gives(p, want, n)
  PROVE  queue' \in Seq([tail : Int, head : Int]) /\ Len(queue') = Last
<1> DEFINE S == [tail : Int, head : Int]
<1>1. queue \in Seq(S)
  BY DEF CallsInv, CallsTypes
<1>2. queue' = [queue EXCEPT ![p] = [queue[p] EXCEPT !.head = queue[p].head + n]]
  BY DEF Gives
<1>3. CASE p \in 1..Last
  <2>1. queue[p] \in S
    BY <1>1, <1>3, ElementOfSeq DEF Last
  <2>2. queue[p].head + n \in Int
    BY <2>1
  <2>3. [queue[p] EXCEPT !.head = queue[p].head + n] \in S
    BY <2>1, <2>2, Zenon
  <2> HIDE DEF S
  <2>4. PICK x \in S : x = [queue[p] EXCEPT !.head = queue[p].head + n]
    BY <2>3
  <2>5. queue' = [queue EXCEPT ![p] = x]
    BY <1>2, <2>4
  <2>6. [queue EXCEPT ![p] = x] \in Seq(S) /\ Len([queue EXCEPT ![p] = x]) = Len(queue)
    BY <1>1, <1>3, ExceptSeq DEF Last
  <2>7. queue' \in Seq(S) /\ Len(queue') = Last
    BY <2>5, <2>6 DEF Last
  <2> QED
    BY <2>7 DEF S
<1>4. CASE p \notin 1..Last
  <2> HIDE DEF S
  <2>1. DOMAIN queue = 1..Last
    BY <1>1, LenProperties DEF Last
  <2>2. queue' = queue
    BY <1>1, <1>2, <1>4, <2>1
  <2>3. queue' \in Seq(S) /\ Len(queue') = Last
    BY <1>1, <2>2 DEF Last
  <2> QED
    BY <2>3 DEF S
<1> QED
  BY <1>3, <1>4


LEMMA BegunCall ==
  ASSUME NEW pc \in {"score", "all", "current", "done"}, NEW max \in Nat, NEW last \in Nat, last = Last
  PROVE  /\ Begin(pc, max) \in Calls
         /\ Begin(pc, max).pc = pc /\ Begin(pc, max).max = max /\ Begin(pc, max).left = max
         /\ Begin(pc, max).ptr = last /\ Begin(pc, max).tail = last /\ Begin(pc, max).there = last
         /\ Begin(pc, max).best = None /\ Begin(pc, max).size = 0 /\ Begin(pc, max).nonEmpty = 0
<1>1. PICK e : e = Begin(pc, max)
  OBVIOUS
<1>2. e = [pc |-> pc, max |-> max, left |-> max, ptr |-> last, tail |-> last, best |-> None,
           size |-> 0, nonEmpty |-> 0, there |-> last, empty |-> {}]
  BY <1>1 DEF Begin, NoCall
<1>3. e \in Calls
  BY <1>2 DEF Calls, None
<1>4. /\ e.pc = pc /\ e.max = max /\ e.left = max /\ e.ptr = last /\ e.tail = last /\ e.there = last
      /\ e.best = None /\ e.size = 0 /\ e.nonEmpty = 0
  BY <1>2
<1> QED
  BY <1>1, <1>3, <1>4

LEMMA NoCallFits ==
  ASSUME NEW current, NEW last \in Nat
  PROVE  NoCall \in Calls /\ CallFits(NoCall, current, last)
<1>1. NoCall \in Calls
  BY DEF NoCall, Calls, None
<1>2. NoCall.pc = "idle" /\ NoCall.there = 0
  BY DEF NoCall
<1> QED
  BY <1>1, <1>2 DEF CallFits

\* Calls stay calls: where the call is changes; a queue gave n elements; and the
\* pointer moves.
LEMMA PcCall ==
  ASSUME NEW r \in Calls, NEW pc \in {"best", "done"}, NEW e, e = [r EXCEPT !.pc = pc]
  PROVE  e \in Calls
BY Zenon DEF Calls

LEMMA GotCall ==
  ASSUME NEW r \in Calls, NEW n \in Nat, n <= r.left, NEW p \in Int,
         NEW e, e = [r EXCEPT !.left = r.left - n,
                              !.empty = IF n < r.left THEN r.empty \cup {p} ELSE r.empty]
  PROVE  e \in Calls
<1>1. PICK k \in Nat : k = r.left - n
  BY CallFields
<1>2. PICK s \in SUBSET Int : s = IF n < r.left THEN r.empty \cup {p} ELSE r.empty
  BY DEF Calls
<1>3. [r EXCEPT !.left = k, !.empty = s] \in Calls
  BY Zenon DEF Calls
<1> QED
  BY <1>1, <1>2, <1>3

LEMMA PtrCall ==
  ASSUME NEW r \in Calls, NEW pc \in {"score", "head", "all", "ring"}, NEW q \in Nat, NEW k \in Int,
         NEW e, e = [r EXCEPT !.pc = pc, !.tail = k, !.ptr = q]
  PROVE  e \in Calls
BY Zenon DEF Calls

LEMMA ScoredCall ==
  ASSUME NEW r \in Calls, NEW q \in Nat, NEW n \in Nat, NEW size \in Nat, NEW b \in Nat, NEW s \in SUBSET Int
  PROVE  [r EXCEPT !.pc = "score", !.ptr = q, !.nonEmpty = n, !.size = size, !.best = b, !.empty = s] \in Calls
<1>1. "score" \in {"idle", "score", "head", "best", "all", "current", "ring", "done"}
  OBVIOUS
<1> QED
  BY <1>1, Zenon DEF Calls


\* A step that leaves the token.
LEMMA PlainMoves ==
  ASSUME CallsInv, NEW c \in Consumers, NEW r \in Calls,
         call' = [call EXCEPT ![c] = r], tok' = tok,
         queue' \in Seq([tail : Int, head : Int]), Len(queue') = Last,
         globalExplicitConsumerOffset' \in Int, nextExplicitConsumerId' \in Int,
         CallFits(r, tok[c].current, Last)
  PROVE  CallsInv'
<1>1. PICK t \in Toks : t = tok[c]
  BY CallNow
<1>2. tok' = [tok EXCEPT ![c] = t]
  BY <1>1 DEF CallsInv, CallsTypes
<1>3. TokenFits(t, Last) /\ CallFits(r, t.current, Last)
  BY <1>1, CallNow
<1> QED
  BY <1>2, <1>3, CallMoves

\* The same for a step that looks only.
LEMMA LooksOnly ==
  ASSUME CallsInv, NEW c \in Consumers, NEW r \in Calls,
         call' = [call EXCEPT ![c] = r], UNCHANGED queue, Rest,
         CallFits(r, tok[c].current, Last)
  PROVE  CallsInv'
<1>1. /\ queue' \in Seq([tail : Int, head : Int]) /\ Len(queue') = Last
      /\ globalExplicitConsumerOffset' \in Int /\ nextExplicitConsumerId' \in Int /\ tok' = tok
  BY DEF CallsInv, CallsTypes, Rest, Last
<1> QED
  BY <1>1, PlainMoves

LEMMA AddProducerStep ==
  ASSUME CallsInv, AddProducer
  PROVE  CallsInv'
<1> DEFINE e == [tail |-> 0, head |-> 0]
<1>1. PICK S : S = [tail : Int, head : Int]
  OBVIOUS
<1>2. queue \in Seq(S) /\ e \in S
  BY <1>1 DEF CallsInv, CallsTypes
<1>3. queue' = Append(queue, e) /\ call' = call /\ tok' = tok
  BY DEF AddProducer, Rest
<1> HIDE DEF e
<1>4. queue' \in Seq(S) /\ Len(queue') = Last + 1
  BY <1>2, <1>3, AppendProperties DEF Last
<1>5. CallsTypes'
  BY <1>1, <1>3, <1>4 DEF CallsInv, CallsTypes, AddProducer, Rest
<1>6. PICK m \in Nat : m = Last
  BY <1>2, LenProperties DEF Last
<1>7. Last' = m + 1 /\ m + 1 \in Nat /\ m <= m + 1
  BY <1>4, <1>6 DEF Last
<1>8. ASSUME NEW c \in Consumers
      PROVE  (CallFits(call[c], tok[c].current, Last) /\ TokenFits(tok[c], Last))'
  <2>1. CallFits(call[c], tok[c].current, m + 1) /\ TokenFits(tok[c], m + 1)
    BY <1>6, <1>7, CallNow, CallMonotone, TokenMonotone
  <2> QED
    BY <1>3, <1>7, <2>1
<1> QED
  BY <1>5, <1>8 DEF CallsInv

LEMMA EnqueueOneStep ==
  ASSUME CallsInv, NEW p \in 1..Last, Enqueue(p)
  PROVE  CallsInv'
<1>1. PICK S : S = [tail : Int, head : Int]
  OBVIOUS
<1>2. queue \in Seq(S)
  BY <1>1 DEF CallsInv, CallsTypes
<1>3. PICK e : e = [queue[p] EXCEPT !.tail = queue[p].tail + 1]
  OBVIOUS
<1>4. e \in S
  <2>1. queue[p] \in S
    BY <1>2, ElementOfSeq DEF Last
  <2>2. queue[p].tail + 1 \in Int
    BY <1>1, <2>1
  <2> QED
    BY <1>1, <1>3, <2>1, <2>2, Zenon
<1>5. queue' = [queue EXCEPT ![p] = e]
  BY <1>3 DEF Enqueue
<1>6. queue' \in Seq(S) /\ Len(queue') = Last
  BY <1>2, <1>4, <1>5, ExceptSeq DEF Last
<1>7. CallsTypes' /\ Last' = Last
  BY <1>1, <1>6 DEF CallsInv, CallsTypes, Enqueue, Rest, Last
<1>8. call' = call /\ tok' = tok
  BY DEF Enqueue, Rest
<1>9. ASSUME NEW c \in Consumers
      PROVE  (CallFits(call[c], tok[c].current, Last) /\ TokenFits(tok[c], Last))'
  BY <1>7, <1>8 DEF CallsInv
<1> QED
  BY <1>7, <1>9 DEF CallsInv

-----------------------------------------------------------------------------
(* Without a token.                                                        *)

LEMMA TryDequeueStep ==
  ASSUME CallsInv, NEW c \in Consumers, TryDequeue(c)
  PROVE  CallsInv'
<1>1. PICK r : r = Begin("score", 1)
  OBVIOUS
<1>2. PICK last \in Nat : last = Last
  BY CallNow
<1>3. /\ r \in Calls /\ r.pc = "score" /\ r.left = 1 /\ r.ptr = last /\ r.there = last
      /\ r.best = None /\ r.size = 0 /\ r.nonEmpty = 0
  BY <1>1, <1>2, BegunCall
<1>4. CallFits(r, tok[c].current, Last)
  BY <1>2, <1>3 DEF CallFits, ScoredSoFar
<1> QED
  BY <1>1, <1>3, <1>4, LooksOnly DEF TryDequeue, Turns

LEMMA ScoreTailStep ==
  ASSUME CallsInv, NEW c \in Consumers, ScoreTail(c)
  PROVE  CallsInv'
<1>1. PICK r \in Calls : r = call[c]
  BY CallNow
<1>2. r.pc = "score" /\ r.ptr # None /\ r.ptr \in Nat
  BY <1>1, CallFields DEF ScoreTail, Turns
<1>3. PICK k \in Int : k = queue[r.ptr].tail
  <2>1. r.ptr \in 1..Last
    BY <1>1, <1>2, CallNow DEF CallFits, None
  <2>2. PICK S : S = [tail : Int, head : Int]
    OBVIOUS
  <2>3. queue[r.ptr] \in S
    BY <2>1, <2>2, ElementOfSeq DEF CallsInv, CallsTypes, Last
  <2> QED
    BY <2>2, <2>3
<1>4. PICK e : e = [r EXCEPT !.pc = "head", !.tail = k]
  OBVIOUS
<1>5. e \in Calls
  <2>1. e = [r EXCEPT !.pc = "head", !.tail = k, !.ptr = r.ptr]
    BY <1>4 DEF Calls
  <2> QED
    BY <1>2, <2>1, PtrCall
<1>6. /\ e.pc = "head" /\ e.left = r.left /\ e.ptr = r.ptr
      /\ e.best = r.best /\ e.there = r.there /\ e.empty = r.empty
      /\ e.size = r.size /\ e.nonEmpty = r.nonEmpty
  BY <1>4 DEF Calls
<1>7. CallFits(r, tok[c].current, Last)
  BY <1>1, CallNow
<1>8. CallFits(e, tok[c].current, Last)
  BY <1>2, <1>6, <1>7 DEF CallFits, ScoredSoFar
<1>9. call' = [call EXCEPT ![c] = e] /\ UNCHANGED queue /\ Rest
  BY <1>1, <1>3, <1>4 DEF ScoreTail, Turns
<1> QED
  BY <1>5, <1>8, <1>9, LooksOnly


LEMMA ScoreHeadStep ==
  ASSUME CallsInv, NEW c \in Consumers, ScoreHead(c)
  PROVE  CallsInv'
<1>1. PICK r \in Calls : r = call[c]
  BY CallNow
<1>2. /\ r.pc = "head" /\ r.ptr \in Nat /\ r.size \in Nat /\ r.nonEmpty \in Nat /\ r.best \in Nat
      /\ r.tail \in Int /\ r.there \in Nat /\ r.empty \in SUBSET Int
  <2>1. r.empty \in SUBSET Int
    BY DEF Calls
  <2> QED
    BY <1>1, <2>1, CallFields DEF ScoreHead, Turns
<1>3. CallFits(r, tok[c].current, Last) /\ Last \in Nat
  BY <1>1, CallNow
<1>4. PICK q \in Nat : q = r.ptr - 1 /\ r.ptr <= Last
  BY <1>2, <1>3 DEF CallFits, None
<1>5. PICK size \in Nat : size = Max({r.tail - queue[r.ptr].head, 0})
  <2>1. PICK S : S = [tail : Int, head : Int]
    OBVIOUS
  <2>2. queue[r.ptr] \in S
    <3>1. r.ptr # 0
      BY <1>2, <1>3 DEF CallFits, None
    <3>2. r.ptr \in 1..Last
      BY <1>2, <1>3, <1>4, <3>1
    <3> QED
      BY <2>1, <3>2, ElementOfSeq DEF CallsInv, CallsTypes, Last
  <2>3. PICK k \in Int : k = r.tail - queue[r.ptr].head
    BY <1>2, <2>1, <2>2
  <2>4. Max({k, 0}) = IF k >= 0 THEN k ELSE 0
    BY MaxOfTwo
  <2> QED
    BY <2>3, <2>4
<1>6. PICK next : next = [r EXCEPT !.pc = "score", !.ptr = q]
  OBVIOUS
<1>7. UNCHANGED queue /\ Rest
  BY DEF ScoreHead
<1>8. CASE size = 0
  <2>1. PICK e : e = [next EXCEPT !.empty = next.empty \cup {r.ptr}]
    OBVIOUS
  <2>2. /\ e.pc = "score" /\ e.left = r.left /\ e.ptr = q
        /\ e.best = r.best /\ e.there = r.there /\ e.empty = r.empty \cup {r.ptr}
        /\ e.size = r.size /\ e.nonEmpty = r.nonEmpty
    BY <1>6, <2>1 DEF Calls
  <2>3. e \in Calls
    <3>1. PICK s \in SUBSET Int : s = r.empty \cup {r.ptr}
      <4>1. PICK p \in Int : p = r.ptr
        BY <1>2
      <4> QED
        BY <1>2, <4>1
    <3>2. e = [r EXCEPT !.pc = "score", !.ptr = q, !.nonEmpty = r.nonEmpty, !.size = r.size,
                        !.best = r.best, !.empty = s]
      BY <1>6, <2>1, <3>1 DEF Calls
    <3>3. [r EXCEPT !.pc = "score", !.ptr = q, !.nonEmpty = r.nonEmpty, !.size = r.size,
                    !.best = r.best, !.empty = s] \in Calls
      BY <1>2, ScoredCall, Zenon
    <3> QED
      BY <3>2, <3>3
  <2>4. CallFits(e, tok[c].current, Last)
    BY <1>2, <1>3, <1>4, <2>2 DEF CallFits, ScoredSoFar
  <2>5. call' = [call EXCEPT ![c] = e]
    BY <1>1, <1>4, <1>5, <1>6, <1>8, <2>1 DEF ScoreHead, Turns
  <2> QED
    BY <1>7, <2>3, <2>4, <2>5, LooksOnly
<1>9. CASE size # 0
  <2>1. PICK n \in Nat : n = r.nonEmpty + 1
    BY <1>2
  <2>2. PICK m \in Nat : m = Max({r.size, size})
    <3>1. PICK a \in Int : a = r.size /\ a \in Nat
      BY <1>2
    <3>2. Max({a, size}) = IF a >= size THEN a ELSE size
      BY MaxOfTwo
    <3> QED
      BY <3>1, <3>2
  <2>3. PICK b \in Nat : b = IF size > r.size THEN r.ptr ELSE r.best
    BY <1>2
  <2>4. PICK e : e = [next EXCEPT !.nonEmpty = n, !.size = m, !.best = b]
    OBVIOUS
  <2>5. /\ e.pc = "score" /\ e.left = r.left /\ e.ptr = q
        /\ e.best = b /\ e.there = r.there
    BY <1>6, <2>4 DEF Calls
  <2>6. e \in Calls
    <3>1. e = [r EXCEPT !.pc = "score", !.ptr = q, !.nonEmpty = n, !.size = m,
                        !.best = b, !.empty = r.empty]
      BY <1>6, <2>4 DEF Calls
    <3>2. [r EXCEPT !.pc = "score", !.ptr = q, !.nonEmpty = n, !.size = m,
                    !.best = b, !.empty = r.empty] \in Calls
      BY <1>2, ScoredCall, Zenon
    <3> QED
      BY <3>1, <3>2
  <2>7. b # None
    BY <1>2, <1>3, <1>9, <2>3 DEF CallFits, ScoredSoFar
  <2>8. CallFits(e, tok[c].current, Last)
    BY <1>2, <1>3, <1>4, <2>5, <2>7 DEF CallFits, ScoredSoFar
  <2>9. call' = [call EXCEPT ![c] = e]
    <3>1. e = [next EXCEPT !.nonEmpty = next.nonEmpty + 1, !.size = Max({next.size, size}),
                           !.best = IF size > r.size THEN r.ptr ELSE next.best]
      BY <1>6, <2>1, <2>2, <2>3, <2>4 DEF Calls
    <3> QED
      BY <1>1, <1>4, <1>5, <1>6, <1>9, <3>1 DEF ScoreHead, Turns
  <2> QED
    BY <1>7, <2>6, <2>8, <2>9, LooksOnly
<1> QED
  BY <1>8, <1>9

LEMMA ScoredStep ==
  ASSUME CallsInv, NEW c \in Consumers, Scored(c)
  PROVE  CallsInv'
<1>1. PICK r \in Calls : r = call[c]
  BY CallNow
<1>2. /\ r.pc = "score" /\ r.ptr \in Nat /\ r.nonEmpty \in Nat /\ r.there \in Nat
      /\ r.nonEmpty >= 3 \/ r.ptr = None
  BY <1>1, CallFields DEF Scored, Turns
<1>3. CallFits(r, tok[c].current, Last)
  BY <1>1, CallNow
<1>4. PICK pc \in {"best", "done"} : pc = IF r.best = None THEN "done" ELSE "best"
  OBVIOUS
<1>5. PICK e : e = [r EXCEPT !.pc = pc]
  OBVIOUS
<1>6. e \in Calls
  BY <1>4, <1>5, PcCall
<1>7. e.pc = pc /\ e.left = r.left /\ e.best = r.best /\ e.there = r.there /\ e.empty = r.empty
  BY <1>5 DEF Calls
<1>8. CallFits(e, tok[c].current, Last)
  BY <1>2, <1>3, <1>4, <1>7 DEF CallFits, ScoredSoFar, None
<1>9. call' = [call EXCEPT ![c] = e] /\ UNCHANGED queue /\ Rest
  BY <1>1, <1>4, <1>5 DEF Scored, Turns, Finished
<1> QED
  BY <1>6, <1>8, <1>9, LooksOnly

\* What is left and what was seen empty after a queue gave n.
LEMMA GotFields ==
  ASSUME CallsInv, NEW c \in Consumers, NEW p \in Int, NEW n \in Nat, n <= call[c].left,
         NEW r, r = call[c], NEW e, e = Got(c, p, n)
  PROVE  /\ e \in Calls /\ e.pc = r.pc /\ e.max = r.max /\ e.left = r.left - n /\ e.ptr = r.ptr
         /\ e.tail = r.tail /\ e.best = r.best /\ e.there = r.there
         /\ e.empty = IF n < r.left THEN r.empty \cup {p} ELSE r.empty
<1>1. r \in Calls
  BY CallNow
<1>2. e = [r EXCEPT !.left = r.left - n, !.empty = IF n < r.left THEN r.empty \cup {p} ELSE r.empty]
  BY DEF Got
<1>3. e \in Calls
  BY <1>1, <1>2, GotCall
<1>4. /\ e.pc = r.pc /\ e.max = r.max /\ e.left = r.left - n /\ e.ptr = r.ptr
      /\ e.tail = r.tail /\ e.best = r.best /\ e.there = r.there
      /\ e.empty = IF n < r.left THEN r.empty \cup {p} ELSE r.empty
  BY <1>1, <1>2 DEF Calls
<1> QED
  BY <1>3, <1>4


LEMMA TryBestStep ==
  ASSUME CallsInv, NEW c \in Consumers, TryBest(c)
  PROVE  CallsInv'
<1>1. PICK r \in Calls : r = call[c]
  BY CallNow
<1>2. /\ r.pc = "best" /\ r.left = 1 /\ r.best # None /\ r.best \in Nat
      /\ r.there \in Nat /\ r.there <= Last /\ Last \in Nat
  BY <1>1, CallNow, CallFields DEF TryBest, CallFits
<1>3. PICK n \in 0..1 : /\ Gives(r.best, 1, n)
                        /\ call' = [call EXCEPT ![c] = [Got(c, r.best, n) EXCEPT !.pc = "all", !.ptr = Last]]
  BY <1>1 DEF TryBest, Turns
<1>4. PICK b \in Int : b = r.best /\ b # None
  BY <1>2
<1>5. PICK g : g = Got(c, b, n)
  OBVIOUS
<1>6. /\ g \in Calls /\ g.left = r.left - n /\ g.best = r.best /\ g.there = r.there
      /\ g.tail = r.tail /\ g.empty = IF n < r.left THEN r.empty \cup {b} ELSE r.empty
  <2>1. n \in Nat /\ n <= call[c].left
    BY <1>1, <1>2
  <2> QED
    BY <1>1, <1>5, <2>1, GotFields
<1>7. PICK e : e = [g EXCEPT !.pc = "all", !.ptr = Last]
  OBVIOUS
<1>8. e \in Calls
  <2>1. e = [g EXCEPT !.pc = "all", !.tail = g.tail, !.ptr = Last]
    BY <1>6, <1>7 DEF Calls
  <2> QED
    BY <1>2, <1>6, <2>1, CallFields, PtrCall
<1>9. /\ e.pc = "all" /\ e.left = r.left - n /\ e.best = r.best /\ e.there = r.there /\ e.ptr = Last
      /\ e.empty = IF n < r.left THEN r.empty \cup {b} ELSE r.empty
  BY <1>6, <1>7 DEF Calls
<1>10. CallFits(e, tok[c].current, Last)
  BY <1>2, <1>4, <1>9 DEF CallFits, AskedSoFar
<1>11. queue' \in Seq([tail : Int, head : Int]) /\ Len(queue') = Last
  BY <1>3, GivesLength
<1>12. call' = [call EXCEPT ![c] = e]
  BY <1>3, <1>4, <1>5, <1>7
<1>13. tok' = tok /\ globalExplicitConsumerOffset' \in Int /\ nextExplicitConsumerId' \in Int
  BY DEF TryBest, Rest, CallsInv, CallsTypes
<1> QED
  BY <1>8, <1>10, <1>11, <1>12, <1>13, PlainMoves

LEMMA TryDequeueBulkStep ==
  ASSUME CallsInv, NEW c \in Consumers, NEW max \in Maxima, TryDequeueBulk(c, max)
  PROVE  CallsInv'
<1>1. PICK r : r = Begin("all", max)
  OBVIOUS
<1>2. PICK last \in Nat : last = Last
  BY CallNow
<1>3. max \in Nat
  BY ConcurrentQueueAssumption DEF ConcurrentQueueAssumption
<1>4. /\ r \in Calls /\ r.pc = "all" /\ r.ptr = last /\ r.there = last /\ r.best = None
  BY <1>1, <1>2, <1>3, BegunCall
<1>5. CallFits(r, tok[c].current, Last)
  BY <1>2, <1>4 DEF CallFits, AskedSoFar
<1> QED
  BY <1>1, <1>4, <1>5, LooksOnly DEF TryDequeueBulk, Turns

\* The next queue of the list is asked, or was before, or the call is over.
LEMMA TryNextStep ==
  ASSUME CallsInv, NEW c \in Consumers, TryNext(c)
  PROVE  CallsInv'
<1>1. PICK r \in Calls : r = call[c]
  BY CallNow
<1>2. /\ r.pc = "all" /\ r.left \in Nat /\ r.ptr \in Nat /\ r.there \in Nat /\ r.tail \in Int
      /\ r.there <= Last /\ r.ptr <= Last /\ AskedSoFar(r) /\ Last \in Nat
  BY <1>1, CallNow, CallFields DEF TryNext, CallFits
<1>3. CASE Ends(c)
  <2>1. PICK e : e = [r EXCEPT !.pc = "done"]
    OBVIOUS
  <2>2. e \in Calls
    BY <2>1, PcCall
  <2>3. e.pc = "done" /\ e.left = r.left /\ e.there = r.there /\ e.empty = r.empty
    BY <2>1 DEF Calls
  <2>4. CallFits(e, tok[c].current, Last)
    BY <1>1, <1>2, <1>3, <2>3 DEF CallFits, AskedSoFar, Ends, None
  <2>5. call' = [call EXCEPT ![c] = e] /\ UNCHANGED queue /\ Rest
    BY <1>1, <1>3, <2>1 DEF TryNext, Turns, Finished
  <2> QED
    BY <2>2, <2>4, <2>5, LooksOnly
<1>4. CASE ~ Ends(c)
  <2>1. PICK q \in Nat : q = r.ptr - 1
    BY <1>1, <1>2, <1>4 DEF Ends, None
  <2>2. CASE r.ptr = r.best
    <3>1. PICK e : e = [r EXCEPT !.ptr = q]
      OBVIOUS
    <3>2. e \in Calls
      <4>1. e = [r EXCEPT !.pc = "all", !.tail = r.tail, !.ptr = q]
        BY <1>2, <3>1 DEF Calls
      <4> QED
        BY <1>2, <4>1, PtrCall
    <3>3. /\ e.pc = "all" /\ e.left = r.left /\ e.ptr = q /\ e.best = r.best
          /\ e.there = r.there /\ e.empty = r.empty
      BY <1>2, <3>1 DEF Calls
    <3>4. CallFits(e, tok[c].current, Last)
      BY <1>1, <1>2, <1>4, <2>1, <2>2, <3>3 DEF CallFits, AskedSoFar, Ends, None
    <3>5. call' = [call EXCEPT ![c] = e] /\ UNCHANGED queue /\ Rest
      BY <1>1, <1>4, <2>1, <2>2, <3>1 DEF TryNext, Turns
    <3> QED
      BY <3>2, <3>4, <3>5, LooksOnly
  <2>3. CASE r.ptr # r.best
    <3>1. PICK n \in 0 .. r.left :
            /\ Gives(r.ptr, r.left, n)
            /\ call' = [call EXCEPT ![c] = [Got(c, r.ptr, n) EXCEPT !.ptr = q]]
      BY <1>1, <1>4, <2>1, <2>3 DEF TryNext, Turns
    <3>2. PICK p \in Int : p = r.ptr
      BY <1>2
    <3>3. PICK g : g = Got(c, p, n)
      OBVIOUS
    <3>4. /\ g \in Calls /\ g.pc = "all" /\ g.left = r.left - n /\ g.best = r.best /\ g.there = r.there
          /\ g.tail = r.tail /\ g.empty = IF n < r.left THEN r.empty \cup {p} ELSE r.empty
      BY <1>1, <1>2, <3>1, <3>3, GotFields
    <3>5. PICK e : e = [g EXCEPT !.ptr = q]
      OBVIOUS
    <3>6. e \in Calls
      <4>1. e = [g EXCEPT !.pc = "all", !.tail = g.tail, !.ptr = q]
        BY <3>4, <3>5 DEF Calls
      <4> QED
        BY <1>2, <3>4, <4>1, PtrCall
    <3>7. /\ e.pc = "all" /\ e.left = r.left - n /\ e.best = r.best /\ e.there = r.there /\ e.ptr = q
          /\ e.empty = IF n < r.left THEN r.empty \cup {p} ELSE r.empty
      BY <3>4, <3>5 DEF Calls
    <3>8. CallFits(e, tok[c].current, Last)
      BY <1>2, <2>1, <3>1, <3>2, <3>7 DEF CallFits, AskedSoFar
    <3>9. queue' \in Seq([tail : Int, head : Int]) /\ Len(queue') = Last
      BY <3>1, GivesLength
    <3>10. call' = [call EXCEPT ![c] = e]
      BY <3>1, <3>2, <3>3, <3>5
    <3>11. tok' = tok /\ globalExplicitConsumerOffset' \in Int /\ nextExplicitConsumerId' \in Int
      BY DEF TryNext, Rest, CallsInv, CallsTypes
    <3> QED
      BY <3>6, <3>8, <3>9, <3>10, <3>11, PlainMoves
  <2> QED
    BY <2>2, <2>3
<1> QED
  BY <1>3, <1>4

LEMMA ReturnStep ==
  ASSUME CallsInv, NEW c \in Consumers, Return(c)
  PROVE  CallsInv'
<1>1. PICK r : r = NoCall
  OBVIOUS
<1>2. r \in Calls /\ CallFits(r, tok[c].current, Last)
  BY <1>1, NoCallFits, CallNow
<1> QED
  BY <1>1, <1>2, LooksOnly DEF Return, Turns


-----------------------------------------------------------------------------
(* With a token.                                                           *)

LEMMA ConsumerTokenStep ==
  ASSUME CallsInv, NEW c \in Consumers, ConsumerToken(c)
  PROVE  CallsInv'
<1>1. PICK r : r = NoCall
  OBVIOUS
<1>2. PICK t \in Toks : t = tok[c] /\ TokenFits(t, Last)
  BY CallNow
<1>3. PICK id \in Int : id = nextExplicitConsumerId
  BY DEF CallsInv, CallsTypes
<1>4. PICK d : d = [t EXCEPT !.initial = id]
  OBVIOUS
<1>5. d \in Toks
  BY <1>4, Zenon DEF Toks
<1>6. d.desired = t.desired /\ d.current = t.current
  BY <1>4 DEF Toks
<1>7. TokenFits(d, Last) /\ r \in Calls /\ CallFits(r, d.current, Last)
  BY <1>1, <1>2, <1>6, NoCallFits, CallNow DEF TokenFits
<1>8. tok' = [tok EXCEPT ![c] = d]
  BY <1>2, <1>3, <1>4 DEF ConsumerToken
<1>9. /\ call' = [call EXCEPT ![c] = r] /\ queue' \in Seq([tail : Int, head : Int]) /\ Len(queue') = Last
      /\ globalExplicitConsumerOffset' \in Int /\ nextExplicitConsumerId' \in Int
  BY <1>1 DEF ConsumerToken, Turns, CallsInv, CallsTypes, Last
<1> QED
  BY <1>5, <1>7, <1>8, <1>9, CallMoves

\* Further stays in the list.
LEMMA FurtherInList ==
  ASSUME Last \in Nat, Last > 0, NEW p \in Int, NEW n \in Int
  PROVE  Further(p, n) \in 1..Last
BY DEF Further

LEMMA MovedFits ==
  ASSUME CallsInv, NEW c \in Consumers, NEW count \in Nat, count > 0, Last > 0
  PROVE  /\ Moved(c, count) \in Toks /\ TokenFits(Moved(c, count), Last)
         /\ Moved(c, count).current \in 1..Last
<1>1. PICK t \in Toks : t = tok[c]
  BY CallNow
<1>2. PICK known \in Int : known = globalExplicitConsumerOffset
  BY DEF CallsInv, CallsTypes
<1>3. PICK start \in Int :
        start = IF t.desired = None THEN Further(Last, count - 1 - (t.initial % count)) ELSE t.desired
  <2>1. t.desired \in Int /\ t.initial % count \in Int /\ Last \in Int
    BY <1>1, CallNow
  <2>2. Further(Last, count - 1 - (t.initial % count)) \in Int
    BY <2>1, FurtherInList, CallNow
  <2> QED
    BY <2>1, <2>2
<1>4. PICK to \in 1..Last : to = Further(start, (known - t.known) % count)
  <2>1. (known - t.known) % count \in Int
    BY <1>1, CallNow
  <2> QED
    BY <2>1, FurtherInList, CallNow
<1>5. PICK e : e = [t EXCEPT !.desired = to, !.current = to, !.items = 0, !.known = known]
  OBVIOUS
<1>6. e = Moved(c, count)
  BY <1>1, <1>2, <1>3, <1>4, <1>5 DEF Moved
<1>7. e \in Toks
  <2>1. to \in Nat /\ 0 \in Int
    BY <1>4, CallNow
  <2> QED
    BY <1>5, <2>1, Zenon DEF Toks
<1>8. e.desired = to /\ e.current = to
  BY <1>5 DEF Toks
<1> QED
  BY <1>4, <1>6, <1>7, <1>8 DEF TokenFits

LEMMA TokenDequeueStep ==
  ASSUME CallsInv, NEW c \in Consumers, NEW max \in Maxima, TokenDequeue(c, max)
  PROVE  CallsInv'
<1>1. PICK last \in Nat : last = Last
  BY CallNow
<1>2. max \in Nat
  BY ConcurrentQueueAssumption DEF ConcurrentQueueAssumption
<1>3. /\ queue' \in Seq([tail : Int, head : Int]) /\ Len(queue') = Last
      /\ globalExplicitConsumerOffset' \in Int /\ nextExplicitConsumerId' \in Int
  BY DEF TokenDequeue, CallsInv, CallsTypes, Last
<1>4. PICK t \in Toks : t = tok[c] /\ TokenFits(t, Last)
  BY CallNow
<1> DEFINE stays == t.desired # None /\ t.known = globalExplicitConsumerOffset
<1>5. /\ call' = [call EXCEPT ![c] = IF ~stays /\ Last = 0 THEN [Begin("done", max) EXCEPT !.ptr = None]
                                     ELSE Begin("current", max)]
      /\ IF stays \/ Last = 0 THEN tok' = tok
         ELSE \E count \in Last .. MaxProducers : tok' = [tok EXCEPT ![c] = Moved(c, count)]
  BY <1>4 DEF TokenDequeue, Turns
<1>6. CASE ~stays /\ Last = 0
  <2>1. PICK b : b = Begin("done", max)
    OBVIOUS
  <2>2. b \in Calls /\ b.pc = "done" /\ b.there = last
    BY <1>1, <1>2, <2>1, BegunCall
  <2>3. PICK e : e = [b EXCEPT !.ptr = 0]
    OBVIOUS
  <2>4. e.pc = "done" /\ e.there = last
    BY <2>2, <2>3 DEF Calls
  <2>5. e \in Calls
    BY <2>2, <2>3, Zenon DEF Calls
  <2>6. CallFits(e, tok[c].current, Last)
    BY <1>1, <1>6, <2>4 DEF CallFits
  <2>7. call' = [call EXCEPT ![c] = e] /\ tok' = tok
    BY <1>5, <1>6, <2>1, <2>3 DEF None
  <2> QED
    BY <1>3, <2>5, <2>6, <2>7, PlainMoves
<1>7. CASE stays \/ Last # 0
  <2>1. PICK r : r = Begin("current", max)
    OBVIOUS
  <2>2. r \in Calls /\ r.pc = "current" /\ r.max = max /\ r.left = max /\ r.there = last
    BY <1>1, <1>2, <2>1, BegunCall
  <2>3. call' = [call EXCEPT ![c] = r]
    BY <1>5, <1>7, <2>1
  <2>4. CASE stays
    <3>1. tok' = tok /\ tok[c].current \in 1..Last
      BY <1>4, <1>5, <2>4 DEF TokenFits
    <3>2. CallFits(r, tok[c].current, Last)
      BY <1>1, <2>2, <3>1 DEF CallFits
    <3> QED
      BY <1>3, <2>2, <2>3, <3>1, <3>2, PlainMoves
  <2>5. CASE ~stays
    <3>1. PICK count \in Nat : count > 0 /\ Last > 0 /\ tok' = [tok EXCEPT ![c] = Moved(c, count)]
      BY <1>1, <1>5, <1>7, <2>5, ConcurrentQueueAssumption DEF ConcurrentQueueAssumption
    <3>2. PICK d \in Toks : d = Moved(c, count) /\ TokenFits(d, Last) /\ d.current \in 1..Last
      BY <3>1, MovedFits
    <3>3. CallFits(r, d.current, Last)
      BY <1>1, <2>2, <3>2 DEF CallFits
    <3> QED
      BY <1>3, <2>2, <2>3, <3>1, <3>2, <3>3, CallMoves
  <2> QED
    BY <2>4, <2>5
<1> QED
  BY <1>6, <1>7


\* The round begins below the current queue, or at the tail if that is the first.
LEMMA TryCurrentStep ==
  ASSUME CallsInv, NEW c \in Consumers, TryCurrent(c)
  PROVE  CallsInv'
<1>1. PICK r \in Calls : r = call[c]
  BY CallNow
<1>2. PICK t \in Toks : t = tok[c] /\ TokenFits(t, Last) /\ t.items \in Int
  BY CallNow
<1>3. PICK p \in Int : p = t.current
  BY <1>2, CallNow
<1>4. PICK last \in Nat : last = Last
  BY CallNow
<1>5. /\ r.pc = "current" /\ r.left = r.max /\ p \in 1..last /\ r.left \in Nat /\ r.there \in Nat
      /\ r.there <= last
  BY <1>1, <1>2, <1>3, <1>4, CallNow, CallFields DEF TryCurrent, CallFits
<1>6. PICK n \in 0 .. r.max :
        /\ Gives(p, r.max, n)
        /\ call' = [call EXCEPT ![c] =
             IF n = r.max THEN [Got(c, p, n) EXCEPT !.pc = "done"]
             ELSE [Got(c, p, n) EXCEPT !.pc = "ring", !.tail = last, !.ptr = IF p = 1 THEN last ELSE p - 1]]
        /\ tok' = [tok EXCEPT ![c] = [t EXCEPT !.items = t.items + n]]
        /\ globalExplicitConsumerOffset' = globalExplicitConsumerOffset +
             (IF n = r.max /\ HasQuota(c, t.items + n) THEN 1 ELSE 0)
        /\ UNCHANGED nextExplicitConsumerId
  BY <1>1, <1>2, <1>3, <1>4 DEF TryCurrent, Turns
<1>7. PICK d : d = [t EXCEPT !.items = t.items + n]
  OBVIOUS
<1>8. d \in Toks /\ d.current = p /\ d.desired = t.desired
  <2>1. PICK k \in Int : k = t.items + n
    BY <1>2, <1>5
  <2>2. d = [t EXCEPT !.items = k]
    BY <1>7, <2>1
  <2>3. d \in Toks
    BY <2>2, Zenon DEF Toks
  <2> QED
    BY <1>3, <2>2, <2>3 DEF Toks
<1>9. TokenFits(d, Last)
  BY <1>2, <1>3, <1>8 DEF TokenFits
<1>10. PICK g : g = Got(c, p, n)
  OBVIOUS
<1>11. /\ g \in Calls /\ g.left = r.left - n /\ g.there = r.there
       /\ g.empty = IF n < r.left THEN r.empty \cup {p} ELSE r.empty
  <2>1. PICK k \in Nat : k = n
    BY <1>5
  <2>2. k <= call[c].left /\ r = call[c] /\ g = Got(c, p, k)
    BY <1>1, <1>5, <1>10, <2>1
  <2>3. /\ g \in Calls /\ g.left = r.left - k /\ g.there = r.there
        /\ g.empty = IF k < r.left THEN r.empty \cup {p} ELSE r.empty
    BY <2>2, GotFields
  <2> QED
    BY <2>1, <2>3
<1>12. queue' \in Seq([tail : Int, head : Int]) /\ Len(queue') = Last
  BY <1>5, <1>6, GivesLength
<1>13. globalExplicitConsumerOffset' \in Int /\ nextExplicitConsumerId' \in Int
  <2>1. globalExplicitConsumerOffset \in Int /\ nextExplicitConsumerId \in Int
    BY DEF CallsInv, CallsTypes
  <2>2. PICK one \in Int : one = IF n = r.max /\ HasQuota(c, t.items + n) THEN 1 ELSE 0
    OBVIOUS
  <2>3. PICK k \in Int : k = globalExplicitConsumerOffset + one
    BY <2>1
  <2> QED
    BY <1>6, <2>1, <2>2, <2>3
<1>14. CASE n = r.max
  <2>1. PICK e : e = [g EXCEPT !.pc = "done"]
    OBVIOUS
  <2>2. e \in Calls
    BY <1>11, <2>1, PcCall
  <2>3. e.pc = "done" /\ e.left = 0 /\ e.there = r.there
    <3>1. e.pc = "done" /\ e.left = g.left /\ e.there = g.there
      BY <1>11, <2>1 DEF Calls
    <3> QED
      BY <1>5, <1>11, <1>14, <3>1
  <2>4. CallFits(e, d.current, Last)
    BY <1>4, <1>5, <2>3 DEF CallFits
  <2>5. call' = [call EXCEPT ![c] = e] /\ tok' = [tok EXCEPT ![c] = d]
    BY <1>6, <1>7, <1>10, <1>14, <2>1
  <2> QED
    BY <1>8, <1>9, <1>12, <1>13, <2>2, <2>4, <2>5, CallMoves
<1>15. CASE n # r.max
  <2>1. PICK q \in Nat : q = IF p = 1 THEN last ELSE p - 1
    BY <1>5
  <2>2. PICK e : e = [g EXCEPT !.pc = "ring", !.tail = last, !.ptr = q]
    OBVIOUS
  <2>3. e \in Calls
    <3>1. PICK k \in Int : k = last
      OBVIOUS
    <3>2. e = [g EXCEPT !.pc = "ring", !.tail = k, !.ptr = q]
      BY <2>2, <3>1
    <3> QED
      BY <1>11, <3>2, PtrCall
  <2>4. /\ e.pc = "ring" /\ e.left = r.left - n /\ e.there = r.there /\ e.tail = last /\ e.ptr = q
        /\ e.empty = g.empty
    BY <1>11, <2>2 DEF Calls
  <2>5. p \in e.empty
    BY <1>5, <1>11, <1>15, <2>4
  <2>6. RoundSoFar(e, p)
    BY <1>5, <2>1, <2>4, <2>5 DEF RoundSoFar
  <2>7. CallFits(e, d.current, Last)
    BY <1>4, <1>5, <1>8, <2>4, <2>6 DEF CallFits
  <2>8. call' = [call EXCEPT ![c] = e] /\ tok' = [tok EXCEPT ![c] = d]
    BY <1>6, <1>7, <1>10, <1>15, <2>1, <2>2
  <2> QED
    BY <1>8, <1>9, <1>12, <1>13, <2>3, <2>7, <2>8, CallMoves
<1> QED
  BY <1>14, <1>15

\* One queue further, when n of what was left was got at p: the round goes on, or
\* begins anew from p.
RoundTurns(r, e, current, now, n, p, q) ==
  /\ RoundSoFar(r, current) /\ p = r.ptr /\ p # current /\ n <= r.left /\ r.left > 0
  /\ q = IF p = 1 THEN r.tail ELSE p - 1
  /\ now = current \/ now = p
  /\ e.ptr = q /\ e.tail = r.tail /\ e.there = r.there /\ e.left = r.left - n
  /\ e.empty = IF n < r.left THEN r.empty \cup {p} ELSE r.empty

LEMMA RoundGoesOn ==
  ASSUME NEW r \in Calls, NEW e \in Calls, NEW current \in Int, NEW now \in Int, NEW n \in Nat,
         NEW p \in Int, NEW q \in Int, RoundTurns(r, e, current, now, n, p, q)
  PROVE  RoundSoFar(e, now)
<1> USE DEF RoundTurns
<1>1. r.tail \in Int /\ r.there \in Int /\ r.left \in Int
  BY CallFields
<1>2. p \in 1..r.tail /\ current \in 1..r.tail /\ r.there <= r.tail
  BY DEF RoundSoFar
<1>3. q \in 1..r.tail /\ now \in 1..r.tail
  BY <1>1, <1>2
<1>4. ASSUME e.left > 0, NEW x \in 1..r.tail,
             IF q < now THEN q < x /\ x <= now ELSE x <= now \/ q < x
      PROVE  x \in e.empty
  <2>1. n < r.left /\ p \in e.empty /\ \A y \in r.empty : y \in e.empty
    BY <1>1, <1>4
  <2>2. x = p \/ (IF p < current THEN p < x /\ x <= current ELSE x <= current \/ p < x)
    BY <1>1, <1>2, <1>3, <1>4
  <2> QED
    BY <2>1, <2>2 DEF RoundSoFar
<1> QED
  BY <1>2, <1>3, <1>4 DEF RoundSoFar

LEMMA TryRingStep ==
  ASSUME CallsInv, NEW c \in Consumers, TryRing(c)
  PROVE  CallsInv'
<1>1. PICK r \in Calls : r = call[c]
  BY CallNow
<1>2. PICK t \in Toks : t = tok[c] /\ TokenFits(t, Last)
  BY CallNow
<1>3. PICK current \in Int : current = t.current
  BY <1>2, CallNow
<1>4. PICK last \in Nat : last = Last
  BY CallNow
<1>5. PICK p \in Int : p = r.ptr
  BY <1>1, CallFields
<1>6. /\ r.pc = "ring" /\ r.left \in Nat /\ r.tail \in Int /\ r.there \in Nat /\ r.there <= last
      /\ RoundSoFar(r, current) /\ r.tail <= last /\ p \in 1..r.tail /\ current \in 1..r.tail
  BY <1>1, <1>2, <1>3, <1>4, <1>5, CallNow, CallFields DEF TryRing, CallFits, RoundSoFar
<1>7. globalExplicitConsumerOffset' \in Int /\ nextExplicitConsumerId' \in Int
  BY DEF TryRing, CallsInv, CallsTypes
<1>8. CASE r.left = 0 \/ p = current
  <2>1. PICK e : e = [r EXCEPT !.pc = "done"]
    OBVIOUS
  <2>2. e \in Calls
    BY <2>1, PcCall
  <2>3. e.pc = "done" /\ e.left = r.left /\ e.there = r.there /\ e.empty = r.empty
    BY <2>1 DEF Calls
  <2>4. CallFits(e, tok[c].current, Last)
    BY <1>4, <1>5, <1>6, <1>8, <2>3 DEF CallFits, RoundSoFar
  <2>5. call' = [call EXCEPT ![c] = e] /\ queue' = queue /\ tok' = tok
    BY <1>1, <1>2, <1>3, <1>5, <1>8, <2>1 DEF TryRing, Turns, Finished
  <2>6. queue' \in Seq([tail : Int, head : Int]) /\ Len(queue') = Last
    BY <2>5 DEF CallsInv, CallsTypes, Last
  <2> QED
    BY <1>7, <2>2, <2>4, <2>5, <2>6, PlainMoves
<1>9. CASE ~ (r.left = 0 \/ p = current)
  <2>1. PICK n \in 0 .. r.left :
          /\ Gives(p, r.left, n)
          /\ call' = [call EXCEPT ![c] = [Got(c, p, n) EXCEPT !.ptr = IF p = 1 THEN r.tail ELSE p - 1]]
          /\ tok' = IF n = 0 THEN tok ELSE [tok EXCEPT ![c].current = p, ![c].items = n]
    BY <1>1, <1>2, <1>3, <1>5, <1>9 DEF TryRing, Turns, After
  <2>2. PICK q \in Nat : q = IF p = 1 THEN r.tail ELSE p - 1
    BY <1>6
  <2>3. PICK g : g = Got(c, p, n)
    OBVIOUS
  <2>4. /\ g \in Calls /\ g.left = r.left - n /\ g.there = r.there /\ g.pc = "ring" /\ g.tail = r.tail
        /\ g.empty = IF n < r.left THEN r.empty \cup {p} ELSE r.empty
    <3>1. n \in Nat /\ n <= call[c].left
      BY <1>1, <1>6
    <3>2. PICK k \in Nat : k = r.left - n
      BY <1>1, <1>6, <3>1
    <3>3. PICK z \in SUBSET Int : z = IF n < r.left THEN r.empty \cup {p} ELSE r.empty
      BY <1>5 DEF Calls
    <3>4. g = [r EXCEPT !.left = k, !.empty = z]
      BY <1>1, <2>3, <3>2, <3>3 DEF Got
    <3>5. g \in Calls /\ g.left = k /\ g.there = r.there /\ g.pc = r.pc /\ g.tail = r.tail /\ g.empty = z
      BY <3>4 DEF Calls
    <3> QED
      BY <1>6, <3>2, <3>3, <3>5
  <2>5. PICK e : e = [g EXCEPT !.ptr = q]
    OBVIOUS
  <2>6. e \in Calls
    <3>1. e = [g EXCEPT !.pc = "ring", !.tail = g.tail, !.ptr = q]
      BY <2>4, <2>5 DEF Calls
    <3> QED
      BY <1>6, <2>4, <3>1, PtrCall
  <2>7. /\ e.pc = "ring" /\ e.left = r.left - n /\ e.there = r.there /\ e.tail = r.tail /\ e.ptr = q
        /\ e.empty = IF n < r.left THEN r.empty \cup {p} ELSE r.empty
    BY <2>4, <2>5 DEF Calls
  <2>8. PICK d \in Toks : /\ d = IF n = 0 THEN t ELSE [t EXCEPT !.current = p, !.items = n]
                          /\ d.desired = t.desired
                          /\ d.current = IF n = 0 THEN current ELSE p
    <3>1. PICK d : d = IF n = 0 THEN t ELSE [t EXCEPT !.current = p, !.items = n]
      OBVIOUS
    <3>2. p \in Nat /\ n \in Int
      BY <1>6
    <3>3. [t EXCEPT !.current = p, !.items = n] \in Toks
      BY <3>2, Zenon DEF Toks
    <3>4. d \in Toks
      BY <3>1, <3>3
    <3>5. d.desired = t.desired /\ d.current = IF n = 0 THEN current ELSE p
      BY <1>3, <3>1 DEF Toks
    <3> QED
      BY <3>1, <3>4, <3>5
  <2>9. PICK now \in Int : now = d.current /\ (now = current \/ now = p)
    BY <2>8
  <2>10. RoundSoFar(e, now)
    <3>1. n \in Nat /\ n <= r.left /\ r.left > 0 /\ q \in Int /\ p # current
      BY <1>6, <1>9
    <3>2. RoundTurns(r, e, current, now, n, p, q)
      BY <1>5, <1>6, <2>2, <2>7, <2>9, <3>1 DEF RoundTurns
    <3> QED
      BY <2>6, <2>9, <3>1, <3>2, RoundGoesOn
  <2>11. CallFits(e, d.current, Last)
    BY <1>4, <1>6, <2>7, <2>9, <2>10 DEF CallFits
  <2>12. TokenFits(d, Last)
    BY <1>2, <1>4, <1>6, <2>8, <2>9 DEF TokenFits
  <2>13. tok' = [tok EXCEPT ![c] = d]
    <3>1. tok \in [Consumers -> Toks]
      BY DEF CallsInv, CallsTypes
    <3>2. CASE n = 0
      BY <1>2, <2>1, <2>8, <3>1, <3>2
    <3>3. CASE n # 0
      BY <1>2, <2>1, <2>8, <3>1, <3>3
    <3> QED
      BY <3>2, <3>3
  <2>14. queue' \in Seq([tail : Int, head : Int]) /\ Len(queue') = Last
    BY <2>1, GivesLength
  <2>15. call' = [call EXCEPT ![c] = e]
    BY <2>1, <2>2, <2>3, <2>5
  <2> QED
    BY <1>7, <2>6, <2>8, <2>11, <2>12, <2>13, <2>14, <2>15, CallMoves
<1> QED
  BY <1>8, <1>9

LEMMA CallsKept ==
  ASSUME CallsInv, [CallsNext]_callsVars
  PROVE  CallsInv'
<1>1. CASE AddProducer
  BY <1>1, AddProducerStep
<1>2. CASE \E p \in 1..Last : Enqueue(p)
  BY <1>2, EnqueueOneStep
<1>3. CASE \E c \in Others : Plain(c)
  <2>1. PICK c \in Consumers : Plain(c)
    BY <1>3 DEF Consumers
  <2> QED
    BY <2>1, TryDequeueStep, ScoreTailStep, ScoreHeadStep, ScoredStep, TryBestStep,
       TryDequeueBulkStep, TryNextStep DEF Plain
<1>4. CASE \E c \in TokenUsers : ByToken(c)
  <2>1. PICK c \in Consumers : ByToken(c)
    BY <1>4 DEF Consumers
  <2> QED
    BY <2>1, ConsumerTokenStep, TokenDequeueStep, TryCurrentStep, TryRingStep DEF ByToken
<1>5. CASE \E c \in Consumers : Return(c)
  BY <1>5, ReturnStep
<1>6. CASE UNCHANGED callsVars
  <2>1. CallsTypes' /\ Last' = Last /\ call' = call /\ tok' = tok
    BY <1>6 DEF callsVars, CallsInv, CallsTypes, Last
  <2>2. ASSUME NEW c \in Consumers
        PROVE  (CallFits(call[c], tok[c].current, Last) /\ TokenFits(tok[c], Last))'
    BY <2>1 DEF CallsInv
  <2> QED
    BY <2>1, <2>2 DEF CallsInv
<1> QED
  BY <1>1, <1>2, <1>3, <1>4, <1>5, <1>6 DEF CallsNext

LEMMA CallsStart == CallsInit => CallsInv
<1> SUFFICES ASSUME CallsInit PROVE CallsInv
  OBVIOUS
<1>1. Last = 0 /\ queue \in Seq([tail : Int, head : Int])
  BY EmptySeq DEF CallsInit, Last
<1>2. PICK t : t = NoToken
  OBVIOUS
<1>3. t \in Toks /\ t.desired = None
  BY <1>2 DEF NoToken, Toks, None
<1>4. PICK r : r = NoCall
  OBVIOUS
<1>5. r \in Calls /\ \A x : CallFits(r, x, 0)
  BY <1>4, NoCallFits
<1>6. tok = [c \in Consumers |-> t] /\ call = [c \in Consumers |-> r]
  BY <1>2, <1>4 DEF CallsInit
<1>7. CallsTypes
  BY <1>1, <1>3, <1>5, <1>6 DEF CallsTypes, CallsInit
<1>8. \A c \in Consumers : CallFits(call[c], tok[c].current, Last) /\ TokenFits(tok[c], Last)
  BY <1>1, <1>3, <1>5, <1>6 DEF TokenFits
<1> QED
  BY <1>7, <1>8 DEF CallsInv

\* A dequeue call that returns less than it was asked for found every producer
\* empty that was in the list at its start: for every number of producers, which
\* may join meanwhile, of consumers, rotations and elements.
THEOREM EveryProducerIsAsked == CallsSpec => []EveryoneAsked
<1>1. CallsInit => CallsInv
  BY CallsStart
<1>2. CallsInv /\ [CallsNext]_callsVars => CallsInv'
  BY CallsKept
<1>3. CallsInv => EveryoneAsked
  <2> SUFFICES ASSUME CallsInv, NEW c \in DOMAIN call, call[c].pc = "done", call[c].left > 0
               PROVE  1 .. call[c].there \subseteq call[c].empty
    BY DEF EveryoneAsked
  <2>1. c \in Consumers
    BY DEF CallsInv, CallsTypes
  <2> QED
    BY <2>1, CallNow DEF CallFits
<1> QED
  BY <1>1, <1>2, <1>3, PTL DEF CallsSpec

-----------------------------------------------------------------------------
(* The inductive invariant of Producers.                                   *)

Width(n)  == table[n].capacity
Places(n) == 0 .. Width(n) - 1

\* A thread's slot in a table, and how far on from slot h a slot j is.
Home(t, n) == hashOf[t] % Width(n)
Ahead(h, j, n) == IF j >= h THEN j - h ELSE j + n - h
Along(t, n, i) == Ahead(Home(t, n), i, Width(n))

\* The thread has a slot in table n; and has none in it and the later ones.
In(t, n)      == \E i \in Places(n) : table[n].key[i] = t
NotFrom(t, n) == \A m \in DOMAIN table : m >= n => ~In(t, m)

\* The slots from the thread's own to this one are taken by other threads.
Passed(t, n, i) ==
  /\ i \in Places(n)
  /\ \A j \in Places(n) : Along(t, n, j) < Along(t, n, i) => table[n].key[j] \notin {invalid_thread_id, t}

\* A thread on its way to its first slot, counted already; and past the check
\* that the table has room.
Placing(t) == \/ caller[t].pc \in {"walk", "create", "push"} /\ ~caller[t].explicit
              \/ caller[t].pc \in {"insert", "slot"} /\ caller[t].at = 1
Coming(t) == \/ caller[t].pc \in {"size", "grow", "fits"} \/ Placing(t)
             \/ caller[t].pc = "clear" /\ caller[t].main # 0

AtTables == {"probe", "found", "count", "size", "grow", "clear", "fits", "insert", "slot"}
AtList   == {"walk", "catch", "caught", "create", "push"}
CallerRecords == [pc : {"idle", "leave"} \cup AtTables \cup AtList, main : Nat, at : Nat, i : Nat,
                  count : 0 .. Cardinality(Callers), p : Nat, explicit : BOOLEAN]
ProducerRecords == [explicit : BOOLEAN, inactive : BOOLEAN, token : Callers \cup {NoProducer}]
Tables == UNION {[capacity : {n}, key : [0 .. n - 1 -> Callers \cup {invalid_thread_id}],
                  value : [0 .. n - 1 -> Nat]] : n \in Nat \ {0}}

ProducersTypes ==
  /\ producer \in Seq(ProducerRecords) /\ producerCount \in Nat
  /\ implicitProducerHashResizeInProgress \in BOOLEAN
  /\ table \in Seq(Tables) /\ table # <<>> /\ hashOf \in [Callers -> Nat]
  /\ caller \in [Callers -> CallerRecords]
  /\ mine \in [Callers -> Nat] /\ token \in [Callers -> Nat]

\* The tables are ever larger; and a thread's key is found in a table by a
\* search from its own slot, with the thread's producer.
TablesFit ==
  /\ \A m, n \in DOMAIN table : m <= n => Width(m) <= Width(n)
  /\ \A n \in DOMAIN table, t \in Callers : \A i \in Places(n) :
       table[n].key[i] = t =>
         /\ mine[t] # NoProducer /\ table[n].value[i] = mine[t]
         /\ \A j \in Places(n) : /\ table[n].key[j] = t => j = i
                                 /\ Along(t, n, j) < Along(t, n, i) => table[n].key[j] # invalid_thread_id

\* What a thread has found out about itself still holds, whatever the others did.
SearchFits(t) ==
  LET c == caller[t] IN
  /\ c.pc \in {"idle"} \cup AtTables => ~c.explicit
  /\ c.pc \in {"probe", "found"} => /\ c.at \in 1 .. c.main /\ c.main \in DOMAIN table
                                    /\ NotFrom(t, c.at + 1)
  /\ c.pc = "probe" => Passed(t, c.at, c.i)
  /\ c.pc = "found" => In(t, c.at) /\ c.p = mine[t]
  /\ c.pc = "count" \/ Coming(t) => c.at = 1 /\ c.main \in DOMAIN table /\ NotFrom(t, 1)
  /\ c.pc \in {"insert", "slot"} => /\ c.main \in DOMAIN table /\ NotFrom(t, c.main)
                                    /\ c.at # 1 => c.p = mine[t]
                                    /\ c.p # NoProducer
  /\ c.pc = "slot" => Passed(t, c.main, c.i)
  /\ mine[t] # NoProducer => \E n \in DOMAIN table : In(t, n)

\* One thread at a time makes a table, and the table it replaces is the last.
LockFits ==
  \A t \in Callers :
    /\ caller[t].pc \in {"grow", "clear"} =>
         /\ implicitProducerHashResizeInProgress
         /\ \A s \in Callers : caller[s].pc \in {"grow", "clear"} => s = t
    /\ caller[t].pc = "grow" => caller[t].main = Len(table)

\* The threads counted, each with the number it counted up to: at most b of
\* them counted up to b or less, since others may only have left.
Room(n) == Width(n) \div 2 + Width(n) \div 4
Counted == {t \in Callers : Coming(t) \/ \E n \in DOMAIN table : In(t, n)}
UpTo(c, b) == {t \in Counted : c[t] <= b}
CountFits ==
  /\ implicitProducerHashCount = Cardinality(Counted)
  /\ \A t \in Callers : Placing(t) => caller[t].count < Room(caller[t].main)
  /\ \E c \in [Callers -> 0 .. Cardinality(Callers)] :
       /\ \A t \in Callers : /\ Coming(t) => c[t] = caller[t].count
                             /\ \A n \in DOMAIN table : In(t, n) => c[t] < Room(n)
       /\ \A b \in 0 .. Cardinality(Callers) : Cardinality(UpTo(c, b)) <= b

\* Producers with an owner: by a token, by a table, or in a call.
Has(t, p) ==
  /\ p # NoProducer
  /\ \/ token[t] = p \/ mine[t] = p
     \/ caller[t].pc \in {"caught", "insert", "slot"} /\ caller[t].p = p
Owned(t, p) ==
  Has(t, p) => /\ p \in DOMAIN producer /\ ~producer[p].inactive
               /\ \A s \in Callers : Has(s, p) => s = t

\* Tokens have explicit producers, and tables have implicit ones.
KindFits(t) ==
  LET c == caller[t] IN
  /\ token[t] # NoProducer => producer[token[t]].explicit
  /\ mine[t] # NoProducer => ~producer[mine[t]].explicit
  /\ c.pc = "walk" => c.p \in 0 .. Len(producer)
  /\ c.pc \in {"catch", "caught"} => c.explicit /\ c.p \in DOMAIN producer /\ producer[c.p].explicit
  /\ c.pc \in {"insert", "slot"} => ~producer[c.p].explicit
  /\ c.pc = "leave" => token[t] # NoProducer

OwnFits ==
  /\ \A t \in Callers : KindFits(t) /\ \A p \in Nat : Owned(t, p)
  /\ \A p \in DOMAIN producer : producer[p].inactive => producer[p].explicit

ProducersInv ==
  /\ ProducersTypes /\ TablesFit /\ LockFits /\ CountFits /\ OwnFits
  /\ \A t \in Callers : SearchFits(t)

-----------------------------------------------------------------------------
(* The slots of a table, all the way round.                                *)

LEMMA HomeIs ==
  ASSUME NEW n \in Nat \ {0}, NEW h \in Nat
  PROVE  h % n \in 0 .. n - 1
OBVIOUS

LEMMA NextPlace ==
  ASSUME NEW n \in Nat \ {0}, NEW i \in 0 .. n - 1
  PROVE  (i + 1) % n = IF i + 1 = n THEN 0 ELSE i + 1
OBVIOUS

LEMMA AheadIs ==
  ASSUME NEW n \in Nat \ {0}, NEW h \in 0 .. n - 1, NEW j \in 0 .. n - 1
  PROVE  /\ Ahead(h, j, n) \in 0 .. n - 1 /\ Ahead(h, h, n) = 0
         /\ \A i \in 0 .. n - 1 : Ahead(h, i, n) = Ahead(h, j, n) => i = j
         /\ (j + 1) % n \in 0 .. n - 1
         /\ Ahead(h, (j + 1) % n, n) = 0 \/ Ahead(h, (j + 1) % n, n) = Ahead(h, j, n) + 1
BY NextPlace DEF Ahead

LEMMA CallerFields ==
  ASSUME NEW c \in CallerRecords
  PROVE  /\ c.main \in Nat /\ c.at \in Nat /\ c.i \in Nat /\ c.p \in Nat /\ c.explicit \in BOOLEAN
         /\ c.count \in Nat /\ c.count \in 0 .. Cardinality(Callers)
         /\ c.pc \in {"idle", "leave"} \cup AtTables \cup AtList
<1>1. Cardinality(Callers) \in Nat
  BY ProducersAssumption, FS_CardinalityType DEF ProducersAssumption
<1> QED
  BY <1>1 DEF CallerRecords

LEMMA TableIs ==
  ASSUME NEW b \in Tables
  PROVE  /\ b.capacity \in Nat \ {0}
         /\ b.key \in [0 .. b.capacity - 1 -> Callers \cup {invalid_thread_id}]
         /\ b.value \in [0 .. b.capacity - 1 -> Nat]
BY DEF Tables

LEMMA MakesTable ==
  ASSUME NEW n \in Nat \ {0}, NEW k \in [0 .. n - 1 -> Callers \cup {invalid_thread_id}],
         NEW v \in [0 .. n - 1 -> Nat]
  PROVE  [capacity |-> n, key |-> k, value |-> v] \in Tables
<1>1. [capacity |-> n, key |-> k, value |-> v]
        \in [capacity : {n}, key : [0 .. n - 1 -> Callers \cup {invalid_thread_id}],
             value : [0 .. n - 1 -> Nat]]
  OBVIOUS
<1> QED
  BY <1>1, Zenon DEF Tables

LEMMA TablesAre ==
  ASSUME ProducersTypes
  PROVE  /\ Len(table) \in Nat \ {0} /\ DOMAIN table = 1 .. Len(table)
         /\ \A n \in DOMAIN table : /\ Width(n) \in Nat \ {0} /\ table[n] \in Tables
                                    /\ table[n].key \in [Places(n) -> Callers \cup {invalid_thread_id}]
                                    /\ table[n].value \in [Places(n) -> Nat]
                                    /\ \A t \in Callers : Home(t, n) \in Places(n)
<1>1. table \in Seq(Tables) /\ table # <<>>
  BY DEF ProducersTypes
<1>2. Len(table) \in Nat \ {0} /\ DOMAIN table = 1 .. Len(table)
      /\ \A n \in DOMAIN table : table[n] \in Tables
  BY <1>1, EmptySeq
<1>3. ASSUME NEW n \in DOMAIN table
      PROVE  /\ Width(n) \in Nat \ {0}
             /\ table[n].key \in [Places(n) -> Callers \cup {invalid_thread_id}]
             /\ table[n].value \in [Places(n) -> Nat]
  BY <1>2, <1>3, TableIs DEF Width, Places
<1>4. ASSUME NEW n \in DOMAIN table, NEW t \in Callers PROVE Home(t, n) \in Places(n)
  <2>1. hashOf[t] \in Nat /\ Width(n) \in Nat \ {0}
    BY <1>3, <1>4 DEF ProducersTypes
  <2> QED
    BY <2>1, HomeIs DEF Home, Places
<1> QED
  BY <1>2, <1>3, <1>4

\* How far on from its own slot a thread is.
LEMMA AlongIs ==
  ASSUME ProducersTypes, NEW n \in DOMAIN table, NEW t \in Callers, NEW i \in Places(n)
  PROVE  /\ i \in Nat /\ Along(t, n, i) \in Nat
         /\ \A j \in Places(n) : Along(t, n, i) = Along(t, n, j) => i = j
         /\ (i + 1) % Width(n) \in Places(n)
         /\ \/ Along(t, n, (i + 1) % Width(n)) = 0
            \/ Along(t, n, (i + 1) % Width(n)) = Along(t, n, i) + 1
         /\ Along(t, n, Home(t, n)) = 0
<1>1. PICK w \in Nat \ {0} : w = Width(n) /\ Places(n) = 0 .. w - 1
  BY TablesAre DEF Places
<1>2. PICK h \in 0 .. w - 1 : h = Home(t, n)
  BY <1>1, TablesAre
<1>3. \A j : Along(t, n, j) = Ahead(h, j, w)
  BY <1>1, <1>2 DEF Along
<1>4. i \in 0 .. w - 1
  BY <1>1
<1>5. /\ Ahead(h, i, w) \in Nat /\ Ahead(h, h, w) = 0
      /\ \A j \in 0 .. w - 1 : Ahead(h, i, w) = Ahead(h, j, w) => i = j
      /\ (i + 1) % w \in 0 .. w - 1
      /\ Ahead(h, (i + 1) % w, w) = 0 \/ Ahead(h, (i + 1) % w, w) = Ahead(h, i, w) + 1
  BY <1>4, AheadIs
<1> QED
  BY <1>1, <1>2, <1>3, <1>4, <1>5

-----------------------------------------------------------------------------
(* A thread that searches a table.                                         *)

LEMMA PassedNone ==
  ASSUME ProducersTypes, NEW n \in DOMAIN table, NEW t \in Callers
  PROVE  Passed(t, n, Home(t, n)) /\ Home(t, n) \in Nat
<1>1. Home(t, n) \in Places(n)
  BY TablesAre
<1>2. \A j \in Places(n) : Along(t, n, j) \in Nat
  BY AlongIs
<1> QED
  BY <1>1, <1>2, AlongIs DEF Passed

LEMMA PassedOne ==
  ASSUME ProducersTypes, NEW n \in DOMAIN table, NEW t \in Callers, NEW i, Passed(t, n, i),
         table[n].key[i] \notin {invalid_thread_id, t}
  PROVE  Passed(t, n, (i + 1) % Width(n)) /\ (i + 1) % Width(n) \in Nat
<1>1. i \in Places(n)
  BY DEF Passed
<1>2. PICK k : k = (i + 1) % Width(n)
  OBVIOUS
<1>3. k \in Places(n) /\ (Along(t, n, k) = 0 \/ Along(t, n, k) = Along(t, n, i) + 1)
  BY <1>1, <1>2, AlongIs
<1>4. ASSUME NEW j \in Places(n), Along(t, n, j) < Along(t, n, k)
      PROVE  table[n].key[j] \notin {invalid_thread_id, t}
  <2>1. Along(t, n, j) \in Nat /\ Along(t, n, i) \in Nat
    BY <1>1, AlongIs
  <2>2. Along(t, n, j) < Along(t, n, i) \/ Along(t, n, j) = Along(t, n, i)
    BY <1>3, <1>4, <2>1
  <2>3. Along(t, n, j) = Along(t, n, i) => j = i
    BY <1>1, AlongIs
  <2> QED
    BY <2>2, <2>3 DEF Passed
<1> QED
  BY <1>2, <1>3, <1>4, AlongIs DEF Passed

LEMMA PassedAll ==
  ASSUME ProducersTypes, TablesFit, NEW n \in DOMAIN table, NEW t \in Callers, NEW i, Passed(t, n, i),
         table[n].key[i] = invalid_thread_id
  PROVE  ~In(t, n)
<1> SUFFICES ASSUME NEW k \in Places(n), table[n].key[k] = t PROVE FALSE
  BY DEF In
<1>1. i \in Places(n) /\ t # invalid_thread_id
  BY ProducersAssumption DEF Passed, ProducersAssumption
<1>2. \A j \in Places(n) : Along(t, n, j) < Along(t, n, k) => table[n].key[j] # invalid_thread_id
  BY <1>1 DEF TablesFit
<1>3. ~(Along(t, n, i) < Along(t, n, k)) /\ ~(Along(t, n, k) < Along(t, n, i))
  BY <1>1, <1>2 DEF Passed
<1>4. Along(t, n, i) = Along(t, n, k)
  <2>1. Along(t, n, i) \in Nat /\ Along(t, n, k) \in Nat
    BY <1>1, AlongIs
  <2> QED
    BY <1>3, <2>1
<1> QED
  BY <1>1, <1>4, AlongIs

-----------------------------------------------------------------------------
(* What one thread's step leaves of what the others found.                 *)

\* Only this thread's key comes into a table, in a free slot; new tables are empty.
TablesGrow(t) ==
  /\ hashOf' = hashOf /\ DOMAIN table \subseteq DOMAIN table'
  /\ \A n \in DOMAIN table :
       /\ Width(n)' = Width(n)
       /\ \A i \in Places(n) : table'[n].key[i] # table[n].key[i] =>
            table[n].key[i] = invalid_thread_id /\ table'[n].key[i] = t
  /\ \A n \in DOMAIN table' \ DOMAIN table : \A i \in Places(n)' : table'[n].key[i] = invalid_thread_id

LEMMA OthersIn ==
  ASSUME ProducersTypes, NEW t \in Callers, TablesGrow(t), NEW s \in Callers \ {t}
  PROVE  /\ \A n \in DOMAIN table : In(s, n)' <=> In(s, n)
         /\ \A n \in DOMAIN table' \ DOMAIN table : ~In(s, n)'
         /\ \A m : NotFrom(s, m) => NotFrom(s, m)'
<1>1. s # invalid_thread_id /\ s # t
  BY ProducersAssumption DEF ProducersAssumption
<1>2. ASSUME NEW n \in DOMAIN table PROVE In(s, n)' <=> In(s, n)
  <2>1. Places(n)' = Places(n)
    BY DEF TablesGrow, Places
  <2> QED
    BY <1>1, <2>1 DEF In, TablesGrow
<1>3. ASSUME NEW n \in DOMAIN table' \ DOMAIN table PROVE ~In(s, n)'
  BY <1>1 DEF In, TablesGrow
<1> QED
  BY <1>2, <1>3 DEF NotFrom

LEMMA OthersPassed ==
  ASSUME ProducersTypes, NEW t \in Callers, TablesGrow(t), NEW s \in Callers \ {t},
         NEW n \in DOMAIN table, NEW i, Passed(s, n, i)
  PROVE  Passed(s, n, i)'
<1>1. Places(n)' = Places(n) /\ Width(n)' = Width(n) /\ hashOf' = hashOf
  BY DEF TablesGrow, Places
<1>2. \A j : Along(s, n, j)' = Along(s, n, j)
  BY <1>1 DEF Along, Home, Ahead
<1>3. ASSUME NEW j \in Places(n), table[n].key[j] \notin {invalid_thread_id, s}
      PROVE  table'[n].key[j] \notin {invalid_thread_id, s}
  BY <1>3 DEF TablesGrow
<1> QED
  BY <1>1, <1>2, <1>3 DEF Passed

LEMMA OthersSearch ==
  ASSUME ProducersTypes, NEW t \in Callers, TablesGrow(t), NEW s \in Callers \ {t},
         caller'[s] = caller[s], mine'[s] = mine[s], SearchFits(s)
  PROVE  SearchFits(s)'
<1> PICK c \in CallerRecords : c = caller[s] /\ c = caller'[s]
  BY DEF ProducersTypes
<1>1. (Coming(s)' <=> Coming(s)) /\ (Placing(s)' <=> Placing(s))
  BY DEF Coming, Placing
<1>2. DOMAIN table \subseteq DOMAIN table'
  BY DEF TablesGrow
<1>3. c.pc \in {"idle"} \cup AtTables => ~c.explicit
  BY DEF SearchFits
<1>4. c.pc \in {"probe", "found"} => /\ c.at \in 1 .. c.main /\ c.main \in DOMAIN table
                                     /\ c.at \in DOMAIN table /\ NotFrom(s, c.at + 1)
  BY CallerFields, TablesAre DEF SearchFits
<1>5. c.pc = "probe" => Passed(s, c.at, c.i)'
  BY <1>4, OthersPassed DEF SearchFits
<1>6. c.pc = "found" => In(s, c.at)' /\ c.p = mine'[s]
  BY <1>4, OthersIn DEF SearchFits
<1>7. c.pc = "count" \/ Coming(s) => c.at = 1 /\ c.main \in DOMAIN table /\ NotFrom(s, 1)
  BY DEF SearchFits
<1>8. c.pc \in {"insert", "slot"} => /\ c.main \in DOMAIN table /\ NotFrom(s, c.main)
                                     /\ c.at # 1 => c.p = mine[s]
                                     /\ c.p # NoProducer
  BY DEF SearchFits
<1>9. c.pc = "slot" => Passed(s, c.main, c.i)'
  BY <1>8, OthersPassed DEF SearchFits
<1>10. mine[s] # NoProducer => \E n \in DOMAIN table : In(s, n)
  BY DEF SearchFits
<1> QED
  BY <1>1, <1>2, <1>3, <1>4, <1>5, <1>6, <1>7, <1>8, <1>9, <1>10, OthersIn DEF SearchFits

\* A step that leaves the tables.
LEMMA TablesStay ==
  ASSUME ProducersInv, NEW t \in Callers, \A s \in Callers \ {t} : caller'[s] = caller[s],
         UNCHANGED <<table, hashOf, mine>>
  PROVE  TablesFit' /\ \A s \in Callers \ {t} : SearchFits(s)'
<1>1. TablesGrow(t)
  BY DEF TablesGrow, Width, Places
<1>2. TablesFit'
  BY DEF ProducersInv, TablesFit, Width, Places, Along, Home, Ahead
<1> QED
  BY <1>1, <1>2, OthersSearch DEF ProducersInv

-----------------------------------------------------------------------------
(* What a step leaves of the invariant's other parts.                      *)

LEMMA LockKept ==
  ASSUME ProducersInv, NEW t \in Callers, \A s \in Callers \ {t} : caller'[s] = caller[s],
         caller'[t].pc # "grow", caller'[t].pc = "clear" => caller[t].pc = "grow",
         \/ implicitProducerHashResizeInProgress' = implicitProducerHashResizeInProgress
         \/ caller[t].pc = "clear",
         Len(table') = Len(table) \/ caller[t].pc = "grow"
  PROVE  LockFits'
<1>1. LockFits
  BY DEF ProducersInv
<1> SUFFICES ASSUME NEW s \in Callers, caller'[s].pc \in {"grow", "clear"}
             PROVE  /\ implicitProducerHashResizeInProgress'
                    /\ \A r \in Callers : caller'[r].pc \in {"grow", "clear"} => r = s
                    /\ caller'[s].pc = "grow" => caller'[s].main = Len(table')
  BY DEF LockFits
<1>2. \A r \in Callers : caller'[r].pc \in {"grow", "clear"} =>
        caller[r].pc \in {"grow", "clear"} /\ (r = t => caller[r].pc = "grow")
  OBVIOUS
<1>3. caller[s].pc \in {"grow", "clear"} /\ implicitProducerHashResizeInProgress
  BY <1>1, <1>2 DEF LockFits
<1>4. ASSUME NEW r \in Callers, caller[r].pc \in {"grow", "clear"} PROVE r = s
  BY <1>1, <1>3, <1>4 DEF LockFits
<1>5. implicitProducerHashResizeInProgress'
  BY <1>2, <1>3, <1>4
<1>6. caller'[s].pc = "grow" => caller'[s].main = Len(table')
  BY <1>1, <1>3, <1>4 DEF LockFits
<1> QED
  BY <1>2, <1>4, <1>5, <1>6

\* Threads keep the number they counted up to, and a table gets no thread that
\* counted up to more than it has room for.
LEMMA CountKept ==
  ASSUME ProducersInv,
         implicitProducerHashCount' = implicitProducerHashCount, Counted' = Counted,
         \A s \in Callers : /\ Coming(s)' => Coming(s) /\ caller'[s].count = caller[s].count
                            /\ Placing(s)' => caller'[s].count < Room(caller[s].main)',
         \A s \in Callers, n \in DOMAIN table' : In(s, n)' =>
            \/ \E m \in DOMAIN table : In(s, m) /\ \A k \in Nat : k < Room(m) => k < Room(n)'
            \/ Coming(s) /\ caller[s].count < Room(n)'
  PROVE  CountFits'
<1>1. PICK c \in [Callers -> 0 .. Cardinality(Callers)] :
        /\ \A s \in Callers : /\ Coming(s) => c[s] = caller[s].count
                              /\ \A n \in DOMAIN table : In(s, n) => c[s] < Room(n)
        /\ \A b \in 0 .. Cardinality(Callers) : Cardinality(UpTo(c, b)) <= b
  BY DEF ProducersInv, CountFits
<1>2. \A s \in Callers : c[s] \in Nat
  <2>1. Cardinality(Callers) \in Nat
    BY ProducersAssumption, FS_CardinalityType DEF ProducersAssumption
  <2> QED
    BY <2>1
<1>3. \A b : UpTo(c, b)' = UpTo(c, b)
  BY DEF UpTo
<1>4. \A s \in Callers : /\ Coming(s)' => c[s] = caller'[s].count
                         /\ \A n \in DOMAIN table' : In(s, n)' => c[s] < Room(n)'
  BY <1>1, <1>2
<1>5. implicitProducerHashCount' = Cardinality(Counted')
  BY DEF ProducersInv, CountFits
<1>6. \A b \in 0 .. Cardinality(Callers) : Cardinality(UpTo(c, b)') <= b
  BY <1>1, <1>3
<1>7. \A s \in Callers : Placing(s)' => caller'[s].count < Room(caller[s].main)'
  OBVIOUS
<1> QED
  BY <1>4, <1>5, <1>6, <1>7 DEF CountFits

LEMMA CountQuiet ==
  ASSUME ProducersInv, NEW t \in Callers, \A s \in Callers \ {t} : caller'[s] = caller[s],
         UNCHANGED <<table, implicitProducerHashCount>>,
         Coming(t)' <=> Coming(t), Coming(t) => caller'[t].count = caller[t].count,
         Placing(t)' => caller'[t].count < Room(caller'[t].main)
  PROVE  CountFits'
<1>1. \A n : Room(n)' = Room(n) /\ \A s : In(s, n)' <=> In(s, n)
  BY DEF Room, Width, In, Places
<1>2. \A s \in Callers \ {t} : (Coming(s)' <=> Coming(s)) /\ (Placing(s)' <=> Placing(s))
  BY DEF Coming, Placing
<1>3. \A s \in Callers : Placing(s) => caller[s].count < Room(caller[s].main)
  BY DEF ProducersInv, CountFits
<1>4. Counted' = Counted
  BY <1>1, <1>2 DEF Counted
<1>5. ASSUME NEW s \in Callers
      PROVE  /\ Coming(s)' => Coming(s) /\ caller'[s].count = caller[s].count
             /\ Placing(s)' => caller'[s].count < Room(caller[s].main)'
  BY <1>1, <1>2, <1>3
<1>6. ASSUME NEW s \in Callers, NEW n \in DOMAIN table', In(s, n)'
      PROVE  \E m \in DOMAIN table : In(s, m) /\ \A k \in Nat : k < Room(m) => k < Room(n)'
  BY <1>1, <1>6
<1> QED
  BY <1>4, <1>5, <1>6, CountKept

\* A producer a thread comes to have is nobody else's.
LEMMA OwnKept ==
  ASSUME ProducersInv, NEW t \in Callers, \A s \in Callers \ {t} : caller'[s] = caller[s],
         UNCHANGED <<producer, token, mine>>, KindFits(t)',
         caller'[t].pc \in {"caught", "insert", "slot"} => Has(t, caller'[t].p)
  PROVE  OwnFits'
<1>1. \A s \in Callers : \A p : Has(s, p)' => Has(s, p)
  BY DEF Has
<1>2. \A s \in Callers \ {t} : KindFits(s)'
  BY DEF ProducersInv, OwnFits, KindFits
<1>3. \A s \in Callers, p \in Nat : Owned(s, p)'
  BY <1>1 DEF ProducersInv, OwnFits, Owned
<1>4. \A p \in DOMAIN producer' : producer'[p].inactive => producer'[p].explicit
  BY DEF ProducersInv, OwnFits
<1> QED
  BY <1>2, <1>3, <1>4 DEF OwnFits

\* A step that looks, or decides.
LEMMA QuietStep ==
  ASSUME ProducersInv, NEW t \in Callers, caller' \in [Callers -> CallerRecords],
         \A s \in Callers \ {t} : caller'[s] = caller[s],
         UNCHANGED <<table, hashOf, mine, token, producer, implicitProducerHashCount>>,
         producerCount' \in Nat, implicitProducerHashResizeInProgress' \in BOOLEAN,
         LockFits', SearchFits(t)', KindFits(t)',
         Coming(t)' <=> Coming(t), Coming(t) => caller'[t].count = caller[t].count,
         Placing(t)' => caller'[t].count < Room(caller'[t].main),
         caller'[t].pc \in {"caught", "insert", "slot"} => Has(t, caller'[t].p)
  PROVE  ProducersInv'
<1>1. ProducersTypes'
  BY DEF ProducersInv, ProducersTypes
<1>2. TablesFit' /\ \A s \in Callers \ {t} : SearchFits(s)'
  BY TablesStay
<1>3. CountFits'
  BY CountQuiet
<1>4. OwnFits'
  BY OwnKept
<1> QED
  BY <1>1, <1>2, <1>3, <1>4 DEF ProducersInv

-----------------------------------------------------------------------------
(* The steps that look, or decide.                                         *)

LEMMA StepMoves ==
  ASSUME ProducersInv, NEW t \in Callers, NEW from, NEW next, Steps(t, from, next)
  PROVE  /\ caller[t] \in CallerRecords /\ caller[t].pc = from /\ caller'[t] = next
         /\ \A s \in Callers \ {t} : caller'[s] = caller[s]
         /\ next \in CallerRecords => caller' \in [Callers -> CallerRecords]
         /\ SearchFits(t) /\ KindFits(t)
BY DEF ProducersInv, ProducersTypes, Steps, OwnFits

LEMMA SameTables ==
  ASSUME UNCHANGED <<table, hashOf>>
  PROVE  /\ \A n : (n \in DOMAIN table' <=> n \in DOMAIN table) /\ Room(n)' = Room(n)
         /\ \A s, n : (In(s, n)' <=> In(s, n)) /\ (NotFrom(s, n)' <=> NotFrom(s, n))
         /\ \A s, n, i : Passed(s, n, i)' <=> Passed(s, n, i)
<1>1. \A n : Width(n)' = Width(n) /\ Places(n)' = Places(n)
  BY DEF Width, Places
<1>2. \A s, n : In(s, n)' <=> In(s, n)
  BY <1>1 DEF In
<1>3. \A s, n : NotFrom(s, n)' <=> NotFrom(s, n)
  BY <1>2 DEF NotFrom
<1>4. \A s, n, j : Along(s, n, j)' = Along(s, n, j)
  BY <1>1 DEF Along, Home
<1>5. \A s, n, i : Passed(s, n, i)' <=> Passed(s, n, i)
  BY <1>1, <1>4 DEF Passed
<1> QED
  BY <1>1, <1>2, <1>3, <1>5 DEF Room

\* The search goes on where it was.
SamePlace(e, c) == /\ e.main = c.main /\ e.at = c.at /\ e.i = c.i /\ e.count = c.count
                   /\ e.explicit = c.explicit

LEMMA NowIs ==
  ASSUME ProducersInv, NEW t \in Callers, NEW pc \in {"idle", "leave"} \cup AtTables \cup AtList
  PROVE  /\ Now(t, pc) \in CallerRecords /\ Now(t, pc).pc = pc
         /\ SamePlace(Now(t, pc), caller[t]) /\ Now(t, pc).p = caller[t].p
<1>1. caller[t] \in CallerRecords
  BY DEF ProducersInv, ProducersTypes
<1> QED
  BY <1>1 DEF Now, CallerRecords, SamePlace

LEMMA AwayIs ==
  /\ Away \in CallerRecords /\ Away.pc = "idle" /\ Away.main = 0 /\ Away.at = 0 /\ Away.i = 0
  /\ Away.p = NoProducer /\ Away.explicit = FALSE /\ Away.count = 0
<1>1. 0 \in 0 .. Cardinality(Callers)
  BY ProducersAssumption, FS_CardinalityType DEF ProducersAssumption
<1> QED
  BY <1>1 DEF Away, CallerRecords, NoProducer, AtTables, AtList

LEMMA WalkStep == ASSUME ProducersInv, NEW t \in Callers, Walk(t) PROVE ProducersInv'
<1> PICK c \in CallerRecords : c = caller[t]
  BY DEF ProducersInv, ProducersTypes
<1> DEFINE next == IF c.p = NoProducer THEN Now(t, "create")
                   ELSE IF producer[c.p].inactive /\ producer[c.p].explicit = c.explicit
                   THEN Now(t, "catch") ELSE [c EXCEPT !.p = c.p - 1]
<1>1. Steps(t, "walk", next) /\ UNCHANGED <<hashVars, listVars, mine, token>>
  BY Zenon DEF Walk
<1>2. /\ c.pc = "walk" /\ SearchFits(t) /\ KindFits(t) /\ c.p \in 0 .. Len(producer)
      /\ c.p \in Nat /\ Len(producer) \in Nat /\ DOMAIN producer = 1 .. Len(producer)
  <2>1. c.pc = "walk" /\ SearchFits(t) /\ KindFits(t)
    BY <1>1, StepMoves
  <2>2. producer \in Seq(ProducerRecords)
    BY DEF ProducersInv, ProducersTypes
  <2> QED
    BY <2>1, <2>2, CallerFields DEF KindFits
<1>3. PICK e \in CallerRecords :
        /\ e = next /\ SamePlace(e, c)
        /\ \/ e.pc = "create"
           \/ /\ e.pc = "catch" /\ e.p = c.p /\ c.p # NoProducer
              /\ producer[c.p].inactive /\ producer[c.p].explicit = c.explicit
           \/ e.pc = "walk" /\ e.p = c.p - 1 /\ e.p \in Nat
  <2>1. CASE next = Now(t, "create")
    BY <2>1, NowIs DEF AtList
  <2>2. CASE /\ next = Now(t, "catch") /\ c.p # NoProducer
             /\ producer[c.p].inactive /\ producer[c.p].explicit = c.explicit
    BY <2>2, NowIs DEF AtList
  <2>3. CASE next = [c EXCEPT !.p = c.p - 1] /\ c.p # NoProducer
    <3>1. c.p - 1 \in Nat
      BY <1>2, <2>3 DEF NoProducer
    <3>2. next \in CallerRecords /\ SamePlace(next, c) /\ next.pc = "walk" /\ next.p = c.p - 1
      BY <1>2, <2>3, <3>1 DEF CallerRecords, SamePlace
    <3> QED
      BY <3>1, <3>2
  <2> QED
    BY <2>1, <2>2, <2>3
<1> HIDE DEF next
<1>4. /\ caller'[t] = e /\ caller' \in [Callers -> CallerRecords]
      /\ \A s \in Callers \ {t} : caller'[s] = caller[s]
  BY <1>1, <1>3, StepMoves
<1>5. e.pc = "catch" => e.explicit /\ e.p \in DOMAIN producer /\ producer[e.p].explicit
  <2>1. e.pc = "catch" => e.p \in DOMAIN producer
    BY <1>2, <1>3 DEF NoProducer
  <2>2. \A p \in DOMAIN producer : producer[p].inactive => producer[p].explicit
    BY DEF ProducersInv, OwnFits
  <2> QED
    BY <1>3, <2>1, <2>2 DEF SamePlace
<1>6. (Coming(t)' <=> Coming(t)) /\ (Placing(t)' <=> Placing(t))
  <2>1. c.explicit \in BOOLEAN
    BY CallerFields
  <2> QED
    BY <1>2, <1>3, <1>4, <1>5, <2>1 DEF Coming, Placing, SamePlace
<1>7. SearchFits(t)'
  BY <1>1, <1>2, <1>3, <1>4, <1>6
     DEF SearchFits, SamePlace, hashVars, NotFrom, In, Places, Width, AtTables
<1>8. KindFits(t)'
  <2>1. producer' = producer /\ token' = token /\ mine' = mine
    BY <1>1 DEF listVars
  <2>2. e.pc = "walk" => e.p \in 0 .. Len(producer)
    BY <1>2, <1>3
  <2>3. e.pc \in {"create", "catch", "walk"}
    BY <1>3
  <2> QED
    BY <1>2, <1>4, <1>5, <2>1, <2>2, <2>3 DEF KindFits
<1>9. Placing(t)' => e.count < Room(e.main)
  BY <1>3, <1>6 DEF ProducersInv, CountFits, SamePlace
<1>10. LockFits'
  BY <1>1, <1>3, <1>4, LockKept DEF hashVars
<1>11. producerCount' \in Nat /\ implicitProducerHashResizeInProgress' \in BOOLEAN
  BY <1>1 DEF ProducersInv, ProducersTypes, listVars, hashVars
<1> QED
  BY <1>1, <1>3, <1>4, <1>6, <1>7, <1>8, <1>9, <1>10, <1>11, QuietStep DEF hashVars, listVars, SamePlace

LEMMA MakeProducerStep == ASSUME ProducersInv, NEW t \in Callers, MakeProducer(t) PROVE ProducersInv'
<1> PICK c \in CallerRecords : c = caller[t]
  BY DEF ProducersInv, ProducersTypes
<1>1. Steps(t, "create", Now(t, "push")) /\ UNCHANGED <<hashVars, producer, mine, token>>
      /\ producerCount' = producerCount + 1
  BY DEF MakeProducer
<1>2. c.pc = "create" /\ SearchFits(t) /\ KindFits(t)
  BY <1>1, StepMoves
<1>3. PICK e \in CallerRecords : e = Now(t, "push") /\ SamePlace(e, c) /\ e.pc = "push" /\ e.p = c.p
  BY NowIs DEF AtList
<1>4. /\ caller'[t] = e /\ caller' \in [Callers -> CallerRecords]
      /\ \A s \in Callers \ {t} : caller'[s] = caller[s]
  BY <1>1, <1>3, StepMoves
<1>6. (Coming(t)' <=> Coming(t)) /\ (Placing(t)' <=> Placing(t))
  BY <1>2, <1>3, <1>4 DEF Coming, Placing, SamePlace
<1>7. SearchFits(t)'
  BY <1>1, <1>2, <1>3, <1>4, <1>6
     DEF SearchFits, SamePlace, hashVars, NotFrom, In, Places, Width, AtTables
<1>8. KindFits(t)'
  BY <1>1, <1>2, <1>3, <1>4 DEF KindFits
<1>9. Placing(t)' => e.count < Room(e.main)
  BY <1>3, <1>6 DEF ProducersInv, CountFits, SamePlace
<1>10. LockFits'
  BY <1>1, <1>3, <1>4, LockKept DEF hashVars
<1>11. producerCount' \in Nat /\ implicitProducerHashResizeInProgress' \in BOOLEAN
  BY <1>1 DEF ProducersInv, ProducersTypes, hashVars
<1> QED
  BY <1>1, <1>3, <1>4, <1>6, <1>7, <1>8, <1>9, <1>10, <1>11, QuietStep DEF hashVars, SamePlace

LEMMA TokenStep == ASSUME ProducersInv, NEW t \in Callers, Token(t) PROVE ProducersInv'
<1> DEFINE next == [Away EXCEPT !.pc = "walk", !.p = Len(producer), !.explicit = TRUE]
<1>1. Steps(t, "idle", next) /\ UNCHANGED <<hashVars, listVars, mine, token>>
  BY DEF Token
<1>2. caller[t].pc = "idle" /\ SearchFits(t) /\ KindFits(t) /\ Len(producer) \in Nat
  BY <1>1, StepMoves DEF ProducersInv, ProducersTypes
<1>3. PICK e \in CallerRecords : e = next /\ e.pc = "walk" /\ e.p = Len(producer) /\ e.explicit
  <2>1. PICK a \in CallerRecords : a = Away
    BY AwayIs
  <2>2. [a EXCEPT !.pc = "walk", !.p = Len(producer), !.explicit = TRUE] \in CallerRecords
    BY <1>2 DEF CallerRecords, AtList
  <2>3. /\ next.pc = "walk" /\ next.p = Len(producer) /\ next.explicit
    BY <2>1 DEF CallerRecords
  <2> QED
    BY <2>1, <2>2, <2>3
<1>4. /\ caller'[t] = e /\ caller' \in [Callers -> CallerRecords]
      /\ \A s \in Callers \ {t} : caller'[s] = caller[s]
  BY <1>1, <1>3, StepMoves
<1>6. ~Coming(t)' /\ ~Coming(t) /\ ~Placing(t)'
  BY <1>2, <1>3, <1>4 DEF Coming, Placing
<1>7. SearchFits(t)'
  BY <1>1, <1>2, <1>3, <1>4, <1>6 DEF SearchFits, hashVars, NotFrom, In, Places, Width, AtTables
<1>8. KindFits(t)'
  BY <1>1, <1>2, <1>3, <1>4 DEF KindFits, listVars
<1>10. LockFits'
  BY <1>1, <1>3, <1>4, LockKept DEF hashVars
<1>11. producerCount' \in Nat /\ implicitProducerHashResizeInProgress' \in BOOLEAN
  BY <1>1 DEF ProducersInv, ProducersTypes, hashVars, listVars
<1> QED
  BY <1>1, <1>3, <1>4, <1>6, <1>7, <1>8, <1>10, <1>11, QuietStep DEF hashVars, listVars

LEMMA ProbeIs ==
  ASSUME ProducersInv, NEW t \in Callers, NEW n \in DOMAIN table
  PROVE  /\ Probe(t, n) \in CallerRecords /\ Probe(t, n).pc = "probe"
         /\ Probe(t, n).at = n /\ Probe(t, n).i = Home(t, n) /\ Passed(t, n, Home(t, n))
         /\ Probe(t, n).main = caller[t].main /\ Probe(t, n).count = caller[t].count
         /\ Probe(t, n).explicit = caller[t].explicit /\ Probe(t, n).p = caller[t].p
<1>1. ProducersTypes /\ caller[t] \in CallerRecords
  BY DEF ProducersInv, ProducersTypes
<1>2. n \in Nat /\ Passed(t, n, Home(t, n)) /\ Home(t, n) \in Nat
  BY <1>1, PassedNone, TablesAre
<1>3. PICK h \in Nat : h = Home(t, n)
  BY <1>2
<1>4. PICK c \in CallerRecords : c = caller[t]
  BY <1>1
<1>5. Probe(t, n) = [[c EXCEPT !.pc = "probe"] EXCEPT !.at = n, !.i = h]
  BY <1>3, <1>4 DEF Probe, Now, Home, Width
<1>6. [[c EXCEPT !.pc = "probe"] EXCEPT !.at = n, !.i = h] \in CallerRecords
  BY <1>2 DEF CallerRecords, AtTables
<1> QED
  BY <1>2, <1>3, <1>4, <1>5, <1>6 DEF CallerRecords

LEMMA LookupStep == ASSUME ProducersInv, NEW t \in Callers, Lookup(t) PROVE ProducersInv'
<1> PICK n : n = Len(table)
  OBVIOUS
<1> DEFINE next == [Probe(t, n) EXCEPT !.main = n]
<1>1. Steps(t, "idle", next) /\ UNCHANGED <<hashVars, listVars, mine, token>>
  BY DEF Lookup
<1>2. caller[t].pc = "idle" /\ SearchFits(t) /\ KindFits(t) /\ n \in DOMAIN table /\ n \in Nat \ {0}
      /\ ~caller[t].explicit /\ DOMAIN table = 1 .. n
  BY <1>1, StepMoves, TablesAre DEF ProducersInv, SearchFits
<1>3. PICK q \in CallerRecords : /\ q = Probe(t, n) /\ q.pc = "probe" /\ q.at = n
                                 /\ Passed(t, n, q.i) /\ q.explicit = caller[t].explicit
  BY <1>2, ProbeIs
<1>3a. PICK e \in CallerRecords : /\ e = next /\ e.pc = "probe" /\ e.at = n /\ e.main = n
                                  /\ Passed(t, n, e.i) /\ ~e.explicit
  <2>1. next = [q EXCEPT !.main = n]
    BY <1>3
  <2>2. [q EXCEPT !.main = n] \in CallerRecords
    BY <1>2 DEF CallerRecords
  <2> QED
    BY <1>2, <1>3, <2>1, <2>2 DEF CallerRecords
<1>4. /\ caller'[t] = e /\ caller' \in [Callers -> CallerRecords]
      /\ \A s \in Callers \ {t} : caller'[s] = caller[s]
  BY <1>1, <1>3a, StepMoves
<1>6. ~Coming(t)' /\ ~Coming(t) /\ ~Placing(t)'
  BY <1>2, <1>3a, <1>4 DEF Coming, Placing
<1>7. SearchFits(t)'
  <2>1. NotFrom(t, n + 1)
    BY <1>2 DEF NotFrom
  <2>2. table' = table /\ hashOf' = hashOf /\ mine' = mine
    BY <1>1 DEF hashVars
  <2>3. Passed(t, n, e.i)' /\ NotFrom(t, n + 1)'
    BY <1>3a, <2>1, <2>2, SameTables
  <2>4. mine[t] # NoProducer => \E m \in DOMAIN table' : In(t, m)'
    BY <1>2, <2>2, SameTables DEF SearchFits
  <2> QED
    BY <1>2, <1>3a, <1>4, <1>6, <2>2, <2>3, <2>4 DEF SearchFits
<1>8. KindFits(t)'
  BY <1>1, <1>2, <1>3a, <1>4 DEF KindFits, listVars
<1>10. LockFits'
  BY <1>1, <1>3a, <1>4, LockKept DEF hashVars
<1>11. producerCount' \in Nat /\ implicitProducerHashResizeInProgress' \in BOOLEAN
  BY <1>1 DEF ProducersInv, ProducersTypes, hashVars, listVars
<1> QED
  BY <1>1, <1>3a, <1>4, <1>6, <1>7, <1>8, <1>10, <1>11, QuietStep DEF hashVars, listVars

\* A thread's slot has the producer the thread was given.
LEMMA KeyIs ==
  ASSUME ProducersInv, NEW t \in Callers, NEW n \in DOMAIN table, NEW i \in Places(n)
  PROVE  /\ table[n].key[i] = t => table[n].value[i] = mine[t] /\ mine[t] # NoProducer
         /\ t # invalid_thread_id
<1>1. t # invalid_thread_id
  BY ProducersAssumption DEF ProducersAssumption
<1> QED
  BY <1>1 DEF ProducersInv, TablesFit

LEMMA ProbeKeyStep == ASSUME ProducersInv, NEW t \in Callers, ProbeKey(t) PROVE ProducersInv'
<1> PICK c \in CallerRecords : c = caller[t]
  BY DEF ProducersInv, ProducersTypes
<1> PICK at, key : at = c.at /\ key = table[at].key[c.i]
  OBVIOUS
<1>0. PICK next : next = CASE key = t -> [Now(t, "found") EXCEPT !.p = table[at].value[c.i]]
                           [] key = invalid_thread_id /\ at > 1 -> Probe(t, at - 1)
                           [] key = invalid_thread_id /\ at = 1 -> Now(t, "count")
                           [] OTHER -> NextSlot(t, at)
  OBVIOUS
<1>1. Steps(t, "probe", next) /\ UNCHANGED <<hashVars, listVars, mine, token>>
  BY <1>0 DEF ProbeKey
<1>2. /\ c.pc = "probe" /\ SearchFits(t) /\ KindFits(t) /\ ~c.explicit
      /\ c.at \in 1 .. c.main /\ c.main \in DOMAIN table /\ NotFrom(t, c.at + 1) /\ Passed(t, c.at, c.i)
  BY <1>1, StepMoves DEF SearchFits, AtTables
<1>3. /\ at \in Nat \ {0} /\ at \in DOMAIN table /\ c.main \in Nat /\ c.i \in Places(at) /\ c.i \in Nat
      /\ DOMAIN table = 1 .. Len(table) /\ Len(table) \in Nat /\ ProducersTypes /\ TablesFit
  BY <1>2, TablesAre, CallerFields DEF ProducersInv, Passed
<1>4. PICK e \in CallerRecords :
        /\ e = next /\ e.main = c.main /\ ~e.explicit
        /\ \/ e.pc = "found" /\ e.at = at /\ e.p = mine[t] /\ mine[t] # NoProducer /\ In(t, at)
           \/ e.pc = "probe" /\ e.at = at - 1 /\ at > 1 /\ ~In(t, at) /\ Passed(t, e.at, e.i)
           \/ e.pc = "count" /\ e.at = 1 /\ at = 1 /\ ~In(t, at)
           \/ e.pc = "probe" /\ e.at = at /\ Passed(t, at, e.i)
  <2>0. t # invalid_thread_id
    BY ProducersAssumption DEF ProducersAssumption
  <2>1. CASE key = t
    <3>1. PICK q \in CallerRecords : q = Now(t, "found") /\ q.pc = "found" /\ SamePlace(q, c)
      BY NowIs DEF AtTables
    <3>2. PICK v \in Nat : v = table[at].value[c.i] /\ v = mine[t] /\ v # NoProducer
      <4>1. table[at].value[c.i] \in Nat
        BY <1>3, TablesAre
      <4>2. PICK k \in Places(at) : k = c.i
        BY <1>3
      <4>3. table[at].value[k] = mine[t] /\ mine[t] # NoProducer
        <5>1. table[at].key[k] = t
          BY <2>1, <4>2
        <5>2. at \in DOMAIN table
          BY <1>3
        <5> QED
          BY <5>1, <5>2, KeyIs
      <4> QED
        BY <4>1, <4>2, <4>3
    <3>3. next = [q EXCEPT !.p = v]
      BY <1>0, <2>0, <2>1, <3>1, <3>2
    <3>4. next \in CallerRecords /\ next.pc = "found" /\ next.at = at /\ next.p = v /\ next.main = c.main
          /\ ~next.explicit
      BY <1>2, <3>1, <3>3 DEF CallerRecords, SamePlace
    <3>5. In(t, at)
      BY <1>3, <2>1 DEF In
    <3> QED
      BY <3>2, <3>4, <3>5
  <2>2. CASE key = invalid_thread_id
    <3>1. ~In(t, at)
      BY <1>2, <1>3, <2>2, PassedAll
    <3>2. CASE at > 1
      <4>1. next = Probe(t, at - 1) /\ at - 1 \in DOMAIN table
        BY <1>0, <1>3, <2>0, <2>2, <3>2
      <4> QED
        BY <1>2, <3>1, <3>2, <4>1, ProbeIs
    <3>3. CASE at = 1
      <4>1. next = Now(t, "count")
        BY <1>0, <2>0, <2>2, <3>3
      <4>2. PICK q \in CallerRecords : q = Now(t, "count") /\ q.pc = "count" /\ SamePlace(q, c)
        BY NowIs DEF AtTables
      <4>3. q.main = c.main /\ ~q.explicit /\ q.at = 1
        BY <1>2, <3>3, <4>2 DEF SamePlace
      <4> QED
        BY <3>1, <3>3, <4>1, <4>2, <4>3
    <3> QED
      BY <1>3, <3>2, <3>3
  <2>3. CASE key # t /\ key # invalid_thread_id
    <3>1. PICK j \in Nat : j = (c.i + 1) % Width(at) /\ Passed(t, at, j)
      BY <1>2, <1>3, <2>3, PassedOne
    <3>2. next = [c EXCEPT !.i = j]
      BY <1>0, <2>3, <3>1 DEF NextSlot, Width
    <3>3. next \in CallerRecords /\ next.pc = "probe" /\ next.at = at /\ next.i = j /\ next.main = c.main
          /\ ~next.explicit
      BY <1>2, <3>2 DEF CallerRecords
    <3> QED
      BY <3>1, <3>3
  <2> QED
    BY <2>1, <2>2, <2>3
<1>5. /\ caller'[t] = e /\ caller' \in [Callers -> CallerRecords]
      /\ \A s \in Callers \ {t} : caller'[s] = caller[s]
  BY <1>1, <1>4, StepMoves
<1>6. ~Coming(t)' /\ ~Coming(t) /\ ~Placing(t)'
  BY <1>2, <1>4, <1>5 DEF Coming, Placing
<1>7. SearchFits(t)'
  <2>1. table' = table /\ hashOf' = hashOf /\ mine' = mine
    BY <1>1 DEF hashVars
  <2>2. e.at \in 1 .. e.main /\ e.main \in DOMAIN table /\ NotFrom(t, e.at + 1)
    <3>1. CASE e.at = at
      BY <1>2, <1>4, <3>1
    <3>2. CASE e.at = at - 1 /\ at > 1 /\ ~In(t, at)
      <4>1. e.at \in 1 .. e.main /\ e.at + 1 = at
        BY <1>2, <1>3, <1>4, <3>2
      <4>2. \A m \in DOMAIN table : m >= at => m = at \/ m >= at + 1
        BY <1>3
      <4>3. NotFrom(t, at)
        BY <1>2, <3>2, <4>2 DEF NotFrom
      <4> QED
        BY <1>2, <1>4, <4>1, <4>3
    <3> QED
      BY <1>4, <3>1, <3>2
  <2>3. e.pc = "count" => NotFrom(t, 1)
    <3>1. \A m \in DOMAIN table : m >= 1 => m = 1 \/ m >= 2
      BY <1>3
    <3> QED
      BY <1>2, <1>4, <3>1 DEF NotFrom
  <2>4. mine[t] # NoProducer => \E m \in DOMAIN table : In(t, m)
    BY <1>2 DEF SearchFits
  <2> QED
    BY <1>4, <1>5, <1>6, <2>1, <2>2, <2>3, <2>4, SameTables DEF SearchFits
<1>8. KindFits(t)'
  BY <1>1, <1>2, <1>4, <1>5 DEF KindFits, listVars
<1>10. LockFits'
  BY <1>1, <1>4, <1>5, LockKept DEF hashVars
<1>11. producerCount' \in Nat /\ implicitProducerHashResizeInProgress' \in BOOLEAN
  BY <1>1 DEF ProducersInv, ProducersTypes, hashVars, listVars
<1> QED
  BY <1>1, <1>4, <1>5, <1>6, <1>7, <1>8, <1>10, <1>11, QuietStep DEF hashVars, listVars

LEMMA FoundStep == ASSUME ProducersInv, NEW t \in Callers, Found(t) PROVE ProducersInv'
<1> PICK c \in CallerRecords : c = caller[t]
  BY DEF ProducersInv, ProducersTypes
<1>0. PICK next : next = IF c.at = c.main THEN Away ELSE [Probe(t, c.main) EXCEPT !.pc = "insert"]
  OBVIOUS
<1>1. Steps(t, "found", next) /\ UNCHANGED <<hashVars, listVars, token>>
      /\ mine' = [mine EXCEPT ![t] = IF mine[t] = NoProducer THEN c.p ELSE mine[t]]
  BY <1>0 DEF Found
<1>2. /\ c.pc = "found" /\ SearchFits(t) /\ KindFits(t) /\ ~c.explicit
      /\ c.at \in 1 .. c.main /\ c.main \in DOMAIN table /\ NotFrom(t, c.at + 1)
      /\ In(t, c.at) /\ c.p = mine[t]
  BY <1>1, StepMoves DEF SearchFits, AtTables
<1>3. DOMAIN table = 1 .. Len(table) /\ Len(table) \in Nat /\ c.at \in DOMAIN table /\ c.at \in Nat
      /\ c.main \in Nat
  BY <1>2, TablesAre, CallerFields DEF ProducersInv
<1>4. mine[t] # NoProducer
  BY <1>2, <1>3, KeyIs DEF In
<1>5. mine' = mine
  BY <1>1, <1>4 DEF ProducersInv, ProducersTypes
<1>6. PICK e \in CallerRecords :
        /\ e = next /\ ~e.explicit
        /\ \/ e.pc = "idle"
           \/ e.pc = "insert" /\ e.at = c.main /\ e.main = c.main /\ e.p = mine[t] /\ c.at < c.main
  <2>1. CASE c.at = c.main
    BY <1>0, <2>1, AwayIs
  <2>2. CASE c.at # c.main
    <3>1. PICK q \in CallerRecords : q = Probe(t, c.main) /\ q.at = c.main /\ q.main = c.main /\ q.p = c.p
                                     /\ q.explicit = c.explicit
      BY <1>2, ProbeIs
    <3>2. next = [q EXCEPT !.pc = "insert"]
      BY <1>0, <2>2, <3>1
    <3>3. next \in CallerRecords /\ next.pc = "insert" /\ next.at = c.main /\ next.main = c.main
          /\ next.p = c.p /\ ~next.explicit
      BY <1>2, <3>1, <3>2 DEF CallerRecords, AtTables
    <3> QED
      BY <1>2, <1>3, <2>2, <3>3
  <2> QED
    BY <2>1, <2>2
<1>7. /\ caller'[t] = e /\ caller' \in [Callers -> CallerRecords]
      /\ \A s \in Callers \ {t} : caller'[s] = caller[s]
  BY <1>1, <1>6, StepMoves
<1>8. ~Coming(t)' /\ ~Coming(t) /\ ~Placing(t)'
  BY <1>2, <1>3, <1>6, <1>7 DEF Coming, Placing
<1>9. SearchFits(t)'
  <2>1. table' = table /\ hashOf' = hashOf /\ mine' = mine
    BY <1>1, <1>5 DEF hashVars
  <2>2. e.pc = "insert" => NotFrom(t, e.main)
    BY <1>2, <1>3, <1>6 DEF NotFrom
  <2>3. \E m \in DOMAIN table : In(t, m)
    BY <1>2, <1>3
  <2> QED
    BY <1>2, <1>4, <1>6, <1>7, <1>8, <2>1, <2>2, <2>3, SameTables DEF SearchFits
<1>10. KindFits(t)'
  BY <1>1, <1>2, <1>4, <1>5, <1>6, <1>7 DEF KindFits, listVars
<1>11. LockFits'
  BY <1>1, <1>6, <1>7, LockKept DEF hashVars
<1>12. producerCount' \in Nat /\ implicitProducerHashResizeInProgress' \in BOOLEAN
  BY <1>1 DEF ProducersInv, ProducersTypes, hashVars, listVars
<1>13. e.pc = "insert" => Has(t, e.p)
  BY <1>4, <1>6 DEF Has
<1> QED
  BY <1>1, <1>5, <1>6, <1>7, <1>8, <1>9, <1>10, <1>11, <1>12, <1>13, QuietStep DEF hashVars, listVars

\* The last table is there.
LEMMA MainIs ==
  ASSUME ProducersInv
  PROVE  Len(table) \in Nat /\ Len(table) \in DOMAIN table /\ DOMAIN table = 1 .. Len(table)
BY TablesAre DEF ProducersInv

LEMMA SizeStep == ASSUME ProducersInv, NEW t \in Callers, Size(t) PROVE ProducersInv'
<1> PICK c \in CallerRecords : c = caller[t]
  BY DEF ProducersInv, ProducersTypes
<1>0. PICK grow : grow = (c.count >= Capacity(t) \div 2 /\ ~implicitProducerHashResizeInProgress)
  OBVIOUS
<1>1. /\ Steps(t, "size", IF grow THEN [Now(t, "grow") EXCEPT !.main = Len(table)] ELSE Now(t, "fits"))
      /\ implicitProducerHashResizeInProgress' = (implicitProducerHashResizeInProgress \/ grow)
      /\ UNCHANGED <<implicitProducerHashCount, table, hashOf, listVars, mine, token>>
  BY <1>0, Zenon DEF Size
<1>2. /\ c.pc = "size" /\ SearchFits(t) /\ KindFits(t) /\ Coming(t)
      /\ ~c.explicit /\ c.at = 1 /\ c.main \in DOMAIN table /\ NotFrom(t, 1)
      /\ (mine[t] # NoProducer => \E n \in DOMAIN table : In(t, n))
  BY <1>1, StepMoves DEF SearchFits, AtTables, Coming
<1>3. PICK e \in CallerRecords :
        /\ caller'[t] = e
        /\ e.at = 1 /\ e.count = c.count /\ ~e.explicit /\ e.main \in DOMAIN table
        /\ \/ grow /\ e.pc = "grow" /\ e.main = Len(table)
           \/ ~grow /\ e.pc = "fits"
  <2>1. CASE grow
    <3>1. PICK q \in CallerRecords : q = Now(t, "grow") /\ q.pc = "grow" /\ SamePlace(q, c)
      BY NowIs DEF AtTables
    <3>2. PICK e : e = [q EXCEPT !.main = Len(table)]
      OBVIOUS
    <3>3. /\ e \in CallerRecords /\ e.pc = "grow" /\ e.main = Len(table) /\ e.at = q.at /\ e.count = q.count
          /\ e.explicit = q.explicit
      BY <3>1, <3>2, MainIs DEF CallerRecords
    <3>4. caller'[t] = e
      BY <1>1, <2>1, <3>1, <3>2, StepMoves
    <3> QED
      BY <1>2, <2>1, <3>1, <3>3, <3>4, MainIs DEF SamePlace
  <2>2. CASE ~grow
    <3>1. PICK q \in CallerRecords : q = Now(t, "fits") /\ q.pc = "fits" /\ SamePlace(q, c)
      BY NowIs DEF AtTables
    <3>2. caller'[t] = q
      BY <1>1, <2>2, <3>1, StepMoves
    <3> QED
      BY <1>2, <2>2, <3>1, <3>2 DEF SamePlace
  <2> QED
    BY <2>1, <2>2
<1>4. /\ caller' \in [Callers -> CallerRecords]
      /\ \A s \in Callers \ {t} : caller'[s] = caller[s]
  BY <1>1, <1>3, StepMoves
<1>5. Coming(t)' /\ ~Placing(t)'
  BY <1>3 DEF Coming, Placing
<1>6. SearchFits(t)'
  BY <1>1, <1>2, <1>3, <1>5, SameTables DEF SearchFits
<1>7. KindFits(t)'
  BY <1>1, <1>2, <1>3 DEF KindFits, listVars
<1>8. LockFits'
  <2>1. LockFits /\ table' = table
    BY <1>1 DEF ProducersInv
  <2>2. CASE ~grow
    BY <1>1, <1>3, <1>4, <2>1, <2>2 DEF LockFits
  <2>3. CASE grow
    <3>1. \A s \in Callers : caller[s].pc \notin {"grow", "clear"}
      BY <1>0, <2>1, <2>3 DEF LockFits
    <3>2. implicitProducerHashResizeInProgress'
      BY <1>1, <2>3
    <3>3. \A s \in Callers : caller'[s].pc \in {"grow", "clear"} => s = t
      BY <1>4, <3>1
    <3>4. caller'[t].main = Len(table')
      BY <1>3, <2>1, <2>3
    <3> QED
      BY <3>2, <3>3, <3>4 DEF LockFits
  <2> QED
    BY <2>2, <2>3
<1>9. producerCount' \in Nat /\ implicitProducerHashResizeInProgress' \in BOOLEAN
  BY <1>0, <1>1 DEF ProducersInv, ProducersTypes, listVars
<1> QED
  BY <1>1, <1>2, <1>3, <1>4, <1>5, <1>6, <1>7, <1>8, <1>9, QuietStep DEF listVars

LEMMA GrowNotStep == ASSUME ProducersInv, NEW t \in Callers, GrowNot(t) PROVE ProducersInv'
<1> PICK c \in CallerRecords : c = caller[t]
  BY DEF ProducersInv, ProducersTypes
<1>1. Steps(t, "grow", Now(t, "clear")) /\ UNCHANGED <<hashVars, listVars, mine, token>>
  BY DEF GrowNot
<1>2. /\ c.pc = "grow" /\ SearchFits(t) /\ KindFits(t) /\ Coming(t)
      /\ ~c.explicit /\ c.at = 1 /\ c.main \in DOMAIN table /\ NotFrom(t, 1) /\ c.main # 0
      /\ (mine[t] # NoProducer => \E n \in DOMAIN table : In(t, n))
  BY <1>1, StepMoves, MainIs DEF SearchFits, AtTables, Coming
<1>3. PICK e \in CallerRecords : e = Now(t, "clear") /\ e.pc = "clear" /\ SamePlace(e, c)
  BY NowIs DEF AtTables
<1>4. /\ caller'[t] = e /\ caller' \in [Callers -> CallerRecords]
      /\ \A s \in Callers \ {t} : caller'[s] = caller[s]
  BY <1>1, <1>3, StepMoves
<1>5. Coming(t)' /\ ~Placing(t)'
  BY <1>2, <1>3, <1>4 DEF Coming, Placing, SamePlace
<1>6. SearchFits(t)'
  BY <1>1, <1>2, <1>3, <1>4, <1>5, SameTables DEF SearchFits, SamePlace, hashVars
<1>7. KindFits(t)'
  BY <1>1, <1>2, <1>3, <1>4 DEF KindFits, listVars
<1>8. LockFits'
  BY <1>1, <1>2, <1>3, <1>4, LockKept DEF hashVars
<1>9. producerCount' \in Nat /\ implicitProducerHashResizeInProgress' \in BOOLEAN
  BY <1>1 DEF ProducersInv, ProducersTypes, listVars, hashVars
<1> QED
  BY <1>1, <1>2, <1>3, <1>4, <1>5, <1>6, <1>7, <1>8, <1>9, QuietStep DEF listVars, hashVars, SamePlace

LEMMA ClearStep == ASSUME ProducersInv, NEW t \in Callers, Clear(t) PROVE ProducersInv'
<1> PICK c \in CallerRecords : c = caller[t]
  BY DEF ProducersInv, ProducersTypes
<1>1. /\ Steps(t, "clear", IF c.main = 0 THEN Away ELSE Now(t, "fits"))
      /\ implicitProducerHashResizeInProgress' = FALSE
      /\ UNCHANGED <<implicitProducerHashCount, table, hashOf, listVars, mine, token>>
  BY DEF Clear
<1>2. /\ c.pc = "clear" /\ SearchFits(t) /\ KindFits(t) /\ ~c.explicit
      /\ (Coming(t) <=> c.main # 0)
      /\ (Coming(t) => c.at = 1 /\ c.main \in DOMAIN table /\ NotFrom(t, 1))
      /\ (mine[t] # NoProducer => \E n \in DOMAIN table : In(t, n))
  BY <1>1, StepMoves DEF SearchFits, AtTables, Coming, Placing
<1>3. PICK e \in CallerRecords :
        /\ e = IF c.main = 0 THEN Away ELSE Now(t, "fits")
        /\ c.main = 0 => e.pc = "idle" /\ ~e.explicit
        /\ c.main # 0 => e.pc = "fits" /\ SamePlace(e, c)
  BY NowIs, AwayIs DEF AtTables
<1>4. /\ caller'[t] = e /\ caller' \in [Callers -> CallerRecords]
      /\ \A s \in Callers \ {t} : caller'[s] = caller[s]
  BY <1>1, <1>3, StepMoves
<1>5. (Coming(t)' <=> c.main # 0) /\ ~Placing(t)'
  BY <1>3, <1>4 DEF Coming, Placing
<1>6. SearchFits(t)'
  BY <1>1, <1>2, <1>3, <1>4, <1>5, SameTables DEF SearchFits, SamePlace
<1>7. KindFits(t)'
  BY <1>1, <1>2, <1>3, <1>4 DEF KindFits, listVars
<1>8. LockFits'
  BY <1>1, <1>2, <1>3, <1>4, LockKept
<1>9. producerCount' \in Nat /\ implicitProducerHashResizeInProgress' \in BOOLEAN
  BY <1>1 DEF ProducersInv, ProducersTypes, listVars
<1> QED
  BY <1>1, <1>2, <1>3, <1>4, <1>5, <1>6, <1>7, <1>8, <1>9, QuietStep DEF listVars, SamePlace

LEMMA FitsStep == ASSUME ProducersInv, NEW t \in Callers, Fits(t) PROVE ProducersInv'
<1> PICK c \in CallerRecords : c = caller[t]
  BY DEF ProducersInv, ProducersTypes
<1> PICK l \in Nat, k \in Nat : l = Len(table) /\ k = Len(producer)
  BY MainIs DEF ProducersInv, ProducersTypes
<1>1. /\ Steps(t, "fits", IF FewEnough(t) THEN [Now(t, "walk") EXCEPT !.p = k]
                          ELSE [Now(t, "size") EXCEPT !.main = l])
      /\ UNCHANGED <<hashVars, listVars, mine, token>>
  BY DEF Fits
<1>2. /\ c.pc = "fits" /\ SearchFits(t) /\ KindFits(t) /\ ~c.explicit /\ Coming(t)
      /\ c.at = 1 /\ c.main \in DOMAIN table /\ NotFrom(t, 1)
      /\ (mine[t] # NoProducer => \E n \in DOMAIN table : In(t, n))
  BY <1>1, StepMoves DEF SearchFits, AtTables, Coming, Placing
<1>3. PICK e \in CallerRecords :
        /\ caller'[t] = e
        /\ e.at = 1 /\ e.count = c.count /\ ~e.explicit
        /\ \/ FewEnough(t) /\ e.pc = "walk" /\ e.main = c.main /\ e.p = k
           \/ e.pc = "size" /\ e.main = l
  <2>1. CASE FewEnough(t)
    <3>1. PICK q \in CallerRecords : q = Now(t, "walk") /\ q.pc = "walk" /\ SamePlace(q, c)
      BY NowIs DEF AtList
    <3>2. PICK e : e = [q EXCEPT !.p = k]
      OBVIOUS
    <3>3. /\ e \in CallerRecords /\ e.pc = "walk" /\ e.p = k /\ e.main = q.main /\ e.at = q.at
          /\ e.count = q.count /\ e.explicit = q.explicit
      BY <3>1, <3>2 DEF CallerRecords
    <3>4. caller'[t] = e
      BY <1>1, <2>1, <3>1, <3>2, StepMoves
    <3> QED
      BY <1>2, <2>1, <3>1, <3>3, <3>4 DEF SamePlace
  <2>2. CASE ~FewEnough(t)
    <3>1. PICK q \in CallerRecords : q = Now(t, "size") /\ q.pc = "size" /\ SamePlace(q, c)
      BY NowIs DEF AtTables
    <3>2. PICK e : e = [q EXCEPT !.main = l]
      OBVIOUS
    <3>3. /\ e \in CallerRecords /\ e.pc = "size" /\ e.main = l /\ e.at = q.at
          /\ e.count = q.count /\ e.explicit = q.explicit
      BY <3>1, <3>2 DEF CallerRecords
    <3>4. caller'[t] = e
      BY <1>1, <2>2, <3>1, <3>2, StepMoves
    <3> QED
      BY <1>2, <2>2, <3>1, <3>3, <3>4 DEF SamePlace
  <2> QED
    BY <2>1, <2>2
<1>4. /\ caller' \in [Callers -> CallerRecords]
      /\ \A s \in Callers \ {t} : caller'[s] = caller[s]
  BY <1>1, <1>3, StepMoves
<1>5. Coming(t)' /\ (Placing(t)' => FewEnough(t) /\ e.main = c.main)
  BY <1>3 DEF Coming, Placing
<1>6. SearchFits(t)'
  <2>1. e.main \in DOMAIN table
    BY <1>2, <1>3, MainIs
  <2> QED
    BY <1>1, <1>2, <1>3, <1>5, <2>1, SameTables DEF SearchFits, hashVars, AtTables
<1>7. KindFits(t)'
  BY <1>1, <1>2, <1>3 DEF KindFits, listVars
<1>8. LockFits'
  BY <1>1, <1>2, <1>3, <1>4, LockKept DEF hashVars
<1>9. producerCount' \in Nat /\ implicitProducerHashResizeInProgress' \in BOOLEAN
  BY <1>1 DEF ProducersInv, ProducersTypes, listVars, hashVars
<1>10. Placing(t)' => e.count < Room(e.main)
  BY <1>3, <1>5 DEF FewEnough, Capacity, Room, Width
<1> QED
  BY <1>1, <1>2, <1>3, <1>4, <1>5, <1>6, <1>7, <1>8, <1>9, <1>10, QuietStep DEF listVars, hashVars

LEMMA InsertStep == ASSUME ProducersInv, NEW t \in Callers, Insert(t) PROVE ProducersInv'
<1> PICK c \in CallerRecords : c = caller[t]
  BY DEF ProducersInv, ProducersTypes
<1> PICK h : h = Home(t, c.main)
  OBVIOUS
<1>1. Steps(t, "insert", [c EXCEPT !.pc = "slot", !.i = h]) /\ UNCHANGED <<hashVars, listVars, mine, token>>
  BY DEF Insert, Start, Home, Width, Capacity
<1>2. /\ c.pc = "insert" /\ SearchFits(t) /\ KindFits(t) /\ ~c.explicit
      /\ c.main \in DOMAIN table /\ NotFrom(t, c.main) /\ c.p # NoProducer
      /\ (c.at # 1 => c.p = mine[t])
      /\ (Coming(t) <=> c.at = 1) /\ (Placing(t) <=> c.at = 1)
      /\ (Coming(t) => NotFrom(t, 1))
      /\ (mine[t] # NoProducer => \E n \in DOMAIN table : In(t, n))
  BY <1>1, StepMoves DEF SearchFits, AtTables, Coming, Placing
<1>3. h \in Nat /\ Passed(t, c.main, h)
  BY <1>2, PassedNone DEF ProducersInv
<1>4. PICK e \in CallerRecords : /\ e = [c EXCEPT !.pc = "slot", !.i = h]
                                 /\ e.pc = "slot" /\ e.i = h /\ e.main = c.main /\ e.at = c.at
                                 /\ e.count = c.count /\ e.p = c.p /\ e.explicit = c.explicit
  <2>1. [c EXCEPT !.pc = "slot", !.i = h] \in CallerRecords
    BY <1>3 DEF CallerRecords, AtTables
  <2> QED
    BY <2>1 DEF CallerRecords
<1>5. /\ caller'[t] = e /\ caller' \in [Callers -> CallerRecords]
      /\ \A s \in Callers \ {t} : caller'[s] = caller[s]
  BY <1>1, <1>4, StepMoves
<1>6. (Coming(t)' <=> c.at = 1) /\ (Placing(t)' <=> c.at = 1)
  BY <1>4, <1>5 DEF Coming, Placing
<1>7. SearchFits(t)'
  BY <1>1, <1>2, <1>3, <1>4, <1>5, <1>6, SameTables DEF SearchFits, hashVars
<1>8. KindFits(t)'
  BY <1>1, <1>2, <1>4, <1>5 DEF KindFits, listVars
<1>9. LockFits'
  BY <1>1, <1>2, <1>4, <1>5, LockKept DEF hashVars
<1>10. producerCount' \in Nat /\ implicitProducerHashResizeInProgress' \in BOOLEAN
  BY <1>1 DEF ProducersInv, ProducersTypes, listVars, hashVars
<1>11. Placing(t)' => e.count < Room(e.main)
  BY <1>2, <1>4, <1>6 DEF ProducersInv, CountFits
<1>12. Has(t, e.p)
  BY <1>2, <1>4 DEF Has
<1> QED
  BY <1>1, <1>2, <1>4, <1>5, <1>6, <1>7, <1>8, <1>9, <1>10, <1>11, <1>12, QuietStep
     DEF listVars, hashVars

LEMMA SlotTakenStep ==
  ASSUME ProducersInv, NEW t \in Callers, Slot(t),
         table[caller[t].main].key[caller[t].i] # invalid_thread_id
  PROVE  ProducersInv'
<1> PICK c \in CallerRecords : c = caller[t]
  BY DEF ProducersInv, ProducersTypes
<1> PICK k : k = (c.i + 1) % Width(c.main)
  OBVIOUS
<1>1. Steps(t, "slot", [c EXCEPT !.i = k]) /\ UNCHANGED <<hashVars, listVars, mine, token>>
  BY DEF Slot, NextSlot, Width, hashVars
<1>2. /\ c.pc = "slot" /\ SearchFits(t) /\ KindFits(t) /\ ~c.explicit
      /\ c.main \in DOMAIN table /\ NotFrom(t, c.main) /\ c.p # NoProducer
      /\ (c.at # 1 => c.p = mine[t]) /\ Passed(t, c.main, c.i)
      /\ (Coming(t) <=> c.at = 1) /\ (Placing(t) <=> c.at = 1)
      /\ (Coming(t) => NotFrom(t, 1))
      /\ (mine[t] # NoProducer => \E n \in DOMAIN table : In(t, n))
  BY <1>1, StepMoves DEF SearchFits, AtTables, Coming, Placing
<1>3. k \in Nat /\ Passed(t, c.main, k)
  <2>1. table[c.main].key[c.i] # t
    <3>1. ~In(t, c.main) /\ c.i \in Places(c.main)
      BY <1>2, MainIs DEF NotFrom, Passed
    <3> QED
      BY <3>1 DEF In
  <2> QED
    BY <1>2, <2>1, PassedOne DEF ProducersInv
<1>4. PICK e \in CallerRecords : /\ e = [c EXCEPT !.i = k]
                                 /\ e.pc = "slot" /\ e.i = k /\ e.main = c.main /\ e.at = c.at
                                 /\ e.count = c.count /\ e.p = c.p /\ e.explicit = c.explicit
  <2>1. [c EXCEPT !.i = k] \in CallerRecords
    BY <1>3 DEF CallerRecords, AtTables
  <2> QED
    BY <1>2, <2>1 DEF CallerRecords
<1>5. /\ caller'[t] = e /\ caller' \in [Callers -> CallerRecords]
      /\ \A s \in Callers \ {t} : caller'[s] = caller[s]
  BY <1>1, <1>4, StepMoves
<1>6. (Coming(t)' <=> c.at = 1) /\ (Placing(t)' <=> c.at = 1)
  BY <1>4, <1>5 DEF Coming, Placing
<1>7. SearchFits(t)'
  BY <1>1, <1>2, <1>3, <1>4, <1>5, <1>6, SameTables DEF SearchFits, hashVars
<1>8. KindFits(t)'
  BY <1>1, <1>2, <1>4, <1>5 DEF KindFits, listVars
<1>9. LockFits'
  BY <1>1, <1>2, <1>4, <1>5, LockKept DEF hashVars
<1>10. producerCount' \in Nat /\ implicitProducerHashResizeInProgress' \in BOOLEAN
  BY <1>1 DEF ProducersInv, ProducersTypes, listVars, hashVars
<1>11. Placing(t)' => e.count < Room(e.main)
  BY <1>2, <1>4, <1>6 DEF ProducersInv, CountFits
<1>12. Has(t, e.p)
  BY <1>2, <1>4 DEF Has
<1> QED
  BY <1>1, <1>2, <1>4, <1>5, <1>6, <1>7, <1>8, <1>9, <1>10, <1>11, <1>12, QuietStep
     DEF listVars, hashVars

-----------------------------------------------------------------------------
(* The steps that change the list of producers, or who has one.            *)

\* Only this thread comes to have a producer, and nobody else has it.
LEMMA OwnMoves ==
  ASSUME ProducersInv, NEW t \in Callers,
         \A s \in Callers \ {t} : /\ caller'[s] = caller[s] /\ token'[s] = token[s] /\ mine'[s] = mine[s],
         Len(producer) <= Len(producer'), producer' \in Seq(ProducerRecords), token' \in [Callers -> Nat],
         mine' \in [Callers -> Nat], caller' \in [Callers -> CallerRecords],
         \A q \in DOMAIN producer :
           /\ producer'[q].explicit = producer[q].explicit
           /\ ~producer[q].inactive => ~producer'[q].inactive \/ Has(t, q),
         \A q \in DOMAIN producer' : producer'[q].inactive => producer'[q].explicit,
         KindFits(t)',
         \A p \in Nat : Has(t, p)' => /\ p \in DOMAIN producer' /\ ~producer'[p].inactive
                                      /\ \A s \in Callers \ {t} : ~Has(s, p)
  PROVE  OwnFits'
<1>1. DOMAIN producer \subseteq DOMAIN producer' /\ 0 .. Len(producer) \subseteq 0 .. Len(producer')
  <2>1. producer \in Seq(ProducerRecords)
    BY DEF ProducersInv, ProducersTypes
  <2> QED
    BY <2>1
<1>2. \A s \in Callers \ {t} : \A p : Has(s, p)' <=> Has(s, p)
  BY DEF Has
<1>3. \A s \in Callers, p \in Nat : Owned(s, p)
  BY DEF ProducersInv, OwnFits
<1>4. ASSUME NEW s \in Callers \ {t} PROVE KindFits(s)'
  <2> PICK c \in CallerRecords : c = caller[s] /\ c = caller'[s]
    BY DEF ProducersInv, ProducersTypes
  <2>1. KindFits(s) /\ token[s] \in Nat /\ mine[s] \in Nat /\ c.p \in Nat
    BY CallerFields DEF ProducersInv, ProducersTypes, OwnFits
  <2>2. /\ token[s] # NoProducer => token[s] \in DOMAIN producer
        /\ mine[s] # NoProducer => mine[s] \in DOMAIN producer
    BY <1>3, <2>1 DEF Owned, Has
  <2>3. c.pc \in {"insert", "slot"} => c.p \in DOMAIN producer
    <3>1. c.pc \in {"insert", "slot"} => c.p # NoProducer
      BY DEF ProducersInv, SearchFits
    <3> QED
      BY <1>3, <2>1, <3>1 DEF Owned, Has
  <2> QED
    BY <1>1, <2>1, <2>2, <2>3 DEF KindFits
<1>5. ASSUME NEW s \in Callers \ {t}, NEW p \in Nat, Has(s, p) PROVE Owned(s, p)'
  <2>1. p \in DOMAIN producer /\ ~producer[p].inactive /\ \A r \in Callers : Has(r, p) => r = s
    BY <1>3, <1>5 DEF Owned
  <2>2. ~producer'[p].inactive /\ p \in DOMAIN producer'
    BY <1>1, <2>1
  <2>3. \A r \in Callers : Has(r, p)' => r = s
    BY <1>2, <1>5, <2>1
  <2> QED
    BY <2>2, <2>3 DEF Owned
<1>6. ASSUME NEW s \in Callers, NEW p \in Nat PROVE Owned(s, p)'
  <2>1. CASE s = t
    BY <1>2, <2>1 DEF Owned
  <2>2. CASE s # t
    BY <1>2, <1>5, <2>2 DEF Owned
  <2> QED
    BY <2>1, <2>2
<1> QED
  BY <1>4, <1>6 DEF OwnFits

LEMMA OwnerStep ==
  ASSUME ProducersInv, NEW t \in Callers, ProducersTypes',
         \A s \in Callers \ {t} : caller'[s] = caller[s],
         UNCHANGED <<table, hashOf, mine, implicitProducerHashCount>>,
         OwnFits', LockFits', SearchFits(t)',
         Coming(t)' <=> Coming(t), Coming(t) => caller'[t].count = caller[t].count,
         Placing(t)' => caller'[t].count < Room(caller'[t].main)
  PROVE  ProducersInv'
<1>2. TablesFit' /\ \A s \in Callers \ {t} : SearchFits(s)'
  BY TablesStay
<1>3. CountFits'
  BY CountQuiet
<1> QED
  BY <1>2, <1>3 DEF ProducersInv

LEMMA ProducerIs ==
  ASSUME NEW r \in ProducerRecords
  PROVE  r.explicit \in BOOLEAN /\ r.inactive \in BOOLEAN /\ r.token \in Callers \cup {NoProducer}
BY DEF ProducerRecords

\* One producer changes.
LEMMA ProducerChanges ==
  ASSUME ProducersInv, NEW p \in DOMAIN producer, NEW r \in ProducerRecords,
         producer' = [producer EXCEPT ![p] = r], r.explicit = producer[p].explicit
  PROVE  /\ producer' \in Seq(ProducerRecords) /\ Len(producer') = Len(producer)
         /\ Len(producer) \in Nat /\ producer'[p] = r
         /\ DOMAIN producer' = DOMAIN producer /\ DOMAIN producer = 1 .. Len(producer)
         /\ \A q \in DOMAIN producer : /\ producer'[q].explicit = producer[q].explicit
                                       /\ q # p => producer'[q] = producer[q]
<1>1. producer \in Seq(ProducerRecords)
  BY DEF ProducersInv, ProducersTypes
<1> QED
  BY <1>1

LEMMA CatchStep == ASSUME ProducersInv, NEW t \in Callers, Catch(t) PROVE ProducersInv'
<1> PICK c \in CallerRecords : c = caller[t]
  BY DEF ProducersInv, ProducersTypes
<1> PICK ok : ok = producer[c.p].inactive
  OBVIOUS
<1>1. /\ Steps(t, "catch", IF ok THEN Now(t, "caught") ELSE [Now(t, "walk") EXCEPT !.p = @ - 1])
      /\ producer' = IF ok THEN [producer EXCEPT ![c.p].inactive = FALSE] ELSE producer
      /\ UNCHANGED <<hashVars, producerCount, mine, token>>
  BY Zenon DEF Catch
<1>2. /\ c.pc = "catch" /\ SearchFits(t) /\ KindFits(t) /\ c.explicit
      /\ c.p \in DOMAIN producer /\ producer[c.p].explicit /\ c.p \in Nat
      /\ ~Coming(t)
      /\ (mine[t] # NoProducer => \E n \in DOMAIN table : In(t, n))
  BY <1>1, StepMoves, CallerFields DEF SearchFits, KindFits, AtTables, Coming, Placing
<1>3. producer \in Seq(ProducerRecords) /\ DOMAIN producer = 1 .. Len(producer) /\ Len(producer) \in Nat
  <2>1. producer \in Seq(ProducerRecords)
    BY DEF ProducersInv, ProducersTypes
  <2> QED
    BY <2>1
<1>4. CASE ok
  <2>1. PICK e \in CallerRecords : e = Now(t, "caught") /\ e.pc = "caught" /\ SamePlace(e, c) /\ e.p = c.p
    BY NowIs DEF AtList
  <2>2. /\ caller'[t] = e /\ caller' \in [Callers -> CallerRecords]
        /\ \A s \in Callers \ {t} : caller'[s] = caller[s]
    BY <1>1, <1>4, <2>1, StepMoves
  <2>3. PICK o \in ProducerRecords : o = producer[c.p]
    BY <1>2, <1>3
  <2>4. PICK r \in ProducerRecords : r = [o EXCEPT !.inactive = FALSE] /\ r.explicit /\ ~r.inactive
    <3>1. [o EXCEPT !.inactive = FALSE] \in ProducerRecords
      BY DEF ProducerRecords
    <3> QED
      BY <1>2, <2>3, <3>1 DEF ProducerRecords
  <2>5. producer' = [producer EXCEPT ![c.p] = r]
    BY <1>1, <1>4, <2>3, <2>4, Zenon
  <2>6. /\ producer' \in Seq(ProducerRecords) /\ Len(producer') = Len(producer)
        /\ producer'[c.p] = r /\ DOMAIN producer' = DOMAIN producer
        /\ \A q \in DOMAIN producer : /\ producer'[q].explicit = producer[q].explicit
                                      /\ q # c.p => producer'[q] = producer[q]
    BY <1>2, <2>3, <2>4, <2>5, ProducerChanges
  <2>7. ~Coming(t)' /\ ~Placing(t)'
    BY <2>1, <2>2 DEF Coming, Placing
  <2>8. SearchFits(t)'
    BY <1>1, <1>2, <2>1, <2>2, <2>7, SameTables DEF SearchFits, hashVars, AtTables
  <2>9. KindFits(t)'
    <3>1. /\ token[t] # NoProducer => token[t] \in DOMAIN producer
          /\ mine[t] # NoProducer => mine[t] \in DOMAIN producer
      BY DEF ProducersInv, ProducersTypes, OwnFits, Owned, Has
    <3>2. e.explicit /\ e.p \in DOMAIN producer' /\ producer'[e.p].explicit
      BY <1>2, <2>1, <2>6 DEF SamePlace
    <3>3. token' = token /\ mine' = mine
      BY <1>1
    <3> QED
      BY <1>2, <2>1, <2>2, <2>6, <3>1, <3>2, <3>3 DEF KindFits
  <2>10. LockFits'
    BY <1>1, <2>1, <2>2, LockKept DEF hashVars
  <2>11. ProducersTypes'
    BY <1>1, <2>2, <2>6 DEF ProducersInv, ProducersTypes, hashVars
  <2>12. ASSUME NEW p \in Nat, Has(t, p)'
         PROVE  /\ p \in DOMAIN producer' /\ ~producer'[p].inactive
                /\ \A s \in Callers \ {t} : ~Has(s, p)
    <3>1. CASE p = c.p
      BY <1>2, <1>4, <2>4, <2>6, <3>1 DEF ProducersInv, OwnFits, Owned
    <3>2. CASE p # c.p
      <4>1. Has(t, p)
        BY <1>1, <2>1, <2>2, <2>12, <3>2 DEF Has
      <4>2. Owned(t, p)
        BY DEF ProducersInv, OwnFits
      <4> QED
        BY <2>6, <3>2, <4>1, <4>2 DEF Owned
    <3> QED
      BY <3>1, <3>2
  <2>13. OwnFits'
    <3>1. \A q \in DOMAIN producer : ~producer[q].inactive => ~producer'[q].inactive
      BY <2>4, <2>6
    <3>2. \A q \in DOMAIN producer' : producer'[q].inactive => producer'[q].explicit
      BY <2>4, <2>6 DEF ProducersInv, OwnFits
    <3>3. token' \in [Callers -> Nat] /\ mine' \in [Callers -> Nat] /\ Len(producer) <= Len(producer')
      BY <1>1, <1>3, <2>6 DEF ProducersInv, ProducersTypes
    <3> QED
      BY <1>1, <2>2, <2>6, <2>9, <2>12, <3>1, <3>2, <3>3, OwnMoves
  <2> QED
    BY <1>1, <1>2, <2>2, <2>7, <2>8, <2>10, <2>11, <2>13, OwnerStep DEF hashVars
<1>5. CASE ~ok
  <2>1. PICK q \in CallerRecords : q = Now(t, "walk") /\ q.pc = "walk" /\ SamePlace(q, c) /\ q.p = c.p
    BY NowIs DEF AtList
  <2>2. PICK k \in Nat : k = c.p - 1 /\ k \in 0 .. Len(producer)
    BY <1>2, <1>3
  <2>3. PICK e : e = [q EXCEPT !.p = k]
    OBVIOUS
  <2>4. /\ e \in CallerRecords /\ e.pc = "walk" /\ e.p = k /\ e.explicit = q.explicit
    BY <2>1, <2>3 DEF CallerRecords
  <2>5. Steps(t, "catch", e)
    <3>1. [q EXCEPT !.p = @ - 1] = [q EXCEPT !.p = k]
      BY <2>1, <2>2
    <3> QED
      BY <1>1, <1>5, <2>1, <2>3, <3>1
  <2>6. /\ caller'[t] = e /\ caller' \in [Callers -> CallerRecords]
        /\ \A s \in Callers \ {t} : caller'[s] = caller[s]
    BY <2>4, <2>5, StepMoves
  <2>7. ~Coming(t)' /\ ~Placing(t)'
    BY <1>2, <2>1, <2>4, <2>6 DEF Coming, Placing, SamePlace
  <2>8. SearchFits(t)'
    BY <1>1, <1>2, <2>4, <2>6, <2>7, SameTables DEF SearchFits, hashVars, AtTables
  <2>9. KindFits(t)'
    BY <1>1, <1>2, <1>5, <2>2, <2>4, <2>6 DEF KindFits
  <2>10. LockFits'
    BY <1>1, <2>4, <2>6, LockKept DEF hashVars
  <2>11. producerCount' \in Nat /\ implicitProducerHashResizeInProgress' \in BOOLEAN /\ producer' = producer
    BY <1>1, <1>5 DEF ProducersInv, ProducersTypes, hashVars
  <2> QED
    BY <1>1, <1>2, <2>4, <2>6, <2>7, <2>8, <2>9, <2>10, <2>11, QuietStep DEF hashVars
<1> QED
  BY <1>4, <1>5

LEMMA TokenMadeStep == ASSUME ProducersInv, NEW t \in Callers, TokenMade(t) PROVE ProducersInv'
<1> PICK c \in CallerRecords : c = caller[t]
  BY DEF ProducersInv, ProducersTypes
<1>1. /\ Steps(t, "caught", Away) /\ token' = [token EXCEPT ![t] = c.p]
      /\ producer' = [producer EXCEPT ![c.p].token = t] /\ UNCHANGED <<hashVars, producerCount, mine>>
  BY DEF TokenMade
<1>2. /\ c.pc = "caught" /\ SearchFits(t) /\ KindFits(t) /\ c.explicit
      /\ c.p \in DOMAIN producer /\ producer[c.p].explicit /\ c.p \in Nat
      /\ ~Coming(t)
      /\ (mine[t] # NoProducer => \E n \in DOMAIN table : In(t, n))
  BY <1>1, StepMoves, CallerFields DEF SearchFits, KindFits, AtTables, Coming, Placing
<1>3. producer \in Seq(ProducerRecords) /\ DOMAIN producer = 1 .. Len(producer) /\ Len(producer) \in Nat
  <2>1. producer \in Seq(ProducerRecords)
    BY DEF ProducersInv, ProducersTypes
  <2> QED
    BY <2>1
<1>4. /\ caller'[t] = Away /\ caller' \in [Callers -> CallerRecords]
      /\ \A s \in Callers \ {t} : caller'[s] = caller[s]
  BY <1>1, StepMoves, AwayIs
<1>5. PICK o \in ProducerRecords : o = producer[c.p]
  BY <1>2, <1>3
<1>6. PICK r \in ProducerRecords : r = [o EXCEPT !.token = t] /\ r.explicit = o.explicit
                                   /\ r.inactive = o.inactive
  <2>1. [o EXCEPT !.token = t] \in ProducerRecords
    BY DEF ProducerRecords
  <2> QED
    BY <1>2, <1>5, <2>1 DEF ProducerRecords
<1>7. producer' = [producer EXCEPT ![c.p] = r]
  BY <1>1, <1>5, <1>6, Zenon
<1>8. /\ producer' \in Seq(ProducerRecords) /\ Len(producer') = Len(producer)
      /\ DOMAIN producer' = DOMAIN producer
      /\ \A q \in DOMAIN producer : /\ producer'[q].explicit = producer[q].explicit
                                    /\ producer'[q].inactive = producer[q].inactive
  BY <1>2, <1>5, <1>6, <1>7, ProducerChanges
<1>9. ~Coming(t)' /\ ~Placing(t)'
  BY <1>4, AwayIs DEF Coming, Placing
<1>10. SearchFits(t)'
  BY <1>1, <1>2, <1>4, <1>9, SameTables, AwayIs DEF SearchFits, hashVars, AtTables
<1>11. token' \in [Callers -> Nat] /\ token'[t] = c.p /\ \A s \in Callers \ {t} : token'[s] = token[s]
  BY <1>1, <1>2 DEF ProducersInv, ProducersTypes
<1>12. KindFits(t)'
  <2>1. mine[t] # NoProducer => mine[t] \in DOMAIN producer
    BY DEF ProducersInv, ProducersTypes, OwnFits, Owned, Has
  <2> QED
    BY <1>1, <1>2, <1>4, <1>8, <1>11, <2>1, AwayIs DEF KindFits
<1>13. LockFits'
  BY <1>1, <1>4, LockKept, AwayIs DEF hashVars
<1>14. ProducersTypes'
  BY <1>1, <1>4, <1>8, <1>11 DEF ProducersInv, ProducersTypes, hashVars
<1>15. ASSUME NEW p \in Nat, Has(t, p)'
       PROVE  /\ p \in DOMAIN producer' /\ ~producer'[p].inactive
              /\ \A s \in Callers \ {t} : ~Has(s, p)
  <2>1. Has(t, p)
    BY <1>1, <1>2, <1>4, <1>11, <1>15, AwayIs DEF Has
  <2>2. Owned(t, p)
    BY DEF ProducersInv, OwnFits
  <2> QED
    BY <1>8, <2>1, <2>2 DEF Owned
<1>16. OwnFits'
  <2>1. \A q \in DOMAIN producer' : producer'[q].inactive => producer'[q].explicit
    BY <1>8 DEF ProducersInv, OwnFits
  <2>2. mine' \in [Callers -> Nat] /\ Len(producer) <= Len(producer')
    BY <1>1, <1>3, <1>8 DEF ProducersInv, ProducersTypes
  <2> QED
    BY <1>1, <1>4, <1>8, <1>11, <1>12, <1>15, <2>1, <2>2, OwnMoves
<1> QED
  BY <1>1, <1>2, <1>4, <1>9, <1>10, <1>13, <1>14, <1>16, OwnerStep DEF hashVars

LEMMA UnlinkStep == ASSUME ProducersInv, NEW t \in Callers, Unlink(t) PROVE ProducersInv'
<1> PICK c \in CallerRecords : c = caller[t]
  BY DEF ProducersInv, ProducersTypes
<1> PICK k : k = token[t]
  OBVIOUS
<1>1. /\ k # NoProducer /\ Steps(t, "idle", Now(t, "leave"))
      /\ producer' = [producer EXCEPT ![k].token = NoProducer]
      /\ UNCHANGED <<hashVars, producerCount, mine, token>>
  BY DEF Unlink
<1>2. /\ c.pc = "idle" /\ SearchFits(t) /\ KindFits(t)
      /\ ~Coming(t)
      /\ (mine[t] # NoProducer => \E n \in DOMAIN table : In(t, n))
  BY <1>1, StepMoves DEF SearchFits, AtTables, Coming, Placing
<1>3. k \in DOMAIN producer /\ k \in Nat
  BY <1>1 DEF ProducersInv, ProducersTypes, OwnFits, Owned, Has
<1>4. producer \in Seq(ProducerRecords) /\ Len(producer) \in Nat
  BY DEF ProducersInv, ProducersTypes
<1>5. PICK e \in CallerRecords : e = Now(t, "leave") /\ e.pc = "leave"
  BY NowIs
<1>6. /\ caller'[t] = e /\ caller' \in [Callers -> CallerRecords]
      /\ \A s \in Callers \ {t} : caller'[s] = caller[s]
  BY <1>1, <1>5, StepMoves
<1>7. PICK o \in ProducerRecords : o = producer[k]
  BY <1>3, <1>4
<1>8. PICK r \in ProducerRecords : r = [o EXCEPT !.token = NoProducer] /\ r.explicit = o.explicit
                                   /\ r.inactive = o.inactive
  <2>1. [o EXCEPT !.token = NoProducer] \in ProducerRecords
    BY DEF ProducerRecords
  <2> QED
    BY <2>1 DEF ProducerRecords
<1>9. producer' = [producer EXCEPT ![k] = r]
  BY <1>1, <1>7, <1>8, Zenon
<1>10. /\ producer' \in Seq(ProducerRecords) /\ Len(producer') = Len(producer)
       /\ DOMAIN producer' = DOMAIN producer
       /\ \A q \in DOMAIN producer : /\ producer'[q].explicit = producer[q].explicit
                                     /\ producer'[q].inactive = producer[q].inactive
  BY <1>3, <1>7, <1>8, <1>9, ProducerChanges
<1>11. ~Coming(t)' /\ ~Placing(t)'
  BY <1>5, <1>6 DEF Coming, Placing
<1>12. SearchFits(t)'
  BY <1>1, <1>2, <1>5, <1>6, <1>11, SameTables DEF SearchFits, hashVars, AtTables
<1>13. KindFits(t)'
  <2>1. mine[t] # NoProducer => mine[t] \in DOMAIN producer
    BY DEF ProducersInv, ProducersTypes, OwnFits, Owned, Has
  <2> QED
    <3>1. token' = token /\ mine' = mine /\ producer'[k].explicit = producer[k].explicit
      BY <1>1, <1>3, <1>10
    <3>2. producer[k].explicit /\ (mine[t] # NoProducer => ~producer[mine[t]].explicit)
      BY <1>1, <1>2 DEF KindFits
    <3>3. mine[t] # NoProducer => ~producer'[mine[t]].explicit
      BY <1>10, <2>1, <3>2
    <3> QED
      BY <1>1, <1>5, <1>6, <3>1, <3>2, <3>3 DEF KindFits
<1>14. LockFits'
  BY <1>1, <1>5, <1>6, LockKept DEF hashVars
<1>15. ProducersTypes'
  BY <1>1, <1>6, <1>10 DEF ProducersInv, ProducersTypes, hashVars
<1>16. ASSUME NEW p \in Nat, Has(t, p)'
       PROVE  /\ p \in DOMAIN producer' /\ ~producer'[p].inactive
              /\ \A s \in Callers \ {t} : ~Has(s, p)
  <2>1. Has(t, p)
    BY <1>1, <1>5, <1>6, <1>16 DEF Has
  <2>2. Owned(t, p)
    BY DEF ProducersInv, OwnFits
  <2> QED
    BY <1>10, <2>1, <2>2 DEF Owned
<1>17. OwnFits'
  <2>1. \A q \in DOMAIN producer' : producer'[q].inactive => producer'[q].explicit
    BY <1>10 DEF ProducersInv, OwnFits
  <2>2. /\ mine' \in [Callers -> Nat] /\ token' \in [Callers -> Nat] /\ Len(producer) <= Len(producer')
    BY <1>1, <1>4, <1>10 DEF ProducersInv, ProducersTypes
  <2> QED
    BY <1>1, <1>6, <1>10, <1>13, <1>16, <2>1, <2>2, OwnMoves
<1> QED
  BY <1>1, <1>2, <1>6, <1>11, <1>12, <1>14, <1>15, <1>17, OwnerStep DEF hashVars

LEMMA LeaveStep == ASSUME ProducersInv, NEW t \in Callers, Leave(t) PROVE ProducersInv'
<1> PICK c \in CallerRecords : c = caller[t]
  BY DEF ProducersInv, ProducersTypes
<1> PICK k : k = token[t]
  OBVIOUS
<1>1. /\ Steps(t, "leave", Away) /\ token' = [token EXCEPT ![t] = NoProducer]
      /\ producer' = [producer EXCEPT ![k].inactive = TRUE] /\ UNCHANGED <<hashVars, producerCount, mine>>
  BY DEF Leave
<1>2. /\ c.pc = "leave" /\ SearchFits(t) /\ KindFits(t) /\ k # NoProducer
      /\ ~Coming(t) /\ producer[k].explicit
      /\ (mine[t] # NoProducer => \E n \in DOMAIN table : In(t, n))
  BY <1>1, StepMoves DEF SearchFits, KindFits, AtTables, Coming, Placing
<1>3. k \in DOMAIN producer /\ k \in Nat /\ Has(t, k)
  BY <1>2 DEF ProducersInv, ProducersTypes, OwnFits, Owned, Has
<1>4. producer \in Seq(ProducerRecords) /\ Len(producer) \in Nat
  BY DEF ProducersInv, ProducersTypes
<1>5. /\ caller'[t] = Away /\ caller' \in [Callers -> CallerRecords]
      /\ \A s \in Callers \ {t} : caller'[s] = caller[s]
  BY <1>1, StepMoves, AwayIs
<1>6. PICK o \in ProducerRecords : o = producer[k]
  BY <1>3, <1>4
<1>7. PICK r \in ProducerRecords : r = [o EXCEPT !.inactive = TRUE] /\ r.explicit /\ r.explicit = o.explicit
  <2>1. [o EXCEPT !.inactive = TRUE] \in ProducerRecords
    BY DEF ProducerRecords
  <2> QED
    BY <1>2, <1>6, <2>1 DEF ProducerRecords
<1>8. producer' = [producer EXCEPT ![k] = r]
  BY <1>1, <1>6, <1>7, Zenon
<1>9. /\ producer' \in Seq(ProducerRecords) /\ Len(producer') = Len(producer) /\ producer'[k] = r
      /\ DOMAIN producer' = DOMAIN producer
      /\ \A q \in DOMAIN producer : /\ producer'[q].explicit = producer[q].explicit
                                    /\ q # k => producer'[q] = producer[q]
  BY <1>3, <1>6, <1>7, <1>8, ProducerChanges
<1>10. ~Coming(t)' /\ ~Placing(t)'
  BY <1>5, AwayIs DEF Coming, Placing
<1>11. SearchFits(t)'
  BY <1>1, <1>2, <1>5, <1>10, SameTables, AwayIs DEF SearchFits, hashVars, AtTables
<1>12. token' \in [Callers -> Nat] /\ token'[t] = NoProducer /\ \A s \in Callers \ {t} : token'[s] = token[s]
  BY <1>1 DEF ProducersInv, ProducersTypes, NoProducer
<1>13. mine[t] # NoProducer => mine[t] \in DOMAIN producer /\ mine[t] # k
  <2>1. mine[t] # NoProducer => mine[t] \in DOMAIN producer
    BY DEF ProducersInv, ProducersTypes, OwnFits, Owned, Has
  <2> QED
    BY <1>2, <2>1 DEF KindFits
<1>14. KindFits(t)'
  BY <1>1, <1>2, <1>5, <1>9, <1>12, <1>13, AwayIs DEF KindFits
<1>15. LockFits'
  BY <1>1, <1>5, LockKept, AwayIs DEF hashVars
<1>16. ProducersTypes'
  BY <1>1, <1>5, <1>9, <1>12 DEF ProducersInv, ProducersTypes, hashVars
<1>17. ASSUME NEW p \in Nat, Has(t, p)'
       PROVE  /\ p \in DOMAIN producer' /\ ~producer'[p].inactive
              /\ \A s \in Callers \ {t} : ~Has(s, p)
  <2>1. p = mine[t] /\ p # NoProducer
    BY <1>1, <1>5, <1>12, <1>17, AwayIs DEF Has
  <2>2. Owned(t, p) /\ Has(t, p)
    BY <2>1 DEF ProducersInv, OwnFits, Has
  <2> QED
    BY <1>9, <1>13, <2>1, <2>2 DEF Owned
<1>18. OwnFits'
  <2>1. \A q \in DOMAIN producer' : producer'[q].inactive => producer'[q].explicit
    BY <1>7, <1>9 DEF ProducersInv, OwnFits
  <2>2. mine' \in [Callers -> Nat] /\ Len(producer) <= Len(producer')
    BY <1>1, <1>4, <1>9 DEF ProducersInv, ProducersTypes
  <2>3. \A q \in DOMAIN producer : ~producer[q].inactive => ~producer'[q].inactive \/ Has(t, q)
    BY <1>3, <1>9
  <2> QED
    BY <1>1, <1>5, <1>9, <1>12, <1>14, <1>17, <2>1, <2>2, <2>3, OwnMoves
<1> QED
  BY <1>1, <1>2, <1>5, <1>10, <1>11, <1>15, <1>16, <1>18, OwnerStep DEF hashVars

LEMMA LinkProducerStep == ASSUME ProducersInv, NEW t \in Callers, LinkProducer(t) PROVE ProducersInv'
<1> PICK c \in CallerRecords : c = caller[t]
  BY DEF ProducersInv, ProducersTypes
<1>0. PICK k \in Nat : k = Len(producer) + 1 /\ DOMAIN producer = 1 .. k - 1 /\ k - 1 \in Nat
                       /\ Len(producer) = k - 1
  <2>1. producer \in Seq(ProducerRecords)
    BY DEF ProducersInv, ProducersTypes
  <2>2. Len(producer) \in Nat /\ DOMAIN producer = 1 .. Len(producer)
    BY <2>1
  <2> QED
    BY <2>2
<1> DEFINE r == [explicit |-> c.explicit, inactive |-> FALSE, token |-> NoProducer]
<1>1. /\ Steps(t, "push", [Now(t, IF c.explicit THEN "caught" ELSE "insert") EXCEPT !.p = k])
      /\ producer' = Append(producer, r) /\ UNCHANGED <<hashVars, producerCount, mine, token>>
  BY <1>0 DEF LinkProducer
<1>2. /\ c.pc = "push" /\ SearchFits(t) /\ KindFits(t) /\ c.explicit \in BOOLEAN
      /\ (Coming(t) <=> ~c.explicit) /\ (Placing(t) <=> ~c.explicit)
      /\ (~c.explicit => c.at = 1 /\ c.main \in DOMAIN table /\ NotFrom(t, 1))
      /\ (mine[t] # NoProducer => \E n \in DOMAIN table : In(t, n))
  BY <1>1, StepMoves, CallerFields DEF SearchFits, KindFits, AtTables, Coming, Placing
<1>3. PICK e \in CallerRecords : /\ e = [Now(t, IF c.explicit THEN "caught" ELSE "insert") EXCEPT !.p = k]
                                 /\ e.pc = (IF c.explicit THEN "caught" ELSE "insert") /\ e.p = k
                                 /\ SamePlace(e, c)
  <2>1. PICK pc \in AtTables \cup AtList : pc = IF c.explicit THEN "caught" ELSE "insert"
    BY DEF AtTables, AtList
  <2>2. PICK q \in CallerRecords : q = Now(t, pc) /\ q.pc = pc /\ SamePlace(q, c)
    BY NowIs
  <2>3. PICK e : e = [q EXCEPT !.p = k]
    OBVIOUS
  <2>4. e \in CallerRecords /\ e.pc = q.pc /\ e.p = k /\ SamePlace(e, q)
    BY <2>2, <2>3 DEF CallerRecords, SamePlace
  <2> QED
    <3>1. SamePlace(e, c)
      BY <2>2, <2>4 DEF SamePlace
    <3>2. e = [Now(t, pc) EXCEPT !.p = k] /\ e.pc = pc
      BY <2>2, <2>3, <2>4
    <3> QED
      BY <2>1, <2>4, <3>1, <3>2
<1>4. /\ caller'[t] = e /\ caller' \in [Callers -> CallerRecords]
      /\ \A s \in Callers \ {t} : caller'[s] = caller[s]
  BY <1>1, <1>3, StepMoves
<1>5. r \in ProducerRecords /\ r.explicit = c.explicit /\ ~r.inactive
  BY <1>2 DEF ProducerRecords
<1> HIDE DEF r
<1>6. /\ producer' \in Seq(ProducerRecords) /\ Len(producer') = k /\ producer'[k] = r
      /\ DOMAIN producer' = 1 .. k
      /\ \A q \in DOMAIN producer : producer'[q] = producer[q]
  <2>1. producer \in Seq(ProducerRecords)
    BY DEF ProducersInv, ProducersTypes
  <2> QED
    BY <1>0, <1>1, <1>5, <2>1, AppendProperties
<1>7. (Coming(t)' <=> ~c.explicit) /\ (Placing(t)' <=> ~c.explicit)
  BY <1>2, <1>3, <1>4 DEF Coming, Placing, SamePlace
<1>8. k # NoProducer
  BY <1>0 DEF NoProducer
<1>9. SearchFits(t)'
  <2>1. ~c.explicit => NotFrom(t, c.main)
    BY <1>2, MainIs DEF NotFrom
  <2>2. mine' = mine /\ table' = table /\ hashOf' = hashOf
    BY <1>1 DEF hashVars
  <2> QED
    BY <1>2, <1>3, <1>4, <1>7, <1>8, <2>1, <2>2, SameTables DEF SearchFits, SamePlace, AtTables
<1>10. KindFits(t)'
  <2>1. /\ token[t] # NoProducer => token[t] \in DOMAIN producer
        /\ mine[t] # NoProducer => mine[t] \in DOMAIN producer
    BY DEF ProducersInv, ProducersTypes, OwnFits, Owned, Has
  <2>2. k \in DOMAIN producer' /\ producer'[k].explicit = c.explicit
    BY <1>0, <1>5, <1>6, <1>8 DEF NoProducer
  <2>3. token' = token /\ mine' = mine
    BY <1>1
  <2> QED
    BY <1>2, <1>3, <1>4, <1>6, <2>1, <2>2, <2>3 DEF KindFits, SamePlace
<1>11. LockFits'
  BY <1>1, <1>2, <1>3, <1>4, LockKept DEF hashVars
<1>12. ProducersTypes'
  BY <1>1, <1>4, <1>6 DEF ProducersInv, ProducersTypes, hashVars
<1>13. ASSUME NEW p \in Nat, Has(t, p)'
       PROVE  /\ p \in DOMAIN producer' /\ ~producer'[p].inactive
              /\ \A s \in Callers \ {t} : ~Has(s, p)
  <2>0. \A s \in Callers : Owned(s, p)
    BY DEF ProducersInv, OwnFits
  <2>1. CASE p = k
    <3>1. p \notin DOMAIN producer /\ p \in DOMAIN producer'
      BY <1>0, <1>6, <1>8, <2>1 DEF NoProducer
    <3> QED
      BY <1>5, <1>6, <2>0, <2>1, <3>1 DEF Owned
  <2>2. CASE p # k
    <3>1. Has(t, p)
      BY <1>1, <1>3, <1>4, <1>13, <2>2 DEF Has
    <3>2. p \in DOMAIN producer /\ ~producer[p].inactive /\ \A s \in Callers : Has(s, p) => s = t
      BY <2>0, <3>1 DEF Owned
    <3> QED
      BY <1>0, <1>6, <3>2
  <2> QED
    BY <2>1, <2>2
<1>14. OwnFits'
  <2>1. \A q \in DOMAIN producer' : producer'[q].inactive => producer'[q].explicit
    <3>1. \A q \in DOMAIN producer' : q = k \/ q \in DOMAIN producer
      BY <1>0, <1>6
    <3> QED
      BY <1>5, <1>6, <3>1 DEF ProducersInv, OwnFits
  <2>2. /\ mine' \in [Callers -> Nat] /\ token' \in [Callers -> Nat] /\ Len(producer) <= Len(producer')
    BY <1>0, <1>1, <1>6 DEF ProducersInv, ProducersTypes
  <2> QED
    BY <1>1, <1>4, <1>6, <1>10, <1>13, <2>1, <2>2, OwnMoves
<1>15. Placing(t)' => e.count < Room(e.main)
  BY <1>2, <1>3, <1>7 DEF ProducersInv, CountFits, SamePlace
<1> QED
  BY <1>1, <1>2, <1>3, <1>4, <1>7, <1>9, <1>11, <1>12, <1>14, <1>15, OwnerStep DEF hashVars, SamePlace

-----------------------------------------------------------------------------
(* The steps that change who is counted.                                   *)

LEMMA CallersAre == IsFiniteSet(Callers) /\ Cardinality(Callers) \in Nat
BY ProducersAssumption, FS_CardinalityType DEF ProducersAssumption

LEMMA CountedIs ==
  /\ IsFiniteSet(Counted) /\ Cardinality(Counted) \in Nat /\ Counted \subseteq Callers
  /\ \A c, b : UpTo(c, b) \subseteq Counted /\ IsFiniteSet(UpTo(c, b)) /\ Cardinality(UpTo(c, b)) \in Nat
<1>1. Counted \subseteq Callers /\ \A c, b : UpTo(c, b) \subseteq Counted
  BY DEF Counted, UpTo
<1>2. IsFiniteSet(Counted) /\ Cardinality(Counted) \in Nat
  BY <1>1, CallersAre, FS_Subset, FS_CardinalityType
<1> QED
  BY <1>1, <1>2, FS_Subset, FS_CardinalityType

\* A thread that is counted once more is one of those that were not.
LEMMA CountedUp ==
  ASSUME NEW t \in Callers \ Counted
  PROVE  Cardinality(Counted) + 1 \in 0 .. Cardinality(Callers)
<1>1. Counted \cup {t} \subseteq Callers /\ Cardinality(Counted \cup {t}) = Cardinality(Counted) + 1
  BY CountedIs, FS_AddElement
<1>2. Cardinality(Counted \cup {t}) <= Cardinality(Callers)
  BY <1>1, CallersAre, FS_Subset
<1> QED
  BY <1>1, <1>2, CallersAre, CountedIs

LEMMA CountStep == ASSUME ProducersInv, NEW t \in Callers, Count(t) PROVE ProducersInv'
<1> PICK c \in CallerRecords : c = caller[t]
  BY DEF ProducersInv, ProducersTypes
<1> PICK k : k = implicitProducerHashCount + 1
  OBVIOUS
<1>1. /\ Steps(t, "count", [Now(t, "size") EXCEPT !.count = k]) /\ implicitProducerHashCount' = k
      /\ UNCHANGED <<implicitProducerHashResizeInProgress, table, hashOf, listVars, mine, token>>
  BY DEF Count
<1>2. /\ c.pc = "count" /\ SearchFits(t) /\ KindFits(t) /\ ~c.explicit /\ ~Coming(t)
      /\ c.at = 1 /\ c.main \in DOMAIN table /\ NotFrom(t, 1)
      /\ (mine[t] # NoProducer => \E n \in DOMAIN table : In(t, n))
  BY <1>1, StepMoves DEF SearchFits, KindFits, AtTables, Coming, Placing
<1>3. t \in Callers \ Counted
  BY <1>2, MainIs DEF Counted, NotFrom
<1>4. k = Cardinality(Counted) + 1 /\ k \in 0 .. Cardinality(Callers) /\ k \in Nat
  BY <1>3, CountedUp, CallersAre DEF ProducersInv, CountFits
<1>5. PICK e \in CallerRecords : /\ caller'[t] = e /\ e.pc = "size" /\ e.count = k
                                 /\ e.at = c.at /\ e.main = c.main /\ e.explicit = c.explicit
  <2>1. PICK q \in CallerRecords : q = Now(t, "size") /\ q.pc = "size" /\ SamePlace(q, c)
    BY NowIs DEF AtTables
  <2>2. PICK e : e = [q EXCEPT !.count = k]
    OBVIOUS
  <2>3. e \in CallerRecords /\ e.pc = q.pc /\ e.count = k /\ e.at = q.at /\ e.main = q.main
        /\ e.explicit = q.explicit
    BY <1>4, <2>2 DEF CallerRecords
  <2>4. caller'[t] = e
    BY <1>1, <2>1, <2>2, StepMoves
  <2> QED
    BY <2>1, <2>3, <2>4 DEF SamePlace
<1>6. /\ caller' \in [Callers -> CallerRecords]
      /\ \A s \in Callers \ {t} : caller'[s] = caller[s]
  BY <1>1, <1>5, StepMoves
<1>7. Coming(t)' /\ ~Placing(t)'
  BY <1>5 DEF Coming, Placing
<1>8. SearchFits(t)'
  BY <1>1, <1>2, <1>5, <1>7, SameTables DEF SearchFits
<1>9. KindFits(t)'
  BY <1>1, <1>2, <1>5 DEF KindFits, listVars
<1>10. LockFits'
  BY <1>1, <1>5, <1>6, LockKept
<1>11. ProducersTypes'
  BY <1>1, <1>6 DEF ProducersInv, ProducersTypes, listVars
<1>12. TablesFit' /\ \A s \in Callers \ {t} : SearchFits(s)'
  BY <1>1, <1>6, TablesStay
<1>13. OwnFits'
  BY <1>1, <1>5, <1>6, <1>9, OwnKept DEF listVars
<1>14. CountFits'
  <2>1. \A n : Room(n)' = Room(n) /\ \A s : In(s, n)' <=> In(s, n)
    BY <1>1, SameTables
  <2>2. \A s \in Callers \ {t} : (Coming(s)' <=> Coming(s)) /\ (Placing(s)' <=> Placing(s))
    BY <1>6 DEF Coming, Placing
  <2>3. Counted' = Counted \cup {t}
    BY <1>1, <1>7, <2>1, <2>2 DEF Counted
  <2>4. implicitProducerHashCount' = Cardinality(Counted')
    BY <1>1, <1>3, <1>4, <2>3, CountedIs, FS_AddElement
  <2>5. \A s \in Callers : Placing(s)' => caller'[s].count < Room(caller[s].main)'
    BY <1>6, <1>7, <2>1, <2>2 DEF ProducersInv, CountFits
  <2>6. PICK d \in [Callers -> 0 .. Cardinality(Callers)] :
          /\ \A s \in Callers : /\ Coming(s) => d[s] = caller[s].count
                                /\ \A n \in DOMAIN table : In(s, n) => d[s] < Room(n)
          /\ \A b \in 0 .. Cardinality(Callers) : Cardinality(UpTo(d, b)) <= b
    BY DEF ProducersInv, CountFits
  <2>7. PICK f \in [Callers -> 0 .. Cardinality(Callers)] :
          f[t] = k /\ \A s \in Callers \ {t} : f[s] = d[s]
    <3>1. [d EXCEPT ![t] = k] \in [Callers -> 0 .. Cardinality(Callers)]
      BY <1>4
    <3> QED
      BY <3>1
  <2>8. ASSUME NEW s \in Callers
        PROVE  /\ Coming(s)' => f[s] = caller'[s].count
               /\ \A n \in DOMAIN table' : In(s, n)' => f[s] < Room(n)'
    <3>1. CASE s = t
      <4>1. \A n \in DOMAIN table : ~In(t, n)
        BY <1>2, MainIs DEF NotFrom
      <4> QED
        BY <1>1, <1>5, <2>1, <2>7, <3>1, <4>1
    <3>2. CASE s # t
      BY <1>1, <1>6, <2>1, <2>2, <2>6, <2>7, <3>2
    <3> QED
      BY <3>1, <3>2
  <2>9. ASSUME NEW b \in 0 .. Cardinality(Callers) PROVE Cardinality(UpTo(f, b)') <= b
    <3>1. UpTo(f, b)' = {s \in Counted \cup {t} : f[s] <= b}
      BY <2>3 DEF UpTo
    <3>2. CASE k <= b
      <4>1. UpTo(f, b)' \subseteq Counted \cup {t}
        BY <3>1
      <4>2. IsFiniteSet(Counted \cup {t}) /\ Cardinality(Counted \cup {t}) = k
        BY <1>3, <1>4, CountedIs, FS_AddElement
      <4>3. Cardinality(UpTo(f, b)') <= k /\ Cardinality(UpTo(f, b)') \in Nat
        BY <4>1, <4>2, FS_Subset, FS_CardinalityType
      <4> QED
        BY <1>4, <3>2, <4>3, CallersAre
    <3>3. CASE ~(k <= b)
      <4>1. UpTo(f, b)' = UpTo(d, b)
        BY <1>3, <2>7, <3>1, <3>3, CountedIs DEF UpTo
      <4> QED
        BY <2>6, <4>1
    <3> QED
      BY <3>2, <3>3
  <2> QED
    BY <2>4, <2>5, <2>8, <2>9 DEF CountFits
<1> QED
  BY <1>8, <1>10, <1>11, <1>12, <1>13, <1>14 DEF ProducersInv

\* A call that fails takes its thread from the count again.
LEMMA CountDown ==
  ASSUME ProducersInv, NEW t \in Callers, Coming(t), ~Coming(t)', ~Placing(t)', UNCHANGED <<table, hashOf>>,
         \A s \in Callers \ {t} : caller'[s] = caller[s],
         implicitProducerHashCount' = implicitProducerHashCount - 1
  PROVE  CountFits'
<1>0. \A n \in DOMAIN table : ~In(t, n)
  BY MainIs DEF ProducersInv, SearchFits, NotFrom
<1>1. \A n : Room(n)' = Room(n) /\ \A s : In(s, n)' <=> In(s, n)
  BY SameTables
<1>2. \A s \in Callers \ {t} : (Coming(s)' <=> Coming(s)) /\ (Placing(s)' <=> Placing(s))
  BY DEF Coming, Placing
<1>3. Counted' = Counted \ {t} /\ t \in Counted
  BY <1>0, <1>1, <1>2 DEF Counted
<1>4. implicitProducerHashCount' = Cardinality(Counted')
  BY <1>3, CountedIs, FS_RemoveElement DEF ProducersInv, CountFits
<1>5. \A s \in Callers : Placing(s)' => caller'[s].count < Room(caller[s].main)'
  BY <1>1, <1>2 DEF ProducersInv, CountFits
<1>6. PICK d \in [Callers -> 0 .. Cardinality(Callers)] :
        /\ \A s \in Callers : /\ Coming(s) => d[s] = caller[s].count
                              /\ \A n \in DOMAIN table : In(s, n) => d[s] < Room(n)
        /\ \A b \in 0 .. Cardinality(Callers) : Cardinality(UpTo(d, b)) <= b
  BY DEF ProducersInv, CountFits
<1>7. ASSUME NEW s \in Callers
      PROVE  /\ Coming(s)' => d[s] = caller'[s].count
             /\ \A n \in DOMAIN table' : In(s, n)' => d[s] < Room(n)'
  BY <1>1, <1>2, <1>6
<1>8. ASSUME NEW b \in 0 .. Cardinality(Callers) PROVE Cardinality(UpTo(d, b)') <= b
  <2>1. UpTo(d, b)' \subseteq UpTo(d, b)
    BY <1>3 DEF UpTo
  <2>2. Cardinality(UpTo(d, b)') <= Cardinality(UpTo(d, b)) /\ Cardinality(UpTo(d, b)') \in Nat
    BY <2>1, CountedIs, FS_Subset, FS_CardinalityType
  <2> QED
    BY <1>6, <2>2, CountedIs, CallersAre
<1> QED
  BY <1>4, <1>5, <1>6, <1>7, <1>8 DEF CountFits

\* A step that takes its thread from the count, and leaves all else.
LEMMA GivesUp ==
  ASSUME ProducersInv, NEW t \in Callers, Coming(t), ~Coming(t)', ~Placing(t)',
         caller' \in [Callers -> CallerRecords], \A s \in Callers \ {t} : caller'[s] = caller[s],
         UNCHANGED <<table, hashOf, mine, token, producer, implicitProducerHashResizeInProgress>>,
         producerCount' \in Nat, implicitProducerHashCount' = implicitProducerHashCount - 1,
         caller'[t].pc \in {"idle", "clear"}, ~caller'[t].explicit,
         caller'[t].pc = "clear" => caller[t].pc = "grow"
  PROVE  ProducersInv'
<1>0. SearchFits(t) /\ KindFits(t)
  BY DEF ProducersInv, OwnFits
<1>1. ProducersTypes'
  BY DEF ProducersInv, ProducersTypes
<1>2. TablesFit' /\ \A s \in Callers \ {t} : SearchFits(s)'
  BY TablesStay
<1>3. SearchFits(t)'
  <2>1. mine[t] # NoProducer => \E n \in DOMAIN table : In(t, n)
    BY <1>0 DEF SearchFits
  <2> QED
    BY <2>1, SameTables DEF SearchFits
<1>4. LockFits'
  BY LockKept
<1>5. OwnFits'
  <2>1. KindFits(t)'
    BY <1>0 DEF KindFits
  <2> QED
    BY <2>1, OwnKept
<1> QED
  BY <1>1, <1>2, <1>3, <1>4, <1>5, CountDown DEF ProducersInv

LEMMA MakeFailsStep == ASSUME ProducersInv, NEW t \in Callers, MakeFails(t) PROVE ProducersInv'
<1> PICK c \in CallerRecords : c = caller[t]
  BY DEF ProducersInv, ProducersTypes
<1>1. /\ Steps(t, "create", Away)
      /\ implicitProducerHashCount' = implicitProducerHashCount - (IF c.explicit THEN 0 ELSE 1)
      /\ UNCHANGED <<implicitProducerHashResizeInProgress, table, hashOf, listVars, mine, token>>
  BY DEF MakeFails
<1>2. /\ c.pc = "create" /\ SearchFits(t) /\ KindFits(t) /\ (Coming(t) <=> ~c.explicit)
      /\ (mine[t] # NoProducer => \E n \in DOMAIN table : In(t, n))
      /\ (c.explicit \in BOOLEAN)
  BY <1>1, StepMoves, CallerFields DEF SearchFits, Coming, Placing
<1>3. PICK e \in CallerRecords : e = Away /\ e.pc = "idle" /\ ~e.explicit
  BY AwayIs
<1>4. /\ caller'[t] = e /\ caller' \in [Callers -> CallerRecords]
      /\ \A s \in Callers \ {t} : caller'[s] = caller[s]
  BY <1>1, <1>3, StepMoves
<1>5. ~Coming(t)' /\ ~Placing(t)'
  BY <1>3, <1>4 DEF Coming, Placing
<1>6. CASE c.explicit
  <2>1. implicitProducerHashCount' = implicitProducerHashCount
    <3>1. implicitProducerHashCount \in Nat
      BY CountedIs DEF ProducersInv, CountFits
    <3> QED
      BY <1>1, <1>6, <3>1
  <2>2. SearchFits(t)'
    BY <1>1, <1>2, <1>3, <1>4, <1>5, SameTables DEF SearchFits
  <2>3. KindFits(t)'
    BY <1>1, <1>2, <1>3, <1>4 DEF KindFits, listVars
  <2>4. LockFits'
    BY <1>1, <1>2, <1>3, <1>4, LockKept
  <2>5. producerCount' \in Nat /\ implicitProducerHashResizeInProgress' \in BOOLEAN
    BY <1>1 DEF ProducersInv, ProducersTypes, listVars
  <2> QED
    BY <1>1, <1>2, <1>3, <1>4, <1>5, <1>6, <2>1, <2>2, <2>3, <2>4, <2>5, QuietStep DEF listVars
<1>7. CASE ~c.explicit
  <2>1. producerCount' \in Nat
    BY <1>1 DEF ProducersInv, ProducersTypes, listVars
  <2> QED
    BY <1>1, <1>2, <1>3, <1>4, <1>5, <1>7, <2>1, GivesUp DEF listVars
<1> QED
  BY <1>2, <1>6, <1>7

LEMMA GrowFailsStep == ASSUME ProducersInv, NEW t \in Callers, GrowFails(t) PROVE ProducersInv'
<1> PICK e : e = [Away EXCEPT !.pc = "clear"]
  OBVIOUS
<1>1. /\ Steps(t, "grow", e)
      /\ implicitProducerHashCount' = implicitProducerHashCount - 1
      /\ UNCHANGED <<implicitProducerHashResizeInProgress, table, hashOf, listVars, mine, token>>
  BY DEF GrowFails
<1>2. caller[t].pc = "grow" /\ Coming(t)
  BY <1>1, StepMoves DEF Coming
<1>3. e \in CallerRecords /\ e.pc = "clear" /\ e.main = 0 /\ ~e.explicit
  BY AwayIs DEF CallerRecords, AtTables
<1>4. /\ caller'[t] = e /\ caller' \in [Callers -> CallerRecords]
      /\ \A s \in Callers \ {t} : caller'[s] = caller[s]
  BY <1>1, <1>3, StepMoves
<1>5. ~Coming(t)' /\ ~Placing(t)'
  BY <1>3, <1>4 DEF Coming, Placing
<1>6. producerCount' \in Nat
  BY <1>1 DEF ProducersInv, ProducersTypes, listVars
<1> QED
  BY <1>1, <1>2, <1>3, <1>4, <1>5, <1>6, GivesUp DEF listVars

\* The new table is less than half full with those counted, and no smaller.
LEMMA CapacityGrows ==
  ASSUME ProducersInv, NEW t \in Callers, caller[t].main \in DOMAIN table
  PROVE  NewCapacity(t) \in Nat \ {0} /\ NewCapacity(t) >= Width(caller[t].main)
<1> PICK c \in CallerRecords : c = caller[t]
  BY DEF ProducersInv, ProducersTypes
<1>1. PICK w \in Nat \ {0} : w = Capacity(t) /\ w = Width(c.main)
  BY TablesAre DEF ProducersInv, Capacity, Width
<1>2. PICK k \in Nat : k = c.count /\ k <= Cardinality(Callers)
  BY CallerFields, CallersAre
<1>3. \A j \in 1 .. k + 1 : 2^j \in Nat /\ 2^j >= 2 * j
  <2> TAKE j \in 1 .. k + 1
  <2>1. j \in 1 .. Cardinality(Callers) + 1
    BY <1>2, CallersAre
  <2>2. \A i \in 1 .. Cardinality(Callers) + 1 : 2^i \in Nat /\ 2^i >= 2 * i
    BY ProducersAssumption, Zenon DEF ProducersAssumption
  <2> QED
    BY <2>1, <2>2, Zenon
<1> DEFINE C == {w * 2^j : j \in 1 .. k + 1}
           T == {b \in C : k < b \div 2}
<1>4. \A b \in C : b \in Nat \ {0} /\ b >= w
  <2> TAKE b \in C
  <2>1. PICK j \in 1 .. k + 1 : b = w * 2^j
    OBVIOUS
  <2>2. PICK m \in Nat : m = 2^j /\ m >= 2
    BY <1>3
  <2>3. b = w * m
    BY <2>1, <2>2
  <2>4. w * m >= w
    BY <2>2
  <2> QED
    BY <2>3, <2>4
<1>5. w * 2^(k + 1) \in T
  <2>1. PICK m \in Nat : m = 2^(k + 1) /\ m >= 2 * (k + 1)
    BY <1>3
  <2>2. w * m >= m /\ w * m \in Nat
    BY <2>1
  <2>3. k < (w * m) \div 2
    BY <2>1, <2>2
  <2>4. w * 2^(k + 1) = w * m /\ k + 1 \in 1 .. k + 1
    BY <2>1
  <2>5. w * 2^(k + 1) \in C
    BY <2>4
  <2> QED
    BY <2>3, <2>4, <2>5
<1>6. PICK c0 \in T : \A b \in T : c0 <= b
  <2>1. T \in SUBSET Nat /\ T # {}
    BY <1>4, <1>5
  <2> HIDE DEF T
  <2> QED
    BY <2>1, LeastNumber
<1>7. NewCapacity(t) = CHOOSE n \in C : k < n \div 2 /\ \A b \in C : k < b \div 2 => n <= b
  BY <1>1, <1>2 DEF NewCapacity
<1>8. NewCapacity(t) \in C
  <2>1. \E n \in C : k < n \div 2 /\ \A b \in C : k < b \div 2 => n <= b
    BY <1>6
  <2> HIDE DEF C
  <2> QED
    BY <1>7, <2>1
<1> HIDE DEF C
<1> QED
  BY <1>1, <1>4, <1>8

LEMMA EmptyTable ==
  ASSUME NEW n \in Nat \ {0}
  PROVE  /\ Table(n) \in Tables /\ Table(n).capacity = n
         /\ \A i \in 0 .. n - 1 : Table(n).key[i] = invalid_thread_id
<1>1. PICK k : k = [i \in 0..n - 1 |-> invalid_thread_id]
  OBVIOUS
<1>2. PICK v : v = [i \in 0..n - 1 |-> NoProducer]
  OBVIOUS
<1>3. Table(n) = [capacity |-> n, key |-> k, value |-> v]
  BY <1>1, <1>2, Zenon DEF Table
<1>4. k \in [0 .. n - 1 -> Callers \cup {invalid_thread_id}]
  BY <1>1
<1>5. v \in [0 .. n - 1 -> Nat]
  BY <1>2 DEF NoProducer
<1>6. [capacity |-> n, key |-> k, value |-> v] \in Tables
  BY <1>4, <1>5, MakesTable
<1> QED
  BY <1>1, <1>3, <1>6

\* A new last table, at least as large, leaves the tables as they were.
LEMMA OneMore ==
  ASSUME ProducersInv, NEW t \in Callers, NEW n \in Nat \ {0}, NEW l \in Nat, l = Len(table), n >= Width(l),
         table' = Append(table, Table(n)), UNCHANGED <<hashOf, mine>>
  PROVE  /\ table' \in Seq(Tables) /\ table' # <<>> /\ Len(table') = l + 1 /\ DOMAIN table' = 1 .. l + 1
         /\ \A m \in 1 .. l : /\ table'[m] = table[m] /\ Room(m)' = Room(m)
                              /\ \A s \in Callers : In(s, m)' <=> In(s, m)
         /\ \A s \in Callers : ~In(s, l + 1)' /\ \A m : NotFrom(s, m) => NotFrom(s, m)'
         /\ TablesGrow(t) /\ TablesFit'
<1>1. /\ table \in Seq(Tables) /\ DOMAIN table = 1 .. l /\ l \in Nat \ {0}
  BY TablesAre DEF ProducersInv, ProducersTypes
<1>2. PICK b \in Tables : b = Table(n) /\ b.capacity = n /\ \A i \in 0 .. n - 1 : b.key[i] = invalid_thread_id
  BY EmptyTable
<1>3. /\ table' \in Seq(Tables) /\ table' # <<>> /\ Len(table') = l + 1 /\ DOMAIN table' = 1 .. l + 1
      /\ table'[l + 1] = b /\ \A m \in 1 .. l : table'[m] = table[m]
  BY <1>1, <1>2
<1>4. \A m \in 1 .. l : Width(m)' = Width(m) /\ Places(m)' = Places(m) /\ Room(m)' = Room(m)
  BY <1>3 DEF Width, Places, Room
<1>5. Width(l + 1)' = n /\ Places(l + 1)' = 0 .. n - 1
  BY <1>2, <1>3 DEF Width, Places
<1>6. TablesGrow(t)
  BY <1>1, <1>2, <1>3, <1>4, <1>5 DEF TablesGrow
<1>7. \A m \in 1 .. l : \A s \in Callers : In(s, m)' <=> In(s, m)
  BY <1>3, <1>4 DEF In
<1>8. \A s \in Callers : ~In(s, l + 1)'
  BY <1>2, <1>3, <1>5, ProducersAssumption DEF In, ProducersAssumption
<1>9. \A s \in Callers : \A m : NotFrom(s, m) => NotFrom(s, m)'
  <2> TAKE s \in Callers
  <2> TAKE m
  <2> SUFFICES ASSUME NotFrom(s, m), NEW q \in DOMAIN table', q >= m PROVE ~In(s, q)'
    BY DEF NotFrom
  <2>1. CASE q \in 1 .. l
    BY <1>1, <1>7, <2>1 DEF NotFrom
  <2>2. CASE q = l + 1
    BY <1>8, <2>2
  <2> QED
    BY <1>1, <1>3, <2>1, <2>2
<1>10. \A m, q \in DOMAIN table' : m <= q => Width(m)' <= Width(q)'
  <2> TAKE m, q \in DOMAIN table'
  <2> HAVE m <= q
  <2>1. \A r \in 1 .. l : Width(r) <= Width(l) /\ Width(r) \in Nat
    BY <1>1, TablesAre DEF ProducersInv, TablesFit
  <2>2. CASE q \in 1 .. l
    <3>1. m \in 1 .. l
      BY <1>1, <1>3, <2>2
    <3> QED
      BY <1>1, <1>4, <2>2, <3>1 DEF ProducersInv, TablesFit
  <2>3. CASE q = l + 1
    <3>1. m = l + 1 \/ m \in 1 .. l
      BY <1>1, <1>3
    <3>2. Width(l) \in Nat
      BY <1>1, <2>1
    <3> QED
      BY <1>4, <1>5, <2>1, <2>3, <3>1, <3>2
  <2> QED
    BY <1>1, <1>3, <2>2, <2>3
<1>11. TablesFit'
  <2>1. \A m \in 1 .. l : \A s, j : Along(s, m, j)' = Along(s, m, j)
    BY <1>4 DEF Along, Home
  <2>2. ASSUME NEW m \in DOMAIN table', NEW s \in Callers, NEW i \in Places(m)', table'[m].key[i] = s
        PROVE  /\ mine'[s] # NoProducer /\ table'[m].value[i] = mine'[s]
               /\ \A j \in Places(m)' : /\ table'[m].key[j] = s => j = i
                                        /\ Along(s, m, j)' < Along(s, m, i)' => table'[m].key[j] # invalid_thread_id
    <3>1. m \in 1 .. l
      BY <1>3, <1>8, <2>2 DEF In
    <3>2. i \in Places(m) /\ table'[m] = table[m] /\ Places(m)' = Places(m)
      BY <1>3, <1>4, <3>1
    <3>4. /\ mine[s] # NoProducer /\ table[m].value[i] = mine[s]
          /\ \A j \in Places(m) : /\ table[m].key[j] = s => j = i
                                  /\ Along(s, m, j) < Along(s, m, i) => table[m].key[j] # invalid_thread_id
      BY <1>1, <2>2, <3>1, <3>2 DEF ProducersInv, TablesFit
    <3>5. \A j : Along(s, m, j)' = Along(s, m, j)
      BY <2>1, <3>1
    <3> QED
      BY <3>2, <3>4, <3>5
  <2> QED
    BY <1>10, <2>2 DEF TablesFit
<1> QED
  BY <1>3, <1>4, <1>6, <1>7, <1>8, <1>9, <1>11

LEMMA GrowStep == ASSUME ProducersInv, NEW t \in Callers, Grow(t) PROVE ProducersInv'
<1> PICK c \in CallerRecords : c = caller[t]
  BY DEF ProducersInv, ProducersTypes
<1> PICK l \in Nat : l = Len(table)
  BY MainIs
<1> PICK n : n = NewCapacity(t)
  OBVIOUS
<1>1. /\ caller[t].pc = "grow" /\ table' = Append(table, Table(n))
      /\ Steps(t, "grow", [Now(t, "clear") EXCEPT !.main = Len(table')])
      /\ UNCHANGED <<implicitProducerHashCount, implicitProducerHashResizeInProgress, hashOf,
                     listVars, mine, token>>
  BY DEF Grow
<1>2. /\ c.pc = "grow" /\ SearchFits(t) /\ KindFits(t) /\ ~c.explicit /\ Coming(t)
      /\ c.at = 1 /\ c.main \in DOMAIN table /\ NotFrom(t, 1)
      /\ (mine[t] # NoProducer => \E m \in DOMAIN table : In(t, m))
  BY <1>1, StepMoves DEF SearchFits, AtTables, Coming, Placing
<1>3. c.main = l /\ n \in Nat \ {0} /\ n >= Width(l)
  BY <1>1, <1>2, CapacityGrows DEF ProducersInv, LockFits
<1>4. /\ table' \in Seq(Tables) /\ table' # <<>> /\ Len(table') = l + 1 /\ DOMAIN table' = 1 .. l + 1
      /\ \A m \in 1 .. l : /\ table'[m] = table[m] /\ Room(m)' = Room(m)
                           /\ \A s \in Callers : In(s, m)' <=> In(s, m)
      /\ \A s \in Callers : ~In(s, l + 1)' /\ \A m : NotFrom(s, m) => NotFrom(s, m)'
      /\ TablesGrow(t) /\ TablesFit'
  BY <1>1, <1>3, OneMore
<1>5. PICK e \in CallerRecords :
        /\ caller'[t] = e
        /\ e.pc = "clear" /\ e.main = l + 1 /\ e.at = 1 /\ e.count = c.count /\ ~e.explicit
  <2>0. PICK k \in Nat : k = l + 1
    OBVIOUS
  <2>1. PICK q \in CallerRecords : q = Now(t, "clear") /\ q.pc = "clear" /\ SamePlace(q, c)
    BY NowIs DEF AtTables
  <2>2. PICK e : e = [q EXCEPT !.main = k]
    OBVIOUS
  <2>3. /\ e \in CallerRecords /\ e.pc = "clear" /\ e.main = k /\ e.at = q.at
        /\ e.count = q.count /\ e.explicit = q.explicit
    BY <2>1, <2>2 DEF CallerRecords
  <2>4. caller'[t] = e
    BY <1>1, <1>4, <2>0, <2>1, <2>2, StepMoves
  <2> QED
    BY <1>2, <2>0, <2>1, <2>3, <2>4 DEF SamePlace
<1>6. /\ caller' \in [Callers -> CallerRecords]
      /\ \A s \in Callers \ {t} : caller'[s] = caller[s]
  BY <1>1, <1>5, StepMoves
<1>7. Coming(t)' /\ ~Placing(t)'
  BY <1>5 DEF Coming, Placing
<1>8. DOMAIN table = 1 .. l
  BY MainIs
<1>9. SearchFits(t)'
  <2>1. mine'[t] # NoProducer => \E m \in DOMAIN table' : In(t, m)'
    BY <1>1, <1>2, <1>4, <1>8
  <2>2. NotFrom(t, 1)' /\ e.main \in DOMAIN table'
    BY <1>2, <1>4, <1>5
  <2> QED
    BY <1>5, <1>7, <2>1, <2>2 DEF SearchFits
<1>10. KindFits(t)'
  BY <1>1, <1>2, <1>5 DEF KindFits, listVars
<1>11. LockFits'
  BY <1>1, <1>2, <1>5, <1>6, LockKept
<1>12. ProducersTypes'
  BY <1>1, <1>4, <1>6 DEF ProducersInv, ProducersTypes, listVars
<1>13. \A s \in Callers \ {t} : SearchFits(s)'
  BY <1>1, <1>4, <1>6, OthersSearch DEF ProducersInv
<1>14. OwnFits'
  BY <1>1, <1>5, <1>6, <1>10, OwnKept DEF listVars
<1>15. CountFits'
  <2>1. \A s \in Callers \ {t} : (Coming(s)' <=> Coming(s)) /\ (Placing(s)' <=> Placing(s))
    BY <1>6 DEF Coming, Placing
  <2>2. \A s \in Callers : (\E m \in DOMAIN table' : In(s, m)') <=> (\E m \in DOMAIN table : In(s, m))
    BY <1>4, <1>8
  <2>3. Counted' = Counted
    BY <1>2, <1>7, <2>1, <2>2 DEF Counted
  <2>4. ASSUME NEW s \in Callers
        PROVE  /\ Coming(s)' => Coming(s) /\ caller'[s].count = caller[s].count
               /\ Placing(s)' => caller'[s].count < Room(caller[s].main)'
    <3>1. CASE s = t
      BY <1>2, <1>5, <1>7, <3>1
    <3>2. CASE s # t
      <4>1. Placing(s) => caller[s].main \in 1 .. l /\ caller[s].count < Room(caller[s].main)
        BY <1>8 DEF ProducersInv, CountFits, SearchFits, Coming
      <4>2. Placing(s)' => caller[s].count < Room(caller[s].main)'
        BY <1>4, <1>6, <2>1, <3>2, <4>1
      <4> QED
        BY <1>6, <2>1, <3>2, <4>2
    <3> QED
      BY <3>1, <3>2
  <2>5. ASSUME NEW s \in Callers, NEW m \in DOMAIN table', In(s, m)'
        PROVE  \E q \in DOMAIN table : In(s, q) /\ \A k \in Nat : k < Room(q) => k < Room(m)'
    <3>1. m \in 1 .. l
      BY <1>4, <2>5
    <3> QED
      BY <1>4, <1>8, <2>5, <3>1
  <2>6. implicitProducerHashCount' = implicitProducerHashCount
    BY <1>1
  <2> QED
    BY <2>3, <2>4, <2>5, <2>6, CountKept
<1> QED
  BY <1>4, <1>9, <1>11, <1>12, <1>13, <1>14, <1>15 DEF ProducersInv

LEMMA RoomGrows ==
  ASSUME NEW a \in Nat, NEW b \in Nat, a <= b
  PROVE  a \div 2 + a \div 4 <= b \div 2 + b \div 4
OBVIOUS

LEMMA WithKeyIs ==
  ASSUME NEW b \in Tables, NEW i \in 0 .. b.capacity - 1, NEW t \in Callers, NEW p \in Nat
  PROVE  /\ WithKey(b, i, t, p) \in Tables /\ WithKey(b, i, t, p).capacity = b.capacity
         /\ WithKey(b, i, t, p).key[i] = t /\ WithKey(b, i, t, p).value[i] = p
         /\ \A j \in 0 .. b.capacity - 1 : j # i => /\ WithKey(b, i, t, p).key[j] = b.key[j]
                                                    /\ WithKey(b, i, t, p).value[j] = b.value[j]
<1>1. PICK n \in Nat \ {0} : n = b.capacity
  BY TableIs
<1>2. PICK k \in [0 .. n - 1 -> Callers \cup {invalid_thread_id}] : k = [b.key EXCEPT ![i] = t]
  BY <1>1, TableIs
<1>3. PICK v \in [0 .. n - 1 -> Nat] : v = [b.value EXCEPT ![i] = p]
  BY <1>1, TableIs
<1>4. WithKey(b, i, t, p) = [capacity |-> n, key |-> k, value |-> v]
  BY <1>1, <1>2, <1>3, Zenon DEF WithKey
<1>5. [capacity |-> n, key |-> k, value |-> v] \in Tables
  BY MakesTable
<1>6. b.key \in [0 .. n - 1 -> Callers \cup {invalid_thread_id}] /\ b.value \in [0 .. n - 1 -> Nat]
  BY <1>1, TableIs
<1>7. k[i] = t /\ v[i] = p /\ \A j \in 0 .. n - 1 : j # i => k[j] = b.key[j] /\ v[j] = b.value[j]
  BY <1>1, <1>2, <1>3, <1>6
<1> QED
  BY <1>1, <1>4, <1>5, <1>7

\* A thread's first key in a table, in the free slot its search came to.
LEMMA OneKey ==
  ASSUME ProducersInv, NEW t \in Callers, NEW n \in DOMAIN table, NEW i, NEW p \in Nat, p # NoProducer,
         Passed(t, n, i), NotFrom(t, n), table[n].key[i] = invalid_thread_id,
         mine[t] # NoProducer => mine[t] = p,
         mine'[t] = p, \A s \in Callers \ {t} : mine'[s] = mine[s], hashOf' = hashOf,
         table' = [table EXCEPT ![n] = WithKey(table[n], i, t, p)]
  PROVE  /\ table' \in Seq(Tables) /\ table' # <<>> /\ Len(table') = Len(table) /\ DOMAIN table' = DOMAIN table
         /\ \A m \in DOMAIN table : Room(m)' = Room(m)
         /\ \A m \in DOMAIN table : In(t, m)' <=> In(t, m) \/ m = n
         /\ TablesGrow(t) /\ TablesFit'
<1>0. t # invalid_thread_id
  BY ProducersAssumption DEF ProducersAssumption
<1>1. /\ table \in Seq(Tables) /\ DOMAIN table = 1 .. Len(table) /\ Len(table) \in Nat \ {0}
      /\ table[n] \in Tables /\ i \in Places(n) /\ ~In(t, n)
  <2>1. Len(table) \in Nat \ {0} /\ DOMAIN table = 1 .. Len(table) /\ table[n] \in Tables
    BY TablesAre DEF ProducersInv
  <2>2. ~In(t, n)
    BY <2>1 DEF NotFrom
  <2> QED
    BY <2>1, <2>2 DEF ProducersInv, ProducersTypes, Passed
<1>2. PICK b \in Tables :
        /\ table' = [table EXCEPT ![n] = b] /\ b.capacity = Width(n)
        /\ b.key[i] = t /\ b.value[i] = p
        /\ \A j \in Places(n) : j # i => b.key[j] = table[n].key[j] /\ b.value[j] = table[n].value[j]
  <2>1. PICK b \in Tables : b = table[n]
    BY <1>1
  <2>2. i \in 0 .. b.capacity - 1
    BY <1>1, <2>1 DEF Places, Width
  <2>3. PICK d : d = WithKey(b, i, t, p)
    OBVIOUS
  <2>4. /\ d \in Tables /\ d.capacity = b.capacity /\ d.key[i] = t /\ d.value[i] = p
        /\ \A j \in 0 .. b.capacity - 1 : j # i => d.key[j] = b.key[j] /\ d.value[j] = b.value[j]
    BY <2>2, <2>3, WithKeyIs
  <2>5. table' = [table EXCEPT ![n] = d]
    BY <2>1, <2>3
  <2>6. b.capacity = Width(n) /\ Places(n) = 0 .. b.capacity - 1
    BY <2>1 DEF Places, Width
  <2>7. /\ d.capacity = Width(n) /\ d.key[i] = t /\ d.value[i] = p
        /\ \A j \in Places(n) : j # i => d.key[j] = table[n].key[j] /\ d.value[j] = table[n].value[j]
    BY <2>1, <2>4, <2>6
  <2> QED
    BY <2>4, <2>5, <2>7
<1>3. /\ table' \in Seq(Tables) /\ table' # <<>> /\ Len(table') = Len(table) /\ DOMAIN table' = DOMAIN table
      /\ table'[n] = b /\ \A m \in DOMAIN table : m # n => table'[m] = table[m]
  BY <1>1, <1>2
<1>4. \A m \in DOMAIN table : Width(m)' = Width(m) /\ Places(m)' = Places(m) /\ Room(m)' = Room(m)
  BY <1>2, <1>3 DEF Width, Places, Room
<1>5. TablesGrow(t)
  BY <1>2, <1>3, <1>4 DEF TablesGrow
<1>6. \A m \in DOMAIN table : In(t, m)' <=> In(t, m) \/ m = n
  <2> TAKE m \in DOMAIN table
  <2>1. CASE m = n
    BY <1>1, <1>2, <1>3, <1>4, <2>1 DEF In
  <2>2. CASE m # n
    BY <1>3, <1>4, <2>2 DEF In
  <2> QED
    BY <2>1, <2>2
<1>7. \A m \in DOMAIN table : \A s, j : Along(s, m, j)' = Along(s, m, j)
  BY <1>4 DEF Along, Home
<1>8. \A m, q \in DOMAIN table' : m <= q => Width(m)' <= Width(q)'
  BY <1>3, <1>4 DEF ProducersInv, TablesFit
<1>9. ASSUME NEW m \in DOMAIN table', NEW s \in Callers, NEW j \in Places(m)', table'[m].key[j] = s
      PROVE  /\ mine'[s] # NoProducer /\ table'[m].value[j] = mine'[s]
             /\ \A k \in Places(m)' : /\ table'[m].key[k] = s => k = j
                                      /\ Along(s, m, k)' < Along(s, m, j)' => table'[m].key[k] # invalid_thread_id
  <2>1. m \in DOMAIN table /\ j \in Places(m) /\ Places(m)' = Places(m)
    BY <1>3, <1>4, <1>9
  <2>2. ASSUME table[m].key[j] = s
        PROVE  /\ mine[s] # NoProducer /\ mine'[s] = mine[s] /\ table[m].value[j] = mine[s]
               /\ \A k \in Places(m) : /\ table[m].key[k] = s => k = j
                                       /\ Along(s, m, k) < Along(s, m, j) => table[m].key[k] # invalid_thread_id
    <3>1. /\ mine[s] # NoProducer /\ table[m].value[j] = mine[s]
          /\ \A k \in Places(m) : /\ table[m].key[k] = s => k = j
                                  /\ Along(s, m, k) < Along(s, m, j) => table[m].key[k] # invalid_thread_id
      BY <2>1, <2>2 DEF ProducersInv, TablesFit
    <3>2. mine'[s] = mine[s]
      BY <3>1
    <3> QED
      BY <3>1, <3>2
  <2>3. CASE m # n
    <3>1. table'[m] = table[m]
      BY <1>3, <2>1, <2>3
    <3> QED
      BY <1>7, <1>9, <2>1, <2>2, <3>1
  <2>4. CASE m = n /\ j = i
    <3>1. s = t /\ mine'[s] = p /\ table'[m].value[j] = p
      BY <1>2, <1>3, <1>9, <2>4
    <3>2. \A k \in Places(n) : k # i => table'[n].key[k] = table[n].key[k] /\ table[n].key[k] # t
      BY <1>1, <1>2, <1>3 DEF In
    <3>3. \A k \in Places(n) : Along(t, n, k) < Along(t, n, i) => table[n].key[k] # invalid_thread_id
      BY DEF Passed
    <3>4. ASSUME NEW k \in Places(n)
          PROVE  /\ table'[n].key[k] = t => k = i
                 /\ Along(t, n, k)' < Along(t, n, i)' => table'[n].key[k] # invalid_thread_id
      BY <1>0, <1>2, <1>3, <1>7, <3>2, <3>3
    <3> QED
      BY <2>1, <2>4, <3>1, <3>4
  <2>5. CASE m = n /\ j # i
    <3>1. table[n].key[j] = s /\ s # t
      BY <1>1, <1>2, <1>3, <1>9, <2>1, <2>5 DEF In
    <3>2. table'[n].value[j] = table[n].value[j]
      BY <1>2, <1>3, <2>1, <2>5
    <3>3. ASSUME NEW k \in Places(n)
          PROVE  /\ table'[n].key[k] = s => k = j
                 /\ Along(s, n, k)' < Along(s, n, j)' => table'[n].key[k] # invalid_thread_id
      <4>1. CASE k = i
        BY <1>0, <1>2, <1>3, <3>1, <4>1
      <4>2. CASE k # i
        <5>1. table'[n].key[k] = table[n].key[k]
          BY <1>2, <1>3, <4>2
        <5> QED
          BY <1>7, <2>2, <2>5, <3>1, <5>1
      <4> QED
        BY <4>1, <4>2
    <3> QED
      BY <2>1, <2>2, <2>5, <3>1, <3>2, <3>3
  <2> QED
    BY <2>3, <2>4, <2>5
<1>10. TablesFit'
  BY <1>8, <1>9 DEF TablesFit
<1> QED
  BY <1>3, <1>4, <1>5, <1>6, <1>10

LEMMA SlotFreeStep ==
  ASSUME ProducersInv, NEW t \in Callers, Slot(t),
         table[caller[t].main].key[caller[t].i] = invalid_thread_id
  PROVE  ProducersInv'
<1> PICK c \in CallerRecords : c = caller[t]
  BY DEF ProducersInv, ProducersTypes
<1>1. /\ Steps(t, "slot", Away)
      /\ table' = [table EXCEPT ![c.main] = WithKey(table[c.main], c.i, t, c.p)]
      /\ mine' = [mine EXCEPT ![t] = IF mine[t] = NoProducer THEN c.p ELSE mine[t]]
      /\ UNCHANGED <<implicitProducerHashCount, implicitProducerHashResizeInProgress, hashOf, listVars, token>>
  BY Zenon DEF Slot
<1>2. /\ c.pc = "slot" /\ SearchFits(t) /\ KindFits(t)
      /\ c.main \in DOMAIN table /\ NotFrom(t, c.main) /\ c.p # NoProducer /\ c.p \in Nat
      /\ (c.at # 1 => c.p = mine[t]) /\ Passed(t, c.main, c.i)
      /\ (Coming(t) <=> c.at = 1) /\ (Placing(t) <=> c.at = 1)
      /\ (Coming(t) => NotFrom(t, 1))
      /\ (mine[t] # NoProducer => \E n \in DOMAIN table : In(t, n))
  BY <1>1, StepMoves, CallerFields DEF SearchFits, AtTables, Coming, Placing
<1>3. mine[t] # NoProducer => c.at # 1 /\ mine[t] = c.p
  BY <1>2, MainIs DEF NotFrom
<1>4. /\ mine' \in [Callers -> Nat] /\ mine'[t] = c.p /\ \A s \in Callers \ {t} : mine'[s] = mine[s]
  BY <1>1, <1>2, <1>3 DEF ProducersInv, ProducersTypes
<1>5. /\ table' \in Seq(Tables) /\ table' # <<>> /\ Len(table') = Len(table) /\ DOMAIN table' = DOMAIN table
      /\ \A m \in DOMAIN table : Room(m)' = Room(m)
      /\ \A m \in DOMAIN table : In(t, m)' <=> In(t, m) \/ m = c.main
      /\ TablesGrow(t) /\ TablesFit'
  BY <1>1, <1>2, <1>3, <1>4, OneKey
<1>6. PICK e \in CallerRecords : e = Away /\ e.pc = "idle" /\ ~e.explicit
  BY AwayIs
<1>7. /\ caller'[t] = e /\ caller' \in [Callers -> CallerRecords]
      /\ \A s \in Callers \ {t} : caller'[s] = caller[s]
  BY <1>1, <1>6, StepMoves
<1>8. ~Coming(t)' /\ ~Placing(t)'
  BY <1>6, <1>7 DEF Coming, Placing
<1>9. SearchFits(t)'
  <2>1. \E n \in DOMAIN table' : In(t, n)'
    BY <1>2, <1>5
  <2> QED
    BY <1>6, <1>7, <1>8, <2>1 DEF SearchFits
<1>10. \A s \in Callers \ {t} : SearchFits(s)'
  BY <1>4, <1>5, <1>7, OthersSearch DEF ProducersInv
<1>11. LockFits'
  BY <1>1, <1>5, <1>6, <1>7, LockKept
<1>12. ProducersTypes'
  BY <1>1, <1>4, <1>5, <1>7 DEF ProducersInv, ProducersTypes, listVars
<1>13. OwnFits'
  <2>1. KindFits(t)'
    BY <1>1, <1>2, <1>4, <1>6, <1>7 DEF KindFits, listVars
  <2>2. producer' = producer /\ token' = token /\ producer \in Seq(ProducerRecords) /\ token \in [Callers -> Nat]
    BY <1>1 DEF ProducersInv, ProducersTypes, listVars
  <2>3. ASSUME NEW q \in Nat, Has(t, q)'
        PROVE  /\ q \in DOMAIN producer' /\ ~producer'[q].inactive
               /\ \A s \in Callers \ {t} : ~Has(s, q)
    <3>1. Has(t, q)
      BY <1>2, <1>4, <1>6, <1>7, <2>2, <2>3 DEF Has
    <3>2. Owned(t, q)
      BY DEF ProducersInv, OwnFits
    <3> QED
      BY <2>2, <3>1, <3>2 DEF Owned
  <2>4. \A q \in DOMAIN producer : producer[q].inactive => producer[q].explicit
    BY DEF ProducersInv, OwnFits
  <2>5. Len(producer) \in Nat
    BY <2>2
  <2>6. /\ Len(producer) <= Len(producer') /\ producer' \in Seq(ProducerRecords) /\ token' \in [Callers -> Nat]
        /\ \A q \in DOMAIN producer : /\ producer'[q].explicit = producer[q].explicit
                                      /\ ~producer[q].inactive => ~producer'[q].inactive \/ Has(t, q)
        /\ \A q \in DOMAIN producer' : producer'[q].inactive => producer'[q].explicit
    BY <2>2, <2>4, <2>5
  <2>7. \A s \in Callers \ {t} : caller'[s] = caller[s] /\ token'[s] = token[s] /\ mine'[s] = mine[s]
    BY <1>4, <1>7, <2>2
  <2>8. mine' \in [Callers -> Nat] /\ caller' \in [Callers -> CallerRecords]
    BY <1>4, <1>7
  <2> QED
    BY <2>1, <2>3, <2>6, <2>7, <2>8, OwnMoves
<1>14. CountFits'
  <2>1. \A s \in Callers \ {t} : (Coming(s)' <=> Coming(s)) /\ (Placing(s)' <=> Placing(s))
    BY <1>7 DEF Coming, Placing
  <2>2. \A s \in Callers \ {t}, m \in DOMAIN table : In(s, m)' <=> In(s, m)
    BY <1>5, OthersIn DEF ProducersInv
  <2>3. t \in Counted /\ t \in Counted'
    <3>1. Coming(t) \/ \E n \in DOMAIN table : In(t, n)
      BY <1>2
    <3>2. \E n \in DOMAIN table' : In(t, n)'
      BY <1>2, <1>5
    <3> QED
      BY <3>1, <3>2 DEF Counted
  <2>4. Counted' = Counted
    BY <1>5, <2>1, <2>2, <2>3 DEF Counted
  <2>5. ASSUME NEW s \in Callers
        PROVE  /\ Coming(s)' => Coming(s) /\ caller'[s].count = caller[s].count
               /\ Placing(s)' => caller'[s].count < Room(caller[s].main)'
    <3>1. CASE s = t
      BY <1>8, <3>1
    <3>2. CASE s # t
      <4>1. Placing(s) => caller[s].main \in DOMAIN table /\ caller[s].count < Room(caller[s].main)
        BY DEF ProducersInv, CountFits, SearchFits, Coming
      <4> QED
        BY <1>5, <1>7, <2>1, <3>2, <4>1
    <3> QED
      BY <3>1, <3>2
  <2>6. ASSUME NEW s \in Callers, NEW m \in DOMAIN table', In(s, m)'
        PROVE  \/ \E q \in DOMAIN table : In(s, q) /\ \A k \in Nat : k < Room(q) => k < Room(m)'
               \/ Coming(s) /\ caller[s].count < Room(m)'
    <3>1. CASE In(s, m)
      BY <1>5, <2>6, <3>1
    <3>2. CASE ~In(s, m)
      <4>1. s = t /\ m = c.main
        BY <1>5, <2>2, <2>6, <3>2
      <4>2. CASE c.at = 1
        <5>1. Placing(t) /\ Coming(t)
          BY <1>2, <4>2
        <5>2. caller[t].count < Room(caller[t].main)
          BY <5>1 DEF ProducersInv, CountFits
        <5> QED
          BY <1>2, <1>5, <4>1, <5>1, <5>2
      <4>3. CASE c.at # 1
        <5>1. PICK q \in DOMAIN table : In(t, q)
          BY <1>2, <4>3
        <5>2. q <= m /\ m \in DOMAIN table
          BY <1>2, <1>5, <4>1, <5>1, MainIs DEF NotFrom
        <5>3. Width(q) <= Width(m) /\ Width(q) \in Nat /\ Width(m) \in Nat
          BY <5>2, TablesAre DEF ProducersInv, TablesFit
        <5>4. Room(q) <= Room(m) /\ Room(q) \in Nat /\ Room(m) \in Nat
          BY <5>3, RoomGrows DEF Room
        <5>5. \A k \in Nat : k < Room(q) => k < Room(m)
          BY <5>4
        <5> QED
          BY <1>5, <4>1, <5>1, <5>2, <5>5
      <4> QED
        BY <4>2, <4>3
    <3> QED
      BY <3>1, <3>2
  <2>7. implicitProducerHashCount' = implicitProducerHashCount
    BY <1>1
  <2> QED
    BY <2>4, <2>5, <2>6, <2>7, CountKept
<1> QED
  BY <1>5, <1>9, <1>10, <1>11, <1>12, <1>13, <1>14 DEF ProducersInv

LEMMA ProducersInitFits == ASSUME ProducersInit PROVE ProducersInv
<1>1. HashSize \in Nat \ {0} /\ IsFiniteSet(Callers) /\ invalid_thread_id \notin Callers
  BY ProducersAssumption DEF ProducersAssumption
<1>2. PICK b \in Tables : b = Table(HashSize) /\ b.capacity = HashSize
                          /\ \A i \in 0 .. HashSize - 1 : b.key[i] = invalid_thread_id
  BY <1>1, EmptyTable
<1>3. /\ table = <<b>> /\ table \in Seq(Tables) /\ table # <<>> /\ DOMAIN table = {1} /\ table[1] = b
      /\ Len(table) = 1
  BY <1>2 DEF ProducersInit
<1>4. Width(1) = HashSize /\ Places(1) = 0 .. HashSize - 1
  BY <1>2, <1>3 DEF Width, Places
<1>5. \A t \in Callers, n \in DOMAIN table : ~In(t, n)
  BY <1>1, <1>2, <1>3, <1>4 DEF In
<1>6. PICK e \in CallerRecords : e = Away /\ e.pc = "idle" /\ ~e.explicit
  BY AwayIs
<1>7. \A t \in Callers : caller[t] = e
  BY <1>6 DEF ProducersInit
<1>8. ProducersTypes
  <2>1. caller \in [Callers -> CallerRecords]
    BY <1>6 DEF ProducersInit
  <2>2. hashOf \in [Callers -> Nat] /\ mine \in [Callers -> Nat] /\ token \in [Callers -> Nat]
    BY ProducersAssumption DEF ProducersInit, ProducersAssumption, NoProducer
  <2>3. producer \in Seq(ProducerRecords) /\ producerCount \in Nat
    BY DEF ProducersInit
  <2>4. implicitProducerHashResizeInProgress \in BOOLEAN
    BY Zenon DEF ProducersInit
  <2> QED
    BY <1>3, <2>1, <2>2, <2>3, <2>4 DEF ProducersTypes
<1>9. TablesFit
  <2>1. \A n \in DOMAIN table, t \in Callers : \A i \in Places(n) : table[n].key[i] # t
    BY <1>5 DEF In
  <2>2. \A m, n \in DOMAIN table : m <= n => Width(m) <= Width(n)
    BY <1>1, <1>3, <1>4
  <2> QED
    BY <2>1, <2>2 DEF TablesFit
<1>10. LockFits
  BY <1>6, <1>7 DEF LockFits
<1>11. \A t \in Callers : ~Coming(t) /\ ~Placing(t)
  BY <1>6, <1>7 DEF Coming, Placing
<1>12. \A t \in Callers : SearchFits(t)
  BY <1>6, <1>7, <1>11 DEF SearchFits, ProducersInit
<1>13. OwnFits
  <2>1. \A t \in Callers : \A p \in Nat : ~Has(t, p)
    BY <1>6, <1>7 DEF Has, ProducersInit
  <2>2. \A t \in Callers : KindFits(t)
    BY <1>6, <1>7 DEF KindFits, ProducersInit
  <2>3. DOMAIN producer = {}
    BY DEF ProducersInit
  <2> QED
    BY <2>1, <2>2, <2>3 DEF OwnFits, Owned
<1>14. CountFits
  <2>1. Counted = {}
    BY <1>5, <1>11 DEF Counted
  <2>2. implicitProducerHashCount = Cardinality(Counted)
    BY <2>1, FS_EmptySet DEF ProducersInit
  <2>3. PICK c : c = [t \in Callers |-> 0]
    OBVIOUS
  <2>4. c \in [Callers -> 0 .. Cardinality(Callers)]
    BY <2>3, CallersAre
  <2>5. ASSUME NEW k \in 0 .. Cardinality(Callers) PROVE Cardinality(UpTo(c, k)) <= k
    <3>1. UpTo(c, k) = {}
      BY <2>1 DEF UpTo
    <3> QED
      BY <3>1, FS_EmptySet, CallersAre
  <2> QED
    BY <1>5, <1>11, <2>2, <2>4, <2>5 DEF CountFits
<1> QED
  BY <1>8, <1>9, <1>10, <1>12, <1>13, <1>14 DEF ProducersInv

LEMMA ProducersStay ==
  ASSUME ProducersInv, UNCHANGED producersVars
  PROVE  ProducersInv'
<1>1. /\ UNCHANGED <<producer, producerCount, implicitProducerHashCount>>
      /\ UNCHANGED <<implicitProducerHashResizeInProgress, table, hashOf, caller, mine, token>>
  BY DEF producersVars, hashVars, listVars
<1>2. \A t : (Coming(t)' <=> Coming(t)) /\ (Placing(t)' <=> Placing(t))
  BY <1>1 DEF Coming, Placing
<1>3. ProducersTypes'
  BY <1>1 DEF ProducersInv, ProducersTypes
<1>4. TablesFit'
  BY <1>1 DEF ProducersInv, TablesFit, Width, Places, Along, Home
<1>5. LockFits'
  BY <1>1 DEF ProducersInv, LockFits
<1>6. CountFits'
  <2>1. Counted' = Counted
    BY <1>1, <1>2, SameTables DEF Counted
  <2>2. \A c, b : UpTo(c, b)' = UpTo(c, b)
    BY <2>1 DEF UpTo
  <2> QED
    BY <1>1, <1>2, <2>1, <2>2, SameTables DEF ProducersInv, CountFits
<1>7. OwnFits'
  <2>1. \A t, p : Has(t, p)' <=> Has(t, p)
    BY <1>1 DEF Has
  <2>2. \A t \in Callers : KindFits(t)'
    BY <1>1 DEF ProducersInv, OwnFits, KindFits
  <2> QED
    BY <1>1, <2>1, <2>2 DEF ProducersInv, OwnFits, Owned
<1>8. \A t \in Callers : SearchFits(t)'
  BY <1>1, <1>2, SameTables DEF ProducersInv, SearchFits
<1> QED
  BY <1>3, <1>4, <1>5, <1>6, <1>7, <1>8 DEF ProducersInv

\* What the threads, the list of producers and the tables keep to.
THEOREM ProducersInvariant == ProducersSpec => []ProducersInv
<1>1. ProducersInit => ProducersInv
  BY ProducersInitFits
<1>2. ProducersInv /\ [ProducersNext]_producersVars => ProducersInv'
  <2> SUFFICES ASSUME ProducersInv, [ProducersNext]_producersVars PROVE ProducersInv'
    OBVIOUS
  <2>1. CASE UNCHANGED producersVars
    BY <2>1, ProducersStay
  <2>2. ASSUME NEW t \in Callers, Producer(t) PROVE ProducersInv'
    BY <2>2, WalkStep, CatchStep, MakeProducerStep, MakeFailsStep, LinkProducerStep DEF Producer
  <2>3. ASSUME NEW t \in Callers, ProducerToken(t) PROVE ProducersInv'
    BY <2>3, TokenStep, TokenMadeStep, UnlinkStep, LeaveStep DEF ProducerToken
  <2>4. ASSUME NEW t \in Callers, Slot(t) PROVE ProducersInv'
    BY <2>4, SlotFreeStep, SlotTakenStep
  <2>5. ASSUME NEW t \in Callers, GetOrAdd(t) PROVE ProducersInv'
    BY <2>4, <2>5, LookupStep, ProbeKeyStep, FoundStep, CountStep, SizeStep, GrowStep, GrowNotStep,
       GrowFailsStep, ClearStep, FitsStep, InsertStep DEF GetOrAdd
  <2> QED
    BY <2>1, <2>2, <2>3, <2>5 DEF ProducersNext
<1> QED
  BY <1>1, <1>2, PTL DEF ProducersSpec

\* No two threads have one producer, and a thread that has one finds it again.
THEOREM ProducersAreOwned == ProducersSpec => []OwnProducer
<1>1. ProducersInv => OwnProducer
  <2> SUFFICES ASSUME ProducersInv, NEW t \in Callers
               PROVE  /\ \A s \in Callers \ {t} : /\ token[t] # NoProducer => token[s] # token[t]
                                                  /\ mine[t] # NoProducer => mine[s] # mine[t]
                      /\ caller[t].pc \in {"found", "insert", "slot"} /\ mine[t] # NoProducer
                           => caller[t].p = mine[t]
    BY DEF OwnProducer
  <2>1. mine[t] \in Nat /\ token[t] \in Nat /\ \A p \in Nat : Owned(t, p)
    BY DEF ProducersInv, ProducersTypes, OwnFits
  <2>2. ASSUME NEW s \in Callers \ {t}, token[t] # NoProducer, token[s] = token[t] PROVE FALSE
    BY <2>1, <2>2 DEF Owned, Has
  <2>3. ASSUME NEW s \in Callers \ {t}, mine[t] # NoProducer, mine[s] = mine[t] PROVE FALSE
    BY <2>1, <2>3 DEF Owned, Has
  <2>4. ASSUME caller[t].pc \in {"found", "insert", "slot"}, mine[t] # NoProducer
        PROVE  caller[t].p = mine[t]
    <3>1. SearchFits(t) /\ \E n \in DOMAIN table : In(t, n)
      BY <2>4 DEF ProducersInv, SearchFits
    <3>2. CASE caller[t].pc = "found"
      BY <3>1, <3>2 DEF SearchFits
    <3>3. CASE caller[t].pc \in {"insert", "slot"} /\ caller[t].at # 1
      BY <3>1, <3>3 DEF SearchFits
    <3>4. CASE caller[t].pc \in {"insert", "slot"} /\ caller[t].at = 1
      <4>1. NotFrom(t, 1)
        BY <3>1, <3>4 DEF SearchFits, Coming, Placing
      <4> QED
        BY <3>1, <4>1, MainIs DEF NotFrom
    <3> QED
      BY <2>4, <3>2, <3>3, <3>4
  <2> QED
    BY <2>2, <2>3, <2>4
<1> QED
  BY <1>1, ProducersInvariant, PTL

\* The threads of a full table would be more than there is room for.
LEMMA TableIsNotFull ==
  ASSUME ProducersInv, NEW n \in DOMAIN table
  PROVE  \E i \in Places(n) : table[n].key[i] = invalid_thread_id
<1> SUFFICES ASSUME \A i \in Places(n) : table[n].key[i] # invalid_thread_id PROVE FALSE
  OBVIOUS
<1>1. PICK c \in [Callers -> 0 .. Cardinality(Callers)] :
        /\ \A t \in Callers : \A m \in DOMAIN table : In(t, m) => c[t] < Room(m)
        /\ \A b \in 0 .. Cardinality(Callers) : Cardinality(UpTo(c, b)) <= b
  BY DEF ProducersInv, CountFits
<1>2. PICK w \in Nat \ {0} : w = Width(n) /\ Places(n) = 0 .. w - 1
  BY TablesAre DEF ProducersInv, Places
<1>3. PICK f \in [0 .. w - 1 -> Callers] : f = table[n].key
  BY <1>2, TablesAre DEF ProducersInv
<1>4. PICK r \in Nat : r = Room(n) /\ r <= w
  BY <1>2 DEF Room
<1>5. PICK k \in Nat : k = Cardinality(Callers)
  BY CallersAre
<1>6. \A i \in 0 .. w - 1 : In(f[i], n) /\ c[f[i]] < r /\ c[f[i]] \in 0 .. k /\ f[i] \in Counted
  <2> TAKE i \in 0 .. w - 1
  <2>1. f[i] \in Callers /\ In(f[i], n)
    BY <1>2, <1>3 DEF In
  <2> QED
    BY <1>1, <1>4, <1>5, <2>1 DEF Counted
<1>7. r > 0
  BY <1>2, <1>6
<1>8. PICK b \in 0 .. k : b <= r - 1 /\ (b = r - 1 \/ b = k)
  <2>1. CASE r - 1 <= k
    <3>1. PICK b \in 0 .. k : b = r - 1
      BY <1>7, <2>1
    <3>2. b <= r - 1
      BY <3>1
    <3> QED
      BY <3>1, <3>2
  <2>2. CASE ~(r - 1 <= k)
    <3>1. k \in 0 .. k /\ k <= r - 1
      BY <2>2
    <3> QED
      BY <3>1
  <2> QED
    BY <2>1, <2>2
<1>9. f \in [0 .. w - 1 -> UpTo(c, b)]
  <2>1. \A i \in 0 .. w - 1 : f[i] \in UpTo(c, b)
    BY <1>6, <1>8 DEF UpTo
  <2> QED
    BY <2>1
<1>10. Cardinality(UpTo(c, b)) <= b /\ IsFiniteSet(UpTo(c, b)) /\ Cardinality(UpTo(c, b)) \in Nat
  BY <1>1, <1>5, <1>8, CountedIs
<1>11. IsFiniteSet(0 .. w - 1) /\ Cardinality(0 .. w - 1) = w
  BY FS_Interval
<1>12. Cardinality(UpTo(c, b)) < Cardinality(0 .. w - 1)
  BY <1>4, <1>8, <1>10, <1>11
<1>13. PICK i, j \in 0 .. w - 1 : i # j /\ f[i] = f[j]
  BY <1>9, <1>10, <1>11, <1>12, FS_PigeonHole
<1> QED
  BY <1>2, <1>3, <1>13 DEF ProducersInv, TablesFit

\* No table is ever full.
THEOREM TablesAreNeverFull == ProducersSpec => []SlotIsFree
<1>1. ProducersInv => SlotIsFree
  <2> SUFFICES ASSUME ProducersInv, NEW n \in DOMAIN table
               PROVE  \E i \in DOMAIN table[n].key : table[n].key[i] = invalid_thread_id
    BY DEF SlotIsFree
  <2>1. DOMAIN table[n].key = Places(n)
    BY TablesAre DEF ProducersInv
  <2> QED
    BY <2>1, TableIsNotFull
<1> QED
  BY <1>1, ProducersInvariant, PTL

-----------------------------------------------------------------------------
(***************************************************************************)
(* The inductive invariant of FreeList: of each node, where it is and what *)
(* its count of references is made of.  The proof follows each node from   *)
(* place to place: fresh, held, popped, and so on.  Its count of references *)
(* is what the place gives it and one for each thread that refers to it;   *)
(* that shows that a node is never in two places, that its next pointer    *)
(* stays while a thread may use it, and that the last of those who refer to *)
(* a flagged node knows it is.                                             *)
(***************************************************************************)

\* What the thread is doing with the node.
Refers(r, n) == \/ r.pc \in {"next", "pop", "popped"} /\ r.head = n
                \/ r.pc = "unref" /\ r.node = n
Adds(r, n)   == r.pc \in {"top", "link", "expose"} /\ r.node = n
Pushes(r, n) == r.pc \in {"push", "retry"} /\ r.node = n
Pops(r, n)   == r.pc = "popped" /\ r.head = n

Referring(n) == {t \in Threads : Refers(thr[t], n)}
Given(n) == IF n <= PoolSize THEN n <= initialBlockPoolIndex ELSE n <= PoolSize + made

\* A node is not given yet; or a thread has it, or is about to link it in, or has
\* set its count for the push, or has popped it; or it is on the list; or it is
\* flagged, for the last thread that refers to it to add.
Kinds == {"fresh", "held", "adding", "pushing", "popped", "listed", "flagged"}
BaseOf(k) == CASE k \in {"pushing", "popped", "listed"} -> 1
               [] k \in {"adding", "flagged"} -> Flag
               [] OTHER -> 0

Placed(n, k, o) ==
  /\ \A t \in Threads :
       /\ n \in held[t] <=> k = "held" /\ t = o
       /\ Adds(thr[t], n) <=> k = "adding" /\ t = o
       /\ Pushes(thr[t], n) <=> k = "pushing" /\ t = o
       /\ Pops(thr[t], n) <=> k = "popped" /\ t = o
  /\ k \in {"held", "adding", "pushing", "popped"} => o \in Threads
  /\ n \in Listed <=> k = "listed"
  /\ Given(n) <=> k # "fresh"
  /\ freeListRefs[n] = BaseOf(k) + Cardinality(Referring(n))
  /\ k \in {"fresh", "adding"} => Referring(n) = {}
  /\ k = "flagged" => Referring(n) # {}

NodesFit == \A n \in Nodes : \E k \in Kinds, o \in Threads \cup {Null} : Placed(n, k, o)

\* The next pointer of a node stays while a thread refers to it, or is to push it.
ThreadFits(r) ==
  /\ r.pc = "ref" => r.refs % Flag # 0
  /\ r.pc = "pop" => r.next = freeListNext[r.head]
  /\ r.pc \in {"expose", "push"} => freeListNext[r.node] = r.top
  /\ r.pc \in {"refs", "ref", "next", "pop", "popped"} => r.head \in Nodes
  /\ r.pc \in {"unref", "top", "link", "expose", "push", "retry"} => r.node \in Nodes

ThreadRecords ==
  [pc : {"idle", "pool", "none", "head", "refs", "ref", "next", "pop", "popped", "unref",
         "top", "link", "expose", "push", "retry"},
   head : Nodes \cup {Null}, refs : Nat, next : Nodes \cup {Null},
   node : Nodes \cup {Null}, top : Nodes \cup {Null}, then : {"idle", "again"}]

FreeListTypes ==
  /\ freeListHead \in Nodes \cup {Null}
  /\ freeListRefs \in [Nodes -> Nat] /\ freeListNext \in [Nodes -> Nodes \cup {Null}]
  /\ initialBlockPoolIndex \in Nat /\ made \in Nat /\ PoolSize + made <= MaxNodes
  /\ thr \in [Threads -> ThreadRecords] /\ held \in [Threads -> SUBSET Nodes]

\* The list from its end on: a node points to the one before it.
Path(h, f, n, p) ==
  /\ h = IF n = 0 THEN Null ELSE p[n]
  /\ \A i \in 1 .. n : f[p[i]] = IF i = 1 THEN Null ELSE p[i - 1]
  /\ \A i, j \in 1 .. n : i # j => p[i] # p[j]

ListEnds == \E n \in Nat : \E p \in [1 .. n -> Nodes] : Path(freeListHead, freeListNext, n, p)

FreeListInv ==
  FreeListTypes /\ ListEnds /\ NodesFit /\ \A t \in Threads : ThreadFits(thr[t])

-----------------------------------------------------------------------------
(* The list.                                                               *)

\* What Listed says, of any head and pointers.
Hops(h, f, g) ==
  g = [k \in 0 .. MaxNodes |-> IF k = 0 THEN h ELSE IF g[k - 1] = Null THEN Null ELSE f[g[k - 1]]]
WalkFrom(h, f) == {(CHOOSE g : Hops(h, f, g))[k] : k \in 0 .. MaxNodes} \ {Null}

LEMMA ListedIsWalk == Listed = WalkFrom(freeListHead, freeListNext)
BY DEF Listed, WalkFrom, Hops

\* Hops are determined.
LEMMA OneWalk ==
  ASSUME NEW h, NEW f, NEW g, NEW w, Hops(h, f, g), Hops(h, f, w)
  PROVE  g = w
<1> USE FreeListAssumption DEF FreeListAssumption
<1> DEFINE Differ == {k \in 0 .. MaxNodes : g[k] # w[k]}
<1>1. ASSUME Differ # {} PROVE FALSE
  <2>1. Differ \in SUBSET Nat
    OBVIOUS
  <2>2. PICK k \in Differ : \A m \in Differ : k <= m
    BY <1>1, <2>1, LeastNumber
  <2>3. k # 0
    BY <2>2 DEF Hops
  <2>4. k - 1 \in 0 .. MaxNodes /\ k - 1 \notin Differ
    BY <2>2, <2>3
  <2>5. g[k - 1] = w[k - 1]
    BY <2>4
  <2>6. g[k] = w[k]
    BY <2>2, <2>3, <2>5 DEF Hops
  <2> QED
    BY <2>2, <2>6
<1>2. \A k \in 0 .. MaxNodes : g[k] = w[k]
  BY <1>1
<1> HIDE DEF Differ
<1> QED
  BY <1>2 DEF Hops

\* A path visits a node once, so it is not longer than there are nodes.
LEMMA PathIsShort ==
  ASSUME NEW h, NEW f, NEW n \in Nat, NEW p \in [1 .. n -> Nodes], Path(h, f, n, p)
  PROVE  n <= MaxNodes
<1>1. MaxNodes \in Nat
  BY FreeListAssumption DEF FreeListAssumption
<1>2. /\ IsFiniteSet(1 .. n) /\ Cardinality(1 .. n) = n
      /\ IsFiniteSet(Nodes) /\ Cardinality(Nodes) = MaxNodes
  BY <1>1, FS_Interval DEF Nodes
<1>3. ASSUME MaxNodes < n PROVE FALSE
  <2>1. PICK S : S = 1 .. n
    OBVIOUS
  <2>2. PICK T : T = Nodes
    OBVIOUS
  <2>3. \E x, y \in S : x # y /\ p[x] = p[y]
    <3>1. IsFiniteSet(S) /\ IsFiniteSet(T) /\ Cardinality(T) < Cardinality(S) /\ p \in [S -> T]
      BY <1>2, <1>3, <2>1, <2>2
    <3> QED
      BY <3>1, FS_PigeonHole
  <2> QED
    BY <2>1, <2>3 DEF Path
<1> QED
  BY <1>1, <1>3

LEMMA WalkIsPath ==
  ASSUME NEW h, NEW f, NEW n \in Nat, NEW p \in [1 .. n -> Nodes], Path(h, f, n, p)
  PROVE  \A x : x \in WalkFrom(h, f) <=> \E i \in 1 .. n : x = p[i]
<1>1. MaxNodes \in Nat /\ n <= MaxNodes
  BY PathIsShort, FreeListAssumption DEF FreeListAssumption
<1>2. \A i \in 1 .. n : p[i] \in 1 .. MaxNodes
  BY DEF Nodes
<1> DEFINE w == [k \in 0 .. MaxNodes |-> IF k < n THEN p[n - k] ELSE Null]
<1>3. Hops(h, f, w)
  <2>1. ASSUME NEW k \in 0 .. MaxNodes
        PROVE  w[k] = IF k = 0 THEN h ELSE IF w[k - 1] = Null THEN Null ELSE f[w[k - 1]]
    <3>1. CASE k = 0
      BY <1>1, <3>1 DEF Path
    <3>2. CASE k # 0
      <4>1. k - 1 \in 0 .. MaxNodes /\ w[k - 1] = IF k - 1 < n THEN p[n - (k - 1)] ELSE Null
        <5>1. PICK j \in 0 .. MaxNodes : j = k - 1
          BY <1>1, <3>2
        <5>2. w[j] = IF j < n THEN p[n - j] ELSE Null
          OBVIOUS
        <5> QED
          BY <5>1, <5>2
      <4>2. CASE k - 1 < n
        <5>1. PICK i \in 1 .. n : i = n - (k - 1)
          BY <1>1, <3>2, <4>2
        <5>2. w[k - 1] = p[i] /\ p[i] # Null
          BY <1>2, <4>1, <4>2, <5>1 DEF Null
        <5>3. f[p[i]] = IF i = 1 THEN Null ELSE p[i - 1]
          BY <5>1 DEF Path
        <5>4. w[k] = IF i = 1 THEN Null ELSE p[i - 1]
          <6>1. k < n <=> i # 1
            BY <5>1
          <6>2. k < n => n - k = i - 1
            BY <5>1
          <6> QED
            BY <6>1, <6>2
        <5> QED
          BY <3>2, <5>2, <5>3, <5>4
      <4>3. CASE ~ (k - 1 < n)
        BY <1>1, <3>2, <4>1, <4>3
      <4> QED
        BY <4>2, <4>3
    <3> QED
      BY <3>1, <3>2
  <2> QED
    BY <2>1 DEF Hops
<1> HIDE DEF w
<1>4. (CHOOSE g : Hops(h, f, g)) = w
  <2>1. Hops(h, f, CHOOSE g : Hops(h, f, g))
    BY <1>3
  <2> QED
    BY <1>3, <2>1, OneWalk
<1>5. \A x : x \in WalkFrom(h, f) <=> x # Null /\ \E k \in 0 .. MaxNodes : x = w[k]
  BY <1>4 DEF WalkFrom
<1>6. ASSUME NEW i \in 1 .. n PROVE p[i] \in WalkFrom(h, f)
  <2>1. PICK k \in 0 .. MaxNodes : k = n - i /\ k < n /\ n - k = i
    BY <1>1
  <2>2. w[k] = p[i]
    BY <2>1 DEF w
  <2>3. p[i] # Null
    BY <1>2 DEF Null
  <2> QED
    BY <1>5, <2>1, <2>2, <2>3
<1>7. ASSUME NEW k \in 0 .. MaxNodes, w[k] # Null PROVE \E i \in 1 .. n : w[k] = p[i]
  <2>1. k < n /\ w[k] = p[n - k]
    BY <1>7 DEF w
  <2>2. n - k \in 1 .. n
    BY <1>1, <2>1
  <2> QED
    BY <2>1, <2>2
<1> QED
  BY <1>5, <1>6, <1>7

\* Nothing but the list's head and the pointers of its nodes make the list.
SameList == Listed' = Listed /\ ListEnds'

LEMMA PathListed ==
  ASSUME NEW n \in Nat, NEW p \in [1 .. n -> Nodes], Path(freeListHead, freeListNext, n, p)
  PROVE  Listed = {p[i] : i \in 1 .. n}
BY WalkIsPath, ListedIsWalk

LEMMA PathListedNext ==
  ASSUME NEW n \in Nat, NEW p \in [1 .. n -> Nodes], Path(freeListHead', freeListNext', n, p)
  PROVE  Listed' = {p[i] : i \in 1 .. n} /\ ListEnds'
<1>1. (Listed = WalkFrom(freeListHead, freeListNext))'
  BY ListedIsWalk, PTL
<1>2. Listed' = WalkFrom(freeListHead', freeListNext')
  BY <1>1 DEF WalkFrom, Hops, Nodes, Null
<1> QED
  BY <1>2, WalkIsPath DEF ListEnds

LEMMA ListedNodes == ASSUME ListEnds PROVE Listed \subseteq Nodes
BY PathListed DEF ListEnds

LEMMA HeadListed ==
  ASSUME ListEnds, freeListHead # Null
  PROVE  freeListHead \in Listed
<1>0. PICK n \in Nat : \E p \in [1 .. n -> Nodes] : Path(freeListHead, freeListNext, n, p)
  BY DEF ListEnds
<1>1. PICK p \in [1 .. n -> Nodes] : Path(freeListHead, freeListNext, n, p)
  BY <1>0
<1>2. n # 0 /\ freeListHead = p[n]
  BY <1>1 DEF Path
<1> QED
  BY <1>1, <1>2, PathListed

LEMMA ListStays ==
  ASSUME ListEnds, freeListHead' = freeListHead, freeListNext' = freeListNext
  PROVE  SameList
<1>0. PICK n \in Nat : \E p \in [1 .. n -> Nodes] : Path(freeListHead, freeListNext, n, p)
  BY DEF ListEnds
<1>1. PICK p \in [1 .. n -> Nodes] : Path(freeListHead, freeListNext, n, p)
  BY <1>0
<1>2. Path(freeListHead', freeListNext', n, p)
  BY <1>1
<1> QED
  BY <1>1, <1>2, PathListed, PathListedNext DEF SameList

\* A node that is not on the list may point anywhere.
LEMMA ListKeeps ==
  ASSUME ListEnds, FreeListTypes, NEW x \in Nodes, x \notin Listed, NEW v,
         freeListHead' = freeListHead, freeListNext' = [freeListNext EXCEPT ![x] = v]
  PROVE  SameList
<1>0. PICK n \in Nat : \E p \in [1 .. n -> Nodes] : Path(freeListHead, freeListNext, n, p)
  BY DEF ListEnds
<1>1. PICK p \in [1 .. n -> Nodes] : Path(freeListHead, freeListNext, n, p)
  BY <1>0
<1>2. \A i \in 1 .. n : p[i] # x /\ p[i] \in Nodes
  BY <1>1, PathListed
<1>3. \A i \in 1 .. n : freeListNext'[p[i]] = freeListNext[p[i]]
  BY <1>2 DEF FreeListTypes
<1>4. Path(freeListHead', freeListNext', n, p)
  BY <1>1, <1>3 DEF Path
<1> QED
  BY <1>1, <1>4, PathListed, PathListedNext DEF SameList

LEMMA ListPops ==
  ASSUME ListEnds, freeListHead # Null,
         freeListHead' = freeListNext[freeListHead], freeListNext' = freeListNext
  PROVE  Listed' = Listed \ {freeListHead} /\ ListEnds'
<1>0. PICK n \in Nat : \E p \in [1 .. n -> Nodes] : Path(freeListHead, freeListNext, n, p)
  BY DEF ListEnds
<1>1. PICK p \in [1 .. n -> Nodes] : Path(freeListHead, freeListNext, n, p)
  BY <1>0
<1>2. n # 0 /\ freeListHead = p[n]
  BY <1>1 DEF Path
<1>3. PICK m \in Nat : m = n - 1
  BY <1>2
<1>4. PICK q \in [1 .. m -> Nodes] : q = [i \in 1 .. m |-> p[i]]
  <2>1. \A i \in 1 .. m : p[i] \in Nodes
    BY <1>3
  <2> QED
    BY <2>1
<1>5. \A i \in 1 .. m : i \in 1 .. n /\ q[i] = p[i]
  BY <1>3, <1>4
<1>6. Path(freeListHead', freeListNext', m, q)
  <2>1. freeListHead' = IF n = 1 THEN Null ELSE p[n - 1]
    BY <1>1, <1>2 DEF Path
  <2>2. freeListHead' = IF m = 0 THEN Null ELSE q[m]
    <3>1. m # 0 => q[m] = p[m] /\ m \in 1 .. m
      BY <1>5
    <3> QED
      BY <1>2, <1>3, <2>1, <3>1
  <2>3. ASSUME NEW i \in 1 .. m
        PROVE  freeListNext'[q[i]] = IF i = 1 THEN Null ELSE q[i - 1]
    <3>1. freeListNext[p[i]] = IF i = 1 THEN Null ELSE p[i - 1]
      BY <1>1, <1>5 DEF Path
    <3>2. i # 1 => i - 1 \in 1 .. m
      OBVIOUS
    <3> QED
      BY <1>5, <3>1, <3>2
  <2>4. \A i, j \in 1 .. m : i # j => q[i] # q[j]
    BY <1>1, <1>5 DEF Path
  <2> QED
    BY <2>2, <2>3, <2>4 DEF Path
<1>7. {q[i] : i \in 1 .. m} = {p[i] : i \in 1 .. n} \ {p[n]}
  <2>1. \A i \in 1 .. n : i \in 1 .. m \/ i = n
    BY <1>3
  <2>2. \A i \in 1 .. m : i \in 1 .. n /\ i # n
    BY <1>3
  <2>3. n \in 1 .. n
    BY <1>2
  <2>4. \A i \in 1 .. m : p[i] # p[n]
    BY <1>1, <2>2, <2>3 DEF Path
  <2> QED
    BY <1>5, <2>1, <2>2, <2>4
<1> QED
  BY <1>1, <1>2, <1>6, <1>7, PathListed, PathListedNext

LEMMA ListPushes ==
  ASSUME ListEnds, NEW x \in Nodes, x \notin Listed, freeListNext[x] = freeListHead,
         freeListHead' = x, freeListNext' = freeListNext
  PROVE  Listed' = Listed \cup {x} /\ ListEnds'
<1>0. PICK n \in Nat : \E p \in [1 .. n -> Nodes] : Path(freeListHead, freeListNext, n, p)
  BY DEF ListEnds
<1>1. PICK p \in [1 .. n -> Nodes] : Path(freeListHead, freeListNext, n, p)
  BY <1>0
<1>2. PICK m \in Nat : m = n + 1
  OBVIOUS
<1>3. PICK q \in [1 .. m -> Nodes] : q = [i \in 1 .. m |-> IF i = m THEN x ELSE p[i]]
  <2>1. \A i \in 1 .. m : (IF i = m THEN x ELSE p[i]) \in Nodes
    BY <1>2
  <2> QED
    BY <2>1
<1>4. /\ \A i \in 1 .. n : i \in 1 .. m /\ q[i] = p[i] /\ i # m
      /\ q[m] = x /\ m \in 1 .. m /\ m # 0
      /\ \A i \in 1 .. m : i \in 1 .. n \/ i = m
  BY <1>2, <1>3
<1>5. \A i \in 1 .. n : p[i] # x
  BY <1>1, PathListed
<1>6. Path(freeListHead', freeListNext', m, q)
  <2>1. ASSUME NEW i \in 1 .. m
        PROVE  freeListNext'[q[i]] = IF i = 1 THEN Null ELSE q[i - 1]
    <3>1. CASE i \in 1 .. n
      <4>1. freeListNext[p[i]] = IF i = 1 THEN Null ELSE p[i - 1]
        BY <1>1, <3>1 DEF Path
      <4>2. i # 1 => i - 1 \in 1 .. n
        BY <3>1
      <4> QED
        BY <1>4, <3>1, <4>1, <4>2
    <3>2. CASE i = m
      <4>1. freeListNext'[q[i]] = IF n = 0 THEN Null ELSE p[n]
        BY <1>1, <1>4, <3>2 DEF Path
      <4>2. (n = 0 <=> i = 1) /\ (n # 0 => n \in 1 .. n) /\ i - 1 = n
        BY <1>2, <3>2
      <4> QED
        BY <1>4, <4>1, <4>2
    <3> QED
      BY <1>4, <3>1, <3>2
  <2>2. \A i, j \in 1 .. m : i # j => q[i] # q[j]
    BY <1>1, <1>4, <1>5 DEF Path
  <2> QED
    BY <1>4, <2>1, <2>2 DEF Path
<1>7. {q[i] : i \in 1 .. m} = {p[i] : i \in 1 .. n} \cup {x}
  BY <1>4
<1> QED
  BY <1>1, <1>6, <1>7, PathListed, PathListedNext

-----------------------------------------------------------------------------
(* A step of one thread, seen from a node.                                 *)

SameRoles(r, e, m) ==
  /\ Refers(e, m) <=> Refers(r, m)
  /\ Adds(e, m) <=> Adds(r, m)
  /\ Pushes(e, m) <=> Pushes(r, m)
  /\ Pops(e, m) <=> Pops(r, m)

\* The step of t, which becomes e, is not about the node m.
Elsewhere(t, e, m) ==
  /\ SameRoles(thr[t], e, m)
  /\ \A s \in Threads : m \in held'[s] <=> m \in held[s]
  /\ m \in Listed' <=> m \in Listed
  /\ Given(m)' <=> Given(m)
  /\ freeListRefs'[m] = freeListRefs[m]

\* t becomes e.
Becomes(t, e) == t \in Threads /\ e \in ThreadRecords /\ thr' = [thr EXCEPT ![t] = e]

LEMMA BecomesNow ==
  ASSUME FreeListTypes, NEW t, NEW e, Becomes(t, e)
  PROVE  /\ thr' \in [Threads -> ThreadRecords] /\ thr'[t] = e
         /\ \A s \in Threads : s # t => thr'[s] = thr[s]
BY DEF FreeListTypes, Becomes

LEMMA ReferringFinite ==
  ASSUME NEW n
  PROVE  /\ IsFiniteSet(Referring(n)) /\ Cardinality(Referring(n)) \in Nat
         /\ Cardinality(Referring(n)) <= Cardinality(Threads) /\ Cardinality(Threads) \in Nat
<1>1. Referring(n) \in SUBSET Threads /\ IsFiniteSet(Threads)
  BY FreeListAssumption DEF Referring, FreeListAssumption
<1> QED
  BY <1>1, FS_Subset, FS_CardinalityType

LEMMA ReferringMoves ==
  ASSUME FreeListTypes, NEW t, NEW e, Becomes(t, e), NEW n
  PROVE  /\ (Refers(e, n) <=> Refers(thr[t], n)) => Referring(n)' = Referring(n)
         /\ Refers(e, n) /\ ~ Refers(thr[t], n) =>
              Cardinality(Referring(n)') = Cardinality(Referring(n)) + 1 /\ Referring(n)' # {}
         /\ ~ Refers(e, n) /\ Refers(thr[t], n) =>
              Cardinality(Referring(n)') = Cardinality(Referring(n)) - 1
<1>1. t \in Threads /\ thr'[t] = e /\ \A s \in Threads : s # t => thr'[s] = thr[s]
  BY BecomesNow DEF Becomes
<1>2. Referring(n)' = {s \in Threads : Refers(thr'[s], n)}
  BY DEF Referring, Refers
<1>3. CASE Refers(e, n) <=> Refers(thr[t], n)
  <2>1. \A s \in Threads : Refers(thr'[s], n) <=> Refers(thr[s], n)
    BY <1>1, <1>3
  <2>2. Referring(n)' = Referring(n)
    BY <1>2, <2>1 DEF Referring
  <2> QED
    BY <1>3, <2>2
<1>4. CASE Refers(e, n) /\ ~ Refers(thr[t], n)
  <2>1. Referring(n)' = Referring(n) \cup {t} /\ t \notin Referring(n)
    BY <1>1, <1>2, <1>4 DEF Referring
  <2>2. Cardinality(Referring(n) \cup {t}) = Cardinality(Referring(n)) + 1
    BY <2>1, ReferringFinite, FS_AddElement
  <2> QED
    BY <1>4, <2>1, <2>2
<1>5. CASE ~ Refers(e, n) /\ Refers(thr[t], n)
  <2>1. Referring(n)' = Referring(n) \ {t} /\ t \in Referring(n)
    BY <1>1, <1>2, <1>5 DEF Referring
  <2>2. Cardinality(Referring(n) \ {t}) = Cardinality(Referring(n)) - 1
    BY <2>1, ReferringFinite, FS_RemoveElement
  <2> QED
    BY <1>5, <2>1, <2>2
<1> QED
  BY <1>3, <1>4, <1>5

\* What the roles of the threads say of a node's kind, read from either side.
LEMMA KindOf ==
  ASSUME NEW n, NEW k \in Kinds, NEW o, Placed(n, k, o), NEW t \in Threads
  PROVE  /\ n \in held[t] <=> k = "held" /\ t = o
         /\ Adds(thr[t], n) <=> k = "adding" /\ t = o
         /\ Pushes(thr[t], n) <=> k = "pushing" /\ t = o
         /\ Pops(thr[t], n) <=> k = "popped" /\ t = o
         /\ Refers(thr[t], n) => Referring(n) # {}
<1>1. Refers(thr[t], n) => t \in Referring(n)
  BY DEF Referring
<1> QED
  BY <1>1 DEF Placed

\* A node that keeps its place: another node, or one whose references change.
LEMMA FitsStill ==
  ASSUME FreeListTypes, NEW t, NEW e, Becomes(t, e), NEW n \in Nodes,
         NEW k \in Kinds, NEW o, Placed(n, k, o),
         Adds(e, n) <=> Adds(thr[t], n), Pushes(e, n) <=> Pushes(thr[t], n),
         Pops(e, n) <=> Pops(thr[t], n),
         \A s \in Threads : n \in held'[s] <=> n \in held[s],
         n \in Listed' <=> n \in Listed, Given(n)' <=> Given(n),
         freeListRefs'[n] = BaseOf(k) + Cardinality(Referring(n)'),
         k \in {"fresh", "adding"} => Referring(n)' = {},
         k = "flagged" => Referring(n)' # {}
  PROVE  Placed(n, k, o)'
<1>1. t \in Threads /\ thr'[t] = e /\ \A s \in Threads : s # t => thr'[s] = thr[s]
  BY BecomesNow DEF Becomes
<1>2. ASSUME NEW s \in Threads
      PROVE  /\ n \in held'[s] <=> k = "held" /\ s = o
             /\ Adds(thr'[s], n) <=> k = "adding" /\ s = o
             /\ Pushes(thr'[s], n) <=> k = "pushing" /\ s = o
             /\ Pops(thr'[s], n) <=> k = "popped" /\ s = o
  <2>1. /\ n \in held[s] <=> k = "held" /\ s = o
        /\ Adds(thr[s], n) <=> k = "adding" /\ s = o
        /\ Pushes(thr[s], n) <=> k = "pushing" /\ s = o
        /\ Pops(thr[s], n) <=> k = "popped" /\ s = o
    BY KindOf
  <2>2. n \in held'[s] <=> n \in held[s]
    OBVIOUS
  <2>3. /\ Adds(thr'[s], n) <=> Adds(thr[s], n)
        /\ Pushes(thr'[s], n) <=> Pushes(thr[s], n)
        /\ Pops(thr'[s], n) <=> Pops(thr[s], n)
    <3>1. CASE s = t
      BY <1>1, <3>1
    <3>2. CASE s # t
      BY <1>1, <3>2
    <3> QED
      BY <3>1, <3>2
  <2> QED
    BY <2>1, <2>2, <2>3
<1> QED
  BY <1>2 DEF Placed, BaseOf, Flag, Adds, Pushes, Pops

\* A node that moves to or from the thread t.
LEMMA FitsAnew ==
  ASSUME FreeListTypes, NEW t, NEW e, Becomes(t, e), NEW n \in Nodes,
         NEW k \in Kinds, NEW o, Placed(n, k, o),
         k \in {"held", "adding", "pushing", "popped"} => o = t,
         NEW l \in Kinds,
         \A s \in Threads : s # t => (n \in held'[s] <=> n \in held[s]),
         n \in held'[t] <=> l = "held",
         Adds(e, n) <=> l = "adding", Pushes(e, n) <=> l = "pushing", Pops(e, n) <=> l = "popped",
         n \in Listed' <=> l = "listed", Given(n)' <=> l # "fresh",
         freeListRefs'[n] = BaseOf(l) + Cardinality(Referring(n)'),
         l \in {"fresh", "adding"} => Referring(n)' = {},
         l = "flagged" => Referring(n)' # {}
  PROVE  Placed(n, l, t)'
<1>1. t \in Threads /\ thr'[t] = e /\ \A s \in Threads : s # t => thr'[s] = thr[s]
  BY BecomesNow DEF Becomes
<1>2. ASSUME NEW s \in Threads
      PROVE  /\ n \in held'[s] <=> l = "held" /\ s = t
             /\ Adds(thr'[s], n) <=> l = "adding" /\ s = t
             /\ Pushes(thr'[s], n) <=> l = "pushing" /\ s = t
             /\ Pops(thr'[s], n) <=> l = "popped" /\ s = t
  <2>1. CASE s = t
    BY <1>1, <2>1
  <2>2. CASE s # t
    BY <1>1, <2>2, KindOf
  <2> QED
    BY <2>1, <2>2
<1> QED
  BY <1>1, <1>2 DEF Placed, BaseOf, Flag, Adds, Pushes, Pops

LEMMA OthersStay ==
  ASSUME FreeListTypes, NodesFit, NEW t, NEW e, Becomes(t, e), NEW n,
         \A m \in Nodes : m # n => Elsewhere(t, e, m),
         n \in Nodes => \E k \in Kinds, o \in Threads \cup {Null} : Placed(n, k, o)'
  PROVE  NodesFit'
<1>1. ASSUME NEW m \in Nodes, m # n
      PROVE  \E k \in Kinds, o \in Threads \cup {Null} : Placed(m, k, o)'
  <2>1. PICK k \in Kinds, o \in Threads \cup {Null} : Placed(m, k, o)
    BY DEF NodesFit
  <2>2. Elsewhere(t, e, m)
    BY <1>1
  <2>3. Referring(m)' = Referring(m)
    BY <2>2, ReferringMoves DEF Elsewhere, SameRoles
  <2>4. Placed(m, k, o)'
    <3>1. /\ freeListRefs'[m] = BaseOf(k) + Cardinality(Referring(m)')
          /\ k \in {"fresh", "adding"} => Referring(m)' = {}
          /\ k = "flagged" => Referring(m)' # {}
      BY <2>1, <2>2, <2>3 DEF Elsewhere, Placed
    <3> QED
      BY <2>1, <2>2, <3>1, FitsStill DEF Elsewhere, SameRoles
  <2> QED
    BY <2>4
<1>2. \A m \in Nodes : \E k \in Kinds, o \in Threads \cup {Null} : Placed(m, k, o)'
  BY <1>1
<1> QED
  BY <1>2 DEF NodesFit

LEMMA StepKeeps ==
  ASSUME FreeListInv, NEW t, NEW e, Becomes(t, e), ThreadFits(e), freeListNext' = freeListNext,
         freeListHead' \in Nodes \cup {Null}, freeListRefs' \in [Nodes -> Nat],
         initialBlockPoolIndex' \in Nat, made' \in Nat, PoolSize + made' <= MaxNodes,
         held' \in [Threads -> SUBSET Nodes], ListEnds', NEW n,
         \A m \in Nodes : m # n => Elsewhere(t, e, m),
         n \in Nodes => \E k \in Kinds, o \in Threads \cup {Null} : Placed(n, k, o)'
  PROVE  FreeListInv'
<1>1. FreeListTypes /\ NodesFit
  BY DEF FreeListInv
<1>2. FreeListTypes'
  BY <1>1, BecomesNow DEF FreeListTypes
<1>3. NodesFit'
  BY <1>1, OthersStay
<1>4. ASSUME NEW s \in Threads PROVE ThreadFits(thr[s])'
  <2>1. ThreadFits(thr[s])
    BY DEF FreeListInv
  <2>2. CASE s = t
    <3>1. thr'[s] = e
      BY <1>1, <2>2, BecomesNow
    <3> QED
      BY <3>1 DEF ThreadFits, Flag, Nodes
  <2>3. CASE s # t
    <3>1. thr'[s] = thr[s]
      BY <1>1, <2>3, BecomesNow
    <3> QED
      BY <2>1, <3>1 DEF ThreadFits, Flag, Nodes
  <2> QED
    BY <2>2, <2>3
<1> QED
  BY <1>2, <1>3, <1>4 DEF FreeListInv

\* A step of a thread that changes nothing about any node.
LEMMA LoadsStep ==
  ASSUME FreeListInv, NEW t, NEW e, Becomes(t, e), ThreadFits(e), UNCHANGED <<list, pool, held>>,
         \A m \in Nodes : SameRoles(thr[t], e, m)
  PROVE  FreeListInv'
<1>1. /\ freeListHead' = freeListHead /\ freeListRefs' = freeListRefs /\ freeListNext' = freeListNext
      /\ initialBlockPoolIndex' = initialBlockPoolIndex /\ made' = made /\ held' = held
  BY DEF list, pool
<1>2. Listed' = Listed /\ ListEnds'
  BY <1>1, ListStays DEF SameList, FreeListInv
<1>3. \A m \in Nodes : Elsewhere(t, e, m)
  BY <1>1, <1>2 DEF Elsewhere, Given
<1>4. FreeListTypes /\ Null \notin Nodes
  BY DEF FreeListInv, Nodes, Null
<1> QED
  BY <1>1, <1>2, <1>3, <1>4, StepKeeps DEF FreeListTypes

LEMMA RecordFields ==
  ASSUME NEW r \in ThreadRecords
  PROVE  /\ r.head \in Nodes \cup {Null} /\ r.refs \in Nat /\ r.next \in Nodes \cup {Null}
         /\ r.node \in Nodes \cup {Null} /\ r.top \in Nodes \cup {Null} /\ r.then \in {"idle", "again"}
BY DEF ThreadRecords

\* Before it has a node, a thread has no part in any.
LEMMA NoRole ==
  ASSUME NEW e, e.pc \in {"idle", "pool", "none", "head", "refs", "ref"}
  PROVE  \A m : ~ Refers(e, m) /\ ~ Adds(e, m) /\ ~ Pushes(e, m) /\ ~ Pops(e, m)
BY DEF Refers, Adds, Pushes, Pops

LEMMA AtRecord ==
  ASSUME NEW r \in ThreadRecords,
         NEW pc \in {"idle", "pool", "none", "head", "refs", "ref", "next", "pop", "popped", "unref",
                     "top", "link", "expose", "push", "retry"}
  PROVE  [r EXCEPT !.pc = pc] \in ThreadRecords
BY Zenon DEF ThreadRecords

LEMMA IdleRecord == Idle \in ThreadRecords /\ Idle.pc = "idle"
BY DEF Idle, ThreadRecords

LEMMA WithRecord ==
  ASSUME NEW t, NEW h \in Nodes \cup {Null}
  PROVE  /\ With(t, h) \in ThreadRecords /\ ThreadFits(With(t, h))
         /\ With(t, h).pc \in {"none", "refs"}
<1>1. PICK e : e = With(t, h)
  OBVIOUS
<1>2. PICK pc \in {"none", "refs"} : pc = IF h = Null THEN "none" ELSE "refs"
  OBVIOUS
<1>3. e = [Idle EXCEPT !.pc = pc, !.head = h]
  BY <1>1, <1>2 DEF With
<1>4. e = [pc |-> pc, head |-> h, refs |-> 0, next |-> Null,
           node |-> Null, top |-> Null, then |-> "idle"]
  BY <1>3 DEF Idle
<1>5. e \in ThreadRecords
  BY <1>4 DEF ThreadRecords
<1>6. e.pc = pc /\ e.head = h
  BY <1>4
<1>7. ThreadFits(e)
  BY <1>2, <1>6 DEF ThreadFits
<1> QED
  BY <1>1, <1>5, <1>6, <1>7

\* What the invariant says of a thread.
LEMMA ThreadNow ==
  ASSUME FreeListInv, NEW t \in Threads
  PROVE  FreeListTypes /\ ListEnds /\ NodesFit /\ thr[t] \in ThreadRecords /\ ThreadFits(thr[t])
BY DEF FreeListInv, FreeListTypes

-----------------------------------------------------------------------------
(* The steps that are about no node.                                       *)

LEMMA RoleToNone ==
  ASSUME NEW r, NEW e, r.pc \in {"idle", "pool", "none", "head", "refs", "ref"},
         e.pc \in {"idle", "pool", "none", "head", "refs", "ref"}
  PROVE  \A m \in Nodes : SameRoles(r, e, m)
BY NoRole DEF SameRoles

LEMMA RequisitionStep == ASSUME FreeListInv, NEW t \in Threads, Requisition(t) PROVE FreeListInv'
<1>1. PICK r \in ThreadRecords : r = thr[t] /\ r.pc = "idle"
  BY ThreadNow DEF Requisition, Goes
<1>2. PICK pc \in {"pool", "head"} : pc = IF initialBlockPoolIndex < PoolSize THEN "pool" ELSE "head"
  OBVIOUS
<1>3. PICK e : e = [r EXCEPT !.pc = pc]
  OBVIOUS
<1>4. e \in ThreadRecords /\ e.pc = pc
  <2>1. e \in ThreadRecords
    BY <1>3, AtRecord
  <2>2. e.pc = pc
    BY <1>3 DEF ThreadRecords
  <2> QED
    BY <2>1, <2>2
<1>5. Becomes(t, e) /\ UNCHANGED <<list, pool, held>>
  BY <1>1, <1>2, <1>3, <1>4 DEF Requisition, Goes, At, Becomes
<1>6. ThreadFits(e)
  BY <1>4 DEF ThreadFits
<1> QED
  BY <1>1, <1>4, <1>5, <1>6, RoleToNone, LoadsStep

LEMMA LoadHeadStep == ASSUME FreeListInv, NEW t \in Threads, LoadHead(t) PROVE FreeListInv'
<1>1. PICK r \in ThreadRecords : r = thr[t] /\ r.pc = "head"
  BY ThreadNow DEF LoadHead, Goes
<1>2. freeListHead \in Nodes \cup {Null}
  BY ThreadNow DEF FreeListTypes
<1>3. PICK e : e = With(t, freeListHead)
  OBVIOUS
<1>4. e \in ThreadRecords /\ ThreadFits(e) /\ e.pc \in {"none", "refs"}
  BY <1>2, <1>3, WithRecord
<1>5. Becomes(t, e) /\ UNCHANGED <<list, pool, held>>
  BY <1>3, <1>4 DEF LoadHead, Goes, Becomes
<1> QED
  BY <1>1, <1>4, <1>5, RoleToNone, LoadsStep

LEMMA LoadRefsStep == ASSUME FreeListInv, NEW t \in Threads, LoadRefs(t) PROVE FreeListInv'
<1>1. PICK r \in ThreadRecords : r = thr[t] /\ r.pc = "refs" /\ ThreadFits(r)
  BY ThreadNow DEF LoadRefs, Goes
<1>2. r.head \in Nodes
  BY <1>1 DEF ThreadFits
<1>3. PICK n \in Nat : n = freeListRefs[r.head]
  BY <1>2, ThreadNow DEF FreeListTypes
<1>4. CASE n % Flag = 0
  <2>1. PICK e : e = [r EXCEPT !.pc = "head"]
    OBVIOUS
  <2>2. e \in ThreadRecords /\ e.pc = "head"
    <3>1. e \in ThreadRecords
      BY <2>1, AtRecord
    <3>2. e.pc = "head"
      BY <2>1 DEF ThreadRecords
    <3> QED
      BY <3>1, <3>2
  <2>3. Becomes(t, e) /\ UNCHANGED <<list, pool, held>>
    BY <1>1, <1>3, <1>4, <2>1, <2>2 DEF LoadRefs, Goes, At, Becomes
  <2>4. ThreadFits(e)
    BY <2>2 DEF ThreadFits
  <2> QED
    BY <1>1, <2>2, <2>3, <2>4, RoleToNone, LoadsStep
<1>5. CASE n % Flag # 0
  <2>1. PICK e : e = [r EXCEPT !.pc = "ref", !.refs = n]
    OBVIOUS
  <2>2. e \in ThreadRecords
    BY <2>1, Zenon DEF ThreadRecords
  <2>3. e.pc = "ref" /\ e.refs = n /\ e.head = r.head
    BY <2>1 DEF ThreadRecords
  <2>4. Becomes(t, e) /\ UNCHANGED <<list, pool, held>>
    BY <1>1, <1>3, <1>5, <2>1, <2>2 DEF LoadRefs, Goes, At, Becomes
  <2>5. ThreadFits(e)
    BY <1>2, <1>5, <2>3 DEF ThreadFits
  <2> QED
    BY <1>1, <2>2, <2>3, <2>4, <2>5, RoleToNone, LoadsStep
<1> QED
  BY <1>4, <1>5

LEMMA LoadNextStep == ASSUME FreeListInv, NEW t \in Threads, LoadNext(t) PROVE FreeListInv'
<1>1. PICK r \in ThreadRecords : r = thr[t] /\ r.pc = "next" /\ ThreadFits(r)
  BY ThreadNow DEF LoadNext, Goes
<1>2. r.head \in Nodes
  BY <1>1 DEF ThreadFits
<1>3. PICK n \in Nodes \cup {Null} : n = freeListNext[r.head]
  BY <1>2, ThreadNow DEF FreeListTypes
<1>4. PICK e : e = [r EXCEPT !.pc = "pop", !.next = n]
  OBVIOUS
<1>5. e \in ThreadRecords
  BY <1>4, Zenon DEF ThreadRecords
<1>6. e.pc = "pop" /\ e.next = n /\ e.head = r.head
  BY <1>4 DEF ThreadRecords
<1>7. Becomes(t, e) /\ UNCHANGED <<list, pool, held>>
  BY <1>1, <1>3, <1>4, <1>5 DEF LoadNext, Goes, At, Becomes
<1>8. ThreadFits(e)
  BY <1>2, <1>3, <1>6 DEF ThreadFits
<1>9. \A m \in Nodes : SameRoles(thr[t], e, m)
  BY <1>1, <1>6 DEF SameRoles, Refers, Adds, Pushes, Pops
<1> QED
  BY <1>7, <1>8, <1>9, LoadsStep

LEMMA LoadTopStep == ASSUME FreeListInv, NEW t \in Threads, LoadTop(t) PROVE FreeListInv'
<1>1. PICK r \in ThreadRecords : r = thr[t] /\ r.pc = "top" /\ ThreadFits(r)
  BY ThreadNow DEF LoadTop, Goes
<1>2. r.node \in Nodes
  BY <1>1 DEF ThreadFits
<1>3. PICK h \in Nodes \cup {Null} : h = freeListHead
  BY ThreadNow DEF FreeListTypes
<1>4. PICK e : e = [r EXCEPT !.pc = "link", !.top = h]
  OBVIOUS
<1>5. e \in ThreadRecords
  BY <1>4, Zenon DEF ThreadRecords
<1>6. e.pc = "link" /\ e.node = r.node
  BY <1>4 DEF ThreadRecords
<1>7. Becomes(t, e) /\ UNCHANGED <<list, pool, held>>
  BY <1>1, <1>3, <1>4, <1>5 DEF LoadTop, Goes, At, Becomes
<1>8. ThreadFits(e)
  BY <1>2, <1>6 DEF ThreadFits
<1>9. \A m \in Nodes : SameRoles(thr[t], e, m)
  BY <1>1, <1>6 DEF SameRoles, Refers, Adds, Pushes, Pops
<1> QED
  BY <1>7, <1>8, <1>9, LoadsStep

-----------------------------------------------------------------------------
(* The references.                                                         *)

LEMMA FlagIsNat == Flag \in Nat /\ Flag > 1 /\ 0 % Flag = 0 /\ Flag % Flag = 0
<1>1. Flag \in Nat /\ Cardinality(Threads) \in Nat /\ Cardinality(Threads) + 1 < Flag
  BY FS_CardinalityType, FreeListAssumption DEF FreeListAssumption, Flag
<1>2. Flag \in Nat /\ Flag > 1
  BY <1>1
<1> QED
  BY <1>2

LEMMA BaseIsNat == ASSUME NEW k \in Kinds PROVE BaseOf(k) \in Nat
BY FlagIsNat DEF BaseOf

LEMMA RefsSet ==
  ASSUME FreeListTypes, NEW n \in Nodes, NEW v \in Nat, SetRefs(n, v)
  PROVE  /\ freeListRefs' \in [Nodes -> Nat] /\ freeListRefs'[n] = v
         /\ \A m \in Nodes : m # n => freeListRefs'[m] = freeListRefs[m]
BY DEF FreeListTypes, SetRefs

\* What the invariant says of a node.
LEMMA NodeNow ==
  ASSUME FreeListInv, NEW n \in Nodes
  PROVE  \E k \in Kinds, o \in Threads \cup {Null}, c \in Nat :
           /\ Placed(n, k, o) /\ c = Cardinality(Referring(n))
           /\ freeListRefs[n] = BaseOf(k) + c /\ freeListRefs[n] \in Nat /\ BaseOf(k) \in Nat
           /\ c <= Cardinality(Threads)
           /\ Referring(n) = {} <=> c = 0
<1>1. PICK k \in Kinds, o \in Threads \cup {Null} : Placed(n, k, o)
  BY DEF FreeListInv, NodesFit
<1>2. PICK c \in Nat : c = Cardinality(Referring(n))
  BY ReferringFinite
<1>3. freeListRefs[n] = BaseOf(k) + c
  BY <1>1, <1>2 DEF Placed
<1>4. freeListRefs[n] \in Nat /\ BaseOf(k) \in Nat
  BY BaseIsNat DEF FreeListInv, FreeListTypes
<1>5. Referring(n) = {} <=> c = 0
  BY <1>2, ReferringFinite, FS_EmptySet
<1>6. c <= Cardinality(Threads)
  BY <1>2, ReferringFinite
<1> QED
  BY <1>1, <1>2, <1>3, <1>4, <1>5, <1>6

\* Only the references to n change, and its count with them.
LEMMA RefsStep ==
  ASSUME FreeListInv, NEW t, NEW e, Becomes(t, e), ThreadFits(e), NEW n \in Nodes, NEW v \in Nat,
         SetRefs(n, v), UNCHANGED <<freeListHead, freeListNext, pool, held>>,
         \A m \in Nodes : m # n => SameRoles(thr[t], e, m),
         Adds(e, n) <=> Adds(thr[t], n), Pushes(e, n) <=> Pushes(thr[t], n),
         Pops(e, n) <=> Pops(thr[t], n),
         NEW k \in Kinds, NEW o \in Threads \cup {Null}, Placed(n, k, o),
         v = BaseOf(k) + Cardinality(Referring(n)'),
         k \notin {"fresh", "adding"},
         k = "flagged" => Referring(n)' # {}
  PROVE  FreeListInv'
<1>1. /\ freeListHead' = freeListHead /\ freeListNext' = freeListNext
      /\ initialBlockPoolIndex' = initialBlockPoolIndex /\ made' = made /\ held' = held
  BY DEF pool
<1>2. Listed' = Listed /\ ListEnds'
  BY <1>1, ListStays DEF SameList, FreeListInv
<1>3. /\ freeListRefs' \in [Nodes -> Nat] /\ freeListRefs'[n] = v
      /\ \A m \in Nodes : m # n => freeListRefs'[m] = freeListRefs[m]
  BY RefsSet DEF FreeListInv
<1>4. \A m \in Nodes : m # n => Elsewhere(t, e, m)
  BY <1>1, <1>2, <1>3 DEF Elsewhere, Given
<1>5. Placed(n, k, o)'
  <2>1. FreeListTypes /\ (Given(n)' <=> Given(n)) /\ (n \in Listed' <=> n \in Listed)
    BY <1>1, <1>2 DEF FreeListInv, Given
  <2>2. \A s \in Threads : n \in held'[s] <=> n \in held[s]
    BY <1>1
  <2> QED
    BY <1>3, <2>1, <2>2, FitsStill
<1>6. FreeListTypes
  BY DEF FreeListInv
<1> QED
  BY <1>1, <1>2, <1>3, <1>4, <1>5, <1>6, StepKeeps DEF FreeListTypes

LEMMA TakeRefStep == ASSUME FreeListInv, NEW t \in Threads, TakeRef(t) PROVE FreeListInv'
<1>1. PICK r \in ThreadRecords : r = thr[t] /\ r.pc = "ref" /\ ThreadFits(r)
  BY ThreadNow DEF TakeRef, Goes
<1>2. PICK n \in Nodes : n = r.head
  BY <1>1 DEF ThreadFits
<1>3. PICK w \in Nat : w = r.refs /\ w % Flag # 0
  BY <1>1, RecordFields DEF ThreadFits
<1>4. CASE freeListRefs[n] = w
  <2>1. PICK e : e = [r EXCEPT !.pc = "next"]
    OBVIOUS
  <2>2. e \in ThreadRecords
    BY <2>1, AtRecord
  <2>3. e.pc = "next" /\ e.head = n
    BY <1>2, <2>1 DEF ThreadRecords
  <2>4. /\ Becomes(t, e) /\ SetRefs(n, w + 1)
        /\ UNCHANGED <<freeListHead, freeListNext, pool, held>>
    BY <1>1, <1>2, <1>3, <1>4, <2>1, <2>2 DEF TakeRef, Goes, At, Becomes
  <2>5. PICK k \in Kinds, o \in Threads \cup {Null}, c \in Nat :
          /\ Placed(n, k, o) /\ c = Cardinality(Referring(n))
          /\ freeListRefs[n] = BaseOf(k) + c /\ BaseOf(k) \in Nat
          /\ Referring(n) = {} <=> c = 0
    BY NodeNow
  <2>6. k \notin {"fresh", "adding"}
    <3>1. ASSUME k \in {"fresh", "adding"} PROVE w = 0 \/ w = Flag
      <4>1. c = 0
        BY <2>5, <3>1 DEF Placed
      <4> QED
        BY <1>4, <2>5, <3>1, <4>1, FlagIsNat DEF BaseOf
    <3> QED
      BY <1>3, <3>1, FlagIsNat
  <2>7. Refers(e, n) /\ ~ Refers(r, n)
    BY <1>1, <2>3 DEF Refers
  <2>8. Cardinality(Referring(n)') = c + 1 /\ Referring(n)' # {}
    BY <1>1, <2>4, <2>5, <2>7, ReferringMoves, ThreadNow
  <2>9. w + 1 = BaseOf(k) + Cardinality(Referring(n)') /\ w + 1 \in Nat
    <3>1. w + 1 = BaseOf(k) + (c + 1)
      BY <1>4, <2>5
    <3> QED
      BY <2>8, <3>1
  <2>10. ThreadFits(e)
    BY <2>3 DEF ThreadFits
  <2>11. \A m \in Nodes : m # n => SameRoles(thr[t], e, m)
    BY <1>1, <2>3 DEF SameRoles, Refers, Adds, Pushes, Pops
  <2>12. (Adds(e, n) <=> Adds(thr[t], n)) /\ (Pushes(e, n) <=> Pushes(thr[t], n))
         /\ (Pops(e, n) <=> Pops(thr[t], n))
    BY <1>1, <2>3 DEF Adds, Pushes, Pops
  <2> QED
    BY <2>4, <2>5, <2>6, <2>8, <2>9, <2>10, <2>11, <2>12, RefsStep
<1>5. CASE freeListRefs[n] # w
  <2>1. PICK e : e = [r EXCEPT !.pc = "head"]
    OBVIOUS
  <2>2. e \in ThreadRecords
    BY <2>1, AtRecord
  <2>3. e.pc = "head"
    BY <2>1 DEF ThreadRecords
  <2>4. Becomes(t, e) /\ UNCHANGED <<list, pool, held>>
    BY <1>1, <1>2, <1>3, <1>5, <2>1, <2>2 DEF TakeRef, Goes, At, Becomes, list
  <2>5. ThreadFits(e)
    BY <2>3 DEF ThreadFits
  <2> QED
    BY <1>1, <2>3, <2>4, <2>5, RoleToNone, LoadsStep
<1> QED
  BY <1>4, <1>5

\* The node n goes to the thread t, or leaves it.
LEMMA MoveStep ==
  ASSUME FreeListInv, NEW t, NEW e, Becomes(t, e), ThreadFits(e), freeListNext' = freeListNext,
         freeListHead' \in Nodes \cup {Null}, ListEnds',
         NEW n \in Nodes, NEW v \in Nat, freeListRefs' \in [Nodes -> Nat], freeListRefs'[n] = v,
         \A m \in Nodes : m # n => freeListRefs'[m] = freeListRefs[m],
         initialBlockPoolIndex' \in Nat, made' \in Nat, PoolSize + made' <= MaxNodes,
         held' \in [Threads -> SUBSET Nodes],
         \A m \in Nodes : m # n =>
           /\ SameRoles(thr[t], e, m)
           /\ \A s \in Threads : m \in held'[s] <=> m \in held[s]
           /\ (m \in Listed' <=> m \in Listed) /\ (Given(m)' <=> Given(m)),
         NEW k \in Kinds, NEW o \in Threads \cup {Null}, Placed(n, k, o),
         k \in {"held", "adding", "pushing", "popped"} => o = t,
         NEW l \in Kinds,
         \A s \in Threads : s # t => (n \in held'[s] <=> n \in held[s]),
         n \in held'[t] <=> l = "held",
         Adds(e, n) <=> l = "adding", Pushes(e, n) <=> l = "pushing", Pops(e, n) <=> l = "popped",
         n \in Listed' <=> l = "listed", Given(n)' <=> l # "fresh",
         v = BaseOf(l) + Cardinality(Referring(n)'),
         l \in {"fresh", "adding"} => Referring(n)' = {},
         l = "flagged" => Referring(n)' # {}
  PROVE  FreeListInv'
<1>1. FreeListTypes /\ t \in Threads
  BY DEF FreeListInv, Becomes
<1>2. Placed(n, l, t)'
  BY <1>1, FitsAnew
<1>3. \A m \in Nodes : m # n => Elsewhere(t, e, m)
  BY DEF Elsewhere
<1>4. \E j \in Kinds, u \in Threads \cup {Null} : Placed(n, j, u)'
  BY <1>1, <1>2
<1> QED
  BY <1>3, <1>4, StepKeeps

LEMMA HeldSet ==
  ASSUME FreeListTypes, NEW t \in Threads, NEW n \in Nodes, Gets(t, n)
  PROVE  /\ held' \in [Threads -> SUBSET Nodes] /\ n \in held'[t]
         /\ \A s \in Threads : s # t => (n \in held'[s] <=> n \in held[s])
         /\ \A m \in Nodes : m # n => \A s \in Threads : m \in held'[s] <=> m \in held[s]
BY DEF FreeListTypes, Gets

LEMMA PopStep == ASSUME FreeListInv, NEW t \in Threads, Pop(t) PROVE FreeListInv'
<1>1. PICK r \in ThreadRecords : r = thr[t] /\ r.pc = "pop" /\ ThreadFits(r)
  BY ThreadNow DEF Pop, Goes
<1>2. PICK n \in Nodes : n = r.head
  BY <1>1 DEF ThreadFits
<1>3. PICK h \in Nodes \cup {Null} : h = freeListHead
  BY ThreadNow DEF FreeListTypes
<1>4. freeListRefs' = freeListRefs /\ freeListNext' = freeListNext /\ held' = held
      /\ initialBlockPoolIndex' = initialBlockPoolIndex /\ made' = made
  BY DEF Pop, pool
<1>5. CASE h = n
  <2>1. PICK e : e = [r EXCEPT !.pc = "popped"]
    OBVIOUS
  <2>2. e \in ThreadRecords
    BY <2>1, AtRecord
  <2>3. e.pc = "popped" /\ e.head = n
    BY <1>2, <2>1 DEF ThreadRecords
  <2>4. Becomes(t, e) /\ freeListHead' = r.next
    BY <1>1, <1>2, <1>3, <1>5, <2>1, <2>2 DEF Pop, Goes, At, Becomes
  <2>5. freeListHead = n /\ n # Null /\ freeListHead' = freeListNext[freeListHead]
    BY <1>1, <1>2, <1>3, <1>5, <2>4 DEF ThreadFits, Nodes, Null
  <2>6. Listed' = Listed \ {n} /\ ListEnds' /\ n \in Listed
    BY <1>4, <2>5, ListPops, HeadListed, ThreadNow
  <2>7. PICK k \in Kinds, o \in Threads \cup {Null}, c \in Nat :
          /\ Placed(n, k, o) /\ c = Cardinality(Referring(n))
          /\ freeListRefs[n] = BaseOf(k) + c /\ freeListRefs[n] \in Nat
    BY NodeNow
  <2>8. k = "listed" /\ Given(n)
    BY <2>6, <2>7 DEF Placed
  <2>9. Referring(n)' = Referring(n)
    <3>1. Refers(e, n) /\ Refers(thr[t], n)
      BY <1>1, <1>2, <2>3 DEF Refers
    <3> QED
      BY <2>4, <3>1, ReferringMoves, ThreadNow
  <2>10. PICK v \in Nat : v = freeListRefs[n]
    BY <2>7
  <2>11. v = BaseOf("popped") + Cardinality(Referring(n)')
    BY <2>7, <2>8, <2>9, <2>10 DEF BaseOf
  <2>12. \A m \in Nodes : m # n =>
           /\ SameRoles(thr[t], e, m)
           /\ \A s \in Threads : m \in held'[s] <=> m \in held[s]
           /\ (m \in Listed' <=> m \in Listed) /\ (Given(m)' <=> Given(m))
    <3>1. \A m \in Nodes : m # n => SameRoles(thr[t], e, m)
      BY <1>1, <1>2, <2>3 DEF SameRoles, Refers, Adds, Pushes, Pops
    <3>2. \A m \in Nodes : m # n => (m \in Listed' <=> m \in Listed)
      BY <2>6
    <3>3. \A m \in Nodes : Given(m)' <=> Given(m)
      BY <1>4 DEF Given
    <3> QED
      BY <1>4, <3>1, <3>2, <3>3
  <2>13. n \notin held'[t] /\ ~ Adds(e, n) /\ ~ Pushes(e, n) /\ Pops(e, n)
    <3>1. n \notin held[t]
      BY <2>7, <2>8, KindOf
    <3> QED
      BY <1>4, <2>3, <3>1 DEF Adds, Pushes, Pops
  <2>14. "popped" \in Kinds /\ n \notin Listed' /\ Given(n)'
    BY <1>4, <2>6, <2>8 DEF Kinds, Given
  <2>15. ThreadFits(e)
    BY <2>3 DEF ThreadFits
  <2>16. /\ freeListHead' \in Nodes \cup {Null} /\ freeListRefs' \in [Nodes -> Nat]
         /\ initialBlockPoolIndex' \in Nat /\ made' \in Nat /\ PoolSize + made' <= MaxNodes
         /\ held' \in [Threads -> SUBSET Nodes]
    BY <1>4, <2>4, RecordFields, ThreadNow DEF FreeListTypes
  <2> QED
    BY <1>4, <2>4, <2>6, <2>7, <2>8, <2>10, <2>11, <2>12, <2>13, <2>14, <2>15, <2>16, MoveStep
<1>6. CASE h # n
  <2>1. PICK e : e = [r EXCEPT !.pc = "unref", !.head = h, !.node = n]
    OBVIOUS
  <2>2. e \in ThreadRecords
    <3>1. n \in Nodes \cup {Null}
      OBVIOUS
    <3> QED
      BY <2>1, <3>1, Zenon DEF ThreadRecords
  <2>3. e.pc = "unref" /\ e.node = n
    BY <2>1 DEF ThreadRecords
  <2>4. Becomes(t, e) /\ UNCHANGED <<list, pool, held>>
    BY <1>1, <1>2, <1>3, <1>6, <2>1, <2>2 DEF Pop, Goes, At, Becomes, list
  <2>5. ThreadFits(e)
    BY <2>3 DEF ThreadFits
  <2>6. \A m \in Nodes : SameRoles(thr[t], e, m)
    BY <1>1, <1>2, <2>3 DEF SameRoles, Refers, Adds, Pushes, Pops
  <2> QED
    BY <2>4, <2>5, <2>6, LoadsStep
<1> QED
  BY <1>5, <1>6

\* The same, where neither the list nor the pool changes.
LEMMA PlainMove ==
  ASSUME FreeListInv, NEW t, NEW e, Becomes(t, e), ThreadFits(e),
         UNCHANGED <<freeListHead, freeListNext, pool>>,
         NEW n \in Nodes, NEW v \in Nat, SetRefs(n, v),
         held' \in [Threads -> SUBSET Nodes],
         \A m \in Nodes : m # n => \A s \in Threads : m \in held'[s] <=> m \in held[s],
         \A m \in Nodes : m # n => SameRoles(thr[t], e, m),
         NEW k \in Kinds, NEW o \in Threads \cup {Null}, Placed(n, k, o),
         k \in {"held", "adding", "pushing", "popped"} => o = t, k \notin {"fresh", "listed"},
         NEW l \in Kinds, l \notin {"fresh", "listed"},
         \A s \in Threads : s # t => (n \in held'[s] <=> n \in held[s]),
         n \in held'[t] <=> l = "held",
         Adds(e, n) <=> l = "adding", Pushes(e, n) <=> l = "pushing", Pops(e, n) <=> l = "popped",
         v = BaseOf(l) + Cardinality(Referring(n)'),
         l = "adding" => Referring(n)' = {},
         l = "flagged" => Referring(n)' # {}
  PROVE  FreeListInv'
<1>1. /\ freeListHead' = freeListHead /\ freeListNext' = freeListNext
      /\ initialBlockPoolIndex' = initialBlockPoolIndex /\ made' = made
  BY DEF pool
<1>2. Listed' = Listed /\ ListEnds'
  BY <1>1, ListStays DEF SameList, FreeListInv
<1>3. /\ freeListRefs' \in [Nodes -> Nat] /\ freeListRefs'[n] = v
      /\ \A m \in Nodes : m # n => freeListRefs'[m] = freeListRefs[m]
  BY RefsSet DEF FreeListInv
<1>4. n \notin Listed /\ Given(n)
  BY DEF Placed
<1>5. \A m \in Nodes : (m \in Listed' <=> m \in Listed) /\ (Given(m)' <=> Given(m))
  BY <1>1, <1>2 DEF Given
<1>6. FreeListTypes
  BY DEF FreeListInv
<1>7. /\ freeListHead' \in Nodes \cup {Null} /\ initialBlockPoolIndex' \in Nat /\ made' \in Nat
      /\ PoolSize + made' <= MaxNodes
  BY <1>1, <1>6 DEF FreeListTypes
<1>8. (n \in Listed' <=> l = "listed") /\ (Given(n)' <=> l # "fresh")
  BY <1>4, <1>5
<1>9. l \in {"fresh", "adding"} => Referring(n)' = {}
  OBVIOUS
<1> QED
  BY <1>1, <1>2, <1>3, <1>5, <1>7, <1>8, <1>9, MoveStep

\* The two references dropped, the node is the thread's alone to give.
LEMMA PoppedStep == ASSUME FreeListInv, NEW t \in Threads, Popped(t) PROVE FreeListInv'
<1>1. PICK r \in ThreadRecords : r = thr[t] /\ r.pc = "popped" /\ ThreadFits(r)
  BY ThreadNow DEF Popped, Goes
<1>2. PICK n \in Nodes : n = r.head
  BY <1>1 DEF ThreadFits
<1>3. PICK e \in ThreadRecords : e = Idle /\ e.pc = "idle"
  BY IdleRecord
<1>4. PICK k \in Kinds, o \in Threads \cup {Null}, c \in Nat :
        /\ Placed(n, k, o) /\ c = Cardinality(Referring(n))
        /\ freeListRefs[n] = BaseOf(k) + c /\ (Referring(n) = {} <=> c = 0)
  BY NodeNow
<1>5. k = "popped" /\ o = t /\ Referring(n) # {}
  <2>1. Pops(thr[t], n) /\ Refers(thr[t], n)
    BY <1>1, <1>2 DEF Pops, Refers
  <2> QED
    BY <1>4, <2>1, KindOf
<1>6. PICK d \in Nat : d = c - 1 /\ freeListRefs[n] = d + 2
  <2>1. c # 0 /\ freeListRefs[n] = 1 + c
    BY <1>4, <1>5 DEF BaseOf
  <2> QED
    BY <2>1
<1>7. /\ Becomes(t, e) /\ SetRefs(n, d) /\ Gets(t, n)
      /\ UNCHANGED <<freeListHead, freeListNext, pool>>
  <2>1. freeListRefs[n] - 2 = d
    BY <1>6
  <2> QED
    BY <1>1, <1>2, <1>3, <2>1 DEF Popped, Goes, Becomes
<1>8. d = BaseOf("held") + Cardinality(Referring(n)')
  <2>1. Refers(thr[t], n) /\ ~ Refers(e, n)
    BY <1>1, <1>2, <1>3 DEF Refers
  <2>2. Cardinality(Referring(n)') = c - 1
    BY <1>4, <1>7, <2>1, ReferringMoves, ThreadNow
  <2>3. d = 0 + d
    OBVIOUS
  <2> QED
    BY <1>6, <2>2, <2>3 DEF BaseOf
<1>9. \A m \in Nodes : m # n => SameRoles(thr[t], e, m)
  BY <1>1, <1>2, <1>3 DEF SameRoles, Refers, Adds, Pushes, Pops
<1>10. ~ Adds(e, n) /\ ~ Pushes(e, n) /\ ~ Pops(e, n)
  BY <1>3, NoRole
<1>11. /\ held' \in [Threads -> SUBSET Nodes] /\ n \in held'[t]
       /\ \A s \in Threads : s # t => (n \in held'[s] <=> n \in held[s])
       /\ \A m \in Nodes : m # n => \A s \in Threads : m \in held'[s] <=> m \in held[s]
  BY <1>7, HeldSet, ThreadNow
<1>12. ThreadFits(e)
  BY <1>3 DEF ThreadFits
<1>13. "held" \in Kinds
  BY DEF Kinds
<1> QED
  BY <1>4, <1>5, <1>7, <1>8, <1>9, <1>10, <1>11, <1>12, <1>13, PlainMove

\* The last reference to a flagged node makes the thread add it.
LEMMA DropRefStep == ASSUME FreeListInv, NEW t \in Threads, DropRef(t) PROVE FreeListInv'
<1>1. PICK r \in ThreadRecords : r = thr[t] /\ r.pc = "unref" /\ ThreadFits(r)
  BY ThreadNow DEF DropRef, Goes
<1>2. PICK n \in Nodes : n = r.node
  BY <1>1 DEF ThreadFits
<1>3. PICK k \in Kinds, o \in Threads \cup {Null}, c \in Nat :
        /\ Placed(n, k, o) /\ c = Cardinality(Referring(n)) /\ c <= Cardinality(Threads)
        /\ freeListRefs[n] = BaseOf(k) + c /\ (Referring(n) = {} <=> c = 0) /\ BaseOf(k) \in Nat
  BY NodeNow
<1>4. Refers(thr[t], n)
  BY <1>1, <1>2 DEF Refers
<1>5. c # 0 /\ k \notin {"fresh", "adding"}
  <2>1. Referring(n) # {}
    BY <1>3, <1>4, KindOf
  <2> QED
    BY <1>3, <2>1 DEF Placed
<1>6. PICK v \in Nat : v = freeListRefs[n] - 1 /\ v = BaseOf(k) + (c - 1)
  BY <1>3, <1>5
<1>7. SetRefs(n, v) /\ UNCHANGED <<freeListHead, freeListNext, pool, held>>
  BY <1>1, <1>2, <1>6 DEF DropRef
<1>8. CASE freeListRefs[n] = Flag + 1
  <2>1. PICK e : e = [r EXCEPT !.pc = "top", !.then = "again"]
    OBVIOUS
  <2>2. e \in ThreadRecords
    BY <2>1, Zenon DEF ThreadRecords
  <2>3. e.pc = "top" /\ e.node = n
    BY <1>2, <2>1 DEF ThreadRecords
  <2>4. Becomes(t, e)
    BY <1>1, <1>2, <1>8, <2>1, <2>2 DEF DropRef, Goes, At, Becomes
  <2>5. k = "flagged" /\ c = 1 /\ v = Flag
    <3>1. Flag \in Nat /\ Cardinality(Threads) \in Nat /\ Cardinality(Threads) + 1 < Flag
      BY ReferringFinite, FlagIsNat, FreeListAssumption DEF FreeListAssumption, Flag
    <3>2. BaseOf(k) # 0 /\ BaseOf(k) # 1
      BY <1>3, <1>8, <3>1
    <3>3. k = "flagged" /\ BaseOf(k) = Flag
      BY <1>5, <3>2 DEF BaseOf, Kinds
    <3> QED
      BY <1>3, <1>6, <1>8, <3>1, <3>3
  <2>6. ~ Refers(e, n) /\ Adds(e, n) /\ ~ Pushes(e, n) /\ ~ Pops(e, n)
    BY <2>3 DEF Refers, Adds, Pushes, Pops
  <2>7. Cardinality(Referring(n)') = 0
    <3>1. Cardinality(Referring(n)') = c - 1
      BY <1>3, <1>4, <2>4, <2>6, ReferringMoves, ThreadNow
    <3> QED
      BY <2>5, <3>1
  <2>8. Referring(n)' = {}
    <3>1. Referring(n)' \in SUBSET Threads
      BY DEF Referring
    <3>2. IsFiniteSet(Referring(n)')
      BY <3>1, FS_Subset, FreeListAssumption DEF FreeListAssumption
    <3> QED
      BY <2>7, <3>2, FS_EmptySet
  <2>9. v = BaseOf("adding") + Cardinality(Referring(n)')
    <3>1. Flag = Flag + 0
      BY FlagIsNat
    <3> QED
      BY <2>5, <2>7, <3>1 DEF BaseOf
  <2>10. \A m \in Nodes : m # n => SameRoles(thr[t], e, m)
    BY <1>1, <1>2, <2>3 DEF SameRoles, Refers, Adds, Pushes, Pops
  <2>11. held' = held /\ held \in [Threads -> SUBSET Nodes] /\ n \notin held[t]
    <3>1. n \notin held[t]
      BY <1>3, <2>5, KindOf
    <3> QED
      BY <1>7, <3>1, ThreadNow DEF FreeListTypes
  <2>12. ThreadFits(e)
    BY <2>3 DEF ThreadFits
  <2>13. "adding" \in Kinds
    BY DEF Kinds
  <2> QED
    BY <1>3, <1>7, <2>4, <2>5, <2>6, <2>8, <2>9, <2>10, <2>11, <2>12, <2>13, PlainMove
<1>9. CASE freeListRefs[n] # Flag + 1
  <2>1. PICK h \in Nodes \cup {Null} : h = r.head
    BY RecordFields
  <2>2. PICK e \in ThreadRecords : e = With(t, h) /\ e.pc \in {"none", "refs"} /\ ThreadFits(e)
    BY WithRecord
  <2>3. Becomes(t, e)
    BY <1>1, <1>2, <1>9, <2>1, <2>2 DEF DropRef, Goes, Becomes
  <2>4. \A m : ~ Refers(e, m) /\ ~ Adds(e, m) /\ ~ Pushes(e, m) /\ ~ Pops(e, m)
    BY <2>2, NoRole
  <2>5. Cardinality(Referring(n)') = c - 1
    BY <1>3, <1>4, <2>3, <2>4, ReferringMoves, ThreadNow
  <2>6. v = BaseOf(k) + Cardinality(Referring(n)')
    BY <1>6, <2>5
  <2>7. k = "flagged" => Referring(n)' # {}
    <3>1. ASSUME k = "flagged" PROVE c - 1 # 0
      BY <1>3, <1>9, <3>1, FlagIsNat DEF BaseOf
    <3>2. Cardinality({}) = 0
      BY FS_EmptySet
    <3> QED
      BY <2>5, <3>1, <3>2
  <2>8. \A m \in Nodes : m # n => SameRoles(thr[t], e, m)
    BY <1>1, <1>2, <2>4 DEF SameRoles, Refers, Adds, Pushes, Pops
  <2>9. ~ Adds(thr[t], n) /\ ~ Pushes(thr[t], n) /\ ~ Pops(thr[t], n)
    BY <1>1 DEF Adds, Pushes, Pops
  <2> QED
    BY <1>3, <1>5, <1>7, <2>2, <2>3, <2>4, <2>6, <2>7, <2>8, <2>9, RefsStep
<1> QED
  BY <1>8, <1>9

-----------------------------------------------------------------------------
(* Adding.                                                                 *)

LEMMA HeldLess ==
  ASSUME FreeListTypes, NEW t \in Threads, NEW n \in Nodes,
         held' = [held EXCEPT ![t] = @ \ {n}]
  PROVE  /\ held' \in [Threads -> SUBSET Nodes] /\ n \notin held'[t]
         /\ \A s \in Threads : s # t => (n \in held'[s] <=> n \in held[s])
         /\ \A m \in Nodes : m # n => \A s \in Threads : m \in held'[s] <=> m \in held[s]
BY DEF FreeListTypes

LEMMA SameReferring ==
  ASSUME FreeListInv, NEW t, NEW e, Becomes(t, e), NEW n, ~ Refers(e, n), ~ Refers(thr[t], n)
  PROVE  Referring(n)' = Referring(n)
BY ReferringMoves DEF FreeListInv

LEMMA AddStep == ASSUME FreeListInv, NEW t \in Threads, NEW n \in Nodes, Add(t, n) PROVE FreeListInv'
<1>1. PICK r \in ThreadRecords : r = thr[t] /\ r.pc = "idle"
  BY ThreadNow DEF Add, Goes
<1>2. PICK k \in Kinds, o \in Threads \cup {Null}, c \in Nat :
        /\ Placed(n, k, o) /\ c = Cardinality(Referring(n))
        /\ freeListRefs[n] = BaseOf(k) + c /\ (Referring(n) = {} <=> c = 0)
  BY NodeNow
<1>3. k = "held" /\ o = t /\ freeListRefs[n] = c
  <2>1. k = "held" /\ o = t
    BY <1>2, KindOf DEF Add
  <2> QED
    BY <1>2, <2>1 DEF BaseOf
<1>4. PICK v \in Nat : v = Flag + c
  BY FlagIsNat
<1>5. SetRefs(n, v) /\ UNCHANGED <<freeListHead, freeListNext, pool>>
  <2>1. freeListRefs[n] + Flag = v
    BY <1>3, <1>4, FlagIsNat
  <2> QED
    BY <2>1 DEF Add, Flag
<1>6. /\ held' \in [Threads -> SUBSET Nodes] /\ n \notin held'[t]
      /\ \A s \in Threads : s # t => (n \in held'[s] <=> n \in held[s])
      /\ \A m \in Nodes : m # n => \A s \in Threads : m \in held'[s] <=> m \in held[s]
  BY HeldLess, ThreadNow DEF Add
<1>7. CASE c = 0
  <2>1. PICK e : e = [r EXCEPT !.pc = "top", !.node = n]
    OBVIOUS
  <2>2. e \in ThreadRecords
    <3>1. n \in Nodes \cup {Null}
      OBVIOUS
    <3> QED
      BY <2>1, <3>1, Zenon DEF ThreadRecords
  <2>3. e.pc = "top" /\ e.node = n
    BY <2>1 DEF ThreadRecords
  <2>4. Becomes(t, e)
    BY <1>1, <1>3, <1>7, <2>1, <2>2 DEF Add, Goes, At, Becomes
  <2>5. Adds(e, n) /\ ~ Pushes(e, n) /\ ~ Pops(e, n) /\ ~ Refers(e, n)
    BY <2>3 DEF Refers, Adds, Pushes, Pops
  <2>6. Referring(n)' = {} /\ Cardinality(Referring(n)') = 0
    <3>1. ~ Refers(thr[t], n)
      BY <1>1, NoRole
    <3> QED
      BY <1>2, <1>7, <2>4, <2>5, <3>1, SameReferring
  <2>7. v = BaseOf("adding") + Cardinality(Referring(n)')
    BY <1>4, <1>7, <2>6 DEF BaseOf
  <2>8. \A m \in Nodes : m # n => SameRoles(thr[t], e, m)
    BY <1>1, <2>3 DEF SameRoles, Refers, Adds, Pushes, Pops
  <2>9. ThreadFits(e)
    BY <2>3 DEF ThreadFits
  <2>10. PICK l \in Kinds : l = "adding"
    BY DEF Kinds
  <2>11. /\ k \notin {"fresh", "listed"} /\ l \notin {"fresh", "listed"}
         /\ k \in {"held", "adding", "pushing", "popped"} => o = t
         /\ (n \in held'[t] <=> l = "held")
         /\ (Adds(e, n) <=> l = "adding") /\ (Pushes(e, n) <=> l = "pushing")
         /\ (Pops(e, n) <=> l = "popped")
    BY <1>3, <1>6, <2>5, <2>10
  <2>12. /\ v = BaseOf(l) + Cardinality(Referring(n)') /\ l # "flagged"
         /\ l = "adding" => Referring(n)' = {}
    BY <2>6, <2>7, <2>10
  <2> QED
    BY <1>2, <1>5, <1>6, <2>4, <2>8, <2>9, <2>11, <2>12, PlainMove
<1>8. CASE c # 0
  <2>1. PICK e \in ThreadRecords : e = Idle /\ e.pc = "idle"
    BY IdleRecord
  <2>2. Becomes(t, e)
    BY <1>1, <1>3, <1>8, <2>1 DEF Add, Goes, Becomes
  <2>3. /\ \A m : ~ Refers(e, m) /\ ~ Adds(e, m) /\ ~ Pushes(e, m) /\ ~ Pops(e, m)
        /\ ~ Refers(thr[t], n)
    BY <1>1, <2>1, NoRole
  <2>4. Referring(n)' = Referring(n)
    BY <2>2, <2>3, SameReferring
  <2>5. v = BaseOf("flagged") + Cardinality(Referring(n)')
    BY <1>2, <1>4, <2>4 DEF BaseOf
  <2>6. \A m \in Nodes : m # n => SameRoles(thr[t], e, m)
    BY <1>1, <2>1, RoleToNone
  <2>7. ThreadFits(e) /\ "flagged" \in Kinds
    BY <2>1 DEF ThreadFits, Kinds
  <2> QED
    BY <1>2, <1>3, <1>5, <1>6, <1>8, <2>2, <2>3, <2>4, <2>5, <2>6, <2>7, PlainMove
<1> QED
  BY <1>7, <1>8

\* Nobody refers to a node that is being added, so its pointer is the thread's.
LEMMA LinkStep == ASSUME FreeListInv, NEW t \in Threads, Link(t) PROVE FreeListInv'
<1>1. PICK r \in ThreadRecords : r = thr[t] /\ r.pc = "link" /\ ThreadFits(r)
  BY ThreadNow DEF Link, Goes
<1>2. PICK n \in Nodes : n = r.node
  BY <1>1 DEF ThreadFits
<1>3. PICK v \in Nodes \cup {Null} : v = r.top
  BY RecordFields
<1>4. PICK e : e = [r EXCEPT !.pc = "expose"]
  OBVIOUS
<1>5. e \in ThreadRecords
  BY <1>4, AtRecord
<1>6. e.pc = "expose" /\ e.node = n /\ e.top = v
  BY <1>2, <1>3, <1>4 DEF ThreadRecords
<1>7. /\ Becomes(t, e) /\ freeListNext' = [freeListNext EXCEPT ![n] = v]
      /\ freeListHead' = freeListHead /\ freeListRefs' = freeListRefs /\ held' = held
      /\ initialBlockPoolIndex' = initialBlockPoolIndex /\ made' = made
  BY <1>1, <1>2, <1>3, <1>4, <1>5 DEF Link, Goes, At, Becomes, pool
<1>8. PICK k \in Kinds, o \in Threads \cup {Null} : Placed(n, k, o)
  BY NodeNow
<1>9. Adds(thr[t], n)
  BY <1>1, <1>2 DEF Adds
<1>10. k = "adding" /\ o = t /\ Referring(n) = {} /\ n \notin Listed
  BY <1>8, <1>9, KindOf DEF Placed
<1>11. Listed' = Listed /\ ListEnds'
  BY <1>7, <1>10, ListKeeps, ThreadNow DEF SameList
<1>12. FreeListTypes'
  <2>1. FreeListTypes
    BY ThreadNow
  <2>2. freeListNext' \in [Nodes -> Nodes \cup {Null}]
    BY <1>7, <2>1 DEF FreeListTypes
  <2>3. thr' \in [Threads -> ThreadRecords]
    BY <1>7, <2>1, BecomesNow
  <2> QED
    BY <1>7, <2>1, <2>2, <2>3 DEF FreeListTypes
<1>13. NodesFit'
  <2>1. \A m \in Nodes : SameRoles(thr[t], e, m)
    BY <1>1, <1>2, <1>6 DEF SameRoles, Refers, Adds, Pushes, Pops
  <2>2. \A m \in Nodes : Elsewhere(t, e, m)
    BY <1>7, <1>11, <2>1 DEF Elsewhere, Given
  <2>3. Null \notin Nodes
    BY DEF Nodes, Null
  <2> QED
    BY <1>7, <2>2, <2>3, OthersStay, ThreadNow
<1>14. ASSUME NEW s \in Threads PROVE ThreadFits(thr[s])'
  <2>1. freeListNext \in [Nodes -> Nodes \cup {Null}] /\ thr'[t] = e
    BY <1>7, BecomesNow, ThreadNow DEF FreeListTypes
  <2>2. CASE s = t
    <3>1. freeListNext'[n] = v
      BY <1>7, <2>1
    <3> QED
      BY <1>6, <2>1, <2>2, <3>1 DEF ThreadFits
  <2>3. CASE s # t
    <3>1. PICK q \in ThreadRecords : q = thr[s] /\ ThreadFits(q)
      BY ThreadNow
    <3>2. thr'[s] = q
      BY <1>7, <2>3, <3>1, BecomesNow, ThreadNow
    <3>3. ~ Refers(q, n) /\ ~ Adds(q, n) /\ ~ Pushes(q, n)
      BY <1>8, <1>10, <2>3, <3>1, KindOf
    <3>4. q.pc = "pop" => q.head # n /\ q.head \in Nodes
      BY <3>1, <3>3 DEF Refers, ThreadFits
    <3>5. q.pc \in {"expose", "push"} => q.node # n /\ q.node \in Nodes
      BY <3>1, <3>3 DEF Adds, Pushes, ThreadFits
    <3>6. \A m \in Nodes : m # n => freeListNext'[m] = freeListNext[m]
      BY <1>7, <2>1
    <3> QED
      BY <3>1, <3>2, <3>4, <3>5, <3>6 DEF ThreadFits, Flag, Nodes
  <2> QED
    BY <2>2, <2>3
<1> QED
  BY <1>11, <1>12, <1>13, <1>14 DEF FreeListInv

LEMMA ExposeStep == ASSUME FreeListInv, NEW t \in Threads, Expose(t) PROVE FreeListInv'
<1>1. PICK r \in ThreadRecords : r = thr[t] /\ r.pc = "expose" /\ ThreadFits(r)
  BY ThreadNow DEF Expose, Goes
<1>2. PICK n \in Nodes : n = r.node
  BY <1>1 DEF ThreadFits
<1>3. PICK e : e = [r EXCEPT !.pc = "push"]
  OBVIOUS
<1>4. e \in ThreadRecords
  BY <1>3, AtRecord
<1>5. e.pc = "push" /\ e.node = n /\ e.top = r.top
  BY <1>2, <1>3 DEF ThreadRecords
<1>6. Becomes(t, e) /\ SetRefs(n, 1) /\ UNCHANGED <<freeListHead, freeListNext, pool>> /\ held' = held
  BY <1>1, <1>2, <1>3, <1>4 DEF Expose, Goes, At, Becomes
<1>7. PICK k \in Kinds, o \in Threads \cup {Null}, c \in Nat :
        /\ Placed(n, k, o) /\ c = Cardinality(Referring(n)) /\ (Referring(n) = {} <=> c = 0)
  BY NodeNow
<1>8. k = "adding" /\ o = t /\ c = 0
  <2>1. Adds(thr[t], n)
    BY <1>1, <1>2 DEF Adds
  <2> QED
    BY <1>7, <2>1, KindOf DEF Placed
<1>9. ~ Refers(e, n) /\ ~ Adds(e, n) /\ Pushes(e, n) /\ ~ Pops(e, n) /\ ~ Refers(thr[t], n)
  BY <1>1, <1>5 DEF Refers, Adds, Pushes, Pops
<1>10. 1 = BaseOf("pushing") + Cardinality(Referring(n)')
  <2>1. Cardinality(Referring(n)') = 0
    BY <1>6, <1>7, <1>8, <1>9, SameReferring
  <2> QED
    BY <2>1 DEF BaseOf
<1>11. \A m \in Nodes : m # n => SameRoles(thr[t], e, m)
  BY <1>1, <1>2, <1>5 DEF SameRoles, Refers, Adds, Pushes, Pops
<1>12. ThreadFits(e)
  BY <1>1, <1>2, <1>5 DEF ThreadFits
<1>13. held' \in [Threads -> SUBSET Nodes] /\ n \notin held'[t]
  <2>1. n \notin held[t]
    BY <1>7, <1>8, KindOf
  <2> QED
    BY <1>6, <2>1, ThreadNow DEF FreeListTypes
<1>14. "pushing" \in Kinds /\ 1 \in Nat
  BY DEF Kinds
<1> QED
  BY <1>6, <1>7, <1>8, <1>9, <1>10, <1>11, <1>12, <1>13, <1>14, PlainMove

LEMMA DoneRecord ==
  ASSUME FreeListInv, NEW t \in Threads
  PROVE  Done(t) \in ThreadRecords /\ ThreadFits(Done(t)) /\ Done(t).pc \in {"idle", "none", "refs"}
<1>1. PICK h \in Nodes \cup {Null} : h = thr[t].head
  BY ThreadNow, RecordFields
<1>2. CASE thr[t].then = "again"
  BY <1>1, <1>2, WithRecord DEF Done
<1>3. CASE thr[t].then # "again"
  <2>1. PICK e \in ThreadRecords : e = Idle /\ e.pc = "idle"
    BY IdleRecord
  <2>2. ThreadFits(e) /\ e = Done(t)
    BY <1>3, <2>1 DEF ThreadFits, Done
  <2> QED
    BY <2>1, <2>2
<1> QED
  BY <1>2, <1>3

LEMMA PushStep == ASSUME FreeListInv, NEW t \in Threads, Push(t) PROVE FreeListInv'
<1>1. PICK r \in ThreadRecords : r = thr[t] /\ r.pc = "push" /\ ThreadFits(r)
  BY ThreadNow DEF Push, Goes
<1>2. PICK n \in Nodes : n = r.node
  BY <1>1 DEF ThreadFits
<1>3. PICK h \in Nodes \cup {Null} : h = freeListHead
  BY ThreadNow DEF FreeListTypes
<1>4. freeListRefs' = freeListRefs /\ freeListNext' = freeListNext /\ held' = held
      /\ initialBlockPoolIndex' = initialBlockPoolIndex /\ made' = made
  BY DEF Push, pool
<1>5. CASE h = r.top
  <2>1. PICK e \in ThreadRecords : e = Done(t) /\ ThreadFits(e) /\ e.pc \in {"idle", "none", "refs"}
    BY DoneRecord
  <2>2. Becomes(t, e) /\ freeListHead' = n
    BY <1>1, <1>2, <1>3, <1>5, <2>1 DEF Push, Goes, Becomes
  <2>3. PICK k \in Kinds, o \in Threads \cup {Null}, c \in Nat :
          /\ Placed(n, k, o) /\ c = Cardinality(Referring(n))
          /\ freeListRefs[n] = BaseOf(k) + c /\ freeListRefs[n] \in Nat
    BY NodeNow
  <2>4. k = "pushing" /\ o = t /\ n \notin Listed /\ Given(n)
    <3>1. Pushes(thr[t], n)
      BY <1>1, <1>2 DEF Pushes
    <3>2. k = "pushing" /\ o = t
      BY <2>3, <3>1, KindOf
    <3> QED
      BY <2>3, <3>2 DEF Placed
  <2>5. freeListNext[n] = freeListHead
    BY <1>1, <1>2, <1>3, <1>5 DEF ThreadFits
  <2>6. Listed' = Listed \cup {n} /\ ListEnds'
    BY <1>4, <2>2, <2>4, <2>5, ListPushes, ThreadNow
  <2>7. \A m : ~ Refers(e, m) /\ ~ Adds(e, m) /\ ~ Pushes(e, m) /\ ~ Pops(e, m)
    BY <2>1, NoRole
  <2>8. Referring(n)' = Referring(n)
    <3>1. ~ Refers(thr[t], n)
      BY <1>1 DEF Refers
    <3> QED
      BY <2>2, <2>7, <3>1, SameReferring
  <2>9. PICK v \in Nat : v = freeListRefs[n]
    BY <2>3
  <2>10. v = BaseOf("listed") + Cardinality(Referring(n)')
    BY <2>3, <2>4, <2>8, <2>9 DEF BaseOf
  <2>11. \A m \in Nodes : m # n =>
           /\ SameRoles(thr[t], e, m)
           /\ \A s \in Threads : m \in held'[s] <=> m \in held[s]
           /\ (m \in Listed' <=> m \in Listed) /\ (Given(m)' <=> Given(m))
    <3>1. \A m \in Nodes : m # n => SameRoles(thr[t], e, m)
      BY <1>1, <1>2, <2>7 DEF SameRoles, Refers, Adds, Pushes, Pops
    <3>2. \A m \in Nodes : m # n => (m \in Listed' <=> m \in Listed)
      BY <2>6
    <3>3. \A m \in Nodes : Given(m)' <=> Given(m)
      BY <1>4 DEF Given
    <3> QED
      BY <1>4, <3>1, <3>2, <3>3
  <2>12. n \notin held'[t]
    BY <1>4, <2>3, <2>4, KindOf
  <2>13. "listed" \in Kinds /\ n \in Listed' /\ Given(n)'
    BY <1>4, <2>4, <2>6 DEF Kinds, Given
  <2>14. /\ freeListHead' \in Nodes \cup {Null} /\ freeListRefs' \in [Nodes -> Nat]
         /\ initialBlockPoolIndex' \in Nat /\ made' \in Nat /\ PoolSize + made' <= MaxNodes
         /\ held' \in [Threads -> SUBSET Nodes]
    BY <1>4, <2>2, ThreadNow DEF FreeListTypes
  <2> QED
    BY <1>4, <2>1, <2>2, <2>3, <2>4, <2>6, <2>7, <2>9, <2>10, <2>11, <2>12, <2>13, <2>14, MoveStep
<1>6. CASE h # r.top
  <2>1. PICK e : e = [r EXCEPT !.pc = "retry", !.top = h]
    OBVIOUS
  <2>2. e \in ThreadRecords
    BY <2>1, Zenon DEF ThreadRecords
  <2>3. e.pc = "retry" /\ e.node = n
    BY <1>2, <2>1 DEF ThreadRecords
  <2>4. Becomes(t, e) /\ UNCHANGED <<list, pool, held>>
    BY <1>1, <1>2, <1>3, <1>6, <2>1, <2>2 DEF Push, Goes, At, Becomes, list
  <2>5. ThreadFits(e)
    BY <2>3 DEF ThreadFits
  <2>6. \A m \in Nodes : SameRoles(thr[t], e, m)
    BY <1>1, <1>2, <2>3 DEF SameRoles, Refers, Adds, Pushes, Pops
  <2> QED
    BY <2>4, <2>5, <2>6, LoadsStep
<1> QED
  BY <1>5, <1>6

\* Its count shows whether others took a reference since it was exposed.
LEMMA RetryStep == ASSUME FreeListInv, NEW t \in Threads, Retry(t) PROVE FreeListInv'
<1>1. PICK r \in ThreadRecords : r = thr[t] /\ r.pc = "retry" /\ ThreadFits(r)
  BY ThreadNow DEF Retry, Goes
<1>2. PICK n \in Nodes : n = r.node
  BY <1>1 DEF ThreadFits
<1>3. PICK k \in Kinds, o \in Threads \cup {Null}, c \in Nat :
        /\ Placed(n, k, o) /\ c = Cardinality(Referring(n))
        /\ freeListRefs[n] = BaseOf(k) + c /\ (Referring(n) = {} <=> c = 0)
  BY NodeNow
<1>4. k = "pushing" /\ o = t /\ freeListRefs[n] = 1 + c
  <2>1. Pushes(thr[t], n)
    BY <1>1, <1>2 DEF Pushes
  <2>2. k = "pushing" /\ o = t
    BY <1>3, <2>1, KindOf
  <2> QED
    BY <1>3, <2>2 DEF BaseOf
<1>5. PICK v \in Nat : v = Flag + c
  BY FlagIsNat
<1>6. /\ SetRefs(n, v) /\ UNCHANGED <<freeListHead, freeListNext, pool>> /\ held' = held
      /\ held' \in [Threads -> SUBSET Nodes] /\ n \notin held'[t]
  <2>1. freeListRefs[n] + Flag - 1 = v
    BY <1>4, <1>5, FlagIsNat
  <2>2. n \notin held[t]
    BY <1>3, <1>4, KindOf
  <2> QED
    BY <1>1, <1>2, <2>1, <2>2, ThreadNow DEF Retry, FreeListTypes
<1>7. ~ Refers(thr[t], n)
  BY <1>1 DEF Refers
<1>8. CASE c = 0
  <2>1. PICK e : e = [r EXCEPT !.pc = "link"]
    OBVIOUS
  <2>2. e \in ThreadRecords
    BY <2>1, AtRecord
  <2>3. e.pc = "link" /\ e.node = n
    BY <1>2, <2>1 DEF ThreadRecords
  <2>4. Becomes(t, e)
    BY <1>1, <1>2, <1>4, <1>8, <2>1, <2>2 DEF Retry, Goes, At, Becomes
  <2>5. Adds(e, n) /\ ~ Pushes(e, n) /\ ~ Pops(e, n) /\ ~ Refers(e, n)
    BY <2>3 DEF Refers, Adds, Pushes, Pops
  <2>6. Referring(n)' = {} /\ Cardinality(Referring(n)') = 0
    BY <1>3, <1>7, <1>8, <2>4, <2>5, SameReferring
  <2>7. v = BaseOf("adding") + Cardinality(Referring(n)')
    BY <1>5, <1>8, <2>6 DEF BaseOf
  <2>8. \A m \in Nodes : m # n => SameRoles(thr[t], e, m)
    BY <1>1, <1>2, <2>3 DEF SameRoles, Refers, Adds, Pushes, Pops
  <2>9. ThreadFits(e) /\ "adding" \in Kinds
    BY <2>3 DEF ThreadFits, Kinds
  <2> QED
    BY <1>3, <1>4, <1>6, <2>4, <2>5, <2>6, <2>7, <2>8, <2>9, PlainMove
<1>9. CASE c # 0
  <2>1. PICK e \in ThreadRecords : e = Done(t) /\ ThreadFits(e) /\ e.pc \in {"idle", "none", "refs"}
    BY DoneRecord
  <2>2. Becomes(t, e)
    <3>1. freeListRefs[n] # 1
      BY <1>4, <1>9
    <3> QED
      BY <1>1, <1>2, <2>1, <3>1 DEF Retry, Goes, Becomes
  <2>3. \A m : ~ Refers(e, m) /\ ~ Adds(e, m) /\ ~ Pushes(e, m) /\ ~ Pops(e, m)
    BY <2>1, NoRole
  <2>4. Referring(n)' = Referring(n)
    BY <1>7, <2>2, <2>3, SameReferring
  <2>5. v = BaseOf("flagged") + Cardinality(Referring(n)')
    BY <1>3, <1>5, <2>4 DEF BaseOf
  <2>6. \A m \in Nodes : m # n => SameRoles(thr[t], e, m)
    BY <1>1, <1>2, <2>3 DEF SameRoles, Refers, Adds, Pushes, Pops
  <2>7. "flagged" \in Kinds
    BY DEF Kinds
  <2> QED
    BY <1>3, <1>4, <1>6, <1>9, <2>1, <2>2, <2>3, <2>4, <2>5, <2>6, <2>7, PlainMove
<1> QED
  BY <1>8, <1>9

-----------------------------------------------------------------------------
(* The nodes given for the first time.                                     *)

\* The pool gives the node n, which was fresh, to t.
LEMMA FreshStep ==
  ASSUME FreeListInv, NEW t \in Threads, thr[t].pc \in {"pool", "none"}, Becomes(t, Idle),
         NEW n \in Nodes, ~ Given(n), Gets(t, n), UNCHANGED list,
         initialBlockPoolIndex' \in Nat, made' \in Nat, PoolSize + made' <= MaxNodes,
         Given(n)', \A m \in Nodes : m # n => (Given(m)' <=> Given(m))
  PROVE  FreeListInv'
<1>1. PICK e \in ThreadRecords : e = Idle /\ e.pc = "idle"
  BY IdleRecord
<1>2. freeListHead' = freeListHead /\ freeListRefs' = freeListRefs /\ freeListNext' = freeListNext
  BY DEF list
<1>3. PICK k \in Kinds, o \in Threads \cup {Null}, c \in Nat :
        /\ Placed(n, k, o) /\ c = Cardinality(Referring(n))
        /\ freeListRefs[n] = BaseOf(k) + c /\ (Referring(n) = {} <=> c = 0)
  BY NodeNow
<1>4. k = "fresh" /\ c = 0 /\ freeListRefs[n] = 0
  <2>1. k = "fresh" /\ c = 0
    BY <1>3 DEF Placed
  <2> QED
    BY <1>3, <2>1 DEF BaseOf
<1>5. \A m : ~ Refers(e, m) /\ ~ Adds(e, m) /\ ~ Pushes(e, m) /\ ~ Pops(e, m)
  BY <1>1, NoRole
<1>6. ~ Refers(thr[t], n)
  BY NoRole
<1>7. 0 = BaseOf("held") + Cardinality(Referring(n)')
  <2>1. Cardinality(Referring(n)') = 0
    BY <1>1, <1>3, <1>4, <1>5, <1>6, SameReferring
  <2> QED
    BY <2>1 DEF BaseOf
<1>8. /\ held' \in [Threads -> SUBSET Nodes] /\ n \in held'[t]
      /\ \A s \in Threads : s # t => (n \in held'[s] <=> n \in held[s])
      /\ \A m \in Nodes : m # n => \A s \in Threads : m \in held'[s] <=> m \in held[s]
  BY HeldSet, ThreadNow
<1>9. Listed' = Listed /\ ListEnds'
  BY <1>2, ListStays, ThreadNow DEF SameList
<1>10. \A m \in Nodes : m # n =>
         /\ SameRoles(thr[t], e, m)
         /\ \A s \in Threads : m \in held'[s] <=> m \in held[s]
         /\ (m \in Listed' <=> m \in Listed) /\ (Given(m)' <=> Given(m))
  <2>1. \A m \in Nodes : SameRoles(thr[t], e, m)
    BY <1>1, RoleToNone
  <2> QED
    BY <1>8, <1>9, <2>1
<1>11. ThreadFits(e) /\ "held" \in Kinds /\ n \notin Listed'
  BY <1>1, <1>3, <1>4, <1>9 DEF ThreadFits, Kinds, Placed
<1>12. freeListHead' \in Nodes \cup {Null} /\ freeListRefs' \in [Nodes -> Nat]
  BY <1>2, ThreadNow DEF FreeListTypes
<1> QED
  BY <1>1, <1>2, <1>3, <1>4, <1>5, <1>7, <1>8, <1>9, <1>10, <1>11, <1>12, MoveStep

\* The call comes away with nothing, whatever the counts of the pool become.
LEMMA EmptyHanded ==
  ASSUME FreeListInv, NEW t \in Threads, NEW e, Becomes(t, e), ThreadFits(e),
         thr[t].pc \in {"pool", "none"}, e.pc \in {"idle", "head"},
         UNCHANGED <<list, made, held>>, initialBlockPoolIndex' \in Nat,
         \A m \in Nodes : Given(m)' <=> Given(m)
  PROVE  FreeListInv'
<1>1. /\ freeListHead' = freeListHead /\ freeListRefs' = freeListRefs /\ freeListNext' = freeListNext
      /\ made' = made /\ held' = held
  BY DEF list
<1>2. Listed' = Listed /\ ListEnds'
  BY <1>1, ListStays, ThreadNow DEF SameList
<1>3. \A m \in Nodes : SameRoles(thr[t], e, m)
  BY RoleToNone
<1>4. \A m \in Nodes : Elsewhere(t, e, m)
  BY <1>1, <1>2, <1>3 DEF Elsewhere
<1>5. FreeListTypes /\ Null \notin Nodes
  BY ThreadNow DEF Nodes, Null
<1> QED
  BY <1>1, <1>2, <1>4, <1>5, StepKeeps DEF FreeListTypes

LEMMA FromPoolStep == ASSUME FreeListInv, NEW t \in Threads, FromPool(t) PROVE FreeListInv'
<1>1. PICK r \in ThreadRecords : r = thr[t] /\ r.pc = "pool"
  BY ThreadNow DEF FromPool, Goes
<1>2. PICK i \in Nat : i = initialBlockPoolIndex
  BY ThreadNow DEF FreeListTypes
<1>3. PICK n \in Nat : n = i + 1
  OBVIOUS
<1>4. initialBlockPoolIndex' = n /\ made' = made /\ UNCHANGED list
  BY <1>2, <1>3 DEF FromPool
<1>5. PoolSize \in Nat /\ MaxNodes \in Nat /\ PoolSize <= MaxNodes
  BY FreeListAssumption DEF FreeListAssumption
<1>6. \A m \in Nodes : (Given(m) <=> IF m <= PoolSize THEN m <= i ELSE m <= PoolSize + made)
                    /\ (Given(m)' <=> IF m <= PoolSize THEN m <= n ELSE m <= PoolSize + made)
  BY <1>2, <1>4 DEF Given
<1>7. CASE i < PoolSize
  <2>1. n \in Nodes /\ n <= PoolSize /\ ~ (n <= i)
    BY <1>3, <1>5, <1>7 DEF Nodes
  <2>2. Becomes(t, Idle) /\ Gets(t, n)
    BY <1>1, <1>2, <1>3, <1>7, IdleRecord DEF FromPool, Goes, Becomes
  <2>3. ~ Given(n) /\ Given(n)'
    BY <1>6, <2>1
  <2>4. ASSUME NEW m \in Nodes, m # n PROVE Given(m)' <=> Given(m)
    <3>1. m \in Nat
      BY <1>5 DEF Nodes
    <3>2. m <= n <=> m <= i
      BY <1>3, <2>4, <3>1
    <3> QED
      BY <1>6, <3>2
  <2>5. made' \in Nat /\ PoolSize + made' <= MaxNodes
    BY <1>4, ThreadNow DEF FreeListTypes
  <2> QED
    BY <1>1, <1>4, <2>1, <2>2, <2>3, <2>4, <2>5, FreshStep
<1>8. CASE ~ (i < PoolSize)
  <2>1. PICK e : e = [r EXCEPT !.pc = "head"]
    OBVIOUS
  <2>2. e \in ThreadRecords
    BY <2>1, AtRecord
  <2>3. e.pc = "head"
    BY <2>1 DEF ThreadRecords
  <2>4. Becomes(t, e) /\ UNCHANGED <<list, made, held>>
    BY <1>1, <1>2, <1>4, <1>8, <2>1, <2>2 DEF FromPool, Goes, At, Becomes
  <2>5. ASSUME NEW m \in Nodes PROVE Given(m)' <=> Given(m)
    <3>1. m \in Nat
      BY <1>5 DEF Nodes
    <3>2. m <= PoolSize => m <= n /\ m <= i
      BY <1>3, <1>5, <1>8, <3>1
    <3> QED
      BY <1>6, <3>2
  <2>6. ThreadFits(e)
    BY <2>3 DEF ThreadFits
  <2> QED
    BY <1>1, <1>4, <2>3, <2>4, <2>5, <2>6, EmptyHanded
<1> QED
  BY <1>7, <1>8

LEMMA CreateStep == ASSUME FreeListInv, NEW t \in Threads, Create(t) PROVE FreeListInv'
<1>1. thr[t].pc = "none" /\ Becomes(t, Idle)
  BY IdleRecord DEF Create, Goes, Becomes
<1>2. PICK d \in Nat : d = made
  BY ThreadNow DEF FreeListTypes
<1>3. PoolSize \in Nat /\ MaxNodes \in Nat
  BY FreeListAssumption DEF FreeListAssumption
<1>4. UNCHANGED list /\ initialBlockPoolIndex' = initialBlockPoolIndex /\ initialBlockPoolIndex \in Nat
  BY ThreadNow DEF Create, FreeListTypes
<1>5. CASE PoolSize + d < MaxNodes /\ made' = d + 1 /\ Gets(t, PoolSize + (d + 1))
  <2>1. PICK n \in Nat : n = PoolSize + (d + 1)
    BY <1>3
  <2>2. n \in Nodes /\ ~ (n <= PoolSize) /\ ~ (n <= PoolSize + d)
    BY <1>3, <1>5, <2>1 DEF Nodes
  <2>3. /\ \A m \in Nodes : Given(m) <=> IF m <= PoolSize THEN m <= initialBlockPoolIndex
                                        ELSE m <= PoolSize + d
        /\ \A m \in Nodes : Given(m)' <=> IF m <= PoolSize THEN m <= initialBlockPoolIndex ELSE m <= n
    BY <1>2, <1>4, <1>5, <2>1 DEF Given
  <2>4. ~ Given(n) /\ Given(n)'
    BY <2>2, <2>3
  <2>5. ASSUME NEW m \in Nodes, m # n PROVE Given(m)' <=> Given(m)
    <3>1. m \in Nat
      BY <1>3 DEF Nodes
    <3>2. m <= n <=> m <= PoolSize + d
      BY <1>3, <2>1, <2>5, <3>1
    <3> QED
      BY <2>3, <3>2
  <2>6. made' \in Nat /\ PoolSize + made' <= MaxNodes /\ initialBlockPoolIndex' \in Nat
    BY <1>3, <1>4, <1>5
  <2>7. Gets(t, n)
    BY <1>5, <2>1
  <2> QED
    BY <1>1, <1>4, <2>2, <2>4, <2>5, <2>6, <2>7, FreshStep
<1>6. CASE made' = made /\ held' = held
  <2>1. \A m \in Nodes : Given(m)' <=> Given(m)
    BY <1>4, <1>6 DEF Given
  <2>2. ThreadFits(Idle) /\ Idle.pc = "idle"
    BY IdleRecord DEF ThreadFits
  <2> QED
    BY <1>1, <1>4, <1>6, <2>1, <2>2, EmptyHanded
<1> QED
  BY <1>2, <1>5, <1>6 DEF Create

-----------------------------------------------------------------------------
(* The theorems.                                                           *)

LEMMA FreeListStart == FreeListInit => FreeListInv
<1> SUFFICES ASSUME FreeListInit PROVE FreeListInv
  OBVIOUS
<1>1. PoolSize \in Nat /\ MaxNodes \in Nat /\ PoolSize <= MaxNodes
  BY FreeListAssumption DEF FreeListAssumption
<1>2. FreeListTypes
  <2>1. PoolSize + 0 <= MaxNodes
    BY <1>1
  <2> QED
    BY <2>1, IdleRecord DEF FreeListInit, FreeListTypes
<1>3. \A t \in Threads : thr[t] = Idle /\ held[t] = {}
  BY DEF FreeListInit
<1>4. ListEnds /\ Listed = {}
  <2>1. PICK p : p = [i \in 1 .. 0 |-> 1]
    OBVIOUS
  <2>2. p \in [1 .. 0 -> Nodes] /\ 0 \in Nat
    BY <2>1
  <2>3. Path(freeListHead, freeListNext, 0, p)
    BY DEF FreeListInit, Path
  <2>4. Listed = {p[i] : i \in 1 .. 0}
    BY <2>2, <2>3, PathListed
  <2>5. ListEnds
    BY <2>2, <2>3 DEF ListEnds
  <2>6. \A i \in 1 .. 0 : FALSE
    OBVIOUS
  <2> QED
    BY <2>4, <2>5, <2>6
<1>5. ASSUME NEW n \in Nodes PROVE Placed(n, "fresh", Null)
  <2>1. ~ Given(n)
    BY <1>1 DEF FreeListInit, Given, Nodes
  <2>2. \A t \in Threads : /\ ~ Refers(thr[t], n) /\ ~ Adds(thr[t], n) /\ ~ Pushes(thr[t], n)
                           /\ ~ Pops(thr[t], n)
    BY <1>3, IdleRecord, NoRole
  <2>3. Referring(n) = {} /\ Cardinality(Referring(n)) = 0
    BY <2>2, FS_EmptySet DEF Referring
  <2>4. freeListRefs[n] = BaseOf("fresh") + Cardinality(Referring(n))
    BY <2>3 DEF FreeListInit, BaseOf
  <2> QED
    BY <1>3, <1>4, <2>1, <2>2, <2>3, <2>4 DEF Placed
<1>6. NodesFit
  BY <1>5 DEF NodesFit, Kinds
<1>7. \A t \in Threads : ThreadFits(thr[t])
  BY <1>3, IdleRecord DEF ThreadFits
<1> QED
  BY <1>2, <1>4, <1>6, <1>7 DEF FreeListInv

LEMMA FreeListKept == FreeListInv /\ [FreeListNext]_freeListVars => FreeListInv'
<1> SUFFICES ASSUME FreeListInv, [FreeListNext]_freeListVars PROVE FreeListInv'
  OBVIOUS
<1>1. ASSUME NEW t \in Threads, Getting(t) PROVE FreeListInv'
  BY <1>1, LoadHeadStep, LoadRefsStep, TakeRefStep, LoadNextStep, PopStep, PoppedStep, DropRefStep
     DEF Getting
<1>2. ASSUME NEW t \in Threads, Adding(t) PROVE FreeListInv'
  BY <1>2, AddStep, LoadTopStep, LinkStep, ExposeStep, PushStep, RetryStep DEF Adding
<1>3. ASSUME NEW t \in Threads, Requisitioning(t) PROVE FreeListInv'
  BY <1>3, RequisitionStep, FromPoolStep, CreateStep DEF Requisitioning
<1>4. CASE UNCHANGED freeListVars
  <2>1. /\ freeListHead' = freeListHead /\ freeListRefs' = freeListRefs
        /\ freeListNext' = freeListNext /\ thr' = thr /\ held' = held
        /\ initialBlockPoolIndex' = initialBlockPoolIndex /\ made' = made
    BY <1>4 DEF freeListVars, list, pool
  <2>2. (FreeListInv)' <=> FreeListInv
    BY <2>1 DEF FreeListInv, FreeListTypes, ListEnds, NodesFit, Placed, Given, Referring, Listed,
                ThreadFits, Path
  <2> QED
    BY <2>2
<1> QED
  BY <1>1, <1>2, <1>3, <1>4 DEF FreeListNext

\* The inductive invariant: each node is in one place, and its count of references
\* is what that place gives it and one for each thread that refers to it.
THEOREM FreeListInvariant == FreeListSpec => []FreeListInv
BY FreeListStart, FreeListKept, PTL DEF FreeListSpec

\* However the atomic accesses of try_get, add and requisition_block interleave, no
\* block has two owners, none is owned while on the list, and none is popped flagged.
THEOREM BlocksHaveOneOwner == FreeListSpec => []OneOwner
<1>1. FreeListInv => OneOwner
  <2> SUFFICES ASSUME FreeListInv PROVE OneOwner
    OBVIOUS
  <2>1. ASSUME NEW t \in Threads, NEW n, n \in held[t]
        PROVE  n \notin Listed /\ \A s \in Threads : n \in held[s] => s = t
    <3>1. n \in Nodes
      BY <2>1, ThreadNow DEF FreeListTypes
    <3>2. PICK k \in Kinds, o \in Threads \cup {Null} : Placed(n, k, o)
      BY <3>1, NodeNow
    <3> QED
      BY <2>1, <3>2 DEF Placed
  <2>2. ASSUME NEW t \in Threads, thr[t].pc = "popped" PROVE freeListRefs[thr[t].head] < Flag
    <3>1. PICK n \in Nodes : n = thr[t].head
      BY <2>2, ThreadNow DEF ThreadFits
    <3>2. PICK k \in Kinds, o \in Threads \cup {Null}, c \in Nat :
            /\ Placed(n, k, o) /\ c <= Cardinality(Threads) /\ freeListRefs[n] = BaseOf(k) + c
      BY NodeNow
    <3>3. Pops(thr[t], n)
      BY <2>2, <3>1 DEF Pops
    <3>4. freeListRefs[n] = 1 + c
      <4>1. k = "popped"
        BY <3>2, <3>3, KindOf
      <4> QED
        BY <3>2, <4>1 DEF BaseOf
    <3>5. Cardinality(Threads) \in Nat /\ Flag \in Nat /\ Cardinality(Threads) + 1 < Flag
      BY ReferringFinite, FlagIsNat, FreeListAssumption DEF FreeListAssumption, Flag
    <3> QED
      BY <3>1, <3>2, <3>4, <3>5
  <2> QED
    BY <2>1, <2>2 DEF OneOwner
<1> QED
  BY <1>1, FreeListInvariant, PTL

\* When every call has returned, each block that was ever given is on the list, with
\* the list's reference only, or some thread has it, or it is still in the pool.
THEOREM NoBlockIsLost == FreeListSpec => []NoneLost
<1>1. FreeListInv => NoneLost
  <2> SUFFICES ASSUME FreeListInv, \A t \in Threads : thr[t].pc = "idle",
                      NEW n \in 1 .. PoolSize + made
               PROVE  IF n \in Listed THEN freeListRefs[n] = 1
                      ELSE freeListRefs[n] = 0 /\ (n \in initialBlockPoolIndex + 1 .. PoolSize
                                                   \/ \E t \in Threads : n \in held[t])
    BY DEF NoneLost
  <2>1. /\ PoolSize \in Nat /\ MaxNodes \in Nat /\ made \in Nat /\ PoolSize + made <= MaxNodes
        /\ initialBlockPoolIndex \in Nat
    BY FreeListAssumption DEF FreeListAssumption, FreeListInv, FreeListTypes
  <2>2. n \in Nodes
    BY <2>1 DEF Nodes
  <2>3. PICK k \in Kinds, o \in Threads \cup {Null}, c \in Nat :
          /\ Placed(n, k, o) /\ freeListRefs[n] = BaseOf(k) + c /\ (Referring(n) = {} <=> c = 0)
    BY <2>2, NodeNow
  <2>4. \A t \in Threads : /\ ~ Refers(thr[t], n) /\ ~ Adds(thr[t], n) /\ ~ Pushes(thr[t], n)
                           /\ ~ Pops(thr[t], n)
    BY NoRole
  <2>5. c = 0 /\ Referring(n) = {}
    BY <2>3, <2>4 DEF Referring
  <2>6. k \in {"fresh", "held", "listed"}
    BY <2>3, <2>4, <2>5 DEF Placed, Kinds
  <2>7. CASE k = "listed"
    BY <2>3, <2>5, <2>7 DEF Placed, BaseOf
  <2>8. CASE k = "held"
    BY <2>3, <2>5, <2>8 DEF Placed, BaseOf
  <2>9. CASE k = "fresh"
    <3>1. ~ Given(n) /\ n \notin Listed /\ freeListRefs[n] = 0
      BY <2>3, <2>5, <2>9 DEF Placed, BaseOf
    <3>2. n \in initialBlockPoolIndex + 1 .. PoolSize
      BY <2>1, <3>1 DEF Given
    <3> QED
      BY <3>1, <3>2
  <2> QED
    BY <2>6, <2>7, <2>8, <2>9
<1> QED
  BY <1>1, FreeListInvariant, PTL
=============================================================================
