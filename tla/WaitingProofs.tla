---------------------------- MODULE WaitingProofs ----------------------------
(***************************************************************************)
(* Of the two ways a thread waits here for another: that the two-level     *)
(* semaphore implements the counter, for every number of threads that wait *)
(* and signal; and that the queue on the other semaphore hands its         *)
(* elements over in order and keeps its size and its count, whatever the   *)
(* sizes of the blocks and the number of elements.                         *)
(***************************************************************************)
EXTENDS LightweightSemaphore, ReaderWriterQueue, SumTheorems

SInv == SemaphoreTypeOK /\ PostsMatchWaiters

-----------------------------------------------------------------------------
(* Sets of threads.                                                        *)

LEMMA Finite ==
  ASSUME SemaphoreTypeOK
  PROVE  /\ IsFiniteSet(Waiting) /\ IsFiniteSet(Counted) /\ IsFiniteSet(posting)
         /\ Cardinality(Waiting) \in Nat /\ Cardinality(Counted) \in Nat
         /\ Cardinality(posting) \in Nat
         /\ Cardinality(Counted) <= Cardinality(Waiting)
<1>1. /\ Counted \subseteq Waiting /\ Waiting \subseteq Waiters
      /\ posting \subseteq Signallers
  BY DEF Counted, Waiting, SemaphoreTypeOK
<1>2. IsFiniteSet(Waiting) /\ IsFiniteSet(posting)
  BY <1>1, ThreadsAssumption, FS_Subset
<1>3. IsFiniteSet(Counted) /\ Cardinality(Counted) <= Cardinality(Waiting)
  BY <1>1, <1>2, FS_Subset
<1> QED
  BY <1>2, <1>3, FS_CardinalityType

\* How a step of one waiter changes the two sets.
LEMMA CountedSame ==
  ASSUME SemaphoreTypeOK, NEW w \in Waiters, NEW l \in WaiterLabels,
         wpc' = [wpc EXCEPT ![w] = l],
         l \in {"kernel", "load", "decide"} <=> w \in Counted
  PROVE  Counted' = Counted
BY DEF Counted, SemaphoreTypeOK

LEMMA CountedAdds ==
  ASSUME SemaphoreTypeOK, NEW w \in Waiters, NEW l \in {"kernel", "load", "decide"},
         wpc' = [wpc EXCEPT ![w] = l], w \notin Counted
  PROVE  /\ Counted' = Counted \cup {w}
         /\ Cardinality(Counted') = Cardinality(Counted) + 1
<1>1. Counted' = Counted \cup {w}
  BY DEF Counted, SemaphoreTypeOK
<1> QED
  BY <1>1, Finite, FS_AddElement

LEMMA CountedRemoves ==
  ASSUME SemaphoreTypeOK, NEW w \in Counted,
         wpc' = [wpc EXCEPT ![w] = "out"]
  PROVE  /\ Counted' = Counted \ {w}
         /\ Cardinality(Counted') = Cardinality(Counted) - 1
<1>1. Counted' = Counted \ {w} /\ w \in Waiters
  BY DEF Counted, SemaphoreTypeOK
<1> QED
  BY <1>1, Finite, FS_RemoveElement

\* How the set of waiting threads changes.
LEMMA WaitingSets ==
  ASSUME SemaphoreTypeOK, NEW w \in Waiters, NEW l \in WaiterLabels, wpc' = [wpc EXCEPT ![w] = l]
  PROVE  Waiting' = IF l = "out" THEN Waiting \ {w} ELSE Waiting \cup {w}
BY DEF Waiting, SemaphoreTypeOK

-----------------------------------------------------------------------------
(* The effect of each step on the quantities the invariant relates: the    *)
(* count, the kernel's value, the posts on the way and the threads counted. *)

Numbers ==
  /\ m_count \in Int /\ m_sema \in Nat
  /\ Cardinality(posting) \in Nat /\ Cardinality(Counted) \in Nat
  /\ m_sema + Cardinality(posting) =
       Cardinality(Counted) + (IF m_count < 0 THEN m_count ELSE 0)

LEMMA HaveNumbers == SInv => Numbers
BY Finite DEF SInv, SemaphoreTypeOK, PostsMatchWaiters, Numbers

LEMMA CountedLabels ==
  ASSUME SemaphoreTypeOK, NEW w \in Waiters
  PROVE  w \in Counted <=> wpc[w] \in {"kernel", "load", "decide"}
BY DEF Counted

LEMMA TypeStep == SemaphoreTypeOK /\ [SemaphoreNext]_semaphoreVars => SemaphoreTypeOK'
<1> SUFFICES ASSUME SemaphoreTypeOK, [SemaphoreNext]_semaphoreVars PROVE SemaphoreTypeOK'
  OBVIOUS
<1>1. CASE UNCHANGED semaphoreVars
  BY <1>1 DEF SemaphoreTypeOK, semaphoreVars
<1>2. ASSUME NEW w \in Waiters, Call(w) \/ Waiter(w) PROVE SemaphoreTypeOK'
  <2>1. \E l \in WaiterLabels : wpc' = [wpc EXCEPT ![w] = l]
    BY <1>2 DEF WaiterLabels, Waiter, Call, Take, SubWait, KernelTake, KernelTimeout,
                Load, LateTake, GiveUp, Again, Return, Goto
  <2>2. oldCount' = oldCount \/ oldCount' = [oldCount EXCEPT ![w] = m_count]
    BY <1>2 DEF Waiter, Call, Take, SubWait, KernelTake, KernelTimeout,
                Load, LateTake, GiveUp, Again
  <2>3. result' = result \/ \E b \in BOOLEAN : result' = [result EXCEPT ![w] = b]
    BY <1>2 DEF Waiter, Call, Take, SubWait, KernelTake, KernelTimeout,
                Load, LateTake, GiveUp, Again, Return
  <2>4. m_count' \in Int /\ m_sema' \in Nat /\ posting' = posting
    <3>1. CASE Call(w) \/ KernelTimeout(w) \/ Load(w) \/ Again(w)
      BY <3>1 DEF SemaphoreTypeOK, Call, KernelTimeout, Load, Again
    <3>2. CASE Take(w) \/ SubWait(w) \/ GiveUp(w)
      BY <3>2 DEF SemaphoreTypeOK, Take, SubWait, GiveUp, Return, Goto
    <3>3. CASE KernelTake(w) \/ LateTake(w)
      BY <3>3 DEF SemaphoreTypeOK, KernelTake, LateTake, Return, Goto
    <3> QED
      BY <1>2, <3>1, <3>2, <3>3 DEF Waiter
  <2>5. wpc' \in [Waiters -> WaiterLabels] /\ oldCount' \in [Waiters -> Int]
    BY <2>1, <2>2 DEF SemaphoreTypeOK
  <2>6. result' \in [Waiters -> BOOLEAN]
    BY <2>3 DEF SemaphoreTypeOK
  <2> QED
    BY <2>4, <2>5, <2>6 DEF SemaphoreTypeOK
<1>3. ASSUME NEW s \in Signallers, Signal(s) \/ Post(s) PROVE SemaphoreTypeOK'
  BY <1>3 DEF SemaphoreTypeOK, Signal, Post, Owed
<1> QED
  BY <1>1, <1>2, <1>3 DEF SemaphoreNext

\* A step that does not concern the counted threads nor the semaphores.
LEMMA QuietStep ==
  ASSUME SInv, NEW w \in Waiters, NEW l \in WaiterLabels,
         wpc' = [wpc EXCEPT ![w] = l],
         l \in {"kernel", "load", "decide"} <=> w \in Counted,
         UNCHANGED <<m_count, m_sema, posting>>
  PROVE  PostsMatchWaiters' /\ Available' = Available
<1>1. Counted' = Counted
  BY CountedSame DEF SInv
<1> QED
  BY <1>1 DEF SInv, PostsMatchWaiters, Available

LEMMA CallStep ==
  ASSUME SInv, NEW w \in Waiters, Call(w)
  PROVE  PostsMatchWaiters' /\ Available' = Available
<1>1. wpc' = [wpc EXCEPT ![w] = "spin"] /\ w \notin Counted
  BY DEF Call, Goto, Counted
<1> QED
  BY <1>1, QuietStep DEF Call, WaiterLabels

LEMMA TimeoutLoopStep ==
  ASSUME SInv, NEW w \in Waiters, KernelTimeout(w) \/ Load(w) \/ Again(w)
  PROVE  PostsMatchWaiters' /\ Available' = Available
<1>1. w \in Counted
  BY DEF KernelTimeout, Load, Again, Goto, Counted
<1>2. PICK l \in {"load", "decide"} : wpc' = [wpc EXCEPT ![w] = l]
  BY DEF KernelTimeout, Load, Again, Goto
<1> QED
  BY <1>1, <1>2, QuietStep DEF KernelTimeout, Load, Again, WaiterLabels

LEMMA TakeStep ==
  ASSUME SInv, NEW w \in Waiters, Take(w)
  PROVE  PostsMatchWaiters' /\ Available > 0 /\ Available' = Available - 1
<1>1. Counted' = Counted
  <2>1. wpc' = [wpc EXCEPT ![w] = "out"] /\ w \notin Counted
    BY DEF Take, Return, Goto, Counted
  <2> QED
    BY <2>1, CountedSame DEF SInv, WaiterLabels
<1> QED
  BY <1>1, HaveNumbers DEF Take, Numbers, PostsMatchWaiters, Available

LEMMA SubWaitStep ==
  ASSUME SInv, NEW w \in Waiters, SubWait(w)
  PROVE  PostsMatchWaiters' /\ Available' = Available
<1>1. Cardinality(Counted') = Cardinality(Counted) + 1
  <2>1. wpc' = [wpc EXCEPT ![w] = "kernel"] /\ w \notin Counted
    BY DEF SubWait, Goto, Counted
  <2> QED
    BY <2>1, CountedAdds DEF SInv
<1>2. m_count <= 0 /\ m_count' = m_count - 1 /\ m_sema' = m_sema /\ posting' = posting
  BY DEF SubWait
<1> QED
  BY <1>1, <1>2, HaveNumbers DEF Numbers, PostsMatchWaiters, Available

\* The waiter goes with a post of the kernel semaphore.
LEMMA PostTakenStep ==
  ASSUME SInv, NEW w \in Waiters, KernelTake(w) \/ LateTake(w)
  PROVE  PostsMatchWaiters' /\ Available > 0 /\ Available' = Available - 1
<1>1. Cardinality(Counted') = Cardinality(Counted) - 1
  <2>1. wpc' = [wpc EXCEPT ![w] = "out"] /\ w \in Counted
    BY DEF KernelTake, LateTake, Return, Goto, Counted
  <2> QED
    BY <2>1, CountedRemoves DEF SInv
<1>2. m_sema > 0 /\ m_sema' = m_sema - 1 /\ m_count' = m_count /\ posting' = posting
  BY DEF KernelTake, LateTake
<1> QED
  BY <1>1, <1>2, HaveNumbers DEF Numbers, PostsMatchWaiters, Available

\* The waiter goes without: there was nothing left for it.
LEMMA GiveUpStep ==
  ASSUME SInv, NEW w \in Waiters, GiveUp(w)
  PROVE  /\ PostsMatchWaiters' /\ Available' = Available
         /\ Available < Cardinality(Waiting)
<1>1. Cardinality(Counted') = Cardinality(Counted) - 1
  <2>1. wpc' = [wpc EXCEPT ![w] = "out"] /\ w \in Counted
    BY DEF GiveUp, Return, Goto, Counted
  <2> QED
    BY <2>1, CountedRemoves DEF SInv
<1>2. m_count < 0 /\ m_count' = m_count + 1 /\ m_sema' = m_sema /\ posting' = posting
  BY DEF GiveUp
<1>3. Cardinality(Counted) <= Cardinality(Waiting) /\ Cardinality(Waiting) \in Nat
  BY Finite DEF SInv
<1> QED
  BY <1>1, <1>2, <1>3, HaveNumbers DEF Numbers, PostsMatchWaiters, Available

LEMMA SignalStep ==
  ASSUME SInv, NEW s \in Signallers, Signal(s)
  PROVE  PostsMatchWaiters' /\ Available' = Available + 1
<1>1. Counted' = Counted /\ m_count' = m_count + 1 /\ m_sema' = m_sema
  BY DEF Signal, Counted
<1>2. CASE m_count < 0
  <2>1. posting' = posting \cup {s} /\ s \notin posting
    BY <1>2 DEF Signal, Owed
  <2>2. Cardinality(posting') = Cardinality(posting) + 1
    BY <2>1, Finite, FS_AddElement DEF SInv
  <2> QED
    BY <1>1, <1>2, <2>2, HaveNumbers DEF Numbers, PostsMatchWaiters, Available
<1>3. CASE ~ (m_count < 0)
  <2>1. posting' = posting
    BY <1>3 DEF Signal, Owed
  <2> QED
    BY <1>1, <1>3, <2>1, HaveNumbers DEF Numbers, PostsMatchWaiters, Available
<1> QED
  BY <1>2, <1>3

LEMMA PostStep ==
  ASSUME SInv, NEW s \in Signallers, Post(s)
  PROVE  PostsMatchWaiters' /\ Available' = Available
<1>1. Counted' = Counted /\ m_count' = m_count /\ m_sema' = m_sema + 1
  BY DEF Post, Counted
<1>2. Cardinality(posting') = Cardinality(posting) - 1
  BY Finite, FS_RemoveElement DEF SInv, Post
<1> QED
  BY <1>1, <1>2, HaveNumbers DEF Numbers, PostsMatchWaiters, Available

-----------------------------------------------------------------------------
LEMMA InitSInv == SemaphoreInit => SInv
<1> SUFFICES ASSUME SemaphoreInit PROVE SInv
  OBVIOUS
<1>1. SemaphoreTypeOK
  BY DEF SemaphoreInit, SemaphoreTypeOK, WaiterLabels
<1>2. Counted = {} /\ posting = {}
  BY DEF SemaphoreInit, Counted
<1>3. PostsMatchWaiters
  BY <1>2, FS_EmptySet DEF SemaphoreInit, PostsMatchWaiters
<1> QED
  BY <1>1, <1>3 DEF SInv

LEMMA NextSInv == SInv /\ [SemaphoreNext]_semaphoreVars => SInv'
<1> SUFFICES ASSUME SInv, [SemaphoreNext]_semaphoreVars PROVE PostsMatchWaiters'
  BY TypeStep DEF SInv
<1>1. CASE UNCHANGED semaphoreVars
  BY <1>1 DEF SInv, PostsMatchWaiters, Counted, semaphoreVars
<1>2. ASSUME NEW w \in Waiters, Call(w) \/ Waiter(w) PROVE PostsMatchWaiters'
  BY <1>2, CallStep, TakeStep, SubWaitStep, PostTakenStep, TimeoutLoopStep, GiveUpStep
  DEF Waiter
<1>3. ASSUME NEW s \in Signallers, Signal(s) \/ Post(s) PROVE PostsMatchWaiters'
  BY <1>3, SignalStep, PostStep
<1> QED
  BY <1>1, <1>2, <1>3 DEF SemaphoreNext

LEMMA SInductive == SemaphoreSpec => []SInv
BY InitSInv, NextSInv, PTL DEF SemaphoreSpec

\* The kernel semaphore is never owed more nor fewer posts than there are
\* threads that wait for one.
THEOREM PostsAreExact == SemaphoreSpec => []PostsMatchWaiters
BY SInductive, PTL DEF SInv

LEMMA SameCardinality == ASSUME NEW S PROVE Counter!Cardinality(S) = Cardinality(S)
BY DEF Counter!Cardinality, Cardinality

\* Every step of the two-level semaphore is one of the counter, or none.
LEMMA StepRefines == SInv /\ [SemaphoreNext]_semaphoreVars => [Counter!Next]_Counter!semVars
<1> SUFFICES ASSUME SInv, [SemaphoreNext]_semaphoreVars PROVE [Counter!Next]_Counter!semVars
  OBVIOUS
<1>1. CASE UNCHANGED semaphoreVars
  BY <1>1 DEF semaphoreVars, Counter!semVars, Available, Counted, Waiting
<1>2. ASSUME NEW w \in Waiters, Call(w) PROVE Counter!Call(w)
  <2>1. wpc[w] = "out" /\ wpc' = [wpc EXCEPT ![w] = "spin"]
    BY <1>2 DEF Call, Goto
  <2>2. Waiting' = Waiting \cup {w}
    BY <2>1, WaitingSets DEF SInv, WaiterLabels
  <2> QED
    BY <1>2, <2>1, <2>2, CallStep DEF Call, Counter!Call, Waiting
<1>3. ASSUME NEW w \in Waiters, Take(w) \/ KernelTake(w) \/ LateTake(w)
      PROVE  Counter!Take(w)
  <2>1. w \in Waiting /\ wpc' = [wpc EXCEPT ![w] = "out"]
        /\ result' = [result EXCEPT ![w] = TRUE]
    BY <1>3 DEF Take, KernelTake, LateTake, Return, Goto, Waiting
  <2>2. Waiting' = Waiting \ {w}
    BY <2>1, WaitingSets DEF SInv, WaiterLabels
  <2> QED
    BY <1>3, <2>1, <2>2, TakeStep, PostTakenStep DEF Counter!Take
<1>4. ASSUME NEW w \in Waiters, GiveUp(w) PROVE Counter!TimeOut(w)
  <2>1. w \in Waiting /\ wpc' = [wpc EXCEPT ![w] = "out"]
        /\ result' = [result EXCEPT ![w] = FALSE]
    BY <1>4 DEF GiveUp, Return, Goto, Waiting
  <2>2. Waiting' = Waiting \ {w}
    BY <2>1, WaitingSets DEF SInv, WaiterLabels
  <2>3. Available' = Available /\ Available < Cardinality(Waiting)
    BY <1>4, GiveUpStep
  <2> QED
    BY <2>1, <2>2, <2>3, SameCardinality DEF Counter!TimeOut
<1>5. ASSUME NEW w \in Waiters, SubWait(w) \/ KernelTimeout(w) \/ Load(w) \/ Again(w)
      PROVE  UNCHANGED Counter!semVars
  <2>1. w \in Waiting /\ result' = result
    BY <1>5 DEF SubWait, KernelTimeout, Load, Again, Goto, Waiting
  <2>2. PICK l \in {"kernel", "load", "decide"} : wpc' = [wpc EXCEPT ![w] = l]
    BY <1>5 DEF SubWait, KernelTimeout, Load, Again, Goto
  <2>3. l \in WaiterLabels /\ l # "out"
    BY DEF WaiterLabels
  <2>4. Waiting' = Waiting \cup {w}
    BY <2>2, <2>3, WaitingSets DEF SInv
  <2>5. Waiting' = Waiting
    BY <2>1, <2>4
  <2> QED
    BY <1>5, <2>1, <2>5, SubWaitStep, TimeoutLoopStep DEF Counter!semVars
<1>6. ASSUME NEW s \in Signallers, Signal(s) PROVE Counter!Signal
  BY <1>6, SignalStep DEF Signal, Counter!Signal, Waiting
<1>7. ASSUME NEW s \in Signallers, Post(s) PROVE UNCHANGED Counter!semVars
  BY <1>7, PostStep DEF Post, Counter!semVars, Waiting
<1> QED
  BY <1>1, <1>2, <1>3, <1>4, <1>5, <1>6, <1>7 DEF SemaphoreNext, Waiter, Counter!Next

\* The semaphore is the counter PacketQueue is modelled with.
THEOREM CounterIsImplemented == SemaphoreSpec => ImplementsCounter
<1>1. SemaphoreInit => Counter!Init
  <2> SUFFICES ASSUME SemaphoreInit PROVE Counter!Init
    OBVIOUS
  <2>1. Counted = {} /\ Waiting = {} /\ m_count = 0
    BY DEF SemaphoreInit, Counted, Waiting
  <2>2. Available = 0
    BY <2>1, FS_EmptySet DEF Available
  <2> QED
    BY <2>1, <2>2 DEF SemaphoreInit, Counter!Init
<1> QED
  BY <1>1, SInductive, StepRefines, PTL DEF SemaphoreSpec, ImplementsCounter, Counter!Spec
-----------------------------------------------------------------------------
(* The inductive invariant of ReaderWriterQueue.                           *)

\* The way from slot i forward to slot j of a ring of s, and the slot after i.
Apart(i, j, s) == IF i <= j THEN j - i ELSE j - i + s
Onward(i, s) == IF i + 1 = s THEN 0 ELSE i + 1

\* Of a block: how many slots and how many elements it has.
Slots(r) == Len(r.data)
Kept(r) == Apart(r.front, r.tail, Slots(r))

BlockRecords == [front : Nat, localTail : Nat, tail : Nat, localFront : Nat, next : Nat, data : Seq(Int)]

\* What the consumer has seen of the tail is not beyond it; and what the producer
\* has seen of the front is behind it, with no more than the slots but one between
\* that and the tail.
BlockFits(r) ==
  /\ r \in BlockRecords /\ Slots(r) >= 2
  /\ r.front < Slots(r) /\ r.localTail < Slots(r) /\ r.tail < Slots(r) /\ r.localFront < Slots(r)
  /\ Apart(r.front, r.localTail, Slots(r)) <= Kept(r)
  /\ Apart(r.localFront, r.front, Slots(r)) + Kept(r) < Slots(r)

\* The elements from the d-th on are those after the n-th enqueued, in order.
Holds(r, n, d) ==
  \A i \in 0 .. Slots(r) - 1 :
    LET k == Apart(r.front, i, Slots(r))
    IN d <= k /\ k < Kept(r) => r.data[i + 1] = n + k + 1

Link(b) == block[b].next
Removing == IF cons.pc = "removed" THEN 1 ELSE 0

\* The blocks form one ring: each is the next of one, and there is no smaller ring.
RingFits ==
  /\ \A b \in DOMAIN block : Link(b) \in DOMAIN block
  /\ \A a, b \in DOMAIN block : Link(a) = Link(b) => a = b
  /\ \A C \in SUBSET DOMAIN block :
       C # {} /\ (\A b \in C : Link(b) \in C) => C = DOMAIN block

\* The blocks L go from the front block to the tail block, and no [b] elements were
\* enqueued before those of b.
InUse(L, no) ==
  /\ frontBlock \in L /\ tailBlock \in L
  /\ \A b \in L \ {tailBlock} : /\ Link(b) \in L \ {frontBlock}
                                /\ no[Link(b)] = no[b] + Kept(block[b])
  /\ \A b \in L \ {frontBlock} : /\ Kept(block[b]) > 0
                                 /\ \E a \in L \ {tailBlock} : Link(a) = b
  /\ \A b \in L \ {frontBlock, tailBlock} : Kept(block[b]) = Slots(block[b]) - 1
  /\ \A b \in L : no[b] + Kept(block[b]) <= given
  /\ no[frontBlock] + Removing = taken
  /\ no[tailBlock] + Kept(block[tailBlock]) = given
  /\ \A b \in L : Holds(block[b], no[b], IF b = frontBlock THEN Removing ELSE 0)

\* The others are empty, but for the one just filled ahead.
NotInUse(L) ==
  /\ \A b \in DOMAIN block \ L :
       Kept(block[b]) = IF prod.pc = "advance" /\ b = Link(tailBlock) THEN 1 ELSE 0
  /\ prod.pc \in {"ahead", "advance"} => Link(tailBlock) \notin L
  /\ prod.pc = "advance" => Holds(block[Link(tailBlock)], given, 0)

BlocksFit == \E L \in SUBSET DOMAIN block : \E no \in [Nat -> Nat] : InUse(L, no) /\ NotInUse(L)

\* What the producer and the consumer have seen.
ProducerFits ==
  LET b == block[tailBlock]
  IN /\ prod.pc \in {"room", "built"} => Onward(b.tail, Slots(b)) # b.localFront
     /\ prod.pc = "built" => b.data[b.tail + 1] = given + 1
     /\ prod.pc \in {"full", "ahead", "grow", "advance"} /\ tailBlock # frontBlock =>
          Kept(b) = Slots(b) - 1
     /\ prod.pc = "full" /\ prod.room => b.next # frontBlock
     /\ prod.pc = "grow" => ~ prod.room

Pops == cons.op # "peek"

ConsumerFits ==
  LET b == block[frontBlock]
  IN /\ cons.pc \in {"element", "removed"} => b.front # b.localTail
     /\ cons.pc \in {"recheck", "next"} => frontBlock # tailBlock
     /\ cons.pc = "empty" /\ Pops => frontBlock # tailBlock
     /\ cons.pc = "next" => Kept(b) = 0
     /\ cons.pc # "failed"
     /\ ~ Pops => cons.pc \in {"idle", "look", "empty", "recheck", "next", "element"}
     /\ cons.el # None => cons.el = IF cons.op = "peek" THEN taken + 1 ELSE taken

\* The elements are those the count has, with those not signalled yet and the one a
\* consumer got past the semaphore for; and a post is made for the one asleep.
Unsignalled == IF prod.pc = "signal" THEN 1 ELSE 0
Passed == IF Pops /\ cons.pc \in {"look", "empty", "recheck", "next", "element"} THEN 1 ELSE 0
Sleeping == IF cons.pc \in {"asleep", "undo", "again"} THEN 1 ELSE 0
Posting == IF prod.pc = "post" THEN 1 ELSE 0
OwesOne == cons.pc = "redo" \/ (Sleeping = 1 /\ count >= 0)

SemaphoreFits ==
  /\ given - taken = Unsignalled + Passed + count + Sleeping
  /\ count + Sleeping >= 0
  /\ sema + Posting = IF OwesOne THEN 1 ELSE 0
  /\ cons.pc \in {"dec", "redo"} => count > 0
  /\ cons.pc = "again" => count >= 0

SizeFits == SizeApprox = given - taken + Removing + (IF prod.pc = "advance" THEN 1 ELSE 0)

\* What the constructor made was enough: one block for all, or as many blocks as hold
\* all while another is being read from.
RoomFits ==
  /\ largestBlockSize >= 2
  /\ \/ /\ largestBlockSize > size
        /\ \A b \in DOMAIN block : Slots(block[b]) > size
     \/ /\ largestBlockSize >= MAX_BLOCK_SIZE
        /\ \A b \in DOMAIN block : Slots(block[b]) >= MAX_BLOCK_SIZE
        /\ \E n \in Nat : n < Len(block) /\ size <= n * (MAX_BLOCK_SIZE - 1)

ProducerLabels == {"idle", "room", "built", "full", "ahead", "grow", "advance", "signal", "post"}
ConsumerLabels ==
  {"idle", "load", "dec", "sub", "asleep", "undo", "redo", "again", "look", "empty",
   "failed", "recheck", "next", "element", "removed"}
ProducerRecords == [pc : ProducerLabels, alloc : BOOLEAN, room : BOOLEAN]
ConsumerRecords ==
  [pc : ConsumerLabels, op : {"try", "wait", "timed", "pop", "peek"}, el : Int]

QueueTypes ==
  /\ block \in Seq(BlockRecords) /\ \A b \in DOMAIN block : BlockFits(block[b])
  /\ frontBlock \in DOMAIN block /\ tailBlock \in DOMAIN block
  /\ largestBlockSize \in Nat /\ count \in Int /\ sema \in Nat
  /\ prod \in ProducerRecords /\ cons \in ConsumerRecords
  /\ given \in Nat /\ taken \in Nat /\ size \in Sizes

QueueInv ==
  /\ QueueTypes /\ RingFits /\ BlocksFit /\ ProducerFits /\ ConsumerFits
  /\ SemaphoreFits /\ SizeFits /\ RoomFits

-----------------------------------------------------------------------------
(* The indices of a block.                                                 *)

LEMMA OnwardIs ==
  ASSUME NEW s \in Nat, NEW i \in Nat, i < s
  PROVE  /\ (i + 1) % s = Onward(i, s)
         /\ Onward(i, s) \in Nat /\ Onward(i, s) < s
BY DEF Onward

LEMMA ApartIs ==
  ASSUME NEW s \in Nat, NEW i \in Nat, i < s, NEW j \in Nat, j < s
  PROVE  /\ Apart(i, j, s) \in Nat /\ Apart(i, j, s) < s
         /\ Apart(i, j, s) = 0 <=> i = j
BY DEF Apart

LEMMA ApartMod ==
  ASSUME NEW s \in Nat, NEW i \in Nat, i < s, NEW j \in Nat, j < s
  PROVE  (j - i) % s = Apart(i, j, s)
BY DEF Apart

\* Moving either end on by one.
LEMMA ApartMoves ==
  ASSUME NEW s \in Nat, NEW i \in Nat, i < s, NEW j \in Nat, j < s
  PROVE  /\ i # j => Apart(Onward(i, s), j, s) = Apart(i, j, s) - 1
         /\ Onward(j, s) # i => Apart(i, Onward(j, s), s) = Apart(i, j, s) + 1
         /\ Onward(j, s) = i <=> Apart(i, j, s) = s - 1
BY DEF Apart, Onward

\* Three slots in a row.
LEMMA ApartAdds ==
  ASSUME NEW s \in Nat, NEW i \in Nat, i < s, NEW j \in Nat, j < s, NEW k \in Nat, k < s
  PROVE  /\ Apart(i, j, s) + Apart(j, k, s) < s => Apart(i, k, s) = Apart(i, j, s) + Apart(j, k, s)
         /\ Apart(i, j, s) <= Apart(i, k, s) => Apart(i, k, s) = Apart(i, j, s) + Apart(j, k, s)
BY DEF Apart

-----------------------------------------------------------------------------
(* What the threads do to a block.                                         *)

LEMMA RecordIs ==
  ASSUME NEW r \in BlockRecords
  PROVE  /\ r.front \in Nat /\ r.localTail \in Nat /\ r.tail \in Nat /\ r.localFront \in Nat
         /\ r.next \in Nat /\ r.data \in Seq(Int) /\ Slots(r) \in Nat
BY DEF BlockRecords, Slots

\* Record q has these fields.
Reads(q, front, localTail, tail, localFront, next, data) ==
  /\ q \in BlockRecords
  /\ q.front = front /\ q.localTail = localTail /\ q.tail = tail
  /\ q.localFront = localFront /\ q.next = next /\ q.data = data

LEMMA ReadsFront ==
  ASSUME NEW r \in BlockRecords, NEW i \in Nat
  PROVE  Reads([r EXCEPT !.front = i], i, r.localTail, r.tail, r.localFront, r.next, r.data)
<1>1. [r EXCEPT !.front = i] \in BlockRecords
  BY Zenon DEF BlockRecords
<1> QED
  BY <1>1 DEF Reads, BlockRecords

LEMMA ReadsLocalTail ==
  ASSUME NEW r \in BlockRecords, NEW i \in Nat
  PROVE  Reads([r EXCEPT !.localTail = i], r.front, i, r.tail, r.localFront, r.next, r.data)
<1>1. [r EXCEPT !.localTail = i] \in BlockRecords
  BY Zenon DEF BlockRecords
<1> QED
  BY <1>1 DEF Reads, BlockRecords

LEMMA ReadsTail ==
  ASSUME NEW r \in BlockRecords, NEW i \in Nat
  PROVE  Reads([r EXCEPT !.tail = i], r.front, r.localTail, i, r.localFront, r.next, r.data)
<1>1. [r EXCEPT !.tail = i] \in BlockRecords
  BY Zenon DEF BlockRecords
<1> QED
  BY <1>1 DEF Reads, BlockRecords

LEMMA ReadsLocalFront ==
  ASSUME NEW r \in BlockRecords, NEW i \in Nat
  PROVE  Reads([r EXCEPT !.localFront = i], r.front, r.localTail, r.tail, i, r.next, r.data)
<1>1. [r EXCEPT !.localFront = i] \in BlockRecords
  BY Zenon DEF BlockRecords
<1> QED
  BY <1>1 DEF Reads, BlockRecords

LEMMA ReadsNext ==
  ASSUME NEW r \in BlockRecords, NEW i \in Nat
  PROVE  Reads([r EXCEPT !.next = i], r.front, r.localTail, r.tail, r.localFront, i, r.data)
<1>1. [r EXCEPT !.next = i] \in BlockRecords
  BY Zenon DEF BlockRecords
<1> QED
  BY <1>1 DEF Reads, BlockRecords

LEMMA ReadsData ==
  ASSUME NEW r \in BlockRecords, NEW s \in Seq(Int)
  PROVE  Reads([r EXCEPT !.data = s], r.front, r.localTail, r.tail, r.localFront, r.next, s)
<1>1. [r EXCEPT !.data = s] \in BlockRecords
  BY Zenon DEF BlockRecords
<1> QED
  BY <1>1 DEF Reads, BlockRecords

LEMMA FitsIs ==
  ASSUME NEW r, BlockFits(r)
  PROVE  /\ r \in BlockRecords /\ Kept(r) \in Nat /\ Kept(r) < Slots(r)
         /\ Slots(r) \in Nat /\ Slots(r) >= 2 /\ r.front \in Nat /\ r.tail \in Nat
         /\ r.front < Slots(r) /\ r.tail < Slots(r)
         /\ Kept(r) = 0 <=> r.front = r.tail
<1>1. r \in BlockRecords
  BY DEF BlockFits
<1>2. /\ Slots(r) \in Nat /\ Slots(r) >= 2 /\ r.front \in Nat /\ r.tail \in Nat
      /\ r.front < Slots(r) /\ r.tail < Slots(r)
  BY <1>1, RecordIs DEF BlockFits
<1>3. PICK s, i, j : i = r.front /\ j = r.tail /\ s = Slots(r)
  OBVIOUS
<1>4. i \in Nat /\ j \in Nat /\ s \in Nat /\ i < s /\ j < s /\ Kept(r) = Apart(i, j, s)
  BY <1>2, <1>3 DEF Kept
<1>5. /\ Apart(i, j, s) \in Nat /\ Apart(i, j, s) < s
      /\ Apart(i, j, s) = 0 <=> i = j
  BY <1>4, ApartIs
<1> QED
  BY <1>1, <1>2, <1>3, <1>4, <1>5

\* The code's remainders.
LEMMA RemaindersAre ==
  ASSUME NEW r, BlockFits(r)
  PROVE  /\ (r.tail - r.front) % Slots(r) = Kept(r)
         /\ (r.front + 1) % Slots(r) = Onward(r.front, Slots(r))
         /\ (r.tail + 1) % Slots(r) = Onward(r.tail, Slots(r))
<1>1. PICK s, i, j : i = r.front /\ j = r.tail /\ s = Slots(r)
  OBVIOUS
<1>2. i \in Nat /\ j \in Nat /\ s \in Nat /\ i < s /\ j < s /\ Kept(r) = Apart(i, j, s)
  BY <1>1, FitsIs DEF Kept
<1>3. (j - i) % s = Apart(i, j, s)
  BY <1>2, ApartMod, Zenon
<1>4. (i + 1) % s = Onward(i, s) /\ (j + 1) % s = Onward(j, s)
  BY <1>2, OnwardIs, Zenon
<1> QED
  BY <1>1, <1>2, <1>3, <1>4

\* The block is as long and leads to the same, and holds what it held.
SameBlock(r, q) ==
  /\ q.next = r.next /\ q.front = r.front /\ q.tail = r.tail
  /\ Slots(q) = Slots(r) /\ Kept(q) = Kept(r)
  /\ \A n, d \in Nat : Holds(r, n, d) => Holds(q, n, d)

\* The producer copies the front.
LEMMA FrontSeen ==
  ASSUME NEW r, BlockFits(r), NEW i \in {r.localFront, r.front},
         NEW q, Reads(q, r.front, r.localTail, r.tail, i, r.next, r.data)
  PROVE  BlockFits(q) /\ SameBlock(r, q)
<1>1. Slots(q) = Slots(r) /\ Kept(q) = Kept(r)
  BY DEF Slots, Kept, Reads
<1>2. SameBlock(r, q)
  BY <1>1 DEF SameBlock, Holds, Reads
<1>3. i < Slots(r) /\ Apart(i, r.front, Slots(r)) + Kept(r) < Slots(r)
  <2>1. Apart(r.front, r.front, Slots(r)) = 0
    BY FitsIs DEF Apart
  <2> QED
    BY <2>1, FitsIs DEF BlockFits
<1> QED
  BY <1>1, <1>2, <1>3 DEF BlockFits, Reads

\* The consumer copies the tail.
LEMMA TailSeen ==
  ASSUME NEW r, BlockFits(r), NEW i \in {r.localTail, r.tail},
         NEW q, Reads(q, r.front, i, r.tail, r.localFront, r.next, r.data)
  PROVE  BlockFits(q) /\ SameBlock(r, q)
<1>1. Slots(q) = Slots(r) /\ Kept(q) = Kept(r)
  BY DEF Slots, Kept, Reads
<1>2. SameBlock(r, q)
  BY <1>1 DEF SameBlock, Holds, Reads
<1>3. i < Slots(r) /\ Apart(r.front, i, Slots(r)) <= Kept(r)
  BY FitsIs DEF BlockFits, Kept
<1> QED
  BY <1>1, <1>2, <1>3 DEF BlockFits, Reads

\* An element is written to the slot at the tail, which holds none.
LEMMA SlotWritten ==
  ASSUME NEW r, BlockFits(r), NEW e \in Int, NEW s, s = [r.data EXCEPT ![r.tail + 1] = e],
         NEW q, Reads(q, r.front, r.localTail, r.tail, r.localFront, r.next, s)
  PROVE  BlockFits(q) /\ SameBlock(r, q) /\ q.data[r.tail + 1] = e
<1>1. r \in BlockRecords /\ q \in BlockRecords /\ q.front = r.front /\ q.tail = r.tail
  BY DEF BlockFits, Reads
<1>2. r.tail \in Nat /\ r.tail < Len(r.data) /\ r.data \in Seq(Int) /\ r.front \in Nat
  BY <1>1, RecordIs DEF BlockFits, Slots
<1>3. s \in Seq(Int) /\ Len(s) = Len(r.data) /\ s[r.tail + 1] = e
      /\ \A j \in 1 .. Len(r.data) : j # r.tail + 1 => s[j] = r.data[j]
  BY <1>2
<1>4. Slots(q) = Slots(r) /\ Kept(q) = Kept(r)
  BY <1>3 DEF Slots, Kept, Reads
<1>5. ASSUME NEW n \in Nat, NEW d \in Nat, Holds(r, n, d) PROVE Holds(q, n, d)
  <2> SUFFICES ASSUME NEW i \in 0 .. Slots(q) - 1, d <= Apart(q.front, i, Slots(q)),
                      Apart(q.front, i, Slots(q)) < Kept(q)
               PROVE  q.data[i + 1] = n + Apart(q.front, i, Slots(q)) + 1
    BY DEF Holds
  <2>1. r.data[i + 1] = n + Apart(r.front, i, Slots(r)) + 1
    BY <1>1, <1>4, <1>5 DEF Holds
  <2>2. i # r.tail
    <3>1. Apart(r.front, i, Slots(r)) < Apart(r.front, r.tail, Slots(r))
      BY <1>1, <1>4 DEF Kept
    <3>2. Apart(r.front, r.tail, Slots(r)) \in Nat
      BY FitsIs DEF Kept
    <3> QED
      BY <3>1, <3>2
  <2>3. PICK k \in 1 .. Len(r.data) : k = i + 1 /\ k # r.tail + 1
    BY <1>2, <1>4, <2>2 DEF Slots
  <2>4. s[k] = r.data[k]
    BY <1>3, <2>3
  <2> QED
    BY <1>1, <1>4, <2>1, <2>3, <2>4 DEF Reads
<1> QED
  BY <1>1, <1>3, <1>4, <1>5 DEF BlockFits, SameBlock, Reads

\* The tail goes on by one, to an element that is there.
LEMMA TailMoved ==
  ASSUME NEW r, BlockFits(r), Onward(r.tail, Slots(r)) # r.localFront,
         NEW g \in Nat, r.data[r.tail + 1] = g + 1,
         NEW q, Reads(q, r.front, r.localTail, Onward(r.tail, Slots(r)), r.localFront, r.next, r.data)
  PROVE  /\ BlockFits(q) /\ Slots(q) = Slots(r) /\ Kept(q) = Kept(r) + 1
         /\ \A n, d \in Nat : Holds(r, n, d) /\ n + Kept(r) = g => Holds(q, n, d)
<1> DEFINE s == Slots(r)
           t == Onward(r.tail, s)
<1>1. /\ r \in BlockRecords /\ r.localFront \in Nat /\ r.localFront < s
      /\ r.localTail \in Nat /\ r.localTail < s
  BY RecordIs DEF BlockFits
<1>2. /\ s \in Nat /\ s >= 2 /\ r.front \in Nat /\ r.front < s
      /\ r.tail \in Nat /\ r.tail < s
  BY FitsIs
<1>3. t \in Nat /\ t < s
  BY <1>2, OnwardIs
<1>4. Slots(q) = s /\ Kept(q) = Apart(r.front, t, s)
  BY DEF Reads, Slots, Kept
<1> HIDE DEF s
<1>5. /\ Apart(r.localFront, r.front, s) \in Nat /\ Apart(r.front, r.tail, s) \in Nat
      /\ Apart(r.localFront, r.tail, s) \in Nat /\ Apart(r.localFront, r.tail, s) < s
  BY <1>1, <1>2, ApartIs
<1>6. Apart(r.localFront, r.front, s) + Apart(r.front, r.tail, s) < s
  BY DEF BlockFits, Kept, s
<1>7. Apart(r.localFront, r.tail, s) =
        Apart(r.localFront, r.front, s) + Apart(r.front, r.tail, s)
  BY <1>1, <1>2, <1>6, ApartAdds
<1>8. Apart(r.localFront, r.tail, s) # s - 1
  BY <1>1, <1>2, ApartMoves DEF s
<1>9. Apart(r.localFront, r.front, s) + Apart(r.front, r.tail, s) + 1 < s
  BY <1>2, <1>5, <1>7, <1>8
<1>10. Apart(r.front, t, s) = Apart(r.front, r.tail, s) + 1
  <2>1. Apart(r.front, r.tail, s) # s - 1
    BY <1>2, <1>5, <1>9
  <2> QED
    BY <1>2, <2>1, ApartMoves
<1>11. Kept(r) = Apart(r.front, r.tail, s) /\ Kept(q) = Kept(r) + 1
  BY <1>4, <1>10 DEF Kept, s
<1>12. BlockFits(q)
  <2>1. Apart(r.front, r.localTail, s) <= Kept(r) /\ Apart(r.front, r.localTail, s) \in Nat
    BY <1>1, <1>2, ApartIs DEF BlockFits, s
  <2>2. Apart(r.front, r.localTail, s) <= Kept(q)
    BY <1>5, <1>11, <2>1
  <2>3. Apart(r.localFront, r.front, s) + Kept(q) < s
    BY <1>2, <1>5, <1>9, <1>11
  <2> HIDE DEF t
  <2> QED
    BY <1>1, <1>2, <1>3, <1>4, <2>2, <2>3 DEF BlockFits, Reads, t, s
<1>13. ASSUME NEW n \in Nat, NEW d \in Nat, Holds(r, n, d), n + Kept(r) = g
       PROVE  Holds(q, n, d)
  <2> SUFFICES ASSUME NEW i \in 0 .. Slots(q) - 1, d <= Apart(q.front, i, Slots(q)),
                      Apart(q.front, i, Slots(q)) < Kept(q)
               PROVE  q.data[i + 1] = n + Apart(q.front, i, Slots(q)) + 1
    BY DEF Holds
  <2>1. q.front = r.front /\ q.data = r.data
    BY DEF Reads
  <2>2. i \in Nat /\ i < s /\ Apart(r.front, i, s) \in Nat
    <3>1. i \in Nat /\ i < s
      BY <1>2, <1>4
    <3> QED
      BY <1>2, <3>1, ApartIs
  <2>3. CASE i = r.tail
    BY <1>4, <1>5, <1>11, <1>13, <2>1, <2>3
  <2>4. CASE i # r.tail
    <3>1. Apart(r.front, i, s) # Apart(r.front, r.tail, s)
      BY <1>2, <2>2, <2>4 DEF Apart
    <3>2. Apart(r.front, i, s) < Kept(r)
      BY <1>4, <1>5, <1>11, <2>1, <2>2, <3>1
    <3> QED
      BY <1>4, <1>13, <2>1, <2>2, <3>2 DEF Holds, s
  <2> QED
    BY <2>3, <2>4
<1> QED
  BY <1>4, <1>11, <1>12, <1>13 DEF s

\* The element at the front is moved out.
LEMMA SlotCleared ==
  ASSUME NEW r, BlockFits(r), r.front # r.localTail,
         NEW s, s = [r.data EXCEPT ![r.front + 1] = Garbage],
         NEW q, Reads(q, r.front, r.localTail, r.tail, r.localFront, r.next, s)
  PROVE  /\ BlockFits(q) /\ Slots(q) = Slots(r) /\ Kept(q) = Kept(r) /\ Kept(r) > 0
         /\ \A n \in Nat : Holds(r, n, 0) => Holds(q, n, 1)
<1>1. r \in BlockRecords /\ q \in BlockRecords /\ q.front = r.front /\ q.tail = r.tail
  BY DEF BlockFits, Reads
<1>2. /\ r.front \in Nat /\ r.front < Len(r.data) /\ r.data \in Seq(Int)
      /\ r.localTail \in Nat /\ r.localTail < Len(r.data)
  BY <1>1, RecordIs DEF BlockFits, Slots
<1>3. s \in Seq(Int) /\ Len(s) = Len(r.data)
      /\ \A j \in 1 .. Len(r.data) : j # r.front + 1 => s[j] = r.data[j]
  BY <1>2 DEF Garbage
<1>4. Slots(q) = Slots(r) /\ Kept(q) = Kept(r)
  BY <1>3 DEF Slots, Kept, Reads
<1>5. Kept(r) > 0
  <2>1. Apart(r.front, r.localTail, Slots(r)) \in Nat /\ Apart(r.front, r.localTail, Slots(r)) # 0
    BY <1>1, <1>2, RecordIs, ApartIs DEF Slots
  <2>2. Apart(r.front, r.localTail, Slots(r)) <= Kept(r) /\ Kept(r) \in Nat
    BY FitsIs DEF BlockFits
  <2> QED
    BY <2>1, <2>2
<1>6. ASSUME NEW n \in Nat, Holds(r, n, 0) PROVE Holds(q, n, 1)
  <2> SUFFICES ASSUME NEW i \in 0 .. Slots(q) - 1, 1 <= Apart(q.front, i, Slots(q)),
                      Apart(q.front, i, Slots(q)) < Kept(q)
               PROVE  q.data[i + 1] = n + Apart(q.front, i, Slots(q)) + 1
    BY DEF Holds
  <2>1. i \in Nat /\ i < Slots(r) /\ Apart(r.front, i, Slots(r)) \in Nat
    <3>1. i \in Nat /\ i < Slots(r)
      BY <1>4, FitsIs
    <3>2. Slots(r) \in Nat /\ r.front \in Nat /\ r.front < Slots(r)
      BY FitsIs
    <3> QED
      BY <3>1, <3>2, ApartIs
  <2>2. r.data[i + 1] = n + Apart(r.front, i, Slots(r)) + 1
    BY <1>1, <1>4, <1>6, <2>1 DEF Holds
  <2>3. i # r.front
    <3>1. Apart(r.front, r.front, Slots(r)) = 0
      BY FitsIs DEF Apart
    <3> QED
      BY <1>1, <1>4, <2>1, <3>1
  <2>4. PICK k \in 1 .. Len(r.data) : k = i + 1 /\ k # r.front + 1
    <3>1. PICK l \in Nat, f \in Nat : l = Len(r.data) /\ f = r.front
      BY <1>2
    <3>2. i < l /\ i # f
      BY <2>1, <2>3, <3>1 DEF Slots
    <3>3. i + 1 \in 1 .. l /\ i + 1 # f + 1
      BY <2>1, <3>2
    <3> QED
      BY <3>1, <3>3
  <2>5. s[k] = r.data[k]
    BY <1>3, <2>4
  <2> QED
    BY <1>1, <1>4, <2>2, <2>4, <2>5 DEF Reads
<1> QED
  BY <1>1, <1>3, <1>4, <1>5, <1>6 DEF BlockFits, Reads

\* The front goes on by one, past an element that was seen.
LEMMA FrontMoved ==
  ASSUME NEW r, BlockFits(r), r.front # r.localTail,
         NEW q, Reads(q, Onward(r.front, Slots(r)), r.localTail, r.tail, r.localFront, r.next, r.data)
  PROVE  /\ BlockFits(q) /\ Slots(q) = Slots(r) /\ Kept(q) = Kept(r) - 1
         /\ \A n \in Nat : Holds(r, n, 1) => Holds(q, n + 1, 0)
<1> DEFINE s == Slots(r)
           f == Onward(r.front, s)
<1>1. /\ r \in BlockRecords /\ r.localFront \in Nat /\ r.localFront < s
      /\ r.localTail \in Nat /\ r.localTail < s
  BY RecordIs DEF BlockFits
<1>2. /\ s \in Nat /\ s >= 2 /\ r.front \in Nat /\ r.front < s
      /\ r.tail \in Nat /\ r.tail < s
  BY FitsIs
<1>3. f \in Nat /\ f < s
  BY <1>2, OnwardIs
<1>4. Slots(q) = s /\ Kept(q) = Apart(f, r.tail, s) /\ Kept(r) = Apart(r.front, r.tail, s)
  BY DEF Reads, Slots, Kept
<1>5. /\ Apart(r.front, r.localTail, s) <= Kept(r)
      /\ Apart(r.localFront, r.front, s) + Kept(r) < s
  BY DEF BlockFits
<1> HIDE DEF s
<1>6. /\ Apart(r.localFront, r.front, s) \in Nat /\ Kept(r) \in Nat
      /\ Apart(r.front, r.localTail, s) \in Nat /\ Apart(r.front, r.localTail, s) # 0
  <2>1. Apart(r.localFront, r.front, s) \in Nat
    BY <1>1, <1>2 DEF Apart
  <2>2. Apart(r.front, r.localTail, s) \in Nat /\ Apart(r.front, r.localTail, s) # 0
    BY <1>1, <1>2 DEF Apart
  <2> QED
    BY <2>1, <2>2, FitsIs
<1>7. Kept(r) > 0 /\ r.front # r.tail
  <2>1. Kept(r) > 0
    BY <1>5, <1>6
  <2> QED
    BY <1>2, <1>4, <2>1, ApartIs
<1>8. /\ Kept(q) = Kept(r) - 1
      /\ Apart(f, r.localTail, s) = Apart(r.front, r.localTail, s) - 1
  BY <1>1, <1>2, <1>4, <1>7, ApartMoves
<1>9. Apart(r.localFront, f, s) = Apart(r.localFront, r.front, s) + 1
  <2>1. Apart(r.localFront, r.front, s) # s - 1
    BY <1>2, <1>5, <1>6, <1>7
  <2> QED
    BY <1>1, <1>2, <2>1, ApartMoves
<1>10. BlockFits(q)
  <2>1. Apart(f, r.localTail, s) <= Kept(q)
    BY <1>5, <1>6, <1>8
  <2>2. Apart(r.localFront, f, s) + Kept(q) < s
    BY <1>2, <1>5, <1>6, <1>8, <1>9
  <2> HIDE DEF f
  <2> QED
    BY <1>1, <1>2, <1>3, <1>4, <2>1, <2>2 DEF BlockFits, Reads, f, s
<1>11. ASSUME NEW n \in Nat, Holds(r, n, 1) PROVE Holds(q, n + 1, 0)
  <2> SUFFICES ASSUME NEW i \in 0 .. Slots(q) - 1, 0 <= Apart(q.front, i, Slots(q)),
                      Apart(q.front, i, Slots(q)) < Kept(q)
               PROVE  q.data[i + 1] = n + 1 + Apart(q.front, i, Slots(q)) + 1
    BY DEF Holds
  <2>1. q.front = f /\ q.data = r.data /\ q.tail = r.tail
    BY DEF Reads, s
  <2>2. i \in Nat /\ i < s /\ Apart(r.front, i, s) \in Nat /\ Apart(f, i, s) \in Nat
    <3>1. i \in Nat /\ i < s
      BY <1>2, <1>4
    <3> HIDE DEF f
    <3> QED
      BY <1>2, <1>3, <3>1, ApartIs
  <2>3. i # r.front
    <3>1. Apart(f, r.front, s) = s - 1
      BY <1>2, <1>3, ApartMoves
    <3>2. Apart(f, i, s) < s - 1
      BY <1>2, <1>4, <1>6, <1>8, <2>1, <2>2, FitsIs DEF s
    <3> QED
      BY <3>1, <3>2, <2>2, <1>2
  <2>4. Apart(f, i, s) = Apart(r.front, i, s) - 1 /\ Apart(r.front, i, s) # 0
    <3>1. Apart(f, i, s) = Apart(r.front, i, s) - 1
      BY <1>2, <2>2, <2>3, ApartMoves
    <3>2. Apart(r.front, i, s) # 0
      BY <1>2, <2>2, <2>3, ApartIs
    <3> QED
      BY <3>1, <3>2
  <2>5. Apart(r.front, i, s) < Kept(r) /\ 1 <= Apart(r.front, i, s)
    BY <1>4, <1>6, <1>8, <2>1, <2>2, <2>4
  <2>6. r.data[i + 1] = n + Apart(r.front, i, s) + 1
    BY <1>11, <1>4, <2>2, <2>5 DEF Holds, s
  <2> QED
    BY <1>4, <2>1, <2>2, <2>4, <2>6
<1> QED
  BY <1>4, <1>8, <1>10, <1>11 DEF s

\* An empty block takes an element.
LEMMA BlockFilled ==
  ASSUME NEW r, BlockFits(r), Kept(r) = 0, NEW g \in Nat,
         NEW s, s = [r.data EXCEPT ![r.tail + 1] = g + 1],
         NEW q, Reads(q, r.front, r.localTail, Onward(r.tail, Slots(r)), r.front, r.next, s)
  PROVE  /\ BlockFits(q) /\ Slots(q) = Slots(r) /\ Kept(q) = 1 /\ Holds(q, g, 0)
<1> DEFINE a == [r EXCEPT !.localFront = r.front]
           b == [a EXCEPT !.data = s]
<1>1. r \in BlockRecords /\ r.front \in Nat /\ r.tail \in Nat /\ r.tail < Len(r.data)
      /\ r.data \in Seq(Int) /\ r.front = r.tail
  BY FitsIs, RecordIs DEF BlockFits, Slots
<1>2. s \in Seq(Int)
  BY <1>1
<1>3. Reads(a, r.front, r.localTail, r.tail, r.front, r.next, r.data)
  BY <1>1, ReadsLocalFront
<1> HIDE DEF a
<1>4. Reads(b, r.front, r.localTail, r.tail, r.front, r.next, s)
  <2>1. a \in BlockRecords /\ a.front = r.front /\ a.localTail = r.localTail
        /\ a.tail = r.tail /\ a.localFront = r.front /\ a.next = r.next
    BY <1>3 DEF Reads
  <2>2. Reads(b, a.front, a.localTail, a.tail, a.localFront, a.next, s)
    BY <1>2, <2>1, ReadsData
  <2> QED
    BY <2>1, <2>2
<1> HIDE DEF b
<1>5. BlockFits(a) /\ SameBlock(r, a)
  BY <1>3, FrontSeen
<1>6. BlockFits(b) /\ SameBlock(a, b) /\ b.data[r.tail + 1] = g + 1
  <2>1. a.data = r.data /\ a.tail = r.tail /\ a.front = r.front /\ a.localTail = r.localTail
        /\ a.localFront = r.front /\ a.next = r.next
    BY <1>3 DEF Reads
  <2>2. s = [a.data EXCEPT ![a.tail + 1] = g + 1] /\ g + 1 \in Int
        /\ Reads(b, a.front, a.localTail, a.tail, a.localFront, a.next, s)
    BY <1>4, <2>1
  <2> QED
    BY <1>5, <2>1, <2>2, SlotWritten
<1>7. Slots(b) = Slots(r) /\ Kept(b) = 0
  BY <1>5, <1>6 DEF SameBlock
<1>8. b.front = r.front /\ b.localTail = r.localTail /\ b.tail = r.tail
      /\ b.localFront = r.front /\ b.next = r.next /\ b.data = s
  BY <1>4 DEF Reads
<1>9. Onward(r.tail, Slots(r)) # r.front
  BY <1>1, FitsIs DEF Onward
<1>10. /\ Onward(b.tail, Slots(b)) # b.localFront /\ b.data[b.tail + 1] = g + 1
       /\ Reads(q, b.front, b.localTail, Onward(b.tail, Slots(b)), b.localFront, b.next, b.data)
  BY <1>6, <1>7, <1>8, <1>9
<1>11. /\ BlockFits(q) /\ Slots(q) = Slots(b) /\ Kept(q) = Kept(b) + 1
       /\ \A n, d \in Nat : Holds(b, n, d) /\ n + Kept(b) = g => Holds(q, n, d)
  BY <1>6, <1>10, TailMoved
<1>12. Holds(b, g, 0)
  <2> SUFFICES ASSUME NEW i \in 0 .. Slots(b) - 1, 0 <= Apart(b.front, i, Slots(b)),
                      Apart(b.front, i, Slots(b)) < Kept(b)
               PROVE  FALSE
    BY DEF Holds
  <2>1. i \in Nat /\ i < Slots(b)
    BY <1>6, FitsIs
  <2>2. Apart(b.front, i, Slots(b)) \in Nat
    <3>1. b.front \in Nat /\ b.front < Slots(b) /\ Slots(b) \in Nat
      BY <1>6, FitsIs
    <3> QED
      BY <2>1, <3>1, ApartIs
  <2> QED
    BY <1>7, <2>2
<1> QED
  BY <1>7, <1>11, <1>12

\* A new block, with one element or none.
LEMMA NewBlock ==
  ASSUME NEW c \in Nat, c >= 2, NEW n \in Nat, NEW g \in Nat
  PROVE  LET q == Block(c, <<g + 1>>, n)
         IN BlockFits(q) /\ Slots(q) = c /\ Kept(q) = 1 /\ Holds(q, g, 0) /\ q.next = n
<1> DEFINE q == Block(c, <<g + 1>>, n)
           s == [i \in 1 .. c |-> IF i <= 1 THEN g + 1 ELSE Garbage]
<1>1. s \in Seq(Int) /\ Len(s) = c /\ s[1] = g + 1
  BY DEF Garbage
<1>2. q = [front |-> 0, localTail |-> 1, tail |-> 1, localFront |-> 0, next |-> n, data |-> s]
  <2>1. Len(<<g + 1>>) = 1 /\ <<g + 1>>[1] = g + 1
    OBVIOUS
  <2>2. s = [i \in 1 .. c |-> IF i <= Len(<<g + 1>>) THEN <<g + 1>>[i] ELSE Garbage]
    BY <2>1
  <2> HIDE DEF s
  <2> QED
    BY <2>1, <2>2 DEF Block
<1> HIDE DEF q, s
<1>3. /\ q \in BlockRecords /\ q.front = 0 /\ q.localTail = 1 /\ q.tail = 1
      /\ q.localFront = 0 /\ q.next = n /\ q.data = s
  BY <1>1, <1>2 DEF BlockRecords
<1>4. Slots(q) = c /\ Kept(q) = 1 /\ Apart(0, 1, c) = 1 /\ Apart(0, 0, c) = 0
  BY <1>1, <1>3 DEF Slots, Kept, Apart
<1>5. BlockFits(q)
  BY <1>3, <1>4 DEF BlockFits
<1>6. Holds(q, g, 0)
  <2> SUFFICES ASSUME NEW i \in 0 .. Slots(q) - 1, Apart(q.front, i, Slots(q)) < Kept(q)
               PROVE  q.data[i + 1] = g + Apart(q.front, i, Slots(q)) + 1
    BY DEF Holds
  <2>1. i = 0
    BY <1>3, <1>4 DEF Apart
  <2> QED
    BY <1>1, <1>3, <1>4, <2>1
<1> QED
  BY <1>3, <1>4, <1>5, <1>6 DEF q

LEMMA EmptyBlock ==
  ASSUME NEW c \in Nat, c >= 2, NEW n \in Nat
  PROVE  LET q == Block(c, <<>>, n)
         IN BlockFits(q) /\ Slots(q) = c /\ Kept(q) = 0 /\ Holds(q, 0, 0) /\ q.next = n
<1> DEFINE q == Block(c, <<>>, n)
           s == [i \in 1 .. c |-> Garbage]
<1>1. s \in Seq(Int) /\ Len(s) = c
  BY DEF Garbage
<1>2. q = [front |-> 0, localTail |-> 0, tail |-> 0, localFront |-> 0, next |-> n, data |-> s]
  <2>1. s = [i \in 1 .. c |-> IF i <= 0 THEN <<>>[i] ELSE Garbage] /\ Len(<<>>) = 0
    OBVIOUS
  <2> HIDE DEF s
  <2> QED
    BY <2>1 DEF Block
<1> HIDE DEF q, s
<1>3. /\ q \in BlockRecords /\ q.front = 0 /\ q.localTail = 0 /\ q.tail = 0
      /\ q.localFront = 0 /\ q.next = n /\ q.data = s
  BY <1>1, <1>2 DEF BlockRecords
<1>4. Slots(q) = c /\ Kept(q) = 0 /\ Apart(0, 0, c) = 0
  BY <1>1, <1>3 DEF Slots, Kept, Apart
<1>5. BlockFits(q)
  BY <1>3, <1>4 DEF BlockFits
<1>6. Holds(q, 0, 0)
  <2> SUFFICES ASSUME NEW i \in 0 .. Slots(q) - 1, Apart(q.front, i, Slots(q)) < Kept(q)
               PROVE  FALSE
    BY DEF Holds
  <2> QED
    BY <1>3, <1>4 DEF Apart
<1> QED
  BY <1>3, <1>4, <1>5, <1>6 DEF q

-----------------------------------------------------------------------------
(* The ring of blocks.                                                     *)

\* One block is replaced.
Replaced(b, q) ==
  /\ b \in DOMAIN block /\ DOMAIN block' = DOMAIN block /\ Len(block') = Len(block)
  /\ block' \in Seq(BlockRecords)
  /\ block'[b] = q /\ \A c \in DOMAIN block : c # b => block'[c] = block[c]
  /\ \A c \in DOMAIN block : BlockFits(block'[c])

LEMMA ReplaceOne ==
  ASSUME QueueTypes, NEW b \in DOMAIN block, NEW q, BlockFits(q),
         block' = [block EXCEPT ![b] = q]
  PROVE  Replaced(b, q)
<1>1. block \in Seq(BlockRecords) /\ q \in BlockRecords
  BY FitsIs DEF QueueTypes
<1>2. /\ DOMAIN block' = DOMAIN block /\ Len(block') = Len(block)
      /\ block' \in Seq(BlockRecords)
      /\ block'[b] = q /\ \A c \in DOMAIN block : c # b => block'[c] = block[c]
  BY <1>1
<1>3. ASSUME NEW c \in DOMAIN block PROVE BlockFits(block'[c])
  BY <1>2, <1>3 DEF QueueTypes
<1> QED
  BY <1>2, <1>3 DEF Replaced

\* The size is a sum over the blocks.
KeptOf == [b \in DOMAIN block |-> Kept(block[b])]

SizeIsSum ==
  /\ SizeApprox = SumFunctionOnSet(KeptOf, DOMAIN block)
  /\ IsFiniteSet(DOMAIN block) /\ KeptOf \in [DOMAIN block -> Nat]
  /\ \A b \in DOMAIN block : KeptOf[b] = Kept(block[b])

LEMMA SizeIs == QueueTypes => SizeIsSum
<1> SUFFICES ASSUME QueueTypes PROVE SizeIsSum
  OBVIOUS
<1>1. ASSUME NEW b \in DOMAIN block PROVE Held(b) = Kept(block[b]) /\ Kept(block[b]) \in Nat
  <2>1. BlockFits(block[b])
    BY DEF QueueTypes
  <2> QED
    BY <2>1, FitsIs, RemaindersAre DEF Held, SlotsOf, Slots
<1>2. [b \in DOMAIN block |-> Held(b)] = KeptOf
  BY <1>1 DEF KeptOf
<1>3. SizeApprox = FoldFunction(+, 0, KeptOf)
  BY <1>2 DEF SizeApprox
<1>4. DOMAIN KeptOf = DOMAIN block
  BY DEF KeptOf
<1>5. FoldFunction(+, 0, KeptOf) = SumFunctionOnSet(KeptOf, DOMAIN KeptOf)
  BY DEF FoldFunction, SumFunctionOnSet, FoldFunctionOnSet
<1>6. IsFiniteSet(DOMAIN block)
  <2>1. DOMAIN block = 1 .. Len(block) /\ Len(block) \in Nat
    BY DEF QueueTypes
  <2> QED
    BY <2>1, FS_Interval
<1> QED
  BY <1>1, <1>3, <1>4, <1>5, <1>6 DEF KeptOf, SizeIsSum

LEMMA SizeChanges ==
  ASSUME QueueTypes, QueueTypes', DOMAIN block' = DOMAIN block, NEW b \in DOMAIN block,
         \A c \in DOMAIN block : c # b => Kept(block'[c]) = Kept(block[c])
  PROVE  /\ SizeApprox \in Nat
         /\ SizeApprox' = SizeApprox + (Kept(block'[b]) - Kept(block[b]))
<1>1. SizeIsSum
  BY SizeIs
<1>2. SizeIsSum'
  BY SizeIs, PTL
<1>3. PICK f, e, S : f = KeptOf /\ e = KeptOf' /\ S = DOMAIN block
  OBVIOUS
<1>4. /\ IsFiniteSet(S) /\ b \in S /\ \A y \in S : f[y] \in Int
      /\ e[b] \in Int /\ \A y \in S : y # b => e[y] = f[y]
      /\ \A y \in S : f[y] \in Nat
  BY <1>1, <1>2, <1>3 DEF SizeIsSum
<1>5. SumFunctionOnSet(e, S) = SumFunctionOnSet(f, S) + (e[b] - f[b])
  BY <1>4, SumChange
<1>6. SizeApprox = SumFunctionOnSet(f, S) /\ SizeApprox' = SumFunctionOnSet(e, S)
      /\ e[b] = Kept(block'[b]) /\ f[b] = Kept(block[b])
  BY <1>1, <1>2, <1>3 DEF SizeIsSum
<1>7. SumFunctionOnSet(f, S) \in Nat
  BY <1>4, SumNat
<1> QED
  BY <1>5, <1>6, <1>7

LEMMA SizeSame ==
  ASSUME QueueTypes, QueueTypes', DOMAIN block' = DOMAIN block,
         \A c \in DOMAIN block : Kept(block'[c]) = Kept(block[c])
  PROVE  SizeApprox' = SizeApprox
<1>1. PICK b : b \in DOMAIN block /\ Kept(block[b]) \in Nat
  BY FitsIs DEF QueueTypes
<1>2. /\ SizeApprox \in Nat
      /\ SizeApprox' = SizeApprox + (Kept(block'[b]) - Kept(block[b]))
  BY <1>1, SizeChanges
<1>3. PICK k \in Nat : k = Kept(block[b]) /\ k = Kept(block'[b])
  BY <1>1
<1> QED
  BY <1>2, <1>3

\* Steps that leave what the blocks hold as it is.
AllSame ==
  /\ DOMAIN block' = DOMAIN block /\ Len(block') = Len(block)
  /\ \A b \in DOMAIN block : SameBlock(block[b], block'[b])

LEMMA NoneReplaced ==
  ASSUME UNCHANGED block
  PROVE  AllSame
BY DEF AllSame, SameBlock

LEMMA OneSame ==
  ASSUME NEW b, NEW q, Replaced(b, q), SameBlock(block[b], q)
  PROVE  AllSame
<1>1. ASSUME NEW c \in DOMAIN block PROVE SameBlock(block[c], block'[c])
  BY <1>1 DEF SameBlock, Replaced
<1> QED
  BY <1>1 DEF AllSame, Replaced

LEMMA RingStays ==
  ASSUME RingFits, DOMAIN block' = DOMAIN block,
         \A b \in DOMAIN block : block'[b].next = block[b].next
  PROVE  RingFits'
<1>1. /\ \A b \in DOMAIN block' : block'[b].next \in DOMAIN block'
      /\ \A a, b \in DOMAIN block' : block'[a].next = block'[b].next => a = b
  BY DEF RingFits, Link
<1>2. ASSUME NEW C \in SUBSET DOMAIN block', C # {}, \A b \in C : block'[b].next \in C
      PROVE  C = DOMAIN block'
  <2>1. C \in SUBSET DOMAIN block /\ \A b \in C : block[b].next \in C
    BY <1>2
  <2> QED
    BY <1>2, <2>1 DEF RingFits, Link
<1> QED
  BY <1>1, <1>2 DEF RingFits, Link

LEMMA RoomStays ==
  ASSUME RoomFits, DOMAIN block' = DOMAIN block, Len(block') = Len(block),
         \A b \in DOMAIN block : Slots(block'[b]) = Slots(block[b]),
         UNCHANGED <<largestBlockSize, size>>
  PROVE  RoomFits'
BY DEF RoomFits

\* The one after the tail block is in use only if that is all of the ring.
LEMMA LastLeadsOut ==
  ASSUME RingFits, QueueTypes, NEW L \in SUBSET DOMAIN block, NEW no, InUse(L, no),
         Link(tailBlock) \in L
  PROVE  Link(tailBlock) = frontBlock /\ L = DOMAIN block
<1>1. Link(tailBlock) = frontBlock
  <2>1. ASSUME Link(tailBlock) # frontBlock PROVE FALSE
    <3>1. PICK a \in L \ {tailBlock} : Link(a) = Link(tailBlock)
      BY <2>1 DEF InUse
    <3> QED
      BY <3>1 DEF RingFits, QueueTypes
  <2> QED
    BY <2>1
<1>2. L # {} /\ \A b \in L : Link(b) \in L
  BY DEF InUse
<1> QED
  BY <1>1, <1>2 DEF RingFits

\* The producer's place does not change what is in use, but when it has looked ahead.
Looks ==
  /\ (prod'.pc = "advance") <=> (prod.pc = "advance")
  /\ prod'.pc = "ahead" => prod.pc = "ahead" \/ AheadIsFree

LEMMA BlocksStay ==
  ASSUME QueueTypes, RingFits, BlocksFit, AllSame, Looks, Removing' = Removing,
         UNCHANGED <<frontBlock, tailBlock, given, taken>>
  PROVE  BlocksFit'
<1>1. PICK L \in SUBSET DOMAIN block, no \in [Nat -> Nat] : InUse(L, no) /\ NotInUse(L)
  BY DEF BlocksFit
<1>2. \A b \in DOMAIN block : /\ b \in Nat /\ no[b] \in Nat
                              /\ Link(b)' = Link(b) /\ Slots(block'[b]) = Slots(block[b])
                              /\ Kept(block'[b]) = Kept(block[b])
                              /\ \A n, d \in Nat : Holds(block[b], n, d) => Holds(block'[b], n, d)
  <2>1. DOMAIN block \subseteq Nat
    <3>1. block \in Seq(BlockRecords)
      BY DEF QueueTypes
    <3> QED
      BY <3>1
  <2> QED
    BY <1>1, <2>1 DEF AllSame, SameBlock, Link
<1>3. InUse(L, no)'
  <2>1. /\ frontBlock' \in L /\ tailBlock' \in L
        /\ \A b \in L \ {tailBlock'} : /\ Link(b)' \in L \ {frontBlock'}
                                       /\ no[Link(b)'] = no[b] + Kept(block'[b])
        /\ \A b \in L \ {frontBlock', tailBlock'} : Kept(block'[b]) = Slots(block'[b]) - 1
        /\ \A b \in L : no[b] + Kept(block'[b]) <= given'
        /\ no[frontBlock'] + Removing' = taken'
        /\ no[tailBlock'] + Kept(block'[tailBlock']) = given'
    BY <1>1, <1>2 DEF InUse
  <2>2. \A b \in L \ {frontBlock'} : /\ Kept(block'[b]) > 0
                                     /\ \E a \in L \ {tailBlock'} : Link(a)' = b
    BY <1>1, <1>2 DEF InUse
  <2>3. \A b \in L : Holds(block'[b], no[b], IF b = frontBlock' THEN Removing' ELSE 0)
    BY <1>1, <1>2 DEF InUse, Removing
  <2> QED
    BY <2>1, <2>2, <2>3 DEF InUse
<1>4. NotInUse(L)'
  <2>1. tailBlock \in DOMAIN block /\ Link(tailBlock) \in DOMAIN block /\ given \in Nat
    BY DEF QueueTypes, RingFits
  <2>2. Link(tailBlock)' = Link(tailBlock)
    BY <1>2, <2>1 DEF Link
  <2>3. \A b \in DOMAIN block' \ L :
          Kept(block'[b]) = IF prod'.pc = "advance" /\ b = Link(tailBlock)' THEN 1 ELSE 0
    BY <1>1, <1>2, <2>2 DEF NotInUse, AllSame, Looks
  <2>4. prod'.pc \in {"ahead", "advance"} => Link(tailBlock)' \notin L
    <3>1. AheadIsFree => Link(tailBlock) # frontBlock
      BY DEF AheadIsFree, Link
    <3> QED
      BY <1>1, <2>2, <3>1, LastLeadsOut DEF NotInUse, Looks
  <2>5. prod'.pc = "advance" => Holds(block'[Link(tailBlock)'], given', 0)
    BY <1>1, <1>2, <2>1, <2>2 DEF NotInUse, Looks
  <2> QED
    BY <2>3, <2>4, <2>5 DEF NotInUse
<1> QED
  BY <1>1, <1>3, <1>4 DEF BlocksFit, AllSame

LEMMA StructureStays ==
  ASSUME QueueInv, QueueTypes', AllSame, Looks, Removing' = Removing,
         UNCHANGED <<frontBlock, tailBlock, largestBlockSize, given, taken, size>>
  PROVE  RingFits' /\ BlocksFit' /\ SizeFits' /\ RoomFits'
<1>1. /\ DOMAIN block' = DOMAIN block /\ Len(block') = Len(block)
      /\ \A b \in DOMAIN block : /\ block'[b].next = block[b].next
                                 /\ Kept(block'[b]) = Kept(block[b])
                                 /\ Slots(block'[b]) = Slots(block[b])
  BY DEF AllSame, SameBlock
<1>2. RingFits'
  BY <1>1, RingStays DEF QueueInv
<1>3. BlocksFit'
  BY BlocksStay DEF QueueInv
<1>4. RoomFits'
  BY <1>1, RoomStays DEF QueueInv
<1>5. SizeFits'
  <2>1. SizeApprox' = SizeApprox
    BY <1>1, SizeSame DEF QueueInv
  <2>2. /\ SizeApprox = given - taken + Removing + (IF prod.pc = "advance" THEN 1 ELSE 0)
        /\ (IF prod'.pc = "advance" THEN 1 ELSE 0) = (IF prod.pc = "advance" THEN 1 ELSE 0)
    BY DEF QueueInv, SizeFits, Looks
  <2> QED
    BY <2>1, <2>2 DEF SizeFits
<1> QED
  BY <1>2, <1>3, <1>4, <1>5

-----------------------------------------------------------------------------
(* The steps.                                                              *)

\* What a thread's own record is after a step of it.
LEMMA ProduceIs ==
  ASSUME QueueTypes, NEW from, NEW to \in ProducerLabels, Produce(from, to)
  PROVE  /\ prod.pc = from /\ prod'.pc = to /\ cons' = cons
         /\ prod'.room = prod.room /\ prod'.alloc = prod.alloc /\ prod' \in ProducerRecords
<1>1. prod \in ProducerRecords /\ prod' = [prod EXCEPT !.pc = to] /\ prod.pc = from /\ cons' = cons
  BY DEF Produce, QueueTypes
<1>2. prod' \in ProducerRecords
  BY <1>1, Zenon DEF ProducerRecords
<1> QED
  BY <1>1, <1>2 DEF ProducerRecords

LEMMA ConsumeIs ==
  ASSUME QueueTypes, NEW from, NEW to \in ConsumerLabels, Consume(from, to)
  PROVE  /\ cons.pc = from /\ cons'.pc = to /\ prod' = prod
         /\ cons'.op = cons.op /\ cons'.el = cons.el /\ cons' \in ConsumerRecords
<1>1. cons \in ConsumerRecords /\ cons' = [cons EXCEPT !.pc = to] /\ cons.pc = from /\ prod' = prod
  BY DEF Consume, QueueTypes
<1>2. cons' \in ConsumerRecords
  BY <1>1, Zenon DEF ConsumerRecords
<1> QED
  BY <1>1, <1>2 DEF ConsumerRecords

\* Steps at the semaphore leave the blocks alone.
LEMMA UnmovedFits ==
  ASSUME QueueInv, UNCHANGED <<queue, given, taken, size>>, Looks, Removing' = Removing,
         count' \in Int, sema' \in Nat, prod' \in ProducerRecords, cons' \in ConsumerRecords,
         ProducerFits', ConsumerFits', SemaphoreFits'
  PROVE  QueueInv'
<1>1. QueueTypes'
  BY DEF QueueInv, QueueTypes, queue
<1>2. RingFits' /\ BlocksFit' /\ SizeFits' /\ RoomFits'
  <2>1. AllSame
    BY NoneReplaced DEF queue
  <2> QED
    BY <1>1, <2>1, StructureStays DEF queue
<1> QED
  BY <1>1, <1>2 DEF QueueInv

LEMMA ProducerUnmoved ==
  ASSUME QueueInv, NEW from, NEW to \in ProducerLabels, Produce(from, to),
         UNCHANGED <<queue, given, taken, size>>, count' \in Int, sema' \in Nat,
         to # "advance", from # "advance", to = "ahead" => AheadIsFree,
         ProducerFits', SemaphoreFits'
  PROVE  QueueInv'
<1>1. /\ prod.pc = from /\ prod'.pc = to /\ cons' = cons
      /\ prod' \in ProducerRecords /\ cons \in ConsumerRecords
  BY ProduceIs DEF QueueInv, QueueTypes
<1>2. ConsumerFits'
  BY <1>1 DEF QueueInv, ConsumerFits, Pops, queue
<1>3. Looks /\ Removing' = Removing
  BY <1>1 DEF Looks, Removing
<1> QED
  BY <1>1, <1>2, <1>3, UnmovedFits

LEMMA SignalCountFits == ASSUME QueueInv, SignalCount PROVE QueueInv'
<1> DEFINE to == IF count < 0 THEN "post" ELSE "idle"
<1>1. /\ Produce("signal", to) /\ to \in ProducerLabels
      /\ count' = count + 1 /\ UNCHANGED <<queue, sema, given, taken, size>>
  BY DEF SignalCount, WaiterCounted, ProducerLabels
<1>2. prod.pc = "signal" /\ prod'.pc = to /\ cons' = cons
  BY <1>1, ProduceIs DEF QueueInv
<1>3. count \in Int /\ sema \in Nat
  BY DEF QueueInv, QueueTypes
<1>4. ProducerFits'
  BY <1>1, <1>2 DEF ProducerFits
<1>5. SemaphoreFits'
  BY <1>1, <1>2, <1>3 DEF QueueInv, QueueTypes, SemaphoreFits, Unsignalled, Passed, Pops, Sleeping,
                          Posting, OwesOne
<1> QED
  BY <1>1, <1>3, <1>4, <1>5, ProducerUnmoved

LEMMA SignalSemaFits == ASSUME QueueInv, SignalSema PROVE QueueInv'
<1>1. /\ Produce("post", "idle") /\ "idle" \in ProducerLabels
      /\ sema' = sema + 1 /\ UNCHANGED <<queue, count, given, taken, size>>
  BY DEF SignalSema, ProducerLabels
<1>2. prod.pc = "post" /\ prod'.pc = "idle" /\ cons' = cons
  BY <1>1, ProduceIs DEF QueueInv
<1>3. count \in Int /\ sema \in Nat
  BY DEF QueueInv, QueueTypes
<1>4. ProducerFits'
  BY <1>1, <1>2 DEF ProducerFits
<1>5. SemaphoreFits'
  BY <1>1, <1>2, <1>3 DEF QueueInv, QueueTypes, SemaphoreFits, Unsignalled, Passed, Pops, Sleeping,
                          Posting, OwesOne
<1> QED
  BY <1>1, <1>3, <1>4, <1>5, ProducerUnmoved

LEMMA LookAheadFits == ASSUME QueueInv, LookAhead PROVE QueueInv'
<1> DEFINE to == IF AheadIsFree THEN "ahead" ELSE "grow"
<1>1. /\ Produce("full", to) /\ to \in ProducerLabels
      /\ UNCHANGED <<queue, count, sema, given, taken, size>>
  BY DEF LookAhead, ProducerLabels
<1>2. prod.pc = "full" /\ prod'.pc = to /\ cons' = cons /\ prod'.room = prod.room
  BY <1>1, ProduceIs DEF QueueInv
<1>3. count \in Int /\ sema \in Nat /\ prod.room \in BOOLEAN
  BY DEF QueueInv, QueueTypes, ProducerRecords
<1>4. ProducerFits'
  BY <1>1, <1>2, <1>3 DEF QueueInv, ProducerFits, AheadIsFree, queue
<1>5. SemaphoreFits'
  BY <1>1, <1>2, <1>3 DEF QueueInv, QueueTypes, SemaphoreFits, Unsignalled, Passed, Pops, Sleeping,
                          Posting, OwesOne
<1> QED
  BY <1>1, <1>3, <1>4, <1>5, ProducerUnmoved

LEMMA RefuseFits == ASSUME QueueInv, Refuse PROVE QueueInv'
<1>1. /\ Produce("grow", "idle") /\ "idle" \in ProducerLabels
      /\ UNCHANGED <<queue, count, sema, given, taken, size>>
  BY DEF Refuse, ProducerLabels
<1>2. prod.pc = "grow" /\ prod'.pc = "idle" /\ cons' = cons
  BY <1>1, ProduceIs DEF QueueInv
<1>3. count \in Int /\ sema \in Nat
  BY DEF QueueInv, QueueTypes
<1>4. ProducerFits'
  BY <1>1, <1>2 DEF ProducerFits
<1>5. SemaphoreFits'
  BY <1>1, <1>2, <1>3 DEF QueueInv, QueueTypes, SemaphoreFits, Unsignalled, Passed, Pops, Sleeping,
                          Posting, OwesOne
<1> QED
  BY <1>1, <1>3, <1>4, <1>5, ProducerUnmoved

\* The consumer at the semaphore.
AtSemaphore == {"load", "dec", "sub", "asleep", "undo", "redo", "again"}

LEMMA ConsumerUnmoved ==
  ASSUME QueueInv, NEW from \in AtSemaphore, NEW to \in AtSemaphore \cup {"idle", "look"},
         Consume(from, to), UNCHANGED <<queue, given, taken, size>>, count' \in Int, sema' \in Nat,
         SemaphoreFits'
  PROVE  QueueInv'
<1>1. to \in ConsumerLabels
  BY DEF AtSemaphore, ConsumerLabels
<1>2. /\ cons.pc = from /\ cons'.pc = to /\ prod' = prod /\ cons'.op = cons.op
      /\ cons'.el = cons.el /\ cons' \in ConsumerRecords /\ prod \in ProducerRecords
  BY <1>1, ConsumeIs DEF QueueInv, QueueTypes
<1>3. ProducerFits'
  BY <1>2 DEF QueueInv, ProducerFits, queue
<1>4. ConsumerFits'
  BY <1>2 DEF QueueInv, ConsumerFits, Pops, AtSemaphore, queue
<1>5. Looks /\ Removing' = Removing
  BY <1>2 DEF Looks, Removing, AtSemaphore
<1> QED
  BY <1>2, <1>3, <1>4, <1>5, UnmovedFits

LEMMA WaitingIs ==
  ASSUME QueueInv, NEW from \in AtSemaphore, NEW to \in AtSemaphore \cup {"idle", "look"},
         Consume(from, to)
  PROVE  /\ cons.pc = from /\ cons'.pc = to /\ prod' = prod /\ cons'.op = cons.op /\ Pops
         /\ count \in Int /\ sema \in Nat /\ given \in Nat /\ taken \in Nat
<1>1. to \in ConsumerLabels
  BY DEF AtSemaphore, ConsumerLabels
<1>2. cons.pc = from /\ cons'.pc = to /\ prod' = prod /\ cons'.op = cons.op
  BY <1>1, ConsumeIs DEF QueueInv
<1> QED
  BY <1>2 DEF QueueInv, QueueTypes, ConsumerFits, Pops, AtSemaphore

LEMMA LoadCountFits == ASSUME QueueInv, LoadCount PROVE QueueInv'
<1> DEFINE to == IF count > 0 THEN "dec" ELSE IF Waits THEN "sub" ELSE "idle"
<1>1. /\ "load" \in AtSemaphore /\ to \in AtSemaphore \cup {"idle", "look"}
      /\ Consume("load", to) /\ UNCHANGED <<queue, given, taken, size>>
      /\ count' = count /\ sema' = sema
  BY DEF LoadCount, AtSemaphore
<1>2. /\ cons.pc = "load" /\ cons'.pc = to /\ prod' = prod /\ cons'.op = cons.op /\ Pops
      /\ count \in Int /\ sema \in Nat /\ given \in Nat /\ taken \in Nat
  BY <1>1, WaitingIs
<1>3. SemaphoreFits'
  BY <1>1, <1>2 DEF QueueInv, SemaphoreFits, Unsignalled, Passed, Pops, Sleeping, Posting, OwesOne
<1>4. count' \in Int /\ sema' \in Nat
  BY <1>1, <1>2
<1> HIDE DEF to
<1> QED
  BY <1>1, <1>3, <1>4, ConsumerUnmoved

LEMMA SpinFits == ASSUME QueueInv, Spin PROVE QueueInv'
<1> DEFINE to == "load"
<1>1. /\ "sub" \in AtSemaphore /\ to \in AtSemaphore \cup {"idle", "look"}
      /\ Consume("sub", to) /\ UNCHANGED <<queue, given, taken, size>>
      /\ count > 0 /\ count' = count /\ sema' = sema
  BY DEF Spin, AtSemaphore
<1>2. /\ cons.pc = "sub" /\ cons'.pc = to /\ prod' = prod /\ cons'.op = cons.op /\ Pops
      /\ count \in Int /\ sema \in Nat /\ given \in Nat /\ taken \in Nat
  BY <1>1, WaitingIs
<1>3. SemaphoreFits'
  BY <1>1, <1>2 DEF QueueInv, SemaphoreFits, Unsignalled, Passed, Pops, Sleeping, Posting, OwesOne
<1>4. count' \in Int /\ sema' \in Nat
  BY <1>1, <1>2
<1> HIDE DEF to
<1> QED
  BY <1>1, <1>3, <1>4, ConsumerUnmoved

LEMMA DecrementFits == ASSUME QueueInv, Decrement PROVE QueueInv'
<1> DEFINE to == "look"
<1>1. /\ "dec" \in AtSemaphore /\ to \in AtSemaphore \cup {"idle", "look"}
      /\ Consume("dec", to) /\ UNCHANGED <<queue, given, taken, size>>
      /\ count' = count - 1 /\ sema' = sema
  BY DEF Decrement, AtSemaphore
<1>2. /\ cons.pc = "dec" /\ cons'.pc = to /\ prod' = prod /\ cons'.op = cons.op /\ Pops
      /\ count \in Int /\ sema \in Nat /\ given \in Nat /\ taken \in Nat
  BY <1>1, WaitingIs
<1>3. SemaphoreFits'
  BY <1>1, <1>2 DEF QueueInv, SemaphoreFits, Unsignalled, Passed, Pops, Sleeping, Posting, OwesOne
<1>4. count' \in Int /\ sema' \in Nat
  BY <1>1, <1>2
<1> HIDE DEF to
<1> QED
  BY <1>1, <1>3, <1>4, ConsumerUnmoved

LEMMA SubtractFits == ASSUME QueueInv, Subtract PROVE QueueInv'
<1> DEFINE to == IF count > 0 THEN "look" ELSE "asleep"
<1>1. /\ "sub" \in AtSemaphore /\ to \in AtSemaphore \cup {"idle", "look"}
      /\ Consume("sub", to) /\ UNCHANGED <<queue, given, taken, size>>
      /\ count' = count - 1 /\ sema' = sema
  BY DEF Subtract, AtSemaphore
<1>2. /\ cons.pc = "sub" /\ cons'.pc = to /\ prod' = prod /\ cons'.op = cons.op /\ Pops
      /\ count \in Int /\ sema \in Nat /\ given \in Nat /\ taken \in Nat
  BY <1>1, WaitingIs
<1>3. SemaphoreFits'
  BY <1>1, <1>2 DEF QueueInv, SemaphoreFits, Unsignalled, Passed, Pops, Sleeping, Posting, OwesOne
<1>4. count' \in Int /\ sema' \in Nat
  BY <1>1, <1>2
<1> HIDE DEF to
<1> QED
  BY <1>1, <1>3, <1>4, ConsumerUnmoved

LEMMA WakeFits == ASSUME QueueInv, Wake PROVE QueueInv'
<1> DEFINE to == "look"
<1>1. /\ "asleep" \in AtSemaphore /\ to \in AtSemaphore \cup {"idle", "look"}
      /\ Consume("asleep", to) /\ UNCHANGED <<queue, given, taken, size>>
      /\ count' = count /\ sema > 0 /\ sema' = sema - 1
  BY DEF Wake, AtSemaphore
<1>2. /\ cons.pc = "asleep" /\ cons'.pc = to /\ prod' = prod /\ cons'.op = cons.op /\ Pops
      /\ count \in Int /\ sema \in Nat /\ given \in Nat /\ taken \in Nat
  BY <1>1, WaitingIs
<1>3. SemaphoreFits'
  BY <1>1, <1>2 DEF QueueInv, SemaphoreFits, Unsignalled, Passed, Pops, Sleeping, Posting, OwesOne
<1>4. count' \in Int /\ sema' \in Nat
  BY <1>1, <1>2
<1> HIDE DEF to
<1> QED
  BY <1>1, <1>3, <1>4, ConsumerUnmoved

LEMMA TimeOutFits == ASSUME QueueInv, TimeOut PROVE QueueInv'
<1> DEFINE to == "undo"
<1>1. /\ "asleep" \in AtSemaphore /\ to \in AtSemaphore \cup {"idle", "look"}
      /\ Consume("asleep", to) /\ UNCHANGED <<queue, given, taken, size>>
      /\ count' = count /\ sema = 0 /\ sema' = sema
  BY DEF TimeOut, AtSemaphore
<1>2. /\ cons.pc = "asleep" /\ cons'.pc = to /\ prod' = prod /\ cons'.op = cons.op /\ Pops
      /\ count \in Int /\ sema \in Nat /\ given \in Nat /\ taken \in Nat
  BY <1>1, WaitingIs
<1>3. SemaphoreFits'
  BY <1>1, <1>2 DEF QueueInv, SemaphoreFits, Unsignalled, Passed, Pops, Sleeping, Posting, OwesOne
<1>4. count' \in Int /\ sema' \in Nat
  BY <1>1, <1>2
<1> HIDE DEF to
<1> QED
  BY <1>1, <1>3, <1>4, ConsumerUnmoved

LEMMA UndoFits == ASSUME QueueInv, Undo PROVE QueueInv'
<1> DEFINE to == IF count < 0 THEN "idle" ELSE "redo"
<1>1. /\ "undo" \in AtSemaphore /\ to \in AtSemaphore \cup {"idle", "look"}
      /\ Consume("undo", to) /\ UNCHANGED <<queue, given, taken, size>>
      /\ count' = count + 1 /\ sema' = sema
  BY DEF Undo, AtSemaphore
<1>2. /\ cons.pc = "undo" /\ cons'.pc = to /\ prod' = prod /\ cons'.op = cons.op /\ Pops
      /\ count \in Int /\ sema \in Nat /\ given \in Nat /\ taken \in Nat
  BY <1>1, WaitingIs
<1>3. SemaphoreFits'
  BY <1>1, <1>2 DEF QueueInv, SemaphoreFits, Unsignalled, Passed, Pops, Sleeping, Posting, OwesOne
<1>4. count' \in Int /\ sema' \in Nat
  BY <1>1, <1>2
<1> HIDE DEF to
<1> QED
  BY <1>1, <1>3, <1>4, ConsumerUnmoved

LEMMA RedoFits == ASSUME QueueInv, Redo PROVE QueueInv'
<1> DEFINE to == IF count > 0 THEN "again" ELSE "undo"
<1>1. /\ "redo" \in AtSemaphore /\ to \in AtSemaphore \cup {"idle", "look"}
      /\ Consume("redo", to) /\ UNCHANGED <<queue, given, taken, size>>
      /\ count' = count - 1 /\ sema' = sema
  BY DEF Redo, AtSemaphore
<1>2. /\ cons.pc = "redo" /\ cons'.pc = to /\ prod' = prod /\ cons'.op = cons.op /\ Pops
      /\ count \in Int /\ sema \in Nat /\ given \in Nat /\ taken \in Nat
  BY <1>1, WaitingIs
<1>3. SemaphoreFits'
  BY <1>1, <1>2 DEF QueueInv, SemaphoreFits, Unsignalled, Passed, Pops, Sleeping, Posting, OwesOne
<1>4. count' \in Int /\ sema' \in Nat
  BY <1>1, <1>2
<1> HIDE DEF to
<1> QED
  BY <1>1, <1>3, <1>4, ConsumerUnmoved

LEMMA TryAgainFits == ASSUME QueueInv, TryAgain PROVE QueueInv'
<1> DEFINE to == IF sema > 0 THEN "look" ELSE "undo"
<1>1. /\ "again" \in AtSemaphore /\ to \in AtSemaphore \cup {"idle", "look"}
      /\ Consume("again", to) /\ UNCHANGED <<queue, given, taken, size>>
      /\ count' = count /\ sema' = IF sema > 0 THEN sema - 1 ELSE 0
  BY DEF TryAgain, AtSemaphore
<1>2. /\ cons.pc = "again" /\ cons'.pc = to /\ prod' = prod /\ cons'.op = cons.op /\ Pops
      /\ count \in Int /\ sema \in Nat /\ given \in Nat /\ taken \in Nat
  BY <1>1, WaitingIs
<1>3. SemaphoreFits'
  BY <1>1, <1>2 DEF QueueInv, SemaphoreFits, Unsignalled, Passed, Pops, Sleeping, Posting, OwesOne
<1>4. count' \in Int /\ sema' \in Nat
  BY <1>1, <1>2
<1> HIDE DEF to
<1> QED
  BY <1>1, <1>3, <1>4, ConsumerUnmoved
-----------------------------------------------------------------------------
(* The consumer in the blocks.                                             *)

\* What was seen of the tail is there.
LEMMA SeenIsKept ==
  ASSUME NEW r, BlockFits(r), r.front # r.localTail
  PROVE  Kept(r) > 0
<1>1. /\ r.front \in Nat /\ r.front < Slots(r) /\ Slots(r) \in Nat /\ Kept(r) \in Nat
      /\ r.localTail \in Nat /\ r.localTail < Slots(r)
  BY FitsIs, RecordIs DEF BlockFits
<1>2. Apart(r.front, r.localTail, Slots(r)) \in Nat /\ Apart(r.front, r.localTail, Slots(r)) # 0
  BY <1>1 DEF Apart
<1> QED
  BY <1>1, <1>2 DEF BlockFits

LEMMA FirstIsNext ==
  ASSUME NEW r, BlockFits(r), Kept(r) > 0, NEW n \in Nat, Holds(r, n, 0)
  PROVE  r.data[r.front + 1] = n + 1
<1>1. /\ r.front \in Nat /\ r.front < Slots(r) /\ Slots(r) \in Nat
      /\ Apart(r.front, r.front, Slots(r)) = 0
  BY FitsIs DEF Apart
<1>2. r.front \in 0 .. Slots(r) - 1
  BY <1>1
<1> QED
  BY <1>1, <1>2 DEF Holds

\* What follows from the blocks in use.
LEMMA InFront ==
  ASSUME QueueInv
  PROVE  /\ Link(frontBlock) \in DOMAIN block /\ Link(tailBlock) \in DOMAIN block
         /\ Kept(block[frontBlock]) \in Nat
         /\ cons.pc = "removed" => Kept(block[frontBlock]) > 0
         /\ taken <= given
         /\ frontBlock = tailBlock => Kept(block[frontBlock]) = given - taken + Removing
         /\ Kept(block[frontBlock]) > 0 /\ Removing = 0 =>
              block[frontBlock].data[block[frontBlock].front + 1] = taken + 1
         /\ frontBlock # tailBlock =>
              /\ Link(frontBlock) # frontBlock /\ Link(tailBlock) # Link(frontBlock)
              /\ Kept(block[Link(frontBlock)]) > 0
         /\ frontBlock # tailBlock /\ Kept(block[frontBlock]) = 0 =>
              block[Link(frontBlock)].data[block[Link(frontBlock)].front + 1] = taken + 1
         /\ prod.pc \in {"ahead", "advance"} => Link(tailBlock) # frontBlock
         /\ prod.pc = "ahead" => Kept(block[Link(tailBlock)]) = 0
<1> USE DEF QueueInv
<1>1. PICK L \in SUBSET DOMAIN block, no \in [Nat -> Nat] : InUse(L, no) /\ NotInUse(L)
  BY DEF BlocksFit
<1>2. /\ frontBlock \in L /\ tailBlock \in L /\ taken \in Nat /\ given \in Nat
      /\ \A b \in DOMAIN block : /\ BlockFits(block[b]) /\ Kept(block[b]) \in Nat
                                 /\ b \in Nat /\ no[b] \in Nat /\ Link(b) \in DOMAIN block
  <2>1. block \in Seq(BlockRecords) /\ taken \in Nat /\ given \in Nat
        /\ \A b \in DOMAIN block : BlockFits(block[b])
    BY DEF QueueTypes
  <2>2. \A b \in DOMAIN block : Kept(block[b]) \in Nat
    BY <2>1, FitsIs
  <2>3. \A b \in DOMAIN block : b \in Nat
    BY <2>1
  <2>4. \A b \in DOMAIN block : Link(b) \in DOMAIN block
    BY DEF RingFits
  <2>5. frontBlock \in L /\ tailBlock \in L
    BY <1>1 DEF InUse
  <2> QED
    BY <1>1, <2>1, <2>2, <2>3, <2>4, <2>5
<1>2a. /\ frontBlock \in DOMAIN block /\ no[frontBlock] \in Nat /\ Kept(block[frontBlock]) \in Nat
      /\ no[tailBlock] \in Nat /\ Kept(block[tailBlock]) \in Nat
  BY <1>1, <1>2
<1>3. no[frontBlock] + Removing = taken /\ no[tailBlock] + Kept(block[tailBlock]) = given
      /\ no[frontBlock] + Kept(block[frontBlock]) <= given
      /\ Holds(block[frontBlock], no[frontBlock], Removing)
  BY <1>1, <1>2 DEF InUse
<1>4. cons.pc = "removed" => Kept(block[frontBlock]) > 0
  BY <1>2, SeenIsKept DEF ConsumerFits, QueueTypes
<1>5. taken <= given
  BY <1>2a, <1>2, <1>3, <1>4 DEF Removing
<1>6. frontBlock = tailBlock => Kept(block[frontBlock]) = given - taken + Removing
  BY <1>2a, <1>2, <1>3 DEF Removing
<1>7. ASSUME Kept(block[frontBlock]) > 0, Removing = 0
      PROVE  block[frontBlock].data[block[frontBlock].front + 1] = taken + 1
  <2>1. BlockFits(block[frontBlock]) /\ Holds(block[frontBlock], taken, 0)
    BY <1>2, <1>3, <1>7 DEF QueueTypes
  <2> QED
    BY <1>2, <1>7, <2>1, FirstIsNext
<1>8. ASSUME frontBlock # tailBlock
      PROVE  /\ Link(frontBlock) # frontBlock /\ Link(tailBlock) # Link(frontBlock)
             /\ Kept(block[Link(frontBlock)]) > 0
             /\ Kept(block[frontBlock]) = 0 =>
                  block[Link(frontBlock)].data[block[Link(frontBlock)].front + 1] = taken + 1
  <2> DEFINE n == Link(frontBlock)
  <2>1. /\ n \in L \ {frontBlock} /\ no[n] = no[frontBlock] + Kept(block[frontBlock])
        /\ Kept(block[n]) > 0 /\ Holds(block[n], no[n], 0)
    BY <1>1, <1>2, <1>8 DEF InUse
  <2>2. Link(tailBlock) # n
    BY <1>8 DEF RingFits, QueueTypes
  <2>3. ASSUME Kept(block[frontBlock]) = 0 PROVE block[n].data[block[n].front + 1] = taken + 1
    <3>1. cons.pc # "removed"
      BY <1>4, <2>3
    <3>2. no[n] = taken
      BY <1>2, <1>3, <2>1, <2>3, <3>1 DEF Removing, QueueTypes
    <3>3. BlockFits(block[n]) /\ n \in DOMAIN block
      BY <1>2, <2>1
    <3> QED
      BY <1>2, <2>1, <3>2, <3>3, FirstIsNext
  <2> QED
    BY <2>1, <2>2, <2>3
<1>9. /\ prod.pc \in {"ahead", "advance"} => Link(tailBlock) # frontBlock
      /\ prod.pc = "ahead" => Kept(block[Link(tailBlock)]) = 0
  BY <1>1, <1>2 DEF NotInUse
<1>10. Link(frontBlock) \in DOMAIN block /\ Link(tailBlock) \in DOMAIN block
       /\ Kept(block[frontBlock]) \in Nat
  BY <1>2 DEF QueueTypes
<1> QED
  BY <1>4, <1>5, <1>6, <1>7, <1>8, <1>9, <1>10

LEMMA CallDequeueFits ==
  ASSUME QueueInv, NEW op \in {"try", "wait", "timed", "pop", "peek"}, CallDequeue(op)
  PROVE  QueueInv'
<1>1. /\ cons.pc = "idle" /\ cons' = [pc |-> IF op = "peek" THEN "look" ELSE "load", op |-> op, el |-> None]
      /\ UNCHANGED <<queue, count, sema, prod, given, taken, size>>
  BY DEF CallDequeue
<1>2. /\ cons' \in ConsumerRecords /\ cons'.pc = (IF op = "peek" THEN "look" ELSE "load")
      /\ cons'.op = op /\ cons'.el = None
  BY <1>1 DEF ConsumerRecords, ConsumerLabels, None
<1>3. count \in Int /\ sema \in Nat /\ prod \in ProducerRecords
  BY DEF QueueInv, QueueTypes
<1>4. ProducerFits'
  BY <1>1 DEF QueueInv, ProducerFits, queue
<1>5. ConsumerFits'
  BY <1>2 DEF ConsumerFits, Pops
<1>6. SemaphoreFits'
  BY <1>1, <1>2, <1>3 DEF QueueInv, QueueTypes, SemaphoreFits, Unsignalled, Passed, Pops, Sleeping,
                          Posting, OwesOne
<1>7. Looks /\ Removing' = Removing
  BY <1>1, <1>2 DEF Looks, Removing
<1> QED
  BY <1>1, <1>2, <1>3, <1>4, <1>5, <1>6, <1>7, UnmovedFits

LEMMA LookBehindFits == ASSUME QueueInv, LookBehind PROVE QueueInv'
<1> DEFINE to == IF frontBlock # tailBlock THEN "recheck" ELSE IF cons.op = "peek" THEN "idle" ELSE "failed"
<1>1. /\ Consume("empty", to) /\ to \in ConsumerLabels
      /\ UNCHANGED <<queue, count, sema, given, taken, size>>
  BY DEF LookBehind, ConsumerLabels
<1>2. /\ cons.pc = "empty" /\ cons'.pc = to /\ prod' = prod /\ cons'.op = cons.op
      /\ cons'.el = cons.el /\ cons' \in ConsumerRecords
  BY <1>1, ConsumeIs DEF QueueInv
<1>3. count \in Int /\ sema \in Nat /\ prod \in ProducerRecords
  BY DEF QueueInv, QueueTypes
<1>4. to # "failed" /\ (cons.op # "peek" => to = "recheck") /\ (to = "recheck" => frontBlock # tailBlock)
  BY <1>2 DEF QueueInv, ConsumerFits, Pops
<1>5. ProducerFits'
  BY <1>1, <1>2 DEF QueueInv, ProducerFits, queue
<1>6. to \in {"recheck", "idle"}
  BY <1>4
<1> HIDE DEF to
<1>7. ConsumerFits'
  BY <1>1, <1>2, <1>4, <1>6 DEF QueueInv, ConsumerFits, Pops, queue
<1>8. SemaphoreFits'
  BY <1>1, <1>2, <1>3, <1>4, <1>6 DEF QueueInv, QueueTypes, SemaphoreFits, Unsignalled, Passed, Pops,
                                      Sleeping, Posting, OwesOne
<1>9. Looks /\ Removing' = Removing
  BY <1>2, <1>6 DEF Looks, Removing
<1> QED
  BY <1>1, <1>2, <1>3, <1>5, <1>7, <1>8, <1>9, UnmovedFits

LEMMA PeekFits == ASSUME QueueInv, Peek PROVE QueueInv'
<1> DEFINE b == block[IF cons.pc = "next" THEN block[frontBlock].next ELSE frontBlock]
<1>1. /\ cons.op = "peek" /\ cons.pc \in {"element", "next"}
      /\ cons' = [cons EXCEPT !.pc = "idle", !.el = b.data[b.front + 1]]
      /\ UNCHANGED <<queue, count, sema, prod, given, taken, size>>
  BY DEF Peek
<1>2. b.data[b.front + 1] = taken + 1 /\ taken \in Nat
  <2>1. Removing = 0
    BY <1>1 DEF Removing
  <2>2. CASE cons.pc = "next"
    BY <2>2, InFront DEF QueueInv, ConsumerFits, QueueTypes, Link
  <2>3. CASE cons.pc = "element"
    <3>1. Kept(block[frontBlock]) > 0
      BY <2>3, SeenIsKept DEF QueueInv, ConsumerFits, QueueTypes
    <3> QED
      BY <2>1, <2>3, <3>1, InFront DEF QueueInv, QueueTypes
  <2> QED
    BY <1>1, <2>2, <2>3
<1> HIDE DEF b
<1>3. cons' = [cons EXCEPT !.pc = "idle", !.el = taken + 1] /\ cons \in ConsumerRecords
  BY <1>1, <1>2 DEF QueueInv, QueueTypes
<1>4. cons' \in ConsumerRecords
  <2>1. "idle" \in ConsumerLabels /\ taken + 1 \in Int
    BY <1>2 DEF ConsumerLabels
  <2> QED
    BY <1>3, <2>1, Zenon DEF ConsumerRecords
<1>5. cons'.pc = "idle" /\ cons'.op = cons.op /\ cons'.el = taken + 1
  BY <1>3 DEF ConsumerRecords
<1>6. count \in Int /\ sema \in Nat /\ prod \in ProducerRecords
  BY DEF QueueInv, QueueTypes
<1>7. ProducerFits'
  BY <1>1 DEF QueueInv, ProducerFits, queue
<1>8. ConsumerFits'
  BY <1>1, <1>5 DEF ConsumerFits, Pops
<1>9. SemaphoreFits'
  BY <1>1, <1>5, <1>6 DEF QueueInv, QueueTypes, SemaphoreFits, Unsignalled, Passed, Pops, Sleeping,
                          Posting, OwesOne
<1>10. Looks /\ Removing' = Removing
  BY <1>1, <1>5 DEF Looks, Removing
<1> QED
  BY <1>1, <1>4, <1>6, <1>7, <1>8, <1>9, <1>10, UnmovedFits

LEMMA TailSeenFits ==
  ASSUME QueueInv, NEW i \in {block[frontBlock].localTail, block[frontBlock].tail},
         NEW from \in {"look", "recheck"}, NEW to \in {"element", "empty", "next"}, Consume(from, to),
         block' = [block EXCEPT ![frontBlock] = [block[frontBlock] EXCEPT !.localTail = i]],
         UNCHANGED <<frontBlock, tailBlock, largestBlockSize, count, sema, given, taken, size>>,
         to = "element" <=> block[frontBlock].front # i,
         to # "element" => i = block[frontBlock].tail,
         from = "look" => to # "next", from = "recheck" => to # "empty"
  PROVE  QueueInv'
<1> DEFINE r == block[frontBlock]
           q == [r EXCEPT !.localTail = i]
<1>1. /\ QueueTypes /\ frontBlock \in DOMAIN block /\ BlockFits(r) /\ r \in BlockRecords
      /\ tailBlock \in DOMAIN block
  BY FitsIs DEF QueueInv, QueueTypes
<1>2. i \in Nat
  BY <1>1, RecordIs
<1>3. Reads(q, r.front, i, r.tail, r.localFront, r.next, r.data)
  BY <1>1, <1>2, ReadsLocalTail
<1> HIDE DEF q
<1>4. BlockFits(q) /\ SameBlock(r, q)
  BY <1>1, <1>3, TailSeen
<1>5. Replaced(frontBlock, q)
  BY <1>1, <1>4, ReplaceOne DEF q
<1>6. AllSame
  BY <1>4, <1>5, OneSame
<1>7. /\ to \in ConsumerLabels /\ cons.pc = from /\ cons'.pc = to /\ prod' = prod /\ cons'.op = cons.op
      /\ cons'.el = cons.el /\ cons' \in ConsumerRecords
  BY ConsumeIs DEF QueueInv, ConsumerLabels
<1>8. QueueTypes'
  BY <1>5, <1>7 DEF QueueInv, QueueTypes, Replaced
<1>9. RingFits' /\ BlocksFit' /\ SizeFits' /\ RoomFits'
  <2>1. Looks /\ Removing' = Removing
    BY <1>7 DEF Looks, Removing
  <2> QED
    BY <1>6, <1>8, <2>1, StructureStays
<1>10. /\ block'[frontBlock].front = r.front /\ block'[frontBlock].localTail = i
       /\ block'[frontBlock].tail = r.tail /\ block'[frontBlock].localFront = r.localFront
       /\ block'[frontBlock].next = r.next /\ block'[frontBlock].data = r.data
  BY <1>3, <1>5 DEF Reads, Replaced
<1>11. /\ block'[tailBlock].tail = block[tailBlock].tail
       /\ block'[tailBlock].localFront = block[tailBlock].localFront
       /\ block'[tailBlock].next = block[tailBlock].next
       /\ block'[tailBlock].data = block[tailBlock].data
       /\ Slots(block'[tailBlock]) = Slots(block[tailBlock])
       /\ Kept(block'[tailBlock]) = Kept(block[tailBlock])
  BY <1>1, <1>5, <1>6, <1>10 DEF Replaced, AllSame, SameBlock
<1>12. ProducerFits'
  BY <1>7, <1>11 DEF QueueInv, ProducerFits
<1>13. Removing = 0 /\ Removing' = 0 /\ Passed' = Passed
  BY <1>7 DEF Removing, Passed, Pops
<1>14. to # "element" => Kept(r) = 0
  BY <1>1, FitsIs
<1>15. to = "empty" /\ Pops => frontBlock # tailBlock
  <2> SUFFICES ASSUME to = "empty", Pops, frontBlock = tailBlock PROVE FALSE
    OBVIOUS
  <2>1. given - taken = 0 /\ given \in Nat /\ taken \in Nat /\ count \in Int
    BY <1>13, <1>14, InFront DEF QueueInv, QueueTypes
  <2>2. Passed = 1 /\ Sleeping = 0
    BY <1>7 DEF Passed, Sleeping
  <2> QED
    BY <2>1, <2>2 DEF QueueInv, SemaphoreFits, Unsignalled
<1>16. ConsumerFits'
  <2>1. cons.pc = "recheck" => frontBlock # tailBlock
    BY DEF QueueInv, ConsumerFits
  <2>2. Kept(block'[frontBlock]) = Kept(r)
    BY <1>1, <1>6 DEF AllSame, SameBlock
  <2> QED
    BY <1>7, <1>10, <1>14, <1>15, <2>1, <2>2 DEF QueueInv, ConsumerFits, Pops
<1>17. SemaphoreFits'
  BY <1>7, <1>13 DEF QueueInv, SemaphoreFits, Unsignalled, Sleeping, Posting, OwesOne
<1> QED
  BY <1>8, <1>9, <1>12, <1>16, <1>17 DEF QueueInv

LEMMA LookFits == ASSUME QueueInv, Look PROVE QueueInv'
<1> DEFINE b == block[frontBlock]
           seen == IF b.front # b.localTail THEN b.localTail ELSE b.tail
           to == IF b.front # seen THEN "element" ELSE "empty"
<1>1. Consume("look", to)
  BY DEF Look
<1>2. block' = [block EXCEPT ![frontBlock] = [block[frontBlock] EXCEPT !.localTail = seen]]
  BY Zenon DEF Look
<1>3. UNCHANGED <<frontBlock, tailBlock, largestBlockSize, count, sema, given, taken, size>>
  BY DEF Look
<1>4. /\ seen \in {block[frontBlock].localTail, block[frontBlock].tail}
      /\ to \in {"element", "empty", "next"}
      /\ to = "element" <=> block[frontBlock].front # seen
      /\ to # "element" => seen = block[frontBlock].tail
      /\ to # "next"
  OBVIOUS
<1> HIDE DEF to, seen
<1> QED
  BY <1>1, <1>2, <1>3, <1>4, TailSeenFits

LEMMA RecheckFits == ASSUME QueueInv, Recheck PROVE QueueInv'
<1> DEFINE seen == block[frontBlock].tail
           to == IF block[frontBlock].front # seen THEN "element" ELSE "next"
<1>1. Consume("recheck", to)
  BY DEF Recheck, SeenLate
<1>2. block' = [block EXCEPT ![frontBlock] = [block[frontBlock] EXCEPT !.localTail = seen]]
  BY Zenon DEF Recheck, SeenLate
<1>3. UNCHANGED <<frontBlock, tailBlock, largestBlockSize, count, sema, given, taken, size>>
  BY DEF Recheck
<1>4. /\ seen \in {block[frontBlock].localTail, block[frontBlock].tail}
      /\ to \in {"element", "empty", "next"}
      /\ to = "element" <=> block[frontBlock].front # seen
      /\ to # "element" => seen = block[frontBlock].tail
      /\ to # "empty"
  OBVIOUS
<1> HIDE DEF to, seen
<1> QED
  BY <1>1, <1>2, <1>3, <1>4, TailSeenFits

LEMMA NextBlockFits == ASSUME QueueInv, NextBlock PROVE QueueInv'
<1> DEFINE n == block[frontBlock].next
           r == block[n]
           q == [r EXCEPT !.localTail = r.tail]
<1>1. /\ Consume("next", "element") /\ cons.op # "peek" /\ frontBlock' = n
      /\ UNCHANGED <<tailBlock, largestBlockSize, count, sema, given, taken, size>>
  BY DEF NextBlock
<1>2. block' = [block EXCEPT ![n] = q]
  BY Zenon DEF NextBlock
<1>3. /\ QueueTypes /\ frontBlock \in DOMAIN block /\ tailBlock \in DOMAIN block
      /\ n = Link(frontBlock) /\ n \in DOMAIN block /\ BlockFits(r) /\ r \in BlockRecords
  <2>1. n = Link(frontBlock) /\ n \in DOMAIN block
    BY InFront DEF Link
  <2> QED
    BY <2>1, FitsIs DEF QueueInv, QueueTypes
<1>4. /\ cons.pc = "next" /\ cons'.pc = "element" /\ prod' = prod /\ cons'.op = cons.op
      /\ cons'.el = cons.el /\ cons' \in ConsumerRecords
  BY <1>1, ConsumeIs DEF QueueInv, ConsumerLabels
<1>5. frontBlock # tailBlock /\ Kept(block[frontBlock]) = 0 /\ Removing = 0 /\ Removing' = 0
  BY <1>4 DEF QueueInv, ConsumerFits, Removing
<1>6. n # frontBlock /\ Link(tailBlock) # n /\ Kept(r) > 0
  BY <1>3, <1>5, InFront
<1>7. Reads(q, r.front, r.tail, r.tail, r.localFront, r.next, r.data)
  BY <1>3, RecordIs, ReadsLocalTail
<1> HIDE DEF n, q
<1>8. BlockFits(q) /\ SameBlock(r, q)
  BY <1>3, <1>7, TailSeen
<1>9. Replaced(n, q)
  BY <1>2, <1>3, <1>8, ReplaceOne
<1>10. AllSame
  BY <1>8, <1>9, OneSame
<1>11. QueueTypes'
  BY <1>1, <1>3, <1>4, <1>9 DEF QueueTypes, Replaced
<1>12. /\ DOMAIN block' = DOMAIN block /\ Len(block') = Len(block)
       /\ \A b \in DOMAIN block : /\ block'[b].next = block[b].next
                                  /\ Kept(block'[b]) = Kept(block[b])
                                  /\ Slots(block'[b]) = Slots(block[b])
  BY <1>10 DEF AllSame, SameBlock
<1>13. RingFits' /\ RoomFits'
  BY <1>1, <1>12, RingStays, RoomStays DEF QueueInv
<1>14. SizeFits'
  <2>1. SizeApprox' = SizeApprox
    BY <1>3, <1>11, <1>12, SizeSame
  <2> QED
    BY <1>1, <1>4, <1>5, <2>1 DEF QueueInv, SizeFits
<1>15. BlocksFit'
  <2>1. PICK L \in SUBSET DOMAIN block, no \in [Nat -> Nat] : InUse(L, no) /\ NotInUse(L)
    BY DEF QueueInv, BlocksFit
  <2>2. \A b \in DOMAIN block : /\ b \in Nat /\ no[b] \in Nat
                                /\ Link(b)' = Link(b) /\ Slots(block'[b]) = Slots(block[b])
                                /\ Kept(block'[b]) = Kept(block[b])
                                /\ \A i, d \in Nat : Holds(block[b], i, d) => Holds(block'[b], i, d)
    <3>1. DOMAIN block \subseteq Nat
      <4>1. block \in Seq(BlockRecords)
        BY <1>3 DEF QueueTypes
      <4> QED
        BY <4>1
    <3> QED
      BY <2>1, <3>1, <1>10 DEF AllSame, SameBlock, Link
  <2>3. /\ frontBlock \in L /\ tailBlock \in L /\ n \in L /\ no[n] = no[frontBlock]
        /\ no[frontBlock] \in Nat
    BY <1>3, <1>5, <2>1, <2>2 DEF InUse
  <2>4. \A a, b \in DOMAIN block : Link(a) = Link(b) => a = b
    BY DEF QueueInv, RingFits
  <2>4a. PICK M : M = L \ {frontBlock}
    OBVIOUS
  <2>5. InUse(M, no)'
    <3>1. /\ frontBlock' \in M /\ tailBlock' \in M
          /\ \A b \in M : no[b] + Kept(block'[b]) <= given'
          /\ no[frontBlock'] + Removing' = taken'
          /\ no[tailBlock'] + Kept(block'[tailBlock']) = given'
      BY <2>4a, <1>1, <1>5, <1>6, <2>1, <2>2, <2>3 DEF InUse
    <3>2. \A b \in M \ {tailBlock'} : /\ Link(b)' \in M \ {frontBlock'}
                                      /\ no[Link(b)'] = no[b] + Kept(block'[b])
      BY <2>4a, <1>1, <1>3, <2>1, <2>2, <2>4 DEF InUse
    <3>3. \A b \in M \ {frontBlock'} : /\ Kept(block'[b]) > 0
                                       /\ \E a \in M \ {tailBlock'} : Link(a)' = b
      <4> SUFFICES ASSUME NEW b \in M \ {frontBlock'}
                   PROVE  Kept(block'[b]) > 0 /\ \E a \in M \ {tailBlock'} : Link(a)' = b
        OBVIOUS
      <4>1. b \in L \ {frontBlock} /\ b # n
        BY <2>4a, <1>1
      <4>2. Kept(block[b]) > 0 /\ \E a \in L \ {tailBlock} : Link(a) = b
        BY <2>1, <4>1 DEF InUse
      <4>3. PICK a \in L \ {tailBlock} : Link(a) = b
        BY <4>2
      <4>4. a \in M \ {tailBlock'} /\ Link(a)' = b
        BY <2>4a, <1>1, <1>3, <2>2, <4>1, <4>3
      <4> QED
        BY <2>2, <4>1, <4>2, <4>4
    <3>4. \A b \in M \ {frontBlock', tailBlock'} : Kept(block'[b]) = Slots(block'[b]) - 1
      BY <2>4a, <1>1, <2>1, <2>2 DEF InUse
    <3>5. \A b \in M : Holds(block'[b], no[b], IF b = frontBlock' THEN Removing' ELSE 0)
      BY <2>4a, <1>1, <1>5, <2>1, <2>2 DEF InUse
    <3> QED
      BY <3>1, <3>2, <3>3, <3>4, <3>5 DEF InUse
  <2>6. NotInUse(M)'
    <3>1. Link(tailBlock)' = Link(tailBlock) /\ tailBlock' = tailBlock /\ given' = given
          /\ Link(tailBlock) \in DOMAIN block /\ given \in Nat
      BY <1>1, <1>3, <2>2, InFront DEF QueueTypes, Link
    <3>2. \A b \in DOMAIN block' \ M :
            Kept(block'[b]) = IF prod'.pc = "advance" /\ b = Link(tailBlock)' THEN 1 ELSE 0
      <4> SUFFICES ASSUME NEW b \in DOMAIN block' \ M
                   PROVE  Kept(block'[b]) = IF prod'.pc = "advance" /\ b = Link(tailBlock)' THEN 1 ELSE 0
        OBVIOUS
      <4>1. b \in DOMAIN block /\ Kept(block'[b]) = Kept(block[b])
        BY <1>12, <2>2
      <4>2. CASE b = frontBlock
        <5>1. prod.pc = "advance" => b # Link(tailBlock)
          BY <2>1, <2>3, <4>2 DEF NotInUse
        <5> QED
          BY <1>4, <1>5, <3>1, <4>1, <4>2, <5>1
      <4>3. CASE b # frontBlock
        <5>1. b \in DOMAIN block \ L
          BY <2>4a, <4>1, <4>3
        <5> QED
          BY <1>4, <2>1, <3>1, <4>1, <5>1 DEF NotInUse
      <4> QED
        BY <4>2, <4>3
    <3>3. prod'.pc \in {"ahead", "advance"} => Link(tailBlock)' \notin M
      BY <2>4a, <1>4, <2>1, <3>1 DEF NotInUse
    <3>4. prod'.pc = "advance" => Holds(block'[Link(tailBlock)'], given', 0)
      BY <2>4a, <1>4, <2>1, <2>2, <3>1 DEF NotInUse
    <3> QED
      BY <3>1, <3>2, <3>3, <3>4 DEF NotInUse
  <2>7. M \in SUBSET DOMAIN block'
    BY <2>4a, <1>12
  <2> QED
    BY <2>5, <2>6, <2>7 DEF BlocksFit
<1>16. /\ block'[n].front = r.front /\ block'[n].localTail = r.tail
       /\ block'[n].tail = r.tail /\ block'[n].localFront = r.localFront
       /\ block'[n].next = r.next /\ block'[n].data = r.data
  BY <1>7, <1>9 DEF Reads, Replaced
<1>17. /\ block'[tailBlock].tail = block[tailBlock].tail
       /\ block'[tailBlock].localFront = block[tailBlock].localFront
       /\ block'[tailBlock].next = block[tailBlock].next
       /\ block'[tailBlock].data = block[tailBlock].data
       /\ Slots(block'[tailBlock]) = Slots(block[tailBlock])
       /\ Kept(block'[tailBlock]) = Kept(block[tailBlock])
  BY <1>3, <1>9, <1>12, <1>16 DEF Replaced
<1>18. ProducerFits'
  BY <1>1, <1>4, <1>5, <1>6, <1>17 DEF QueueInv, ProducerFits, Link
<1>19. ConsumerFits'
  <2>1. r.front # r.tail
    BY <1>3, <1>6, FitsIs
  <2> QED
    BY <1>1, <1>4, <1>16, <2>1 DEF QueueInv, ConsumerFits, Pops
<1>20. SemaphoreFits'
  BY <1>1, <1>4 DEF QueueInv, SemaphoreFits, Unsignalled, Passed, Pops, Sleeping, Posting, OwesOne
<1> QED
  BY <1>11, <1>13, <1>14, <1>15, <1>18, <1>19, <1>20 DEF QueueInv

LEMMA SlotReplaced ==
  ASSUME NEW d \in Seq(Int), NEW i \in Nat, i < Len(d), NEW j \in Nat, j < Len(d), i # j, NEW e \in Int
  PROVE  [d EXCEPT ![i + 1] = e] \in Seq(Int) /\ [d EXCEPT ![i + 1] = e][j + 1] = d[j + 1]
OBVIOUS

LEMMA RemoveFits == ASSUME QueueInv, Remove PROVE QueueInv'
<1> DEFINE r == block[frontBlock]
           s == [r.data EXCEPT ![r.front + 1] = Garbage]
           q == [r EXCEPT !.data = s]
<1>1. /\ cons.pc = "element" /\ cons.op # "peek" /\ taken' = taken + 1
      /\ cons' = [cons EXCEPT !.pc = "removed", !.el = r.data[r.front + 1]]
      /\ UNCHANGED <<frontBlock, tailBlock, largestBlockSize, count, sema, prod, given, size>>
  BY DEF Remove
<1>2. block' = [block EXCEPT ![frontBlock] = q]
  BY Zenon DEF Remove
<1>3. /\ QueueTypes /\ frontBlock \in DOMAIN block /\ tailBlock \in DOMAIN block
      /\ BlockFits(r) /\ r \in BlockRecords /\ r.front # r.localTail
      /\ given \in Nat /\ taken \in Nat /\ count \in Int
  BY <1>1, FitsIs DEF QueueInv, QueueTypes, ConsumerFits
<1>4. r.data[r.front + 1] = taken + 1 /\ Kept(r) > 0 /\ r.front # r.tail
  <2>1. Removing = 0 /\ Kept(r) > 0
    BY <1>1, <1>3, SeenIsKept DEF Removing
  <2> QED
    BY <1>3, <2>1, InFront, FitsIs
<1>5. r.front \in Nat /\ r.front < Len(r.data) /\ r.tail \in Nat /\ r.tail < Len(r.data)
      /\ r.data \in Seq(Int)
  BY <1>3, FitsIs, RecordIs DEF Slots
<1>6. s \in Seq(Int) /\ s[r.tail + 1] = r.data[r.tail + 1]
  <2>1. Garbage \in Int
    BY DEF Garbage
  <2>2. PICK d, i, j : d = r.data /\ i = r.front /\ j = r.tail
    OBVIOUS
  <2>3. d \in Seq(Int) /\ i \in Nat /\ i < Len(d) /\ j \in Nat /\ j < Len(d) /\ i # j
    BY <1>4, <1>5, <2>2
  <2>4. [d EXCEPT ![i + 1] = Garbage] \in Seq(Int) /\ [d EXCEPT ![i + 1] = Garbage][j + 1] = d[j + 1]
    BY <2>1, <2>3, SlotReplaced
  <2> QED
    BY <2>2, <2>4
<1>7. cons' = [cons EXCEPT !.pc = "removed", !.el = taken + 1] /\ cons \in ConsumerRecords
  BY <1>1, <1>4 DEF QueueInv, QueueTypes
<1>8. cons' \in ConsumerRecords
  <2>1. "removed" \in ConsumerLabels /\ taken + 1 \in Int
    BY <1>3 DEF ConsumerLabels
  <2> QED
    BY <1>7, <2>1, Zenon DEF ConsumerRecords
<1>9. cons'.pc = "removed" /\ cons'.op = cons.op /\ cons'.el = taken'
  BY <1>1, <1>7 DEF ConsumerRecords
<1>10. Reads(q, r.front, r.localTail, r.tail, r.localFront, r.next, s)
  BY <1>3, <1>6, ReadsData
<1> HIDE DEF q
<1>11. /\ BlockFits(q) /\ Slots(q) = Slots(r) /\ Kept(q) = Kept(r)
       /\ \A n \in Nat : Holds(r, n, 0) => Holds(q, n, 1)
  BY <1>3, <1>10, SlotCleared
<1> HIDE DEF s
<1>12. Replaced(frontBlock, q)
  BY <1>2, <1>3, <1>11, ReplaceOne
<1>13. /\ DOMAIN block' = DOMAIN block /\ Len(block') = Len(block)
       /\ \A b \in DOMAIN block : /\ block'[b].next = block[b].next
                                  /\ Kept(block'[b]) = Kept(block[b])
                                  /\ Slots(block'[b]) = Slots(block[b])
       /\ \A b \in DOMAIN block \ {frontBlock} : block'[b] = block[b]
       /\ block'[frontBlock] = q
  BY <1>10, <1>11, <1>12 DEF Replaced, Reads
<1>14. QueueTypes'
  BY <1>1, <1>3, <1>8, <1>12 DEF QueueTypes, Replaced
<1>15. RingFits' /\ RoomFits'
  BY <1>1, <1>13, RingStays, RoomStays DEF QueueInv
<1>16. Removing = 0 /\ Removing' = 1
  BY <1>1, <1>9 DEF Removing
<1>17. SizeFits'
  <2>1. SizeApprox' = SizeApprox
    BY <1>3, <1>13, <1>14, SizeSame
  <2> QED
    BY <1>1, <1>3, <1>16, <2>1 DEF QueueInv, SizeFits
<1>18. BlocksFit'
  <2>1. PICK L \in SUBSET DOMAIN block, no \in [Nat -> Nat] : InUse(L, no) /\ NotInUse(L)
    BY DEF QueueInv, BlocksFit
  <2>2. \A b \in DOMAIN block : b \in Nat /\ no[b] \in Nat /\ Link(b)' = Link(b)
    <3>1. DOMAIN block \subseteq Nat
      <4>1. block \in Seq(BlockRecords)
        BY <1>3 DEF QueueTypes
      <4> QED
        BY <4>1
    <3> QED
      BY <2>1, <3>1, <1>13 DEF Link
  <2>3. InUse(L, no)'
    <3>1. /\ frontBlock' \in L /\ tailBlock' \in L
          /\ \A b \in L \ {tailBlock'} : /\ Link(b)' \in L \ {frontBlock'}
                                         /\ no[Link(b)'] = no[b] + Kept(block'[b])
          /\ \A b \in L \ {frontBlock', tailBlock'} : Kept(block'[b]) = Slots(block'[b]) - 1
          /\ \A b \in L : no[b] + Kept(block'[b]) <= given'
          /\ no[tailBlock'] + Kept(block'[tailBlock']) = given'
      BY <1>1, <1>13, <2>1, <2>2 DEF InUse
    <3>2. no[frontBlock'] + Removing' = taken'
      BY <1>1, <1>3, <1>16, <2>1, <2>2 DEF InUse
    <3>3. \A b \in L \ {frontBlock'} : /\ Kept(block'[b]) > 0
                                       /\ \E a \in L \ {tailBlock'} : Link(a)' = b
      BY <1>1, <1>13, <2>1, <2>2 DEF InUse
    <3>4. \A b \in L : Holds(block'[b], no[b], IF b = frontBlock' THEN Removing' ELSE 0)
      BY <1>1, <1>3, <1>11, <1>13, <1>16, <2>1, <2>2 DEF InUse
    <3> QED
      BY <3>1, <3>2, <3>3, <3>4 DEF InUse
  <2>4. NotInUse(L)'
    <3>1. Link(tailBlock)' = Link(tailBlock) /\ tailBlock' = tailBlock /\ given' = given
          /\ Link(tailBlock) \in DOMAIN block
      BY <1>1, <1>3, <1>13, InFront DEF Link
    <3>2. prod'.pc = "advance" => Link(tailBlock) # frontBlock
      BY <1>1, InFront
    <3> QED
      BY <1>1, <1>13, <2>1, <2>2, <3>1, <3>2 DEF NotInUse
  <2> QED
    BY <1>13, <2>1, <2>3, <2>4 DEF BlocksFit
<1>19. /\ block'[tailBlock].tail = block[tailBlock].tail
       /\ block'[tailBlock].localFront = block[tailBlock].localFront
       /\ block'[tailBlock].data[block[tailBlock].tail + 1] = block[tailBlock].data[block[tailBlock].tail + 1]
  BY <1>3, <1>6, <1>10, <1>13 DEF Reads
<1>20. ProducerFits'
  BY <1>1, <1>3, <1>13, <1>19 DEF QueueInv, ProducerFits
<1>21. ConsumerFits'
  <2>1. block'[frontBlock].front # block'[frontBlock].localTail
    BY <1>3, <1>10, <1>13 DEF Reads
  <2> QED
    BY <1>1, <1>9, <2>1 DEF ConsumerFits, Pops
<1>22. SemaphoreFits'
  <2>1. Passed = 1 /\ Passed' = 0
    BY <1>1, <1>9 DEF Passed, Pops
  <2>2. Sleeping' = Sleeping /\ Unsignalled' = Unsignalled /\ Posting' = Posting /\ OwesOne' = OwesOne
    BY <1>1, <1>9 DEF Sleeping, Unsignalled, Posting, OwesOne
  <2>3. Sleeping \in {0, 1} /\ Unsignalled \in {0, 1}
    BY DEF Sleeping, Unsignalled
  <2> QED
    BY <1>1, <1>3, <1>9, <2>1, <2>2, <2>3 DEF QueueInv, SemaphoreFits
<1> QED
  BY <1>14, <1>15, <1>17, <1>18, <1>20, <1>21, <1>22 DEF QueueInv

LEMMA ReleaseFits == ASSUME QueueInv, Release PROVE QueueInv'
<1> DEFINE r == block[frontBlock]
           i == After(frontBlock, r.front)
           q == [r EXCEPT !.front = i]
<1>1. /\ Consume("removed", "idle")
      /\ UNCHANGED <<frontBlock, tailBlock, largestBlockSize, count, sema, given, taken, size>>
  BY DEF Release
<1>2. block' = [block EXCEPT ![frontBlock] = q]
  BY Zenon DEF Release
<1>3. /\ cons.pc = "removed" /\ cons'.pc = "idle" /\ prod' = prod /\ cons'.op = cons.op
      /\ cons'.el = cons.el /\ cons' \in ConsumerRecords
  BY <1>1, ConsumeIs DEF QueueInv, ConsumerLabels
<1>4. /\ QueueTypes /\ frontBlock \in DOMAIN block /\ tailBlock \in DOMAIN block
      /\ BlockFits(r) /\ r \in BlockRecords /\ r.front # r.localTail
      /\ given \in Nat /\ taken \in Nat /\ count \in Int
  BY <1>3, FitsIs DEF QueueInv, QueueTypes, ConsumerFits
<1>5. i = Onward(r.front, Slots(r)) /\ i \in Nat
  <2>1. i = (r.front + 1) % Slots(r)
    BY DEF After, SlotsOf, Slots
  <2>2. r.front \in Nat /\ r.front < Slots(r) /\ Slots(r) \in Nat
    BY <1>4, FitsIs
  <2> QED
    BY <2>1, <2>2, OnwardIs
<1>6. Reads(q, Onward(r.front, Slots(r)), r.localTail, r.tail, r.localFront, r.next, r.data)
  BY <1>4, <1>5, ReadsFront
<1> HIDE DEF q, i
<1>7. /\ BlockFits(q) /\ Slots(q) = Slots(r) /\ Kept(q) = Kept(r) - 1
      /\ \A n \in Nat : Holds(r, n, 1) => Holds(q, n + 1, 0)
  BY <1>4, <1>6, FrontMoved
<1>8. Replaced(frontBlock, q)
  BY <1>2, <1>4, <1>7, ReplaceOne
<1>9. /\ DOMAIN block' = DOMAIN block /\ Len(block') = Len(block)
      /\ \A b \in DOMAIN block : /\ block'[b].next = block[b].next
                                 /\ Slots(block'[b]) = Slots(block[b])
      /\ \A b \in DOMAIN block \ {frontBlock} : block'[b] = block[b]
      /\ block'[frontBlock] = q
  BY <1>6, <1>7, <1>8 DEF Replaced, Reads
<1>10. QueueTypes'
  BY <1>1, <1>3, <1>4, <1>8 DEF QueueTypes, Replaced
<1>11. RingFits' /\ RoomFits'
  BY <1>1, <1>9, RingStays, RoomStays DEF QueueInv
<1>12. Removing = 1 /\ Removing' = 0
  BY <1>3 DEF Removing
<1>13. PICK k \in Nat : k = Kept(r) /\ Kept(q) = k - 1 /\ k > 0
  BY <1>4, <1>7, FitsIs, SeenIsKept
<1>14. SizeFits'
  <2>1. SizeApprox \in Nat /\ SizeApprox' = SizeApprox + (Kept(block'[frontBlock]) - Kept(block[frontBlock]))
    BY <1>4, <1>9, <1>10, SizeChanges
  <2>2. PICK z, y : z \in Nat /\ z = SizeApprox /\ y = SizeApprox'
    BY <2>1
  <2>3. y = z + ((k - 1) - k)
    BY <1>9, <1>13, <2>1, <2>2
  <2>4. y = z - 1
    BY <2>2, <2>3, <1>13
  <2> QED
    BY <1>1, <1>3, <1>4, <1>12, <2>2, <2>4 DEF QueueInv, SizeFits
<1>15. BlocksFit'
  <2>1. PICK L \in SUBSET DOMAIN block, no \in [Nat -> Nat] : InUse(L, no) /\ NotInUse(L)
    BY DEF QueueInv, BlocksFit
  <2>2. \A b \in DOMAIN block : b \in Nat /\ no[b] \in Nat /\ Link(b)' = Link(b)
    <3>1. DOMAIN block \subseteq Nat
      <4>1. block \in Seq(BlockRecords)
        BY <1>4 DEF QueueTypes
      <4> QED
        BY <4>1, SMTT(30)
    <3> QED
      BY <2>1, <3>1, <1>9 DEF Link
  <2>3. PICK m : m = [no EXCEPT ![frontBlock] = @ + 1]
    OBVIOUS
  <2>4. /\ m \in [Nat -> Nat] /\ m[frontBlock] = no[frontBlock] + 1
        /\ \A b \in DOMAIN block : b # frontBlock => m[b] = no[b]
        /\ \A b \in DOMAIN block : m[b] + Kept(block'[b]) = no[b] + Kept(block[b])
    <3>1. frontBlock \in Nat /\ no[frontBlock] \in Nat
      BY <1>4, <2>2
    <3>2. /\ m \in [Nat -> Nat] /\ m[frontBlock] = no[frontBlock] + 1
          /\ \A b \in DOMAIN block : b # frontBlock => m[b] = no[b]
      BY <2>1, <2>2, <2>3, <3>1
    <3>3. m[frontBlock] + Kept(block'[frontBlock]) = no[frontBlock] + Kept(block[frontBlock])
      BY <1>9, <1>13, <3>1, <3>2
    <3> QED
      BY <1>9, <3>2, <3>3
  <2>5. InUse(L, m)'
    <3>1. /\ frontBlock' \in L /\ tailBlock' \in L
          /\ \A b \in L : m[b] + Kept(block'[b]) <= given'
          /\ m[tailBlock'] + Kept(block'[tailBlock']) = given'
      BY <1>1, <1>4, <2>1, <2>4 DEF InUse
    <3>2. \A b \in L \ {tailBlock'} : /\ Link(b)' \in L \ {frontBlock'}
                                      /\ m[Link(b)'] = m[b] + Kept(block'[b])
      BY <1>1, <2>1, <2>2, <2>4 DEF InUse
    <3>3. \A b \in L \ {frontBlock', tailBlock'} : Kept(block'[b]) = Slots(block'[b]) - 1
      BY <1>1, <1>9, <2>1 DEF InUse
    <3>4. m[frontBlock'] + Removing' = taken'
      BY <1>1, <1>4, <1>12, <2>1, <2>2, <2>4 DEF InUse
    <3>5. \A b \in L \ {frontBlock'} : /\ Kept(block'[b]) > 0
                                       /\ \E a \in L \ {tailBlock'} : Link(a)' = b
      BY <1>1, <1>9, <2>1, <2>2 DEF InUse
    <3>6. \A b \in L : Holds(block'[b], m[b], IF b = frontBlock' THEN Removing' ELSE 0)
      <4> SUFFICES ASSUME NEW b \in L
                   PROVE  Holds(block'[b], m[b], IF b = frontBlock THEN 0 ELSE 0)
        BY <1>1, <1>12
      <4>1. b \in DOMAIN block /\ Holds(block[b], no[b], IF b = frontBlock THEN 1 ELSE 0)
        BY <1>12, <2>1 DEF InUse
      <4>2. CASE b = frontBlock
        BY <1>4, <1>7, <1>9, <2>2, <2>4, <4>1, <4>2
      <4>3. CASE b # frontBlock
        BY <1>9, <2>4, <4>1, <4>3
      <4> QED
        BY <4>2, <4>3
    <3> QED
      BY <3>1, <3>2, <3>3, <3>4, <3>5, <3>6 DEF InUse
  <2>6. NotInUse(L)'
    <3>1. Link(tailBlock)' = Link(tailBlock) /\ tailBlock' = tailBlock /\ given' = given
          /\ Link(tailBlock) \in DOMAIN block
      BY <1>1, <1>4, <1>9, InFront DEF Link
    <3>2. prod'.pc = "advance" => Link(tailBlock) # frontBlock
      BY <1>3, InFront
    <3>3. frontBlock \in L
      BY <2>1 DEF InUse
    <3> QED
      BY <1>3, <1>9, <2>1, <2>2, <3>1, <3>2, <3>3 DEF NotInUse
  <2> QED
    BY <1>9, <2>1, <2>4, <2>5, <2>6 DEF BlocksFit
<1>16. /\ block'[tailBlock].tail = block[tailBlock].tail
       /\ block'[tailBlock].localFront = block[tailBlock].localFront
       /\ block'[tailBlock].data = block[tailBlock].data
       /\ tailBlock # frontBlock => block'[tailBlock] = block[tailBlock]
  BY <1>4, <1>6, <1>9 DEF Reads
<1>17. ProducerFits'
  BY <1>1, <1>3, <1>4, <1>9, <1>16 DEF QueueInv, ProducerFits
<1>18. ConsumerFits'
  BY <1>1, <1>3 DEF QueueInv, ConsumerFits, Pops
<1>19. SemaphoreFits'
  BY <1>1, <1>3 DEF QueueInv, SemaphoreFits, Unsignalled, Passed, Pops, Sleeping, Posting, OwesOne
<1> QED
  BY <1>10, <1>11, <1>14, <1>15, <1>17, <1>18, <1>19 DEF QueueInv

-----------------------------------------------------------------------------
(* The producer in the blocks.                                             *)

LEMMA IntervalSize == ASSUME NEW n \in Nat PROVE Cardinality(1 .. n) = n
BY FS_Interval

LEMMA Products ==
  ASSUME NEW n \in Nat, NEW l \in Nat, NEW c \in Nat
  PROVE  (n + l) * c >= n * c
<1>1. (n + l) * c = n * c + l * c /\ l * c \in Nat /\ n * c \in Nat
  OBVIOUS
<1> QED
  BY <1>1

\* The code's room for size elements: when all blocks are in use and the tail block is
\* full, there are that many.
LEMMA RoomIsFound ==
  ASSUME QueueInv, prod.pc = "idle", Kept(block[tailBlock]) = Slots(block[tailBlock]) - 1,
         Link(tailBlock) = frontBlock
  PROVE  SizeApprox >= size
<1>1. PICK L \in SUBSET DOMAIN block, no \in [Nat -> Nat] : InUse(L, no) /\ NotInUse(L)
  BY DEF QueueInv, BlocksFit
<1>2. L = DOMAIN block
  <2>1. Link(tailBlock) \in L
    BY <1>1 DEF InUse
  <2> QED
    BY <1>1, <2>1, LastLeadsOut DEF QueueInv
<1>3. \A b \in DOMAIN block \ {frontBlock} : Kept(block[b]) = Slots(block[b]) - 1
  BY <1>1, <1>2 DEF InUse
<1>4. /\ SizeApprox = SumFunctionOnSet(KeptOf, DOMAIN block)
      /\ IsFiniteSet(DOMAIN block) /\ KeptOf \in [DOMAIN block -> Nat]
      /\ \A b \in DOMAIN block : KeptOf[b] = Kept(block[b])
  BY SizeIs DEF QueueInv, SizeIsSum
<1>5. /\ frontBlock \in DOMAIN block /\ tailBlock \in DOMAIN block /\ size \in Nat
      /\ Len(block) \in Nat /\ DOMAIN block = 1 .. Len(block)
      /\ \A b \in DOMAIN block : Slots(block[b]) \in Nat
  <2>1. size \in Nat
    BY QueueAssumption DEF QueueInv, QueueTypes, QueueAssumption
  <2>2. \A b \in DOMAIN block : Slots(block[b]) \in Nat
    BY FitsIs DEF QueueInv, QueueTypes
  <2>3. block \in Seq(BlockRecords) /\ frontBlock \in DOMAIN block /\ tailBlock \in DOMAIN block
    BY DEF QueueInv, QueueTypes
  <2>4. Len(block) \in Nat /\ DOMAIN block = 1 .. Len(block)
    BY <2>3
  <2> QED
    BY <2>1, <2>2, <2>3, <2>4
<1>6. CASE \A b \in DOMAIN block : Slots(block[b]) > size
  <2>1. KeptOf[tailBlock] = Slots(block[tailBlock]) - 1 /\ KeptOf[tailBlock] <= SizeApprox
        /\ SizeApprox \in Nat
    BY <1>4, <1>5, SumNat
  <2>2. PICK s \in Nat : s = Slots(block[tailBlock]) /\ s > size
    BY <1>5, <1>6
  <2> QED
    BY <1>5, <2>1, <2>2
<1>7. ASSUME \A b \in DOMAIN block : Slots(block[b]) >= MAX_BLOCK_SIZE,
             NEW n \in Nat, n < Len(block), size <= n * (MAX_BLOCK_SIZE - 1)
      PROVE  SizeApprox >= size
  <2> DEFINE S == DOMAIN block \ {frontBlock}
  <2>1. PICK c \in Nat : c = MAX_BLOCK_SIZE - 1
    BY QueueAssumption DEF QueueAssumption
  <2>2. IsFiniteSet(S) /\ Cardinality(S) = Len(block) - 1
    <3>1. Cardinality(DOMAIN block) = Len(block)
      <4>1. PICK l \in Nat : l = Len(block)
        BY <1>5
      <4>2. Cardinality(1 .. l) = l
        BY <4>1, IntervalSize
      <4> QED
        BY <1>5, <4>1, <4>2
    <3> QED
      <4>1. PICK D, l : D = DOMAIN block /\ l = Len(block)
        BY <1>5
      <4>2. IsFiniteSet(D) /\ Cardinality(D) = l /\ frontBlock \in D
        BY <1>4, <1>5, <3>1, <4>1
      <4>3. IsFiniteSet(D \ {frontBlock}) /\ Cardinality(D \ {frontBlock}) = l - 1
        BY <4>2, FS_RemoveElement
      <4> QED
        BY <4>1, <4>3
  <2>3. \A b \in S : KeptOf[b] \in Nat /\ KeptOf[b] >= c
    <3> SUFFICES ASSUME NEW b \in S PROVE KeptOf[b] \in Nat /\ KeptOf[b] >= c
      OBVIOUS
    <3>1. PICK s \in Nat : s = Slots(block[b]) /\ s >= MAX_BLOCK_SIZE /\ KeptOf[b] = s - 1
      BY <1>3, <1>4, <1>5, <1>7
    <3>2. KeptOf[b] \in Nat
      BY <1>4
    <3> QED
      BY <2>1, <3>1, <3>2, QueueAssumption DEF QueueAssumption
  <2>4. SumFunctionOnSet(KeptOf, S) >= (Len(block) - 1) * c
    BY <2>2, <2>3, SumAtLeast
  <2>5. /\ SumFunctionOnSet(KeptOf, S) \in Nat /\ KeptOf[frontBlock] \in Nat
        /\ SizeApprox = KeptOf[frontBlock] + SumFunctionOnSet(KeptOf, S)
    <3>1. \A b \in DOMAIN block : KeptOf[b] \in Nat /\ KeptOf[b] \in Int
      BY <1>4
    <3>2. SumFunctionOnSet(KeptOf, S) \in Nat
      BY <2>2, <3>1, SumNat
    <3>3. SumFunctionOnSet(KeptOf, DOMAIN block) = KeptOf[frontBlock] + SumFunctionOnSet(KeptOf, S)
      <4>1. PICK f, D, b : f = KeptOf /\ D = DOMAIN block /\ b = frontBlock
        OBVIOUS
      <4>2. IsFiniteSet(D) /\ b \in D /\ \A x \in D : f[x] \in Int
        BY <1>4, <1>5, <3>1, <4>1
      <4>3. SumFunctionOnSet(f, D) = f[b] + SumFunctionOnSet(f, D \ {b})
        BY <4>2, SumWithout
      <4> QED
        BY <4>1, <4>3
    <3> QED
      BY <1>4, <1>5, <3>1, <3>2, <3>3
  <2>6. (Len(block) - 1) * c >= n * c
    <3>1. PICK k \in Nat : k = Len(block) /\ n < k
      BY <1>5, <1>7
    <3>2. k - 1 - n \in Nat /\ k - 1 = n + (k - 1 - n)
      BY <1>7, <3>1
    <3>3. (n + (k - 1 - n)) * c >= n * c
      BY <1>7, <2>1, <3>2, Products
    <3> QED
      BY <3>1, <3>2, <3>3
  <2>7. PICK x \in Nat, y \in Nat, z \in Int, w \in Int :
          x = SumFunctionOnSet(KeptOf, S) /\ y = KeptOf[frontBlock]
          /\ z = (Len(block) - 1) * c /\ w = n * c
    <3>1. (Len(block) - 1) * c \in Int /\ n * c \in Int
      <4>1. \A i, j \in Int : i * j \in Int
        OBVIOUS
      <4>2. Len(block) - 1 \in Int /\ n \in Int /\ c \in Int
        BY <1>5, <1>7, <2>1
      <4> QED
        BY <4>1, <4>2
    <3> QED
      BY <2>5, <3>1
  <2>8. x >= z /\ z >= w /\ size <= w /\ SizeApprox = y + x
    BY <1>7, <2>1, <2>4, <2>5, <2>6, <2>7
  <2>9. x \in Nat /\ y \in Nat /\ z \in Int /\ w \in Int /\ size \in Nat
    BY <1>5, <2>7
  <2>10. y + x >= size
    BY <2>8, <2>9
  <2> QED
    BY <2>8, <2>10
<1> QED
  BY <1>6, <1>7 DEF QueueInv, RoomFits

LEMMA EnqueueFits ==
  ASSUME QueueInv, NEW alloc \in BOOLEAN, Enqueue(alloc)
  PROVE  QueueInv'
<1> DEFINE r == block[tailBlock]
           t == After(tailBlock, r.tail)
           seen == IF t # r.localFront THEN r.localFront ELSE r.front
           q == [r EXCEPT !.localFront = seen]
           to == IF t # seen THEN "room" ELSE "full"
<1>1. /\ prod.pc = "idle" /\ prod' = [pc |-> to, alloc |-> alloc, room |-> SizeApprox < size]
      /\ UNCHANGED <<frontBlock, tailBlock, largestBlockSize, count, sema, cons, given, taken, size>>
  BY DEF Enqueue
<1>2. block' = [block EXCEPT ![tailBlock] = q]
  BY Zenon DEF Enqueue
<1>3. /\ QueueTypes /\ frontBlock \in DOMAIN block /\ tailBlock \in DOMAIN block
      /\ BlockFits(r) /\ r \in BlockRecords
  BY FitsIs DEF QueueInv, QueueTypes
<1>4. t = Onward(r.tail, Slots(r))
  <2>1. t = (r.tail + 1) % Slots(r)
    BY DEF After, SlotsOf, Slots
  <2> QED
    BY <1>3, <2>1, RemaindersAre
<1>5. prod' \in ProducerRecords /\ prod'.pc = to /\ prod'.room = (SizeApprox < size)
  BY <1>1 DEF ProducerRecords, ProducerLabels
<1>6. seen \in Nat /\ seen \in {r.localFront, r.front}
  BY <1>3, RecordIs
<1>7. Reads(q, r.front, r.localTail, r.tail, seen, r.next, r.data)
  BY <1>3, <1>6, ReadsLocalFront
<1> HIDE DEF q
<1>8. BlockFits(q) /\ SameBlock(r, q)
  BY <1>3, <1>6, <1>7, FrontSeen
<1>9. Replaced(tailBlock, q)
  BY <1>2, <1>3, <1>8, ReplaceOne
<1>10. AllSame
  BY <1>8, <1>9, OneSame
<1>11. QueueTypes'
  BY <1>1, <1>3, <1>5, <1>9 DEF QueueTypes, Replaced
<1>12. RingFits' /\ BlocksFit' /\ SizeFits' /\ RoomFits'
  <2>1. Looks /\ Removing' = Removing
    BY <1>1, <1>5 DEF Looks, Removing
  <2> QED
    BY <1>1, <1>10, <1>11, <2>1, StructureStays
<1>13. /\ block'[tailBlock].tail = r.tail /\ block'[tailBlock].localFront = seen
       /\ block'[tailBlock].next = r.next /\ block'[tailBlock].localTail = r.localTail
       /\ block'[tailBlock].front = r.front
       /\ Slots(block'[tailBlock]) = Slots(r) /\ Kept(block'[tailBlock]) = Kept(r)
  BY <1>7, <1>8, <1>9 DEF Reads, Replaced, SameBlock
<1>14. to = "full" => Kept(r) = Slots(r) - 1
  <2>1. to = "full" => Onward(r.tail, Slots(r)) = r.front
    BY <1>4
  <2>2. PICK i, j, s : i = r.front /\ j = r.tail /\ s = Slots(r)
    OBVIOUS
  <2>3. i \in Nat /\ i < s /\ j \in Nat /\ j < s /\ s \in Nat
    BY <1>3, <2>2, FitsIs
  <2>4. Onward(j, s) = i => Apart(i, j, s) = s - 1
    BY <2>3, ApartMoves
  <2> HIDE DEF to, r
  <2> QED
    BY <2>1, <2>2, <2>4 DEF Kept
<1>15. to = "full" /\ SizeApprox < size => r.next # frontBlock
  <2> SUFFICES ASSUME to = "full", SizeApprox < size, r.next = frontBlock PROVE FALSE
    OBVIOUS
  <2>1. SizeApprox >= size
    BY <1>1, <1>14, RoomIsFound DEF Link
  <2>2. SizeApprox \in Nat /\ size \in Nat
    <3>1. PICK S, f : S = DOMAIN block /\ f = KeptOf
      OBVIOUS
    <3>2. IsFiniteSet(S) /\ (\A x \in S : f[x] \in Nat) /\ SizeApprox = SumFunctionOnSet(f, S)
      BY <1>3, <3>1, SizeIs DEF SizeIsSum
    <3> QED
      BY <1>3, <3>2, SumNat, QueueAssumption DEF QueueTypes, QueueAssumption
  <2> QED
    BY <2>1, <2>2
<1>16. to = "room" => Onward(r.tail, Slots(r)) # seen
  BY <1>4
<1> HIDE DEF to, seen
<1>17. to \in {"room", "full"}
  BY DEF to
<1>18. ProducerFits'
  BY <1>1, <1>5, <1>13, <1>14, <1>15, <1>16, <1>17 DEF ProducerFits
<1>19. ConsumerFits'
  <2>1. /\ block'[frontBlock].front = block[frontBlock].front
        /\ block'[frontBlock].localTail = block[frontBlock].localTail
        /\ Kept(block'[frontBlock]) = Kept(block[frontBlock])
    BY <1>3, <1>9, <1>13 DEF Replaced
  <2> QED
    BY <1>1, <2>1 DEF QueueInv, ConsumerFits, Pops
<1>20. SemaphoreFits'
  BY <1>1, <1>5, <1>17 DEF QueueInv, SemaphoreFits, Unsignalled, Passed, Pops, Sleeping, Posting, OwesOne
<1> QED
  BY <1>11, <1>12, <1>18, <1>19, <1>20 DEF QueueInv

LEMMA ConstructFits == ASSUME QueueInv, Construct PROVE QueueInv'
<1> DEFINE r == block[tailBlock]
           s == [r.data EXCEPT ![r.tail + 1] = given + 1]
           q == [r EXCEPT !.data = s]
<1>1. /\ Produce("room", "built")
      /\ UNCHANGED <<frontBlock, tailBlock, largestBlockSize, count, sema, given, taken, size>>
  BY DEF Construct
<1>2. block' = [block EXCEPT ![tailBlock] = q]
  BY Zenon DEF Construct
<1>3. /\ QueueTypes /\ frontBlock \in DOMAIN block /\ tailBlock \in DOMAIN block
      /\ BlockFits(r) /\ r \in BlockRecords /\ given \in Nat
  BY FitsIs DEF QueueInv, QueueTypes
<1>4. prod.pc = "room" /\ prod'.pc = "built" /\ cons' = cons /\ prod' \in ProducerRecords
  BY <1>1, ProduceIs DEF QueueInv, ProducerLabels
<1>5. s \in Seq(Int) /\ given + 1 \in Int
  <2>1. r.data \in Seq(Int) /\ r.tail \in Nat /\ r.tail < Len(r.data)
    BY <1>3, RecordIs, FitsIs DEF Slots
  <2>2. PICK d, j : d = r.data /\ j = r.tail
    OBVIOUS
  <2>3. d \in Seq(Int) /\ j \in Nat /\ j < Len(d)
    BY <2>1, <2>2
  <2>4. \A e \in Int : [d EXCEPT ![j + 1] = e] \in Seq(Int)
    BY <2>3
  <2> QED
    BY <1>3, <2>2, <2>4
<1>6. Reads(q, r.front, r.localTail, r.tail, r.localFront, r.next, s)
  BY <1>3, <1>5, ReadsData
<1> HIDE DEF q
<1>7. BlockFits(q) /\ SameBlock(r, q) /\ q.data[r.tail + 1] = given + 1
  BY <1>3, <1>5, <1>6, SlotWritten
<1> HIDE DEF s
<1>8. Replaced(tailBlock, q)
  BY <1>2, <1>3, <1>7, ReplaceOne
<1>9. AllSame
  BY <1>7, <1>8, OneSame
<1>10. QueueTypes'
  BY <1>1, <1>3, <1>4, <1>8 DEF QueueTypes, Replaced
<1>11. RingFits' /\ BlocksFit' /\ SizeFits' /\ RoomFits'
  <2>1. Looks /\ Removing' = Removing
    BY <1>4 DEF Looks, Removing
  <2> QED
    BY <1>1, <1>9, <1>10, <2>1, StructureStays
<1>12. /\ block'[tailBlock].tail = r.tail /\ block'[tailBlock].localFront = r.localFront
       /\ block'[tailBlock].localTail = r.localTail /\ block'[tailBlock].front = r.front
       /\ Slots(block'[tailBlock]) = Slots(r) /\ Kept(block'[tailBlock]) = Kept(r)
       /\ block'[tailBlock].data[r.tail + 1] = given + 1
  BY <1>6, <1>7, <1>8 DEF Reads, Replaced, SameBlock
<1>13. ProducerFits'
  BY <1>1, <1>4, <1>12 DEF QueueInv, ProducerFits
<1>14. ConsumerFits'
  <2>1. /\ block'[frontBlock].front = block[frontBlock].front
        /\ block'[frontBlock].localTail = block[frontBlock].localTail
        /\ Kept(block'[frontBlock]) = Kept(block[frontBlock])
    BY <1>3, <1>8, <1>12 DEF Replaced
  <2> QED
    BY <1>1, <1>4, <2>1 DEF QueueInv, ConsumerFits, Pops
<1>15. SemaphoreFits'
  BY <1>1, <1>4 DEF QueueInv, SemaphoreFits, Unsignalled, Passed, Pops, Sleeping, Posting, OwesOne
<1> QED
  BY <1>10, <1>11, <1>13, <1>14, <1>15 DEF QueueInv

LEMMA PublishFits == ASSUME QueueInv, Publish PROVE QueueInv'
<1> DEFINE r == block[tailBlock]
           i == After(tailBlock, r.tail)
           q == [r EXCEPT !.tail = i]
<1>1. /\ Produce("built", "signal") /\ given' = given + 1
      /\ UNCHANGED <<frontBlock, tailBlock, largestBlockSize, count, sema, taken, size>>
  BY DEF Publish
<1>2. block' = [block EXCEPT ![tailBlock] = q]
  BY Zenon DEF Publish
<1>3. /\ QueueTypes /\ frontBlock \in DOMAIN block /\ tailBlock \in DOMAIN block
      /\ BlockFits(r) /\ r \in BlockRecords /\ given \in Nat /\ taken \in Nat /\ count \in Int
  BY FitsIs DEF QueueInv, QueueTypes
<1>4. prod.pc = "built" /\ prod'.pc = "signal" /\ cons' = cons /\ prod' \in ProducerRecords
  BY <1>1, ProduceIs DEF QueueInv, ProducerLabels
<1>5. i = Onward(r.tail, Slots(r)) /\ i \in Nat
  <2>1. i = (r.tail + 1) % Slots(r)
    BY DEF After, SlotsOf, Slots
  <2>2. r.tail \in Nat /\ r.tail < Slots(r) /\ Slots(r) \in Nat
    BY <1>3, FitsIs
  <2> QED
    BY <2>1, <2>2, OnwardIs
<1>6. Reads(q, r.front, r.localTail, Onward(r.tail, Slots(r)), r.localFront, r.next, r.data)
  BY <1>3, <1>5, ReadsTail
<1> HIDE DEF q, i
<1>7. Onward(r.tail, Slots(r)) # r.localFront /\ r.data[r.tail + 1] = given + 1
  BY <1>4 DEF QueueInv, ProducerFits
<1>8. /\ BlockFits(q) /\ Slots(q) = Slots(r) /\ Kept(q) = Kept(r) + 1
      /\ \A n, d \in Nat : Holds(r, n, d) /\ n + Kept(r) = given => Holds(q, n, d)
  BY <1>3, <1>6, <1>7, TailMoved
<1>9. Replaced(tailBlock, q)
  BY <1>2, <1>3, <1>8, ReplaceOne
<1>10. /\ DOMAIN block' = DOMAIN block /\ Len(block') = Len(block)
       /\ \A b \in DOMAIN block : /\ block'[b].next = block[b].next
                                  /\ Slots(block'[b]) = Slots(block[b])
       /\ \A b \in DOMAIN block \ {tailBlock} : block'[b] = block[b]
       /\ block'[tailBlock] = q
  BY <1>6, <1>8, <1>9 DEF Replaced, Reads
<1>11. QueueTypes'
  BY <1>1, <1>3, <1>4, <1>9 DEF QueueTypes, Replaced
<1>12. RingFits' /\ RoomFits'
  BY <1>1, <1>10, RingStays, RoomStays DEF QueueInv
<1>13. PICK k \in Nat : k = Kept(r) /\ Kept(q) = k + 1
  BY <1>3, <1>8, FitsIs
<1>14. SizeFits'
  <2>1. SizeApprox \in Nat /\ SizeApprox' = SizeApprox + (Kept(block'[tailBlock]) - Kept(block[tailBlock]))
    BY <1>3, <1>10, <1>11, SizeChanges
  <2>2. PICK z, y : z \in Nat /\ z = SizeApprox /\ y = SizeApprox'
    BY <2>1
  <2>3. y = z + ((k + 1) - k)
    BY <1>10, <1>13, <2>1, <2>2
  <2>4. y = z + 1
    BY <2>2, <2>3, <1>13
  <2>5. Removing' = Removing /\ Removing \in {0, 1}
    BY <1>4 DEF Removing
  <2>6. z = given - taken + Removing
    BY <1>4, <2>2, <2>5, <1>3 DEF QueueInv, SizeFits
  <2>7. y = (given + 1) - taken + Removing
    BY <1>3, <2>4, <2>5, <2>6
  <2> QED
    BY <1>1, <1>3, <1>4, <2>2, <2>5, <2>7 DEF SizeFits
<1>15. BlocksFit'
  <2>1. PICK L \in SUBSET DOMAIN block, no \in [Nat -> Nat] : InUse(L, no) /\ NotInUse(L)
    BY DEF QueueInv, BlocksFit
  <2>2. \A b \in DOMAIN block : /\ b \in Nat /\ no[b] \in Nat /\ Link(b)' = Link(b)
                                /\ Kept(block[b]) \in Nat
    <3>1. DOMAIN block \subseteq Nat
      <4>1. block \in Seq(BlockRecords)
        BY <1>3 DEF QueueTypes
      <4> QED
        BY <4>1, SMTT(30)
    <3>2. \A b \in DOMAIN block : Kept(block[b]) \in Nat
      BY <1>3, FitsIs DEF QueueTypes
    <3> QED
      BY <2>1, <3>1, <3>2, <1>10 DEF Link
  <2>3. InUse(L, no)'
    <3>1. /\ frontBlock' \in L /\ tailBlock' \in L
          /\ no[frontBlock'] + Removing' = taken'
          /\ \A b \in L \ {tailBlock'} : /\ Link(b)' \in L \ {frontBlock'}
                                         /\ no[Link(b)'] = no[b] + Kept(block'[b])
      BY <1>1, <1>4, <1>10, <2>1, <2>2 DEF InUse, Removing
    <3>2. \A b \in L \ {frontBlock', tailBlock'} : Kept(block'[b]) = Slots(block'[b]) - 1
      BY <1>1, <1>10, <2>1 DEF InUse
    <3>3. no[tailBlock] + Kept(block[tailBlock]) = given /\ no[tailBlock] \in Nat
      BY <1>3, <2>1, <2>2 DEF InUse
    <3>4. no[tailBlock'] + Kept(block'[tailBlock']) = given'
      <4>1. PICK a \in Nat, g \in Nat : a = no[tailBlock] /\ g = given
        BY <1>3, <3>3
      <4>2. a + (k + 1) = g + 1
        BY <1>13, <3>3, <4>1
      <4>3. no[tailBlock'] = a /\ Kept(block'[tailBlock']) = k + 1 /\ given' = g + 1
        BY <1>1, <1>10, <1>13, <4>1
      <4> QED
        BY <4>2, <4>3
    <3>5. \A b \in L : no[b] + Kept(block'[b]) <= given'
      <4> SUFFICES ASSUME NEW b \in L PROVE no[b] + Kept(block'[b]) <= given'
        OBVIOUS
      <4>1. CASE b = tailBlock
        <5>1. PICK g \in Nat : g = given' /\ no[b] + Kept(block'[b]) = g
          BY <1>1, <1>3, <3>4, <4>1
        <5> QED
          BY <5>1
      <4>2. CASE b # tailBlock
        <5>1. no[b] + Kept(block[b]) <= given /\ no[b] \in Nat /\ Kept(block[b]) \in Nat
          BY <2>1, <2>2 DEF InUse
        <5>2. Kept(block'[b]) = Kept(block[b])
          BY <1>10, <4>2
        <5>3. PICK g \in Nat, n \in Nat, m \in Nat : g = given /\ n = no[b] /\ m = Kept(block[b])
          BY <1>3, <5>1
        <5> QED
          BY <1>1, <5>1, <5>2, <5>3
      <4> QED
        BY <4>1, <4>2
    <3>6. \A b \in L \ {frontBlock'} : /\ Kept(block'[b]) > 0
                                       /\ \E a \in L \ {tailBlock'} : Link(a)' = b
      <4>1. \A b \in L \ {frontBlock} : Kept(block[b]) > 0 /\ \E a \in L \ {tailBlock} : Link(a) = b
        BY <2>1 DEF InUse
      <4>2. k + 1 > 0
        BY <1>13
      <4>3. \A b \in L \ {frontBlock'} : Kept(block'[b]) > 0
        BY <1>1, <1>10, <1>13, <4>1, <4>2
      <4> QED
        BY <1>1, <2>2, <4>1, <4>3
    <3>7. \A b \in L : Holds(block'[b], no[b], IF b = frontBlock' THEN Removing' ELSE 0)
      BY <1>1, <1>3, <1>4, <1>8, <1>10, <2>1, <2>2, <3>3 DEF InUse, Removing
    <3> QED
      BY <3>1, <3>2, <3>4, <3>5, <3>6, <3>7 DEF InUse
  <2>4. NotInUse(L)'
    <3>1. tailBlock \in L
      BY <2>1 DEF InUse
    <3> QED
      BY <1>4, <1>10, <2>1, <3>1 DEF NotInUse
  <2> QED
    BY <1>10, <2>1, <2>3, <2>4 DEF BlocksFit
<1>16. ProducerFits'
  BY <1>4 DEF ProducerFits
<1>17. ConsumerFits'
  <2>1. /\ block'[frontBlock].front = block[frontBlock].front
        /\ block'[frontBlock].localTail = block[frontBlock].localTail
        /\ frontBlock # tailBlock => Kept(block'[frontBlock]) = Kept(block[frontBlock])
    BY <1>3, <1>6, <1>10 DEF Reads
  <2> QED
    BY <1>1, <1>4, <2>1 DEF QueueInv, ConsumerFits, Pops
<1>18. SemaphoreFits'
  <2>1. Passed' = Passed /\ Sleeping' = Sleeping /\ Posting' = Posting /\ Posting = 0
        /\ Unsignalled = 0 /\ Unsignalled' = 1
        /\ (OwesOne' <=> OwesOne) /\ Passed \in {0, 1} /\ Sleeping \in {0, 1}
    BY <1>1, <1>4 DEF Passed, Pops, Sleeping, Posting, OwesOne, Unsignalled
  <2>2. given' - taken' = Unsignalled' + Passed' + count' + Sleeping'
    BY <1>1, <1>3, <2>1 DEF QueueInv, SemaphoreFits
  <2> QED
    BY <1>1, <1>4, <2>1, <2>2 DEF QueueInv, SemaphoreFits
<1> QED
  BY <1>11, <1>12, <1>14, <1>15, <1>16, <1>17, <1>18 DEF QueueInv

\* The three fields FillAhead writes.
LEMMA ReadsFilled ==
  ASSUME NEW r \in BlockRecords, NEW i \in Nat, NEW t \in Nat, NEW s \in Seq(Int)
  PROVE  Reads([r EXCEPT !.localFront = i, !.tail = t, !.data = s],
               r.front, r.localTail, t, i, r.next, s)
<1>1. PICK a : a = [r EXCEPT !.localFront = i]
  OBVIOUS
<1>2. Reads(a, r.front, r.localTail, r.tail, i, r.next, r.data)
  BY <1>1, ReadsLocalFront
<1>3. PICK b : b = [a EXCEPT !.tail = t]
  OBVIOUS
<1>4. Reads(b, a.front, a.localTail, t, a.localFront, a.next, a.data) /\ a \in BlockRecords
  BY <1>2, <1>3, ReadsTail DEF Reads
<1>5. PICK c : c = [b EXCEPT !.data = s]
  OBVIOUS
<1>6. Reads(c, b.front, b.localTail, b.tail, b.localFront, b.next, s)
  BY <1>4, <1>5, ReadsData DEF Reads
<1>7. Reads(c, r.front, r.localTail, t, i, r.next, s)
  BY <1>2, <1>4, <1>6, Zenon DEF Reads
<1>8. c = [r EXCEPT !.localFront = i, !.tail = t, !.data = s]
  BY <1>1, <1>3, <1>5, Zenon
<1> QED
  BY <1>7, <1>8

LEMMA FillAheadFits == ASSUME QueueInv, FillAhead PROVE QueueInv'
<1> DEFINE n == block[tailBlock].next
           r == block[n]
           i == After(n, r.tail)
           s == [r.data EXCEPT ![r.tail + 1] = given + 1]
           q == [r EXCEPT !.localFront = r.front, !.tail = i, !.data = s]
<1>1. /\ Produce("ahead", "advance")
      /\ UNCHANGED <<frontBlock, tailBlock, largestBlockSize, count, sema, given, taken, size>>
  BY DEF FillAhead
<1>2. block' = [block EXCEPT ![n] = q]
  BY Zenon DEF FillAhead
<1>3. prod.pc = "ahead" /\ prod'.pc = "advance" /\ cons' = cons /\ prod' \in ProducerRecords
  BY <1>1, ProduceIs DEF QueueInv, ProducerLabels
<1>4. /\ QueueTypes /\ frontBlock \in DOMAIN block /\ tailBlock \in DOMAIN block
      /\ n = Link(tailBlock) /\ n \in DOMAIN block /\ n # frontBlock
      /\ BlockFits(r) /\ r \in BlockRecords /\ given \in Nat /\ taken \in Nat /\ Kept(r) = 0
  <2>1. n = Link(tailBlock) /\ n \in DOMAIN block /\ n # frontBlock /\ Kept(r) = 0
    BY <1>3, InFront DEF Link
  <2> QED
    BY <2>1, FitsIs DEF QueueInv, QueueTypes
<1>5. i = Onward(r.tail, Slots(r)) /\ i \in Nat
  <2>1. i = (r.tail + 1) % Slots(r)
    BY DEF After, SlotsOf, Slots
  <2>2. r.tail \in Nat /\ r.tail < Slots(r) /\ Slots(r) \in Nat
    BY <1>4, FitsIs
  <2> QED
    BY <2>1, <2>2, OnwardIs
<1>6. s \in Seq(Int)
  <2>1. r.data \in Seq(Int) /\ r.tail \in Nat /\ r.tail < Len(r.data)
    BY <1>4, RecordIs, FitsIs DEF Slots
  <2>2. PICK d, j : d = r.data /\ j = r.tail
    OBVIOUS
  <2>3. d \in Seq(Int) /\ j \in Nat /\ j < Len(d)
    BY <2>1, <2>2
  <2>4. \A e \in Int : [d EXCEPT ![j + 1] = e] \in Seq(Int)
    BY <2>3
  <2> QED
    BY <1>4, <2>2, <2>4
<1>7. Reads(q, r.front, r.localTail, Onward(r.tail, Slots(r)), r.front, r.next, s)
  <2>1. r.front \in Nat
    BY <1>4, FitsIs
  <2> HIDE DEF s, i, n
  <2> QED
    BY <1>4, <1>5, <1>6, <2>1, ReadsFilled
<1> HIDE DEF q, i, n
<1>8. BlockFits(q) /\ Slots(q) = Slots(r) /\ Kept(q) = 1 /\ Holds(q, given, 0)
  BY <1>4, <1>7, BlockFilled
<1> HIDE DEF s
<1>9. Replaced(n, q)
  BY <1>2, <1>4, <1>8, ReplaceOne
<1>10. /\ DOMAIN block' = DOMAIN block /\ Len(block') = Len(block)
       /\ \A b \in DOMAIN block : /\ block'[b].next = block[b].next
                                  /\ Slots(block'[b]) = Slots(block[b])
       /\ \A b \in DOMAIN block \ {n} : block'[b] = block[b]
       /\ block'[n] = q
  BY <1>7, <1>8, <1>9 DEF Replaced, Reads
<1>11. QueueTypes'
  BY <1>1, <1>3, <1>4, <1>9 DEF QueueTypes, Replaced
<1>12. RingFits' /\ RoomFits'
  BY <1>1, <1>10, RingStays, RoomStays DEF QueueInv
<1>13. SizeFits'
  <2>1. SizeApprox \in Nat /\ SizeApprox' = SizeApprox + (Kept(block'[n]) - Kept(block[n]))
    BY <1>4, <1>10, <1>11, SizeChanges
  <2>2. PICK z, y : z \in Nat /\ z = SizeApprox /\ y = SizeApprox'
    BY <2>1
  <2>3. y = z + (1 - 0)
    BY <1>4, <1>8, <1>10, <2>1, <2>2
  <2>4. y = z + 1
    BY <2>2, <2>3
  <2>5. Removing' = Removing /\ Removing \in {0, 1}
    BY <1>3 DEF Removing
  <2>6. z = given - taken + Removing
    BY <1>3, <2>2, <2>5, <1>4 DEF QueueInv, SizeFits
  <2>7. y = given - taken + Removing + 1
    BY <1>4, <2>4, <2>5, <2>6
  <2> QED
    BY <1>1, <1>3, <2>2, <2>5, <2>7 DEF SizeFits
<1>14. PICK L \in SUBSET DOMAIN block, no \in [Nat -> Nat] : InUse(L, no) /\ NotInUse(L)
  BY DEF QueueInv, BlocksFit
<1>15. n \notin L /\ tailBlock \in L /\ frontBlock \in L
  BY <1>3, <1>4, <1>14 DEF InUse, NotInUse
<1>16. /\ \A b \in L : block'[b] = block[b] /\ Link(b)' = Link(b)
       /\ Link(tailBlock)' = n
  BY <1>1, <1>4, <1>10, <1>14, <1>15 DEF Link
<1>17. BlocksFit'
  <2>1. InUse(L, no)'
    <3>1. /\ frontBlock' \in L /\ tailBlock' \in L
          /\ \A b \in L \ {tailBlock'} : /\ Link(b)' \in L \ {frontBlock'}
                                         /\ no[Link(b)'] = no[b] + Kept(block'[b])
          /\ \A b \in L \ {frontBlock'} : /\ Kept(block'[b]) > 0
                                          /\ \E a \in L \ {tailBlock'} : Link(a)' = b
          /\ \A b \in L \ {frontBlock', tailBlock'} : Kept(block'[b]) = Slots(block'[b]) - 1
          /\ \A b \in L : no[b] + Kept(block'[b]) <= given'
          /\ no[frontBlock'] + Removing' = taken'
          /\ no[tailBlock'] + Kept(block'[tailBlock']) = given'
      BY <1>1, <1>3, <1>14, <1>16 DEF InUse, Removing
    <3>2. \A b \in L : Holds(block'[b], no[b], IF b = frontBlock' THEN Removing' ELSE 0)
      BY <1>1, <1>3, <1>14, <1>16 DEF InUse, Removing
    <3> QED
      BY <3>1, <3>2 DEF InUse
  <2>2. NotInUse(L)'
    <3>1. \A b \in DOMAIN block' \ L :
            Kept(block'[b]) = IF prod'.pc = "advance" /\ b = Link(tailBlock)' THEN 1 ELSE 0
      BY <1>3, <1>8, <1>10, <1>14, <1>16 DEF NotInUse
    <3> QED
      BY <1>1, <1>3, <1>8, <1>10, <1>15, <1>16, <3>1 DEF NotInUse
  <2> QED
    BY <1>10, <1>14, <2>1, <2>2 DEF BlocksFit
<1>18. ProducerFits'
  <2>1. block'[tailBlock] = block[tailBlock]
    BY <1>15, <1>16
  <2> QED
    BY <1>1, <1>3, <2>1 DEF QueueInv, ProducerFits
<1>19. ConsumerFits'
  <2>1. block'[frontBlock] = block[frontBlock]
    BY <1>15, <1>16
  <2> QED
    BY <1>1, <1>3, <2>1 DEF QueueInv, ConsumerFits, Pops
<1>20. SemaphoreFits'
  BY <1>1, <1>3 DEF QueueInv, SemaphoreFits, Unsignalled, Passed, Pops, Sleeping, Posting, OwesOne
<1> QED
  BY <1>11, <1>12, <1>13, <1>17, <1>18, <1>19, <1>20 DEF QueueInv

LEMMA AdvanceFits == ASSUME QueueInv, Advance PROVE QueueInv'
<1> DEFINE n == Link(tailBlock)
<1>1. /\ Produce("advance", "signal") /\ tailBlock' = n /\ given' = given + 1
      /\ UNCHANGED <<block, frontBlock, largestBlockSize, count, sema, taken, size>>
  BY DEF Advance, Link
<1>2. prod.pc = "advance" /\ prod'.pc = "signal" /\ cons' = cons /\ prod' \in ProducerRecords
  BY <1>1, ProduceIs DEF QueueInv, ProducerLabels
<1>3. /\ QueueTypes /\ frontBlock \in DOMAIN block /\ tailBlock \in DOMAIN block
      /\ n \in DOMAIN block /\ n # frontBlock
      /\ given \in Nat /\ taken \in Nat /\ count \in Int
  BY <1>2, InFront DEF QueueInv, QueueTypes
<1> HIDE DEF n
<1>4. QueueTypes'
  BY <1>1, <1>2, <1>3 DEF QueueTypes
<1>5. RingFits' /\ RoomFits'
  BY <1>1, RingStays, RoomStays DEF QueueInv
<1>6. SizeFits'
  <2>1. SizeApprox' = SizeApprox
    BY <1>1, <1>3, <1>4, SizeSame
  <2>2. Removing' = Removing /\ Removing \in {0, 1}
    BY <1>2 DEF Removing
  <2>3. SizeApprox = given - taken + Removing + 1
    BY <1>2 DEF QueueInv, SizeFits
  <2>4. SizeApprox = (given + 1) - taken + Removing + 0
    BY <1>3, <2>2, <2>3
  <2> QED
    BY <1>1, <1>2, <2>1, <2>2, <2>4 DEF SizeFits
<1>7. BlocksFit'
  <2>1. PICK L \in SUBSET DOMAIN block, no \in [Nat -> Nat] : InUse(L, no) /\ NotInUse(L)
    BY DEF QueueInv, BlocksFit
  <2>2. \A b \in DOMAIN block : /\ b \in Nat /\ no[b] \in Nat /\ Link(b)' = Link(b)
                                /\ Kept(block[b]) \in Nat
    <3>1. DOMAIN block \subseteq Nat
      <4>1. block \in Seq(BlockRecords)
        BY <1>3 DEF QueueTypes
      <4> QED
        BY <4>1
    <3>2. \A b \in DOMAIN block : Kept(block[b]) \in Nat
      BY <1>3, FitsIs DEF QueueTypes
    <3> QED
      BY <1>1, <2>1, <3>1, <3>2 DEF Link
  <2>3. /\ n \notin L /\ frontBlock \in L /\ tailBlock \in L /\ Kept(block[n]) = 1
        /\ Holds(block[n], given, 0)
    BY <1>2, <1>3, <2>1 DEF InUse, NotInUse, n
  <2>4. PICK M, m, t : M = L \cup {n} /\ m = [no EXCEPT ![n] = given] /\ t = n
    OBVIOUS
  <2>5. /\ M \in SUBSET DOMAIN block /\ m \in [Nat -> Nat] /\ m[n] = given
        /\ \A b \in L : m[b] = no[b]
    BY <1>3, <2>1, <2>2, <2>3, <2>4
  <2>6. no[tailBlock] + Kept(block[tailBlock]) = given /\ Link(tailBlock) = n
    BY <2>1 DEF InUse, n
  <2>7. InUse(M, m)'
    <3>1. /\ frontBlock' \in M /\ tailBlock' \in M
          /\ m[frontBlock'] + Removing' = taken'
      BY <1>1, <1>2, <2>1, <2>3, <2>4, <2>5 DEF InUse, Removing
    <3>2. \A b \in M \ {tailBlock'} : /\ Link(b)' \in M \ {frontBlock'}
                                      /\ m[Link(b)'] = m[b] + Kept(block'[b])
      <4> SUFFICES ASSUME NEW b \in L
                   PROVE  Link(b) \in M \ {frontBlock} /\ m[Link(b)] = m[b] + Kept(block[b])
        BY <1>1, <2>1, <2>2, <2>4
      <4>1. CASE b = tailBlock
        BY <1>3, <2>4, <2>5, <2>6, <4>1
      <4>2. CASE b # tailBlock
        BY <2>1, <2>4, <2>5, <4>2 DEF InUse
      <4> QED
        BY <4>1, <4>2
    <3>3. \A b \in M \ {frontBlock'} : /\ Kept(block'[b]) > 0
                                       /\ \E a \in M \ {tailBlock'} : Link(a)' = b
      <4> SUFFICES ASSUME NEW b \in M \ {frontBlock}
                   PROVE  Kept(block[b]) > 0 /\ \E a \in L : Link(a) = b
        BY <1>1, <2>1, <2>2, <2>3, <2>4
      <4>1. CASE b = n
        BY <2>3, <2>6, <4>1
      <4>2. CASE b # n
        BY <2>1, <2>4, <4>2 DEF InUse
      <4> QED
        BY <4>1, <4>2
    <3>4. \A b \in M \ {frontBlock', tailBlock'} : Kept(block'[b]) = Slots(block'[b]) - 1
      <4> SUFFICES ASSUME NEW b \in L \ {frontBlock} PROVE Kept(block[b]) = Slots(block[b]) - 1
        BY <1>1, <2>4
      <4>1. CASE b = tailBlock
        BY <1>2, <4>1 DEF QueueInv, ProducerFits
      <4>2. CASE b # tailBlock
        BY <2>1, <4>2 DEF InUse
      <4> QED
        BY <4>1, <4>2
    <3>5. \A b \in M : m[b] + Kept(block'[b]) <= given'
      <4> SUFFICES ASSUME NEW b \in M PROVE m[b] + Kept(block[b]) <= given + 1
        BY <1>1
      <4>1. CASE b = n
        BY <1>3, <2>3, <2>5, <4>1
      <4>2. CASE b # n
        <5>1. b \in L /\ no[b] + Kept(block[b]) <= given /\ no[b] \in Nat /\ Kept(block[b]) \in Nat
          BY <2>1, <2>2, <2>4, <4>2 DEF InUse
        <5> QED
          BY <1>3, <2>5, <5>1
      <4> QED
        BY <4>1, <4>2
    <3>6. m[tailBlock'] + Kept(block'[tailBlock']) = given'
      BY <1>1, <1>3, <2>3, <2>5
    <3>7. \A b \in M : Holds(block'[b], m[b], IF b = frontBlock' THEN Removing' ELSE 0)
      BY <1>1, <1>2, <1>3, <2>1, <2>3, <2>4, <2>5 DEF InUse, Removing
    <3> QED
      BY <3>1, <3>2, <3>3, <3>4, <3>5, <3>6, <3>7 DEF InUse
  <2>8. NotInUse(M)'
    <3>1. \A b \in DOMAIN block \ M : Kept(block[b]) = 0
      BY <2>1, <2>4, <2>6 DEF NotInUse
    <3> QED
      BY <1>1, <1>2, <3>1 DEF NotInUse
  <2> QED
    BY <1>1, <2>5, <2>7, <2>8 DEF BlocksFit
<1>8. ProducerFits'
  BY <1>2 DEF ProducerFits
<1>9. ConsumerFits'
  BY <1>1, <1>2, <1>3 DEF QueueInv, ConsumerFits, Pops
<1>10. SemaphoreFits'
  <2>1. Passed' = Passed /\ Sleeping' = Sleeping /\ Posting' = Posting /\ Posting = 0
        /\ Unsignalled = 0 /\ Unsignalled' = 1
        /\ (OwesOne' <=> OwesOne) /\ Passed \in {0, 1} /\ Sleeping \in {0, 1}
    BY <1>1, <1>2 DEF Passed, Pops, Sleeping, Posting, OwesOne, Unsignalled
  <2>2. given' - taken' = Unsignalled' + Passed' + count' + Sleeping'
    BY <1>1, <1>3, <2>1 DEF QueueInv, SemaphoreFits
  <2> QED
    BY <1>1, <1>2, <2>1, <2>2 DEF QueueInv, SemaphoreFits
<1> QED
  BY <1>4, <1>5, <1>6, <1>7, <1>8, <1>9, <1>10 DEF QueueInv

\* A block is linked in after the tail block, at the end of the blocks.
LEMMA LinkedIn ==
  ASSUME QueueTypes, RingFits, NEW c \in Nat, c >= 2, NEW m, m = Len(block) + 1,
         block' = Append([block EXCEPT ![tailBlock] = [block[tailBlock] EXCEPT !.next = m]],
                         Block(c, <<given + 1>>, Link(tailBlock)))
  PROVE  /\ DOMAIN block' = DOMAIN block \cup {m} /\ m \notin DOMAIN block /\ m \in Nat
         /\ Len(block') = Len(block) + 1 /\ Len(block) \in Nat
         /\ block' \in Seq(BlockRecords) /\ \A b \in DOMAIN block' : BlockFits(block'[b])
         /\ \A b \in DOMAIN block : b # tailBlock => block'[b] = block[b]
         /\ Reads(block'[tailBlock], block[tailBlock].front, block[tailBlock].localTail,
                  block[tailBlock].tail, block[tailBlock].localFront, m, block[tailBlock].data)
         /\ \A b \in DOMAIN block : /\ Kept(block'[b]) = Kept(block[b])
                                    /\ Slots(block'[b]) = Slots(block[b])
                                    /\ \A n, d : Holds(block[b], n, d) => Holds(block'[b], n, d)
         /\ Slots(block'[m]) = c /\ Kept(block'[m]) = 1 /\ Holds(block'[m], given, 0)
         /\ block'[m].next = Link(tailBlock)
<1>1. PICK r, n, q, e, bl :
        /\ r = block[tailBlock] /\ n = Link(tailBlock) /\ q = [r EXCEPT !.next = m]
        /\ e = Block(c, <<given + 1>>, n) /\ bl = [block EXCEPT ![tailBlock] = q]
  OBVIOUS
<1>2. block' = Append(bl, e)
  BY <1>1
<1>3. /\ block \in Seq(BlockRecords) /\ tailBlock \in DOMAIN block /\ given \in Nat
      /\ BlockFits(r) /\ r \in BlockRecords /\ n \in DOMAIN block
  BY <1>1, FitsIs DEF QueueTypes, RingFits
<1>4. n \in Nat /\ m \in Nat /\ m \notin DOMAIN block /\ Len(block) \in Nat
      /\ DOMAIN block = 1 .. Len(block)
  BY <1>3
<1>5. Reads(q, r.front, r.localTail, r.tail, r.localFront, m, r.data)
  BY <1>1, <1>3, <1>4, ReadsNext
<1>6. /\ Slots(q) = Slots(r) /\ Kept(q) = Kept(r)
      /\ \A k, d : Holds(r, k, d) => Holds(q, k, d)
  BY <1>5 DEF Reads, Slots, Kept, Holds
<1>7. BlockFits(q) /\ q \in BlockRecords
  BY <1>3, <1>5, <1>6 DEF BlockFits, Reads
<1>8. /\ BlockFits(e) /\ Slots(e) = c /\ Kept(e) = 1 /\ Holds(e, given, 0) /\ e.next = n
      /\ e \in BlockRecords
  BY <1>1, <1>3, <1>4, NewBlock, FitsIs, SMTT(30)
<1>9. /\ bl \in Seq(BlockRecords) /\ Len(bl) = Len(block) /\ DOMAIN bl = DOMAIN block
      /\ bl[tailBlock] = q /\ \A b \in DOMAIN block : b # tailBlock => bl[b] = block[b]
  BY <1>1, <1>3, <1>7
<1>10. /\ block' \in Seq(BlockRecords) /\ Len(block') = Len(block) + 1
       /\ DOMAIN block' = DOMAIN block \cup {m} /\ block'[m] = e
       /\ \A b \in DOMAIN block : block'[b] = bl[b]
  <2>1. /\ block' \in Seq(BlockRecords) /\ Len(block') = Len(bl) + 1
        /\ block'[Len(bl) + 1] = e /\ \A b \in 1 .. Len(bl) : block'[b] = bl[b]
    <3>1. PICK x, R : x = block' /\ R = BlockRecords
      OBVIOUS
    <3>2. x = Append(bl, e) /\ bl \in Seq(R) /\ e \in R
      BY <1>2, <1>8, <1>9, <3>1
    <3>3. x \in Seq(R) /\ Len(x) = Len(bl) + 1 /\ x[Len(bl) + 1] = e
          /\ \A b \in 1 .. Len(bl) : x[b] = bl[b]
      BY <3>2
    <3> QED
      BY <3>1, <3>3
  <2>2. DOMAIN block' = 1 .. Len(block) + 1
    BY <1>9, <2>1
  <2>3. 1 .. Len(block) + 1 = (1 .. Len(block)) \cup {Len(block) + 1}
    BY <1>4
  <2> QED
    BY <1>4, <1>9, <2>1, <2>2, <2>3
<1>11. \A b \in DOMAIN block' : BlockFits(block'[b])
  <2> SUFFICES ASSUME NEW b \in DOMAIN block' PROVE BlockFits(block'[b])
    OBVIOUS
  <2>1. CASE b = m
    BY <1>8, <1>10, <2>1
  <2>2. CASE b = tailBlock
    BY <1>3, <1>7, <1>9, <1>10, <2>2
  <2>3. CASE b \in DOMAIN block /\ b # tailBlock
    <3>1. block'[b] = block[b]
      BY <1>9, <1>10, <2>3
    <3>2. BlockFits(block[b])
      BY <2>3 DEF QueueTypes
    <3> QED
      BY <3>1, <3>2
  <2> QED
    BY <1>10, <2>1, <2>2, <2>3
<1>12. \A b \in DOMAIN block : /\ Kept(block'[b]) = Kept(block[b])
                               /\ Slots(block'[b]) = Slots(block[b])
                               /\ \A k, d : Holds(block[b], k, d) => Holds(block'[b], k, d)
  BY <1>1, <1>6, <1>9, <1>10
<1> QED
  BY <1>1, <1>3, <1>4, <1>5, <1>8, <1>9, <1>10, <1>11, <1>12

LEMMA GrowFits == ASSUME QueueInv, Grow PROVE QueueInv'
<1> DEFINE c == IF largestBlockSize >= MAX_BLOCK_SIZE THEN largestBlockSize ELSE largestBlockSize * 2
           m == Len(block) + 1
           n == Link(tailBlock)
<1>1. /\ Produce("grow", "advance") /\ largestBlockSize' = c
      /\ UNCHANGED <<frontBlock, tailBlock, count, sema, given, taken, size>>
  BY DEF Grow
<1>2. block' = Append([block EXCEPT ![tailBlock] = [block[tailBlock] EXCEPT !.next = m]],
                      Block(c, <<given + 1>>, n))
  BY Zenon DEF Grow, Link
<1>3. prod.pc = "grow" /\ prod'.pc = "advance" /\ cons' = cons /\ prod' \in ProducerRecords
  BY <1>1, ProduceIs DEF QueueInv, ProducerLabels
<1>4. /\ QueueTypes /\ RingFits /\ frontBlock \in DOMAIN block /\ tailBlock \in DOMAIN block
      /\ n \in DOMAIN block /\ given \in Nat /\ taken \in Nat /\ largestBlockSize \in Nat
      /\ largestBlockSize >= 2
  BY InFront DEF QueueInv, QueueTypes, RoomFits
<1>5. c \in Nat /\ c >= 2 /\ c >= largestBlockSize
      /\ (largestBlockSize >= MAX_BLOCK_SIZE => c = largestBlockSize)
  BY <1>4, QueueAssumption DEF QueueAssumption
<1> HIDE DEF c, m
<1>6. /\ DOMAIN block' = DOMAIN block \cup {m} /\ m \notin DOMAIN block /\ m \in Nat
      /\ Len(block') = Len(block) + 1 /\ Len(block) \in Nat
      /\ block' \in Seq(BlockRecords) /\ \A b \in DOMAIN block' : BlockFits(block'[b])
      /\ \A b \in DOMAIN block : b # tailBlock => block'[b] = block[b]
      /\ Reads(block'[tailBlock], block[tailBlock].front, block[tailBlock].localTail,
               block[tailBlock].tail, block[tailBlock].localFront, m, block[tailBlock].data)
      /\ \A b \in DOMAIN block : /\ Kept(block'[b]) = Kept(block[b])
                                 /\ Slots(block'[b]) = Slots(block[b])
                                 /\ \A k, d : Holds(block[b], k, d) => Holds(block'[b], k, d)
      /\ Slots(block'[m]) = c /\ Kept(block'[m]) = 1 /\ Holds(block'[m], given, 0)
      /\ block'[m].next = n
  BY <1>2, <1>4, <1>5, LinkedIn DEF m
<1> HIDE DEF n
<1>7. QueueTypes'
  BY <1>1, <1>3, <1>4, <1>5, <1>6 DEF QueueTypes
<1>8. PICK link : link = [b \in DOMAIN block' |-> block'[b].next]
  OBVIOUS
<1>9. /\ link[tailBlock] = m /\ link[m] = n
      /\ \A b \in DOMAIN block \ {tailBlock} : link[b] = Link(b)
      /\ \A b \in DOMAIN block' : Link(b)' = link[b]
  BY <1>4, <1>6, <1>8 DEF Reads, Link
<1>10. /\ \A b \in DOMAIN block : Link(b) \in DOMAIN block
       /\ \A a, b \in DOMAIN block : Link(a) = Link(b) => a = b
       /\ Link(tailBlock) = n
  BY DEF QueueInv, RingFits, n
<1>11. RingFits'
  <2>1. ASSUME NEW b \in DOMAIN block' PROVE link[b] \in DOMAIN block'
    <3>0. DOMAIN block' = DOMAIN block \cup {m}
      BY <1>6
    <3>1. CASE b = m
      BY <1>4, <1>9, <3>0, <3>1
    <3>2. CASE b = tailBlock
      BY <1>9, <3>0, <3>2
    <3>3. CASE b \in DOMAIN block /\ b # tailBlock
      BY <1>9, <1>10, <3>0, <3>3
    <3> QED
      BY <3>0, <3>1, <3>2, <3>3
  <2>2. ASSUME NEW a \in DOMAIN block', NEW b \in DOMAIN block', link[a] = link[b]
        PROVE  a = b
    <3>1. CASE a = m \/ b = m
      BY <1>4, <1>6, <1>9, <1>10, <2>2, <3>1
    <3>2. CASE a # m /\ b # m
      <4>1. a \in DOMAIN block /\ b \in DOMAIN block
        BY <1>6, <3>2
      <4>2. \A d \in DOMAIN block : link[d] = IF d = tailBlock THEN m ELSE Link(d)
        BY <1>9
      <4>3. CASE a = tailBlock \/ b = tailBlock
        <5>1. link[a] = m /\ link[b] = m
          BY <2>2, <4>1, <4>2, <4>3
        <5> QED
          BY <1>6, <1>10, <4>1, <4>2, <5>1
      <4>4. CASE a # tailBlock /\ b # tailBlock
        BY <1>10, <2>2, <4>1, <4>2, <4>4
      <4> QED
        BY <4>3, <4>4
    <3> QED
      BY <3>1, <3>2
  <2>3. ASSUME NEW C \in SUBSET DOMAIN block', C # {}, \A b \in C : link[b] \in C
        PROVE  C = DOMAIN block'
    <3> DEFINE B == C \ {m}
    <3>1. B \in SUBSET DOMAIN block
      BY <1>6
    <3>2. B # {}
      BY <1>4, <1>6, <1>9, <2>3
    <3>3. \A b \in B : Link(b) \in B
      <4> SUFFICES ASSUME NEW b \in B PROVE Link(b) \in B
        OBVIOUS
      <4>1. CASE b = tailBlock
        <5>1. m \in C
          BY <1>9, <2>3, <4>1
        <5>2. n \in C
          BY <1>9, <2>3, <5>1
        <5> QED
          BY <1>4, <1>6, <1>10, <4>1, <5>2
      <4>2. CASE b # tailBlock
        BY <1>6, <1>9, <1>10, <2>3, <3>1, <4>2
      <4> QED
        BY <4>1, <4>2
    <3>4. B = DOMAIN block
      BY <3>1, <3>2, <3>3 DEF QueueInv, RingFits
    <3>5. m \in C
      BY <1>4, <1>9, <2>3, <3>4
    <3> QED
      BY <1>6, <2>3, <3>4, <3>5
  <2> QED
    BY <1>9, <2>1, <2>2, <2>3 DEF RingFits
<1>12. RoomFits'
  <2>1. size \in Nat
    BY QueueAssumption DEF QueueInv, QueueTypes, QueueAssumption
  <2>2. CASE largestBlockSize > size /\ \A b \in DOMAIN block : Slots(block[b]) > size
    <3>1. c > size
      BY <1>4, <1>5, <2>1, <2>2
    <3> QED
      BY <1>1, <1>5, <1>6, <2>2, <3>1 DEF RoomFits
  <2>3. ASSUME largestBlockSize >= MAX_BLOCK_SIZE,
               \A b \in DOMAIN block : Slots(block[b]) >= MAX_BLOCK_SIZE,
               NEW k \in Nat, k < Len(block), size <= k * (MAX_BLOCK_SIZE - 1)
        PROVE  RoomFits'
    <3>1. c >= MAX_BLOCK_SIZE /\ k < Len(block) + 1
      BY <1>5, <1>6, <2>3
    <3>2. \A b \in DOMAIN block' : Slots(block'[b]) >= MAX_BLOCK_SIZE
      BY <1>6, <2>3, <3>1
    <3>3. \E j \in Nat : j < Len(block') /\ size' <= j * (MAX_BLOCK_SIZE - 1)
      BY <1>1, <1>6, <2>3, <3>1
    <3> QED
      BY <1>1, <1>5, <3>1, <3>2, <3>3 DEF RoomFits
  <2> QED
    BY <2>2, <2>3 DEF QueueInv, RoomFits
<1>13. SizeFits'
  <2>1. SizeIsSum
    BY <1>4, SizeIs
  <2>2. SizeIsSum'
    BY <1>7, SizeIs, PTL
  <2>3. PICK f, e, S, T : f = KeptOf /\ e = KeptOf' /\ S = DOMAIN block /\ T = DOMAIN block'
    OBVIOUS
  <2>4. /\ IsFiniteSet(S) /\ m \notin S /\ T = S \cup {m}
        /\ \A y \in S : f[y] \in Nat /\ e[y] = f[y]
        /\ \A y \in S \cup {m} : e[y] \in Int
        /\ e[m] = 1
    BY <1>6, <2>1, <2>2, <2>3 DEF SizeIsSum
  <2>5. SumFunctionOnSet(e, S \cup {m}) = SumFunctionOnSet(e, S) + e[m]
    BY <2>4, SumWith
  <2>6. SumFunctionOnSet(e, S) = SumFunctionOnSet(f, S)
    BY <2>4, SumSame
  <2>7. SumFunctionOnSet(f, S) \in Nat
    BY <2>4, SumNat
  <2>8. SizeApprox = SumFunctionOnSet(f, S) /\ SizeApprox' = SumFunctionOnSet(e, T)
    BY <2>1, <2>2, <2>3 DEF SizeIsSum
  <2>9. PICK z \in Nat : z = SizeApprox /\ SizeApprox' = z + 1
    BY <2>4, <2>5, <2>6, <2>7, <2>8
  <2>10. Removing' = Removing /\ Removing \in {0, 1}
    BY <1>3 DEF Removing
  <2>11. z = given - taken + Removing
    BY <1>3, <1>4, <2>9, <2>10 DEF QueueInv, SizeFits
  <2>12. z + 1 = given - taken + Removing + 1
    BY <1>4, <2>10, <2>11
  <2> QED
    BY <1>1, <1>3, <2>9, <2>10, <2>12 DEF SizeFits
<1>14. BlocksFit'
  <2>1. PICK L \in SUBSET DOMAIN block, no \in [Nat -> Nat] : InUse(L, no) /\ NotInUse(L)
    BY DEF QueueInv, BlocksFit
  <2>2. m \notin L /\ tailBlock \in L /\ frontBlock \in L
    BY <1>6, <2>1 DEF InUse
  <2>3. \A b \in L \ {tailBlock} : Link(b)' = Link(b)
    BY <1>6, <1>9, <2>1
  <2>4. \A b \in L : Kept(block'[b]) = Kept(block[b]) /\ Slots(block'[b]) = Slots(block[b])
    BY <1>6, <2>1
  <2>5. InUse(L, no)'
    <3>1. /\ frontBlock' \in L /\ tailBlock' \in L
          /\ \A b \in L \ {tailBlock'} : /\ Link(b)' \in L \ {frontBlock'}
                                         /\ no[Link(b)'] = no[b] + Kept(block'[b])
          /\ \A b \in L \ {frontBlock', tailBlock'} : Kept(block'[b]) = Slots(block'[b]) - 1
          /\ \A b \in L : no[b] + Kept(block'[b]) <= given'
          /\ no[frontBlock'] + Removing' = taken'
          /\ no[tailBlock'] + Kept(block'[tailBlock']) = given'
      BY <1>1, <1>3, <2>1, <2>3, <2>4 DEF InUse, Removing
    <3>2. \A b \in L \ {frontBlock'} : /\ Kept(block'[b]) > 0
                                       /\ \E a \in L \ {tailBlock'} : Link(a)' = b
      BY <1>1, <2>1, <2>3, <2>4 DEF InUse
    <3>3. \A b \in L : Holds(block'[b], no[b], IF b = frontBlock' THEN Removing' ELSE 0)
      BY <1>1, <1>3, <1>6, <2>1 DEF InUse, Removing
    <3> QED
      BY <3>1, <3>2, <3>3 DEF InUse
  <2>6. NotInUse(L)'
    <3>1. Link(tailBlock)' = m /\ tailBlock' = tailBlock
      BY <1>1, <1>4, <1>6, <1>9
    <3>2. \A b \in DOMAIN block' \ L :
            Kept(block'[b]) = IF prod'.pc = "advance" /\ b = Link(tailBlock)' THEN 1 ELSE 0
      BY <1>3, <1>6, <2>1, <3>1 DEF NotInUse
    <3> QED
      BY <1>1, <1>3, <1>6, <2>2, <3>1, <3>2 DEF NotInUse
  <2>7. L \in SUBSET DOMAIN block'
    BY <1>6, <2>1
  <2> QED
    BY <2>1, <2>5, <2>6, <2>7 DEF BlocksFit
<1>15. ProducerFits'
  BY <1>1, <1>3, <1>4, <1>6 DEF QueueInv, ProducerFits
<1>16. ConsumerFits'
  <2>1. /\ block'[frontBlock].front = block[frontBlock].front
        /\ block'[frontBlock].localTail = block[frontBlock].localTail
        /\ Kept(block'[frontBlock]) = Kept(block[frontBlock])
    BY <1>4, <1>6 DEF Reads
  <2> QED
    BY <1>1, <1>3, <2>1 DEF QueueInv, ConsumerFits, Pops
<1>17. SemaphoreFits'
  BY <1>1, <1>3 DEF QueueInv, SemaphoreFits, Unsignalled, Passed, Pops, Sleeping, Posting, OwesOne
<1> QED
  BY <1>7, <1>11, <1>12, <1>13, <1>14, <1>15, <1>16, <1>17 DEF QueueInv

-----------------------------------------------------------------------------
(* The constructor's ring.                                                 *)

\* Who goes round to the next of n and takes what is met comes by all.
LEMMA AllRound ==
  ASSUME NEW n \in Nat, NEW C \in SUBSET (1 .. n), C # {},
         \A b \in C : (IF b = n THEN 1 ELSE b + 1) \in C
  PROVE  C = 1 .. n
<1>1. ASSUME NEW a \in C, NEW e \in 1 .. n, a <= e, e \notin C PROVE FALSE
  <2> DEFINE T == {x \in 1 .. n : a <= x /\ x \notin C}
  <2>1. T \in SUBSET Nat /\ T # {}
    BY <1>1
  <2>2. PICK k \in T : \A x \in T : k <= x
    BY <2>1, LeastNumber
  <2>3. k \in 1 .. n /\ a <= k /\ k \notin C /\ a # k /\ a \in 1 .. n
    BY <2>2
  <2>4. k - 1 \in 1 .. n /\ a <= k - 1 /\ k - 1 # n /\ ~ (k <= k - 1)
    BY <2>3
  <2>5. k - 1 \in C
    BY <2>2, <2>4
  <2>6. k \in C
    BY <2>3, <2>4, <2>5
  <2> QED
    BY <2>3, <2>6
<1>2. n \in C /\ n \in 1 .. n
  <2>1. PICK a \in C : a \in 1 .. n
    OBVIOUS
  <2>2. n \in 1 .. n /\ a <= n
    BY <2>1
  <2> QED
    BY <1>1, <2>2
<1>3. 1 \in C
  BY <1>2
<1>4. \A e \in 1 .. n : 1 <= e
  OBVIOUS
<1> QED
  BY <1>1, <1>3, <1>4

\* Blocks that hold n elements while another is read from.
LEMMA BlockCountIs ==
  ASSUME NEW s \in Nat, s >= 1
  PROVE  /\ BlockCount(s) \in Nat /\ BlockCount(s) >= 2
         /\ s <= (BlockCount(s) - 1) * (MAX_BLOCK_SIZE - 1)
<1>1. PICK c \in Nat : c = MAX_BLOCK_SIZE - 1 /\ c >= 1
  BY QueueAssumption DEF QueueAssumption
<1>2. MAX_BLOCK_SIZE = c + 1
  BY <1>1, QueueAssumption DEF QueueAssumption
<1>3. PICK a \in Nat : a = s + (c + 1) * 2 - 3 /\ a = s + 2 * c - 1
  BY <1>1
<1>4. BlockCount(s) = a \div c
  BY <1>1, <1>2, <1>3 DEF BlockCount
<1>5. PICK q \in Nat : q = a \div c /\ a < c * (q + 1)
  BY <1>1, <1>3
<1>6. c * (q + 1) = (q - 1) * c + 2 * c
  BY <1>1, <1>5
<1>7. s - 1 < (q - 1) * c
  <2>1. PICK z \in Int : z = (q - 1) * c
    BY <1>1, <1>5
  <2>2. s + 2 * c - 1 < z + 2 * c
    BY <1>3, <1>5, <1>6, <2>1
  <2> QED
    BY <2>1, <2>2
<1>8. s <= (q - 1) * c
  <2>1. PICK z \in Int : z = (q - 1) * c
    BY <1>1, <1>5
  <2> QED
    BY <1>7, <2>1
<1>9. q >= 2
  <2>1. ASSUME q <= 1 PROVE FALSE
    <3>1. q = 0 \/ q = 1
      BY <1>5, <2>1
    <3>2. (q - 1) * c <= 0
      BY <1>1, <3>1
    <3> QED
      BY <1>1, <1>5, <1>8, <3>2
  <2> QED
    BY <1>5, <2>1
<1> QED
  BY <1>1, <1>4, <1>5, <1>8, <1>9

\* What the constructor makes.
LEMMA StartBlocks ==
  ASSUME NEW s \in Sizes
  PROVE  \E n \in Nat, c \in Nat :
           /\ n >= 1 /\ c >= 2
           /\ Blocks(s) = [b \in 1 .. n |-> Block(c, <<>>, IF b = n THEN 1 ELSE b + 1)]
           /\ s < c \/ (c = MAX_BLOCK_SIZE /\ s <= (n - 1) * (MAX_BLOCK_SIZE - 1))
<1>1. s \in Nat /\ s >= 1 /\ CeilToPow2(s + 1) \in s + 1 .. 2 * s + 1
      /\ MAX_BLOCK_SIZE \in Nat /\ MAX_BLOCK_SIZE >= 2
  BY QueueAssumption DEF QueueAssumption
<1>2. CASE CeilToPow2(s + 1) <= MAX_BLOCK_SIZE * 2
  <2>1. PICK c \in Nat : c = CeilToPow2(s + 1) /\ c >= 2 /\ s < c
    BY <1>1
  <2>2. Blocks(s) = <<Block(c, <<>>, 1)>>
    BY <1>2, <2>1 DEF Blocks
  <2>3. <<Block(c, <<>>, 1)>> = [b \in 1 .. 1 |-> Block(c, <<>>, IF b = 1 THEN 1 ELSE b + 1)]
    OBVIOUS
  <2> QED
    BY <2>1, <2>2, <2>3
<1>3. CASE ~ (CeilToPow2(s + 1) <= MAX_BLOCK_SIZE * 2)
  <2>1. PICK n \in Nat : n = BlockCount(s) /\ n >= 2 /\ s <= (n - 1) * (MAX_BLOCK_SIZE - 1)
    BY <1>1, BlockCountIs
  <2>2. \A b \in 1 .. n : (b % n) + 1 = IF b = n THEN 1 ELSE b + 1
    BY <2>1
  <2>3. Blocks(s) = [b \in 1 .. n |-> Block(MAX_BLOCK_SIZE, <<>>, (b % n) + 1)]
    BY <1>3, <2>1 DEF Blocks
  <2>4. Blocks(s) = [b \in 1 .. n |-> Block(MAX_BLOCK_SIZE, <<>>, IF b = n THEN 1 ELSE b + 1)]
    BY <2>2, <2>3
  <2> QED
    BY <1>1, <2>1, <2>4
<1> QED
  BY <1>2, <1>3

LEMMA InitFits == QueueInit => QueueInv
<1> SUFFICES ASSUME QueueInit PROVE QueueInv
  OBVIOUS
<1>1. /\ size \in Sizes /\ block = Blocks(size) /\ frontBlock = 1 /\ tailBlock = 1
      /\ largestBlockSize = Slots(block[1]) /\ count = 0 /\ sema = 0
      /\ prod = [pc |-> "idle", alloc |-> TRUE, room |-> TRUE]
      /\ cons = [pc |-> "idle", op |-> "try", el |-> None] /\ given = 0 /\ taken = 0
  BY DEF QueueInit, SlotsOf, Slots
<1>2. PICK n \in Nat, c \in Nat :
        /\ n >= 1 /\ c >= 2
        /\ block = [b \in 1 .. n |-> Block(c, <<>>, IF b = n THEN 1 ELSE b + 1)]
        /\ size < c \/ (c = MAX_BLOCK_SIZE /\ size <= (n - 1) * (MAX_BLOCK_SIZE - 1))
  BY <1>1, StartBlocks
<1>3. \A b \in 1 .. n : /\ BlockFits(block[b]) /\ Slots(block[b]) = c /\ Kept(block[b]) = 0
                        /\ Holds(block[b], 0, 0) /\ block[b].next = IF b = n THEN 1 ELSE b + 1
  <2> SUFFICES ASSUME NEW b \in 1 .. n
               PROVE  /\ BlockFits(block[b]) /\ Slots(block[b]) = c /\ Kept(block[b]) = 0
                      /\ Holds(block[b], 0, 0) /\ block[b].next = IF b = n THEN 1 ELSE b + 1
    OBVIOUS
  <2>1. PICK m \in Nat : m = IF b = n THEN 1 ELSE b + 1
    OBVIOUS
  <2>2. block[b] = Block(c, <<>>, m)
    BY <1>2, <2>1
  <2> QED
    BY <1>2, <2>1, <2>2, EmptyBlock
<1>4. /\ DOMAIN block = 1 .. n /\ 1 \in 1 .. n /\ block \in Seq(BlockRecords) /\ Len(block) = n
  <2>1. \A b \in 1 .. n : block[b] \in BlockRecords
    BY <1>3, FitsIs
  <2>2. DOMAIN block = 1 .. n
    BY <1>2
  <2>3. block \in Seq(BlockRecords)
    <3>1. block = [b \in 1 .. n |-> block[b]]
      BY <1>2
    <3>2. block \in [1 .. n -> BlockRecords]
      BY <2>1, <3>1
    <3> QED
      BY <3>2
  <2> QED
    BY <1>2, <2>2, <2>3
<1>5. QueueTypes
  <2>1. /\ prod \in ProducerRecords /\ cons \in ConsumerRecords
    BY <1>1 DEF ProducerRecords, ConsumerRecords, ProducerLabels, ConsumerLabels, None
  <2> QED
    BY <1>1, <1>2, <1>3, <1>4, <2>1 DEF QueueTypes
<1>6. RingFits
  <2>1. \A b \in 1 .. n : Link(b) = IF b = n THEN 1 ELSE b + 1
    BY <1>3 DEF Link
  <2>2. \A b \in 1 .. n : Link(b) \in 1 .. n
    BY <1>2, <2>1
  <2>3. \A a, b \in 1 .. n : Link(a) = Link(b) => a = b
    BY <1>2, <2>1
  <2>4. ASSUME NEW C \in SUBSET (1 .. n), C # {}, \A b \in C : Link(b) \in C PROVE C = 1 .. n
    <3>1. \A b \in C : (IF b = n THEN 1 ELSE b + 1) \in C
      BY <2>1, <2>4
    <3> QED
      BY <2>4, <3>1, AllRound
  <2> QED
    BY <1>4, <2>2, <2>3, <2>4 DEF RingFits
<1>7. BlocksFit
  <2> DEFINE no == [i \in Nat |-> 0]
  <2>1. no \in [Nat -> Nat] /\ no[1] = 0 /\ {1} \in SUBSET DOMAIN block
    BY <1>4
  <2>2. Kept(block[1]) = 0 /\ Holds(block[1], 0, 0)
    BY <1>3, <1>4
  <2> HIDE DEF no
  <2>3. Removing = 0 /\ prod.pc = "idle"
    BY <1>1 DEF Removing
  <2>4. InUse({1}, no)
    BY <1>1, <2>1, <2>2, <2>3 DEF InUse
  <2>5. NotInUse({1})
    BY <1>3, <1>4, <2>3 DEF NotInUse
  <2> QED
    BY <2>1, <2>4, <2>5 DEF BlocksFit
<1>8. ProducerFits /\ ConsumerFits
  BY <1>1 DEF ProducerFits, ConsumerFits, Pops, None
<1>9. SemaphoreFits
  BY <1>1 DEF SemaphoreFits, Unsignalled, Passed, Pops, Sleeping, Posting, OwesOne
<1>10. SizeFits
  <2>1. SizeIsSum
    BY <1>5, SizeIs
  <2>2. PICK f, S : f = KeptOf /\ S = DOMAIN block
    OBVIOUS
  <2>3. IsFiniteSet(S) /\ (\A x \in S : f[x] = 0) /\ SizeApprox = SumFunctionOnSet(f, S)
    BY <1>3, <1>4, <2>1, <2>2 DEF SizeIsSum
  <2>4. SizeApprox = 0
    BY <2>3, SumOfZeros
  <2> QED
    BY <1>1, <2>4 DEF SizeFits, Removing
<1>11. RoomFits
  <2>1. largestBlockSize = c
    BY <1>1, <1>3, <1>4
  <2>2. CASE size < c
    <3>1. size \in Nat
      BY <1>1, QueueAssumption DEF QueueAssumption
    <3> QED
      BY <1>2, <1>3, <1>4, <2>1, <2>2, <3>1 DEF RoomFits
  <2>3. CASE c = MAX_BLOCK_SIZE /\ size <= (n - 1) * (MAX_BLOCK_SIZE - 1)
    <3>1. n - 1 \in Nat /\ n - 1 < Len(block)
      BY <1>2, <1>4
    <3>2. \E k \in Nat : k < Len(block) /\ size <= k * (MAX_BLOCK_SIZE - 1)
      BY <2>3, <3>1
    <3>3. MAX_BLOCK_SIZE \in Nat /\ MAX_BLOCK_SIZE >= 2 /\ largestBlockSize = MAX_BLOCK_SIZE
      BY <2>1, <2>3, QueueAssumption DEF QueueAssumption
    <3>4. \A b \in DOMAIN block : Slots(block[b]) >= MAX_BLOCK_SIZE
      BY <1>3, <1>4, <2>3, <3>3
    <3> QED
      BY <3>2, <3>3, <3>4 DEF RoomFits
  <2> QED
    BY <1>2, <2>2, <2>3
<1> QED
  BY <1>5, <1>6, <1>7, <1>8, <1>9, <1>10, <1>11 DEF QueueInv

-----------------------------------------------------------------------------
(* The theorems.                                                           *)

\* Every step of either thread keeps the invariant.
LEMMA QueueStep == QueueInv /\ [QueueNext]_queueVars => QueueInv'
<1> SUFFICES ASSUME QueueInv, [QueueNext]_queueVars PROVE QueueInv'
  OBVIOUS
<1>1. CASE \E alloc \in BOOLEAN : Enqueue(alloc)
  BY <1>1, EnqueueFits
<1>2. CASE Producing
  <2>1. CASE Construct \/ Publish \/ LookAhead \/ FillAhead
    BY <2>1, ConstructFits, PublishFits, LookAheadFits, FillAheadFits
  <2>2. CASE Grow \/ Refuse \/ Advance \/ SignalCount \/ SignalSema
    BY <2>2, GrowFits, RefuseFits, AdvanceFits, SignalCountFits, SignalSemaFits
  <2> QED
    BY <1>2, <2>1, <2>2 DEF Producing
<1>3. CASE \E op \in {"try", "wait", "timed", "pop", "peek"} : CallDequeue(op)
  BY <1>3, CallDequeueFits
<1>4. CASE TimeOut
  BY <1>4, TimeOutFits
<1>5. CASE Consuming
  <2>1. CASE LoadCount \/ Spin \/ Decrement \/ Subtract \/ Wake \/ Undo \/ Redo \/ TryAgain
    BY <2>1, LoadCountFits, SpinFits, DecrementFits, SubtractFits, WakeFits, UndoFits, RedoFits,
       TryAgainFits
  <2>2. CASE Look \/ LookBehind \/ Recheck \/ NextBlock
    BY <2>2, LookFits, LookBehindFits, RecheckFits, NextBlockFits
  <2>3. CASE Remove \/ Release \/ Peek
    BY <2>3, RemoveFits, ReleaseFits, PeekFits
  <2> QED
    BY <1>5, <2>1, <2>2, <2>3 DEF Consuming
<1>6. CASE UNCHANGED queueVars
  <2>1. UNCHANGED <<queue, count, sema, prod, cons, given, taken, size>>
    BY <1>6 DEF queueVars
  <2>2. Looks /\ Removing' = Removing
    BY <2>1 DEF Looks, Removing, queue, AheadIsFree
  <2>3. /\ ProducerFits' /\ ConsumerFits' /\ SemaphoreFits' /\ count' \in Int /\ sema' \in Nat
        /\ prod' \in ProducerRecords /\ cons' \in ConsumerRecords
    <3>1. ProducerFits /\ ConsumerFits /\ SemaphoreFits /\ QueueTypes
      BY DEF QueueInv
    <3>2. ProducerFits'
      BY <2>1, <3>1 DEF ProducerFits, queue
    <3>3. ConsumerFits'
      BY <2>1, <3>1 DEF ConsumerFits, queue, Pops, Kept, Slots, Apart
    <3>4. SemaphoreFits'
      BY <2>1, <3>1 DEF SemaphoreFits, Unsignalled, Passed, Sleeping, Posting, OwesOne, Pops
    <3> QED
      BY <2>1, <3>1, <3>2, <3>3, <3>4 DEF QueueTypes
  <2> QED
    BY <2>1, <2>2, <2>3, UnmovedFits
<1> QED
  BY <1>1, <1>2, <1>3, <1>4, <1>5, <1>6 DEF QueueNext

\* The invariant holds in every state, whatever the number of elements and the sizes
\* of the blocks.
THEOREM QueueInvariant == QueueSpec => []QueueInv
BY InitFits, QueueStep, PTL DEF QueueSpec

\* The elements come out in the order they went in, and no assert of the headers fails
\* (readerwriterqueue.h:337, 402, 453, 574, 825, 841, 860, 898; atomicops.h:655).
THEOREM ElementsInOrder == QueueSpec => []Fifo
<1>1. QueueInv => Fifo
  <2> SUFFICES ASSUME QueueInv PROVE Fifo
    OBVIOUS
  <2>1. /\ taken <= given /\ cons.pc # "failed"
        /\ cons.el # None => cons.el = IF cons.op = "peek" THEN taken + 1 ELSE taken
    BY InFront DEF QueueInv, ConsumerFits
  <2>2. ASSUME prod.pc = "ahead" PROVE block[Link(tailBlock)].front = block[Link(tailBlock)].tail
    <3>1. PICK L \in SUBSET DOMAIN block, no \in [Nat -> Nat] : InUse(L, no) /\ NotInUse(L)
      BY DEF QueueInv, BlocksFit
    <3>2. Link(tailBlock) \in DOMAIN block /\ Link(tailBlock) \notin L
      BY <2>2, <3>1, InFront DEF NotInUse
    <3>3. Kept(block[Link(tailBlock)]) = 0
      BY <2>2, <3>1, <3>2 DEF NotInUse
    <3>4. BlockFits(block[Link(tailBlock)])
      BY <3>2 DEF QueueInv, QueueTypes
    <3> QED
      BY <3>3, <3>4, FitsIs DEF Kept, Apart
  <2>3. ASSUME cons.pc = "next" PROVE block[Link(frontBlock)].front # block[Link(frontBlock)].tail
    <3>1. Link(frontBlock) \in DOMAIN block /\ Kept(block[Link(frontBlock)]) > 0
      BY <2>3, InFront DEF QueueInv, ConsumerFits
    <3>2. BlockFits(block[Link(frontBlock)])
      BY <3>1 DEF QueueInv, QueueTypes
    <3> QED
      BY <3>1, <3>2, FitsIs DEF Kept, Apart
  <2>4. count >= -1
    <3>1. count \in Int /\ count + Sleeping >= 0
      BY DEF QueueInv, QueueTypes, SemaphoreFits
    <3> QED
      BY <3>1 DEF Sleeping
  <2>5. AssertsHold
    BY <2>1, <2>2, <2>3, <2>4 DEF AssertsHold, Link
  <2> QED
    BY <2>1, <2>5 DEF Fifo
<1> QED
  BY <1>1, QueueInvariant, PTL

\* The constructor's promise (readerwriterqueue.h:86): for fewer than size elements no
\* block is allocated and no try_enqueue refused.
THEOREM SizeIsRoom == QueueSpec => []HoldsSize
<1>1. QueueInv => HoldsSize
  BY DEF QueueInv, ProducerFits, HoldsSize
<1> QED
  BY <1>1, QueueInvariant, PTL

\* Between the calls the blocks, the count and the kernel's semaphore agree, after
\* however many timeouts (atomicops.h:608-612).
THEOREM SizesStayEqual == QueueSpec => []SizesAgree
<1>1. QueueInv => SizesAgree
  <2> SUFFICES ASSUME QueueInv, prod.pc = "idle", cons.pc = "idle"
               PROVE  SizeApprox = given - taken /\ AvailableApprox = SizeApprox /\ sema = 0
    BY DEF SizesAgree
  <2>1. /\ count \in Int /\ sema \in Nat /\ given \in Nat /\ taken \in Nat
        /\ SizeApprox = given - taken + Removing + (IF prod.pc = "advance" THEN 1 ELSE 0)
    BY DEF QueueInv, QueueTypes, SizeFits
  <2>2. Removing = 0 /\ Unsignalled = 0 /\ Passed = 0 /\ Sleeping = 0 /\ Posting = 0 /\ ~ OwesOne
    BY DEF Removing, Unsignalled, Passed, Sleeping, Posting, OwesOne
  <2>3. SizeApprox = given - taken
    BY <2>1, <2>2
  <2>4. given - taken = count /\ count >= 0 /\ sema = 0
    BY <2>1, <2>2 DEF QueueInv, SemaphoreFits
  <2>5. AvailableApprox = count
    BY <2>1, <2>4 DEF AvailableApprox
  <2> QED
    BY <2>3, <2>4, <2>5
<1> QED
  BY <1>1, QueueInvariant, PTL
=============================================================================
