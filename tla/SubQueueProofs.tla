--------------------------- MODULE SubQueueProofs ---------------------------
(***************************************************************************)
(* Theorems about the queue of a producer without a token: ImplicitProducer *)
(* with the counters and blocks of SubQueue, for any number of consumers,  *)
(* any sizes of blocks, bulks and index, and whichever calls fail.         *)
(*                                                                         *)
(* First the counters: of what is reserved but not claimed, as much as was *)
(* found to be there is there for all.  Then the elements: blocks are      *)
(* numbered in the order they are entered, so that element i is in the block *)
(* with number Num(i), and the entries from some number to the latest are in *)
(* every block index, one after the other, where a consumer expects them,  *)
(* though the index is replaced while it looks.  A block leaves its entry  *)
(* only when all its elements were taken.                                  *)
(***************************************************************************)
EXTENDS ImplicitProducer, SumTheorems, SequenceTheorems, FunctionTheorems

-----------------------------------------------------------------------------
(* Reserving and claiming, in either kind of queue.                        *)

Before == {"idle", "overcommit", "check", "reserve", "reload", "give", "claim"}
After  == {"locate", "key", "front", "take", "empty", "unlist", "free"}

TakerCalls ==
  [pc : Before \cup After, n : Nat, tail : Nat, over : Nat, mine : Nat, back : Nat,
   at : Nat, end : Nat, index : Nat, slot : Nat, block : Nat, got : Seq(Nat)]

ClaimTypes ==
  /\ tailIndex \in Nat /\ headIndex \in Nat
  /\ dequeueOptimisticCount \in Nat /\ dequeueOvercommit \in Nat
  /\ cons \in [Takers -> TakerCalls]

\* What a consumer has reserved and not claimed or given back, and of that what
\* it knows to be there.
Held(r)    == IF r.pc = "give" THEN r.n + r.back
              ELSE IF r.pc \in {"reload", "claim"} THEN r.n ELSE 0
Granted(r) == IF r.pc \in {"give", "claim"} THEN r.n ELSE 0

\* What one that reserved m has to reckon with from another: what that one may
\* claim for sure, or may find to be there, having reserved before.
AheadOf(m, r) == IF r.pc \in {"give", "claim"} \/ (r.pc = "reload" /\ r.mine < m) THEN r.n ELSE 0

SumHeld     == SumFunctionOnSet([c \in Takers |-> Held(cons[c])], Takers)
SumGranted  == SumFunctionOnSet([c \in Takers |-> Granted(cons[c])], Takers)
SumAhead(m) == SumFunctionOnSet([c \in Takers |-> AheadOf(m, cons[c])], Takers)

\* The optimistic counts are what was claimed, and what is reserved.
CountsMatch == dequeueOptimisticCount = dequeueOvercommit + headIndex + SumHeld

\* What consumers have found to be there is there for all of them.
GrantsFit == headIndex + SumGranted <= tailIndex

\* A consumer at the second look at the tail: either all before it are within
\* what it reckons with, or another that reserved later found that it, too, has
\* room.
ReserveFits(c) ==
  \/ cons[c].mine - cons[c].over >= headIndex + SumAhead(cons[c].mine)
  \/ headIndex + SumAhead(cons[c].mine) + cons[c].n <= tailIndex

\* What a record tells of its counters, in each step.
CallFits(r) ==
  /\ r.pc \in {"check", "reserve", "reload"} => r.over <= dequeueOvercommit
  /\ r.pc \in {"overcommit", "check", "reserve", "reload", "claim"} => r.n > 0
  /\ r.pc = "reload" => r.mine + r.n <= dequeueOptimisticCount

ReservedApart ==
  \A c, d \in Takers : cons[c].pc = "reload" /\ cons[d].pc = "reload" /\ c # d
    => cons[c].mine # cons[d].mine

ClaimsInv ==
  /\ ClaimTypes /\ CountsMatch /\ GrantsFit /\ ReservedApart
  /\ \A c \in Takers : CallFits(cons[c])
  /\ \A c \in Takers : cons[c].pc = "reload" => ReserveFits(c)

-----------------------------------------------------------------------------

LEMMA TakersFinite == IsFiniteSet(Takers)
BY SubQueueFits DEF SubQueueAssumption

LEMMA MinOfTwo ==
  ASSUME NEW a \in Int, NEW b \in Int
  PROVE  Min({a, b}) = IF a <= b THEN a ELSE b
<1>1. \A x \in {a, b} : (\A y \in {a, b} : x <= y) <=> x = IF a <= b THEN a ELSE b
  OBVIOUS
<1> QED
  BY <1>1 DEF Min

LEMMA MaxOfTwo ==
  ASSUME NEW a \in Int, NEW b \in Int
  PROVE  Max({a, b}) = IF a <= b THEN b ELSE a
<1>1. \A x \in {a, b} : (\A y \in {a, b} : x >= y) <=> x = IF a <= b THEN b ELSE a
  OBVIOUS
<1> QED
  BY <1>1 DEF Max

LEMMA AmountTypes ==
  ASSUME NEW r \in TakerCalls, NEW m \in Nat
  PROVE  /\ Held(r) \in Nat /\ Granted(r) \in Nat /\ AheadOf(m, r) \in Nat
         /\ Granted(r) <= AheadOf(m, r) /\ AheadOf(m, r) <= Held(r)
BY DEF TakerCalls, Held, Granted, AheadOf

\* The sums when one consumer has moved.
LEMMA SumsMove ==
  ASSUME ClaimTypes, NEW c \in Takers, NEW r \in TakerCalls, cons' = [cons EXCEPT ![c] = r]
  PROVE  /\ SumHeld' = SumHeld + Held(r) - Held(cons[c])
         /\ SumGranted' = SumGranted + Granted(r) - Granted(cons[c])
         /\ \A m \in Nat : SumAhead(m)' = SumAhead(m) + AheadOf(m, r) - AheadOf(m, cons[c])
<1>1. /\ \A d \in Takers : cons[d] \in TakerCalls
      /\ cons'[c] = r /\ \A d \in Takers : d # c => cons'[d] = cons[d]
  BY DEF ClaimTypes
<1>2. SumHeld' = SumHeld + Held(r) - Held(cons[c])
  <2> DEFINE f == [d \in Takers |-> Held(cons[d])]
             g == [d \in Takers |-> Held(cons'[d])]
  <2>1. /\ \A d \in Takers : f[d] \in Int /\ g[d] \in Int /\ (d # c => g[d] = f[d])
        /\ g[c] = Held(r) /\ f[c] = Held(cons[c])
    BY <1>1, AmountTypes
  <2>2. SumFunctionOnSet(f, Takers) \in Int
    <3> HIDE DEF f, g
    <3> QED
      BY <2>1, SumType, TakersFinite
  <2>3. SumFunctionOnSet(g, Takers) = SumFunctionOnSet(f, Takers) + (g[c] - f[c])
    <3> HIDE DEF f, g
    <3> QED
      BY <2>1, SumChange, TakersFinite
  <2>4. SumHeld = SumFunctionOnSet(f, Takers) /\ SumHeld' = SumFunctionOnSet(g, Takers)
    BY DEF SumHeld, Held
  <2> QED
    BY <2>1, <2>2, <2>3, <2>4
<1>3. SumGranted' = SumGranted + Granted(r) - Granted(cons[c])
  <2> DEFINE f == [d \in Takers |-> Granted(cons[d])]
             g == [d \in Takers |-> Granted(cons'[d])]
  <2>1. /\ \A d \in Takers : f[d] \in Int /\ g[d] \in Int /\ (d # c => g[d] = f[d])
        /\ g[c] = Granted(r) /\ f[c] = Granted(cons[c])
    BY <1>1, AmountTypes
  <2>2. SumFunctionOnSet(f, Takers) \in Int
    <3> HIDE DEF f, g
    <3> QED
      BY <2>1, SumType, TakersFinite
  <2>3. SumFunctionOnSet(g, Takers) = SumFunctionOnSet(f, Takers) + (g[c] - f[c])
    <3> HIDE DEF f, g
    <3> QED
      BY <2>1, SumChange, TakersFinite
  <2>4. SumGranted = SumFunctionOnSet(f, Takers) /\ SumGranted' = SumFunctionOnSet(g, Takers)
    BY DEF SumGranted, Granted
  <2> QED
    BY <2>1, <2>2, <2>3, <2>4
<1>4. ASSUME NEW m \in Nat
      PROVE  SumAhead(m)' = SumAhead(m) + AheadOf(m, r) - AheadOf(m, cons[c])
  <2> DEFINE f == [d \in Takers |-> AheadOf(m, cons[d])]
             g == [d \in Takers |-> AheadOf(m, cons'[d])]
  <2>1. /\ \A d \in Takers : f[d] \in Int /\ g[d] \in Int /\ (d # c => g[d] = f[d])
        /\ g[c] = AheadOf(m, r) /\ f[c] = AheadOf(m, cons[c])
    BY <1>1, AmountTypes
  <2>2. SumFunctionOnSet(f, Takers) \in Int
    <3> HIDE DEF f, g
    <3> QED
      BY <2>1, SumType, TakersFinite
  <2>3. SumFunctionOnSet(g, Takers) = SumFunctionOnSet(f, Takers) + (g[c] - f[c])
    <3> HIDE DEF f, g
    <3> QED
      BY <2>1, SumChange, TakersFinite
  <2>4. SumAhead(m) = SumFunctionOnSet(f, Takers) /\ SumAhead(m)' = SumFunctionOnSet(g, Takers)
    BY DEF SumAhead, AheadOf
  <2> QED
    BY <2>1, <2>2, <2>3, <2>4
<1> QED
  BY <1>2, <1>3, <1>4

\* How the sums compare.
LEMMA SumsCompare ==
  ASSUME ClaimTypes, NEW m \in Nat
  PROVE  /\ SumHeld \in Nat /\ SumGranted \in Nat /\ SumAhead(m) \in Nat
         /\ SumGranted <= SumAhead(m) /\ SumAhead(m) <= SumHeld
<1> DEFINE f == [d \in Takers |-> Held(cons[d])]
           g == [d \in Takers |-> Granted(cons[d])]
           h == [d \in Takers |-> AheadOf(m, cons[d])]
<1>1. \A d \in Takers : f[d] \in Nat /\ g[d] \in Nat /\ h[d] \in Nat /\ g[d] <= h[d] /\ h[d] <= f[d]
  BY AmountTypes DEF ClaimTypes
<1>2. SumHeld = SumFunctionOnSet(f, Takers) /\ SumGranted = SumFunctionOnSet(g, Takers)
      /\ SumAhead(m) = SumFunctionOnSet(h, Takers)
  BY DEF SumHeld, SumGranted, SumAhead
<1> HIDE DEF f, g, h
<1>3. /\ SumFunctionOnSet(f, Takers) \in Nat /\ SumFunctionOnSet(g, Takers) \in Nat
      /\ SumFunctionOnSet(h, Takers) \in Nat
  BY <1>1, SumNat, TakersFinite
<1>4. /\ SumFunctionOnSet(g, Takers) <= SumFunctionOnSet(h, Takers)
      /\ SumFunctionOnSet(h, Takers) <= SumFunctionOnSet(f, Takers)
  <2>1. \A d \in Takers : f[d] \in Int /\ g[d] \in Int /\ h[d] \in Int /\ g[d] <= h[d] /\ h[d] <= f[d]
    BY <1>1
  <2> QED
    BY <2>1, SumMonotone, TakersFinite
<1> QED
  BY <1>2, <1>3, <1>4

\* Who reserved before is reckoned with as a whole.
LEMMA AheadInOrder ==
  ASSUME ClaimTypes, NEW c \in Takers, NEW d \in Takers,
         cons[c].pc = "reload", cons[d].pc = "reload", cons[d].mine < cons[c].mine
  PROVE  SumAhead(cons[d].mine) + cons[d].n <= SumAhead(cons[c].mine)
<1> DEFINE f == [e \in Takers |-> AheadOf(cons[d].mine, cons[e])]
           g == [f EXCEPT ![d] = cons[d].n]
           h == [e \in Takers |-> AheadOf(cons[c].mine, cons[e])]
<1>1. /\ \A e \in Takers : cons[e] \in TakerCalls
      /\ cons[d].n \in Nat /\ cons[d].mine \in Nat /\ cons[c].mine \in Nat
      /\ \A e \in Takers : cons[e].pc \in Before \cup After /\ cons[e].mine \in Nat /\ cons[e].n \in Nat
  BY DEF ClaimTypes, TakerCalls
<1>2. /\ f \in [Takers -> Int] /\ f[d] = 0 /\ cons[d].n \in Int
      /\ SumAhead(cons[d].mine) = SumFunctionOnSet(f, Takers)
      /\ SumAhead(cons[c].mine) = SumFunctionOnSet(h, Takers)
  <2>1. \A e \in Takers : AheadOf(cons[d].mine, cons[e]) \in Nat
    BY <1>1, AmountTypes
  <2>2. AheadOf(cons[d].mine, cons[d]) = 0
    BY <1>1 DEF AheadOf
  <2> QED
    BY <1>1, <2>1, <2>2 DEF SumAhead
<1>3. \A e \in Takers : g[e] \in Int /\ h[e] \in Int /\ g[e] <= h[e]
  <2>1. ASSUME NEW e \in Takers PROVE g[e] \in Int /\ h[e] \in Int /\ g[e] <= h[e]
    <3>1. CASE e = d
      BY <1>1, <3>1 DEF AheadOf
    <3>2. CASE e # d
      BY <1>1, <3>2 DEF AheadOf
    <3> QED
      BY <3>1, <3>2
  <2> QED
    BY <2>1
<1> HIDE DEF f, h
<1>4. SumFunctionOnSet(g, Takers) = SumFunctionOnSet(f, Takers) + (cons[d].n - f[d])
  BY <1>2, SumUpdate, TakersFinite
<1>5. SumFunctionOnSet(f, Takers) \in Int
  BY <1>2, SumType, TakersFinite
<1> HIDE DEF g
<1>6. SumFunctionOnSet(g, Takers) <= SumFunctionOnSet(h, Takers)
  BY <1>3, SumMonotone, TakersFinite
<1> QED
  BY <1>1, <1>2, <1>4, <1>5, <1>6

\* A step of one consumer that keeps the balance, takes nothing out of turn and
\* does not begin or end a reservation.
LEMMA ClaimStep ==
  ASSUME ClaimsInv, NEW c \in Takers, NEW r \in TakerCalls, cons' = [cons EXCEPT ![c] = r],
         ClaimTypes', tailIndex' = tailIndex, r.pc # "reload", cons[c].pc # "reload",
         dequeueOptimisticCount' = dequeueOptimisticCount, dequeueOvercommit' >= dequeueOvercommit,
         dequeueOvercommit' + headIndex' + Held(r) = dequeueOvercommit + headIndex + Held(cons[c]),
         headIndex' + Granted(r) = headIndex + Granted(cons[c]),
         CallFits(r)'
  PROVE  ClaimsInv'
<1>1. /\ ClaimTypes /\ cons[c] \in TakerCalls /\ cons'[c] = r
      /\ \A d \in Takers : d # c => cons'[d] = cons[d]
      /\ \A d \in Takers : cons[d] \in TakerCalls
      /\ headIndex \in Nat /\ headIndex' \in Nat /\ tailIndex \in Nat
      /\ dequeueOptimisticCount \in Nat /\ dequeueOvercommit \in Nat /\ dequeueOvercommit' \in Nat
  BY DEF ClaimsInv, ClaimTypes
<1>2. /\ Held(r) \in Nat /\ Held(cons[c]) \in Nat /\ Granted(r) \in Nat /\ Granted(cons[c]) \in Nat
      /\ \A m \in Nat : AheadOf(m, r) = Granted(r) /\ AheadOf(m, cons[c]) = Granted(cons[c])
  <2>1. 0 \in Nat
    OBVIOUS
  <2>2. \A m \in Nat : AheadOf(m, r) = Granted(r) /\ AheadOf(m, cons[c]) = Granted(cons[c])
    BY DEF AheadOf, Granted
  <2> QED
    BY <1>1, <2>1, <2>2, AmountTypes
<1>3. /\ SumHeld' = SumHeld + Held(r) - Held(cons[c]) /\ SumHeld \in Nat
      /\ SumGranted' = SumGranted + Granted(r) - Granted(cons[c]) /\ SumGranted \in Nat
  <2>1. 0 \in Nat
    OBVIOUS
  <2> QED
    BY <1>1, <2>1, SumsMove, SumsCompare
<1>4. \A m \in Nat : SumAhead(m) \in Nat /\ headIndex' + SumAhead(m)' = headIndex + SumAhead(m)
  <2>1. ASSUME NEW m \in Nat
        PROVE  SumAhead(m) \in Nat /\ headIndex' + SumAhead(m)' = headIndex + SumAhead(m)
    <3>1. SumAhead(m) \in Nat /\ SumAhead(m)' = SumAhead(m) + AheadOf(m, r) - AheadOf(m, cons[c])
      BY <1>1, SumsMove, SumsCompare
    <3>2. AheadOf(m, r) = Granted(r) /\ AheadOf(m, cons[c]) = Granted(cons[c])
      BY <1>2
    <3> QED
      BY <1>1, <1>2, <3>1, <3>2
  <2> QED
    BY <2>1
<1>5. CountsMatch'
  BY <1>1, <1>2, <1>3 DEF ClaimsInv, CountsMatch
<1>6. GrantsFit'
  BY <1>1, <1>2, <1>3 DEF ClaimsInv, GrantsFit
<1>7. ReservedApart'
  BY <1>1 DEF ClaimsInv, ReservedApart
<1>8. \A d \in Takers : CallFits(cons[d])'
  <2>1. ASSUME NEW d \in Takers, d # c PROVE CallFits(cons[d])'
    <3>1. CallFits(cons[d]) /\ cons[d].over \in Nat
      BY <1>1 DEF ClaimsInv, TakerCalls
    <3> QED
      BY <1>1, <2>1, <3>1 DEF CallFits
  <2>2. CallFits(cons[c])'
    BY <1>1 DEF CallFits
  <2> QED
    BY <2>1, <2>2
<1>9. ASSUME NEW d \in Takers, cons'[d].pc = "reload" PROVE ReserveFits(d)'
  <2>1. d # c /\ cons'[d] = cons[d] /\ cons[d].mine \in Nat
    BY <1>1, <1>9 DEF TakerCalls
  <2>2. ReserveFits(d)
    BY <1>9, <2>1 DEF ClaimsInv
  <2>3. headIndex' + SumAhead(cons[d].mine)' = headIndex + SumAhead(cons[d].mine)
    BY <1>4, <2>1
  <2> QED
    BY <2>1, <2>2, <2>3 DEF ReserveFits, SumAhead, AheadOf
<1> QED
  BY <1>5, <1>6, <1>7, <1>8, <1>9 DEF ClaimsInv

LEMMA TakerFacts ==
  ASSUME ClaimTypes, NEW c \in Takers
  PROVE  /\ cons[c] \in TakerCalls
         /\ cons[c].n \in Nat /\ cons[c].tail \in Nat /\ cons[c].over \in Nat
         /\ cons[c].mine \in Nat /\ cons[c].back \in Nat
BY DEF ClaimTypes, TakerCalls

LEMMA IdleTaker == IdleConsumer \in TakerCalls
BY DEF TakerCalls, IdleConsumer, Before, After

LEMMA LoadTailClaims ==
  ASSUME ClaimsInv, NEW c \in Takers, NEW max \in Asks, LoadTail(c, max)
  PROVE  ClaimsInv'
<1>1. PICK r : r = [IdleConsumer EXCEPT !.pc = "overcommit", !.n = max, !.tail = tailIndex]
  OBVIOUS
<1>2. max \in Nat /\ max > 0
  BY <1>1, SubQueueFits DEF SubQueueAssumption
<1>3. ClaimTypes /\ tailIndex \in Nat /\ cons[c].pc = "idle" /\ cons' = [cons EXCEPT ![c] = r]
      /\ UNCHANGED <<headIndex, dequeueOptimisticCount, dequeueOvercommit, tailIndex>>
  BY <1>1 DEF ClaimsInv, ClaimTypes, LoadTail, Does, counters
<1>4. r \in TakerCalls /\ r.pc = "overcommit" /\ r.n = max
  <2>1. r = [pc |-> "overcommit", n |-> max, tail |-> tailIndex, over |-> 0, mine |-> 0,
             back |-> 0, at |-> 0, end |-> 0, index |-> 0, slot |-> 0, block |-> 0, got |-> <<>>]
    BY <1>1 DEF IdleConsumer
  <2> QED
    BY <1>2, <1>3, <2>1 DEF TakerCalls, Before
<1>5. Held(r) = 0 /\ Granted(r) = 0 /\ Held(cons[c]) = 0 /\ Granted(cons[c]) = 0 /\ CallFits(r)'
  BY <1>1, <1>2, <1>3, <1>4 DEF Held, Granted, CallFits
<1>6. ClaimTypes'
  BY <1>1, <1>3, <1>4 DEF ClaimTypes
<1> QED
  <2>1. dequeueOvercommit \in Nat /\ headIndex \in Nat /\ r.pc # "reload" /\ cons[c].pc # "reload"
    BY <1>3, <1>4 DEF ClaimTypes
  <2>2. /\ tailIndex' = tailIndex /\ dequeueOptimisticCount' = dequeueOptimisticCount
        /\ dequeueOvercommit' >= dequeueOvercommit
        /\ dequeueOvercommit' + headIndex' + Held(r) = dequeueOvercommit + headIndex + Held(cons[c])
        /\ headIndex' + Granted(r) = headIndex + Granted(cons[c])
    BY <1>3, <1>5, <2>1
  <2> QED
    BY <1>1, <1>3, <1>4, <1>5, <1>6, <2>1, <2>2, ClaimStep

LEMMA LoadOvercommitClaims ==
  ASSUME ClaimsInv, NEW c \in Takers, LoadOvercommit(c)
  PROVE  ClaimsInv'
<1>1. PICK r : r = [cons[c] EXCEPT !.pc = "check", !.over = dequeueOvercommit]
  OBVIOUS
<1>2. ClaimTypes /\ cons[c].pc = "overcommit" /\ cons' = [cons EXCEPT ![c] = r]
      /\ UNCHANGED <<headIndex, dequeueOptimisticCount, dequeueOvercommit, tailIndex>>
  BY <1>1 DEF ClaimsInv, LoadOvercommit, Does, counters
<1>3. /\ r \in TakerCalls /\ r.pc = "check" /\ r.n = cons[c].n /\ r.over = dequeueOvercommit
      /\ dequeueOvercommit \in Nat /\ headIndex \in Nat
  BY <1>1, <1>2, TakerFacts, ZenonT(30) DEF ClaimTypes, TakerCalls, Before, After
<1>4. Held(r) = 0 /\ Granted(r) = 0 /\ Held(cons[c]) = 0 /\ Granted(cons[c]) = 0 /\ CallFits(r)'
  BY <1>1, <1>2, <1>3 DEF Held, Granted, CallFits, ClaimsInv
<1>5. ClaimTypes'
  BY <1>1, <1>2, <1>3 DEF ClaimTypes
<1> QED
  <2>1. dequeueOvercommit \in Nat /\ headIndex \in Nat /\ r.pc # "reload" /\ cons[c].pc # "reload"
    BY <1>2, <1>3 DEF ClaimTypes
  <2>2. /\ tailIndex' = tailIndex /\ dequeueOptimisticCount' = dequeueOptimisticCount
        /\ dequeueOvercommit' >= dequeueOvercommit
        /\ dequeueOvercommit' + headIndex' + Held(r) = dequeueOvercommit + headIndex + Held(cons[c])
        /\ headIndex' + Granted(r) = headIndex + Granted(cons[c])
    BY <1>2, <1>4, <2>1
  <2> QED
    BY <1>1, <1>2, <1>3, <1>4, <1>5, <2>1, <2>2, ClaimStep

LEMMA CheckClaims ==
  ASSUME ClaimsInv, NEW c \in Takers, Check(c)
  PROVE  ClaimsInv'
<1>1. PICK d \in Int : d = cons[c].tail - (dequeueOptimisticCount - cons[c].over)
  BY TakerFacts DEF ClaimsInv, ClaimTypes
<1>2. PICK n \in Int : n = Min({d, cons[c].n}) /\ n = IF d <= cons[c].n THEN d ELSE cons[c].n
  BY <1>1, MinOfTwo, TakerFacts DEF ClaimsInv
<1>3. PICK r : r = IF d > 0 THEN [cons[c] EXCEPT !.pc = "reserve", !.n = n, !.tail = 0]
                ELSE IdleConsumer
  OBVIOUS
<1>4. ClaimTypes /\ cons[c].pc = "check" /\ cons' = [cons EXCEPT ![c] = r]
      /\ UNCHANGED <<headIndex, dequeueOptimisticCount, dequeueOvercommit, tailIndex>>
  BY <1>3, <1>1, <1>2 DEF ClaimsInv, Check, Does, counters
<1>5. cons[c].n > 0 /\ cons[c].over <= dequeueOvercommit /\ cons[c].n \in Nat
  BY <1>3, <1>4, TakerFacts DEF ClaimsInv, CallFits
<1>6. /\ r \in TakerCalls /\ r.pc \in {"reserve", "idle"}
      /\ r.pc = "reserve" => r.n > 0 /\ r.over = cons[c].over
      /\ dequeueOvercommit \in Nat /\ headIndex \in Nat
  <2>1. CASE d > 0
    <3>1. n \in Nat /\ n > 0
      BY <1>3, <1>2, <1>5, <2>1
    <3> QED
      BY <1>3, <2>1, <3>1, <1>4, TakerFacts, ZenonT(30) DEF ClaimTypes, TakerCalls, Before, After
  <2>2. CASE ~ (d > 0)
    BY <1>3, <2>2, <1>4, IdleTaker DEF ClaimTypes, IdleConsumer
  <2> QED
    BY <1>3, <2>1, <2>2
<1>7. Held(r) = 0 /\ Granted(r) = 0 /\ Held(cons[c]) = 0 /\ Granted(cons[c]) = 0 /\ CallFits(r)'
  BY <1>3, <1>4, <1>5, <1>6 DEF Held, Granted, CallFits
<1>8. ClaimTypes'
  BY <1>3, <1>4, <1>6 DEF ClaimTypes
<1> QED
  <2>1. dequeueOvercommit \in Nat /\ headIndex \in Nat /\ r.pc # "reload" /\ cons[c].pc # "reload"
    BY <1>4, <1>6 DEF ClaimTypes
  <2>2. /\ tailIndex' = tailIndex /\ dequeueOptimisticCount' = dequeueOptimisticCount
        /\ dequeueOvercommit' >= dequeueOvercommit
        /\ dequeueOvercommit' + headIndex' + Held(r) = dequeueOvercommit + headIndex + Held(cons[c])
        /\ headIndex' + Granted(r) = headIndex + Granted(cons[c])
    BY <1>4, <1>7, <2>1
  <2> QED
    BY <1>3, <1>4, <1>6, <1>7, <1>8, <2>1, <2>2, ClaimStep

LEMMA GiveBackClaims ==
  ASSUME ClaimsInv, NEW c \in Takers, GiveBack(c)
  PROVE  ClaimsInv'
<1>1. PICK r : r = IF cons[c].n > 0 THEN [cons[c] EXCEPT !.pc = "claim", !.back = 0]
                ELSE IdleConsumer
  OBVIOUS
<1>2. ClaimTypes /\ cons[c].pc = "give" /\ cons' = [cons EXCEPT ![c] = r]
      /\ UNCHANGED <<headIndex, dequeueOptimisticCount, tailIndex>>
      /\ dequeueOvercommit' = dequeueOvercommit + cons[c].back
  BY <1>1 DEF ClaimsInv, GiveBack, Does
<1>3. /\ r \in TakerCalls /\ r.pc \in {"claim", "idle"}
      /\ r.pc = "claim" => r.n = cons[c].n /\ cons[c].n > 0
      /\ r.pc = "idle" => cons[c].n = 0
      /\ dequeueOvercommit \in Nat /\ headIndex \in Nat
      /\ cons[c].n \in Nat /\ cons[c].back \in Nat
  <2>1. CASE cons[c].n > 0
    BY <1>1, <2>1, <1>2, TakerFacts, ZenonT(30) DEF ClaimTypes, TakerCalls, Before, After
  <2>2. CASE ~ (cons[c].n > 0)
    BY <1>1, <2>2, <1>2, IdleTaker, TakerFacts DEF ClaimTypes, IdleConsumer
  <2> QED
    BY <1>1, <2>1, <2>2
<1>4. Held(r) = cons[c].n /\ Granted(r) = cons[c].n /\ Held(cons[c]) = cons[c].n + cons[c].back
      /\ Granted(cons[c]) = cons[c].n /\ CallFits(r)'
  BY <1>1, <1>2, <1>3 DEF Held, Granted, CallFits
<1>5. ClaimTypes'
  BY <1>1, <1>2, <1>3 DEF ClaimTypes
<1> QED
  <2>1. /\ r.pc # "reload" /\ cons[c].pc # "reload" /\ dequeueOvercommit' >= dequeueOvercommit
        /\ dequeueOvercommit' + headIndex' + Held(r) = dequeueOvercommit + headIndex + Held(cons[c])
        /\ headIndex' + Granted(r) = headIndex + Granted(cons[c])
    BY <1>1, <1>2, <1>3, <1>4
  <2> QED
    BY <1>1, <1>2, <1>3, <1>4, <1>5, <2>1, ClaimStep

LEMMA ClaimClaims ==
  ASSUME ClaimsInv, NEW c \in Takers, Claim(c)
  PROVE  ClaimsInv'
<1>1. PICK r : r = [cons[c] EXCEPT !.pc = "locate", !.n = 0,
                   !.at = headIndex, !.end = headIndex + cons[c].n]
  OBVIOUS
<1>2. ClaimTypes /\ cons[c].pc = "claim" /\ cons' = [cons EXCEPT ![c] = r]
      /\ UNCHANGED <<dequeueOptimisticCount, dequeueOvercommit, tailIndex>>
      /\ headIndex' = headIndex + cons[c].n
  BY <1>1 DEF ClaimsInv, Claim, Does
<1>3. /\ r \in TakerCalls /\ r.pc = "locate"
      /\ dequeueOvercommit \in Nat /\ headIndex \in Nat /\ cons[c].n \in Nat
  <2>1. /\ cons[c] \in TakerCalls /\ cons[c].n \in Nat
        /\ dequeueOvercommit \in Nat /\ headIndex \in Nat
    BY <1>2, TakerFacts DEF ClaimTypes
  <2>2. headIndex + cons[c].n \in Nat /\ "locate" \in Before \cup After
    BY <2>1 DEF After
  <2> QED
    BY <1>1, <2>1, <2>2 DEF TakerCalls
<1>4. Held(r) = 0 /\ Granted(r) = 0 /\ Held(cons[c]) = cons[c].n
      /\ Granted(cons[c]) = cons[c].n /\ CallFits(r)'
  BY <1>1, <1>2, <1>3 DEF Held, Granted, CallFits
<1>5. ClaimTypes'
  BY <1>1, <1>2, <1>3 DEF ClaimTypes
<1> QED
  <2>1. /\ r.pc # "reload" /\ cons[c].pc # "reload" /\ dequeueOvercommit' >= dequeueOvercommit
        /\ dequeueOvercommit' + headIndex' + Held(r) = dequeueOvercommit + headIndex + Held(cons[c])
        /\ headIndex' + Granted(r) = headIndex + Granted(cons[c])
    BY <1>1, <1>2, <1>3, <1>4
  <2> QED
    BY <1>1, <1>2, <1>3, <1>4, <1>5, <2>1, ClaimStep

\* A reservation is made: what the consumer reckons with holds all that was
\* reserved before.
LEMMA ReserveClaims ==
  ASSUME ClaimsInv, NEW c \in Takers, Reserve(c)
  PROVE  ClaimsInv'
<1>1. PICK r : r = [cons[c] EXCEPT !.pc = "reload", !.mine = dequeueOptimisticCount]
  OBVIOUS
<1>2. /\ ClaimTypes /\ cons[c].pc = "reserve" /\ cons' = [cons EXCEPT ![c] = r]
      /\ headIndex' = headIndex /\ dequeueOvercommit' = dequeueOvercommit /\ tailIndex' = tailIndex
      /\ dequeueOptimisticCount' = dequeueOptimisticCount + cons[c].n
  BY <1>1 DEF ClaimsInv, Reserve, Does
<1>3. /\ tailIndex \in Nat /\ headIndex \in Nat /\ dequeueOptimisticCount \in Nat
      /\ dequeueOvercommit \in Nat /\ cons[c] \in TakerCalls /\ cons[c].n \in Nat
      /\ cons[c].over \in Nat
  BY <1>2, TakerFacts DEF ClaimTypes
<1>4. /\ r \in TakerCalls /\ r.pc = "reload" /\ r.mine = dequeueOptimisticCount
      /\ r.n = cons[c].n /\ r.over = cons[c].over
  BY <1>1, <1>3 DEF TakerCalls, Before
<1>5. cons[c].n > 0 /\ cons[c].over <= dequeueOvercommit
  BY <1>2 DEF ClaimsInv, CallFits
<1>6. ClaimTypes' /\ cons'[c] = r /\ \A d \in Takers : d # c => cons'[d] = cons[d]
  BY <1>2, <1>3, <1>4 DEF ClaimTypes
<1>7. /\ Held(r) = cons[c].n /\ Held(cons[c]) = 0 /\ Granted(r) = 0 /\ Granted(cons[c]) = 0
      /\ \A m \in Nat : AheadOf(m, cons[c]) = 0
      /\ \A m \in Nat : m <= dequeueOptimisticCount => AheadOf(m, r) = 0
  BY <1>2, <1>3, <1>4 DEF Held, Granted, AheadOf
<1>8. /\ SumHeld \in Nat /\ SumHeld' = SumHeld + cons[c].n
      /\ SumGranted \in Nat /\ SumGranted' = SumGranted
      /\ \A m \in Nat : m <= dequeueOptimisticCount =>
           SumAhead(m) \in Nat /\ SumAhead(m)' = SumAhead(m) /\ SumAhead(m) <= SumHeld
  <2>1. /\ SumHeld' = SumHeld + Held(r) - Held(cons[c])
        /\ SumGranted' = SumGranted + Granted(r) - Granted(cons[c])
        /\ \A m \in Nat : SumAhead(m)' = SumAhead(m) + AheadOf(m, r) - AheadOf(m, cons[c])
    BY <1>2, <1>4, SumsMove
  <2>2. /\ SumHeld \in Nat /\ SumGranted \in Nat
        /\ \A m \in Nat : SumAhead(m) \in Nat /\ SumAhead(m) <= SumHeld
    BY <1>2, <1>3, SumsCompare
  <2>3. /\ SumHeld' = SumHeld + cons[c].n /\ SumGranted' = SumGranted
    BY <1>3, <1>7, <2>1, <2>2
  <2>4. ASSUME NEW m \in Nat, m <= dequeueOptimisticCount PROVE SumAhead(m)' = SumAhead(m)
    BY <1>7, <2>1, <2>2, <2>4
  <2> QED
    BY <2>2, <2>3, <2>4
<1>9. CountsMatch' /\ GrantsFit'
  BY <1>2, <1>3, <1>8 DEF ClaimsInv, CountsMatch, GrantsFit
<1>10. \A d \in Takers : d # c /\ cons[d].pc = "reload"
         => cons[d].mine \in Nat /\ cons[d].mine < dequeueOptimisticCount
  BY <1>2, <1>3, TakerFacts DEF ClaimsInv, CallFits
<1>11. ReservedApart'
  BY <1>2, <1>4, <1>6, <1>10 DEF ClaimsInv, ReservedApart
<1>12. \A d \in Takers : CallFits(cons[d])'
  <2>1. ASSUME NEW d \in Takers, d # c PROVE CallFits(cons[d])'
    <3>1. CallFits(cons[d]) /\ cons'[d] = cons[d] /\ cons[d].mine \in Nat /\ cons[d].n \in Nat
      BY <1>2, <1>6, <2>1, TakerFacts DEF ClaimsInv
    <3> QED
      BY <1>2, <1>3, <3>1 DEF CallFits
  <2>2. CallFits(cons[c])'
    BY <1>2, <1>3, <1>4, <1>5, <1>6 DEF CallFits
  <2> QED
    BY <2>1, <2>2
<1>13. ASSUME NEW d \in Takers, cons'[d].pc = "reload" PROVE ReserveFits(d)'
  <2>1. CASE d # c
    <3>1. cons'[d] = cons[d] /\ cons[d].mine \in Nat /\ cons[d].mine <= dequeueOptimisticCount
      BY <1>3, <1>6, <1>10, <1>13, <2>1
    <3>2. ReserveFits(d) /\ SumAhead(cons[d].mine)' = SumAhead(cons[d].mine)
      <4>1. PICK m \in Nat : m = cons[d].mine
        BY <3>1
      <4>2. SumAhead(m)' = SumAhead(m)
        BY <1>8, <3>1, <4>1
      <4> QED
        BY <1>13, <3>1, <4>1, <4>2 DEF ClaimsInv, SumAhead, AheadOf
    <3> QED
      BY <1>2, <3>1, <3>2 DEF ReserveFits, SumAhead, AheadOf
  <2>2. CASE d = c
    <3>1. PICK m \in Nat : m = dequeueOptimisticCount
      BY <1>3
    <3>2. SumAhead(m)' <= SumHeld /\ SumAhead(m)' \in Nat
      BY <1>8, <3>1
    <3>3. m - cons[c].over >= headIndex + SumAhead(m)'
      BY <1>3, <1>5, <1>8, <3>1, <3>2 DEF ClaimsInv, CountsMatch
    <3>4. cons'[c].mine = m /\ cons'[c].over = cons[c].over /\ headIndex' = headIndex
      BY <1>2, <1>4, <1>6, <3>1
    <3> QED
      BY <2>2, <3>3, <3>4 DEF ReserveFits, SumAhead, AheadOf
  <2> QED
    BY <2>1, <2>2
<1> QED
  BY <1>6, <1>9, <1>11, <1>12, <1>13 DEF ClaimsInv

\* The tail is looked at again: what is found is there, on top of all that was
\* reserved before, so that who reserved before finds its elements too.
LEMMA ReloadClaims ==
  ASSUME ClaimsInv, NEW c \in Takers, Reload(c)
  PROVE  ClaimsInv'
<1>1. /\ ClaimTypes /\ cons[c].pc = "reload" /\ cons[c] \in TakerCalls
      /\ tailIndex \in Nat /\ headIndex \in Nat /\ dequeueOptimisticCount \in Nat
      /\ dequeueOvercommit \in Nat
      /\ cons[c].n \in Nat /\ cons[c].over \in Nat /\ cons[c].mine \in Nat
      /\ UNCHANGED <<headIndex, dequeueOptimisticCount, dequeueOvercommit, tailIndex>>
  BY TakerFacts DEF ClaimsInv, ClaimTypes, Reload, Does, counters
<1>2. cons[c].n > 0 /\ ReserveFits(c) /\ ReservedApart
  BY <1>1 DEF ClaimsInv, CallFits
<1>3. PICK t \in Int : t = tailIndex - (cons[c].mine - cons[c].over)
  BY <1>1
<1>4. PICK s \in Int : s = There(c) /\ (s = t \/ s = cons[c].n) /\ s <= t /\ s <= cons[c].n
  BY <1>1, <1>3, MinOfTwo DEF There
<1>5. PICK n \in Nat : n = Max({There(c), 0}) /\ (n = 0 \/ (n = s /\ n > 0))
  BY <1>4, MaxOfTwo
<1>6. (n = 0 \/ n = s) /\ n <= cons[c].n /\ (n > 0 => n <= t)
  <2>1. s <= t /\ s <= cons[c].n /\ (n = 0 \/ (n = s /\ n > 0))
    BY <1>4, <1>5
  <2> QED
    BY <1>1, <2>1
<1>7. PICK b \in Nat : b = cons[c].n - n
  BY <1>1, <1>6
<1>8. PICK r : r = [cons[c] EXCEPT !.pc = IF b > 0 THEN "give" ELSE "claim",
                      !.n = n, !.back = b, !.over = 0, !.mine = 0]
  OBVIOUS
<1>9. cons' = [cons EXCEPT ![c] = r]
  BY <1>5, <1>7, <1>8 DEF Reload, Does
<1>10. /\ r \in TakerCalls /\ r.pc \in {"give", "claim"} /\ r.n = n /\ r.back = b
       /\ r.pc = "claim" <=> b = 0
  <2>1. (IF b > 0 THEN "give" ELSE "claim") \in Before
    BY DEF Before
  <2>2. r \in TakerCalls
    BY <1>1, <1>8, <2>1 DEF TakerCalls
  <2>3. r.pc = IF b > 0 THEN "give" ELSE "claim"
    BY <1>1, <1>8 DEF TakerCalls
  <2>4. r.n = n /\ r.back = b
    BY <1>1, <1>8 DEF TakerCalls
  <2> QED
    BY <2>2, <2>3, <2>4
<1>11. /\ Held(r) = cons[c].n /\ Held(cons[c]) = cons[c].n
       /\ Granted(r) = n /\ Granted(cons[c]) = 0
       /\ \A m \in Nat : AheadOf(m, r) = n
       /\ \A m \in Nat : AheadOf(m, cons[c]) = IF cons[c].mine < m THEN cons[c].n ELSE 0
  <2>1. Held(r) = n + b \/ (b = 0 /\ Held(r) = n)
    BY <1>10 DEF Held
  <2>2. Held(r) = cons[c].n
    BY <1>1, <1>7, <2>1
  <2> QED
    BY <1>1, <1>10, <2>2 DEF Held, Granted, AheadOf
<1>12. /\ SumHeld \in Nat /\ SumHeld' = SumHeld
       /\ SumGranted \in Nat /\ SumGranted' = SumGranted + n
  <2>1. /\ SumHeld' = SumHeld + Held(r) - Held(cons[c])
        /\ SumGranted' = SumGranted + Granted(r) - Granted(cons[c])
    BY <1>1, <1>9, <1>10, SumsMove
  <2>2. SumHeld \in Nat /\ SumGranted \in Nat
    BY <1>1, SumsCompare
  <2> QED
    BY <1>1, <1>11, <2>1, <2>2
<1>13. ASSUME NEW m \in Nat
       PROVE  /\ SumAhead(m) \in Nat /\ SumGranted <= SumAhead(m)
              /\ SumAhead(m)' = SumAhead(m) + n - (IF cons[c].mine < m THEN cons[c].n ELSE 0)
  <2>1. SumAhead(m)' = SumAhead(m) + AheadOf(m, r) - AheadOf(m, cons[c])
    BY <1>1, <1>9, <1>10, SumsMove
  <2>2. SumAhead(m) \in Nat /\ SumGranted <= SumAhead(m)
    BY <1>1, SumsCompare
  <2>3. AheadOf(m, r) = n /\ AheadOf(m, cons[c]) = IF cons[c].mine < m THEN cons[c].n ELSE 0
    BY <1>11
  <2> QED
    BY <2>1, <2>2, <2>3
<1>14. ClaimTypes' /\ cons'[c] = r /\ \A d \in Takers : d # c => cons'[d] = cons[d]
  BY <1>1, <1>9, <1>10 DEF ClaimTypes
<1>15. n > 0 => headIndex + SumAhead(cons[c].mine) + n <= tailIndex
  <2>1. PICK a \in Nat : a = SumAhead(cons[c].mine)
    BY <1>1, <1>13
  <2>2. \/ cons[c].mine - cons[c].over >= headIndex + a
        \/ headIndex + a + cons[c].n <= tailIndex
    BY <1>2, <2>1 DEF ReserveFits
  <2> QED
    BY <1>1, <1>3, <1>6, <2>1, <2>2
<1>16. CountsMatch'
  BY <1>1, <1>12 DEF ClaimsInv, CountsMatch
<1>17. GrantsFit'
  BY <1>1, <1>12, <1>13, <1>15 DEF ClaimsInv, GrantsFit
<1>18. ReservedApart'
  BY <1>2, <1>10, <1>14 DEF ReservedApart
<1>19. \A d \in Takers : CallFits(cons[d])'
  <2>1. ASSUME NEW d \in Takers, d # c PROVE CallFits(cons[d])'
    BY <1>1, <1>14, <2>1 DEF ClaimsInv, CallFits
  <2>2. CallFits(cons[c])'
    BY <1>1, <1>2, <1>7, <1>10, <1>14 DEF CallFits
  <2> QED
    BY <2>1, <2>2
<1>20. ASSUME NEW d \in Takers, cons'[d].pc = "reload" PROVE ReserveFits(d)'
  <2>1. d # c /\ cons'[d] = cons[d] /\ cons[d].pc = "reload"
    BY <1>10, <1>14, <1>20
  <2>2. /\ cons[d].mine \in Nat /\ cons[d].n \in Nat /\ cons[d].over \in Nat
        /\ cons[d].mine # cons[c].mine /\ ReserveFits(d)
    BY <1>1, <1>2, <2>1, TakerFacts DEF ReservedApart, ClaimsInv
  <2>3. PICK m \in Nat : m = cons[d].mine
    BY <2>2
  <2>4. /\ SumAhead(m)' = SumAhead(m) + n - (IF cons[c].mine < m THEN cons[c].n ELSE 0)
        /\ SumAhead(m) \in Nat
    BY <1>13
  <2>5. \/ cons[d].mine - cons[d].over >= headIndex + SumAhead(m)'
        \/ headIndex + SumAhead(m)' + cons[d].n <= tailIndex
    <3>1. CASE cons[c].mine < m
      <4>1. SumAhead(m)' <= SumAhead(m) /\ SumAhead(m)' \in Int
        BY <1>1, <1>7, <2>4, <3>1
      <4> QED
        BY <1>1, <2>2, <2>3, <2>4, <4>1 DEF ReserveFits
    <3>2. CASE m < cons[c].mine
      <4>1. SumAhead(m)' = SumAhead(m) + n
        BY <1>1, <2>4, <3>2
      <4>2. CASE n = 0
        BY <2>2, <2>3, <2>4, <4>1, <4>2 DEF ReserveFits
      <4>3. CASE n > 0
        <5>1. SumAhead(m) + cons[d].n <= SumAhead(cons[c].mine) /\ SumAhead(cons[c].mine) \in Nat
          BY <1>1, <2>1, <2>3, <3>2, AheadInOrder, SumsCompare
        <5> QED
          BY <1>1, <1>15, <2>2, <2>4, <4>1, <4>3, <5>1
      <4> QED
        BY <4>2, <4>3
    <3> QED
      BY <1>1, <2>2, <2>3, <3>1, <3>2
  <2> QED
    BY <1>1, <2>1, <2>3, <2>5 DEF ReserveFits, SumAhead, AheadOf
<1> QED
  BY <1>14, <1>16, <1>17, <1>18, <1>19, <1>20 DEF ClaimsInv

\* More elements are there.
LEMMA MoreClaims ==
  ASSUME ClaimsInv, UNCHANGED <<counters, cons>>, tailIndex' \in Nat, tailIndex' >= tailIndex
  PROVE  ClaimsInv'
<1>1. /\ ClaimTypes /\ tailIndex \in Nat /\ headIndex \in Nat /\ cons' = cons
      /\ headIndex' = headIndex /\ dequeueOptimisticCount' = dequeueOptimisticCount
      /\ dequeueOvercommit' = dequeueOvercommit
  BY DEF ClaimsInv, ClaimTypes, counters
<1>2. /\ SumHeld' = SumHeld /\ SumGranted' = SumGranted
  BY <1>1 DEF SumHeld, SumGranted, Held, Granted
<1>3. SumGranted \in Nat
  <2>1. 0 \in Nat
    OBVIOUS
  <2> QED
    BY <1>1, <2>1, SumsCompare
<1>4. ASSUME NEW d \in Takers, cons[d].pc = "reload" PROVE ReserveFits(d)'
  <2>1. cons[d].mine \in Nat /\ cons[d].n \in Nat /\ cons[d].over \in Nat /\ ReserveFits(d)
    BY <1>1, <1>4, TakerFacts DEF ClaimsInv
  <2>2. SumAhead(cons[d].mine) \in Nat /\ SumAhead(cons[d].mine)' = SumAhead(cons[d].mine)
    BY <1>1, <2>1, SumsCompare DEF SumAhead, AheadOf
  <2> QED
    BY <1>1, <2>1, <2>2 DEF ReserveFits
<1> QED
  BY <1>1, <1>2, <1>3, <1>4
  DEF ClaimsInv, ClaimTypes, CountsMatch, GrantsFit, ReservedApart, CallFits

\* What a consumer does with what it claimed.
LEMMA LaterClaims ==
  ASSUME ClaimsInv, NEW c \in Takers, NEW r \in TakerCalls, cons' = [cons EXCEPT ![c] = r],
         UNCHANGED <<counters, tailIndex>>, cons[c].pc \in After, r.pc \in After \cup {"idle"}
  PROVE  ClaimsInv'
<1>1. /\ ClaimTypes /\ tailIndex' = tailIndex
      /\ headIndex' = headIndex /\ dequeueOptimisticCount' = dequeueOptimisticCount
      /\ dequeueOvercommit' = dequeueOvercommit
      /\ headIndex \in Nat /\ dequeueOvercommit \in Nat
  BY DEF ClaimsInv, ClaimTypes, counters
<1>2. Held(r) = 0 /\ Granted(r) = 0 /\ Held(cons[c]) = 0 /\ Granted(cons[c]) = 0 /\ CallFits(r)'
  BY DEF Held, Granted, CallFits, After
<1>3. ClaimTypes'
  BY <1>1 DEF ClaimTypes
<1>4. r.pc # "reload" /\ cons[c].pc # "reload"
  BY DEF After
<1>5. /\ dequeueOvercommit' >= dequeueOvercommit
      /\ dequeueOvercommit' + headIndex' + Held(r) = dequeueOvercommit + headIndex + Held(cons[c])
      /\ headIndex' + Granted(r) = headIndex + Granted(cons[c])
  BY <1>1, <1>2
<1> QED
  BY <1>1, <1>2, <1>3, <1>4, <1>5, ClaimStep

-----------------------------------------------------------------------------
(* Blocks counted, and circular indices.                                   *)

\* The number of the block of an index, and the base of a block by its number.
Num(i) == i \div BLOCK_SIZE
Key(k) == k * BLOCK_SIZE

LEMMA SizeFacts == BLOCK_SIZE \in Nat /\ BLOCK_SIZE > 1
BY SubQueueFits DEF SubQueueAssumption

LEMMA KeyType ==
  ASSUME NEW k \in Int
  PROVE  Key(k) \in Int /\ Key(k + 1) = Key(k) + BLOCK_SIZE /\ (k >= 0 => Key(k) \in Nat)
BY SizeFacts DEF Key

LEMMA KeyOrder ==
  ASSUME NEW j \in Int, NEW k \in Int, j < k
  PROVE  Key(j) + BLOCK_SIZE <= Key(k)
BY SizeFacts DEF Key

LEMMA KeyOrders ==
  ASSUME NEW j \in Int, NEW k \in Int
  PROVE  /\ Key(j) = Key(k) <=> j = k
         /\ Key(j) <= Key(k) <=> j <= k
<1>1. Key(j) \in Int /\ Key(k) \in Int /\ BLOCK_SIZE \in Nat /\ BLOCK_SIZE > 1
  BY KeyType, SizeFacts
<1>2. CASE j < k
  BY <1>1, <1>2, KeyOrder
<1>3. CASE k < j
  BY <1>1, <1>3, KeyOrder
<1>4. CASE j = k
  BY <1>1, <1>4
<1> QED
  BY <1>2, <1>3, <1>4

\* No base is odd enough to be the invalid one.
LEMMA KeyIsValid ==
  ASSUME NEW k \in Int
  PROVE  Key(k) # INVALID_BLOCK_BASE
BY SizeFacts DEF Key, INVALID_BLOCK_BASE

LEMMA NumType ==
  ASSUME NEW i \in Int
  PROVE  /\ Num(i) \in Int /\ Key(Num(i)) = Base(i)
         /\ Key(Num(i)) <= i /\ i < Key(Num(i)) + BLOCK_SIZE
         /\ i % BLOCK_SIZE = i - Key(Num(i)) /\ i % BLOCK_SIZE \in Slots
BY SizeFacts DEF Num, Key, Base, Slots

LEMMA NumIs ==
  ASSUME NEW i \in Int, NEW k \in Int
  PROVE  Num(i) = k <=> Key(k) <= i /\ i < Key(k) + BLOCK_SIZE
<1>1. Key(k) \in Int /\ Key(Num(i)) \in Int /\ BLOCK_SIZE \in Nat /\ Num(i) \in Int
  BY KeyType, NumType, SizeFacts
<1>2. Key(Num(i)) <= i /\ i < Key(Num(i)) + BLOCK_SIZE
  BY NumType
<1>3. Num(i) < k => Key(Num(i)) + BLOCK_SIZE <= Key(k)
  BY <1>1, KeyOrder
<1>4. k < Num(i) => Key(k) + BLOCK_SIZE <= Key(Num(i))
  BY <1>1, KeyOrder
<1> QED
  BY <1>1, <1>2, <1>3, <1>4

LEMMA NumOfKey ==
  ASSUME NEW k \in Int
  PROVE  Num(Key(k)) = k /\ Base(Key(k)) = Key(k)
<1>1. Key(k) \in Int /\ BLOCK_SIZE \in Nat /\ BLOCK_SIZE > 1
  BY KeyType, SizeFacts
<1>2. Num(Key(k)) = k
  BY <1>1, NumIs
<1> QED
  BY <1>1, <1>2, NumType

LEMMA NumOrder ==
  ASSUME NEW i \in Int, NEW j \in Int
  PROVE  /\ i <= j => Num(i) <= Num(j)
         /\ j <= i + BLOCK_SIZE => Num(j) <= Num(i) + 1
<1>1. /\ Key(Num(i)) \in Int /\ Key(Num(j)) \in Int /\ BLOCK_SIZE \in Nat /\ BLOCK_SIZE > 1
      /\ Num(i) \in Int /\ Num(j) \in Int
      /\ Key(Num(i)) <= i /\ i < Key(Num(i)) + BLOCK_SIZE
      /\ Key(Num(j)) <= j /\ j < Key(Num(j)) + BLOCK_SIZE
  BY KeyType, NumType, SizeFacts
<1>2. Num(j) < Num(i) => Key(Num(j)) + BLOCK_SIZE <= Key(Num(i))
  BY <1>1, KeyOrder
<1>3. Num(i) + 1 < Num(j) => Key(Num(i) + 1) + BLOCK_SIZE <= Key(Num(j))
  BY <1>1, KeyOrder
<1>4. Key(Num(i) + 1) = Key(Num(i)) + BLOCK_SIZE
  BY <1>1, KeyType
<1> QED
  BY <1>1, <1>2, <1>3, <1>4

\* Two indices with the same place in the same block are one.
LEMMA PlaceIs ==
  ASSUME NEW i \in Int, NEW j \in Int, Num(i) = Num(j), i % BLOCK_SIZE = j % BLOCK_SIZE
  PROVE  i = j
<1>1. Key(Num(i)) \in Int
  BY KeyType, NumType
<1> QED
  BY <1>1, NumType

LEMMA NumNat ==
  ASSUME NEW i \in Int
  PROVE  i >= 0 <=> Num(i) >= 0
BY SizeFacts DEF Num

LEMMA NumBefore ==
  ASSUME NEW i \in Int
  PROVE  /\ i % BLOCK_SIZE = 0 <=> Num(i - 1) = Num(i) - 1
         /\ i % BLOCK_SIZE # 0 <=> Num(i - 1) = Num(i)
         /\ i % BLOCK_SIZE = 0 <=> Key(Num(i)) = i
<1>1. /\ Key(Num(i)) \in Int /\ BLOCK_SIZE \in Nat /\ BLOCK_SIZE > 1
      /\ Num(i) \in Int /\ i - 1 \in Int /\ Num(i) - 1 \in Int
      /\ Key(Num(i)) <= i /\ i < Key(Num(i)) + BLOCK_SIZE /\ i % BLOCK_SIZE = i - Key(Num(i))
  BY KeyType, NumType, SizeFacts
<1>2. Num(i - 1) = Num(i) <=> Key(Num(i)) <= i - 1 /\ i - 1 < Key(Num(i)) + BLOCK_SIZE
  BY <1>1, NumIs
<1>3. Num(i - 1) = Num(i) - 1
        <=> Key(Num(i) - 1) <= i - 1 /\ i - 1 < Key(Num(i) - 1) + BLOCK_SIZE
  BY <1>1, NumIs
<1>4. Key(Num(i)) = Key(Num(i) - 1) + BLOCK_SIZE /\ Key(Num(i) - 1) \in Int
  BY <1>1, KeyType
<1> QED
  BY <1>1, <1>2, <1>3, <1>4

\* How many blocks lie between two bases.
LEMMA BlocksBetween ==
  ASSUME NEW j \in Int, NEW k \in Int
  PROVE  (Key(j) - Key(k)) \div BLOCK_SIZE = j - k
<1>1. Key(j) - Key(k) = Key(j - k)
  BY SizeFacts DEF Key
<1>2. j - k \in Int
  OBVIOUS
<1>3. Num(Key(j - k)) = j - k
  BY <1>2, NumOfKey
<1> QED
  BY <1>1, <1>3 DEF Num

\* Remainders.
LEMMA RestType ==
  ASSUME NEW n \in Nat \ {0}, NEW x \in Int
  PROVE  x % n \in 0..n - 1 /\ (x \in 0..n - 1 => x % n = x)
OBVIOUS

LEMMA SmallMultiple ==
  ASSUME NEW n \in Nat \ {0}, NEW m \in Int, -n < m * n, m * n < n
  PROVE  m = 0
<1>1. m >= 1 => m * n >= n
  OBVIOUS
<1>2. m <= -1 => m * n <= -n
  OBVIOUS
<1>3. m * n \in Int
  OBVIOUS
<1> QED
  BY <1>1, <1>2, <1>3

LEMMA RestParts ==
  ASSUME NEW n \in Nat \ {0}, NEW x \in Int
  PROVE  /\ x \div n \in Int /\ x % n \in Int /\ (x \div n) * n \in Int
         /\ x % n = x - (x \div n) * n
         /\ 0 <= x % n /\ x % n < n
<1>1. x \div n \in Int /\ x % n \in 0..n - 1
  OBVIOUS
<1>2. (x \div n) * n <= x /\ x % n = x - (x \div n) * n
  OBVIOUS
<1>3. (x \div n) * n \in Int
  BY <1>1
<1> QED
  BY <1>1, <1>2, <1>3

LEMMA Distribute ==
  ASSUME NEW a \in Int, NEW b \in Int, NEW n \in Int
  PROVE  /\ (a - b) * n = a * n - b * n /\ (a + b) * n = a * n + b * n
         /\ a * n \in Int /\ b * n \in Int
OBVIOUS

LEMMA RestApart ==
  ASSUME NEW n \in Nat \ {0}, NEW x \in Int, NEW y \in Int, x % n = y % n
  PROVE  \E m \in Int : x - y = m * n
<1>1. PICK a \in Int : x % n = x - a * n
  BY RestParts
<1>2. PICK b \in Int : y % n = y - b * n
  BY RestParts
<1>3. (a - b) * n = a * n - b * n /\ a * n \in Int /\ b * n \in Int /\ a - b \in Int
  BY Distribute
<1>4. x - y = (a - b) * n
  BY <1>1, <1>2, <1>3
<1> QED
  BY <1>3, <1>4

LEMMA RestSame ==
  ASSUME NEW n \in Nat \ {0}, NEW x \in Int, NEW y \in Int, NEW m \in Int, x - y = m * n
  PROVE  x % n = y % n
<1>1. PICK a \in Int, r \in Int : r = x % n /\ r = x - a * n /\ 0 <= r /\ r < n
  BY RestParts
<1>2. PICK b \in Int, s \in Int : s = y % n /\ s = y - b * n /\ 0 <= s /\ s < n
  BY RestParts
<1>3. PICK d \in Int : d = a - b
  OBVIOUS
<1>4. (a - b) * n = a * n - b * n /\ a * n \in Int /\ b * n \in Int
  BY Distribute
<1>5. (m - d) * n = m * n - d * n /\ m * n \in Int /\ d * n \in Int
  BY Distribute
<1>6. d * n = a * n - b * n
  BY <1>3, <1>4
<1>7. (m - d) * n = r - s
  BY <1>1, <1>2, <1>4, <1>5, <1>6
<1>8. m - d = 0
  <2>1. m - d \in Int /\ -n < (m - d) * n /\ (m - d) * n < n
    BY <1>1, <1>2, <1>7
  <2> QED
    BY <2>1, SmallMultiple
<1>9. (m - d) * n = 0
  BY <1>8
<1> QED
  BY <1>1, <1>2, <1>7, <1>9

\* The place of something in a circle of n, whatever numbers it and n are.
Mod(x, n) == x % n
Multiple(z, n) == \E m \in Int : z = m * n

LEMMA ModType ==
  ASSUME NEW n \in Nat \ {0}, NEW x \in Int
  PROVE  Mod(x, n) \in 0..n - 1 /\ Mod(x, n) \in Int /\ (x \in 0..n - 1 => Mod(x, n) = x)
BY RestType DEF Mod

LEMMA ModSame ==
  ASSUME NEW n \in Nat \ {0}, NEW x \in Int, NEW y \in Int
  PROVE  Mod(x, n) = Mod(y, n) <=> Multiple(x - y, n)
<1>1. ASSUME Mod(x, n) = Mod(y, n) PROVE Multiple(x - y, n)
  BY <1>1, RestApart, Zenon DEF Mod, Multiple
<1>2. ASSUME Multiple(x - y, n) PROVE Mod(x, n) = Mod(y, n)
  <2>1. PICK m \in Int : x - y = m * n
    BY <1>2 DEF Multiple
  <2> QED
    BY <2>1, RestSame, Zenon DEF Mod
<1> QED
  BY <1>1, <1>2

LEMMA ModClose ==
  ASSUME NEW n \in Nat \ {0}, NEW x \in Int, NEW y \in Int,
         Mod(x, n) = Mod(y, n), x - y < n, y - x < n
  PROVE  x = y
<1>1. PICK m \in Int : x - y = m * n
  BY ModSame DEF Multiple
<1>2. m = 0
  BY <1>1, SmallMultiple
<1> QED
  BY <1>1, <1>2

LEMMA MultipleFacts ==
  ASSUME NEW n \in Nat \ {0}, NEW z \in Int, Multiple(z, n)
  PROVE  Multiple(-z, n)
<1>1. PICK m \in Int : z = m * n
  BY DEF Multiple
<1>2. -m \in Int /\ -z = (-m) * n
  BY <1>1
<1> QED
  BY <1>2 DEF Multiple

LEMMA MultipleOfOne ==
  ASSUME NEW n \in Nat \ {0}
  PROVE  Multiple(n, n)
<1>1. n = 1 * n
  OBVIOUS
<1> QED
  BY <1>1 DEF Multiple

LEMMA ModShift ==
  ASSUME NEW n \in Nat \ {0}, NEW x \in Int, NEW y \in Int, Mod(x, n) = Mod(y, n), NEW z \in Int
  PROVE  /\ Mod(x + z, n) = Mod(y + z, n)
         /\ Mod(x - z, n) = Mod(y - z, n)
         /\ Mod(z - x, n) = Mod(z - y, n)
<1>1. Multiple(x - y, n) /\ Multiple(y - x, n)
  BY ModSame
<1>2. (x + z) - (y + z) = x - y /\ (x - z) - (y - z) = x - y /\ (z - x) - (z - y) = y - x
  OBVIOUS
<1>3. /\ x + z \in Int /\ y + z \in Int /\ x - z \in Int /\ y - z \in Int
      /\ z - x \in Int /\ z - y \in Int
  OBVIOUS
<1>4. /\ Multiple((x + z) - (y + z), n) /\ Multiple((x - z) - (y - z), n)
      /\ Multiple((z - x) - (z - y), n)
  BY <1>1, <1>2
<1> QED
  BY <1>3, <1>4, ModSame, Zenon

LEMMA ModItself ==
  ASSUME NEW n \in Nat \ {0}, NEW x \in Int
  PROVE  Mod(Mod(x, n), n) = Mod(x, n) /\ Mod(x + n, n) = Mod(x, n) /\ Mod(x - n, n) = Mod(x, n)
<1>1. Mod(Mod(x, n), n) = Mod(x, n)
  BY ModType
<1>2. (x + n) - x = n /\ x - (x - n) = n /\ x + n \in Int /\ x - n \in Int
  OBVIOUS
<1>3. Multiple((x + n) - x, n) /\ Multiple(x - (x - n), n)
  BY <1>2, MultipleOfOne
<1>4. Mod(x + n, n) = Mod(x, n) /\ Mod(x, n) = Mod(x - n, n)
  BY <1>2, <1>3, ModSame, Zenon
<1> QED
  BY <1>1, <1>4

\* Whatever is added or taken, before or after.
LEMMA ModAdds ==
  ASSUME NEW n \in Nat \ {0}, NEW x \in Int, NEW y \in Int
  PROVE  /\ Mod(Mod(x, n) + y, n) = Mod(x + y, n)
         /\ Mod(Mod(x, n) - y, n) = Mod(x - y, n)
         /\ Mod(y - Mod(x, n), n) = Mod(y - x, n)
<1>1. PICK r \in Int : r = Mod(x, n) /\ Mod(r, n) = Mod(x, n)
  BY ModItself, ModType
<1>2. /\ Mod(r + y, n) = Mod(x + y, n) /\ Mod(r - y, n) = Mod(x - y, n)
      /\ Mod(y - r, n) = Mod(y - x, n)
  BY <1>1, ModShift
<1> QED
  BY <1>1, <1>2

\* One number divides another: places agree in the smaller circle if they do in
\* the larger.
Divides(d, n) == Multiple(n, d)

LEMMA DividesItself ==
  ASSUME NEW n \in Nat \ {0}
  PROVE  Divides(n, n)
BY MultipleOfOne DEF Divides

LEMMA DividesTwice ==
  ASSUME NEW n \in Nat \ {0}, NEW d \in Nat \ {0}, Divides(d, n)
  PROVE  Divides(d, 2 * n)
<1>1. PICK m \in Int : n = m * d
  BY DEF Divides, Multiple
<1>2. 2 * m \in Int /\ 2 * n = (2 * m) * d
  BY <1>1
<1> QED
  BY <1>2 DEF Divides, Multiple

LEMMA ModDivides ==
  ASSUME NEW n \in Nat \ {0}, NEW d \in Nat \ {0}, Divides(d, n),
         NEW x \in Int, NEW y \in Int, Mod(x, n) = Mod(y, n)
  PROVE  Mod(x, d) = Mod(y, d)
<1>1. PICK m \in Int : n = m * d
  BY DEF Divides, Multiple
<1>2. PICK q \in Int : x - y = q * n
  BY ModSame DEF Multiple
<1>3. PICK k \in Int : k = q * m
  OBVIOUS
<1>4. q * n = k * d
  BY <1>1, <1>3
<1>5. Multiple(x - y, d)
  BY <1>2, <1>4, Zenon DEF Multiple
<1> QED
  BY <1>5, ModSame

-----------------------------------------------------------------------------
(* The circular index of a producer without a token.                       *)

HeaderRecs == UNION {[size : {n}, tail : 0..n - 1, index : [0..n - 1 -> Nat]] : n \in Nat \ {0}}

LEMMA HeaderIs ==
  ASSUME NEW h \in HeaderRecs
  PROVE  /\ h.size \in Nat \ {0} /\ h.size \in Nat /\ h.size > 0
         /\ h.tail \in Int /\ h.tail \in 0..h.size - 1
         /\ h.index \in [0..h.size - 1 -> Nat]
<1>1. PICK n \in Nat \ {0} : h \in [size : {n}, tail : 0..n - 1, index : [0..n - 1 -> Nat]]
  BY DEF HeaderRecs
<1>2. h.size = n /\ h.tail \in 0..n - 1 /\ h.index \in [0..n - 1 -> Nat]
  BY <1>1
<1> QED
  BY <1>2

LEMMA HeaderTurned ==
  ASSUME NEW h \in HeaderRecs, NEW t \in 0..h.size - 1
  PROVE  /\ [h EXCEPT !.tail = t] \in HeaderRecs
         /\ [h EXCEPT !.tail = t].size = h.size /\ [h EXCEPT !.tail = t].tail = t
         /\ [h EXCEPT !.tail = t].index = h.index
<1>1. PICK n \in Nat \ {0} : h \in [size : {n}, tail : 0..n - 1, index : [0..n - 1 -> Nat]]
  BY DEF HeaderRecs
<1>2. h.size = n
  BY <1>1
<1>3. [h EXCEPT !.tail = t] \in [size : {n}, tail : 0..n - 1, index : [0..n - 1 -> Nat]]
  BY <1>1, <1>2
<1>4. [h EXCEPT !.tail = t] \in HeaderRecs
  BY <1>3 DEF HeaderRecs
<1> QED
  BY <1>1, <1>3, <1>4

\* The entry of a block by its number, if the tail is that of number top.
At(h, top, k) == h.index[Mod(h.tail - (top - k), h.size)]

\* The tail turned on by some entries, or back.
Turned(h, n) == [h EXCEPT !.tail = Mod(@ + n, h.size)]

\* The index that takes the place of h, when there are n entries.
Larger(h, n) ==
  [size |-> 2 * h.size, tail |-> h.size - 1,
   index |-> [j \in 0..2 * h.size - 1 |->
     IF j < h.size THEN h.index[Mod(h.tail + 1 + j, h.size)] ELSE n + j - h.size + 1]]

OneEach(h) == \A p, q \in 0..h.size - 1 : h.index[p] = h.index[q] => p = q

\* An index that had become too small has the entries as far apart as l has.
Aligned(h, l) ==
  /\ Divides(h.size, l.size)
  /\ \A p1, p2 \in 0..h.size - 1 : \A q1, q2 \in 0..l.size - 1 :
       h.index[p1] = l.index[q1] /\ h.index[p2] = l.index[q2]
         => Mod(q1 - q2, h.size) = Mod(p1 - p2, h.size)

LEMMA AtType ==
  ASSUME NEW h \in HeaderRecs, NEW top \in Int, NEW k \in Int
  PROVE  /\ Mod(h.tail - (top - k), h.size) \in 0..h.size - 1
         /\ At(h, top, k) \in Nat
<1>1. h.size \in Nat \ {0} /\ h.tail \in Int /\ h.index \in [0..h.size - 1 -> Nat]
  BY HeaderIs
<1>2. h.tail - (top - k) \in Int
  BY <1>1
<1>3. Mod(h.tail - (top - k), h.size) \in 0..h.size - 1
  BY <1>1, <1>2, ModType
<1> QED
  BY <1>1, <1>3 DEF At

\* Blocks that are close have entries of their own.
LEMMA AtApart ==
  ASSUME NEW h \in HeaderRecs, OneEach(h), NEW top \in Int, NEW k \in Int, NEW l \in Int,
         At(h, top, k) = At(h, top, l), k - l < h.size, l - k < h.size
  PROVE  k = l
<1>1. h.size \in Nat \ {0} /\ h.tail \in Int
  BY HeaderIs
<1>2. PICK x \in Int, y \in Int : x = h.tail - (top - k) /\ y = h.tail - (top - l)
  BY <1>1
<1>3. Mod(x, h.size) = Mod(y, h.size)
  BY <1>2, AtType DEF OneEach, At
<1>4. x - y < h.size /\ y - x < h.size
  BY <1>1, <1>2
<1>5. x = y
  BY <1>1, <1>3, <1>4, ModClose
<1> QED
  BY <1>1, <1>2, <1>5

LEMMA TurnedIs ==
  ASSUME NEW h \in HeaderRecs, NEW n \in Int
  PROVE  /\ Turned(h, n) \in HeaderRecs
         /\ Turned(h, n).size = h.size /\ Turned(h, n).index = h.index
         /\ Turned(h, n).tail = Mod(h.tail + n, h.size)
         /\ \A top, k \in Int : At(Turned(h, n), top + n, k) = At(h, top, k)
<1>1. h.size \in Nat \ {0} /\ h.tail \in Int
  BY HeaderIs
<1>2. Mod(h.tail + n, h.size) \in 0..h.size - 1
  <2>1. h.tail + n \in Int
    BY <1>1
  <2> QED
    BY <1>1, <2>1, ModType
<1>3. Turned(h, n) = [h EXCEPT !.tail = Mod(h.tail + n, h.size)]
  BY DEF Turned
<1>4. /\ Turned(h, n) \in HeaderRecs
      /\ Turned(h, n).size = h.size /\ Turned(h, n).index = h.index
      /\ Turned(h, n).tail = Mod(h.tail + n, h.size)
  BY <1>2, <1>3, HeaderTurned
<1>5. ASSUME NEW top \in Int, NEW k \in Int
      PROVE  At(Turned(h, n), top + n, k) = At(h, top, k)
  <2>1. PICK x \in Int, y \in Int, z \in Int :
          x = h.tail + n /\ y = (top + n) - k /\ z = h.tail - (top - k) /\ x - y = z
    BY <1>1
  <2>2. Mod(Mod(x, h.size) - y, h.size) = Mod(x - y, h.size)
    BY <1>1, ModAdds
  <2> QED
    BY <1>4, <2>1, <2>2 DEF At
<1> QED
  BY <1>4, <1>5

LEMMA LargerIs ==
  ASSUME NEW h \in HeaderRecs, NEW n \in Nat
  PROVE  /\ Larger(h, n) \in HeaderRecs
         /\ Larger(h, n).size = 2 * h.size /\ Larger(h, n).tail = h.size - 1
         /\ \A j \in 0..2 * h.size - 1 : Larger(h, n).index[j] =
              IF j < h.size THEN h.index[Mod(h.tail + 1 + j, h.size)] ELSE n + j - h.size + 1
<1>1. h.size \in Nat \ {0} /\ h.tail \in Int /\ h.index \in [0..h.size - 1 -> Nat]
  BY HeaderIs
<1>2. PICK s \in Nat \ {0} : s = h.size
  BY <1>1
<1>3. PICK f : f = [j \in 0..2 * s - 1 |-> IF j < s THEN h.index[Mod(h.tail + 1 + j, s)] ELSE n + j - s + 1]
  OBVIOUS
<1>4. f \in [0..2 * s - 1 -> Nat]
  <2>1. ASSUME NEW j \in 0..2 * s - 1
        PROVE  (IF j < s THEN h.index[Mod(h.tail + 1 + j, s)] ELSE n + j - s + 1) \in Nat
    <3>1. CASE j < s
      <4>1. h.tail + 1 + j \in Int
        BY <1>1
      <4>2. Mod(h.tail + 1 + j, s) \in 0..s - 1
        BY <4>1, ModType
      <4> QED
        BY <1>1, <1>2, <3>1, <4>2
    <3>2. CASE ~ (j < s)
      BY <3>2
    <3> QED
      BY <3>1, <3>2
  <2> QED
    BY <1>3, <2>1
<1>5. Larger(h, n) = [size |-> 2 * s, tail |-> s - 1, index |-> f]
  BY <1>2, <1>3 DEF Larger
<1>6. Larger(h, n) \in HeaderRecs
  <2>1. PICK m \in Nat \ {0} : m = 2 * s
    OBVIOUS
  <2>2. s - 1 \in 0..m - 1 /\ f \in [0..m - 1 -> Nat]
    BY <1>4, <2>1
  <2>3. Larger(h, n) \in [size : {m}, tail : 0..m - 1, index : [0..m - 1 -> Nat]]
    BY <1>5, <2>1, <2>2
  <2> QED
    BY <2>3 DEF HeaderRecs
<1> QED
  BY <1>2, <1>3, <1>5, <1>6

\* The larger index has the entries of as many blocks as were in the old one,
\* and a new one for the next.
LEMMA LargerAt ==
  ASSUME NEW h \in HeaderRecs, NEW n \in Nat, NEW top \in Int
  PROVE  /\ \A k \in top - h.size + 1 .. top : At(Larger(h, n), top, k) = At(h, top, k)
         /\ At(Larger(h, n), top, top + 1) = n + 1
<1>1. h.size \in Nat \ {0} /\ h.tail \in Int
  BY HeaderIs
<1>2. PICK s \in Nat \ {0} : s = h.size
  BY <1>1
<1>3. PICK w \in Nat \ {0} : w = 2 * s
  OBVIOUS
<1>4. /\ Larger(h, n).size = w /\ Larger(h, n).tail = s - 1
      /\ \A j \in 0..w - 1 : Larger(h, n).index[j] =
           IF j < s THEN h.index[Mod(h.tail + 1 + j, s)] ELSE n + j - s + 1
  BY <1>2, <1>3, LargerIs
<1>5. ASSUME NEW k \in top - s + 1 .. top
      PROVE  At(Larger(h, n), top, k) = At(h, top, k)
  <2>1. PICK j \in Int : j = s - 1 - (top - k)
    OBVIOUS
  <2>2. j \in 0..w - 1 /\ j < s
    BY <1>3, <2>1
  <2>3. Mod(j, w) = j
    BY <2>2, ModType
  <2>4. At(Larger(h, n), top, k) = h.index[Mod(h.tail + 1 + j, s)]
    BY <1>4, <2>1, <2>2, <2>3 DEF At
  <2>5. PICK x \in Int : x = h.tail - (top - k) /\ h.tail + 1 + j = x + s
    BY <1>1, <2>1
  <2>6. Mod(x + s, s) = Mod(x, s)
    BY ModItself
  <2> QED
    BY <1>2, <2>4, <2>5, <2>6 DEF At
<1>6. At(Larger(h, n), top, top + 1) = n + 1
  <2>1. s - 1 - (top - (top + 1)) = s /\ s \in 0..w - 1
    BY <1>3
  <2>2. Mod(s, w) = s
    BY <2>1, ModType
  <2>3. Larger(h, n).index[s] = n + 1
    BY <1>4, <2>1
  <2> QED
    BY <1>4, <2>1, <2>2, <2>3 DEF At
<1> QED
  BY <1>2, <1>5, <1>6

LEMMA LargerOneEach ==
  ASSUME NEW h \in HeaderRecs, NEW n \in Nat, OneEach(h), \A p \in 0..h.size - 1 : h.index[p] <= n
  PROVE  OneEach(Larger(h, n))
<1>1. h.size \in Nat \ {0} /\ h.tail \in Int /\ h.index \in [0..h.size - 1 -> Nat]
  BY HeaderIs
<1>2. PICK s \in Nat \ {0} : s = h.size
  BY <1>1
<1>3. /\ Larger(h, n).size = 2 * s
      /\ \A j \in 0..2 * s - 1 : Larger(h, n).index[j] =
           IF j < s THEN h.index[Mod(h.tail + 1 + j, s)] ELSE n + j - s + 1
  BY <1>2, LargerIs
<1>4. \A j \in 0..s - 1 : Mod(h.tail + 1 + j, s) \in 0..s - 1
  <2>1. \A j \in 0..s - 1 : h.tail + 1 + j \in Int
    BY <1>1
  <2> QED
    BY <2>1, ModType
<1>5. ASSUME NEW p \in 0..2 * s - 1, NEW q \in 0..2 * s - 1,
             Larger(h, n).index[p] = Larger(h, n).index[q]
      PROVE  p = q
  <2>1. CASE p < s /\ q < s
    <3>1. p \in 0..s - 1 /\ q \in 0..s - 1
      BY <2>1
    <3>2. Mod(h.tail + 1 + p, s) = Mod(h.tail + 1 + q, s)
      BY <1>2, <1>3, <1>4, <1>5, <2>1, <3>1 DEF OneEach
    <3>3. PICK x \in Int, y \in Int : x = h.tail + 1 + p /\ y = h.tail + 1 + q
      BY <1>1
    <3>4. x - y < s /\ y - x < s
      <4>1. p \in Int /\ q \in Int /\ p - q < s /\ q - p < s
        BY <3>1
      <4>2. x - y = p - q /\ y - x = q - p
        BY <1>1, <3>3, <4>1
      <4> QED
        BY <4>1, <4>2
    <3>5. x = y
      BY <3>2, <3>3, <3>4, ModClose
    <3> QED
      BY <1>1, <3>3, <3>5
  <2>2. CASE p < s /\ ~ (q < s)
    <3>1. h.index[Mod(h.tail + 1 + p, s)] <= n /\ h.index[Mod(h.tail + 1 + p, s)] \in Nat
      <4>1. p \in 0..s - 1
        BY <2>2
      <4>2. PICK m \in 0..h.size - 1 : m = Mod(h.tail + 1 + p, s)
        BY <1>2, <1>4, <4>1
      <4>3. h.index[m] <= n /\ h.index[m] \in Nat
        BY <1>1
      <4> QED
        BY <4>2, <4>3
    <3> QED
      BY <1>3, <1>5, <2>2, <3>1
  <2>3. CASE q < s /\ ~ (p < s)
    <3>1. h.index[Mod(h.tail + 1 + q, s)] <= n /\ h.index[Mod(h.tail + 1 + q, s)] \in Nat
      <4>1. q \in 0..s - 1
        BY <2>3
      <4>2. PICK m \in 0..h.size - 1 : m = Mod(h.tail + 1 + q, s)
        BY <1>2, <1>4, <4>1
      <4>3. h.index[m] <= n /\ h.index[m] \in Nat
        BY <1>1
      <4> QED
        BY <4>2, <4>3
    <3> QED
      BY <1>3, <1>5, <2>3, <3>1
  <2>4. CASE ~ (p < s) /\ ~ (q < s)
    BY <1>3, <1>5, <2>4
  <2> QED
    BY <2>1, <2>2, <2>3, <2>4
<1> QED
  BY <1>3, <1>5 DEF OneEach

LEMMA AlignedItself ==
  ASSUME NEW h \in HeaderRecs, OneEach(h)
  PROVE  Aligned(h, h)
BY HeaderIs, DividesItself DEF Aligned, OneEach

\* An older index still has the entries as far apart as the larger one has.
LEMMA LargerAligned ==
  ASSUME NEW g \in HeaderRecs, NEW h \in HeaderRecs, NEW n \in Nat, Aligned(g, h),
         \A p \in 0..g.size - 1 : g.index[p] <= n
  PROVE  Aligned(g, Larger(h, n))
<1>1. /\ h.size \in Nat \ {0} /\ h.tail \in Int /\ g.size \in Nat \ {0}
      /\ g.index \in [0..g.size - 1 -> Nat]
  BY HeaderIs
<1>2. PICK s \in Nat \ {0}, d \in Nat \ {0}, t \in Int : s = h.size /\ d = g.size /\ t = h.tail + 1
  BY <1>1
<1>3. /\ Larger(h, n).size = 2 * s
      /\ \A j \in 0..2 * s - 1 : Larger(h, n).index[j] =
           IF j < s THEN h.index[Mod(t + j, s)] ELSE n + j - s + 1
  BY <1>2, LargerIs
<1>4. Divides(d, s) /\ Divides(d, 2 * s)
  BY <1>2, DividesTwice DEF Aligned
<1>5. ASSUME NEW p \in 0..d - 1, NEW q \in 0..2 * s - 1, g.index[p] = Larger(h, n).index[q]
      PROVE  q < s /\ g.index[p] = h.index[Mod(t + q, s)] /\ Mod(t + q, s) \in 0..s - 1
  <2>1. g.index[p] <= n /\ g.index[p] \in Nat
    BY <1>1, <1>2
  <2>2. q < s
    BY <1>3, <1>5, <2>1
  <2>3. t + q \in Int
    OBVIOUS
  <2> QED
    BY <1>3, <1>5, <2>2, <2>3, ModType
<1>6. ASSUME NEW p1 \in 0..d - 1, NEW p2 \in 0..d - 1,
             NEW q1 \in 0..2 * s - 1, NEW q2 \in 0..2 * s - 1,
             g.index[p1] = Larger(h, n).index[q1], g.index[p2] = Larger(h, n).index[q2]
      PROVE  Mod(q1 - q2, d) = Mod(p1 - p2, d)
  <2>1. PICK x \in Int, y \in Int : x = t + q1 /\ y = t + q2 /\ x - y = q1 - q2
    OBVIOUS
  <2>2. PICK a \in 0..s - 1, b \in 0..s - 1 : a = Mod(x, s) /\ b = Mod(y, s)
    BY <1>5, <1>6, <2>1
  <2>3. g.index[p1] = h.index[a] /\ g.index[p2] = h.index[b]
    BY <1>5, <1>6, <2>1, <2>2
  <2>4. Mod(a - b, d) = Mod(p1 - p2, d)
    BY <1>2, <2>3 DEF Aligned
  <2>5. Mod(a - b, s) = Mod(x - y, s)
    <3>1. b \in Int /\ Mod(a - b, s) = Mod(x - b, s)
      <4>1. b \in Int
        OBVIOUS
      <4>2. Mod(Mod(x, s) - b, s) = Mod(x - b, s)
        BY <4>1, ModAdds
      <4> QED
        BY <2>2, <4>1, <4>2
    <3>2. Mod(x - b, s) = Mod(x - y, s)
      BY <2>2, ModAdds
    <3> QED
      BY <3>1, <3>2
  <2>6. Mod(a - b, d) = Mod(x - y, d)
    <3>1. PICK u \in Int, v \in Int : u = a - b /\ v = x - y
      OBVIOUS
    <3> QED
      BY <1>4, <2>5, <3>1, ModDivides
  <2> QED
    BY <2>1, <2>4, <2>6
<1> QED
  BY <1>2, <1>3, <1>4, <1>6 DEF Aligned

-----------------------------------------------------------------------------
(* The queue of a producer without a token.                                *)

ProducerCalls ==
  [pc : {"idle", "block", "find", "found", "fill", "publish"}, n : Nat, left : Nat, base : Int,
   first : Nat, start : Nat, front : Nat, used : Nat, at : Nat, i : Nat]
EntryRecs == [key : Nat, value : Nat]
BlockRecs == [data : [Slots -> Nat], empty : Nat, next : Nat]

QueueTypes ==
  /\ prod \in ProducerCalls /\ tailBlock \in Nat
  /\ entry \in Seq(EntryRecs) /\ block \in Seq(BlockRecs) /\ headers \in Seq(HeaderRecs)
  /\ free \subseteq 1..Len(block)

\* Up to where there are elements, though they may not be published; the number
\* of the last block there is, and of the last that has an entry.
FilledTo == IF prod.pc \in {"fill", "publish"} THEN prod.i ELSE tailIndex
EndNum == IF prod.pc \in {"fill", "publish"} THEN Num(tailIndex + prod.n - 1)
          ELSE IF prod.pc \in {"find", "found"} THEN Num(prod.base)
          ELSE Num(tailIndex - 1)
TopNum == IF prod.pc \in {"block", "found"} THEN EndNum + 1 ELSE EndNum

\* The entry and the block of a number.
EntryFor(k) == At(LastHeader, TopNum, k)
BlockOf(k)  == entry[EntryFor(k)].value

\* The indices a consumer has claimed and not yet done with, or not yet taken;
\* the number of the block it is at.
RestOf(r) ==
  IF r.pc \in {"locate", "key", "take", "empty"} THEN r.at - Len(r.got) .. r.end - 1
  ELSE IF r.pc \in {"unlist", "free"} THEN r.at .. r.end - 1 ELSE {}
UntakenOf(r) == IF r.pc \in After THEN r.at .. r.end - 1 ELSE {}
CurOf(r)     == Num(r.at - Len(r.got))

\* The indices done with, and the blocks all of whose indices are.
Done(i)    == i < headIndex /\ \A c \in Takers : i \notin RestOf(cons[c])
Indices(k) == Key(k) .. Key(k) + BLOCK_SIZE - 1
DoneOf(k)  == {i \in Indices(k) : Done(i)}
Spent(k)   == \A i \in Indices(k) : Done(i)

\* The blocks in use: not spent, or just spent and still with an entry.
Unlisting == {c \in Takers : cons[c].pc = "unlist"}
Listed    == {k \in 0..EndNum : ~Spent(k)} \cup {CurOf(cons[c]) : c \in Unlisting}

\* The numbers for which a consumer still needs the entry.
SpanOf(r) == {Num(i) : i \in RestOf(r)} \cup (IF r.pc = "unlist" THEN {CurOf(r)} ELSE {})

HeadersFit ==
  /\ \A j \in 1..Len(headers) :
       /\ \A p \in 0..headers[j].size - 1 : headers[j].index[p] \in 1..Len(entry)
       /\ Aligned(headers[j], LastHeader)
  /\ headers # <<>> => OneEach(LastHeader)
  /\ headers = <<>> => TopNum = -1

\* From the first block in use on, the entries are the right ones; and those of
\* blocks not in use can be used.
KeysFit ==
  /\ \A k \in Listed :
       /\ k \in 0..EndNum /\ TopNum - LastHeader.size < k
       /\ BlockOf(k) # NoBlock
       /\ \A l \in k..TopNum : entry[EntryFor(l)].key = Key(l)
  /\ \A e \in 1..Len(entry) : entry[e].value # NoBlock => \E k \in Listed : e = EntryFor(k)
  /\ prod.pc \in {"block", "found"} => entry[EntryFor(TopNum)].key = Key(TopNum)

\* Each block is in the pool, or in use for one number, or about to be freed.
Owned ==
  /\ \A k \in Listed :
       /\ BlockOf(k) \in 1..Len(block) /\ BlockOf(k) \notin free
       /\ block[BlockOf(k)].empty = Cardinality(DoneOf(k))
  /\ \A k, l \in Listed : BlockOf(k) = BlockOf(l) => k = l
  /\ \A b \in 1..Len(block) :
       b \in free \/ (\E k \in Listed : BlockOf(k) = b)
         \/ \E c \in Takers : cons[c].pc = "free" /\ cons[c].block = b

\* What the producer relies on.
Linked(from) == \A k \in from..EndNum - 1 : block[BlockOf(k)].next = BlockOf(k + 1)

ProducerFits ==
  /\ EndNum >= Num(tailIndex) => tailBlock = BlockOf(EndNum)
  /\ prod.pc = "block" => Num(tailIndex) = Num(tailIndex - 1) + 1 /\ prod.i = tailIndex /\ prod.n = 1
  /\ prod.pc \in {"find", "found"} =>
       /\ prod.base = Key(EndNum) /\ EndNum >= Num(tailIndex - 1)
       /\ prod.n > 0 /\ prod.i = tailIndex
       /\ EndNum + prod.left = Num(tailIndex + prod.n - 1)
       /\ EndNum = Num(tailIndex - 1) => prod.first = 0
       /\ EndNum > Num(tailIndex - 1) => prod.first = BlockOf(Num(tailIndex - 1) + 1)
       /\ Num(tailIndex - 1) = Num(tailIndex) => prod.start = BlockOf(Num(tailIndex))
       /\ Linked(Num(tailIndex))
  /\ prod.pc = "found" => prod.left > 0
  /\ prod.pc = "fill" =>
       /\ prod.n > 0 /\ tailIndex <= prod.i /\ prod.i < tailIndex + prod.n
       /\ prod.at = BlockOf(Num(prod.i)) /\ Linked(Num(prod.i))
  /\ prod.pc = "publish" => prod.n > 0 /\ prod.i = tailIndex + prod.n

DataFits ==
  \A i \in 0..FilledTo - 1 :
    i >= headIndex \/ (\E c \in Takers : i \in UntakenOf(cons[c]))
      => block[BlockOf(Num(i))].data[i % BLOCK_SIZE] = i + 1

RangeFits(r) ==
  /\ r.pc # "front"
  /\ r.pc \notin {"empty", "unlist", "free"} => r.got = <<>>
  /\ r.pc \in After =>
       /\ 0 <= r.at - Len(r.got) /\ r.at - Len(r.got) < r.end /\ r.at <= r.end
       /\ r.end <= headIndex
  /\ r.pc \in {"empty", "unlist", "free"} =>
       /\ Len(r.got) > 0 /\ Num(r.at - 1) = CurOf(r)
       /\ r.at = r.end \/ r.at = Key(CurOf(r) + 1)

\* From an index, and a slot of it that is or was for number m, a consumer finds
\* all the entries it needs.
Points(r, m) ==
  \A k \in SpanOf(r) :
    headers[r.index].index[Mod(r.slot + (k - m), headers[r.index].size)] = EntryFor(k)

IndexSeen(r) ==
  /\ r.pc \in {"key", "take", "empty", "unlist", "free"} =>
       r.index \in 1..Len(headers) /\ r.slot \in 0..headers[r.index].size - 1
  /\ r.pc = "key" => \E m \in Int :
       entry[headers[r.index].index[r.slot]].key = Key(m) /\ Points(r, m)
  /\ r.pc \in {"take", "empty", "unlist", "free"} => Points(r, CurOf(r))

BlockSeen(r) ==
  /\ r.pc \in {"empty", "unlist"} => r.block = BlockOf(CurOf(r))
  /\ r.pc \in {"unlist", "free"} => Spent(CurOf(r))
  /\ r.pc = "free" => /\ r.block \in 1..Len(block) /\ r.block \notin free
                      /\ \A k \in Listed : BlockOf(k) # r.block

GotRight(r) == \A k \in 1..Len(r.got) : r.got[k] = r.at - Len(r.got) + k

TakersApart ==
  \A c, d \in Takers : c # d =>
    /\ RestOf(cons[c]) \cap RestOf(cons[d]) = {}
    /\ cons[c].pc \in {"unlist", "free"} /\ cons[d].pc \in {"unlist", "free"}
         => CurOf(cons[c]) # CurOf(cons[d])
    /\ cons[c].pc = "free" /\ cons[d].pc = "free" => cons[c].block # cons[d].block

TakersFit ==
  /\ TakersApart
  /\ \A c \in Takers : RangeFits(cons[c]) /\ GotRight(cons[c])

EntriesFit == HeadersFit /\ KeysFit
TakersSee == \A c \in Takers : IndexSeen(cons[c]) /\ BlockSeen(cons[c])

QueueInv ==
  /\ ClaimsInv /\ QueueTypes /\ TakersFit /\ EntriesFit /\ Owned /\ ProducerFits /\ DataFits
  /\ TakersSee

-----------------------------------------------------------------------------

LEMMA ProducerIs ==
  ASSUME QueueTypes
  PROVE  /\ prod.pc \in {"idle", "block", "find", "found", "fill", "publish"}
         /\ prod.n \in Nat /\ prod.left \in Nat /\ prod.base \in Int /\ prod.first \in Nat
         /\ prod.start \in Nat /\ prod.at \in Nat /\ prod.i \in Nat
BY DEF QueueTypes, ProducerCalls

\* Where the ends are.
LEMMA EndsAre ==
  ASSUME QueueInv
  PROVE  /\ tailIndex \in Nat /\ headIndex \in Nat /\ headIndex <= tailIndex
         /\ EndNum \in Int /\ TopNum \in Int /\ EndNum <= TopNum /\ TopNum <= EndNum + 1
         /\ Num(tailIndex - 1) \in Int /\ Num(tailIndex) \in Int
         /\ -1 <= Num(tailIndex - 1) /\ Num(tailIndex - 1) <= EndNum
         /\ Num(tailIndex - 1) <= Num(tailIndex) /\ Num(tailIndex) <= Num(tailIndex - 1) + 1
<1>1. /\ tailIndex \in Nat /\ headIndex \in Nat /\ GrantsFit /\ ClaimTypes
      /\ QueueTypes /\ ProducerFits
  BY DEF QueueInv, ClaimsInv, ClaimTypes
<1>2. headIndex <= tailIndex
  <2>1. 0 \in Nat
    OBVIOUS
  <2>2. SumGranted \in Nat
    BY <1>1, <2>1, SumsCompare
  <2> QED
    BY <1>1, <2>2 DEF GrantsFit
<1>3. PICK t \in Int, n \in Int : t = tailIndex - 1 /\ n = tailIndex + prod.n - 1
  BY <1>1, ProducerIs
<1>4. /\ Num(t) \in Int /\ Num(n) \in Int /\ Num(tailIndex) \in Int /\ Num(prod.base) \in Int
      /\ Num(t) <= Num(tailIndex) /\ Num(tailIndex) <= Num(t) + 1
  <2>1. t <= tailIndex /\ tailIndex <= t + BLOCK_SIZE /\ tailIndex \in Int
    BY <1>1, <1>3, SizeFacts
  <2> QED
    BY <1>1, <2>1, NumType, NumOrder, ProducerIs
<1>5. -1 <= Num(t)
  <2>1. -1 \in Int /\ -1 <= t
    BY <1>1, <1>3
  <2>2. Num(-1) <= Num(t) /\ Num(-1) \in Int
    BY <2>1, NumOrder, NumType
  <2>3. Num(-1) = -1
    <3>1. Key(-1) = -BLOCK_SIZE
      BY SizeFacts DEF Key
    <3> QED
      BY <2>1, <3>1, NumIs, SizeFacts
  <2> QED
    BY <2>2, <2>3
<1>6. EndNum \in Int /\ Num(t) <= EndNum
  <2>1. CASE prod.pc \in {"fill", "publish"}
    <3>1. EndNum = Num(n) /\ t <= n
      BY <1>1, <1>3, <2>1, ProducerIs DEF EndNum
    <3> QED
      BY <1>4, <3>1, NumOrder
  <2>2. CASE prod.pc \in {"find", "found"}
    BY <1>1, <1>3, <1>4, <2>2 DEF EndNum, ProducerFits
  <2>3. CASE prod.pc \in {"idle", "block"}
    BY <1>3, <1>4, <2>3 DEF EndNum
  <2> QED
    BY <1>1, <2>1, <2>2, <2>3, ProducerIs
<1>7. TopNum \in Int /\ EndNum <= TopNum /\ TopNum <= EndNum + 1
  BY <1>6 DEF TopNum
<1> QED
  BY <1>1, <1>2, <1>3, <1>4, <1>5, <1>6, <1>7

\* What a consumer has claimed.
LEMMA RangeIs ==
  ASSUME ClaimTypes, NEW r \in TakerCalls, RangeFits(r)
  PROVE  /\ r.at \in Nat /\ r.end \in Nat /\ Len(r.got) \in Nat /\ r.index \in Nat
         /\ r.slot \in Nat /\ r.block \in Nat /\ r.got \in Seq(Nat)
         /\ r.pc \in Before \cup After
         /\ CurOf(r) \in Int
         /\ UntakenOf(r) \subseteq RestOf(r)
         /\ \A i \in RestOf(r) : i \in Nat /\ i < headIndex
         /\ r.pc \in After => r.at - Len(r.got) \in Nat /\ CurOf(r) >= 0
         /\ r.pc \in Before => RestOf(r) = {} /\ UntakenOf(r) = {}
<1>1. /\ r.at \in Nat /\ r.end \in Nat /\ Len(r.got) \in Nat /\ r.index \in Nat
      /\ r.slot \in Nat /\ r.block \in Nat /\ r.got \in Seq(Nat)
      /\ r.pc \in Before \cup After /\ headIndex \in Nat
  BY DEF TakerCalls, ClaimTypes
<1>2. PICK a \in Int : a = r.at - Len(r.got)
  BY <1>1
<1>3. CurOf(r) \in Int
  BY <1>2, NumType DEF CurOf
<1>4. r.pc \in After => a \in Nat /\ r.end <= headIndex
  BY <1>2 DEF RangeFits
<1>5. r.pc \in After => CurOf(r) >= 0
  BY <1>2, <1>4, NumNat DEF CurOf
<1>6. r.pc \in Before => RestOf(r) = {} /\ UntakenOf(r) = {}
  BY DEF RestOf, UntakenOf, Before, After
<1>7. \A i \in RestOf(r) : i \in Nat /\ i < headIndex
  <2>1. ASSUME NEW i \in RestOf(r) PROVE i \in Nat /\ i < headIndex
    <3>1. CASE r.pc \in {"locate", "key", "take", "empty"}
      <4>1. i \in a..r.end - 1 /\ r.pc \in After
        BY <1>2, <3>1 DEF RestOf, After
      <4> QED
        BY <1>1, <1>4, <4>1
    <3>2. CASE r.pc \in {"unlist", "free"}
      <4>1. i \in r.at..r.end - 1 /\ r.pc \in After
        BY <3>2 DEF RestOf, After
      <4> QED
        BY <1>1, <1>4, <4>1
    <3> QED
      BY <3>1, <3>2 DEF RestOf
  <2> QED
    BY <2>1
<1>8. UntakenOf(r) \subseteq RestOf(r)
  <2>1. CASE r.pc \in {"locate", "key", "take", "empty"}
    <3>1. UntakenOf(r) = r.at..r.end - 1 /\ RestOf(r) = a..r.end - 1
      BY <1>2, <2>1 DEF RestOf, UntakenOf, After
    <3> QED
      BY <1>1, <1>2, <3>1
  <2>2. CASE r.pc \in {"unlist", "free"}
    BY <2>2 DEF RestOf, UntakenOf, After
  <2>3. CASE r.pc \in Before
    BY <1>6, <2>3
  <2> QED
    BY <1>1, <2>1, <2>2, <2>3 DEF After, RangeFits
<1> QED
  BY <1>1, <1>2, <1>3, <1>4, <1>5, <1>6, <1>7, <1>8

LEMMA TakerIs ==
  ASSUME QueueInv, NEW c \in Takers
  PROVE  /\ cons[c] \in TakerCalls /\ RangeFits(cons[c]) /\ GotRight(cons[c])
         /\ IndexSeen(cons[c]) /\ BlockSeen(cons[c])
BY DEF QueueInv, ClaimsInv, ClaimTypes, TakersFit, TakersSee

\* The indices of a block.
LEMMA IndicesAre ==
  ASSUME NEW k \in Int, NEW i \in Int
  PROVE  i \in Indices(k) <=> Num(i) = k
<1>1. Key(k) \in Int /\ BLOCK_SIZE \in Nat
  BY KeyType, SizeFacts
<1>2. i \in Indices(k) <=> Key(k) <= i /\ i < Key(k) + BLOCK_SIZE
  BY <1>1 DEF Indices
<1> QED
  BY <1>2, NumIs

LEMMA IndicesInt ==
  ASSUME NEW k \in Int, NEW i \in Indices(k)
  PROVE  i \in Int /\ Num(i) = k
<1>1. Key(k) \in Int /\ BLOCK_SIZE \in Nat
  BY KeyType, SizeFacts
<1>2. i \in Int
  BY <1>1 DEF Indices
<1> QED
  BY <1>2, IndicesAre

\* An index not done with is in a block in use.
LEMMA NotDoneListed ==
  ASSUME QueueInv, NEW i \in Nat, ~ Done(i), Num(i) <= EndNum
  PROVE  Num(i) \in Listed
<1>1. Num(i) \in Int /\ Num(i) >= 0 /\ EndNum \in Int
  BY NumType, NumNat, EndsAre
<1>2. ~ Spent(Num(i))
  BY <1>1, IndicesAre DEF Spent
<1> QED
  BY <1>1, <1>2 DEF Listed

LEMMA RestListed ==
  ASSUME QueueInv, NEW c \in Takers, NEW i \in RestOf(cons[c])
  PROVE  i \in Nat /\ i < headIndex /\ ~ Done(i) /\ Num(i) \in Int /\ Num(i) <= EndNum /\ Num(i) \in Listed
<1>1. i \in Nat /\ i < headIndex
  BY TakerIs, RangeIs DEF QueueInv, ClaimsInv
<1>2. ~ Done(i)
  BY DEF Done
<1>3. Num(i) <= EndNum /\ Num(i) \in Int
  <2>1. i \in Int /\ tailIndex - 1 \in Int /\ i <= tailIndex - 1
    BY <1>1, EndsAre
  <2>2. Num(i) <= Num(tailIndex - 1) /\ Num(i) \in Int
    BY <2>1, NumOrder, NumType
  <2> QED
    BY <2>2, EndsAre
<1> QED
  BY <1>1, <1>2, <1>3, NotDoneListed

LEMMA SpanListed ==
  ASSUME QueueInv, NEW c \in Takers, NEW k \in SpanOf(cons[c])
  PROVE  k \in Listed /\ k \in Int
<1>1. CASE k \in {Num(i) : i \in RestOf(cons[c])}
  BY <1>1, RestListed
<1>2. CASE cons[c].pc = "unlist" /\ k = CurOf(cons[c])
  <2>1. CurOf(cons[c]) \in Int
    BY TakerIs, RangeIs DEF QueueInv, ClaimsInv
  <2> QED
    BY <1>2, <2>1 DEF Listed, Unlisting
<1> QED
  BY <1>1, <1>2 DEF SpanOf

\* There are indices ahead in every block from that of an index on.
LEMMA AheadIs ==
  ASSUME NEW t \in Nat, NEW k \in Int, Num(t) <= k
  PROVE  \E i \in Nat : t <= i /\ Num(i) = k
<1>1. /\ t \in Int /\ Num(t) \in Int /\ Key(k) \in Int /\ BLOCK_SIZE \in Nat /\ BLOCK_SIZE > 1
      /\ Key(k + 1) = Key(k) + BLOCK_SIZE /\ k + 1 \in Int
  BY NumType, KeyType, SizeFacts
<1>2. PICK i \in Int : i = Key(k) + BLOCK_SIZE - 1
  BY <1>1
<1>3. Num(i) = k
  BY <1>1, <1>2, NumIs
<1>4. t <= i
  <2>1. SUFFICES ASSUME i + 1 <= t PROVE FALSE
    BY <1>1
  <2>2. PICK j \in Int : j = i + 1 /\ j <= t
    BY <2>1
  <2>3. Num(j) <= Num(t) /\ Num(j) \in Int
    BY <1>1, <2>2, NumOrder, NumType
  <2>4. Num(j) = k + 1
    <3>1. j = Key(k + 1)
      BY <1>1, <1>2, <2>2
    <3> QED
      BY <1>1, <3>1, NumOfKey
  <2>5. Num(t) <= k
    OBVIOUS
  <2> QED
    BY <1>1, <2>3, <2>4, <2>5
<1>5. i \in Nat
  BY <1>4
<1> QED
  BY <1>3, <1>4, <1>5

\* What may still be enqueued is not done with.
LEMMA AheadListed ==
  ASSUME QueueInv, NEW k \in Int, Num(tailIndex) <= k, k <= EndNum
  PROVE  k \in Listed /\ ~ Spent(k)
<1>1. /\ tailIndex \in Nat /\ headIndex \in Nat /\ headIndex <= tailIndex
  BY EndsAre
<1>2. PICK i \in Nat : tailIndex <= i /\ Num(i) = k
  BY <1>1, AheadIs
<1>3. ~ Done(i)
  BY <1>1, <1>2 DEF Done
<1>4. k \in Listed
  BY <1>2, <1>3, NotDoneListed
<1>5. i \in Indices(k)
  BY <1>2, IndicesAre
<1> QED
  BY <1>3, <1>4, <1>5 DEF Spent

LEMMA ListedIs ==
  ASSUME QueueInv, NEW k \in Listed
  PROVE  /\ k \in Int /\ 0 <= k /\ k <= EndNum /\ k <= TopNum
         /\ headers # <<>> /\ TopNum - LastHeader.size < k
<1>1. k \in 0..EndNum /\ TopNum - LastHeader.size < k /\ EndNum \in Int /\ EndNum <= TopNum /\ TopNum \in Int
  BY EndsAre DEF QueueInv, EntriesFit, KeysFit
<1>2. headers # <<>>
  BY <1>1 DEF QueueInv, EntriesFit, HeadersFit
<1> QED
  BY <1>1, <1>2

\* The last header, and an entry of it.
LEMMA HeadersAre ==
  ASSUME QueueInv
  PROVE  /\ entry \in Seq(EntryRecs) /\ headers \in Seq(HeaderRecs) /\ Len(entry) \in Nat
         /\ Len(headers) \in Nat
         /\ \A j \in 1..Len(headers) : headers[j] \in HeaderRecs
         /\ headers # <<>> => LastHeader \in HeaderRecs /\ Len(headers) > 0
         /\ \A e \in 1..Len(entry) : entry[e] \in EntryRecs
BY DEF QueueInv, QueueTypes, LastHeader

LEMMA EntryForIs ==
  ASSUME QueueInv, headers # <<>>, NEW k \in Int
  PROVE  EntryFor(k) \in 1..Len(entry) /\ EntryFor(k) \in Int
<1>1. LastHeader \in HeaderRecs /\ Len(headers) \in Nat /\ Len(headers) > 0
  BY HeadersAre
<1>2. PICK p \in 0..LastHeader.size - 1 : p = Mod(LastHeader.tail - (TopNum - k), LastHeader.size)
  BY <1>1, EndsAre, AtType
<1>3. EntryFor(k) = LastHeader.index[p]
  BY <1>2 DEF EntryFor, At
<1>4. \A j \in 1..Len(headers) : \A q \in 0..headers[j].size - 1 : headers[j].index[q] \in 1..Len(entry)
  BY DEF QueueInv, EntriesFit, HeadersFit
<1>5. Len(headers) \in 1..Len(headers) /\ LastHeader = headers[Len(headers)]
  BY <1>1 DEF LastHeader
<1> QED
  BY <1>2, <1>3, <1>4, <1>5

LEMMA EntryApart ==
  ASSUME QueueInv, headers # <<>>, NEW k \in Int, NEW l \in Int, EntryFor(k) = EntryFor(l),
         k - l < LastHeader.size, l - k < LastHeader.size
  PROVE  k = l
BY HeadersAre, EndsAre, AtApart DEF EntryFor, QueueInv, EntriesFit, HeadersFit

\* A block in use, by its number.
LEMMA BlockIs ==
  ASSUME QueueInv, NEW k \in Listed
  PROVE  /\ EntryFor(k) \in 1..Len(entry) /\ entry[EntryFor(k)].key = Key(k)
         /\ BlockOf(k) \in 1..Len(block) /\ BlockOf(k) \in Nat /\ BlockOf(k) # NoBlock
         /\ BlockOf(k) \notin free
<1>1. k \in Int /\ k <= TopNum /\ headers # <<>> /\ TopNum \in Int
  BY ListedIs, EndsAre
<1>2. k \in k..TopNum
  BY <1>1
<1>3. entry[EntryFor(k)].key = Key(k) /\ BlockOf(k) # NoBlock
  BY <1>2 DEF QueueInv, EntriesFit, KeysFit
<1>4. BlockOf(k) \in 1..Len(block) /\ BlockOf(k) \notin free /\ Len(block) \in Nat
  BY DEF QueueInv, Owned, QueueTypes
<1> QED
  BY <1>1, <1>3, <1>4, EntryForIs

\* How the model names the entries.
LEMMA TailEntryIs ==
  ASSUME QueueInv, NEW k \in Int
  PROVE  TailEntry(TopNum - k) = EntryFor(k)
BY DEF TailEntry, EntryFor, At, Mod

LEMMA NextEntryIs ==
  ASSUME NEW h \in HeaderRecs, NEW top \in Int
  PROVE  NextEntry(h) = At(h, top, top + 1)
<1>1. h.tail \in Int
  BY HeaderIs
<1>2. h.tail - (top - (top + 1)) = h.tail + 1
  BY <1>1
<1> QED
  BY <1>2 DEF NextEntry, At, Mod

LEMMA LargerEntryIndexIs ==
  ASSUME headers # <<>>, LastHeader \in HeaderRecs
  PROVE  LargerEntryIndex = Larger(LastHeader, Len(entry))
BY DEF LargerEntryIndex, Larger, Mod

-----------------------------------------------------------------------------
(* Steps of the consumers.                                                 *)

\* A step leaves the links and the counts of the blocks.
BlocksKeep ==
  /\ Len(block') = Len(block)
  /\ \A b \in 1..Len(block) : block'[b].empty = block[b].empty /\ block'[b].next = block[b].next

\* The ends and the entries do not depend on the consumers.
LEMMA EndsKeep ==
  ASSUME UNCHANGED <<tailIndex, prod, headers>>
  PROVE  /\ EndNum' = EndNum /\ TopNum' = TopNum /\ FilledTo' = FilledTo /\ LastHeader' = LastHeader
         /\ \A k : EntryFor(k)' = EntryFor(k)
BY DEF EndNum, TopNum, FilledTo, LastHeader, EntryFor, At

LEMMA EarlierIs ==
  ASSUME NEW i \in Int, NEW h \in Nat, NEW g \in Nat, i < h, h <= g
  PROVE  i < g /\ i \notin h .. g - 1
OBVIOUS

\* A step in which nobody is done with anything.
LEMMA DoneKeeps ==
  ASSUME QueueInv, NEW c \in Takers, NEW r, cons' = [cons EXCEPT ![c] = r],
         headIndex' \in Nat, headIndex <= headIndex',
         RestOf(r) = RestOf(cons[c]) \cup (headIndex .. headIndex' - 1)
  PROVE  /\ \A i \in Int : Done(i)' <=> Done(i)
         /\ \A k \in Int : DoneOf(k)' = DoneOf(k) /\ (Spent(k)' <=> Spent(k))
<1>1. /\ cons'[c] = r /\ \A d \in Takers : d # c => cons'[d] = cons[d]
      /\ headIndex \in Nat
  BY EndsAre DEF QueueInv, ClaimsInv, ClaimTypes
<1>2. ASSUME NEW i \in Int PROVE Done(i)' <=> Done(i)
  <2>1. ASSUME Done(i) PROVE Done(i)'
    <3>1. i < headIndex /\ \A d \in Takers : i \notin RestOf(cons[d])
      BY <2>1 DEF Done
    <3>2. i < headIndex
      BY <3>1
    <3>3. i < headIndex' /\ i \notin headIndex .. headIndex' - 1
      BY <1>1, <3>2, EarlierIs, Zenon
    <3>4. \A d \in Takers : i \notin RestOf(cons'[d])
      BY <1>1, <3>1, <3>3
    <3> QED
      BY <3>3, <3>4 DEF Done, RestOf, CurOf
  <2>2. ASSUME Done(i)' PROVE Done(i)
    <3>1. i < headIndex' /\ \A d \in Takers : i \notin RestOf(cons'[d])
      BY <2>2 DEF Done, RestOf
    <3>2. i < headIndex
      <4>1. i \notin headIndex .. headIndex' - 1
        BY <1>1, <3>1
      <4> QED
        BY <1>1, <3>1, <4>1
    <3>3. \A d \in Takers : i \notin RestOf(cons[d])
      BY <1>1, <3>1
    <3> QED
      BY <3>2, <3>3 DEF Done
  <2> QED
    BY <2>1, <2>2
<1>3. ASSUME NEW k \in Int PROVE DoneOf(k)' = DoneOf(k) /\ (Spent(k)' <=> Spent(k))
  <2>1. \A i \in Indices(k) : i \in Int
    BY IndicesInt
  <2>2. \A i \in Indices(k) : Done(i)' <=> Done(i)
    BY <1>2, <2>1
  <2>3. Indices(k)' = Indices(k)
    BY DEF Indices, Key
  <2> QED
    BY <2>2, <2>3 DEF DoneOf, Spent
<1> QED
  BY <1>2, <1>3

\* A consumer looks, claims or takes.
LEMMA Looks ==
  ASSUME QueueInv, NEW c \in Takers, NEW r \in TakerCalls, cons' = [cons EXCEPT ![c] = r],
         UNCHANGED <<tailIndex, prod, tailBlock, headers, entry, free>>,
         ClaimsInv', headIndex' \in Nat, headIndex' >= headIndex,
         RestOf(r) = RestOf(cons[c]) \cup (headIndex .. headIndex' - 1),
         cons[c].pc \notin {"unlist", "free"}, r.pc \notin {"unlist", "free"},
         RangeFits(r)', GotRight(r), IndexSeen(r)', BlockSeen(r)',
         BlocksKeep, block' \in Seq(BlockRecs), DataFits'
  PROVE  QueueInv'
<1>1. /\ cons'[c] = r /\ \A d \in Takers : d # c => cons'[d] = cons[d]
      /\ headIndex \in Nat
  BY EndsAre DEF QueueInv, ClaimsInv, ClaimTypes
<1>2. \A k \in Int : DoneOf(k)' = DoneOf(k) /\ (Spent(k)' <=> Spent(k))
  BY DoneKeeps
<1>3. /\ EndNum' = EndNum /\ TopNum' = TopNum /\ FilledTo' = FilledTo /\ LastHeader' = LastHeader
      /\ \A k : EntryFor(k)' = EntryFor(k)
  BY EndsKeep
<1>4. \A k : BlockOf(k)' = BlockOf(k)
  BY <1>3 DEF BlockOf
<1>5. Listed' = Listed
  <2>1. Unlisting' = Unlisting /\ \A d \in Unlisting : cons'[d] = cons[d]
    BY <1>1 DEF Unlisting
  <2>2. \A k \in 0..EndNum : k \in Int
    BY EndsAre
  <2>3. {k \in 0..EndNum' : ~Spent(k)'} = {k \in 0..EndNum : ~Spent(k)}
    BY <1>2, <1>3, <2>2
  <2>4. {CurOf(cons'[d]) : d \in Unlisting'} = {CurOf(cons[d]) : d \in Unlisting}
    BY <2>1
  <2> QED
    BY <2>3, <2>4 DEF Listed
<1>6. QueueTypes'
  BY DEF QueueInv, QueueTypes, BlocksKeep
<1>7. HeadersFit' /\ KeysFit'
  <2>1. HeadersFit'
    BY <1>3 DEF QueueInv, EntriesFit, HeadersFit
  <2>2. KeysFit'
    BY <1>3, <1>4, <1>5 DEF QueueInv, EntriesFit, KeysFit
  <2> QED
    BY <2>1, <2>2
<1>8. Owned'
  <2>1. \A d \in Takers : cons'[d].pc = "free" <=> cons[d].pc = "free"
    BY <1>1
  <2>2. \A d \in Takers : cons[d].pc = "free" => cons'[d].block = cons[d].block
    BY <1>1
  <2>3. \A k \in Listed : k \in Int /\ BlockOf(k) \in 1..Len(block)
    BY ListedIs, BlockIs
  <2>4. \A k \in Listed : block'[BlockOf(k)].empty = Cardinality(DoneOf(k)')
    BY <1>2, <2>3 DEF QueueInv, Owned, BlocksKeep
  <2>5. \A b \in 1..Len(block) :
          b \in free \/ (\E k \in Listed : BlockOf(k) = b)
            \/ \E d \in Takers : cons'[d].pc = "free" /\ cons'[d].block = b
    BY <2>1, <2>2 DEF QueueInv, Owned
  <2>6. Len(block') = Len(block)
    BY DEF BlocksKeep
  <2>7. /\ \A k \in Listed : BlockOf(k) \notin free
        /\ \A k, l \in Listed : BlockOf(k) = BlockOf(l) => k = l
    BY DEF QueueInv, Owned
  <2>8. free' = free
    OBVIOUS
  <2> QED
    BY <1>4, <1>5, <2>3, <2>4, <2>5, <2>6, <2>7, <2>8 DEF Owned
<1>9. ProducerFits'
  <2>1. /\ QueueTypes /\ ProducerFits
    BY DEF QueueInv
  <2>2. ASSUME NEW from \in Int, Num(tailIndex) <= from, Linked(from) PROVE Linked(from)'
    <3>1. ASSUME NEW k \in from..EndNum - 1 PROVE block'[BlockOf(k)'].next = BlockOf(k + 1)'
      <4>1. k \in Listed
        <5>1. EndNum \in Int /\ Num(tailIndex) \in Int
          BY EndsAre
        <5>2. k \in Int /\ Num(tailIndex) <= k /\ k <= EndNum
          BY <2>2, <3>1, <5>1
        <5> QED
          BY <5>2, AheadListed
      <4>2. BlockOf(k) \in 1..Len(block)
        BY <4>1, BlockIs
      <4> QED
        BY <1>4, <2>2, <3>1, <4>2 DEF Linked, BlocksKeep
    <3> QED
      BY <1>3, <3>1 DEF Linked
  <2>3. prod.pc \in {"find", "found"} => Linked(Num(tailIndex))'
    <3>1. Num(tailIndex) \in Int
      BY EndsAre
    <3>2. Num(tailIndex)' = Num(tailIndex)
      BY DEF Num
    <3> QED
      BY <2>1, <2>2, <3>1, <3>2 DEF ProducerFits, Linked
  <2>4. prod.pc = "fill" => Linked(Num(prod.i))'
    <3>1. prod.pc = "fill" => Num(prod.i) \in Int /\ Num(tailIndex) <= Num(prod.i)
      <4>1. prod.i \in Int /\ tailIndex \in Int /\ (prod.pc = "fill" => tailIndex <= prod.i)
        BY <2>1, EndsAre, ProducerIs, SMTT(30) DEF ProducerFits
      <4> QED
        BY <4>1, NumType, NumOrder
    <3>2. Num(prod.i)' = Num(prod.i)
      BY DEF Num
    <3> QED
      BY <2>1, <2>2, <3>1, <3>2 DEF ProducerFits, Linked
  <2>5. Num(tailIndex)' = Num(tailIndex) /\ Num(tailIndex - 1)' = Num(tailIndex - 1)
        /\ Num(tailIndex + prod.n - 1)' = Num(tailIndex + prod.n - 1) /\ Num(prod.i)' = Num(prod.i)
    BY DEF Num
  <2> QED
    BY <1>3, <1>4, <2>1, <2>3, <2>4, <2>5 DEF ProducerFits
<1>10. TakersFit'
  <2>1. ASSUME NEW d \in Takers, NEW e \in Takers, d # e
        PROVE  RestOf(cons'[d]) \cap RestOf(cons'[e]) = {}
    <3>1. RestOf(cons[d]) \cap RestOf(cons[e]) = {}
      BY <2>1 DEF QueueInv, TakersFit, TakersApart
    <3>2. \A f \in Takers : \A i \in RestOf(cons[f]) : i \notin headIndex..headIndex' - 1
      <4>1. \A f \in Takers : \A i \in RestOf(cons[f]) : i \in Nat /\ i < headIndex
        BY RestListed
      <4> QED
        BY <1>1, <4>1
    <3> QED
      BY <1>1, <2>1, <3>1, <3>2
  <2>2. ASSUME NEW d \in Takers, NEW e \in Takers, d # e
        PROVE  /\ cons'[d].pc \in {"unlist", "free"} /\ cons'[e].pc \in {"unlist", "free"}
                    => CurOf(cons'[d]) # CurOf(cons'[e])
               /\ cons'[d].pc = "free" /\ cons'[e].pc = "free" => cons'[d].block # cons'[e].block
    BY <1>1, <2>2 DEF QueueInv, TakersFit, TakersApart
  <2>3. TakersApart'
    BY <2>1, <2>2 DEF TakersApart, RestOf, CurOf, Num
  <2>4. ASSUME NEW d \in Takers PROVE (RangeFits(cons[d]) /\ GotRight(cons[d]))'
    <3>1. CASE d = c
      BY <1>1, <3>1 DEF RangeFits, GotRight, CurOf, Num, Key
    <3>2. CASE d # c
      <4>1. RangeFits(cons[d]) /\ GotRight(cons[d]) /\ cons'[d] = cons[d] /\ cons[d].end \in Nat
        BY <1>1, <3>2, TakerIs, RangeIs DEF QueueInv, ClaimsInv
      <4> QED
        BY <1>1, <4>1 DEF RangeFits, GotRight, CurOf, Num, Key
    <3> QED
      BY <3>1, <3>2
  <2> QED
    BY <2>3, <2>4 DEF TakersFit
<1>11. TakersSee'
  <2>1. ASSUME NEW d \in Takers, d # c PROVE (IndexSeen(cons[d]) /\ BlockSeen(cons[d]))'
    <3>1. IndexSeen(cons[d]) /\ BlockSeen(cons[d]) /\ cons'[d] = cons[d]
      BY <1>1, <2>1, TakerIs
    <3>2. \A m : Points(cons[d], m)' <=> Points(cons[d], m)
      BY <1>3, <3>1 DEF Points, SpanOf, RestOf, CurOf, Num, Mod
    <3>3. IndexSeen(cons[d])'
      BY <3>1, <3>2 DEF IndexSeen, CurOf, Num, Key
    <3>4. Spent(CurOf(cons[d]))' <=> Spent(CurOf(cons[d]))
      <4>1. CurOf(cons[d]) \in Int
        BY TakerIs, RangeIs DEF QueueInv, ClaimsInv
      <4>2. PICK k \in Int : k = CurOf(cons[d])
        BY <4>1
      <4>3. CurOf(cons[d])' = k
        BY <3>1, <4>2 DEF CurOf, Num
      <4> QED
        BY <1>2, <4>2, <4>3 DEF Spent
    <3>5. BlockSeen(cons[d])'
      BY <1>4, <1>5, <3>1, <3>4 DEF BlockSeen, CurOf, Num, BlocksKeep
    <3> QED
      BY <3>3, <3>5
  <2>2. (IndexSeen(cons[c]) /\ BlockSeen(cons[c]))'
    <3>1. SpanOf(cons[c])' = SpanOf(r) /\ CurOf(cons[c])' = CurOf(r)
      BY <1>1 DEF SpanOf, RestOf, CurOf, Num
    <3>2. SpanOf(r)' = SpanOf(r) /\ CurOf(r)' = CurOf(r)
      BY DEF SpanOf, RestOf, CurOf, Num
    <3>3. \A m : Points(cons[c], m)' <=> Points(r, m)'
      BY <1>1, <3>1, <3>2 DEF Points, Mod
    <3>4. IndexSeen(cons[c])'
      BY <1>1, <3>1, <3>2, <3>3 DEF IndexSeen, Key
    <3>5. BlockSeen(cons[c])'
      BY <1>1, <3>1, <3>2 DEF BlockSeen, Spent
    <3> QED
      BY <3>4, <3>5
  <2> QED
    BY <2>1, <2>2 DEF TakersSee
<1> QED
  BY <1>6, <1>7, <1>8, <1>9, <1>10, <1>11 DEF QueueInv, EntriesFit

\* A consumer looks or claims: no block changes.
LEMMA LooksOnly ==
  ASSUME QueueInv, NEW c \in Takers, NEW r \in TakerCalls, cons' = [cons EXCEPT ![c] = r],
         UNCHANGED <<tailIndex, blocks, entry, free>>,
         ClaimsInv', headIndex' \in Nat, headIndex <= headIndex',
         RestOf(r) = RestOf(cons[c]) \cup (headIndex .. headIndex' - 1),
         UntakenOf(r) \subseteq UntakenOf(cons[c]) \cup (headIndex .. headIndex' - 1),
         cons[c].pc \notin {"unlist", "free"}, r.pc \notin {"unlist", "free"},
         RangeFits(r)', GotRight(r), IndexSeen(r)', BlockSeen(r)'
  PROVE  QueueInv'
<1>1. /\ cons'[c] = r /\ \A d \in Takers : d # c => cons'[d] = cons[d]
      /\ headIndex \in Nat /\ DataFits /\ QueueTypes
  BY EndsAre DEF QueueInv, ClaimsInv, ClaimTypes
<1>2. /\ UNCHANGED <<tailIndex, prod, tailBlock, headers, entry, free>>
      /\ tailIndex' = tailIndex /\ prod' = prod /\ headers' = headers /\ block' = block /\ entry' = entry
  BY DEF blocks
<1>3. /\ EndNum' = EndNum /\ TopNum' = TopNum /\ FilledTo' = FilledTo /\ LastHeader' = LastHeader
      /\ \A k : EntryFor(k)' = EntryFor(k)
  BY <1>2, EndsKeep
<1>4. BlocksKeep /\ block' \in Seq(BlockRecs)
  BY <1>1, <1>2 DEF BlocksKeep, QueueTypes
<1>5. DataFits'
  <2>1. ASSUME NEW i \in 0..FilledTo - 1,
               i >= headIndex' \/ (\E d \in Takers : i \in UntakenOf(cons'[d]))
        PROVE  i >= headIndex \/ (\E d \in Takers : i \in UntakenOf(cons[d]))
    <3>1. CASE i >= headIndex'
      <4>1. i \in Int
        BY <2>1 DEF FilledTo
      <4> QED
        BY <1>1, <3>1, <4>1
    <3>2. ASSUME NEW d \in Takers, i \in UntakenOf(cons'[d])
          PROVE  i >= headIndex \/ (\E e \in Takers : i \in UntakenOf(cons[e]))
      <4>1. CASE d = c
        <5>1. i \in UntakenOf(cons[c]) \/ i \in headIndex .. headIndex' - 1
          BY <1>1, <3>2, <4>1
        <5>2. i \in headIndex .. headIndex' - 1 => i >= headIndex
          BY <1>1
        <5> QED
          BY <5>1, <5>2
      <4>2. CASE d # c
        BY <1>1, <3>2, <4>2
      <4> QED
        BY <4>1, <4>2
    <3> QED
      BY <2>1, <3>1, <3>2
  <2>2. \A i : BlockOf(Num(i))' = BlockOf(Num(i))
    BY <1>2, <1>3 DEF BlockOf, Num
  <2> QED
    BY <1>1, <1>2, <1>3, <2>1, <2>2 DEF DataFits, UntakenOf
<1> QED
  BY <1>2, <1>4, <1>5, Looks

\* Before it has claimed anything.
LEMMA Prepares ==
  ASSUME QueueInv, NEW c \in Takers, NEW r, cons' = [cons EXCEPT ![c] = r],
         UNCHANGED <<headIndex, tailIndex, blocks, entry, free>>, ClaimsInv',
         cons[c].pc \in Before, r.pc \in Before, r.got = <<>>
  PROVE  QueueInv'
<1>1. cons'[c] = r /\ r \in TakerCalls /\ ClaimTypes /\ headIndex \in Nat
  BY EndsAre DEF QueueInv, ClaimsInv, ClaimTypes
<1>2. headIndex' = headIndex /\ UNCHANGED <<tailIndex, blocks, entry, free>>
  OBVIOUS
<1>3. headIndex' \in Nat /\ headIndex <= headIndex' /\ headIndex .. headIndex' - 1 = {}
  BY <1>1, <1>2
<1>4. r.pc \notin After /\ cons[c].pc \notin After
  BY DEF Before, After
<1>5. RestOf(r) = {} /\ RestOf(cons[c]) = {} /\ UntakenOf(r) = {} /\ UntakenOf(cons[c]) = {}
  BY <1>4 DEF RestOf, UntakenOf, After
<1>6. cons[c].pc \notin {"unlist", "free"} /\ r.pc \notin {"unlist", "free"}
  BY <1>4 DEF After
<1>7. RangeFits(r)'
  BY <1>4 DEF RangeFits, After
<1>8. GotRight(r) /\ IndexSeen(r)' /\ BlockSeen(r)'
  BY <1>4 DEF GotRight, IndexSeen, BlockSeen, After
<1> QED
  BY <1>1, <1>2, <1>3, <1>5, <1>6, <1>7, <1>8, LooksOnly

\* All steps of a consumer up to its claim.
LEMMA PreparesSteps ==
  ASSUME QueueInv, NEW c \in Takers, UNCHANGED <<entry, free>>,
         \/ \E max \in Asks : LoadTail(c, max)
         \/ LoadOvercommit(c) \/ Check(c) \/ Reserve(c) \/ Reload(c) \/ GiveBack(c)
  PROVE  QueueInv'
<1>1. ClaimsInv /\ ClaimTypes /\ cons[c] \in TakerCalls /\ RangeFits(cons[c])
  BY TakerIs DEF QueueInv, ClaimsInv
<1>2. cons[c].pc \in Before => cons[c].got = <<>>
  BY <1>1 DEF RangeFits, Before
<1>3. IdleConsumer.pc \in Before /\ IdleConsumer.got = <<>>
  BY DEF IdleConsumer, Before
<1>4. ASSUME NEW max \in Asks, LoadTail(c, max) PROVE QueueInv'
  <2>1. PICK r : r = [IdleConsumer EXCEPT !.pc = "overcommit", !.n = max, !.tail = tailIndex]
    OBVIOUS
  <2>2. /\ cons' = [cons EXCEPT ![c] = r] /\ cons[c].pc \in Before
        /\ UNCHANGED <<headIndex, tailIndex, blocks, entry, free>>
    BY <1>4, <2>1 DEF LoadTail, Does, counters, Before
  <2>3. r.pc \in Before /\ r.got = <<>>
    BY <2>1 DEF IdleConsumer, Before
  <2>4. ClaimsInv'
    BY <1>1, <1>4, LoadTailClaims
  <2> QED
    BY <2>2, <2>3, <2>4, Prepares
<1>5. ASSUME LoadOvercommit(c) PROVE QueueInv'
  <2>1. PICK r : r = [cons[c] EXCEPT !.pc = "check", !.over = dequeueOvercommit]
    OBVIOUS
  <2>2. /\ cons' = [cons EXCEPT ![c] = r] /\ cons[c].pc \in Before
        /\ UNCHANGED <<headIndex, tailIndex, blocks, entry, free>>
    BY <1>5, <2>1 DEF LoadOvercommit, Does, counters, Before
  <2>3. r.pc \in Before /\ r.got = <<>>
    BY <1>1, <1>2, <2>1, <2>2 DEF TakerCalls, Before
  <2>4. ClaimsInv'
    BY <1>1, <1>5, LoadOvercommitClaims
  <2> QED
    BY <2>2, <2>3, <2>4, Prepares
<1>6. ASSUME Check(c) PROVE QueueInv'
  <2>1. PICK d : d = cons[c].tail - (dequeueOptimisticCount - cons[c].over)
    OBVIOUS
  <2>2. PICK r : r = IF d > 0 THEN [cons[c] EXCEPT !.pc = "reserve", !.n = Min({d, @}), !.tail = 0]
                     ELSE IdleConsumer
    OBVIOUS
  <2>3. /\ cons' = [cons EXCEPT ![c] = r] /\ cons[c].pc \in Before
        /\ UNCHANGED <<headIndex, tailIndex, blocks, entry, free>>
    BY <1>6, <2>1, <2>2 DEF Check, Does, counters, Before
  <2>4. r.pc \in Before /\ r.got = <<>>
    <3>1. CASE d > 0
      <4>1. r = [cons[c] EXCEPT !.pc = "reserve", !.n = Min({d, @}), !.tail = 0]
        BY <2>2, <3>1
      <4>2. r.pc = "reserve" /\ r.got = cons[c].got
        BY <1>1, <4>1 DEF TakerCalls
      <4> QED
        BY <1>2, <2>3, <4>2 DEF Before
    <3>2. CASE ~ (d > 0)
      BY <1>3, <2>2, <3>2
    <3> QED
      BY <3>1, <3>2
  <2>5. ClaimsInv'
    BY <1>1, <1>6, CheckClaims
  <2> QED
    BY <2>3, <2>4, <2>5, Prepares
<1>7. ASSUME Reserve(c) PROVE QueueInv'
  <2>1. PICK r : r = [cons[c] EXCEPT !.pc = "reload", !.mine = dequeueOptimisticCount]
    OBVIOUS
  <2>2. /\ cons' = [cons EXCEPT ![c] = r] /\ cons[c].pc \in Before
        /\ UNCHANGED <<headIndex, tailIndex, blocks, entry, free>>
    BY <1>7, <2>1 DEF Reserve, Does, Before
  <2>3. r.pc \in Before /\ r.got = <<>>
    BY <1>1, <1>2, <2>1, <2>2 DEF TakerCalls, Before
  <2>4. ClaimsInv'
    BY <1>1, <1>7, ReserveClaims
  <2> QED
    BY <2>2, <2>3, <2>4, Prepares
<1>8. ASSUME Reload(c) PROVE QueueInv'
  <2>1. PICK n, b, p : n = Max({There(c), 0}) /\ b = cons[c].n - n
                        /\ p = IF b > 0 THEN "give" ELSE "claim"
    OBVIOUS
  <2>2. PICK r : r = [cons[c] EXCEPT !.pc = p, !.n = n, !.back = b, !.over = 0, !.mine = 0]
    OBVIOUS
  <2>3. /\ cons' = [cons EXCEPT ![c] = r] /\ cons[c].pc \in Before
        /\ UNCHANGED <<headIndex, tailIndex, blocks, entry, free>>
    BY <1>8, <2>1, <2>2 DEF Reload, Does, counters, Before
  <2>4. r.pc \in Before /\ r.got = <<>>
    <3>1. p \in {"give", "claim"}
      BY <2>1
    <3>2. r.pc = p /\ r.got = cons[c].got
      BY <1>1, <2>2 DEF TakerCalls
    <3> QED
      BY <1>2, <2>3, <3>1, <3>2 DEF Before
  <2>5. ClaimsInv'
    BY <1>1, <1>8, ReloadClaims
  <2> QED
    BY <2>3, <2>4, <2>5, Prepares
<1>9. ASSUME GiveBack(c) PROVE QueueInv'
  <2>1. PICK r : r = IF cons[c].n > 0 THEN [cons[c] EXCEPT !.pc = "claim", !.back = 0] ELSE IdleConsumer
    OBVIOUS
  <2>2. /\ cons' = [cons EXCEPT ![c] = r] /\ cons[c].pc \in Before
        /\ UNCHANGED <<headIndex, tailIndex, blocks, entry, free>>
    BY <1>9, <2>1 DEF GiveBack, Does, Before
  <2>3. r.pc \in Before /\ r.got = <<>>
    <3>1. CASE cons[c].n > 0
      <4>1. r = [cons[c] EXCEPT !.pc = "claim", !.back = 0]
        BY <2>1, <3>1
      <4>2. r.pc = "claim" /\ r.got = cons[c].got
        BY <1>1, <4>1 DEF TakerCalls
      <4> QED
        BY <1>2, <2>2, <4>2 DEF Before
    <3>2. CASE ~ (cons[c].n > 0)
      BY <1>3, <2>1, <3>2
    <3> QED
      BY <3>1, <3>2
  <2>4. ClaimsInv'
    BY <1>1, <1>9, GiveBackClaims
  <2> QED
    BY <2>2, <2>3, <2>4, Prepares
<1> QED
  BY <1>4, <1>5, <1>6, <1>7, <1>8, <1>9

LEMMA ClaimQueue ==
  ASSUME QueueInv, NEW c \in Takers, Claim(c), UNCHANGED <<entry, free>>
  PROVE  QueueInv'
<1>1. /\ ClaimsInv /\ ClaimTypes /\ cons[c] \in TakerCalls /\ RangeFits(cons[c])
      /\ headIndex \in Nat /\ cons[c].n \in Nat
  BY TakerIs, EndsAre, TakerFacts DEF QueueInv, ClaimsInv
<1>2. PICK h \in Nat : h = headIndex + cons[c].n
  BY <1>1
<1>3. PICK r : r = [cons[c] EXCEPT !.pc = "locate", !.n = 0, !.at = headIndex, !.end = h]
  OBVIOUS
<1>4. /\ cons[c].pc = "claim" /\ cons' = [cons EXCEPT ![c] = r] /\ headIndex' = h
      /\ UNCHANGED <<tailIndex, blocks, entry, free>>
  BY <1>2, <1>3 DEF Claim, Does
<1>5. cons[c].n > 0 /\ cons[c].got = <<>>
  BY <1>1, <1>4 DEF ClaimsInv, CallFits, RangeFits
<1>6. ClaimsInv'
  BY <1>1, ClaimClaims
<1>7. r \in TakerCalls /\ cons'[c] = r
  BY <1>1, <1>4, <1>6 DEF ClaimsInv, ClaimTypes
<1>8. r.pc = "locate" /\ r.at = headIndex /\ r.end = h /\ r.got = <<>> /\ Len(r.got) = 0
  BY <1>1, <1>3, <1>5 DEF TakerCalls
<1>9. h > headIndex
  BY <1>1, <1>2, <1>5
<1>10. RestOf(r) = headIndex..h - 1 /\ UntakenOf(r) = headIndex..h - 1 /\ RestOf(cons[c]) = {}
  <2>1. r.at - Len(r.got) = headIndex
    BY <1>1, <1>8
  <2> QED
    BY <1>4, <1>8, <2>1 DEF RestOf, UntakenOf, After
<1>11. RangeFits(r)' /\ GotRight(r) /\ IndexSeen(r)' /\ BlockSeen(r)'
  <2>1. RangeFits(r)'
    BY <1>1, <1>4, <1>8, <1>9 DEF RangeFits, After
  <2> QED
    BY <1>8, <2>1 DEF GotRight, IndexSeen, BlockSeen
<1> QED
  <2>1. headIndex' \in Nat /\ headIndex <= headIndex'
    BY <1>1, <1>4, <1>9
  <2>2. /\ RestOf(r) = RestOf(cons[c]) \cup (headIndex .. headIndex' - 1)
        /\ UntakenOf(r) \subseteq UntakenOf(cons[c]) \cup (headIndex .. headIndex' - 1)
    BY <1>4, <1>10
  <2>3. cons[c].pc \notin {"unlist", "free"} /\ r.pc \notin {"unlist", "free"}
    BY <1>4, <1>8
  <2> QED
    BY <1>4, <1>6, <1>7, <1>11, <2>1, <2>2, <2>3, LooksOnly

\* What a consumer that only looks does not change.
LEMMA LookClaims ==
  ASSUME QueueInv, NEW c \in Takers, NEW r \in TakerCalls, cons' = [cons EXCEPT ![c] = r],
         UNCHANGED <<counters, tailIndex>>, cons[c].pc \in After, r.pc \in After \cup {"idle"}
  PROVE  ClaimsInv' /\ cons'[c] = r /\ headIndex' = headIndex /\ headIndex' \in Nat
         /\ \A d \in Takers : d # c => cons'[d] = cons[d]
<1>1. ClaimsInv /\ headIndex \in Nat /\ cons \in [Takers -> TakerCalls] /\ headIndex' = headIndex
  BY EndsAre DEF QueueInv, ClaimsInv, ClaimTypes, counters
<1>2. ClaimsInv'
  BY <1>1, LaterClaims
<1> QED
  BY <1>1, <1>2

\* The indices of a consumer, when only its search goes on.
LEMMA SearchKeeps ==
  ASSUME QueueInv, NEW c \in Takers, NEW r \in TakerCalls, cons' = [cons EXCEPT ![c] = r],
         UNCHANGED <<counters, tailIndex, blocks, entry, free>>,
         cons[c].pc \in {"locate", "key"}, r.pc \in {"key", "take"},
         r.at = cons[c].at, r.end = cons[c].end, r.got = cons[c].got,
         IndexSeen(r)
  PROVE  QueueInv'
<1>1. /\ cons[c].pc \in After /\ r.pc \in After \cup {"idle"}
      /\ cons[c].pc \notin {"unlist", "free"} /\ r.pc \notin {"unlist", "free"}
  BY DEF After
<1>2. /\ ClaimsInv' /\ cons'[c] = r /\ headIndex' = headIndex /\ headIndex' \in Nat
      /\ headIndex \in Nat /\ ClaimTypes
  BY <1>1, LookClaims DEF QueueInv, ClaimsInv
<1>3. /\ RestOf(r) = RestOf(cons[c]) /\ UntakenOf(r) = UntakenOf(cons[c])
      /\ headIndex .. headIndex' - 1 = {} /\ headIndex <= headIndex'
  BY <1>2 DEF RestOf, UntakenOf, After
<1>4. RangeFits(cons[c]) /\ cons[c].got = <<>> /\ Len(r.got) = 0
  BY TakerIs DEF RangeFits
<1>5. RangeFits(r)' /\ GotRight(r)
  BY <1>2, <1>4 DEF RangeFits, GotRight, After
<1>6. /\ UNCHANGED <<tailIndex, prod, headers>> /\ headers' = headers /\ entry' = entry
  BY DEF blocks
<1>7. \A k : EntryFor(k)' = EntryFor(k)
  BY <1>6, EndsKeep
<1>8. IndexSeen(r)'
  <2>1. \A m : Points(r, m)' <=> Points(r, m)
    BY <1>6, <1>7 DEF Points, SpanOf, RestOf, CurOf, Num, Mod
  <2> QED
    BY <1>6, <2>1 DEF IndexSeen, CurOf, Num, Key
<1>9. BlockSeen(r)'
  BY DEF BlockSeen
<1> QED
  BY <1>1, <1>2, <1>3, <1>5, <1>8, <1>9, LooksOnly

\* What is still wanted by a consumer that has found no block.
LEMMA WantedIs ==
  ASSUME QueueInv, NEW c \in Takers, cons[c].pc \in {"locate", "key", "take"}
  PROVE  /\ cons[c].got = <<>> /\ Len(cons[c].got) = 0 /\ cons[c].at - Len(cons[c].got) = cons[c].at
         /\ cons[c].at \in Nat /\ cons[c].end \in Nat /\ cons[c].at < cons[c].end
         /\ CurOf(cons[c]) = Num(cons[c].at) /\ Num(cons[c].at) \in Int
         /\ cons[c].at \in RestOf(cons[c]) /\ Num(cons[c].at) \in SpanOf(cons[c])
         /\ RestOf(cons[c]) = cons[c].at .. cons[c].end - 1
<1>1. /\ RangeFits(cons[c]) /\ cons[c].at \in Nat /\ cons[c].end \in Nat /\ cons[c] \in TakerCalls
  BY TakerIs, RangeIs DEF QueueInv, ClaimsInv
<1>2. cons[c].got = <<>> /\ cons[c].at - Len(cons[c].got) = cons[c].at /\ cons[c].at < cons[c].end
  BY <1>1 DEF RangeFits, After
<1>3. RestOf(cons[c]) = cons[c].at .. cons[c].end - 1
  BY <1>2 DEF RestOf
<1>4. cons[c].at \in RestOf(cons[c])
  BY <1>1, <1>2, <1>3
<1> QED
  BY <1>1, <1>2, <1>3, <1>4, NumType DEF SpanOf, CurOf

LEMMA LoadTailEntryQueue ==
  ASSUME QueueInv, NEW c \in Takers, LoadTailEntry(c), UNCHANGED <<entry, free>>
  PROVE  QueueInv'
<1>1. PICK r : r = [cons[c] EXCEPT !.pc = "key", !.index = Len(headers), !.slot = LastHeader.tail]
  OBVIOUS
<1>2. /\ cons[c].pc = "locate" /\ cons' = [cons EXCEPT ![c] = r]
      /\ UNCHANGED <<counters, tailIndex, blocks, entry, free>>
  BY <1>1 DEF LoadTailEntry, Does
<1>3. PICK k \in SpanOf(cons[c]) : k \in Listed /\ k \in Int
  BY <1>2, WantedIs, SpanListed
<1>4. /\ headers # <<>> /\ k <= TopNum /\ TopNum \in Int
      /\ LastHeader \in HeaderRecs /\ Len(headers) \in 1..Len(headers)
      /\ LastHeader = headers[Len(headers)] /\ Len(headers) \in Nat
  BY <1>3, ListedIs, HeadersAre, EndsAre DEF LastHeader
<1>5. /\ LastHeader.size \in Nat \ {0} /\ LastHeader.tail \in 0..LastHeader.size - 1
      /\ LastHeader.tail \in Nat
  BY <1>4, HeaderIs
<1>6. cons[c] \in TakerCalls
  BY TakerIs
<1>7. /\ r \in TakerCalls /\ r.pc = "key" /\ r.index = Len(headers) /\ r.slot = LastHeader.tail
      /\ r.at = cons[c].at /\ r.end = cons[c].end /\ r.got = cons[c].got
  BY <1>1, <1>4, <1>5, <1>6 DEF TakerCalls, After
<1>8. SpanOf(r) = SpanOf(cons[c])
  BY <1>2, <1>7 DEF SpanOf, RestOf
<1>9. entry[headers[r.index].index[r.slot]].key = Key(TopNum)
  <2>1. EntryFor(TopNum) = LastHeader.index[LastHeader.tail]
    <3>1. LastHeader.tail - (TopNum - TopNum) = LastHeader.tail
      BY <1>4, <1>5
    <3>2. Mod(LastHeader.tail, LastHeader.size) = LastHeader.tail
      BY <1>5, ModType
    <3> QED
      BY <3>1, <3>2 DEF EntryFor, At
  <2>2. TopNum \in k..TopNum
    BY <1>3, <1>4
  <2>3. entry[EntryFor(TopNum)].key = Key(TopNum)
    BY <1>3, <2>2 DEF QueueInv, EntriesFit, KeysFit
  <2> QED
    BY <1>4, <1>7, <2>1, <2>3
<1>10. Points(r, TopNum)
  <2>1. ASSUME NEW l \in SpanOf(r)
        PROVE  headers[r.index].index[Mod(r.slot + (l - TopNum), headers[r.index].size)] = EntryFor(l)
    <3>1. l \in Int
      BY <1>8, SpanListed
    <3>2. r.slot + (l - TopNum) = LastHeader.tail - (TopNum - l)
      BY <1>4, <1>5, <1>7, <3>1
    <3> QED
      BY <1>4, <1>7, <3>2 DEF EntryFor, At
  <2> QED
    BY <2>1 DEF Points
<1>11. IndexSeen(r)
  BY <1>4, <1>5, <1>7, <1>9, <1>10 DEF IndexSeen
<1> QED
  BY <1>2, <1>7, <1>11, SearchKeeps

LEMMA LoadKeyQueue ==
  ASSUME QueueInv, NEW c \in Takers, LoadKey(c), UNCHANGED <<entry, free>>
  PROVE  QueueInv'
<1>1. PICK h, off, s :
        /\ h = headers[cons[c].index]
        /\ off = (Base(cons[c].at) - entry[h.index[cons[c].slot]].key) \div BLOCK_SIZE
        /\ s = Mod(cons[c].slot + off, h.size)
  OBVIOUS
<1>2. PICK r : r = [cons[c] EXCEPT !.pc = "take", !.slot = s]
  OBVIOUS
<1>3. /\ cons[c].pc = "key" /\ cons' = [cons EXCEPT ![c] = r]
      /\ UNCHANGED <<counters, tailIndex, blocks, entry, free>>
  BY <1>1, <1>2 DEF LoadKey, Does, Mod
<1>4. /\ cons[c] \in TakerCalls /\ IndexSeen(cons[c]) /\ cons[c].slot \in Nat
      /\ cons[c].index \in 1..Len(headers) /\ cons[c].slot \in 0..h.size - 1
      /\ h \in HeaderRecs /\ h.size \in Nat \ {0}
  <2>1. cons[c] \in TakerCalls /\ IndexSeen(cons[c])
    BY TakerIs
  <2>2. cons[c].index \in 1..Len(headers) /\ cons[c].slot \in 0..h.size - 1
    BY <1>1, <1>3, <2>1 DEF IndexSeen
  <2> QED
    BY <1>1, <2>1, <2>2, HeadersAre, HeaderIs DEF TakerCalls
<1>5. PICK m \in Int : entry[h.index[cons[c].slot]].key = Key(m) /\ Points(cons[c], m)
  BY <1>1, <1>3, <1>4 DEF IndexSeen
<1>6. PICK n \in Int : n = Num(cons[c].at) /\ n = CurOf(cons[c]) /\ cons[c].at \in Int
  BY <1>3, WantedIs
<1>7. off = n - m
  <2>1. Base(cons[c].at) = Key(n)
    BY <1>6, NumType
  <2> QED
    BY <1>1, <1>5, <2>1, BlocksBetween
<1>8. PICK o \in Int, u \in Nat, w \in Nat \ {0}, x \in Int :
        o = off /\ u = cons[c].slot /\ w = h.size /\ x = u + o
  <2>1. PICK u \in Nat, w \in Nat \ {0} : u = cons[c].slot /\ w = h.size
    BY <1>4
  <2>2. PICK o \in Int : o = off
    BY <1>7
  <2>3. u + o \in Int
    OBVIOUS
  <2> QED
    BY <2>1, <2>2, <2>3
<1>9. s \in 0..h.size - 1 /\ s \in Nat
  <2>1. Mod(x, w) \in 0..w - 1
    BY ModType
  <2>2. s = Mod(x, w)
    BY <1>1, <1>8
  <2> QED
    BY <1>8, <2>1, <2>2
<1>10. /\ r \in TakerCalls /\ r.pc = "take" /\ r.slot = s /\ r.index = cons[c].index
       /\ r.at = cons[c].at /\ r.end = cons[c].end /\ r.got = cons[c].got
  BY <1>2, <1>4, <1>9 DEF TakerCalls, After
<1>11. SpanOf(r) = SpanOf(cons[c]) /\ CurOf(r) = n
  BY <1>3, <1>6, <1>10 DEF SpanOf, RestOf, CurOf
<1>12. Points(r, n)
  <2>1. ASSUME NEW l \in SpanOf(r)
        PROVE  h.index[Mod(s + (l - n), h.size)] = EntryFor(l)
    <3>1. l \in Int
      BY <1>11, SpanListed
    <3>2. PICK y \in Int, z \in Int : y = l - n /\ z = u + (l - m)
      BY <3>1
    <3>3. x + y = z
      BY <1>8, <1>7, <3>1, <3>2
    <3>4. Mod(Mod(x, w) + y, w) = Mod(x + y, w)
      BY ModAdds
    <3>5. h.index[Mod(z, h.size)] = EntryFor(l)
      BY <1>1, <1>5, <1>11, <1>8, <3>2 DEF Points
    <3>6. s = Mod(x, w)
      BY <1>1, <1>8
    <3> QED
      BY <1>8, <3>2, <3>3, <3>4, <3>5, <3>6
  <2> QED
    BY <1>1, <1>10, <2>1 DEF Points
<1>13. IndexSeen(r)
  BY <1>1, <1>4, <1>9, <1>10, <1>11, <1>12 DEF IndexSeen
<1> QED
  BY <1>3, <1>10, <1>13, SearchKeeps

\* Consumer c takes the m elements up to index e from block b, as g, leaving f.
Taking(c, b, e, m, g, f) ==
  LET a == cons[c].at
      z == cons[c].end
  IN /\ e = a + m /\ e <= z
     /\ e = z \/ e = Key(Num(a) + 1)
     /\ \A i \in a .. e - 1 : Num(i) = Num(a)
     /\ Len(g) = m
     /\ \A k \in 1..m : g[k] = block[b].data[(a + k - 1) % BLOCK_SIZE]
     /\ \A s \in Slots : f[s] # block[b].data[s] => \E i \in a .. e - 1 : i % BLOCK_SIZE = s
     /\ block' = [block EXCEPT ![b].data = f]
     /\ cons' = [cons EXCEPT ![c] = [cons[c] EXCEPT !.pc = "empty", !.block = b, !.at = e, !.got = g]]

\* What a consumer takes from a block.
LEMMA TakeFromIs ==
  ASSUME block \in Seq(BlockRecs), NEW c \in Takers, NEW b \in 1..Len(block), TakeFrom(c, b),
         cons[c] \in TakerCalls, cons[c].at < cons[c].end
  PROVE  \E e \in Nat, m \in Nat \ {0}, g \in Seq(Nat), f \in [Slots -> Nat] : Taking(c, b, e, m, g, f)
<1>1. PICK a \in Nat, z \in Nat : a = cons[c].at /\ z = cons[c].end /\ a < z
  BY DEF TakerCalls
<1>2. a \in Int
  BY <1>1
<1>3. Num(a) \in Int
  BY <1>2, NumType
<1>4. PICK n \in Int : n = Num(a)
  BY <1>3
<1>5. /\ Key(n) \in Int /\ Key(n) <= a /\ a < Key(n) + BLOCK_SIZE
      /\ Base(a) = Key(n) /\ Key(n + 1) = Key(n) + BLOCK_SIZE /\ BLOCK_SIZE \in Nat
  <2>1. /\ Key(Num(a)) <= a /\ a < Key(Num(a)) + BLOCK_SIZE /\ Key(Num(a)) = Base(a)
    BY <1>2, NumType
  <2>2. Key(n) \in Int /\ Key(n + 1) = Key(n) + BLOCK_SIZE
    BY KeyType
  <2> QED
    BY <1>4, <2>1, <2>2, SizeFacts
<1>6. PICK e \in Int : /\ e = EndOfBlock(a, z) /\ e <= z /\ e <= Key(n + 1) /\ a < e
                       /\ e = z \/ e = Key(n + 1)
  <2>1. PICK x \in Int : x = Key(n) + BLOCK_SIZE
    BY <1>5
  <2>2. EndOfBlock(a, z) = IF x <= z THEN x ELSE z
    <3>1. z \in Int
      BY <1>1
    <3>2. Min({x, z}) = IF x <= z THEN x ELSE z
      BY <2>1, <3>1, MinOfTwo
    <3> QED
      BY <1>5, <2>1, <3>2 DEF EndOfBlock
  <2> QED
    BY <1>1, <1>5, <2>1, <2>2, SMTT(30)
<1>7. PICK m \in Nat \ {0} : m = e - a
  BY <1>1, <1>6
<1>8. \A i \in a .. e - 1 : Num(i) = n /\ i \in Int
  <2>1. ASSUME NEW i \in a .. e - 1 PROVE Num(i) = n /\ i \in Int
    <3>1. i \in Int /\ Key(n) <= i /\ i < Key(n) + BLOCK_SIZE
      BY <1>1, <1>5, <1>6, SMTT(30)
    <3> QED
      BY <3>1, NumIs
  <2> QED
    BY <2>1
<1>9. Cardinality(a .. EndOfBlock(a, z) - 1) = m
  <2>1. PICK y \in Int : y = e - 1
    BY <1>6
  <2>2. a <= y /\ y - a + 1 = m
    BY <1>2, <1>6, <1>7, <2>1
  <2>3. Cardinality(a..y) = IF a > y THEN 0 ELSE y - a + 1
    BY <1>2, FS_Interval
  <2>4. Cardinality(a..y) = m
    BY <1>2, <2>2, <2>3
  <2> QED
    BY <1>6, <2>1, <2>4
<1>10. PICK at : at = [k \in 1..m |-> (a + k - 1) % BLOCK_SIZE]
  OBVIOUS
<1>11. at \in Seq(Slots) /\ Len(at) = m /\ DOMAIN at = 1..m
  <2>1. ASSUME NEW k \in 1..m PROVE (a + k - 1) % BLOCK_SIZE \in Slots
    <3>1. a + k - 1 \in Int
      BY <1>1
    <3> QED
      BY <3>1, NumType
  <2> QED
    BY <1>10, <2>1
<1>12. block[b] \in BlockRecs
  OBVIOUS
<1>13. block[b].data \in [Slots -> Nat]
  BY <1>12 DEF BlockRecs
<1>14. PICK g : g = [k \in DOMAIN at |-> block[b].data[at[k]]]
  OBVIOUS
<1>15. g \in Seq(Nat) /\ Len(g) = m
       /\ \A k \in 1..m : g[k] = block[b].data[(a + k - 1) % BLOCK_SIZE]
  <2>1. \A k \in 1..m : at[k] \in Slots
    BY <1>11
  <2>2. \A k \in 1..m : block[b].data[at[k]] \in Nat
    BY <1>13, <2>1
  <2>3. g = [k \in 1..m |-> block[b].data[at[k]]]
    BY <1>11, <1>14
  <2>4. g \in Seq(Nat) /\ Len(g) = m
    BY <2>2, <2>3
  <2>5. \A k \in 1..m : g[k] = block[b].data[(a + k - 1) % BLOCK_SIZE]
    BY <1>10, <2>3
  <2> QED
    BY <2>4, <2>5
<1>16. PICK f : f = [s \in Slots |-> IF \E k \in DOMAIN at : at[k] = s THEN Destroyed
                                    ELSE block[b].data[s]]
  OBVIOUS
<1>17. f \in [Slots -> Nat]
  BY <1>13, <1>16 DEF Destroyed
<1>18. \A s \in Slots : f[s] # block[b].data[s] => \E i \in a .. e - 1 : i % BLOCK_SIZE = s
  <2>1. ASSUME NEW s \in Slots, f[s] # block[b].data[s]
        PROVE  \E i \in a .. e - 1 : i % BLOCK_SIZE = s
    <3>1. PICK k \in 1..m : at[k] = s
      BY <1>11, <1>16, <2>1
    <3>2. PICK i \in Int : i = a + k - 1
      BY <1>1
    <3>3. i \in a .. e - 1
      BY <1>1, <1>6, <1>7, <3>2, SMTT(30)
    <3>4. i % BLOCK_SIZE = s
      BY <1>10, <3>1, <3>2
    <3> QED
      BY <3>3, <3>4
  <2> QED
    BY <2>1
<1>19. a + Len(at) = e
  BY <1>1, <1>6, <1>7, <1>11
<1>20. block' = [block EXCEPT ![b].data = f]
  BY <1>1, <1>9, <1>10, <1>16 DEF TakeFrom
<1>21. cons' = [cons EXCEPT ![c] = [cons[c] EXCEPT !.pc = "empty", !.block = b, !.at = e, !.got = g]]
  <2>1. cons' = [cons EXCEPT ![c] = [cons[c] EXCEPT !.pc = "empty", !.block = b,
                                     !.at = cons[c].at + Len(at), !.got = g]]
    BY <1>1, <1>9, <1>10, <1>14 DEF TakeFrom, Does
  <2> QED
    BY <1>1, <1>19, <2>1
<1>22. e \in Nat /\ e = a + m
  BY <1>1, <1>6, <1>7
<1>23. Taking(c, b, e, m, g, f)
  BY <1>1, <1>4, <1>6, <1>8, <1>15, <1>18, <1>20, <1>21, <1>22 DEF Taking
<1> QED
  BY <1>15, <1>17, <1>22, <1>23

\* The blocks that elements are filled into.
LEMMA FilledIs ==
  ASSUME QueueInv
  PROVE  /\ FilledTo \in Nat /\ tailIndex <= FilledTo
         /\ \A i \in Int : i < FilledTo => Num(i) <= EndNum
<1>1. /\ tailIndex \in Nat /\ QueueTypes /\ ProducerFits /\ Num(tailIndex - 1) \in Int
      /\ Num(tailIndex - 1) <= EndNum /\ EndNum \in Int /\ prod.i \in Nat /\ prod.n \in Nat
  BY EndsAre, ProducerIs DEF QueueInv
<1>2. PICK t \in Int, u \in Int : t = tailIndex - 1 /\ u = tailIndex + prod.n - 1
  BY <1>1
<1>3. CASE prod.pc \in {"fill", "publish"}
  <2>1. FilledTo = prod.i /\ EndNum = Num(u) /\ tailIndex <= prod.i /\ prod.i <= u + 1
    BY <1>1, <1>2, <1>3 DEF FilledTo, EndNum, ProducerFits
  <2>2. ASSUME NEW i \in Int, i < FilledTo PROVE Num(i) <= EndNum
    <3>1. i <= u
      BY <1>1, <2>1, <2>2
    <3> QED
      BY <2>1, <3>1, NumOrder
  <2> QED
    BY <1>1, <2>1, <2>2
<1>4. CASE prod.pc \notin {"fill", "publish"}
  <2>1. FilledTo = tailIndex
    BY <1>4 DEF FilledTo
  <2>2. ASSUME NEW i \in Int, i < FilledTo PROVE Num(i) <= EndNum
    <3>1. i <= t
      BY <1>1, <1>2, <2>1, <2>2
    <3>2. Num(i) <= Num(t) /\ Num(i) \in Int
      BY <3>1, NumOrder, NumType
    <3> QED
      BY <1>1, <1>2, <3>2
  <2> QED
    BY <1>1, <2>1, <2>2
<1> QED
  BY <1>3, <1>4

\* An index that has an element, or still has.
LEMMA ElementIs ==
  ASSUME QueueInv, NEW i \in 0..FilledTo - 1,
         i >= headIndex \/ \E c \in Takers : i \in UntakenOf(cons[c])
  PROVE  /\ i \in Nat /\ Num(i) \in Int /\ Num(i) \in Listed
         /\ block[BlockOf(Num(i))].data[i % BLOCK_SIZE] = i + 1
<1>1. i \in Nat /\ i \in Int /\ i < FilledTo /\ headIndex \in Nat
  BY FilledIs, EndsAre
<1>2. Num(i) \in Int /\ Num(i) <= EndNum
  BY <1>1, NumType, FilledIs
<1>3. ~ Done(i)
  <2>1. CASE i >= headIndex
    BY <1>1, <2>1 DEF Done
  <2>2. CASE \E c \in Takers : i \in UntakenOf(cons[c])
    <3>1. PICK c \in Takers : i \in UntakenOf(cons[c])
      BY <2>2
    <3>2. i \in RestOf(cons[c])
      BY <3>1, TakerIs, RangeIs DEF QueueInv, ClaimsInv
    <3> QED
      BY <3>2 DEF Done
  <2> QED
    BY <2>1, <2>2
<1> QED
  BY <1>1, <1>2, <1>3, NotDoneListed DEF QueueInv, DataFits

\* A consumer has found the entry of the block it is at.
LEMMA EntryOfIs ==
  ASSUME QueueInv, NEW c \in Takers, cons[c].pc \in {"take", "unlist"}
  PROVE  /\ EntryOf(c) = EntryFor(CurOf(cons[c]))
         /\ CurOf(cons[c]) \in Listed /\ CurOf(cons[c]) \in Int
<1>1. CurOf(cons[c]) \in SpanOf(cons[c])
  <2>1. CASE cons[c].pc = "take"
    BY <2>1, WantedIs
  <2>2. CASE cons[c].pc = "unlist"
    BY <2>2 DEF SpanOf
  <2> QED
    BY <2>1, <2>2
<1>2. PICK n \in Int : n = CurOf(cons[c]) /\ n \in Listed
  BY <1>1, SpanListed
<1>3. /\ cons[c] \in TakerCalls /\ IndexSeen(cons[c])
  BY TakerIs
<1>4. /\ cons[c].index \in 1..Len(headers)
      /\ cons[c].slot \in 0..headers[cons[c].index].size - 1
      /\ Points(cons[c], n)
  BY <1>2, <1>3 DEF IndexSeen
<1>5. headers[cons[c].index].size \in Nat \ {0}
  BY <1>4, HeadersAre, HeaderIs
<1>6. headers[cons[c].index].index[Mod(cons[c].slot + (n - n), headers[cons[c].index].size)]
        = EntryFor(n)
  BY <1>1, <1>2, <1>4 DEF Points
<1>7. cons[c].slot + (n - n) = cons[c].slot
  BY <1>4, <1>5
<1>8. Mod(cons[c].slot, headers[cons[c].index].size) = cons[c].slot
  <2>1. PICK w \in Nat \ {0}, u \in Int : /\ w = headers[cons[c].index].size /\ u = cons[c].slot
                                       /\ u \in 0..w - 1
    BY <1>4, <1>5
  <2>2. Mod(u, w) = u
    BY <2>1, ModType
  <2> QED
    BY <2>1, <2>2
<1> QED
  BY <1>2, <1>6, <1>7, <1>8 DEF EntryOf

LEMMA TakeEntryQueue ==
  ASSUME QueueInv, NEW c \in Takers, TakeEntry(c), UNCHANGED <<entry, free>>
  PROVE  QueueInv'
<1>1. cons[c].pc = "take" /\ QueueTypes /\ block \in Seq(BlockRecs) /\ ClaimTypes
  BY DEF TakeEntry, TakeFrom, Does, QueueInv, QueueTypes, ClaimsInv
<1>2. /\ cons[c] \in TakerCalls /\ IndexSeen(cons[c]) /\ RangeFits(cons[c])
      /\ cons[c].index \in 1..Len(headers)
      /\ cons[c].slot \in 0..headers[cons[c].index].size - 1
      /\ headers[cons[c].index].size \in Nat \ {0}
  <2>1. cons[c] \in TakerCalls /\ IndexSeen(cons[c]) /\ RangeFits(cons[c])
    BY TakerIs
  <2>2. cons[c].index \in 1..Len(headers) /\ cons[c].slot \in 0..headers[cons[c].index].size - 1
    BY <1>1, <2>1 DEF IndexSeen
  <2> QED
    BY <2>1, <2>2, HeadersAre, HeaderIs
<1>3. PICK a \in Nat, z \in Nat, n \in Int :
        /\ a = cons[c].at /\ z = cons[c].end /\ a < z /\ n = Num(a) /\ n = CurOf(cons[c])
        /\ n \in SpanOf(cons[c]) /\ RestOf(cons[c]) = a..z - 1 /\ z <= headIndex
  BY <1>1, <1>2, WantedIs DEF RangeFits, After
<1>4. EntryOf(c) = EntryFor(n)
  BY <1>1, <1>3, EntryOfIs
<1>5. n \in Listed
  BY <1>3, SpanListed
<1>6. PICK b \in 1..Len(block) : b = BlockOf(n)
  BY <1>5, BlockIs
<1>7. TakeFrom(c, b)
  BY <1>4, <1>6 DEF TakeEntry, BlockOf
<1>8. PICK e \in Nat, m \in Nat \ {0}, g \in Seq(Nat), f \in [Slots -> Nat] :
        Taking(c, b, e, m, g, f)
  BY <1>1, <1>2, <1>3, <1>7, TakeFromIs
<1>9. /\ e = a + m /\ e <= z
      /\ e = z \/ e = Key(n + 1)
      /\ \A i \in a .. e - 1 : Num(i) = n
      /\ Len(g) = m
      /\ \A k \in 1..m : g[k] = block[b].data[(a + k - 1) % BLOCK_SIZE]
      /\ \A s \in Slots : f[s] # block[b].data[s] =>
           \E i \in a .. e - 1 : i % BLOCK_SIZE = s
      /\ block' = [block EXCEPT ![b].data = f]
      /\ cons' = [cons EXCEPT ![c] = [cons[c] EXCEPT !.pc = "empty", !.block = b, !.at = e, !.got = g]]
  BY <1>3, <1>8 DEF Taking
<1>10. PICK r : r = [cons[c] EXCEPT !.pc = "empty", !.block = b, !.at = e, !.got = g]
  OBVIOUS
<1>11. /\ r \in TakerCalls /\ r.pc = "empty" /\ r.block = b /\ r.at = e /\ r.got = g
       /\ r.end = z /\ r.index = cons[c].index /\ r.slot = cons[c].slot
  <2>1. b \in Nat
    BY <1>6
  <2> QED
    BY <1>2, <1>3, <1>10, <2>1 DEF TakerCalls, After
<1>12. /\ cons' = [cons EXCEPT ![c] = r] /\ UNCHANGED <<counters, tailIndex>>
       /\ UNCHANGED <<tailIndex, prod, tailBlock, headers, entry, free>>
       /\ headers' = headers /\ entry' = entry /\ headIndex' = headIndex
  BY <1>7, <1>9, <1>10 DEF TakeFrom, counters
<1>13. /\ ClaimsInv' /\ cons'[c] = r /\ headIndex' \in Nat /\ headIndex' >= headIndex
       /\ headIndex \in Nat /\ \A d \in Takers : d # c => cons'[d] = cons[d]
  <2>1. cons[c].pc \in After /\ r.pc \in After \cup {"idle"}
    BY <1>1, <1>11 DEF After
  <2>2. /\ ClaimsInv' /\ cons'[c] = r /\ headIndex' = headIndex /\ headIndex' \in Nat
        /\ \A d \in Takers : d # c => cons'[d] = cons[d]
    BY <1>11, <1>12, <2>1, LookClaims
  <2> QED
    BY <2>2
<1>14. e - Len(g) = a /\ RestOf(r) = a..z - 1 /\ CurOf(r) = n /\ r.at - Len(r.got) = a
  <2>1. e - Len(g) = a
    BY <1>3, <1>9
  <2> QED
    BY <1>3, <1>11, <2>1 DEF RestOf, CurOf
<1>15. RestOf(r) = RestOf(cons[c]) \cup (headIndex .. headIndex' - 1)
  <2>1. headIndex .. headIndex' - 1 = {}
    BY <1>12, <1>13
  <2> QED
    BY <1>3, <1>14, <2>1
<1>16. UntakenOf(r) = e..z - 1 /\ UntakenOf(cons[c]) = a..z - 1
  BY <1>1, <1>3, <1>11 DEF UntakenOf, After
<1>17. RangeFits(r)'
  <2>1. 0 <= a /\ a < z /\ e <= z /\ z <= headIndex /\ m > 0
    BY <1>3, <1>9
  <2>2. Num(e - 1) = n
    <3>1. e = a + m
      BY <1>9
    <3>2. e - 1 \in a .. e - 1
      BY <3>1
    <3> QED
      BY <1>9, <3>2
  <2> QED
    BY <1>9, <1>11, <1>12, <1>14, <2>1, <2>2 DEF RangeFits, CurOf, Num, Key
<1>18. GotRight(r)
  <2>1. ASSUME NEW k \in 1..m PROVE g[k] = a + k
    <3>1. PICK i \in Int : i = a + k - 1
      BY <1>3
    <3>2. /\ a \in Nat /\ z \in Nat /\ e = a + m /\ m \in Nat /\ e <= z /\ z <= headIndex
          /\ headIndex \in Nat
      BY <1>3, <1>9, <1>13
    <3>3. /\ i = a + k - 1 /\ i \in a .. e - 1 /\ i \in a .. z - 1 /\ i < headIndex /\ 0 <= i
      BY <3>1, <3>2
    <3>4. i \in 0..FilledTo - 1
      <4>1. headIndex <= tailIndex /\ tailIndex <= FilledTo /\ tailIndex \in Nat /\ FilledTo \in Nat
        BY FilledIs, EndsAre
      <4> QED
        BY <3>2, <3>3, <4>1
    <3>5. i \in UntakenOf(cons[c])
      BY <1>16, <3>3
    <3>6. block[BlockOf(Num(i))].data[i % BLOCK_SIZE] = i + 1
      BY <3>4, <3>5, ElementIs
    <3>7. Num(i) = n
      BY <1>9, <3>3
    <3>8. g[k] = i + 1
      BY <1>6, <1>9, <3>3, <3>6, <3>7
    <3> QED
      BY <3>3, <3>8
  <2> QED
    BY <1>9, <1>11, <1>14, <2>1 DEF GotRight
<1>19. /\ EndNum' = EndNum /\ TopNum' = TopNum /\ FilledTo' = FilledTo
       /\ \A k : EntryFor(k)' = EntryFor(k)
  <2>1. UNCHANGED <<tailIndex, prod, headers>>
    BY <1>12
  <2> QED
    BY <2>1, EndsKeep
<1>20. \A k : BlockOf(k)' = BlockOf(k)
  BY <1>12, <1>19 DEF BlockOf
<1>21. IndexSeen(r)'
  <2>1. SpanOf(r) = SpanOf(cons[c])
    BY <1>1, <1>3, <1>11, <1>14 DEF SpanOf
  <2>2. Points(cons[c], n)
    BY <1>1, <1>2, <1>3 DEF IndexSeen
  <2>3. Points(r, n)
    BY <1>11, <2>1, <2>2 DEF Points
  <2>4. \A k \in Int : Points(r, k)' <=> Points(r, k)
    BY <1>12, <1>19 DEF Points, SpanOf, RestOf, CurOf, Num, Mod
  <2>5. CurOf(r)' = n
    BY <1>14 DEF CurOf, Num
  <2> QED
    BY <1>2, <1>11, <1>12, <2>3, <2>4, <2>5 DEF IndexSeen
<1>22. BlockSeen(r)'
  <2>1. CurOf(r)' = n
    BY <1>14 DEF CurOf, Num
  <2> QED
    BY <1>6, <1>11, <1>20, <2>1 DEF BlockSeen
<1>23. /\ BlocksKeep /\ block' \in Seq(BlockRecs) /\ block'[b].data = f
       /\ \A d \in 1..Len(block) : d # b => block'[d].data = block[d].data
  <2>1. block[b] \in BlockRecs
    BY <1>1
  <2>2. [block[b] EXCEPT !.data = f] \in BlockRecs /\ [block[b] EXCEPT !.data = f].empty = block[b].empty
        /\ [block[b] EXCEPT !.data = f].next = block[b].next /\ [block[b] EXCEPT !.data = f].data = f
    BY <2>1 DEF BlockRecs
  <2>3. block' = [block EXCEPT ![b] = [block[b] EXCEPT !.data = f]]
    BY <1>9
  <2> QED
    BY <1>1, <2>2, <2>3 DEF BlocksKeep
<1>24. DataFits'
  <2>1. ASSUME NEW i \in 0..FilledTo - 1,
               i >= headIndex \/ (\E d \in Takers : i \in UntakenOf(cons'[d]))
        PROVE  block'[BlockOf(Num(i))].data[i % BLOCK_SIZE] = i + 1
    <3>1. i \in Int
      BY FilledIs
    <3>2. i \notin a..e - 1
      <4>1. CASE i >= headIndex
        BY <1>3, <1>9, <1>13, <3>1, <4>1, SMTT(30)
      <4>2. ASSUME NEW d \in Takers, i \in UntakenOf(cons'[d]) PROVE i \notin a..e - 1
        <5>1. CASE d = c
          <6>1. i \in e..z - 1
            BY <1>13, <1>16, <4>2, <5>1
          <6> QED
            BY <1>9, <6>1
        <5>2. CASE d # c
          <6>1. i \in RestOf(cons[d])
            BY <1>13, <4>2, <5>2, TakerIs, RangeIs DEF QueueInv, ClaimsInv
          <6>2. i \notin RestOf(cons[c])
            BY <5>2, <6>1 DEF QueueInv, TakersFit, TakersApart
          <6>3. a..e - 1 \subseteq a..z - 1
            BY <1>9
          <6> QED
            BY <1>3, <6>2, <6>3
        <5> QED
          BY <5>1, <5>2
      <4> QED
        BY <2>1, <4>1, <4>2
    <3>3. i >= headIndex \/ (\E d \in Takers : i \in UntakenOf(cons[d]))
      <4>1. e..z - 1 \subseteq a..z - 1
        BY <1>9
      <4>2. \A d \in Takers : UntakenOf(cons'[d]) \subseteq UntakenOf(cons[d])
        BY <1>13, <1>16, <4>1
      <4> QED
        BY <2>1, <4>2
    <3>4. /\ Num(i) \in Listed /\ block[BlockOf(Num(i))].data[i % BLOCK_SIZE] = i + 1
      BY <3>3, ElementIs
    <3>5. BlockOf(Num(i)) \in 1..Len(block)
      BY <3>4, BlockIs
    <3>6. CASE BlockOf(Num(i)) # b
      BY <1>23, <3>4, <3>5, <3>6
    <3>7. CASE BlockOf(Num(i)) = b
      <4>1. Num(i) = n
        BY <1>5, <1>6, <3>4, <3>7 DEF QueueInv, Owned
      <4>2. i % BLOCK_SIZE \in Slots
        BY <3>1, NumType
      <4>3. ~ \E j \in a..e - 1 : j % BLOCK_SIZE = i % BLOCK_SIZE
        <5>1. ASSUME NEW j \in a..e - 1, j % BLOCK_SIZE = i % BLOCK_SIZE PROVE FALSE
          <6>1. j \in Int /\ Num(j) = n
            BY <1>9
          <6> QED
            BY <3>1, <3>2, <4>1, <5>1, <6>1, PlaceIs
        <5> QED
          BY <5>1
      <4>4. f[i % BLOCK_SIZE] = block[b].data[i % BLOCK_SIZE]
        BY <1>9, <4>2, <4>3
      <4> QED
        BY <1>23, <3>4, <3>7, <4>4
    <3> QED
      BY <3>6, <3>7
  <2>2. \A i : BlockOf(Num(i))' = BlockOf(Num(i))
    BY <1>20 DEF Num
  <2> QED
    BY <1>12, <1>19, <2>1, <2>2 DEF DataFits, UntakenOf
<1> QED
  BY <1>1, <1>11, <1>12, <1>13, <1>15, <1>17, <1>18, <1>21, <1>22, <1>23, <1>24, Looks

-----------------------------------------------------------------------------
(* A consumer is done with what it took.                                   *)

\* The parts of the queue a consumer that is done may change.
LEMMA Finishes ==
  ASSUME QueueInv, NEW c \in Takers, NEW r \in TakerCalls, cons' = [cons EXCEPT ![c] = r],
         UNCHANGED <<counters, tailIndex, prod, tailBlock, headers>>, ClaimsInv', QueueTypes',
         RestOf(r) \subseteq RestOf(cons[c]), UntakenOf(r) \subseteq UntakenOf(cons[c]),
         Len(entry') = Len(entry), \A e \in 1..Len(entry) : entry'[e].key = entry[e].key,
         Len(block') = Len(block),
         \A b \in 1..Len(block) : block'[b].data = block[b].data /\ block'[b].next = block[b].next,
         Listed' \subseteq Listed, \A k \in Listed' : BlockOf(k)' = BlockOf(k),
         \A e \in 1..Len(entry) : entry'[e].value # NoBlock => \E k \in Listed' : e = EntryFor(k),
         Owned', TakersApart',
         RangeFits(r)', GotRight(r), IndexSeen(r)', BlockSeen(r)',
         \A d \in Takers : d # c => BlockSeen(cons[d])'
  PROVE  QueueInv'
<1>1. /\ cons'[c] = r /\ \A d \in Takers : d # c => cons'[d] = cons[d]
      /\ headIndex \in Nat /\ tailIndex \in Nat /\ headIndex <= tailIndex /\ headIndex' = headIndex
      /\ tailIndex' = tailIndex /\ prod' = prod /\ tailBlock' = tailBlock /\ headers' = headers
  BY EndsAre DEF QueueInv, ClaimsInv, ClaimTypes, counters
<1>2. /\ EndNum' = EndNum /\ TopNum' = TopNum /\ FilledTo' = FilledTo /\ LastHeader' = LastHeader
      /\ \A k : EntryFor(k)' = EntryFor(k)
  BY <1>1, EndsKeep
<1>3. /\ \A k : Key(k)' = Key(k) /\ Num(k)' = Num(k)
  BY DEF Key, Num
<1>4. ASSUME NEW i \in Nat, ~ Done(i), i >= headIndex \/ (\E d \in Takers : i \in UntakenOf(cons'[d])),
             Num(i) <= EndNum
      PROVE  Num(i) \in Listed'
  <2>1. ~ Done(i)'
    <3>1. CASE i >= headIndex
      BY <1>1, <3>1 DEF Done
    <3>2. ASSUME NEW d \in Takers, i \in UntakenOf(cons'[d]) PROVE ~ Done(i)'
      <4>1. i \in RestOf(cons'[d])
        <5>1. ClaimTypes' /\ RangeFits(cons'[d]) /\ cons'[d] \in TakerCalls
          <6>1. CASE d = c
            BY <1>1, <6>1 DEF ClaimsInv, RangeFits, CurOf, Num, Key
          <6>2. CASE d # c
            BY <1>1, <6>2, TakerIs DEF ClaimsInv
          <6> QED
            BY <6>1, <6>2
        <5>2. ClaimTypes
          BY DEF QueueInv, ClaimsInv
        <5> QED
          BY <3>2, <5>1, <5>2, RangeIs
      <4> QED
        BY <4>1 DEF Done, RestOf
    <3> QED
      BY <1>4, <3>1, <3>2
  <2>2. Num(i) \in Int /\ Num(i) >= 0 /\ EndNum \in Int
    <3>1. i \in Int /\ i >= 0
      OBVIOUS
    <3> QED
      BY <3>1, NumType, NumNat, EndsAre
  <2>3. i \in Indices(Num(i))
    BY <2>2, IndicesAre
  <2>4. ~ Spent(Num(i))'
    <3>1. \A k : Indices(k)' = Indices(k)
      BY DEF Indices, Key
    <3> QED
      BY <1>3, <2>1, <2>3, <3>1 DEF Spent
  <2> QED
    BY <1>2, <1>4, <2>2, <2>4 DEF Listed
<1>5. ASSUME NEW k \in Int, Num(tailIndex) <= k, k <= EndNum
      PROVE  k \in Listed' /\ BlockOf(k)' = BlockOf(k) /\ BlockOf(k) \in 1..Len(block)
  <2>1. PICK i \in Nat : tailIndex <= i /\ Num(i) = k
    BY <1>1, <1>5, AheadIs
  <2>2. ~ Done(i) /\ i >= headIndex
    BY <1>1, <2>1 DEF Done
  <2>3. k \in Listed'
    BY <1>4, <1>5, <2>1, <2>2
  <2> QED
    BY <2>3, BlockIs
<1>6. HeadersFit'
  BY <1>1, <1>2 DEF QueueInv, EntriesFit, HeadersFit
<1>7. KeysFit'
  <2>1. ASSUME NEW k \in Listed'
        PROVE  /\ k \in 0..EndNum /\ TopNum - LastHeader.size < k
               /\ BlockOf(k)' # NoBlock
               /\ \A l \in k..TopNum : entry'[EntryFor(l)].key = Key(l)
    <3>1. /\ k \in Listed /\ k \in 0..EndNum /\ TopNum - LastHeader.size < k
          /\ BlockOf(k) # NoBlock
          /\ \A l \in k..TopNum : entry[EntryFor(l)].key = Key(l)
      BY <2>1 DEF QueueInv, EntriesFit, KeysFit
    <3>2. headers # <<>>
      BY <3>1, ListedIs
    <3>3. \A l \in k..TopNum : EntryFor(l) \in 1..Len(entry)
      <4>1. \A l \in k..TopNum : l \in Int
        OBVIOUS
      <4> QED
        BY <3>2, <4>1, EntryForIs
    <3> QED
      BY <2>1, <3>1, <3>3
  <2>2. prod.pc \in {"block", "found"} => entry'[EntryFor(TopNum)].key = Key(TopNum)
    <3>1. SUFFICES ASSUME prod.pc \in {"block", "found"} PROVE entry'[EntryFor(TopNum)].key = Key(TopNum)
      OBVIOUS
    <3>2. TopNum = EndNum + 1 /\ -1 <= EndNum /\ EndNum \in Int
      BY <3>1, EndsAre DEF TopNum
    <3>3. headers # <<>> /\ TopNum \in Int
      BY <3>2 DEF QueueInv, EntriesFit, HeadersFit
    <3>4. EntryFor(TopNum) \in 1..Len(entry)
      BY <3>3, EntryForIs
    <3> QED
      BY <3>1, <3>4 DEF QueueInv, EntriesFit, KeysFit
  <2> QED
    BY <1>1, <1>2, <1>3, <2>1, <2>2 DEF KeysFit
<1>8. ProducerFits'
  <2>1. /\ QueueTypes /\ ProducerFits
    BY DEF QueueInv
  <2>2. /\ Num(tailIndex) \in Int /\ Num(tailIndex - 1) \in Int /\ EndNum \in Int
        /\ Num(tailIndex) <= Num(tailIndex - 1) + 1 /\ Num(tailIndex - 1) <= EndNum
    BY EndsAre
  <2>3. ASSUME NEW from \in Int, Num(tailIndex) <= from, Linked(from) PROVE Linked(from)'
    <3>1. ASSUME NEW k \in from..EndNum - 1 PROVE block'[BlockOf(k)'].next = BlockOf(k + 1)'
      <4>1. /\ k \in Int /\ k + 1 \in Int /\ Num(tailIndex) <= k /\ k <= EndNum
            /\ Num(tailIndex) <= k + 1 /\ k + 1 <= EndNum
        BY <2>2, <2>3, <3>1
      <4>2. /\ BlockOf(k)' = BlockOf(k) /\ BlockOf(k) \in 1..Len(block) /\ BlockOf(k + 1)' = BlockOf(k + 1)
        BY <1>5, <4>1
      <4>3. block[BlockOf(k)].next = BlockOf(k + 1)
        BY <2>3, <3>1 DEF Linked
      <4> QED
        BY <4>2, <4>3
    <3> QED
      BY <1>2, <3>1 DEF Linked
  <2>4. prod.pc \in {"find", "found"} => Linked(Num(tailIndex))'
    <3>1. PICK f \in Int : f = Num(tailIndex)
      BY <2>2
    <3>2. prod.pc \in {"find", "found"} => Linked(f)
      BY <2>1, <3>1 DEF ProducerFits
    <3>3. prod.pc \in {"find", "found"} => Linked(f)'
      BY <2>2, <2>3, <3>1, <3>2
    <3>4. Num(tailIndex)' = f
      BY <1>1, <1>3, <3>1
    <3> QED
      BY <3>3, <3>4 DEF Linked
  <2>5. prod.pc = "fill" => /\ Num(prod.i) \in Int /\ Num(tailIndex) <= Num(prod.i)
                            /\ Num(prod.i) <= EndNum
    <3>1. SUFFICES ASSUME prod.pc = "fill"
                   PROVE  /\ Num(prod.i) \in Int /\ Num(tailIndex) <= Num(prod.i)
                          /\ Num(prod.i) <= EndNum
      OBVIOUS
    <3>2. PICK u \in Int : u = tailIndex + prod.n - 1
      BY <1>1, <2>1, ProducerIs
    <3>3. prod.i \in Int /\ tailIndex <= prod.i /\ prod.i <= u /\ tailIndex \in Int
      BY <1>1, <2>1, <3>1, <3>2, ProducerIs DEF ProducerFits
    <3>4. EndNum = Num(u)
      BY <3>1, <3>2 DEF EndNum
    <3> QED
      BY <3>3, <3>4, NumType, NumOrder
  <2>6. prod.pc = "fill" => Linked(Num(prod.i))'
    BY <1>1, <2>1, <2>3, <2>5 DEF ProducerFits, Linked
  <2>7. prod.pc = "fill" => BlockOf(Num(prod.i))' = BlockOf(Num(prod.i))
    BY <1>5, <2>5
  <2>8. EndNum >= Num(tailIndex) => BlockOf(EndNum)' = BlockOf(EndNum)
    <3>1. EndNum \in Int /\ EndNum <= EndNum
      BY <2>2
    <3>2. EndNum >= Num(tailIndex) => Num(tailIndex) <= EndNum
      BY <2>2
    <3>3. PICK k \in Int : k = EndNum
      BY <3>1
    <3>4. EndNum >= Num(tailIndex) => BlockOf(k)' = BlockOf(k)
      BY <1>5, <3>1, <3>2, <3>3
    <3>5. BlockOf(EndNum)' = BlockOf(k)'
      BY <1>2, <3>3 DEF BlockOf, EntryFor
    <3> QED
      BY <3>3, <3>4, <3>5
  <2>9. EndNum > Num(tailIndex - 1) =>
          BlockOf(Num(tailIndex - 1) + 1)' = BlockOf(Num(tailIndex - 1) + 1)
    <3>1. SUFFICES ASSUME EndNum > Num(tailIndex - 1)
                   PROVE  BlockOf(Num(tailIndex - 1) + 1)' = BlockOf(Num(tailIndex - 1) + 1)
      OBVIOUS
    <3>2. PICK k \in Int : k = Num(tailIndex - 1) + 1
      BY <2>2
    <3>3. Num(tailIndex) <= k /\ k <= EndNum
      BY <2>2, <3>1, <3>2
    <3>4. BlockOf(k)' = BlockOf(k)
      BY <1>5, <3>3
    <3>5. BlockOf(Num(tailIndex - 1) + 1)' = BlockOf(k)'
      BY <1>1, <1>3, <3>2 DEF BlockOf, EntryFor
    <3> QED
      BY <3>2, <3>4, <3>5
  <2>10. prod.pc \in {"find", "found"} /\ Num(tailIndex - 1) = Num(tailIndex)
           => BlockOf(Num(tailIndex))' = BlockOf(Num(tailIndex))
    BY <1>5, <2>2
  <2>11. /\ Num(tailIndex)' = Num(tailIndex) /\ Num(tailIndex - 1)' = Num(tailIndex - 1)
         /\ Num(tailIndex + prod.n - 1)' = Num(tailIndex + prod.n - 1) /\ Num(prod.i)' = Num(prod.i)
    BY <1>1, <1>3
  <2> QED
    <3>1. EndNum' >= Num(tailIndex)' => tailBlock' = BlockOf(EndNum)'
      BY <1>1, <1>2, <2>1, <2>8, <2>11 DEF ProducerFits
    <3>2. prod'.pc = "block" => Num(tailIndex)' = Num(tailIndex - 1)' + 1 /\ prod'.i = tailIndex' /\ prod'.n = 1
      BY <1>1, <2>1, <2>11 DEF ProducerFits
    <3>3. prod'.pc \in {"find", "found"} =>
            /\ prod'.base = Key(EndNum)' /\ EndNum' >= Num(tailIndex - 1)'
            /\ prod'.n > 0 /\ prod'.i = tailIndex'
            /\ EndNum' + prod'.left = Num(tailIndex + prod.n - 1)'
            /\ EndNum' = Num(tailIndex - 1)' => prod'.first = 0
            /\ EndNum' > Num(tailIndex - 1)' => prod'.first = BlockOf(Num(tailIndex - 1) + 1)'
            /\ Num(tailIndex - 1)' = Num(tailIndex)' => prod'.start = BlockOf(Num(tailIndex))'
      BY <1>1, <1>2, <1>3, <2>1, <2>9, <2>10, <2>11 DEF ProducerFits
    <3>4. prod'.pc = "fill" =>
            /\ prod'.n > 0 /\ tailIndex' <= prod'.i /\ prod'.i < tailIndex' + prod'.n
            /\ prod'.at = BlockOf(Num(prod.i))'
      BY <1>1, <2>1, <2>7 DEF ProducerFits
    <3> QED
      BY <1>1, <2>1, <2>4, <2>6, <3>1, <3>2, <3>3, <3>4 DEF ProducerFits
<1>9. DataFits'
  <2>1. ASSUME NEW i \in 0..FilledTo - 1,
               i >= headIndex \/ (\E d \in Takers : i \in UntakenOf(cons'[d]))
        PROVE  block'[BlockOf(Num(i))'].data[i % BLOCK_SIZE] = i + 1
    <3>1. i >= headIndex \/ (\E d \in Takers : i \in UntakenOf(cons[d]))
      BY <1>1, <2>1
    <3>2. i \in Nat /\ Num(i) \in Listed /\ block[BlockOf(Num(i))].data[i % BLOCK_SIZE] = i + 1
      BY <3>1, ElementIs
    <3>3. Num(i) <= EndNum
      BY <3>2, FilledIs
    <3>4. ~ Done(i)
      <4>1. CASE i >= headIndex
        BY <1>1, <3>2, <4>1 DEF Done
      <4>2. CASE \E d \in Takers : i \in UntakenOf(cons[d])
        <5>1. PICK d \in Takers : i \in UntakenOf(cons[d])
          BY <4>2
        <5>2. i \in RestOf(cons[d])
          BY <5>1, TakerIs, RangeIs DEF QueueInv, ClaimsInv
        <5> QED
          BY <5>2 DEF Done
      <4> QED
        BY <3>1, <4>1, <4>2
    <3>5. Num(i) \in Listed'
      BY <1>4, <2>1, <3>2, <3>3, <3>4
    <3>6. BlockOf(Num(i)) \in 1..Len(block) /\ BlockOf(Num(i))' = BlockOf(Num(i))
      BY <3>2, <3>5, BlockIs
    <3> QED
      BY <3>2, <3>6
  <2> QED
    BY <1>1, <1>2, <2>1 DEF DataFits, UntakenOf
<1>10. TakersFit'
  <2>1. ASSUME NEW d \in Takers PROVE (RangeFits(cons[d]) /\ GotRight(cons[d]))'
    <3>1. CASE d = c
      BY <1>1, <3>1 DEF RangeFits, GotRight, CurOf, Num, Key
    <3>2. CASE d # c
      <4>1. RangeFits(cons[d]) /\ GotRight(cons[d]) /\ cons'[d] = cons[d]
        BY <1>1, <3>2, TakerIs
      <4> QED
        BY <1>1, <4>1 DEF RangeFits, GotRight, CurOf, Num, Key
    <3> QED
      BY <3>1, <3>2
  <2> QED
    BY <2>1 DEF TakersFit
<1>11. TakersSee'
  <2>1. ASSUME NEW d \in Takers, d # c PROVE IndexSeen(cons[d])'
    <3>1. IndexSeen(cons[d]) /\ cons'[d] = cons[d]
      BY <1>1, <2>1, TakerIs
    <3>2. \A m : Points(cons[d], m)' <=> Points(cons[d], m)
      BY <1>1, <1>2, <3>1 DEF Points, SpanOf, RestOf, CurOf, Num, Mod
    <3>3. cons[d].pc = "key" => headers[cons[d].index].index[cons[d].slot] \in 1..Len(entry)
      BY <3>1 DEF IndexSeen, QueueInv, EntriesFit, HeadersFit
    <3> QED
      BY <1>1, <3>1, <3>2, <3>3 DEF IndexSeen, CurOf, Num, Key
  <2>2. (IndexSeen(cons[c]) /\ BlockSeen(cons[c]))'
    <3>1. SpanOf(cons[c])' = SpanOf(r) /\ CurOf(cons[c])' = CurOf(r)
      BY <1>1 DEF SpanOf, RestOf, CurOf, Num
    <3>2. SpanOf(r)' = SpanOf(r) /\ CurOf(r)' = CurOf(r)
      BY DEF SpanOf, RestOf, CurOf, Num
    <3>3. \A m : Points(cons[c], m)' <=> Points(r, m)'
      BY <1>1, <3>1, <3>2 DEF Points, Mod
    <3>4. IndexSeen(cons[c])'
      BY <1>1, <3>1, <3>2, <3>3 DEF IndexSeen, Key
    <3>5. BlockSeen(cons[c])'
      BY <1>1, <3>1, <3>2 DEF BlockSeen, Spent
    <3> QED
      BY <3>4, <3>5
  <2> QED
    BY <2>1, <2>2 DEF TakersSee
<1> QED
  BY <1>6, <1>7, <1>8, <1>9, <1>10, <1>11 DEF QueueInv, EntriesFit

\* What a consumer has taken and is not done with.
LEMMA EmptyingIs ==
  ASSUME QueueInv, NEW c \in Takers, cons[c].pc \in {"empty", "unlist", "free"}
  PROVE  \E a \in Nat, t \in Nat, z \in Nat, n \in Int :
           /\ a = cons[c].at - Len(cons[c].got) /\ t = cons[c].at /\ z = cons[c].end
           /\ n = CurOf(cons[c]) /\ a < t /\ t <= z /\ z <= headIndex
           /\ \A i \in a..t - 1 : Num(i) = n
           /\ t = z \/ t = Key(n + 1)
           /\ RestOf(cons[c]) = IF cons[c].pc = "empty" THEN a..z - 1 ELSE t..z - 1
           /\ UntakenOf(cons[c]) = t..z - 1
           /\ cons[c].index \in 1..Len(headers) /\ headers[cons[c].index].size \in Nat \ {0}
           /\ cons[c].slot \in 0..headers[cons[c].index].size - 1
           /\ Points(cons[c], n) /\ Len(cons[c].got) = t - a
<1>1. /\ RangeFits(cons[c]) /\ IndexSeen(cons[c]) /\ cons[c].at \in Nat /\ cons[c].end \in Nat
      /\ Len(cons[c].got) \in Nat /\ CurOf(cons[c]) \in Int
      /\ cons[c].pc \in After /\ cons[c].at - Len(cons[c].got) \in Nat
  BY TakerIs, RangeIs DEF QueueInv, ClaimsInv, After
<1>2. PICK a \in Nat, t \in Nat, z \in Nat, n \in Int :
           /\ a = cons[c].at - Len(cons[c].got) /\ t = cons[c].at /\ z = cons[c].end
           /\ n = CurOf(cons[c])
  BY <1>1
<1>3. Len(cons[c].got) > 0 /\ Num(t - 1) = n /\ (t = z \/ t = Key(n + 1)) /\ t <= z /\ z <= headIndex
  BY <1>1, <1>2 DEF RangeFits
<1>4. a < t /\ Len(cons[c].got) = t - a
  BY <1>1, <1>2, <1>3
<1>5. Num(a) = n
  BY <1>2 DEF CurOf
<1>6. \A i \in a..t - 1 : Num(i) = n
  <2>1. ASSUME NEW i \in a..t - 1 PROVE Num(i) = n
    <3>1. PICK u \in Int : u = t - 1
      OBVIOUS
    <3>2. a \in Int /\ i \in Int /\ a <= i /\ i <= u
      BY <3>1
    <3>3. Num(a) <= Num(i) /\ Num(i) <= Num(u) /\ Num(i) \in Int
      BY <3>2, NumOrder, NumType
    <3> QED
      BY <1>3, <1>5, <3>1, <3>3
  <2> QED
    BY <2>1
<1>7. RestOf(cons[c]) = IF cons[c].pc = "empty" THEN a..z - 1 ELSE t..z - 1
  BY <1>2 DEF RestOf
<1>8. UntakenOf(cons[c]) = t..z - 1
  BY <1>1, <1>2 DEF UntakenOf
<1>9. /\ cons[c].index \in 1..Len(headers) /\ cons[c].slot \in 0..headers[cons[c].index].size - 1
      /\ Points(cons[c], n)
  BY <1>1, <1>2 DEF IndexSeen
<1>10. headers[cons[c].index].size \in Nat \ {0}
  BY <1>9, HeadersAre, HeaderIs
<1> QED
  BY <1>2, <1>3, <1>4, <1>6, <1>7, <1>8, <1>9, <1>10

\* It goes on to the next block, or is done.
LEMMA NextBlockIs ==
  ASSUME QueueInv, NEW c \in Takers, cons[c].pc \in {"empty", "free"}, NEW r, r = NextBlock(c)
  PROVE  /\ r \in TakerCalls /\ r.pc \in {"take", "idle"}
         /\ RestOf(r) = cons[c].at .. cons[c].end - 1 /\ UntakenOf(r) = RestOf(r)
         /\ RangeFits(r) /\ GotRight(r) /\ IndexSeen(r)
<1>1. PICK a \in Nat, t \in Nat, z \in Nat, n \in Int :
           /\ a = cons[c].at - Len(cons[c].got) /\ t = cons[c].at /\ z = cons[c].end
           /\ n = CurOf(cons[c]) /\ a < t /\ t <= z /\ z <= headIndex
           /\ \A i \in a..t - 1 : Num(i) = n
           /\ t = z \/ t = Key(n + 1)
           /\ RestOf(cons[c]) = IF cons[c].pc = "empty" THEN a..z - 1 ELSE t..z - 1
           /\ UntakenOf(cons[c]) = t..z - 1
           /\ cons[c].index \in 1..Len(headers) /\ headers[cons[c].index].size \in Nat \ {0}
           /\ cons[c].slot \in 0..headers[cons[c].index].size - 1
           /\ Points(cons[c], n) /\ Len(cons[c].got) = t - a
  BY EmptyingIs
<1>2. cons[c] \in TakerCalls
  BY TakerIs
<1>3. CASE ~ (t < z)
  <2>1. r = IdleConsumer
    BY <1>1, <1>3 DEF NextBlock
  <2>2. r \in TakerCalls /\ r.pc = "idle" /\ r.got = <<>>
    BY <2>1, IdleTaker DEF IdleConsumer
  <2>3. RestOf(r) = {} /\ UntakenOf(r) = {} /\ cons[c].at .. cons[c].end - 1 = {}
    <3>1. RestOf(r) = {} /\ UntakenOf(r) = {}
      BY <2>2 DEF RestOf, UntakenOf, After
    <3>2. t..z - 1 = {}
      BY <1>3
    <3> QED
      BY <1>1, <3>1, <3>2
  <2> QED
    BY <2>2, <2>3 DEF RangeFits, GotRight, IndexSeen, After
<1>4. CASE t < z
  <2>1. cons[c].slot \in Nat
    BY <1>2 DEF TakerCalls
  <2>2. PICK w \in Nat \ {0}, u \in Nat : w = headers[cons[c].index].size /\ u = cons[c].slot
    BY <1>1, <2>1
  <2>3. PICK s \in Nat : s = Mod(u + 1, w) /\ s \in 0..w - 1
    BY <2>2, ModType
  <2>4. r = [cons[c] EXCEPT !.pc = "take", !.block = 0, !.got = <<>>, !.slot = s]
    BY <1>1, <1>4, <2>2, <2>3 DEF NextBlock, Mod
  <2>5. /\ r \in TakerCalls /\ r.pc = "take" /\ r.got = <<>> /\ r.slot = s /\ r.index = cons[c].index
        /\ r.at = t /\ r.end = z /\ Len(r.got) = 0
    <3>1. <<>> \in Seq(Nat) /\ Len(<<>>) = 0 /\ 0 \in Nat
      OBVIOUS
    <3>2. r \in TakerCalls
      BY <1>2, <2>4, <3>1, ZenonT(30) DEF TakerCalls, After
    <3>3. /\ r.pc = "take" /\ r.got = <<>> /\ r.slot = s /\ r.index = cons[c].index
          /\ r.at = cons[c].at /\ r.end = cons[c].end
      BY <1>2, <2>4 DEF TakerCalls
    <3> QED
      BY <1>1, <3>1, <3>2, <3>3
  <2>6. t = Key(n + 1) /\ Num(t) = n + 1 /\ CurOf(r) = n + 1
    <3>1. t = Key(n + 1)
      BY <1>1, <1>4
    <3>2. n + 1 \in Int /\ t - 0 = t
      OBVIOUS
    <3> QED
      BY <2>5, <3>1, <3>2, NumOfKey DEF CurOf
  <2>7. RestOf(r) = t..z - 1 /\ UntakenOf(r) = t..z - 1
    <3>1. t - 0 = t
      OBVIOUS
    <3> QED
      BY <2>5, <3>1 DEF RestOf, UntakenOf, After
  <2>8. RangeFits(r)
    <3>1. r.at - Len(r.got) = t /\ 0 <= t /\ t <= z /\ z <= headIndex
      BY <1>1, <2>5
    <3> QED
      BY <1>4, <2>5, <3>1 DEF RangeFits
  <2>9. Points(r, n + 1)
    <3>1. ASSUME NEW l \in SpanOf(r)
          PROVE  headers[r.index].index[Mod(r.slot + (l - (n + 1)), w)] = EntryFor(l)
      <4>1. PICK i \in t..z - 1 : l = Num(i)
        BY <2>5, <2>7 DEF SpanOf
      <4>2. i \in RestOf(cons[c])
        BY <1>1, <4>1
      <4>3. l \in SpanOf(cons[c]) /\ l \in Int
        BY <4>1, <4>2, SpanListed DEF SpanOf
      <4>4. headers[cons[c].index].index[Mod(u + (l - n), w)] = EntryFor(l)
        BY <1>1, <2>2, <4>3 DEF Points
      <4>5. PICK x \in Int, y \in Int, v \in Int : x = u + 1 /\ y = l - (n + 1) /\ v = u + (l - n)
        BY <4>3
      <4>6. x + y = v
        BY <4>3, <4>5
      <4>7. Mod(Mod(x, w) + y, w) = Mod(x + y, w)
        BY ModAdds
      <4> QED
        BY <2>3, <2>5, <4>4, <4>5, <4>6, <4>7
    <3> QED
      BY <2>2, <2>5, <3>1 DEF Points
  <2> QED
    BY <1>1, <2>2, <2>3, <2>5, <2>6, <2>7, <2>8, <2>9 DEF GotRight, IndexSeen
<1> QED
  BY <1>1, <1>3, <1>4

\* Which indices are done with when a consumer is done with some.
LEMMA DoneGrows ==
  ASSUME QueueInv, NEW c \in Takers, NEW r, cons' = [cons EXCEPT ![c] = r], headIndex' = headIndex,
         RestOf(r) \subseteq RestOf(cons[c])
  PROVE  /\ \A i \in Int : Done(i)' <=> Done(i) \/ i \in RestOf(cons[c]) \ RestOf(r)
         /\ \A k \in Int : DoneOf(k)' =
              DoneOf(k) \cup {i \in Indices(k) : i \in RestOf(cons[c]) \ RestOf(r)}
<1>1. /\ cons'[c] = r /\ \A d \in Takers : d # c => cons'[d] = cons[d]
  BY DEF QueueInv, ClaimsInv, ClaimTypes
<1>2. ASSUME NEW i \in Int PROVE Done(i)' <=> Done(i) \/ i \in RestOf(cons[c]) \ RestOf(r)
  <2>1. Done(i)' <=> i < headIndex /\ \A d \in Takers : i \notin RestOf(cons'[d])
    BY DEF Done, RestOf
  <2>2. ASSUME i \in RestOf(cons[c])
        PROVE  i < headIndex /\ \A d \in Takers : d # c => i \notin RestOf(cons[d])
    BY <2>2, RestListed DEF QueueInv, TakersFit, TakersApart
  <2>3. Done(i) <=> i < headIndex /\ \A d \in Takers : i \notin RestOf(cons[d])
    BY DEF Done
  <2> QED
    BY <1>1, <2>1, <2>2, <2>3
<1>3. ASSUME NEW k \in Int
      PROVE  DoneOf(k)' = DoneOf(k) \cup {i \in Indices(k) : i \in RestOf(cons[c]) \ RestOf(r)}
  <2>1. \A i \in Indices(k) : i \in Int
    BY IndicesInt
  <2>2. Indices(k)' = Indices(k)
    BY DEF Indices, Key
  <2> QED
    BY <1>2, <2>1, <2>2 DEF DoneOf
<1> QED
  BY <1>2, <1>3

\* Of the indices of a block, how many there may be, all if it is as many.
LEMMA SomeOfIs ==
  ASSUME NEW k \in Int, NEW S \in SUBSET Indices(k)
  PROVE  /\ IsFiniteSet(S) /\ Cardinality(S) \in Nat /\ Cardinality(S) <= BLOCK_SIZE
         /\ S = Indices(k) <=> Cardinality(S) = BLOCK_SIZE
<1>1. PICK x \in Int, y \in Int : x = Key(k) /\ y = x + BLOCK_SIZE - 1
  BY KeyType, SizeFacts
<1>2. IsFiniteSet(x..y) /\ Cardinality(x..y) = IF x > y THEN 0 ELSE y - x + 1
  BY FS_Interval
<1>3. y - x + 1 = BLOCK_SIZE /\ ~ (x > y)
  BY <1>1, SizeFacts
<1>4. IsFiniteSet(Indices(k)) /\ Cardinality(Indices(k)) = BLOCK_SIZE
  BY <1>1, <1>2, <1>3 DEF Indices
<1> QED
  BY <1>4, FS_Subset, FS_CardinalityType

LEMMA AddEmptyQueue ==
  ASSUME QueueInv, NEW c \in Takers, AddEmpty(c)
  PROVE  QueueInv'
<1>1. PICK m, r : /\ m = block[cons[c].block].empty + Len(cons[c].got)
                  /\ r = IF m = BLOCK_SIZE THEN [cons[c] EXCEPT !.pc = "unlist"] ELSE NextBlock(c)
  OBVIOUS
<1>2. /\ cons[c].pc = "empty" /\ cons' = [cons EXCEPT ![c] = r]
      /\ block' = [block EXCEPT ![cons[c].block].empty = m]
      /\ UNCHANGED <<counters, tailIndex, tailBlock, headers, prod, entry, free>>
      /\ UNCHANGED <<counters, tailIndex, prod, tailBlock, headers>>
      /\ UNCHANGED <<tailIndex, prod, headers>>
      /\ UNCHANGED <<counters, tailIndex>> /\ headIndex' = headIndex
      /\ entry' = entry /\ headers' = headers /\ free' = free /\ tailBlock' = tailBlock /\ prod' = prod
  BY <1>1 DEF AddEmpty, Does, counters
<1>3. PICK a \in Nat, t \in Nat, z \in Nat, n \in Int :
           /\ a = cons[c].at - Len(cons[c].got) /\ t = cons[c].at /\ z = cons[c].end
           /\ n = CurOf(cons[c]) /\ a < t /\ t <= z /\ z <= headIndex
           /\ \A i \in a..t - 1 : Num(i) = n
           /\ t = z \/ t = Key(n + 1)
           /\ RestOf(cons[c]) = IF cons[c].pc = "empty" THEN a..z - 1 ELSE t..z - 1
           /\ UntakenOf(cons[c]) = t..z - 1
           /\ cons[c].index \in 1..Len(headers) /\ headers[cons[c].index].size \in Nat \ {0}
           /\ cons[c].slot \in 0..headers[cons[c].index].size - 1
           /\ Points(cons[c], n) /\ Len(cons[c].got) = t - a
  BY <1>2, EmptyingIs
<1>4. a < t /\ t <= z
  BY <1>3
<1>5. /\ a \in a..z - 1 /\ a \in a..t - 1 /\ t..z - 1 \subseteq a..z - 1
      /\ (a..z - 1) \ (t..z - 1) = a..t - 1
  BY <1>4
<1>6. /\ cons[c] \in TakerCalls /\ RangeFits(cons[c]) /\ GotRight(cons[c]) /\ IndexSeen(cons[c])
      /\ BlockSeen(cons[c])
  BY TakerIs
<1>7. RestOf(cons[c]) = a..z - 1 /\ ~ Spent(n) /\ n \in Listed
  <2>1. RestOf(cons[c]) = a..z - 1
    BY <1>2, <1>3
  <2>2. a \in RestOf(cons[c]) /\ a \in a..t - 1
    BY <1>5, <2>1
  <2>3. Num(a) = n /\ ~ Done(a) /\ n \in Listed
    BY <1>3, <2>2, RestListed
  <2>4. a \in Indices(n)
    BY <2>3, IndicesAre
  <2> QED
    BY <2>1, <2>3, <2>4 DEF Spent
<1>8. PICK b \in 1..Len(block) : b = cons[c].block /\ b = BlockOf(n) /\ b \notin free
  BY <1>2, <1>3, <1>6, <1>7, BlockIs DEF BlockSeen
<1>9. /\ r \in TakerCalls /\ r.pc \in {"unlist", "take", "idle"}
      /\ r.pc = "unlist" <=> m = BLOCK_SIZE
      /\ r.pc = "unlist" => CurOf(r) = n /\ r.block = b
      /\ RestOf(r) = t..z - 1 /\ UntakenOf(r) = t..z - 1
      /\ RangeFits(r) /\ GotRight(r) /\ IndexSeen(r)
  <2>1. CASE m = BLOCK_SIZE
    <3>1. r = [cons[c] EXCEPT !.pc = "unlist"]
      BY <1>1, <2>1
    <3>2. /\ r \in TakerCalls /\ r.pc = "unlist" /\ r.at = t /\ r.end = z /\ r.got = cons[c].got
          /\ r.block = b /\ r.index = cons[c].index /\ r.slot = cons[c].slot
      BY <1>3, <1>6, <1>8, <3>1 DEF TakerCalls, After
    <3>3. CurOf(r) = n
      BY <1>3, <3>2 DEF CurOf
    <3>4. RestOf(r) = t..z - 1 /\ UntakenOf(r) = t..z - 1
      BY <3>2 DEF RestOf, UntakenOf, After
    <3>5. RangeFits(r) /\ GotRight(r)
      BY <1>2, <1>3, <1>6, <3>2, <3>3 DEF RangeFits, GotRight, After
    <3>6. SpanOf(r) \subseteq SpanOf(cons[c])
      <4>1. t..z - 1 \subseteq a..z - 1
        BY <1>5
      <4>2. n \in SpanOf(cons[c])
        <5>1. a \in RestOf(cons[c]) /\ Num(a) = n
          BY <1>3, <1>7, <1>5
        <5> QED
          BY <5>1 DEF SpanOf
      <4> QED
        BY <1>7, <3>2, <3>3, <3>4, <4>1, <4>2 DEF SpanOf
    <3>7. IndexSeen(r)
      BY <1>3, <3>2, <3>3, <3>6 DEF IndexSeen, Points
    <3> QED
      BY <2>1, <3>2, <3>3, <3>4, <3>5, <3>7
  <2>2. CASE m # BLOCK_SIZE
    <3>1. r = NextBlock(c)
      BY <1>1, <2>2
    <3> QED
      BY <1>2, <1>3, <2>2, <3>1, NextBlockIs
  <2> QED
    BY <2>1, <2>2
<1>10. /\ ClaimsInv' /\ cons'[c] = r /\ \A d \in Takers : d # c => cons'[d] = cons[d]
  <2>1. cons[c].pc \in After /\ r.pc \in After \cup {"idle"}
    BY <1>2, <1>9 DEF After
  <2> QED
    BY <1>2, <1>9, <2>1, LookClaims
<1>11. /\ EndNum' = EndNum /\ TopNum' = TopNum
       /\ \A k : EntryFor(k)' = EntryFor(k)
  BY <1>2, EndsKeep
<1>12. \A k : BlockOf(k)' = BlockOf(k)
  BY <1>2, <1>11 DEF BlockOf
<1>13. RestOf(r) \subseteq RestOf(cons[c]) /\ UntakenOf(r) \subseteq UntakenOf(cons[c])
       /\ RestOf(cons[c]) \ RestOf(r) = a..t - 1
  <2>1. RestOf(r) = t..z - 1 /\ UntakenOf(r) = t..z - 1 /\ UntakenOf(cons[c]) = t..z - 1
    BY <1>3, <1>9
  <2> QED
    BY <1>7, <1>5, <2>1
<1>14. /\ \A k \in Int : k # n => DoneOf(k)' = DoneOf(k)
       /\ DoneOf(n)' = DoneOf(n) \cup (a..t - 1) /\ DoneOf(n) \cap (a..t - 1) = {}
       /\ \A i \in Int : Done(i) => Done(i)'
  <2>1. /\ \A k \in Int : DoneOf(k)' = DoneOf(k) \cup {i \in Indices(k) : i \in a..t - 1}
        /\ \A i \in Int : Done(i)' <=> Done(i) \/ i \in a..t - 1
    <3>1. /\ \A i \in Int : Done(i)' <=> Done(i) \/ i \in RestOf(cons[c]) \ RestOf(r)
          /\ \A k \in Int : DoneOf(k)' =
               DoneOf(k) \cup {i \in Indices(k) : i \in RestOf(cons[c]) \ RestOf(r)}
      BY <1>2, <1>13, DoneGrows
    <3> QED
      BY <1>13, <3>1
  <2>2. \A k \in Int, i \in a..t - 1 : i \in Indices(k) <=> k = n
    <3>1. \A i \in a..t - 1 : i \in Int /\ Num(i) = n
      BY <1>3
    <3> QED
      BY <3>1, IndicesAre
  <2>3. \A i \in a..t - 1 : ~ Done(i)
    <3>1. a..t - 1 \subseteq RestOf(cons[c])
      BY <1>13
    <3> QED
      BY <3>1, RestListed
  <2> QED
    BY <1>3, <2>1, <2>2, <2>3 DEF DoneOf
<1>15. block[b].empty = Cardinality(DoneOf(n)) /\ m = Cardinality(DoneOf(n)')
  <2>1. block[b].empty = Cardinality(DoneOf(n))
    BY <1>7, <1>8 DEF QueueInv, Owned
  <2>2. DoneOf(n) \in SUBSET Indices(n)
    BY DEF DoneOf
  <2>3. IsFiniteSet(DoneOf(n)) /\ Cardinality(DoneOf(n)) \in Nat
    BY <2>2, SomeOfIs
  <2>4. PICK u \in Int : u = t - 1
    OBVIOUS
  <2>5. IsFiniteSet(a..u) /\ Cardinality(a..u) = IF a > u THEN 0 ELSE u - a + 1
    <3>1. a \in Int
      OBVIOUS
    <3> QED
      BY <3>1, FS_Interval
  <2>6. Cardinality(a..u) = t - a
    BY <1>3, <2>4, <2>5, SMTT(30)
  <2>7. Cardinality(DoneOf(n) \cup (a..u))
          = Cardinality(DoneOf(n)) + Cardinality(a..u) - Cardinality(DoneOf(n) \cap (a..u))
    BY <2>3, <2>5, FS_Union
  <2>8. Cardinality(DoneOf(n) \cap (a..u)) = 0
    BY <1>14, <2>4, FS_EmptySet
  <2>9. Cardinality(DoneOf(n)') = Cardinality(DoneOf(n)) + (t - a)
    BY <1>14, <2>3, <2>4, <2>6, <2>7, <2>8
  <2> QED
    BY <1>1, <1>3, <1>8, <2>1, <2>9
<1>16. /\ \A k \in Int : k # n => (Spent(k)' <=> Spent(k))
       /\ Spent(n)' <=> m = BLOCK_SIZE
  <2>1. \A k : Spent(k) <=> DoneOf(k) = Indices(k)
    BY DEF Spent, DoneOf
  <2>2. \A k : Indices(k)' = Indices(k)
    BY DEF Indices, Key
  <2>3. \A k : Spent(k)' <=> DoneOf(k)' = Indices(k)
    BY <2>2 DEF Spent, DoneOf
  <2>4. DoneOf(n)' \in SUBSET Indices(n)
    BY <2>2 DEF DoneOf
  <2> QED
    BY <1>14, <1>15, <2>1, <2>3, <2>4, SomeOfIs
<1>17. Listed' = Listed
  <2>1. {k \in 0..EndNum' : ~Spent(k)'} =
          IF m = BLOCK_SIZE THEN {k \in 0..EndNum : ~Spent(k)} \ {n} ELSE {k \in 0..EndNum : ~Spent(k)}
    <3>1. \A k \in 0..EndNum : k \in Int
      BY EndsAre
    <3> QED
      BY <1>7, <1>11, <1>16, <3>1
  <2>2. {CurOf(cons'[d]) : d \in Unlisting'} =
          {CurOf(cons[d]) : d \in Unlisting} \cup (IF m = BLOCK_SIZE THEN {n} ELSE {})
    <3>1. \A d \in Takers : d \in Unlisting' <=> d \in Unlisting \/ (d = c /\ m = BLOCK_SIZE)
      BY <1>2, <1>9, <1>10 DEF Unlisting
    <3>2. Unlisting' \subseteq Takers /\ Unlisting \subseteq Takers /\ c \notin Unlisting
      BY <1>2 DEF Unlisting
    <3>3. \A d \in Unlisting : CurOf(cons'[d]) = CurOf(cons[d])
      BY <1>10, <3>2
    <3>4. m = BLOCK_SIZE => CurOf(cons'[c]) = n
      BY <1>9, <1>10
    <3> QED
      BY <3>1, <3>2, <3>3, <3>4
  <2>3. Listed' = {k \in 0..EndNum' : ~Spent(k)'} \cup {CurOf(cons'[d]) : d \in Unlisting'}
    BY DEF Listed, CurOf, Num
  <2>4. n \in {k \in 0..EndNum : ~Spent(k)}
    BY <1>3, <1>7, ListedIs, EndsAre
  <2> QED
    BY <2>1, <2>2, <2>3, <2>4 DEF Listed
<1>18. /\ block' \in Seq(BlockRecs) /\ Len(block') = Len(block) /\ QueueTypes'
       /\ \A d \in 1..Len(block) : block'[d].data = block[d].data /\ block'[d].next = block[d].next
       /\ \A d \in 1..Len(block) : d # b => block'[d].empty = block[d].empty
       /\ block'[b].empty = m
  <2>1. block \in Seq(BlockRecs) /\ QueueTypes
    BY DEF QueueInv, QueueTypes
  <2>2. block[b] \in BlockRecs
    BY <2>1
  <2>3. m \in Nat
    <3>1. block[b].empty \in Nat /\ Len(cons[c].got) \in Nat
      <4>1. block[b].empty \in Nat
        BY <2>2 DEF BlockRecs
      <4>2. cons[c].got \in Seq(Nat)
        BY <1>6 DEF TakerCalls
      <4> QED
        BY <4>1, <4>2
    <3> QED
      BY <1>1, <1>8, <3>1
  <2>4. PICK x : x = [block[b] EXCEPT !.empty = m]
    OBVIOUS
  <2>5. x \in BlockRecs /\ x.empty = m /\ x.data = block[b].data /\ x.next = block[b].next
    BY <2>2, <2>3, <2>4 DEF BlockRecs
  <2>6. block' = [block EXCEPT ![b] = x]
    BY <1>2, <1>8, <2>4
  <2>7. block' \in Seq(BlockRecs) /\ Len(block') = Len(block)
    BY <2>1, <2>5, <2>6
  <2>8. QueueTypes'
    BY <1>2, <2>1, <2>7 DEF QueueTypes
  <2> QED
    BY <2>1, <2>5, <2>6, <2>7, <2>8
<1>19. Owned'
  <2>1. ASSUME NEW k \in Listed
        PROVE  /\ BlockOf(k) \in 1..Len(block) /\ BlockOf(k) \notin free
               /\ block'[BlockOf(k)].empty = Cardinality(DoneOf(k)')
    <3>1. /\ BlockOf(k) \in 1..Len(block) /\ BlockOf(k) \notin free /\ k \in Int
          /\ block[BlockOf(k)].empty = Cardinality(DoneOf(k))
      BY <2>1, ListedIs DEF QueueInv, Owned
    <3>2. CASE k = n
      BY <1>8, <1>15, <1>18, <3>1, <3>2
    <3>3. CASE k # n
      <4>1. BlockOf(k) # b
        BY <1>7, <1>8, <3>3 DEF QueueInv, Owned
      <4> QED
        BY <1>14, <1>18, <3>1, <3>3, <4>1
    <3> QED
      BY <3>2, <3>3
  <2>2. \A d \in Takers : cons'[d].pc = "free" <=> cons[d].pc = "free"
    BY <1>2, <1>9, <1>10
  <2>3. \A d \in Takers : cons[d].pc = "free" => cons'[d].block = cons[d].block
    BY <1>2, <1>10
  <2>4. \A d \in 1..Len(block) :
          d \in free \/ (\E k \in Listed : BlockOf(k) = d)
            \/ \E e \in Takers : cons'[e].pc = "free" /\ cons'[e].block = d
    BY <2>2, <2>3 DEF QueueInv, Owned
  <2>5. \A k, l \in Listed : BlockOf(k) = BlockOf(l) => k = l
    BY DEF QueueInv, Owned
  <2> QED
    BY <1>2, <1>12, <1>17, <1>18, <2>1, <2>4, <2>5 DEF Owned
<1>20. \A d \in Takers : d # c /\ cons[d].pc \in {"unlist", "free"} =>
         CurOf(cons[d]) # n /\ Spent(CurOf(cons[d])) /\ CurOf(cons[d]) \in Int
  BY <1>7, TakerIs, RangeIs DEF BlockSeen, QueueInv, ClaimsInv
<1>21. TakersApart'
  <2>1. ASSUME NEW d \in Takers, NEW e \in Takers, d # e
        PROVE  /\ RestOf(cons'[d]) \cap RestOf(cons'[e]) = {}
               /\ cons'[d].pc \in {"unlist", "free"} /\ cons'[e].pc \in {"unlist", "free"}
                    => CurOf(cons'[d]) # CurOf(cons'[e])
               /\ cons'[d].pc = "free" /\ cons'[e].pc = "free" => cons'[d].block # cons'[e].block
    <3>1. /\ RestOf(cons[d]) \cap RestOf(cons[e]) = {}
          /\ cons[d].pc \in {"unlist", "free"} /\ cons[e].pc \in {"unlist", "free"}
               => CurOf(cons[d]) # CurOf(cons[e])
          /\ cons[d].pc = "free" /\ cons[e].pc = "free" => cons[d].block # cons[e].block
      BY <2>1 DEF QueueInv, TakersFit, TakersApart
    <3>2. CASE d = c
      BY <1>9, <1>10, <1>13, <1>20, <2>1, <3>1, <3>2
    <3>3. CASE e = c
      BY <1>9, <1>10, <1>13, <1>20, <2>1, <3>1, <3>3
    <3>4. CASE d # c /\ e # c
      BY <1>10, <3>1, <3>4
    <3> QED
      BY <3>2, <3>3, <3>4
  <2> QED
    BY <2>1 DEF TakersApart, RestOf, CurOf, Num
<1>22. BlockSeen(r)' /\ \A d \in Takers : d # c => BlockSeen(cons[d])'
  <2>1. \A x : CurOf(x)' = CurOf(x)'
    OBVIOUS
  <2>2. BlockSeen(r)'
    <3>1. CurOf(r)' = CurOf(r)
      BY DEF CurOf, Num
    <3>2. r.pc = "unlist" => Spent(CurOf(r))'
      BY <1>9, <1>16, <3>1 DEF Spent
    <3>3. r.pc = "unlist" => r.block = BlockOf(CurOf(r))'
      BY <1>8, <1>9, <1>12, <3>1
    <3> QED
      BY <1>9, <3>2, <3>3 DEF BlockSeen
  <2>3. ASSUME NEW d \in Takers, d # c PROVE BlockSeen(cons[d])'
    <3>1. BlockSeen(cons[d]) /\ cons'[d] = cons[d] /\ CurOf(cons[d])' = CurOf(cons[d])
      BY <1>10, <2>3, TakerIs DEF CurOf, Num
    <3>2. cons[d].pc \in {"unlist", "free"} => Spent(CurOf(cons[d]))'
      <4>1. PICK k : k = CurOf(cons[d])
        OBVIOUS
      <4>2. cons[d].pc \in {"unlist", "free"} => Spent(k)'
        BY <1>16, <1>20, <2>3, <4>1
      <4> QED
        BY <3>1, <4>1, <4>2 DEF Spent
    <3>3. cons[d].pc \in {"empty", "unlist"} => cons[d].block = BlockOf(CurOf(cons[d]))'
      BY <1>12, <3>1 DEF BlockSeen
    <3>4. cons[d].pc = "free" => /\ cons[d].block \in 1..Len(block) /\ cons[d].block \notin free
                                 /\ \A k \in Listed : BlockOf(k) # cons[d].block
      BY <3>1 DEF BlockSeen
    <3> QED
      BY <1>2, <1>12, <1>17, <1>18, <3>1, <3>2, <3>3, <3>4 DEF BlockSeen
  <2> QED
    BY <2>2, <2>3
<1>23. RangeFits(r)' /\ IndexSeen(r)'
  <2>1. \A x : Points(r, x)' <=> Points(r, x)
    BY <1>2, <1>11 DEF Points, SpanOf, RestOf, CurOf, Num, Mod
  <2> QED
    BY <1>2, <1>9, <2>1 DEF IndexSeen, RangeFits, CurOf, Num, Key
<1>24. \A e \in 1..Len(entry) : entry'[e].value # NoBlock => \E k \in Listed' : e = EntryFor(k)
  BY <1>2, <1>17 DEF QueueInv, EntriesFit, KeysFit
<1>25. /\ Len(entry') = Len(entry) /\ \A e \in 1..Len(entry) : entry'[e].key = entry[e].key
  BY <1>2
<1>26. Listed' \subseteq Listed /\ \A k \in Listed' : BlockOf(k)' = BlockOf(k)
  BY <1>12, <1>17
<1> QED
  BY <1>2, <1>9, <1>10, <1>13, <1>18, <1>19, <1>21, <1>22, <1>23, <1>24, <1>25, <1>26, Finishes

LEMMA UnlistQueue ==
  ASSUME QueueInv, NEW c \in Takers, Unlist(c)
  PROVE  QueueInv'
<1>1. PICK r : r = [cons[c] EXCEPT !.pc = "free"]
  OBVIOUS
<1>2. /\ cons[c].pc = "unlist" /\ cons' = [cons EXCEPT ![c] = r]
      /\ entry' = [entry EXCEPT ![EntryOf(c)].value = NoBlock]
      /\ UNCHANGED <<counters, tailIndex, prod, tailBlock, headers>>
      /\ UNCHANGED <<tailIndex, prod, headers>>
      /\ UNCHANGED <<counters, tailIndex>> /\ headIndex' = headIndex
      /\ block' = block /\ headers' = headers /\ free' = free /\ tailBlock' = tailBlock /\ prod' = prod
  BY <1>1 DEF Unlist, Does, counters, blocks
<1>3. PICK n \in Int : n = CurOf(cons[c]) /\ n \in Listed /\ EntryOf(c) = EntryFor(n)
  BY <1>2, EntryOfIs
<1>4. PICK x : n = CurOf(cons[c]) /\ n \in Listed /\ EntryOf(c) = EntryFor(n) /\ x = EntryFor(n)
  BY <1>3
<1>5. /\ cons[c] \in TakerCalls /\ RangeFits(cons[c]) /\ GotRight(cons[c]) /\ IndexSeen(cons[c])
      /\ BlockSeen(cons[c])
  BY TakerIs
<1>6. PICK b \in 1..Len(block) : b = cons[c].block /\ b = BlockOf(n) /\ b \notin free
  BY <1>2, <1>4, <1>5, BlockIs DEF BlockSeen
<1>7. Spent(n)
  BY <1>2, <1>4, <1>5 DEF BlockSeen
<1>8. /\ r \in TakerCalls /\ r.pc = "free" /\ r.block = b /\ CurOf(r) = n
      /\ RestOf(r) = RestOf(cons[c]) /\ UntakenOf(r) = UntakenOf(cons[c])
      /\ SpanOf(r) \subseteq SpanOf(cons[c])
      /\ RangeFits(r) /\ GotRight(r) /\ IndexSeen(r)
  <2>1. /\ r \in TakerCalls /\ r.pc = "free" /\ r.at = cons[c].at /\ r.end = cons[c].end
        /\ r.got = cons[c].got /\ r.block = b /\ r.index = cons[c].index /\ r.slot = cons[c].slot
    BY <1>1, <1>5, <1>6 DEF TakerCalls, After
  <2>2. CurOf(r) = n
    BY <1>4, <2>1 DEF CurOf
  <2>3. RestOf(r) = RestOf(cons[c]) /\ UntakenOf(r) = UntakenOf(cons[c])
    BY <1>2, <2>1 DEF RestOf, UntakenOf, After
  <2>4. SpanOf(r) \subseteq SpanOf(cons[c])
    BY <1>2, <2>1, <2>3 DEF SpanOf
  <2>5. RangeFits(r) /\ GotRight(r)
    BY <1>2, <1>4, <1>5, <2>1, <2>2 DEF RangeFits, GotRight, After
  <2>6. IndexSeen(r)
    BY <1>2, <1>4, <1>5, <2>1, <2>2, <2>4 DEF IndexSeen, Points
  <2> QED
    BY <2>1, <2>2, <2>3, <2>4, <2>5, <2>6
<1>9. /\ ClaimsInv' /\ cons'[c] = r /\ \A d \in Takers : d # c => cons'[d] = cons[d]
  <2>1. cons[c].pc \in After /\ r.pc \in After \cup {"idle"}
    BY <1>2, <1>8 DEF After
  <2> QED
    BY <1>2, <1>8, <2>1, LookClaims
<1>10. /\ EndNum' = EndNum /\ TopNum' = TopNum
       /\ \A k : EntryFor(k)' = EntryFor(k)
  BY <1>2, EndsKeep
<1>11. /\ x \in 1..Len(entry) /\ entry' \in Seq(EntryRecs) /\ Len(entry') = Len(entry)
       /\ \A e \in 1..Len(entry) : entry'[e].key = entry[e].key
       /\ \A e \in 1..Len(entry) : e # x => entry'[e] = entry[e]
       /\ entry'[x].value = NoBlock /\ QueueTypes'
  <2>1. entry \in Seq(EntryRecs) /\ x \in 1..Len(entry) /\ QueueTypes
    BY <1>4, BlockIs DEF QueueInv, QueueTypes
  <2>2. PICK y : y = [entry[x] EXCEPT !.value = NoBlock]
    OBVIOUS
  <2>3. y \in EntryRecs /\ y.key = entry[x].key /\ y.value = NoBlock
    <3>1. entry[x] \in EntryRecs /\ NoBlock \in Nat
      BY <2>1 DEF NoBlock
    <3> QED
      BY <2>2, <3>1 DEF EntryRecs
  <2>4. entry' = [entry EXCEPT ![x] = y]
    BY <1>2, <1>4, <2>2
  <2>5. entry' \in Seq(EntryRecs) /\ Len(entry') = Len(entry)
    BY <2>1, <2>3, <2>4
  <2>6. QueueTypes'
    BY <1>2, <2>1, <2>5 DEF QueueTypes
  <2> QED
    BY <2>1, <2>3, <2>4, <2>5, <2>6
<1>12. /\ \A i \in Int : Done(i)' <=> Done(i)
       /\ \A k \in Int : DoneOf(k)' = DoneOf(k) /\ (Spent(k)' <=> Spent(k))
  <2>1. headIndex .. headIndex' - 1 = {} /\ headIndex' \in Nat /\ headIndex <= headIndex'
    BY <1>2, EndsAre
  <2> QED
    BY <1>2, <1>8, <2>1, DoneKeeps
<1>13. Listed' = Listed \ {n}
  <2>1. {k \in 0..EndNum' : ~Spent(k)'} = {k \in 0..EndNum : ~Spent(k)}
    <3>1. \A k \in 0..EndNum : k \in Int
      BY EndsAre
    <3> QED
      BY <1>10, <1>12, <3>1
  <2>2. {CurOf(cons'[d]) : d \in Unlisting'} = {CurOf(cons[d]) : d \in Unlisting} \ {n}
    <3>1. \A d \in Takers : d \in Unlisting' <=> d \in Unlisting /\ d # c
      BY <1>8, <1>9 DEF Unlisting
    <3>2. Unlisting' \subseteq Takers /\ Unlisting \subseteq Takers /\ c \in Unlisting
      BY <1>2 DEF Unlisting
    <3>3. \A d \in Unlisting' : CurOf(cons'[d]) = CurOf(cons[d])
      BY <1>9, <3>1, <3>2
    <3>4. \A d \in Unlisting : d # c => CurOf(cons[d]) # n
      BY <1>2, <1>4, <3>2 DEF QueueInv, TakersFit, TakersApart, Unlisting
    <3> QED
      BY <1>4, <3>1, <3>2, <3>3, <3>4
  <2>3. Listed' = {k \in 0..EndNum' : ~Spent(k)'} \cup {CurOf(cons'[d]) : d \in Unlisting'}
    BY DEF Listed, CurOf, Num
  <2>4. n \notin {k \in 0..EndNum : ~Spent(k)}
    BY <1>7
  <2> QED
    BY <2>1, <2>2, <2>3, <2>4 DEF Listed
<1>14. \A k \in Listed' : EntryFor(k) # x /\ BlockOf(k)' = BlockOf(k) /\ BlockOf(k) # b
  <2>1. ASSUME NEW k \in Listed' PROVE EntryFor(k) # x /\ BlockOf(k)' = BlockOf(k) /\ BlockOf(k) # b
    <3>1. k \in Listed /\ k # n /\ k \in Int
      BY <1>13, <2>1, ListedIs
    <3>2. headers # <<>> /\ k - n < LastHeader.size /\ n - k < LastHeader.size
      <4>1. /\ headers # <<>> /\ TopNum - LastHeader.size < k /\ TopNum - LastHeader.size < n
            /\ k <= TopNum /\ n <= TopNum /\ TopNum \in Int
        BY <1>4, <3>1, ListedIs, EndsAre
      <4>2. LastHeader.size \in Int
        BY <4>1, HeadersAre, HeaderIs
      <4> QED
        BY <3>1, <4>1, <4>2
    <3>3. EntryFor(k) # x
      BY <1>4, <3>1, <3>2, EntryApart
    <3>4. EntryFor(k) \in 1..Len(entry)
      BY <3>1, BlockIs
    <3>5. BlockOf(k)' = BlockOf(k)
      BY <1>10, <1>11, <3>3, <3>4 DEF BlockOf
    <3>6. BlockOf(k) # b
      BY <1>4, <1>6, <3>1 DEF QueueInv, Owned
    <3> QED
      BY <3>3, <3>5, <3>6
  <2> QED
    BY <2>1
<1>15. Owned'
  <2>1. ASSUME NEW k \in Listed'
        PROVE  /\ BlockOf(k) \in 1..Len(block) /\ BlockOf(k) \notin free
               /\ block[BlockOf(k)].empty = Cardinality(DoneOf(k)')
    <3>1. /\ BlockOf(k) \in 1..Len(block) /\ BlockOf(k) \notin free /\ k \in Int
          /\ block[BlockOf(k)].empty = Cardinality(DoneOf(k))
      BY <1>13, <2>1, ListedIs DEF QueueInv, Owned
    <3> QED
      BY <1>12, <3>1
  <2>2. \A d \in 1..Len(block) :
          d \in free \/ (\E k \in Listed' : BlockOf(k) = d)
            \/ \E e \in Takers : cons'[e].pc = "free" /\ cons'[e].block = d
    <3>1. ASSUME NEW d \in 1..Len(block), d \notin free, ~ \E k \in Listed' : BlockOf(k) = d
          PROVE  \E e \in Takers : cons'[e].pc = "free" /\ cons'[e].block = d
      <4>1. CASE d = b
        BY <1>8, <1>9, <4>1
      <4>2. CASE d # b
        <5>1. ~ \E k \in Listed : BlockOf(k) = d
          BY <1>6, <1>13, <3>1, <4>2
        <5>2. PICK e \in Takers : cons[e].pc = "free" /\ cons[e].block = d
          BY <3>1, <5>1 DEF QueueInv, Owned
        <5>3. e # c
          BY <1>2, <5>2
        <5> QED
          BY <1>9, <5>2, <5>3
      <4> QED
        BY <4>1, <4>2
    <3> QED
      BY <3>1
  <2>3. \A k, l \in Listed' : BlockOf(k) = BlockOf(l) => k = l
    BY <1>13 DEF QueueInv, Owned
  <2> QED
    BY <1>2, <1>14, <2>1, <2>2, <2>3 DEF Owned
<1>16. TakersApart'
  <2>1. ASSUME NEW d \in Takers, NEW e \in Takers, d # e
        PROVE  /\ RestOf(cons'[d]) \cap RestOf(cons'[e]) = {}
               /\ cons'[d].pc \in {"unlist", "free"} /\ cons'[e].pc \in {"unlist", "free"}
                    => CurOf(cons'[d]) # CurOf(cons'[e])
               /\ cons'[d].pc = "free" /\ cons'[e].pc = "free" => cons'[d].block # cons'[e].block
    <3>1. /\ RestOf(cons[d]) \cap RestOf(cons[e]) = {}
          /\ cons[d].pc \in {"unlist", "free"} /\ cons[e].pc \in {"unlist", "free"}
               => CurOf(cons[d]) # CurOf(cons[e])
          /\ cons[d].pc = "free" /\ cons[e].pc = "free" => cons[d].block # cons[e].block
      BY <2>1 DEF QueueInv, TakersFit, TakersApart
    <3>2. \A f \in Takers : cons[f].pc = "free" => cons[f].block # b
      BY <1>4, <1>6, TakerIs DEF BlockSeen
    <3>3. CASE d = c
      BY <1>2, <1>4, <1>8, <1>9, <2>1, <3>1, <3>2, <3>3
    <3>4. CASE e = c
      BY <1>2, <1>4, <1>8, <1>9, <2>1, <3>1, <3>2, <3>4
    <3>5. CASE d # c /\ e # c
      BY <1>9, <3>1, <3>5
    <3> QED
      BY <3>3, <3>4, <3>5
  <2> QED
    BY <2>1 DEF TakersApart, RestOf, CurOf, Num
<1>17. BlockSeen(r)'
  <2>1. CurOf(r)' = n
    BY <1>8 DEF CurOf, Num
  <2>2. Spent(n)'
    BY <1>7, <1>12
  <2> QED
    BY <1>2, <1>6, <1>8, <1>14, <2>1, <2>2 DEF BlockSeen
<1>18. ASSUME NEW d \in Takers, d # c PROVE BlockSeen(cons[d])'
  <2>1. BlockSeen(cons[d]) /\ cons'[d] = cons[d] /\ CurOf(cons[d])' = CurOf(cons[d])
    BY <1>9, <1>18, TakerIs DEF CurOf, Num
  <2>2. PICK k \in Int : k = CurOf(cons[d])
    BY TakerIs, RangeIs DEF QueueInv, ClaimsInv
  <2>3. cons[d].pc \in {"unlist", "free"} => Spent(k)'
    BY <1>12, <2>1, <2>2 DEF BlockSeen
  <2>4. cons[d].pc \in {"empty", "unlist"} => k \in Listed'
    <3>1. cons[d].pc = "unlist" => k # n
      BY <1>2, <1>4, <1>18, <2>2 DEF QueueInv, TakersFit, TakersApart
    <3>2. cons[d].pc = "unlist" => k \in Listed
      BY <2>2 DEF Listed, Unlisting
    <3>3. cons[d].pc = "empty" => k \in Listed /\ k # n
      <4>1. SUFFICES ASSUME cons[d].pc = "empty" PROVE k \in Listed /\ k # n
        OBVIOUS
      <4>2. PICK i : i \in RestOf(cons[d]) /\ Num(i) = k
        <5>1. PICK a \in Nat, t \in Nat, z \in Nat :
                 /\ a = cons[d].at - Len(cons[d].got) /\ t = cons[d].at /\ z = cons[d].end
                 /\ a < t /\ t <= z
          BY <4>1, EmptyingIs, ZenonT(30)
        <5>2. RestOf(cons[d]) = a..z - 1
          BY <4>1, <5>1 DEF RestOf
        <5>3. a \in a..z - 1
          BY <5>1
        <5> QED
          BY <2>2, <5>1, <5>2, <5>3 DEF CurOf
      <4>3. i \in Int /\ ~ Done(i) /\ k \in Listed
        BY <4>2, RestListed
      <4>4. ~ Spent(k)
        BY <4>2, <4>3, IndicesAre DEF Spent
      <4> QED
        BY <1>7, <4>3, <4>4
    <3> QED
      BY <1>13, <3>1, <3>2, <3>3
  <2>5. cons[d].pc \in {"empty", "unlist"} => cons[d].block = BlockOf(k)'
    BY <1>14, <2>1, <2>2, <2>4 DEF BlockSeen
  <2>6. cons[d].pc = "free" => /\ cons[d].block \in 1..Len(block) /\ cons[d].block \notin free
                               /\ \A l \in Listed' : BlockOf(l) # cons[d].block
    BY <1>13, <2>1 DEF BlockSeen
  <2>7. BlockOf(k)' = BlockOf(CurOf(cons[d]))' /\ (Spent(k)' <=> Spent(CurOf(cons[d]))')
    <3>1. CurOf(cons[d])' = k
      BY <2>1, <2>2
    <3> QED
      BY <3>1 DEF BlockOf, EntryFor, Spent
  <2> QED
    BY <1>2, <1>14, <2>1, <2>3, <2>5, <2>6, <2>7 DEF BlockSeen
<1>19. RangeFits(r)' /\ IndexSeen(r)'
  <2>1. \A y : Points(r, y)' <=> Points(r, y)
    BY <1>2, <1>10 DEF Points, SpanOf, RestOf, CurOf, Num, Mod
  <2> QED
    BY <1>2, <1>8, <2>1 DEF IndexSeen, RangeFits, CurOf, Num, Key
<1>20. ASSUME NEW e \in 1..Len(entry), entry'[e].value # NoBlock
       PROVE  \E k \in Listed' : e = EntryFor(k)
  <2>1. e # x /\ entry[e].value # NoBlock
    BY <1>11, <1>20
  <2>2. PICK k \in Listed : e = EntryFor(k)
    BY <2>1 DEF QueueInv, EntriesFit, KeysFit
  <2>3. k # n
    BY <1>4, <2>1, <2>2
  <2> QED
    BY <1>13, <2>2, <2>3
<1>21. /\ Len(block') = Len(block) /\ Listed' \subseteq Listed
       /\ \A b1 \in 1..Len(block) : block'[b1].data = block[b1].data /\ block'[b1].next = block[b1].next
       /\ \A k \in Listed' : BlockOf(k)' = BlockOf(k)
       /\ RestOf(r) \subseteq RestOf(cons[c]) /\ UntakenOf(r) \subseteq UntakenOf(cons[c])
  BY <1>2, <1>8, <1>13, <1>14
<1> QED
  BY <1>2, <1>8, <1>9, <1>11, <1>15, <1>16, <1>17, <1>18, <1>19, <1>20, <1>21, Finishes

LEMMA FreeQueue ==
  ASSUME QueueInv, NEW c \in Takers, Free(c)
  PROVE  QueueInv'
<1>1. PICK r : r = NextBlock(c)
  OBVIOUS
<1>2. /\ cons[c].pc = "free" /\ cons' = [cons EXCEPT ![c] = r]
      /\ free' = free \cup {cons[c].block}
      /\ UNCHANGED <<counters, tailIndex, prod, tailBlock, headers>>
      /\ UNCHANGED <<tailIndex, prod, headers>>
      /\ UNCHANGED <<counters, tailIndex>> /\ headIndex' = headIndex
      /\ block' = block /\ headers' = headers /\ entry' = entry /\ tailBlock' = tailBlock /\ prod' = prod
  BY <1>1 DEF Free, Does, counters, blocks
<1>3. BlockSeen(cons[c]) /\ cons[c].pc \in {"empty", "free"}
  BY <1>2, TakerIs
<1>4. PICK b \in 1..Len(block) : b = cons[c].block /\ \A k \in Listed : BlockOf(k) # b
  BY <1>2, <1>3 DEF BlockSeen
<1>5. /\ r \in TakerCalls /\ r.pc \in {"take", "idle"} /\ RangeFits(r) /\ GotRight(r) /\ IndexSeen(r)
      /\ RestOf(r) = cons[c].at .. cons[c].end - 1 /\ UntakenOf(r) = RestOf(r)
  BY <1>1, <1>3, NextBlockIs
<1>6. RestOf(r) = RestOf(cons[c]) /\ UntakenOf(r) = UntakenOf(cons[c])
  BY <1>2, <1>5 DEF RestOf, UntakenOf, After
<1>7. /\ ClaimsInv' /\ cons'[c] = r /\ \A d \in Takers : d # c => cons'[d] = cons[d]
  <2>1. cons[c].pc \in After /\ r.pc \in After \cup {"idle"}
    BY <1>2, <1>5 DEF After
  <2> QED
    BY <1>2, <1>5, <2>1, LookClaims
<1>8. /\ EndNum' = EndNum /\ TopNum' = TopNum
      /\ \A k : EntryFor(k)' = EntryFor(k)
  BY <1>2, EndsKeep
<1>9. \A k : BlockOf(k)' = BlockOf(k)
  BY <1>2, <1>8 DEF BlockOf
<1>10. \A k \in Int : DoneOf(k)' = DoneOf(k) /\ (Spent(k)' <=> Spent(k))
  <2>1. headIndex .. headIndex' - 1 = {} /\ headIndex' \in Nat /\ headIndex <= headIndex'
    BY <1>2, EndsAre
  <2> QED
    BY <1>2, <1>6, <2>1, DoneKeeps
<1>11. Listed' = Listed
  <2>1. {k \in 0..EndNum' : ~Spent(k)'} = {k \in 0..EndNum : ~Spent(k)}
    <3>1. \A k \in 0..EndNum : k \in Int
      BY EndsAre
    <3> QED
      BY <1>8, <1>10, <3>1
  <2>2. {CurOf(cons'[d]) : d \in Unlisting'} = {CurOf(cons[d]) : d \in Unlisting}
    <3>1. \A d \in Takers : d \in Unlisting' <=> d \in Unlisting
      BY <1>2, <1>5, <1>7 DEF Unlisting
    <3>2. Unlisting' \subseteq Takers /\ Unlisting \subseteq Takers /\ c \notin Unlisting
      BY <1>2 DEF Unlisting
    <3>3. \A d \in Unlisting : CurOf(cons'[d]) = CurOf(cons[d])
      BY <1>7, <3>2
    <3> QED
      BY <3>1, <3>2, <3>3
  <2>3. Listed' = {k \in 0..EndNum' : ~Spent(k)'} \cup {CurOf(cons'[d]) : d \in Unlisting'}
    BY DEF Listed, CurOf, Num
  <2> QED
    BY <2>1, <2>2, <2>3 DEF Listed
<1>12. QueueTypes'
  BY <1>2, <1>4 DEF QueueInv, QueueTypes
<1>13. Owned'
  <2>1. ASSUME NEW k \in Listed
        PROVE  /\ BlockOf(k) \in 1..Len(block) /\ BlockOf(k) \notin free'
               /\ block[BlockOf(k)].empty = Cardinality(DoneOf(k)')
    <3>1. /\ BlockOf(k) \in 1..Len(block) /\ BlockOf(k) \notin free /\ k \in Int
          /\ block[BlockOf(k)].empty = Cardinality(DoneOf(k))
      BY <2>1, ListedIs DEF QueueInv, Owned
    <3> QED
      BY <1>2, <1>4, <1>10, <3>1
  <2>2. \A d \in 1..Len(block) :
          d \in free' \/ (\E k \in Listed : BlockOf(k) = d)
            \/ \E e \in Takers : cons'[e].pc = "free" /\ cons'[e].block = d
    <3>1. ASSUME NEW d \in 1..Len(block), d \notin free', ~ \E k \in Listed : BlockOf(k) = d
          PROVE  \E e \in Takers : cons'[e].pc = "free" /\ cons'[e].block = d
      <4>1. d \notin free /\ d # b
        BY <1>2, <1>4, <3>1
      <4>2. PICK e \in Takers : cons[e].pc = "free" /\ cons[e].block = d
        BY <3>1, <4>1 DEF QueueInv, Owned
      <4>3. e # c
        BY <1>4, <4>1, <4>2
      <4> QED
        BY <1>7, <4>2, <4>3
    <3> QED
      BY <3>1
  <2>3. \A k, l \in Listed : BlockOf(k) = BlockOf(l) => k = l
    BY DEF QueueInv, Owned
  <2> QED
    BY <1>2, <1>9, <1>11, <2>1, <2>2, <2>3 DEF Owned
<1>14. TakersApart'
  <2>1. ASSUME NEW d \in Takers, NEW e \in Takers, d # e
        PROVE  /\ RestOf(cons'[d]) \cap RestOf(cons'[e]) = {}
               /\ cons'[d].pc \in {"unlist", "free"} /\ cons'[e].pc \in {"unlist", "free"}
                    => CurOf(cons'[d]) # CurOf(cons'[e])
               /\ cons'[d].pc = "free" /\ cons'[e].pc = "free" => cons'[d].block # cons'[e].block
    <3>1. /\ RestOf(cons[d]) \cap RestOf(cons[e]) = {}
          /\ cons[d].pc \in {"unlist", "free"} /\ cons[e].pc \in {"unlist", "free"}
               => CurOf(cons[d]) # CurOf(cons[e])
          /\ cons[d].pc = "free" /\ cons[e].pc = "free" => cons[d].block # cons[e].block
      BY <2>1 DEF QueueInv, TakersFit, TakersApart
    <3>2. CASE d = c
      BY <1>5, <1>6, <1>7, <2>1, <3>1, <3>2
    <3>3. CASE e = c
      BY <1>5, <1>6, <1>7, <2>1, <3>1, <3>3
    <3>4. CASE d # c /\ e # c
      BY <1>7, <3>1, <3>4
    <3> QED
      BY <3>2, <3>3, <3>4
  <2> QED
    BY <2>1 DEF TakersApart, RestOf, CurOf, Num
<1>15. BlockSeen(r)'
  BY <1>5 DEF BlockSeen
<1>16. ASSUME NEW d \in Takers, d # c PROVE BlockSeen(cons[d])'
  <2>1. BlockSeen(cons[d]) /\ cons'[d] = cons[d] /\ CurOf(cons[d])' = CurOf(cons[d])
    BY <1>7, <1>16, TakerIs DEF CurOf, Num
  <2>2. PICK k \in Int : k = CurOf(cons[d])
    BY TakerIs, RangeIs DEF QueueInv, ClaimsInv
  <2>3. cons[d].pc \in {"unlist", "free"} => Spent(k)'
    BY <1>10, <2>1, <2>2 DEF BlockSeen
  <2>4. Spent(k)' <=> Spent(CurOf(cons[d]))'
    <3>1. CurOf(cons[d])' = k
      BY <2>1, <2>2
    <3> QED
      BY <3>1 DEF Spent
  <2>5. cons[d].pc \in {"empty", "unlist"} => cons[d].block = BlockOf(CurOf(cons[d]))'
    BY <1>9, <2>1 DEF BlockSeen
  <2>6. cons[d].pc = "free" => /\ cons[d].block \in 1..Len(block) /\ cons[d].block \notin free'
                               /\ \A l \in Listed : BlockOf(l) # cons[d].block
    <3>1. cons[d].pc = "free" => cons[d].block # b
      BY <1>2, <1>4, <1>16 DEF QueueInv, TakersFit, TakersApart
    <3> QED
      BY <1>2, <1>4, <2>1, <3>1 DEF BlockSeen
  <2> QED
    BY <1>2, <1>9, <1>11, <2>1, <2>3, <2>4, <2>5, <2>6 DEF BlockSeen
<1>17. RangeFits(r)' /\ IndexSeen(r)'
  <2>1. \A y : Points(r, y)' <=> Points(r, y)
    BY <1>2, <1>8 DEF Points, SpanOf, RestOf, CurOf, Num, Mod
  <2> QED
    BY <1>2, <1>5, <2>1 DEF IndexSeen, RangeFits, CurOf, Num, Key
<1>18. \A e \in 1..Len(entry) : entry'[e].value # NoBlock => \E k \in Listed' : e = EntryFor(k)
  BY <1>2, <1>11 DEF QueueInv, EntriesFit, KeysFit
<1>19. /\ Len(entry') = Len(entry) /\ \A e \in 1..Len(entry) : entry'[e].key = entry[e].key
       /\ Len(block') = Len(block) /\ Listed' \subseteq Listed
       /\ \A b1 \in 1..Len(block) : block'[b1].data = block[b1].data /\ block'[b1].next = block[b1].next
       /\ \A k \in Listed' : BlockOf(k)' = BlockOf(k)
       /\ RestOf(r) \subseteq RestOf(cons[c]) /\ UntakenOf(r) \subseteq UntakenOf(cons[c])
  BY <1>2, <1>6, <1>9, <1>11
<1> QED
  BY <1>2, <1>5, <1>7, <1>12, <1>13, <1>14, <1>15, <1>16, <1>17, <1>18, <1>19, Finishes

\* All steps of a consumer.
LEMMA ConsumerQueue ==
  ASSUME QueueInv, NEW c \in Takers, ImplicitConsuming(c)
  PROVE  QueueInv'
<1>1. CASE (Claiming(c) \/ LoadTailEntry(c) \/ LoadKey(c) \/ TakeEntry(c)) /\ UNCHANGED <<entry, free>>
  <2>1. CASE Claim(c)
    BY <1>1, <2>1, ClaimQueue
  <2>2. CASE Claiming(c) /\ ~ Claim(c)
    BY <1>1, <2>2, PreparesSteps DEF Claiming
  <2>3. CASE LoadTailEntry(c)
    BY <1>1, <2>3, LoadTailEntryQueue
  <2>4. CASE LoadKey(c)
    BY <1>1, <2>4, LoadKeyQueue
  <2>5. CASE TakeEntry(c)
    BY <1>1, <2>5, TakeEntryQueue
  <2> QED
    BY <1>1, <2>1, <2>2, <2>3, <2>4, <2>5
<1> QED
  BY <1>1, AddEmptyQueue, UnlistQueue, FreeQueue DEF ImplicitConsuming

-----------------------------------------------------------------------------
(* The producer between its searches for blocks.                           *)

LEMMA DoneSame ==
  ASSUME cons' = cons, headIndex' = headIndex
  PROVE  /\ \A i : Done(i)' <=> Done(i)
         /\ \A k : DoneOf(k)' = DoneOf(k) /\ (Spent(k)' <=> Spent(k)) /\ Indices(k)' = Indices(k)
         /\ Unlisting' = Unlisting
         /\ {CurOf(cons'[d]) : d \in Unlisting'} = {CurOf(cons[d]) : d \in Unlisting}
         /\ Listed' = {k \in 0..EndNum' : ~Spent(k)} \cup {CurOf(cons[d]) : d \in Unlisting}
BY DEF Done, RestOf, CurOf, DoneOf, Spent, Indices, Key, Num, Unlisting, Listed

\* The producer leaves the index and the consumers; nothing is found or given back.
LEMMA ProducerKeeps ==
  ASSUME QueueInv, UNCHANGED <<counters, cons, headers, entry, free, tailBlock>>,
         tailIndex' \in Nat, tailIndex' >= tailIndex, EndNum' = EndNum, TopNum' = TopNum,
         prod' \in ProducerCalls, block' \in Seq(BlockRecs), BlocksKeep,
         prod'.pc \notin {"block", "found"}, ProducerFits', DataFits'
  PROVE  QueueInv'
<1>1. /\ cons' = cons /\ headers' = headers /\ entry' = entry /\ free' = free
      /\ tailBlock' = tailBlock /\ headIndex' = headIndex /\ counters' = counters
  BY DEF counters
<1>2. ClaimsInv'
  BY <1>1, MoreClaims DEF QueueInv
<1>3. \A k : EntryFor(k)' = EntryFor(k) /\ BlockOf(k)' = BlockOf(k)
  BY <1>1 DEF EntryFor, BlockOf, At, LastHeader
<1>4. /\ \A k : DoneOf(k)' = DoneOf(k) /\ (Spent(k)' <=> Spent(k)) /\ Listed' = Listed
  BY <1>1, DoneSame DEF Listed
<1>5. QueueTypes'
  BY <1>1 DEF QueueInv, QueueTypes, BlocksKeep
<1>6. TakersFit'
  BY <1>1 DEF QueueInv, TakersFit, TakersApart, RangeFits, GotRight, RestOf, CurOf, Num, Key
<1>7. HeadersFit'
  BY <1>1 DEF QueueInv, EntriesFit, HeadersFit, LastHeader
<1>8. KeysFit'
  <2>1. LastHeader' = LastHeader
    BY <1>1 DEF LastHeader
  <2>2. KeysFit
    BY DEF QueueInv, EntriesFit
  <2>3. /\ \A k \in Listed :
             /\ k \in 0..EndNum' /\ TopNum' - LastHeader'.size < k
             /\ BlockOf(k)' # NoBlock
             /\ \A l \in k..TopNum' : entry'[EntryFor(l)'].key = Key(l)
        /\ \A e \in 1..Len(entry') : entry'[e].value # NoBlock => \E k \in Listed : e = EntryFor(k)'
    BY <1>1, <1>3, <2>1, <2>2 DEF KeysFit
  <2> QED
    BY <1>4, <2>3 DEF KeysFit, Key
<1>9. Owned'
  <2>1. \A k \in Listed : block'[BlockOf(k)].empty = Cardinality(DoneOf(k))
    BY DEF QueueInv, Owned, BlocksKeep
  <2>2. Len(block') = Len(block)
    BY DEF BlocksKeep
  <2> QED
    BY <1>1, <1>3, <1>4, <2>1, <2>2 DEF QueueInv, Owned
<1>10. TakersSee'
  <2>1. ASSUME NEW d \in Takers PROVE (IndexSeen(cons[d]) /\ BlockSeen(cons[d]))'
    <3>1. IndexSeen(cons[d]) /\ BlockSeen(cons[d]) /\ cons'[d] = cons[d]
      BY <1>1, TakerIs
    <3>2. \A m : Points(cons[d], m)' <=> Points(cons[d], m)
      BY <1>1, <1>3, <3>1 DEF Points, SpanOf, RestOf, CurOf, Num, Mod
    <3>3. IndexSeen(cons[d])'
      BY <1>1, <3>1, <3>2 DEF IndexSeen, CurOf, Num, Key
    <3>4. BlockSeen(cons[d])'
      <4>1. CurOf(cons[d])' = CurOf(cons[d])
        BY <1>1 DEF CurOf, Num
      <4>2. Spent(CurOf(cons[d]))' <=> Spent(CurOf(cons[d]))
        BY <1>1, <1>4, <4>1 DEF Spent
      <4>3. Len(block') = Len(block)
        BY DEF BlocksKeep
      <4> QED
        BY <1>1, <1>3, <1>4, <3>1, <4>1, <4>2, <4>3 DEF BlockSeen
    <3> QED
      BY <3>3, <3>4
  <2> QED
    BY <2>1 DEF TakersSee
<1> QED
  BY <1>2, <1>5, <1>6, <1>7, <1>8, <1>9, <1>10 DEF QueueInv, EntriesFit

\* Before and after the elements of a call are filled in.
LEMMA FillStarts ==
  ASSUME QueueInv, UNCHANGED <<counters, cons, headers, entry, free, tailBlock, tailIndex, block>>,
         prod.pc \in {"idle", "find"}, prod' \in ProducerCalls, prod'.pc = "fill", prod'.n > 0,
         prod'.i = tailIndex, prod'.at = BlockOf(Num(tailIndex)),
         Num(tailIndex + prod'.n - 1) = EndNum, Linked(Num(tailIndex))
  PROVE  QueueInv'
<1>1. /\ cons' = cons /\ headers' = headers /\ entry' = entry /\ free' = free
      /\ tailBlock' = tailBlock /\ headIndex' = headIndex /\ tailIndex' = tailIndex /\ block' = block
      /\ tailIndex \in Nat /\ prod'.n \in Nat /\ prod'.i \in Nat
  BY EndsAre DEF counters, ProducerCalls
<1>2. EndNum' = EndNum /\ TopNum' = TopNum /\ FilledTo' = FilledTo
  <2>1. EndNum' = Num(tailIndex + prod'.n - 1)
    BY <1>1 DEF EndNum, Num
  <2> QED
    BY <1>1, <2>1 DEF TopNum, FilledTo
<1>3. \A k : EntryFor(k)' = EntryFor(k) /\ BlockOf(k)' = BlockOf(k) /\ Num(k)' = Num(k)
  BY <1>1, <1>2 DEF EntryFor, BlockOf, At, LastHeader, Num
<1>4. ProducerFits'
  <2>1. tailIndex <= prod'.i /\ prod'.i < tailIndex + prod'.n
    BY <1>1
  <2>2. Linked(Num(prod.i))'
    BY <1>1, <1>2, <1>3 DEF Linked
  <2>3. EndNum >= Num(tailIndex) => tailBlock = BlockOf(EndNum)
    BY DEF QueueInv, ProducerFits
  <2>4. Num(tailIndex)' = Num(tailIndex) /\ BlockOf(EndNum)' = BlockOf(EndNum)
        /\ BlockOf(Num(prod.i))' = BlockOf(Num(tailIndex))
    BY <1>1, <1>2, <1>3 DEF BlockOf, EntryFor
  <2> QED
    BY <1>1, <1>2, <2>1, <2>2, <2>3, <2>4 DEF ProducerFits
<1>5. DataFits'
  BY <1>1, <1>2, <1>3 DEF QueueInv, DataFits, UntakenOf
<1>6. BlocksKeep /\ block' \in Seq(BlockRecs)
  BY <1>1 DEF BlocksKeep, QueueInv, QueueTypes
<1>7. tailIndex' \in Nat /\ tailIndex' >= tailIndex
  BY <1>1
<1> QED
  BY <1>1, <1>2, <1>4, <1>5, <1>6, <1>7, ProducerKeeps

LEMMA EnqueueInTailQueue ==
  ASSUME QueueInv, EnqueueInTail
  PROVE  QueueInv'
<1>1. PICK p : p = One("fill", tailBlock)
  OBVIOUS
<1>2. /\ prod.pc = "idle" /\ tailIndex % BLOCK_SIZE # 0 /\ prod' = p
      /\ UNCHANGED <<counters, cons, headers, entry, free, tailBlock, tailIndex, block>>
  BY <1>1 DEF EnqueueInTail, CanEnqueue, StartsBlock, Unshared
<1>3. tailIndex \in Nat /\ tailBlock \in Nat /\ EndNum \in Int
  BY EndsAre DEF QueueInv, QueueTypes
<1>4. /\ p \in ProducerCalls /\ p.pc = "fill" /\ p.n = 1 /\ p.i = tailIndex /\ p.at = tailBlock
  <2>1. p = [pc |-> "fill", n |-> 1, left |-> 0, base |-> 0, first |-> 0, start |-> 0, front |-> 0,
             used |-> 0, at |-> tailBlock, i |-> tailIndex]
    BY <1>1 DEF One, IdleProducer
  <2> QED
    BY <1>3, <2>1 DEF ProducerCalls
<1>5. EndNum = Num(tailIndex)
  <2>1. tailIndex \in Int
    BY <1>3
  <2> QED
    BY <1>2, <2>1, NumBefore DEF EndNum
<1>6. tailBlock = BlockOf(Num(tailIndex))
  BY <1>3, <1>5 DEF QueueInv, ProducerFits
<1>7. Num(tailIndex + p.n - 1) = EndNum
  <2>1. tailIndex + 1 - 1 = tailIndex
    BY <1>3
  <2> QED
    BY <1>4, <1>5, <2>1
<1>8. Linked(Num(tailIndex))
  BY <1>3, <1>5 DEF Linked
<1> QED
  BY <1>2, <1>4, <1>6, <1>7, <1>8, FillStarts

LEMMA BulkBeginQueue ==
  ASSUME QueueInv, NEW n \in Bulks, ImplicitBulkBegin(n)
  PROVE  QueueInv'
<1>1. PICK base, left, pc :
        /\ base = Base(tailIndex - 1)
        /\ left = (Base(tailIndex + n - 1) - base) \div BLOCK_SIZE
        /\ pc = IF left > 0 THEN "find" ELSE "fill"
  OBVIOUS
<1>2. PICK p : p = [pc |-> pc, n |-> n, left |-> left,
                    base |-> base, first |-> 0, start |-> tailBlock, front |-> 0,
                    used |-> 0, at |-> tailBlock, i |-> tailIndex]
  OBVIOUS
<1>3. /\ prod.pc = "idle" /\ prod' = p
      /\ UNCHANGED <<counters, cons, headers, entry, free, tailBlock, tailIndex, block>>
  BY <1>1, <1>2 DEF ImplicitBulkBegin, BulkStart, Tick, Unshared
<1>4. /\ tailIndex \in Nat /\ tailBlock \in Nat /\ n \in Nat /\ n > 0 /\ EndNum \in Int
      /\ Num(tailIndex) \in Int /\ EndNum <= Num(tailIndex) /\ EndNum = Num(tailIndex - 1)
  <2>1. n \in Nat /\ n > 0
    BY SubQueueFits DEF SubQueueAssumption
  <2> QED
    BY <1>3, <2>1, EndsAre DEF QueueInv, QueueTypes, EndNum
<1>5. PICK t \in Int, u \in Int, m \in Int : t = tailIndex - 1 /\ u = tailIndex + n - 1 /\ m = Num(u)
  <2>1. PICK t \in Int, u \in Int : t = tailIndex - 1 /\ u = tailIndex + n - 1
    BY <1>4
  <2>2. Num(u) \in Int
    BY NumType
  <2> QED
    BY <2>1, <2>2
<1>6. base = Key(EndNum) /\ base \in Int /\ left = m - EndNum /\ left \in Nat
      /\ Num(tailIndex) <= m /\ Num(base) = EndNum
  <2>1. Base(t) = Key(EndNum) /\ Base(u) = Key(m)
    BY <1>4, <1>5, NumType
  <2>2. left = m - EndNum
    BY <1>1, <1>4, <1>5, <2>1, BlocksBetween
  <2>3. Num(tailIndex) <= m
    <3>1. tailIndex \in Int /\ tailIndex <= u
      BY <1>4, <1>5
    <3> QED
      BY <1>5, <3>1, NumOrder
  <2> QED
    BY <1>1, <1>4, <1>5, <2>1, <2>2, <2>3, KeyType, NumOfKey
<1>7. pc \in {"find", "fill"} /\ (pc = "find" <=> left > 0)
  BY <1>1
<1>8. /\ p \in ProducerCalls /\ p.pc = pc /\ p.n = n /\ p.left = left /\ p.base = base /\ p.first = 0
      /\ p.start = tailBlock /\ p.at = tailBlock /\ p.i = tailIndex
  <2>1. p \in ProducerCalls
    BY <1>2, <1>4, <1>6, <1>7 DEF ProducerCalls
  <2> QED
    BY <1>2, <2>1
<1>9. Linked(Num(tailIndex))
  BY <1>4 DEF Linked
<1>10. EndNum >= Num(tailIndex) => tailBlock = BlockOf(EndNum)
  BY DEF QueueInv, ProducerFits
<1>11. CASE pc = "fill"
  <2>1. left = 0 /\ m = EndNum /\ EndNum = Num(tailIndex)
    BY <1>4, <1>5, <1>6, <1>7, <1>11
  <2>2. tailBlock = BlockOf(Num(tailIndex))
    BY <1>4, <1>10, <2>1
  <2> QED
    BY <1>3, <1>4, <1>5, <1>8, <1>9, <1>11, <2>1, <2>2, FillStarts
<1>12. CASE pc = "find"
  <2>1. /\ cons' = cons /\ headers' = headers /\ entry' = entry /\ free' = free
        /\ tailBlock' = tailBlock /\ headIndex' = headIndex /\ tailIndex' = tailIndex /\ block' = block
    BY <1>3 DEF counters
  <2>2. EndNum' = EndNum /\ TopNum' = TopNum /\ FilledTo' = FilledTo
    <3>1. EndNum' = Num(base)
      BY <1>3, <1>8, <1>12 DEF EndNum, Num
    <3> QED
      BY <1>3, <1>6, <1>8, <1>12, <2>1, <3>1 DEF TopNum, FilledTo
  <2>3. \A k : EntryFor(k)' = EntryFor(k) /\ BlockOf(k)' = BlockOf(k) /\ Num(k)' = Num(k) /\ Key(k)' = Key(k)
    BY <2>1, <2>2 DEF EntryFor, BlockOf, At, LastHeader, Num, Key
  <2>4. ProducerFits'
    <3>1. Linked(Num(tailIndex))'
      BY <1>9, <2>1, <2>2, <2>3 DEF Linked
    <3>2. /\ Num(tailIndex)' = Num(tailIndex) /\ Num(tailIndex - 1)' = EndNum
          /\ Num(tailIndex + prod.n - 1)' = m
          /\ BlockOf(EndNum)' = BlockOf(EndNum) /\ BlockOf(Num(tailIndex))' = BlockOf(Num(tailIndex))
      BY <1>3, <1>4, <1>5, <1>8, <2>1, <2>2, <2>3 DEF BlockOf, EntryFor
    <3>3. /\ EndNum >= EndNum /\ ~ (EndNum > EndNum) /\ EndNum + left = m
          /\ (EndNum = Num(tailIndex) => EndNum >= Num(tailIndex))
      BY <1>4, <1>6
    <3> QED
      BY <1>3, <1>4, <1>6, <1>8, <1>10, <1>12, <2>1, <2>2, <2>3, <3>1, <3>2, <3>3 DEF ProducerFits
  <2>5. DataFits'
    BY <2>1, <2>2, <2>3 DEF QueueInv, DataFits, UntakenOf
  <2>6. BlocksKeep /\ block' \in Seq(BlockRecs)
    BY <2>1 DEF BlocksKeep, QueueInv, QueueTypes
  <2>7. tailIndex' \in Nat /\ tailIndex' >= tailIndex
    BY <1>4, <2>1
  <2> QED
    BY <1>3, <1>8, <1>12, <2>1, <2>2, <2>4, <2>5, <2>6, <2>7, ProducerKeeps
<1> QED
  BY <1>7, <1>11, <1>12

LEMMA BulkFoundQueue ==
  ASSUME QueueInv, BulkFound
  PROVE  QueueInv'
<1>1. PICK a : a = IF StartsBlock THEN prod.first ELSE prod.start
  OBVIOUS
<1>2. PICK p : p = [prod EXCEPT !.pc = "fill", !.at = a]
  OBVIOUS
<1>3. /\ prod.pc = "find" /\ prod' = p /\ prod.left = 0
      /\ UNCHANGED <<counters, cons, headers, entry, free, tailBlock, tailIndex, block>>
  BY <1>1, <1>2 DEF BulkFound, FillBlocks, Tick, Unshared
<1>4. /\ prod \in ProducerCalls /\ ProducerFits /\ prod.first \in Nat /\ prod.start \in Nat
      /\ prod.n \in Nat /\ tailIndex \in Nat /\ EndNum \in Int
      /\ Num(tailIndex) \in Int /\ Num(tailIndex - 1) \in Int
  BY EndsAre, ProducerIs DEF QueueInv, QueueTypes
<1>5. /\ p \in ProducerCalls /\ p.pc = "fill" /\ p.n = prod.n /\ p.i = prod.i /\ p.at = a
  <2>1. a \in Nat
    BY <1>1, <1>4
  <2> QED
    BY <1>2, <1>4, <2>1 DEF ProducerCalls
<1>6. /\ prod.n > 0 /\ prod.i = tailIndex /\ EndNum + prod.left = Num(tailIndex + prod.n - 1)
      /\ Linked(Num(tailIndex))
      /\ EndNum > Num(tailIndex - 1) => prod.first = BlockOf(Num(tailIndex - 1) + 1)
      /\ Num(tailIndex - 1) = Num(tailIndex) => prod.start = BlockOf(Num(tailIndex))
  BY <1>3, <1>4 DEF ProducerFits
<1>7. EndNum = Num(tailIndex + prod.n - 1) /\ Num(tailIndex) <= EndNum
  <2>1. PICK u \in Int : u = tailIndex + prod.n - 1 /\ tailIndex <= u /\ tailIndex \in Int
    BY <1>4, <1>6
  <2>2. EndNum = Num(u)
    BY <1>3, <1>4, <1>6, <2>1
  <2> QED
    BY <2>1, <2>2, NumOrder
<1>8. a = BlockOf(Num(tailIndex))
  <2>1. tailIndex \in Int
    BY <1>4
  <2>2. CASE StartsBlock
    <3>1. Num(tailIndex - 1) = Num(tailIndex) - 1
      BY <2>1, <2>2, NumBefore DEF StartsBlock
    <3>2. Num(tailIndex - 1) + 1 = Num(tailIndex) /\ EndNum > Num(tailIndex - 1)
      BY <1>4, <1>7, <3>1
    <3> QED
      BY <1>1, <1>6, <2>2, <3>2
  <2>3. CASE ~ StartsBlock
    <3>1. Num(tailIndex - 1) = Num(tailIndex)
      BY <2>1, <2>3, NumBefore DEF StartsBlock
    <3> QED
      BY <1>1, <1>6, <2>3, <3>1
  <2> QED
    BY <2>2, <2>3
<1> QED
  BY <1>3, <1>5, <1>6, <1>7, <1>8, FillStarts

LEMMA PublishQueue ==
  ASSUME QueueInv, Publish, UNCHANGED <<entry, free>>
  PROVE  QueueInv'
<1>1. /\ prod.pc = "publish" /\ prod' = IdleProducer /\ tailIndex' = tailIndex + prod.n
      /\ UNCHANGED <<counters, cons, headers, entry, free, tailBlock>> /\ block' = block
  BY DEF Publish, Tick
<1>2. /\ cons' = cons /\ headers' = headers /\ entry' = entry /\ free' = free
      /\ tailBlock' = tailBlock /\ headIndex' = headIndex
  BY <1>1 DEF counters
<1>3. /\ tailIndex \in Nat /\ prod.n \in Nat /\ ProducerFits /\ EndNum \in Int
  BY EndsAre, ProducerIs DEF QueueInv
<1>4. tailIndex' \in Nat /\ tailIndex' >= tailIndex /\ prod.i = tailIndex'
  BY <1>1, <1>3 DEF ProducerFits
<1>5. IdleProducer \in ProducerCalls /\ IdleProducer.pc = "idle"
  BY DEF IdleProducer, ProducerCalls
<1>6. EndNum' = EndNum /\ TopNum' = TopNum /\ FilledTo' = FilledTo
  <2>1. EndNum' = Num(tailIndex' - 1)
    BY <1>1, <1>5 DEF EndNum, Num
  <2>2. EndNum = Num(tailIndex + prod.n - 1)
    BY <1>1 DEF EndNum
  <2>3. FilledTo' = FilledTo
    BY <1>1, <1>4, <1>5 DEF FilledTo
  <2> QED
    <3>1. tailIndex' - 1 = tailIndex + prod.n - 1
      BY <1>1, <1>3
    <3>2. EndNum' = EndNum
      BY <2>1, <2>2, <3>1, Zenon
    <3>3. TopNum' = EndNum' /\ TopNum = EndNum
      BY <1>1, <1>5 DEF TopNum
    <3> QED
      BY <2>3, <3>2, <3>3
<1>7. \A k : EntryFor(k)' = EntryFor(k) /\ BlockOf(k)' = BlockOf(k) /\ Num(k)' = Num(k)
  BY <1>2, <1>6 DEF EntryFor, BlockOf, At, LastHeader, Num
<1>8. ProducerFits'
  <2>1. EndNum >= Num(tailIndex') => EndNum >= Num(tailIndex)
    <3>1. tailIndex \in Int /\ tailIndex' \in Int /\ tailIndex <= tailIndex'
      BY <1>3, <1>4
    <3>2. Num(tailIndex) <= Num(tailIndex') /\ Num(tailIndex) \in Int /\ Num(tailIndex') \in Int
      BY <3>1, NumOrder, NumType
    <3> QED
      BY <1>3, <3>2
  <2>2. Num(tailIndex)' = Num(tailIndex') /\ BlockOf(EndNum)' = BlockOf(EndNum)
    BY <1>6, <1>7 DEF Num, BlockOf, EntryFor
  <2> QED
    BY <1>1, <1>2, <1>3, <1>5, <1>6, <2>1, <2>2 DEF ProducerFits
<1>9. DataFits'
  BY <1>1, <1>2, <1>6, <1>7 DEF QueueInv, DataFits, UntakenOf
<1>10. BlocksKeep /\ block' \in Seq(BlockRecs)
  BY <1>1 DEF BlocksKeep, QueueInv, QueueTypes
<1> QED
  BY <1>1, <1>4, <1>5, <1>6, <1>8, <1>9, <1>10, ProducerKeeps

LEMMA FillQueue ==
  ASSUME QueueInv, Fill, UNCHANGED <<entry, free>>
  PROVE  QueueInv'
<1>1. PICK i, z, e, at : /\ i = prod.i /\ z = tailIndex + prod.n
                         /\ e = EndOfBlock(i, z) /\ at = prod.at
  OBVIOUS
<1>2. /\ prod.pc = "fill" /\ UNCHANGED <<counters, cons, headers, entry, free, tailBlock>>
      /\ tailIndex' = tailIndex
      /\ prod' = IF at = tailBlock THEN [prod EXCEPT !.pc = "publish", !.i = e]
                 ELSE [prod EXCEPT !.at = block[at].next, !.i = e]
      /\ block' = [block EXCEPT ![at].data =
                    [s \in Slots |-> LET j == Base(i) + s
                                     IN IF j \in i .. e - 1 THEN j + 1 ELSE @[s]]]
  BY <1>1 DEF Fill, Tick, Unshared
<1>3. /\ cons' = cons /\ headers' = headers /\ entry' = entry /\ free' = free
      /\ tailBlock' = tailBlock /\ headIndex' = headIndex
  BY <1>2 DEF counters
<1>4. /\ prod \in ProducerCalls /\ prod.n \in Nat /\ tailIndex \in Nat /\ i \in Nat /\ z \in Nat
      /\ tailIndex <= i /\ i < z /\ at = BlockOf(Num(i)) /\ Linked(Num(i)) /\ prod.n > 0
      /\ EndNum = Num(tailIndex + prod.n - 1) /\ FilledTo = i /\ EndNum \in Int
      /\ (EndNum >= Num(tailIndex) => tailBlock = BlockOf(EndNum))
      /\ headIndex \in Nat /\ headIndex <= tailIndex
  <2>1. prod \in ProducerCalls /\ ProducerFits /\ QueueTypes
    BY DEF QueueInv, QueueTypes
  <2>2. /\ prod.n \in Nat /\ tailIndex \in Nat /\ prod.i \in Nat /\ EndNum \in Int
        /\ headIndex \in Nat /\ headIndex <= tailIndex
    BY <2>1, EndsAre, ProducerIs
  <2>3. /\ prod.n > 0 /\ tailIndex <= prod.i /\ prod.i < tailIndex + prod.n
        /\ prod.at = BlockOf(Num(prod.i)) /\ Linked(Num(prod.i))
        /\ EndNum >= Num(tailIndex) => tailBlock = BlockOf(EndNum)
    BY <1>2, <2>1 DEF ProducerFits
  <2>4. EndNum = Num(tailIndex + prod.n - 1) /\ FilledTo = prod.i
    BY <1>2 DEF EndNum, FilledTo
  <2> QED
    BY <1>1, <2>1, <2>2, <2>3, <2>4
<1>5. PICK n \in Int, m \in Int, u \in Int :
        n = Num(i) /\ u = z - 1 /\ m = Num(u) /\ m = EndNum /\ i \in Int
  <2>1. PICK u \in Int : u = z - 1 /\ u = tailIndex + prod.n - 1 /\ i \in Int
    BY <1>1, <1>4
  <2>2. Num(u) \in Int /\ Num(i) \in Int
    BY <2>1, NumType
  <2> QED
    BY <1>4, <2>1, <2>2
<1>6. /\ Key(n) \in Int /\ Key(n) <= i /\ i < Key(n) + BLOCK_SIZE /\ Base(i) = Key(n)
      /\ Key(n + 1) = Key(n) + BLOCK_SIZE /\ BLOCK_SIZE \in Nat /\ n + 1 \in Int
      /\ Key(m) \in Int /\ Key(m) <= u /\ u < Key(m) + BLOCK_SIZE
  <2>1. /\ Key(Num(i)) <= i /\ i < Key(Num(i)) + BLOCK_SIZE /\ Base(i) = Key(Num(i))
        /\ Key(Num(u)) <= u /\ u < Key(Num(u)) + BLOCK_SIZE
    BY <1>5, NumType
  <2>2. Key(n) \in Int /\ Key(n + 1) = Key(n) + BLOCK_SIZE /\ Key(m) \in Int
    BY KeyType
  <2> QED
    BY <1>5, <2>1, <2>2, SizeFacts
<1>7. /\ e = IF Key(n + 1) <= z THEN Key(n + 1) ELSE z
      /\ e \in Int /\ i < e /\ e <= z /\ e <= Key(n) + BLOCK_SIZE
  <2>1. PICK x \in Int : x = Key(n) + BLOCK_SIZE
    BY <1>6
  <2>2. Min({x, z}) = IF x <= z THEN x ELSE z
    <3>1. z \in Int
      BY <1>4
    <3> QED
      BY <3>1, MinOfTwo
  <2> QED
    BY <1>1, <1>4, <1>6, <2>1, <2>2 DEF EndOfBlock
<1>8. Num(tailIndex) <= n /\ n <= m /\ Num(tailIndex) \in Int
  <2>1. tailIndex \in Int /\ i <= u
    BY <1>4, <1>5
  <2> QED
    BY <1>4, <1>5, <2>1, NumOrder, NumType
<1>9. /\ n \in Listed /\ m \in Listed
      /\ tailBlock = BlockOf(m)
  <2>1. n <= EndNum /\ m <= EndNum /\ Num(tailIndex) <= m
    BY <1>5, <1>8
  <2> QED
    BY <1>4, <1>5, <1>8, <2>1, AheadListed
<1>10. at \in 1..Len(block) /\ at = BlockOf(n)
  BY <1>4, <1>5, <1>9, BlockIs
<1>11. at = tailBlock <=> n = m
  BY <1>9, <1>10 DEF QueueInv, Owned
<1>12. PICK d : d = [s \in Slots |-> LET j == Base(i) + s
                                     IN IF j \in i .. e - 1 THEN j + 1 ELSE block[at].data[s]]
  OBVIOUS
<1>13. block[at] \in BlockRecs /\ block[at].data \in [Slots -> Nat] /\ block \in Seq(BlockRecs)
  <2>1. block \in Seq(BlockRecs)
    BY DEF QueueInv, QueueTypes
  <2>2. block[at] \in BlockRecs
    BY <1>10, <2>1
  <2> QED
    BY <2>1, <2>2 DEF BlockRecs
<1>14. d \in [Slots -> Nat]
  <2>1. ASSUME NEW s \in Slots
        PROVE  (LET j == Base(i) + s IN IF j \in i .. e - 1 THEN j + 1 ELSE block[at].data[s]) \in Nat
    <3>1. block[at].data[s] \in Nat
      BY <1>13
    <3>2. \A j \in i .. e - 1 : j + 1 \in Nat
      BY <1>4, <1>7
    <3> QED
      BY <3>1, <3>2
  <2> QED
    BY <1>12, <2>1
<1>15. /\ BlocksKeep /\ block' \in Seq(BlockRecs) /\ block'[at].data = d
       /\ \A b \in 1..Len(block) : b # at => block'[b] = block[b]
  <2>1. PICK x : x = [block[at] EXCEPT !.data = d]
    OBVIOUS
  <2>2. x \in BlockRecs /\ x.data = d /\ x.empty = block[at].empty /\ x.next = block[at].next
    BY <1>13, <1>14, <2>1 DEF BlockRecs
  <2>3. block' = [block EXCEPT ![at] = x]
    BY <1>2, <1>12, <2>1
  <2>4. block' \in Seq(BlockRecs) /\ Len(block') = Len(block)
    BY <1>10, <1>13, <2>2, <2>3
  <2> QED
    BY <1>10, <1>13, <2>2, <2>3, <2>4 DEF BlocksKeep
<1>16. /\ prod' \in ProducerCalls /\ prod'.n = prod.n /\ prod'.i = e /\ prod'.pc \in {"fill", "publish"}
       /\ prod'.pc = "publish" => n = m
       /\ prod'.pc = "fill" => n # m /\ prod'.at = block[at].next
  <2>1. e \in Nat
    BY <1>4, <1>7
  <2>2. block[at].next \in Nat
    BY <1>13 DEF BlockRecs
  <2>3. CASE at = tailBlock
    <3>1. prod' = [prod EXCEPT !.pc = "publish", !.i = e]
      BY <1>2, <2>3
    <3> QED
      BY <1>4, <1>11, <2>1, <2>3, <3>1 DEF ProducerCalls
  <2>4. CASE at # tailBlock
    <3>1. prod' = [prod EXCEPT !.at = block[at].next, !.i = e]
      BY <1>2, <2>4
    <3> QED
      BY <1>2, <1>4, <1>11, <2>1, <2>2, <2>4, <3>1 DEF ProducerCalls
  <2> QED
    BY <2>3, <2>4
<1>17. EndNum' = EndNum /\ TopNum' = TopNum /\ FilledTo' = e
  <2>1. EndNum' = Num(tailIndex + prod'.n - 1)
    BY <1>2, <1>16 DEF EndNum, Num
  <2>2. EndNum' = EndNum
    BY <1>4, <1>16, <2>1
  <2>3. TopNum' = EndNum' /\ TopNum = EndNum
    BY <1>2, <1>16 DEF TopNum
  <2>4. FilledTo' = e
    BY <1>16 DEF FilledTo
  <2> QED
    BY <2>2, <2>3, <2>4
<1>18. \A k : EntryFor(k)' = EntryFor(k) /\ BlockOf(k)' = BlockOf(k) /\ Num(k)' = Num(k)
  BY <1>3, <1>17 DEF EntryFor, BlockOf, At, LastHeader, Num
<1>19. /\ n = m => e = z
       /\ n # m => e = Key(n + 1) /\ e < z /\ Num(e) = n + 1
  <2>1. n = m => e = z
    BY <1>4, <1>5, <1>6, <1>7
  <2>2. ASSUME n # m PROVE e = Key(n + 1) /\ e < z /\ Num(e) = n + 1
    <3>1. n + 1 <= m
      BY <1>8, <2>2
    <3>2. Key(n + 1) <= Key(m)
      BY <1>6, <3>1, KeyOrders
    <3>3. e = Key(n + 1) /\ e < z
      BY <1>4, <1>5, <1>6, <1>7, <3>2
    <3> QED
      BY <1>6, <3>3, NumOfKey
  <2> QED
    BY <2>1, <2>2
<1>20. ProducerFits'
  <2>1. tailIndex <= e
    BY <1>4, <1>7
  <2>2. prod'.pc = "fill" => /\ e < tailIndex + prod.n
                             /\ prod'.at = BlockOf(n + 1) /\ Num(e) = n + 1
                             /\ \A k \in n + 1 .. EndNum - 1 : block[BlockOf(k)].next = BlockOf(k + 1)
    <3>1. SUFFICES ASSUME prod'.pc = "fill"
                   PROVE  /\ e < tailIndex + prod.n
                          /\ prod'.at = BlockOf(n + 1) /\ Num(e) = n + 1
                          /\ \A k \in n + 1 .. EndNum - 1 : block[BlockOf(k)].next = BlockOf(k + 1)
      OBVIOUS
    <3>2. n # m
      BY <1>16, <3>1
    <3>3. n \in Num(i) .. EndNum - 1 /\ \A k \in n + 1 .. EndNum - 1 : k \in Num(i) .. EndNum - 1
      BY <1>5, <1>8, <3>2
    <3>4. \A k \in Num(i) .. EndNum - 1 : block[BlockOf(k)].next = BlockOf(k + 1)
      BY <1>4 DEF Linked
    <3> QED
      BY <1>1, <1>10, <1>16, <1>19, <3>1, <3>2, <3>3, <3>4
  <2>3. prod'.pc = "fill" => Linked(Num(prod.i))'
    <3>1. ASSUME prod'.pc = "fill", NEW k \in n + 1 .. EndNum - 1
          PROVE  block'[BlockOf(k)].next = BlockOf(k + 1)
      <4>1. k \in Int /\ Num(tailIndex) <= k /\ k <= EndNum
        BY <1>4, <1>8, <3>1
      <4>2. BlockOf(k) \in 1..Len(block)
        BY <4>1, AheadListed, BlockIs
      <4> QED
        BY <1>15, <2>2, <3>1, <4>2 DEF BlocksKeep
    <3>2. Num(prod.i)' = Num(e)
      BY <1>16 DEF Num
    <3> QED
      BY <1>17, <1>18, <2>2, <3>1, <3>2 DEF Linked
  <2>4. prod'.pc = "publish" => e = tailIndex + prod.n
    BY <1>1, <1>16, <1>19
  <2>5. /\ Num(tailIndex)' = Num(tailIndex) /\ BlockOf(EndNum)' = BlockOf(EndNum)
        /\ prod'.pc = "fill" => BlockOf(Num(prod.i))' = BlockOf(n + 1)
    <3>1. Num(prod.i)' = Num(e)
      BY <1>16 DEF Num
    <3> QED
      BY <1>2, <1>17, <1>18, <2>2, <3>1 DEF Num, BlockOf, EntryFor
  <2> QED
    BY <1>2, <1>3, <1>4, <1>16, <1>17, <2>1, <2>2, <2>3, <2>4, <2>5 DEF ProducerFits
<1>21. DataFits'
  <2>1. ASSUME NEW j \in 0..e - 1,
               j >= headIndex \/ (\E c \in Takers : j \in UntakenOf(cons[c]))
        PROVE  block'[BlockOf(Num(j))].data[j % BLOCK_SIZE] = j + 1
    <3>1. j \in Int /\ j \in Nat
      BY <1>7
    <3>2. j % BLOCK_SIZE \in Slots /\ Base(j) = Key(Num(j)) /\ j % BLOCK_SIZE = j - Key(Num(j))
          /\ Num(j) \in Int
      BY <3>1, NumType
    <3>3. PICK s \in Slots, q \in Int : s = j % BLOCK_SIZE /\ q = s
      BY <3>1, <3>2 DEF Slots
    <3>4. s = j - Key(Num(j)) /\ d[s] = IF Base(i) + s \in i .. e - 1 THEN Base(i) + s + 1 ELSE block[at].data[s]
      BY <1>12, <3>2, <3>3
    <3>5. CASE j < i
      <4>1. j \in 0..FilledTo - 1
        BY <1>4, <3>1, <3>5
      <4>2. Num(j) \in Listed /\ block[BlockOf(Num(j))].data[j % BLOCK_SIZE] = j + 1
        BY <2>1, <4>1, ElementIs
      <4>3. BlockOf(Num(j)) \in 1..Len(block)
        BY <4>2, BlockIs
      <4>4. CASE BlockOf(Num(j)) # at
        BY <1>15, <4>2, <4>3, <4>4
      <4>5. CASE BlockOf(Num(j)) = at
        <5>1. Num(j) = n
          BY <1>9, <1>10, <4>2, <4>5 DEF QueueInv, Owned
        <5>2. Base(i) + s = j
          BY <1>6, <3>1, <3>3, <3>4, <5>1
        <5>3. j \notin i..e - 1
          BY <3>1, <3>5, <1>4
        <5>4. d[s] = block[at].data[s]
          BY <3>4, <5>2, <5>3
        <5> QED
          BY <1>15, <3>3, <4>2, <4>5, <5>4
      <4> QED
        BY <4>4, <4>5
    <3>6. CASE ~ (j < i)
      <4>1. Key(n) <= j /\ j < Key(n) + BLOCK_SIZE
        BY <1>4, <1>6, <1>7, <3>1, <3>6
      <4>2. Num(j) = n
        BY <3>1, <4>1, NumIs
      <4>3. Base(i) + s = j
        BY <1>6, <3>1, <3>3, <3>4, <4>2
      <4>4. j \in i..e - 1
        BY <1>4, <1>7, <3>1, <3>6
      <4>5. d[s] = j + 1
        BY <3>4, <4>3, <4>4
      <4> QED
        BY <1>10, <1>15, <3>3, <4>2, <4>5
    <3> QED
      BY <3>5, <3>6
  <2> QED
    BY <1>3, <1>17, <1>18, <2>1 DEF DataFits, UntakenOf
<1>22. tailIndex' \in Nat /\ tailIndex' >= tailIndex /\ prod'.pc \notin {"block", "found"}
  BY <1>2, <1>4, <1>16
<1> QED
  BY <1>2, <1>15, <1>16, <1>17, <1>20, <1>21, <1>22, ProducerKeeps

-----------------------------------------------------------------------------
(* The producer finds an entry for the next block.                         *)

\* In h, from slot s, which is or was for number m, the entry for k is e.
FindsFrom(h, s, m, k, e) == h.index[Mod(s + (k - m), h.size)] = e

\* An index that had become too small finds an entry by the distance from that
\* of any other block.
LEMMA AlignedSame ==
  ASSUME NEW h \in HeaderRecs, NEW l \in HeaderRecs, Aligned(h, l),
         NEW top \in Int, NEW k \in Int, NEW m \in Int, NEW s \in 0..h.size - 1,
         FindsFrom(h, s, m, k, At(l, top, k)), h.index[s] = At(l, top, top + 1)
  PROVE  FindsFrom(h, s, top + 1, k, At(l, top, k))
<1>1. PICK d \in Nat \ {0}, n \in Nat \ {0} : d = h.size /\ n = l.size
  BY HeaderIs
<1>2. l.tail \in Int /\ s \in Int /\ Divides(d, n)
  BY <1>1, HeaderIs DEF Aligned
<1>3. PICK x \in Int, y \in Int, z \in Int :
        x = s + (k - m) /\ y = l.tail - (top - (top + 1)) /\ z = l.tail - (top - k)
  BY <1>2
<1>4. PICK p2 \in 0..d - 1, q1 \in 0..n - 1, q2 \in 0..n - 1 :
        p2 = Mod(x, d) /\ q1 = Mod(y, n) /\ q2 = Mod(z, n)
  BY ModType
<1>5. h.index[s] = l.index[q1] /\ h.index[p2] = l.index[q2]
  BY <1>1, <1>3, <1>4 DEF At, FindsFrom
<1>6. Mod(q1 - q2, d) = Mod(s - p2, d)
  BY <1>1, <1>5 DEF Aligned
<1>7. Mod(q1 - q2, n) = Mod(y - z, n)
  <2>1. q2 \in Int /\ Mod(q1 - q2, n) = Mod(y - q2, n)
    <3>1. q2 \in Int
      OBVIOUS
    <3> QED
      BY <1>4, <3>1, ModAdds
  <2>2. Mod(y - q2, n) = Mod(y - z, n)
    BY <1>4, ModAdds
  <2> QED
    BY <2>1, <2>2
<1>8. Mod(q1 - q2, d) = Mod(y - z, d)
  <2>1. PICK u \in Int, v \in Int : u = q1 - q2 /\ v = y - z
    OBVIOUS
  <2> QED
    BY <1>2, <1>7, <2>1, ModDivides
<1>9. Mod(s - p2, d) = Mod(s - x, d)
  BY <1>2, <1>4, ModAdds
<1>10. PICK u \in Int, v \in Int : u = s - x /\ v = y - z /\ s - u = x /\ s - v = s + (k - (top + 1))
  BY <1>2, <1>3
<1>11. Mod(u, d) = Mod(v, d)
  BY <1>6, <1>8, <1>9, <1>10
<1>12. Mod(s - u, d) = Mod(s - v, d)
  BY <1>2, <1>11, ModShift
<1>13. h.index[Mod(x, h.size)] = At(l, top, k)
  BY <1>3 DEF FindsFrom
<1>14. h.index[Mod(s + (k - (top + 1)), h.size)] = At(l, top, k)
  BY <1>1, <1>10, <1>12, <1>13
<1> QED
  BY <1>14 DEF FindsFrom

\* A sequence with one element changed, and one with more.
LEMMA SeqPut ==
  ASSUME NEW S, NEW q \in Seq(S), NEW j \in 1..Len(q), NEW x \in S
  PROVE  /\ [q EXCEPT ![j] = x] \in Seq(S) /\ Len([q EXCEPT ![j] = x]) = Len(q)
         /\ [q EXCEPT ![j] = x][j] = x
         /\ \A k \in 1..Len(q) : k # j => [q EXCEPT ![j] = x][k] = q[k]
OBVIOUS

LEMMA SeqMore ==
  ASSUME NEW S, NEW q \in Seq(S), NEW x \in Seq(S)
  PROVE  /\ q \o x \in Seq(S) /\ Len(q \o x) = Len(q) + Len(x)
         /\ \A k \in 1..Len(q) : (q \o x)[k] = q[k]
         /\ \A k \in 1..Len(x) : (q \o x)[Len(q) + k] = x[k]
OBVIOUS

\* What an entry and the index with it have to be: from g, the index there is
\* or a larger one, turned on to entry n.
Inserting(n, g) ==
  /\ g \in HeaderRecs /\ OneEach(g) /\ n = At(g, TopNum, TopNum + 1)
  /\ headers' \in Seq(HeaderRecs) /\ Len(headers') \in {Len(headers), Len(headers) + 1}
  /\ LastHeader' = Turned(g, 1)
  /\ \A j \in 1..Len(headers) :
       /\ headers'[j].size = headers[j].size /\ headers'[j].index = headers[j].index
       /\ Aligned(headers[j], g)
  /\ \A p \in 0..g.size - 1 : g.index[p] \in 1..Len(entry')
  /\ \A k \in Listed : TopNum + 1 - g.size < k /\ \A l \in k..TopNum : At(g, TopNum, l) = EntryFor(l)
  /\ entry' \in Seq(EntryRecs) /\ Len(entry) <= Len(entry') /\ n \in 1..Len(entry')
  /\ \A e \in 1..Len(entry) : entry'[e].value = entry[e].value /\ (e # n => entry'[e] = entry[e])
  /\ \A e \in 1..Len(entry') : e > Len(entry) => entry'[e].value = NoBlock
  /\ n \in 1..Len(entry) => n = At(LastHeader, TopNum, TopNum + 1)
  /\ entry'[n].key = Key(TopNum + 1) /\ entry'[n].value = NoBlock

\* An entry that can be used has no block.
LEMMA UsableIs ==
  ASSUME QueueInv, NEW e \in 1..Len(entry), IsUsable(entry[e])
  PROVE  entry[e].value = NoBlock /\ \A k \in Listed : EntryFor(k) # e
<1>1. \A k \in Listed : EntryFor(k) # e
  <2>1. ASSUME NEW k \in Listed, EntryFor(k) = e PROVE FALSE
    <3>1. entry[e].key = Key(k) /\ entry[e].value # NoBlock /\ k \in Int
      BY <2>1, BlockIs, ListedIs DEF BlockOf
    <3> QED
      BY <3>1, KeyIsValid DEF IsUsable
  <2> QED
    BY <2>1
<1> QED
  BY <1>1 DEF QueueInv, EntriesFit, KeysFit

LEMMA InsertFits ==
  ASSUME QueueInv, headers # <<>>, IsUsable(entry[NextEntry(LastHeader)]),
         headers' = Put(Turned(LastHeader, 1)),
         entry' = [entry EXCEPT ![NextEntry(LastHeader)].key = Key(TopNum + 1)],
         TopNum = EndNum, EndNum >= -1
  PROVE  Inserting(NextEntry(LastHeader), LastHeader)
<1>1. PICK h \in HeaderRecs : h = LastHeader
  BY HeadersAre
<1>2. PICK n : h = LastHeader /\ n = NextEntry(LastHeader)
  BY <1>1
<1>3. TopNum \in Int /\ TopNum + 1 \in Int /\ h.size \in Nat \ {0} /\ h.tail \in Int
  BY <1>2, EndsAre, HeaderIs
<1>4. n = At(h, TopNum, TopNum + 1)
  BY <1>2, <1>3, NextEntryIs
<1>5. n \in 1..Len(entry) /\ n = EntryFor(TopNum + 1)
  BY <1>2, <1>3, <1>4, EntryForIs DEF EntryFor
<1>6. Turned(h, 1) \in HeaderRecs /\ Turned(h, 1).size = h.size /\ Turned(h, 1).index = h.index
  BY TurnedIs
<1>7. /\ headers' \in Seq(HeaderRecs) /\ Len(headers') = Len(headers) /\ LastHeader' = Turned(h, 1)
      /\ \A j \in 1..Len(headers) :
           headers'[j].size = headers[j].size /\ headers'[j].index = headers[j].index
  <2>1. headers' = [headers EXCEPT ![Len(headers)] = Turned(h, 1)]
    BY <1>2 DEF Put
  <2>2. headers \in Seq(HeaderRecs) /\ Len(headers) \in 1..Len(headers)
    BY HeadersAre
  <2>3. headers' \in Seq(HeaderRecs) /\ Len(headers') = Len(headers)
        /\ headers'[Len(headers)] = Turned(h, 1)
        /\ \A j \in 1..Len(headers) : j # Len(headers) => headers'[j] = headers[j]
    BY <1>6, <2>1, <2>2
  <2> QED
    BY <1>2, <1>6, <2>2, <2>3 DEF LastHeader
<1>8. /\ \A j \in 1..Len(headers) : Aligned(headers[j], h)
      /\ \A p \in 0..h.size - 1 : h.index[p] \in 1..Len(entry)
      /\ OneEach(h)
  <2>1. Len(headers) \in 1..Len(headers) /\ h = headers[Len(headers)]
    BY <1>2, HeadersAre DEF LastHeader
  <2> QED
    BY <1>2, <2>1 DEF QueueInv, EntriesFit, HeadersFit
<1>9. PICK f : f = [entry[n] EXCEPT !.key = Key(TopNum + 1)]
  OBVIOUS
<1>10. f \in EntryRecs /\ f.key = Key(TopNum + 1) /\ f.value = entry[n].value
  <2>1. entry[n] \in EntryRecs
    BY <1>5, HeadersAre
  <2>2. Key(TopNum + 1) \in Nat
    BY <1>3, KeyType
  <2> QED
    BY <1>9, <2>1, <2>2 DEF EntryRecs
<1>11. /\ entry' \in Seq(EntryRecs) /\ Len(entry') = Len(entry) /\ entry'[n] = f
       /\ \A e \in 1..Len(entry) : e # n => entry'[e] = entry[e]
  <2>1. entry' = [entry EXCEPT ![n] = f]
    BY <1>2, <1>9
  <2> QED
    <3>1. entry \in Seq(EntryRecs) /\ n \in 1..Len(entry) /\ f \in EntryRecs
      BY <1>5, <1>10, HeadersAre
    <3>2. PICK es : es = [entry EXCEPT ![n] = f]
      OBVIOUS
    <3>3. /\ es \in Seq(EntryRecs) /\ Len(es) = Len(entry) /\ es[n] = f
          /\ \A e \in 1..Len(entry) : e # n => es[e] = entry[e]
      BY <3>1, <3>2, SeqPut
    <3> QED
      BY <2>1, <3>2, <3>3
<1>12. entry[n].value = NoBlock /\ \A k \in Listed : EntryFor(k) # n
  BY <1>2, <1>5, UsableIs
<1>13. ASSUME NEW k \in Listed PROVE TopNum + 1 - h.size < k
  <2>1. k \in Int /\ TopNum - h.size < k
    BY <1>2, ListedIs
  <2>2. SUFFICES ASSUME k = TopNum + 1 - h.size PROVE FALSE
    BY <1>3, <2>1
  <2>3. PICK x \in Int : x = h.tail - (TopNum - (TopNum + 1)) /\ h.tail - (TopNum - k) = x - h.size
    BY <1>3, <2>2
  <2>4. Mod(x - h.size, h.size) = Mod(x, h.size)
    BY <1>3, ModItself
  <2>5. EntryFor(k) = n
    BY <1>2, <1>4, <2>3, <2>4 DEF EntryFor, At
  <2> QED
    BY <1>12, <2>5
<1>14. \A l : At(h, TopNum, l) = EntryFor(l)
  BY <1>2 DEF EntryFor
<1>15. Len(entry) \in Nat
  BY HeadersAre
<1> QED
  BY <1>2, <1>4, <1>5, <1>7, <1>8, <1>10, <1>11, <1>12, <1>13, <1>14, <1>15 DEF Inserting

LEMMA InsertGrows ==
  ASSUME QueueInv, headers # <<>>, NEW g, g = Larger(LastHeader, Len(entry)),
         headers' = Append(headers, Turned(g, 1)),
         entry' = [entry \o NewEntries(LastHeader.size) EXCEPT ![NextEntry(g)].key = Key(TopNum + 1)],
         TopNum = EndNum, EndNum >= -1
  PROVE  Inserting(NextEntry(g), g)
<1>1. PICK h \in HeaderRecs : h = LastHeader
  BY HeadersAre
<1>2. PICK s \in Nat \ {0} : s = h.size
  BY HeaderIs
<1>3. PICK n : n = NextEntry(g)
  OBVIOUS
<1>4. h = LastHeader /\ n = NextEntry(g) /\ s = h.size /\ g = Larger(h, Len(entry))
  BY <1>1, <1>2, <1>3
<1>5. /\ TopNum \in Int /\ TopNum + 1 \in Int /\ h.index \in [0..s - 1 -> Nat]
      /\ Len(entry) \in Nat /\ Len(headers) \in Nat /\ headers \in Seq(HeaderRecs)
  <2>1. TopNum \in Int /\ TopNum + 1 \in Int
    BY EndsAre
  <2>2. h.index \in [0..s - 1 -> Nat]
    BY <1>4, HeaderIs
  <2> QED
    BY <2>1, <2>2, HeadersAre
<1>6. /\ \A j \in 1..Len(headers) : Aligned(headers[j], h) /\ headers[j] \in HeaderRecs
           /\ \A p \in 0..headers[j].size - 1 : headers[j].index[p] \in 1..Len(entry)
      /\ \A p \in 0..s - 1 : h.index[p] \in 1..Len(entry)
      /\ OneEach(h)
  <2>1. Len(headers) \in 1..Len(headers) /\ h = headers[Len(headers)]
    BY <1>4, HeadersAre DEF LastHeader
  <2>2. /\ \A j \in 1..Len(headers) : Aligned(headers[j], h)
             /\ \A p \in 0..headers[j].size - 1 : headers[j].index[p] \in 1..Len(entry)
        /\ OneEach(h)
    BY <1>4 DEF QueueInv, EntriesFit, HeadersFit
  <2> QED
    BY <1>4, <2>1, <2>2, HeadersAre
<1>7. /\ g \in HeaderRecs /\ g.size = 2 * s /\ g.tail = s - 1
      /\ \A j \in 0..2 * s - 1 : g.index[j] =
              IF j < s THEN h.index[Mod(h.tail + 1 + j, s)] ELSE Len(entry) + j - s + 1
  <2>1. PICK m \in Nat : m = Len(entry) /\ g = Larger(h, m)
    BY <1>4, <1>5
  <2>2. /\ Larger(h, m) \in HeaderRecs
        /\ Larger(h, m).size = 2 * h.size /\ Larger(h, m).tail = h.size - 1
        /\ \A j \in 0..2 * h.size - 1 : Larger(h, m).index[j] =
              IF j < h.size THEN h.index[Mod(h.tail + 1 + j, h.size)] ELSE m + j - h.size + 1
    BY LargerIs
  <2> QED
    BY <1>4, <2>1, <2>2
<1>8. /\ n = At(g, TopNum, TopNum + 1) /\ n = Len(entry) + 1
      /\ \A l \in TopNum - s + 1 .. TopNum : At(g, TopNum, l) = At(h, TopNum, l)
  <2>1. n = At(g, TopNum, TopNum + 1)
    BY <1>4, <1>5, <1>7, NextEntryIs
  <2>2. /\ \A l \in TopNum - h.size + 1 .. TopNum : At(g, TopNum, l) = At(h, TopNum, l)
        /\ At(g, TopNum, TopNum + 1) = Len(entry) + 1
    <3>1. PICK m \in Nat : m = Len(entry) /\ g = Larger(h, m)
      BY <1>4, <1>5
    <3>2. PICK top \in Int : top = TopNum
      BY <1>5
    <3>3. /\ \A l \in top - h.size + 1 .. top : At(Larger(h, m), top, l) = At(h, top, l)
          /\ At(Larger(h, m), top, top + 1) = m + 1
      BY LargerAt
    <3> QED
      BY <3>1, <3>2, <3>3
  <2> QED
    BY <1>4, <2>1, <2>2
<1>9. OneEach(g)
  <2>1. \A p \in 0..h.size - 1 : h.index[p] <= Len(entry)
    BY <1>4, <1>5, <1>6
  <2> QED
    BY <1>4, <1>5, <1>6, <2>1, LargerOneEach
<1>10. ASSUME NEW j \in 1..Len(headers) PROVE Aligned(headers[j], g)
  <2>1. \A p \in 0..headers[j].size - 1 : headers[j].index[p] <= Len(entry)
    BY <1>5, <1>6
  <2> QED
    BY <1>4, <1>5, <1>6, <2>1, LargerAligned
<1>11. PICK es : es = entry \o NewEntries(s)
  OBVIOUS
<1>12. /\ es \in Seq(EntryRecs) /\ Len(es) = Len(entry) + s
       /\ \A e \in 1..Len(entry) : es[e] = entry[e]
       /\ \A e \in Len(entry) + 1 .. Len(entry) + s : es[e] = [key |-> INVALID_BLOCK_BASE, value |-> NoBlock]
  <2>1. PICK ns : ns = NewEntries(s)
    OBVIOUS
  <2>2. [key |-> INVALID_BLOCK_BASE, value |-> NoBlock] \in EntryRecs
    BY DEF EntryRecs, INVALID_BLOCK_BASE, NoBlock
  <2>3. ns \in Seq(EntryRecs) /\ Len(ns) = s
        /\ \A j \in 1..s : ns[j] = [key |-> INVALID_BLOCK_BASE, value |-> NoBlock]
    BY <2>1, <2>2 DEF NewEntries
  <2>4. entry \in Seq(EntryRecs)
    BY HeadersAre
  <2>5. es = entry \o ns
    BY <1>11, <2>1
  <2>6. es \in Seq(EntryRecs) /\ Len(es) = Len(entry) + s
    BY <2>3, <2>4, <2>5, SeqMore
  <2>7. \A e \in 1..Len(entry) : es[e] = entry[e]
    BY <2>3, <2>4, <2>5, SeqMore
  <2>8. ASSUME NEW e \in Len(entry) + 1 .. Len(entry) + s
        PROVE  es[e] = [key |-> INVALID_BLOCK_BASE, value |-> NoBlock]
    <3>1. PICK j \in 1..s : j = e - Len(entry)
      BY <1>5
    <3>2. es[e] = ns[j]
      <4>1. e = Len(entry) + j /\ j \in 1..Len(ns)
        BY <1>5, <2>3, <3>1
      <4> QED
        BY <2>3, <2>4, <2>5, <4>1, SeqMore
    <3> QED
      BY <2>3, <3>2
  <2> QED
    BY <2>6, <2>7, <2>8
<1>13. n \in 1..Len(es) /\ n \in Len(entry) + 1 .. Len(entry) + s /\ n \notin 1..Len(entry)
  BY <1>5, <1>8, <1>12
<1>14. PICK f : f = [es[n] EXCEPT !.key = Key(TopNum + 1)]
  OBVIOUS
<1>15. f \in EntryRecs /\ f.key = Key(TopNum + 1) /\ f.value = NoBlock
  <2>1. es[n] = [key |-> INVALID_BLOCK_BASE, value |-> NoBlock]
    BY <1>12, <1>13
  <2>2. f = [key |-> Key(TopNum + 1), value |-> NoBlock]
    BY <1>14, <2>1
  <2>3. Key(TopNum + 1) \in Nat
    BY <1>5, KeyType
  <2> QED
    BY <2>2, <2>3 DEF EntryRecs, NoBlock
<1>16. /\ entry' \in Seq(EntryRecs) /\ Len(entry') = Len(entry) + s /\ entry'[n] = f
       /\ \A e \in 1..Len(es) : e # n => entry'[e] = es[e]
  <2>1. entry' = [es EXCEPT ![n] = f]
    BY <1>4, <1>11, <1>14
  <2> QED
    <3>1. es \in Seq(EntryRecs) /\ n \in 1..Len(es) /\ f \in EntryRecs
      BY <1>12, <1>13, <1>15
    <3> QED
      <4>1. PICK fs : fs = [es EXCEPT ![n] = f]
        OBVIOUS
      <4>2. /\ fs \in Seq(EntryRecs) /\ Len(fs) = Len(es) /\ fs[n] = f
            /\ \A e \in 1..Len(es) : e # n => fs[e] = es[e]
        BY <3>1, <4>1, SeqPut
      <4>3. entry' = fs
        BY <2>1, <4>1
      <4> QED
        BY <1>12, <4>2, <4>3
<1>17. ASSUME NEW e \in 1..Len(entry) PROVE entry'[e] = entry[e] /\ e # n
  <2>1. e # n /\ e \in 1..Len(es) /\ es[e] = entry[e]
    BY <1>5, <1>12, <1>13, SMTT(30)
  <2> QED
    BY <1>16, <2>1
<1>18. ASSUME NEW e \in 1..Len(entry'), e > Len(entry) PROVE entry'[e].value = NoBlock
  <2>1. e \in Len(entry) + 1 .. Len(entry) + s /\ e \in 1..Len(es)
    BY <1>5, <1>12, <1>16, <1>18, SMTT(30)
  <2>2. CASE e = n
    BY <1>15, <1>16, <2>2
  <2>3. CASE e # n
    <3>1. es[e].value = NoBlock
      BY <1>12, <2>1
    <3> QED
      BY <1>16, <2>1, <2>3, <3>1
  <2> QED
    BY <2>2, <2>3
<1>19. ASSUME NEW p \in 0..g.size - 1 PROVE g.index[p] \in 1..Len(entry')
  <2>1. p \in 0..2 * s - 1
    BY <1>7
  <2>2. CASE p < s
    <3>1. h.tail + 1 + p \in Int
      BY <1>4, HeaderIs
    <3>2. PICK q \in 0..s - 1 : q = Mod(h.tail + 1 + p, s)
      BY <3>1, ModType
    <3>3. g.index[p] = h.index[q] /\ h.index[q] \in 1..Len(entry)
      BY <1>6, <1>7, <2>1, <2>2, <3>2
    <3> QED
      BY <1>5, <1>16, <3>3, SMTT(30)
  <2>3. CASE ~ (p < s)
    <3>1. g.index[p] = Len(entry) + p - s + 1
      BY <1>7, <2>1, <2>3
    <3> QED
      <4>1. Len(entry') = Len(entry) + s
        BY <1>16
      <4>2. p \in Int /\ s <= p /\ p < 2 * s
        BY <2>1, <2>3
      <4> QED
        BY <1>5, <3>1, <4>1, <4>2, SMTT(30)
  <2> QED
    BY <2>2, <2>3
<1>20. ASSUME NEW k \in Listed
       PROVE  TopNum + 1 - g.size < k /\ \A l \in k..TopNum : At(g, TopNum, l) = EntryFor(l)
  <2>1. k \in Int /\ TopNum - s < k
    BY <1>4, ListedIs
  <2>2. TopNum + 1 - g.size < k
    BY <1>5, <1>7, <2>1, SMTT(30)
  <2>3. \A l \in k..TopNum : l \in TopNum - s + 1 .. TopNum
    BY <1>5, <2>1
  <2>4. \A l : At(h, TopNum, l) = EntryFor(l)
    BY <1>4 DEF EntryFor
  <2> QED
    BY <1>8, <2>2, <2>3, <2>4
<1>21. /\ headers' \in Seq(HeaderRecs) /\ Len(headers') = Len(headers) + 1
       /\ LastHeader' = Turned(g, 1)
       /\ \A j \in 1..Len(headers) : headers'[j] = headers[j]
  <2>1. Turned(g, 1) \in HeaderRecs
    BY <1>7, TurnedIs
  <2> QED
    BY <1>5, <2>1 DEF LastHeader
<1>22. Len(entry) <= Len(entry') /\ n \in 1..Len(entry')
  BY <1>5, <1>12, <1>13, <1>16
<1> QED
  BY <1>4, <1>7, <1>8, <1>9, <1>10, <1>13, <1>15, <1>16, <1>17, <1>18, <1>19, <1>20, <1>21, <1>22
     DEF Inserting

LEMMA InsertIs ==
  ASSUME QueueInv, TopNum = EndNum, EndNum >= -1, InsertEntry(Key(TopNum + 1))
  PROVE  headers # <<>> /\ \E n, g : Inserting(n, g)
<1>1. headers # <<>> /\ LastHeader \in HeaderRecs
  BY HeadersAre DEF InsertEntry
<1>2. CASE IsUsable(entry[NextEntry(LastHeader)])
  <2>1. /\ headers' = Put([LastHeader EXCEPT !.tail = (@ + 1) % LastHeader.size])
        /\ entry' = [entry EXCEPT ![NextEntry(LastHeader)].key = Key(TopNum + 1)]
    BY <1>2 DEF InsertEntry
  <2>2. [LastHeader EXCEPT !.tail = (@ + 1) % LastHeader.size] = Turned(LastHeader, 1)
    BY DEF Turned, Mod
  <2> QED
    BY <1>1, <1>2, <2>1, <2>2, InsertFits
<1>3. CASE ~ IsUsable(entry[NextEntry(LastHeader)])
  <2>1. PICK g : g = Larger(LastHeader, Len(entry))
    OBVIOUS
  <2>2. LargerEntryIndex = g
    BY <1>1, <2>1, LargerEntryIndexIs
  <2>3. /\ headers' = Append(headers, [g EXCEPT !.tail = (@ + 1) % g.size])
        /\ entry' = [entry \o NewEntries(LastHeader.size) EXCEPT ![NextEntry(g)].key = Key(TopNum + 1)]
    BY <1>3, <2>2 DEF InsertEntry
  <2>4. [g EXCEPT !.tail = (@ + 1) % g.size] = Turned(g, 1)
    BY DEF Turned, Mod
  <2> QED
    BY <1>1, <2>1, <2>3, <2>4, InsertGrows
<1> QED
  BY <1>1, <1>2, <1>3

LEMMA AlignedLike ==
  ASSUME NEW h \in HeaderRecs, NEW l \in HeaderRecs, Aligned(h, l), NEW f, NEW g,
         f.size = h.size, f.index = h.index, g.size = l.size, g.index = l.index
  PROVE  Aligned(f, g)
<1>1. PICK a \in Int, b \in Int : a = h.size /\ b = l.size
  BY HeaderIs
<1>2. Divides(f.size, g.size)
  BY DEF Aligned
<1>3. ASSUME NEW p1 \in 0..f.size - 1, NEW p2 \in 0..f.size - 1,
             NEW q1 \in 0..g.size - 1, NEW q2 \in 0..g.size - 1,
             f.index[p1] = g.index[q1], f.index[p2] = g.index[q2]
      PROVE  Mod(q1 - q2, f.size) = Mod(p1 - p2, f.size)
  <2>1. /\ p1 \in 0..h.size - 1 /\ p2 \in 0..h.size - 1
        /\ q1 \in 0..l.size - 1 /\ q2 \in 0..l.size - 1
    BY <1>1, <1>3
  <2>2. h.index[p1] = l.index[q1] /\ h.index[p2] = l.index[q2]
    BY <1>3
  <2>3. Mod(q1 - q2, h.size) = Mod(p1 - p2, h.size)
    BY <2>1, <2>2 DEF Aligned
  <2> QED
    BY <2>3
<1> QED
  BY <1>2, <1>3 DEF Aligned

\* The blocks in use keep their entries.
LEMMA InsertKeeps ==
  ASSUME QueueInv, headers # <<>>, NEW n, NEW g, Inserting(n, g), TopNum' = TopNum + 1
  PROVE  /\ \A k \in Int : k = TopNum + 1 => EntryFor(k)' = n
         /\ \A k \in Listed :
              /\ \A l \in k..TopNum :
                   /\ EntryFor(l)' = EntryFor(l) /\ EntryFor(l) \in 1..Len(entry) /\ EntryFor(l) # n
                   /\ entry'[EntryFor(l)] = entry[EntryFor(l)]
              /\ k \in k..TopNum /\ EntryFor(k)' = EntryFor(k) /\ BlockOf(k)' = BlockOf(k)
<1>1. PICK top \in Int : top = TopNum
  BY EndsAre
<1>2. /\ g \in HeaderRecs /\ OneEach(g) /\ n = At(g, top, top + 1) /\ LastHeader' = Turned(g, 1)
      /\ \A k \in Listed : top + 1 - g.size < k /\ \A l \in k..top : At(g, top, l) = EntryFor(l)
      /\ \A e \in 1..Len(entry) : e # n => entry'[e] = entry[e]
  BY <1>1 DEF Inserting
<1>3. \A l \in Int : At(Turned(g, 1), top + 1, l) = At(g, top, l)
  <2>1. PICK o \in Int : o = 1
    OBVIOUS
  <2>2. \A l \in Int : At(Turned(g, o), top + o, l) = At(g, top, l)
    BY <1>2, TurnedIs
  <2> QED
    BY <2>1, <2>2
<1>4. \A l : EntryFor(l)' = At(Turned(g, 1), top + 1, l)
  BY <1>1, <1>2 DEF EntryFor, At, Mod
<1>5. ASSUME NEW k \in Int, k = TopNum + 1 PROVE EntryFor(k)' = n
  BY <1>1, <1>2, <1>3, <1>4, <1>5
<1>6. ASSUME NEW k \in Listed, NEW l \in k..TopNum
      PROVE  /\ EntryFor(l)' = EntryFor(l) /\ EntryFor(l) \in 1..Len(entry) /\ EntryFor(l) # n
             /\ entry'[EntryFor(l)] = entry[EntryFor(l)]
  <2>1. k \in Int /\ l \in Int /\ k <= l /\ l <= top /\ g.size \in Nat
    BY <1>1, <1>2, <1>6, ListedIs, HeaderIs
  <2>2. EntryFor(l) = At(g, top, l)
    BY <1>1, <1>2, <1>6
  <2>3. EntryFor(l)' = EntryFor(l)
    BY <1>3, <1>4, <2>1, <2>2
  <2>4. EntryFor(l) \in 1..Len(entry)
    BY <2>1, EntryForIs
  <2>5. EntryFor(l) # n
    <3>1. SUFFICES ASSUME At(g, top, l) = At(g, top, top + 1) PROVE FALSE
      BY <1>2, <2>2
    <3>2. PICK m \in Int : m = top + 1
      OBVIOUS
    <3>3. l - m < g.size /\ m - l < g.size
      BY <1>2, <2>1, <3>2
    <3>4. l = m
      BY <1>2, <2>1, <3>1, <3>2, <3>3, AtApart
    <3> QED
      BY <2>1, <3>2, <3>4
  <2> QED
    BY <1>2, <2>3, <2>4, <2>5
<1>7. ASSUME NEW k \in Listed
      PROVE  k \in k..TopNum /\ EntryFor(k)' = EntryFor(k) /\ BlockOf(k)' = BlockOf(k)
  <2>1. k \in k..TopNum
    BY <1>1, ListedIs
  <2>2. EntryFor(k)' = EntryFor(k) /\ entry'[EntryFor(k)] = entry[EntryFor(k)]
    BY <1>6, <2>1
  <2> QED
    BY <2>1, <2>2 DEF BlockOf
<1> QED
  BY <1>5, <1>6, <1>7

\* So all the invariant says still holds, if it does for the producer.
LEMMA EntryAdded ==
  ASSUME QueueInv, headers # <<>>, NEW n, NEW g, Inserting(n, g),
         UNCHANGED <<counters, cons, tailIndex, block, tailBlock, free>>,
         TopNum = EndNum, EndNum' = EndNum, TopNum' = TopNum + 1, FilledTo = tailIndex,
         FilledTo' = FilledTo, prod' \in ProducerCalls, ProducerFits'
  PROVE  QueueInv'
<1>1. /\ cons' = cons /\ tailIndex' = tailIndex /\ block' = block /\ tailBlock' = tailBlock
      /\ free' = free /\ headIndex' = headIndex /\ counters' = counters
  BY DEF counters
<1>2. PICK top \in Int : top = TopNum /\ TopNum' = top + 1 /\ EndNum = top /\ EndNum' = top
  BY EndsAre
<1>3. /\ g \in HeaderRecs /\ OneEach(g) /\ LastHeader' = Turned(g, 1)
      /\ headers' \in Seq(HeaderRecs) /\ Len(headers') \in {Len(headers), Len(headers) + 1}
      /\ \A j \in 1..Len(headers) :
           /\ headers'[j].size = headers[j].size /\ headers'[j].index = headers[j].index
           /\ Aligned(headers[j], g)
      /\ \A p \in 0..g.size - 1 : g.index[p] \in 1..Len(entry')
      /\ \A k \in Listed : top + 1 - g.size < k
      /\ entry' \in Seq(EntryRecs) /\ Len(entry) <= Len(entry') /\ n \in 1..Len(entry')
      /\ \A e \in 1..Len(entry) : entry'[e].value = entry[e].value /\ (e # n => entry'[e] = entry[e])
      /\ \A e \in 1..Len(entry') : e > Len(entry) => entry'[e].value = NoBlock
      /\ n \in 1..Len(entry) => n = At(LastHeader, top, top + 1)
      /\ entry'[n].key = Key(top + 1)
  BY <1>2 DEF Inserting
<1>4. /\ Turned(g, 1) \in HeaderRecs /\ Turned(g, 1).size = g.size /\ Turned(g, 1).index = g.index
  BY <1>3, TurnedIs
<1>5. /\ EntryFor(top + 1)' = n
      /\ \A k \in Listed :
              /\ \A l \in k..top :
                   /\ EntryFor(l)' = EntryFor(l) /\ EntryFor(l) # n
                   /\ entry'[EntryFor(l)] = entry[EntryFor(l)]
              /\ k \in k..top /\ EntryFor(k)' = EntryFor(k) /\ BlockOf(k)' = BlockOf(k)
  <2>1. PICK k \in Int : k = top + 1
    OBVIOUS
  <2>2. EntryFor(k)' = n
    BY <1>2, <2>1, InsertKeeps
  <2> QED
    BY <1>2, <2>1, <2>2, InsertKeeps
<1>6. PICK t : t = Turned(g, 1) /\ LastHeader' = t /\ t.size = g.size /\ t.index = g.index
  BY <1>3, <1>4
<1>7. ClaimsInv'
  <2>1. tailIndex' \in Nat /\ tailIndex' >= tailIndex
    BY <1>1, EndsAre
  <2> QED
    BY <2>1, MoreClaims DEF QueueInv
<1>8. /\ \A k : DoneOf(k)' = DoneOf(k) /\ (Spent(k)' <=> Spent(k))
      /\ Listed' = Listed
  BY <1>1, DoneSame DEF Listed
<1>9. QueueTypes'
  BY <1>1, <1>3 DEF QueueInv, QueueTypes
<1>10. TakersFit'
  BY <1>1 DEF QueueInv, TakersFit, TakersApart, RangeFits, GotRight, RestOf, CurOf, Num, Key
<1>11. HeadersFit'
  <2>1. Len(headers) \in Nat /\ Len(headers) > 0 /\ Len(entry) \in Nat /\ Len(entry') \in Nat
    BY <1>3, HeadersAre
  <2>2. Aligned(g, g)
    BY <1>3, AlignedItself
  <2>3. ASSUME NEW j \in 1..Len(headers')
        PROVE  /\ \A p \in 0..headers'[j].size - 1 : headers'[j].index[p] \in 1..Len(entry')
               /\ Aligned(headers'[j], LastHeader')
    <3>1. CASE j = Len(headers')
      <4>1. headers'[j] = Turned(g, 1)
        BY <1>3, <3>1 DEF LastHeader
      <4>2. PICK h : h = headers'[j] /\ h = t
        BY <1>6, <4>1
      <4>3. Aligned(h, t)
        BY <1>3, <1>6, <2>2, <4>2, AlignedLike
      <4>4. \A p \in 0..h.size - 1 : h.index[p] \in 1..Len(entry')
        BY <1>3, <1>6, <4>2
      <4> QED
        BY <1>6, <4>2, <4>3, <4>4
    <3>2. CASE j # Len(headers')
      <4>1. j \in 1..Len(headers)
        BY <1>3, <2>1, <3>2
      <4>2. \A p \in 0..headers[j].size - 1 : headers[j].index[p] \in 1..Len(entry)
        BY <4>1 DEF QueueInv, EntriesFit, HeadersFit
      <4>3. headers'[j].size = headers[j].size /\ headers'[j].index = headers[j].index
            /\ Aligned(headers[j], g)
        BY <1>3, <4>1
      <4>4. Aligned(headers'[j], LastHeader')
        <5>1. PICK h, f : h = headers'[j] /\ f = headers[j]
          OBVIOUS
        <5>2. Aligned(h, t)
          <6>1. f \in HeaderRecs /\ g \in HeaderRecs /\ Aligned(f, g)
            BY <1>3, <4>1, <4>3, <5>1, HeadersAre
          <6>2. h.size = f.size /\ h.index = f.index /\ t.size = g.size /\ t.index = g.index
            BY <1>6, <4>3, <5>1
          <6> QED
            BY <6>1, <6>2, AlignedLike
        <5> QED
          BY <1>6, <5>1, <5>2
      <4>5. 1..Len(entry) \subseteq 1..Len(entry')
        BY <1>3, <2>1
      <4> QED
        BY <4>2, <4>3, <4>4, <4>5
    <3> QED
      BY <3>1, <3>2
  <2>4. OneEach(LastHeader')
    BY <1>3, <1>4 DEF OneEach
  <2>5. headers' # <<>>
    BY <1>3, <2>1
  <2>6. /\ \A j \in 1..Len(headers') :
          /\ \A p \in 0..headers'[j].size - 1 : headers'[j].index[p] \in 1..Len(entry')
          /\ Aligned(headers[j], LastHeader)'
    BY <2>3 DEF Aligned, Divides, Multiple, Mod
  <2>7. OneEach(LastHeader)'
    BY <2>4 DEF OneEach
  <2> QED
    BY <2>5, <2>6, <2>7 DEF HeadersFit
<1>12. KeysFit'
  <2>1. KeysFit
    BY DEF QueueInv, EntriesFit
  <2>2. ASSUME NEW k \in Listed
        PROVE  /\ k \in 0..EndNum' /\ TopNum' - LastHeader'.size < k
               /\ BlockOf(k)' # NoBlock
               /\ \A l \in k..TopNum' : entry'[EntryFor(l)'].key = Key(l)
    <3>1. k \in 0..EndNum' /\ BlockOf(k)' # NoBlock
      BY <1>2, <1>5, <2>1 DEF KeysFit
    <3>2. TopNum' - LastHeader'.size < k
      <4>1. PICK z : z = LastHeader'.size
        OBVIOUS
      <4>2. z = g.size
        BY <1>6, <4>1
      <4>3. top + 1 - z < k
        BY <1>3, <4>2
      <4> QED
        <5>1. TopNum' = top + 1
          BY <1>2
        <5>2. TopNum' - LastHeader'.size = top + 1 - z
          <6>1. z \in Int
            BY <1>3, <4>2, HeaderIs
          <6> QED
            BY <4>1, <5>1, <6>1
        <5> QED
          BY <4>3, <5>2
    <3>3. ASSUME NEW l \in k..TopNum' PROVE entry'[EntryFor(l)'].key = Key(l)
      <4>1. CASE l = top + 1
        <5>1. EntryFor(l)' = n
          BY <1>5, <4>1
        <5> QED
          BY <1>3, <4>1, <5>1
      <4>2. CASE l # top + 1
        <5>1. l \in k..top
          BY <1>2, <3>1, <4>2
        <5>2. entry[EntryFor(l)].key = Key(l)
          BY <1>2, <2>1, <5>1 DEF KeysFit
        <5> QED
          BY <1>5, <5>1, <5>2
      <4> QED
        BY <4>1, <4>2
    <3> QED
      BY <3>1, <3>2, <3>3
  <2>3. ASSUME NEW e \in 1..Len(entry'), entry'[e].value # NoBlock
        PROVE  \E k \in Listed : e = EntryFor(k)'
    <3>1. e \in 1..Len(entry) /\ entry[e].value # NoBlock
      BY <1>3, <2>3, HeadersAre
    <3>2. PICK k \in Listed : e = EntryFor(k)
      BY <2>1, <3>1 DEF KeysFit
    <3> QED
      BY <1>5, <3>2
  <2>4. entry'[EntryFor(TopNum)'].key = Key(TopNum')
    <3>1. EntryFor(TopNum)' = EntryFor(top + 1)'
      BY <1>2 DEF EntryFor, At, Mod
    <3> QED
      BY <1>2, <1>3, <1>5, <3>1
  <2> QED
    BY <1>8, <2>2, <2>3, <2>4 DEF KeysFit, Key
<1>13. Owned'
  BY <1>1, <1>5, <1>8 DEF QueueInv, Owned
<1>14. DataFits'
  <2>1. ASSUME NEW i \in 0..FilledTo - 1,
               i >= headIndex \/ (\E c \in Takers : i \in UntakenOf(cons[c]))
        PROVE  Num(i) \in Listed
    <3>1. CASE i >= headIndex
      <4>1. i \in Nat /\ i < tailIndex /\ headIndex \in Nat /\ tailIndex \in Nat
        BY <2>1, EndsAre
      <4>2. ~ Done(i)
        BY <3>1, <4>1 DEF Done
      <4>3. PICK u \in Int : u = tailIndex - 1 /\ i <= u /\ i \in Int
        BY <4>1
      <4>4. Num(i) <= Num(u) /\ Num(i) \in Int /\ Num(u) \in Int
        BY <4>3, NumType, NumOrder
      <4>5. Num(u) <= EndNum /\ EndNum \in Int
        BY <4>3, EndsAre
      <4>6. Num(i) <= EndNum
        BY <4>4, <4>5
      <4> QED
        BY <4>1, <4>2, <4>6, NotDoneListed
    <3>2. ASSUME NEW c \in Takers, i \in UntakenOf(cons[c]) PROVE Num(i) \in Listed
      <4>1. i \in RestOf(cons[c])
        BY <3>2, TakerIs, RangeIs DEF QueueInv, ClaimsInv
      <4> QED
        BY <4>1, RestListed
    <3> QED
      BY <2>1, <3>1, <3>2
  <2>2. ASSUME NEW i \in 0..FilledTo - 1,
               i >= headIndex \/ (\E c \in Takers : i \in UntakenOf(cons[c]))
        PROVE  block'[BlockOf(Num(i))'].data[i % BLOCK_SIZE] = i + 1
    <3>1. block[BlockOf(Num(i))].data[i % BLOCK_SIZE] = i + 1
      BY <2>2 DEF QueueInv, DataFits
    <3>2. PICK k \in Listed : k = Num(i)
      BY <2>1, <2>2
    <3>3. BlockOf(k)' = BlockOf(k)
      BY <1>5
    <3>4. BlockOf(Num(i))' = BlockOf(k)'
      BY <3>2 DEF BlockOf, EntryFor, At, Mod, Num
    <3> QED
      BY <1>1, <3>1, <3>2, <3>3, <3>4
  <2>3. \A c \in Takers : UntakenOf(cons[c])' = UntakenOf(cons[c])
    BY <1>1 DEF UntakenOf
  <2> QED
    BY <1>1, <2>2, <2>3 DEF DataFits
<1>15. TakersSee'
  <2>1. ASSUME NEW d \in Takers PROVE (IndexSeen(cons[d]) /\ BlockSeen(cons[d]))'
    <3>1. IndexSeen(cons[d]) /\ BlockSeen(cons[d]) /\ cons'[d] = cons[d] /\ RangeFits(cons[d])
      BY <1>1, TakerIs
    <3>2. PICK r : r = cons[d]
      OBVIOUS
    <3>3. /\ r \in TakerCalls /\ CurOf(r) \in Int /\ r.index \in Nat /\ r.slot \in Nat
      BY <3>1, <3>2, TakerIs, RangeIs DEF QueueInv, ClaimsInv
    <3>4. \A k \in SpanOf(r) : k \in Listed /\ k \in Int /\ EntryFor(k)' = EntryFor(k)
      BY <1>5, <3>2, SpanListed
    <3>5. /\ SpanOf(cons[d])' = SpanOf(r) /\ CurOf(cons[d])' = CurOf(r)
          /\ \A m : (Points(cons[d], m)' <=>
                      \A k \in SpanOf(r) : headers'[r.index].index[Mod(r.slot + (k - m), headers'[r.index].size)]
                                             = EntryFor(k)')
      <4>1. /\ SpanOf(cons[d])' = SpanOf(r) /\ CurOf(cons[d])' = CurOf(r)
        BY <3>1, <3>2 DEF SpanOf, RestOf, CurOf, Num
      <4> QED
        BY <3>1, <3>2, <4>1 DEF Points, Mod
    <3>6. ASSUME r.index \in 1..Len(headers), NEW m, Points(r, m) PROVE Points(cons[d], m)'
      <4>1. headers'[r.index].size = headers[r.index].size
            /\ headers'[r.index].index = headers[r.index].index
        BY <1>3, <3>6
      <4>2. \A k \in SpanOf(r) :
              headers[r.index].index[Mod(r.slot + (k - m), headers[r.index].size)] = EntryFor(k)
        BY <3>6 DEF Points
      <4> QED
        BY <3>4, <3>5, <4>1, <4>2
    <3>7. r.pc \in {"key", "take", "empty", "unlist", "free"} =>
            /\ r.index \in 1..Len(headers) /\ r.slot \in 0..headers[r.index].size - 1
            /\ r.index \in 1..Len(headers') /\ r.slot \in 0..headers'[r.index].size - 1
      <4>1. r.pc \in {"key", "take", "empty", "unlist", "free"} =>
              r.index \in 1..Len(headers) /\ r.slot \in 0..headers[r.index].size - 1
        BY <3>1, <3>2 DEF IndexSeen
      <4>2. 1..Len(headers) \subseteq 1..Len(headers')
        BY <1>3, HeadersAre
      <4> QED
        BY <1>3, <4>1, <4>2
    <3>8. ASSUME r.pc = "key"
          PROVE  \E m \in Int : entry'[headers'[r.index].index[r.slot]].key = Key(m) /\ Points(cons[d], m)'
      <4>1. PICK m \in Int :
              entry[headers[r.index].index[r.slot]].key = Key(m) /\ Points(r, m)
        BY <3>1, <3>2, <3>8 DEF IndexSeen
      <4>2. PICK h \in HeaderRecs : h = headers[r.index] /\ Aligned(h, LastHeader)
        BY <3>7, <3>8, HeadersAre DEF QueueInv, EntriesFit, HeadersFit
      <4>3. r.slot \in 0..h.size - 1 /\ h.index[r.slot] \in 1..Len(entry)
            /\ headers'[r.index].size = h.size /\ headers'[r.index].index = h.index
        <5>1. \A p \in 0..headers[r.index].size - 1 : headers[r.index].index[p] \in 1..Len(entry)
          BY <3>7, <3>8 DEF QueueInv, EntriesFit, HeadersFit
        <5> QED
          BY <1>3, <3>7, <3>8, <4>2, <5>1
      <4>4. CASE h.index[r.slot] # n
        <5>1. entry'[headers'[r.index].index[r.slot]].key = Key(m)
          BY <1>3, <4>1, <4>2, <4>3, <4>4
        <5>2. Points(cons[d], m)'
          BY <3>6, <3>7, <3>8, <4>1
        <5> QED
          BY <5>1, <5>2
      <4>5. CASE h.index[r.slot] = n
        <5>1. entry'[headers'[r.index].index[r.slot]].key = Key(top + 1)
          BY <1>3, <4>3, <4>5
        <5>2. PICK l \in HeaderRecs : l = LastHeader
          BY HeadersAre
        <5>3. h.index[r.slot] = At(l, top, top + 1)
          BY <1>3, <4>3, <4>5, <5>2
        <5>4. ASSUME NEW k \in SpanOf(r)
              PROVE  h.index[Mod(r.slot + (k - (top + 1)), h.size)] = EntryFor(k)
          <6>1. k \in Int /\ EntryFor(k) = At(l, top, k)
            BY <1>2, <3>4, <5>2 DEF EntryFor
          <6>2. h.index[Mod(r.slot + (k - m), h.size)] = At(l, top, k)
            BY <4>1, <4>2, <5>4, <6>1 DEF Points
          <6> QED
            <7>1. PICK s \in 0..h.size - 1 : s = r.slot
              BY <4>3
            <7>2. Aligned(h, l) /\ h.index[s] = At(l, top, top + 1)
              BY <4>2, <5>2, <5>3, <7>1
            <7>3. FindsFrom(h, s, m, k, At(l, top, k))
              BY <6>2, <7>1 DEF FindsFrom
            <7>4. FindsFrom(h, s, top + 1, k, At(l, top, k))
              BY <6>1, <7>2, <7>3, AlignedSame
            <7> QED
              BY <6>1, <7>1, <7>4 DEF FindsFrom
        <5>5. Points(r, top + 1)
          BY <4>2, <5>4 DEF Points
        <5>6. Points(cons[d], top + 1)'
          BY <3>6, <3>7, <3>8, <5>5
        <5>7. top + 1 \in Int
          OBVIOUS
        <5> QED
          BY <5>1, <5>6, <5>7
      <4> QED
        BY <4>4, <4>5
    <3>9. r.pc \in {"take", "empty", "unlist", "free"} => Points(cons[d], CurOf(r))'
      BY <3>1, <3>2, <3>6, <3>7 DEF IndexSeen
    <3>10. IndexSeen(cons[d])'
      <4>1. \A m : Key(m)' = Key(m)
        BY DEF Key
      <4>2. Points(cons[d], CurOf(cons[d]))' <=> Points(cons[d], CurOf(r))'
        BY <3>5 DEF Points, Mod
      <4> QED
        BY <3>1, <3>2, <3>7, <3>8, <3>9, <4>1, <4>2 DEF IndexSeen
    <3>11. BlockSeen(cons[d])'
      <4>1. r.pc \in {"empty", "unlist"} => CurOf(r) \in Listed
        <5>1. CASE r.pc = "unlist"
          BY <3>2, <5>1 DEF Listed, Unlisting
        <5>2. CASE r.pc = "empty"
          <6>1. PICK a \in Int : a = r.at - Len(r.got)
            BY <3>1, <3>2, <3>3, RangeIs DEF QueueInv, ClaimsInv
          <6>2. a \in RestOf(r)
            <7>1. RestOf(r) = a .. r.end - 1 /\ a < r.end /\ r.end \in Int
              BY <3>1, <3>2, <3>3, <5>2, <6>1, RangeIs DEF RestOf, RangeFits, After, QueueInv, ClaimsInv
            <7> QED
              BY <6>1, <7>1
          <6>3. CurOf(r) = Num(a)
            BY <6>1 DEF CurOf
          <6> QED
            BY <3>2, <6>2, <6>3, RestListed
        <5> QED
          BY <5>1, <5>2
      <4>2. r.pc \in {"empty", "unlist"} => BlockOf(CurOf(r))' = BlockOf(CurOf(r))
        BY <1>5, <4>1
      <4>3. BlockOf(CurOf(cons[d]))' = BlockOf(CurOf(r))'
        BY <3>5 DEF BlockOf, EntryFor, At, Mod
      <4>4. Spent(CurOf(cons[d]))' <=> Spent(CurOf(r))
        BY <1>8, <3>5 DEF Spent
      <4> QED
        BY <1>1, <1>5, <1>8, <3>1, <3>2, <4>2, <4>3, <4>4 DEF BlockSeen
    <3> QED
      BY <3>10, <3>11
  <2> QED
    BY <2>1 DEF TakersSee
<1> QED
  BY <1>7, <1>9, <1>10, <1>11, <1>12, <1>13, <1>14, <1>15 DEF QueueInv, EntriesFit

LEMMA EnqueueEntryQueue ==
  ASSUME QueueInv, EnqueueEntry
  PROVE  QueueInv'
<1>1. PICK p : p = One("block", 0)
  OBVIOUS
<1>2. /\ prod.pc = "idle" /\ tailIndex % BLOCK_SIZE = 0 /\ prod' = p /\ InsertEntry(tailIndex)
      /\ UNCHANGED <<counters, cons, tailIndex, block, tailBlock, free>>
  BY <1>1 DEF EnqueueEntry, CanEnqueue, StartsBlock, Unshared
<1>3. /\ tailIndex \in Nat /\ EndNum \in Int /\ EndNum = Num(tailIndex - 1) /\ EndNum >= -1
      /\ TopNum = EndNum /\ FilledTo = tailIndex /\ tailIndex' = tailIndex
  BY <1>2, EndsAre DEF EndNum, TopNum, FilledTo
<1>4. p \in ProducerCalls /\ p.pc = "block" /\ p.n = 1 /\ p.i = tailIndex
  <2>1. p = [pc |-> "block", n |-> 1, left |-> 0, base |-> 0, first |-> 0, start |-> 0, front |-> 0,
             used |-> 0, at |-> 0, i |-> tailIndex]
    BY <1>1 DEF One, IdleProducer
  <2> QED
    BY <1>3, <2>1 DEF ProducerCalls
<1>5. Num(tailIndex) = EndNum + 1 /\ Key(TopNum + 1) = tailIndex
  <2>1. tailIndex \in Int
    BY <1>3
  <2>2. Num(tailIndex - 1) = Num(tailIndex) - 1 /\ Key(Num(tailIndex)) = tailIndex /\ Num(tailIndex) \in Int
    BY <1>2, <2>1, NumBefore, NumType
  <2>3. Num(tailIndex) = EndNum + 1
    BY <1>3, <2>2
  <2> QED
    BY <1>3, <2>2, <2>3
<1>6. EndNum' = EndNum /\ TopNum' = TopNum + 1 /\ FilledTo' = FilledTo
  <2>1. EndNum' = Num(tailIndex - 1)
    BY <1>2, <1>3, <1>4 DEF EndNum, Num
  <2> QED
    BY <1>2, <1>3, <1>4, <2>1 DEF TopNum, FilledTo
<1>7. headers # <<>> /\ \E n, g : Inserting(n, g)
  BY <1>2, <1>3, <1>5, InsertIs
<1>8. ProducerFits'
  <2>1. Num(tailIndex)' = EndNum + 1 /\ Num(tailIndex - 1)' = EndNum
    BY <1>3, <1>5 DEF Num
  <2>2. ~ (EndNum' >= Num(tailIndex)')
    BY <1>3, <1>6, <2>1
  <2> QED
    BY <1>2, <1>3, <1>4, <1>6, <2>1, <2>2 DEF ProducerFits
<1> QED
  BY <1>2, <1>3, <1>4, <1>6, <1>7, <1>8, EntryAdded

LEMMA BulkIndexQueue ==
  ASSUME QueueInv, BulkIndex
  PROVE  QueueInv'
<1>1. PICK p : p = [prod EXCEPT !.pc = "found"]
  OBVIOUS
<1>2. /\ prod.pc = "find" /\ prod.left > 0 /\ prod' = p /\ InsertEntry(prod.base + BLOCK_SIZE)
      /\ UNCHANGED <<counters, cons, tailIndex, block, tailBlock, free>>
  BY <1>1 DEF BulkIndex, Tick, Unshared
<1>3. /\ tailIndex \in Nat /\ EndNum \in Int /\ TopNum = EndNum
      /\ FilledTo = tailIndex /\ tailIndex' = tailIndex /\ tailBlock' = tailBlock /\ block' = block
      /\ Num(tailIndex) \in Int /\ Num(tailIndex - 1) \in Int
      /\ Num(tailIndex - 1) <= Num(tailIndex) /\ Num(tailIndex) <= Num(tailIndex - 1) + 1
      /\ EndNum >= Num(tailIndex - 1) /\ EndNum >= -1
      /\ EndNum = Num(prod.base)
  BY <1>2, EndsAre DEF EndNum, TopNum, FilledTo
<1>4. /\ prod \in ProducerCalls /\ p \in ProducerCalls /\ p.pc = "found" /\ p.n = prod.n
      /\ p.left = prod.left /\ p.base = prod.base /\ p.first = prod.first /\ p.start = prod.start
      /\ p.i = prod.i
  BY <1>1 DEF QueueInv, QueueTypes, ProducerCalls
<1>5. /\ ProducerFits
      /\ prod.base = Key(EndNum) /\ prod.n > 0 /\ prod.i = tailIndex
      /\ EndNum + prod.left = Num(tailIndex + prod.n - 1)
      /\ EndNum = Num(tailIndex - 1) => prod.first = 0
      /\ EndNum > Num(tailIndex - 1) => prod.first = BlockOf(Num(tailIndex - 1) + 1)
      /\ Num(tailIndex - 1) = Num(tailIndex) => prod.start = BlockOf(Num(tailIndex))
      /\ Linked(Num(tailIndex))
      /\ EndNum >= Num(tailIndex) => tailBlock = BlockOf(EndNum)
  BY <1>2 DEF ProducerFits, QueueInv
<1>6. prod.base + BLOCK_SIZE = Key(TopNum + 1)
  BY <1>3, <1>5, KeyType
<1>7. EndNum' = EndNum /\ TopNum' = TopNum + 1 /\ FilledTo' = FilledTo
  <2>1. EndNum' = Num(prod.base)
    BY <1>2, <1>4 DEF EndNum, Num
  <2> QED
    BY <1>2, <1>3, <1>4, <2>1 DEF TopNum, FilledTo
<1>8. headers # <<>> /\ \E n, g : Inserting(n, g)
  BY <1>2, <1>3, <1>6, InsertIs
<1>9. \A k \in Num(tailIndex)..EndNum : BlockOf(k)' = BlockOf(k)
  <2>1. \A k \in Num(tailIndex)..EndNum : k \in Listed
    BY <1>3, AheadListed
  <2> QED
    BY <1>7, <1>8, <2>1, InsertKeeps
<1>10. ProducerFits'
  <2>1. PICK e \in Int, t \in Int, u \in Int : e = EndNum /\ t = Num(tailIndex) /\ u = Num(tailIndex - 1)
    BY <1>3
  <2>2. \A k \in t..e : BlockOf(k)' = BlockOf(k)
    BY <1>9, <2>1
  <2>3. /\ EndNum' = e /\ Num(tailIndex)' = t /\ Num(tailIndex - 1)' = u
        /\ Num(tailIndex + prod.n - 1)' = Num(tailIndex + prod.n - 1)
        /\ Key(EndNum)' = Key(EndNum)
    BY <1>2, <1>3, <1>4, <1>7, <2>1 DEF Num, Key
  <2>4. ASSUME NEW k \in t..e PROVE (BlockOf(k) = BlockOf(k)')
    BY <2>2
  <2>5. e >= t => tailBlock = BlockOf(EndNum)'
    <3>1. BlockOf(EndNum)' = BlockOf(e)'
      BY <2>3 DEF BlockOf, EntryFor, At, Mod
    <3> QED
      BY <1>5, <2>1, <2>2, <3>1
  <2>6. e > u => prod.first = BlockOf(Num(tailIndex - 1) + 1)'
    <3>1. PICK k \in Int : k = u + 1
      OBVIOUS
    <3>2. BlockOf(Num(tailIndex - 1) + 1)' = BlockOf(k)'
      BY <2>3, <3>1 DEF BlockOf, EntryFor, At, Mod
    <3>3. e > u => k \in t..e
      BY <1>3, <2>1, <3>1
    <3> QED
      BY <1>5, <2>1, <2>2, <3>1, <3>2, <3>3
  <2>7. u = t => prod.start = BlockOf(Num(tailIndex))'
    <3>1. BlockOf(Num(tailIndex))' = BlockOf(t)'
      BY <2>3 DEF BlockOf, EntryFor, At, Mod
    <3>2. u = t => t \in t..e
      BY <1>3, <2>1
    <3> QED
      BY <1>5, <2>1, <2>2, <3>1, <3>2
  <2>8. Linked(Num(tailIndex))'
    <3>1. ASSUME NEW k \in t..e - 1 PROVE block'[BlockOf(k)'].next = BlockOf(k + 1)'
      <4>1. k \in t..e /\ k + 1 \in t..e
        OBVIOUS
      <4>2. PICK l \in t..e : l = k + 1
        BY <4>1
      <4>3. block[BlockOf(k)].next = BlockOf(l)
        BY <1>5, <2>1, <3>1, <4>2 DEF Linked
      <4>4. BlockOf(k)' = BlockOf(k) /\ BlockOf(l)' = BlockOf(l)
        BY <2>2, <4>1
      <4> QED
        BY <1>3, <4>2, <4>3, <4>4
    <3>2. \A k \in t..e - 1 : block'[BlockOf(k)'].next = BlockOf(k + 1)'
      BY <3>1
    <3> QED
      BY <2>3, <3>2 DEF Linked
  <2>9. e = u => prod.first = 0
    BY <1>5, <2>1
  <2> QED
    BY <1>2, <1>3, <1>4, <1>5, <2>1, <2>3, <2>5, <2>6, <2>7, <2>8, <2>9 DEF ProducerFits
<1> QED
  BY <1>2, <1>3, <1>4, <1>7, <1>8, <1>10, EntryAdded

-----------------------------------------------------------------------------
(* The producer finds a block.                                             *)

\* The indices whose elements are still needed are in blocks in use.
LEMMA NeededListed ==
  ASSUME QueueInv, NEW i \in 0..tailIndex - 1,
         i >= headIndex \/ (\E c \in Takers : i \in UntakenOf(cons[c]))
  PROVE  Num(i) \in Listed
<1>1. CASE i >= headIndex
  <2>1. i \in Nat /\ i < tailIndex /\ headIndex \in Nat /\ tailIndex \in Nat
    BY EndsAre
  <2>2. ~ Done(i)
    BY <1>1, <2>1 DEF Done
  <2>3. PICK t \in Int : t = tailIndex - 1 /\ i <= t /\ i \in Int
    BY <2>1
  <2>4. Num(i) <= Num(t) /\ Num(i) \in Int /\ Num(t) \in Int
    BY <2>3, NumType, NumOrder
  <2>5. Num(t) <= EndNum /\ EndNum \in Int
    BY <2>3, EndsAre
  <2>6. Num(i) <= EndNum
    BY <2>4, <2>5
  <2> QED
    BY <2>1, <2>2, <2>6, NotDoneListed
<1>2. ASSUME NEW c \in Takers, i \in UntakenOf(cons[c]) PROVE Num(i) \in Listed
  <2>1. i \in RestOf(cons[c])
    BY <1>2, TakerIs, RangeIs DEF QueueInv, ClaimsInv
  <2> QED
    BY <2>1, RestListed
<1> QED
  BY <1>1, <1>2

\* So is the block a consumer is done with, until it has left the index.
LEMMA CurListed ==
  ASSUME QueueInv, NEW c \in Takers, cons[c].pc \in {"empty", "unlist"}
  PROVE  CurOf(cons[c]) \in Listed
<1>1. PICK r : r = cons[c]
  OBVIOUS
<1>2. r \in TakerCalls /\ RangeFits(r) /\ ClaimTypes
  BY <1>1, TakerIs DEF QueueInv, ClaimsInv
<1>3. CASE r.pc = "unlist"
  BY <1>1, <1>3 DEF Listed, Unlisting
<1>4. CASE r.pc = "empty"
  <2>1. PICK a \in Int : a = r.at - Len(r.got)
    BY <1>2, RangeIs
  <2>2. a \in RestOf(r)
    <3>1. RestOf(r) = a .. r.end - 1 /\ a < r.end /\ r.end \in Int
      BY <1>2, <1>4, <2>1, RangeIs DEF RestOf, RangeFits, After
    <3> QED
      BY <2>1, <3>1
  <2>3. CurOf(r) = Num(a)
    BY <2>1 DEF CurOf
  <2> QED
    BY <1>1, <2>2, <2>3, RestListed
<1> QED
  BY <1>1, <1>3, <1>4

\* The block the producer enters, and the one before it.
EntersAfter(p) == p = 0 \/ (EndNum >= Num(tailIndex) /\ p = BlockOf(EndNum))

\* The blocks as they are then.
Entered(b, p) ==
  /\ b \in Nat /\ b > 0 /\ b \in 1..Len(block') /\ block' \in Seq(BlockRecs)
  /\ Len(block) <= Len(block') /\ \A x \in 1..Len(block') : x \in 1..Len(block) \/ x = b
  /\ free' = free \ {b} /\ free' \subseteq 1..Len(block')
  /\ block'[b].empty = 0
  /\ \A x \in 1..Len(block) : x # b =>
       /\ block'[x].empty = block[x].empty /\ block'[x].data = block[x].data
       /\ x # p => block'[x].next = block[x].next
  /\ p # 0 => block'[p].next = b
  /\ \A k \in Listed : BlockOf(k) # b
  /\ \A c \in Takers : cons[c].pc = "free" => cons[c].block # b

LEMMA EnteredIs ==
  ASSUME QueueInv, NEW b \in 1..MaxBlocks, NEW p, Enter(b, p), EntersAfter(p)
  PROVE  Entered(b, p)
<1>1. /\ block \in Seq(BlockRecs) /\ free \subseteq 1..Len(block) /\ Len(block) \in Nat
      /\ b \in Nat /\ b > 0
  <2>1. MaxBlocks \in Nat
    BY SubQueueFits DEF SubQueueAssumption
  <2> QED
    BY <2>1 DEF QueueInv, QueueTypes
<1>2. (b = Len(block) + 1 /\ free = {}) \/ b \in free
  BY DEF Enter, AnyBlock
<1>3. PICK bs, f : /\ f = Fresh
                   /\ bs = IF b > Len(block) THEN Append(block, f) ELSE [block EXCEPT ![b] = f]
  OBVIOUS
<1>4. /\ free' = free \ {b}
      /\ block' = IF p = 0 THEN bs ELSE [bs EXCEPT ![p].next = b]
  BY <1>3 DEF Enter
<1>5. f \in BlockRecs /\ f.empty = 0
  <2>1. f = [data |-> [i \in Slots |-> Destroyed], empty |-> 0, next |-> 0]
    BY <1>3 DEF Fresh
  <2> QED
    BY <2>1 DEF BlockRecs, Destroyed
<1>6. /\ bs \in Seq(BlockRecs) /\ Len(block) <= Len(bs) /\ b \in 1..Len(bs) /\ bs[b] = f
      /\ \A x \in 1..Len(block) : x # b => bs[x] = block[x]
      /\ \A x \in 1..Len(bs) : x \in 1..Len(block) \/ x = b
  <2>1. CASE b > Len(block)
    <3>1. b = Len(block) + 1
      BY <1>1, <1>2, <2>1
    <3>2. bs = Append(block, f)
      BY <1>3, <2>1
    <3> QED
      BY <1>1, <1>5, <3>1, <3>2
  <2>2. CASE ~ (b > Len(block))
    <3>1. b \in 1..Len(block)
      BY <1>1, <2>2
    <3>2. bs = [block EXCEPT ![b] = f]
      BY <1>3, <2>2
    <3>3. /\ bs \in Seq(BlockRecs) /\ Len(bs) = Len(block) /\ bs[b] = f
          /\ \A x \in 1..Len(block) : x # b => bs[x] = block[x]
      BY <1>1, <1>5, <3>1, <3>2, SeqPut
    <3> QED
      BY <1>1, <3>1, <3>3
  <2> QED
    BY <2>1, <2>2
<1>7. \A k \in Listed : BlockOf(k) # b /\ BlockOf(k) \in 1..Len(block)
  <2>1. \A k \in Listed : BlockOf(k) \in 1..Len(block) /\ BlockOf(k) \notin free
    BY BlockIs
  <2> QED
    BY <1>1, <1>2, <2>1
<1>8. ASSUME NEW c \in Takers, cons[c].pc = "free" PROVE cons[c].block # b
  <2>1. cons[c].block \in 1..Len(block) /\ cons[c].block \notin free
    BY <1>8, TakerIs DEF BlockSeen
  <2> QED
    BY <1>1, <1>2, <2>1
<1>9. p # 0 => p \in 1..Len(block) /\ p # b
  <2>1. ASSUME p # 0 PROVE EndNum \in Listed /\ p = BlockOf(EndNum)
    <3>1. EndNum >= Num(tailIndex) /\ p = BlockOf(EndNum)
      BY <2>1 DEF EntersAfter
    <3>2. EndNum \in Int /\ EndNum <= EndNum /\ Num(tailIndex) \in Int /\ Num(tailIndex) <= EndNum
      BY <3>1, EndsAre
    <3> QED
      BY <3>1, <3>2, AheadListed
  <2> QED
    BY <1>7, <2>1
<1>10. /\ block' \in Seq(BlockRecs) /\ Len(block') = Len(bs)
       /\ \A x \in 1..Len(bs) : /\ block'[x].empty = bs[x].empty /\ block'[x].data = bs[x].data
                                /\ x # p => block'[x].next = bs[x].next
       /\ p # 0 => block'[p].next = b
  <2>1. CASE p = 0
    BY <1>4, <1>6, <2>1
  <2>2. CASE p # 0
    <3>1. p \in 1..Len(bs)
      BY <1>6, <1>9, <2>2
    <3>2. PICK e : e = [bs[p] EXCEPT !.next = b]
      OBVIOUS
    <3>3. bs[p] \in BlockRecs
      BY <1>6, <3>1
    <3>4. e \in BlockRecs /\ e.empty = bs[p].empty /\ e.data = bs[p].data /\ e.next = b
      BY <1>1, <3>2, <3>3 DEF BlockRecs
    <3>5. block' = [bs EXCEPT ![p] = e]
      BY <1>4, <2>2, <3>2
    <3>6. /\ [bs EXCEPT ![p] = e] \in Seq(BlockRecs) /\ Len([bs EXCEPT ![p] = e]) = Len(bs)
          /\ [bs EXCEPT ![p] = e][p] = e
          /\ \A x \in 1..Len(bs) : x # p => [bs EXCEPT ![p] = e][x] = bs[x]
      BY <1>6, <3>1, <3>4, SeqPut
    <3> QED
      BY <2>2, <3>4, <3>5, <3>6
  <2> QED
    BY <2>1, <2>2
<1>11. block'[b].empty = 0
  BY <1>5, <1>6, <1>10
<1>12. 1..Len(block) \subseteq 1..Len(block')
  BY <1>1, <1>6, <1>10
<1>13. \A x \in 1..Len(block) : x # b =>
         /\ block'[x].empty = block[x].empty /\ block'[x].data = block[x].data
         /\ x # p => block'[x].next = block[x].next
  <2>1. ASSUME NEW x \in 1..Len(block), x # b
        PROVE  /\ block'[x].empty = block[x].empty /\ block'[x].data = block[x].data
               /\ x # p => block'[x].next = block[x].next
    <3>1. x \in 1..Len(bs) /\ bs[x] = block[x]
      BY <1>6, <1>10, <1>12, <2>1
    <3> QED
      BY <1>10, <3>1
  <2> QED
    BY <2>1
<1>14. /\ b \in 1..Len(block') /\ Len(block) <= Len(block')
       /\ \A x \in 1..Len(block') : x \in 1..Len(block) \/ x = b
       /\ free' \subseteq 1..Len(block')
  BY <1>1, <1>4, <1>6, <1>10, <1>12
<1> QED
  BY <1>1, <1>4, <1>7, <1>8, <1>10, <1>11, <1>13, <1>14 DEF Entered

\* It is the block of the number that the last entry is for.
LEMMA EnterKeeps ==
  ASSUME QueueInv, NEW b \in 1..MaxBlocks, NEW p, Enter(b, p), EntersAfter(p),
         UNCHANGED <<cons, headIndex, headers>>,
         TopNum = EndNum + 1, EndNum' = TopNum, TopNum' = TopNum
  PROVE  /\ headers # <<>> /\ TopNum >= Num(tailIndex) /\ TopNum > EndNum /\ TopNum >= 0
         /\ \A k : EntryFor(k)' = EntryFor(k)
         /\ EntryFor(TopNum) \in 1..Len(entry)
         /\ entry' \in Seq(EntryRecs) /\ Len(entry') = Len(entry)
         /\ \A e \in 1..Len(entry) : entry'[e].key = entry[e].key /\
              (e # EntryFor(TopNum) => entry'[e].value = entry[e].value)
         /\ entry'[EntryFor(TopNum)].value = b
         /\ \A k \in Listed : BlockOf(k)' = BlockOf(k) /\ k # TopNum
         /\ \A k : k = TopNum => BlockOf(k)' = b /\ DoneOf(k)' = {}
         /\ Listed' = Listed \cup {TopNum}
<1>1. PICK top \in Int : top = TopNum /\ TopNum' = top /\ EndNum' = top /\ EndNum = top - 1
  BY EndsAre
<1>2. /\ tailIndex \in Nat /\ headIndex \in Nat /\ headIndex <= tailIndex
      /\ Num(tailIndex) \in Int /\ Num(tailIndex - 1) \in Int
      /\ top >= Num(tailIndex) /\ top >= 0 /\ Num(tailIndex - 1) < top
  BY <1>1, EndsAre
<1>3. headers # <<>>
  BY <1>1, <1>2 DEF QueueInv, EntriesFit, HeadersFit
<1>4. cons' = cons /\ headers' = headers /\ headIndex' = headIndex
  OBVIOUS
<1>5. \A k : EntryFor(k)' = EntryFor(k)
  BY <1>1, <1>4 DEF EntryFor, At, LastHeader
<1>6. PICK n \in 1..Len(entry) : n = EntryFor(top)
  BY <1>3, EntryForIs
<1>7. TailEntry(0) = n
  <2>1. TailEntry(TopNum - top) = n
    BY <1>6, TailEntryIs
  <2> QED
    BY <1>1, <2>1
<1>8. PICK e : e = [entry[n] EXCEPT !.value = b]
  OBVIOUS
<1>9. e \in EntryRecs /\ e.value = b /\ e.key = entry[n].key
  <2>1. entry[n] \in EntryRecs /\ b \in Nat
    BY HeadersAre, EnteredIs DEF Entered
  <2> QED
    BY <1>8, <2>1 DEF EntryRecs
<1>10. /\ entry' \in Seq(EntryRecs) /\ Len(entry') = Len(entry) /\ entry'[n] = e
       /\ \A x \in 1..Len(entry) : x # n => entry'[x] = entry[x]
  <2>1. entry' = [entry EXCEPT ![n] = e]
    BY <1>7, <1>8 DEF Enter
  <2>2. PICK es : es = [entry EXCEPT ![n] = e]
    OBVIOUS
  <2>3. entry \in Seq(EntryRecs)
    BY HeadersAre
  <2>4. /\ es \in Seq(EntryRecs) /\ Len(es) = Len(entry) /\ es[n] = e
        /\ \A x \in 1..Len(entry) : x # n => es[x] = entry[x]
    BY <1>9, <2>2, <2>3, SeqPut
  <2> QED
    BY <2>1, <2>2, <2>4
<1>11. ASSUME NEW k \in Listed PROVE BlockOf(k)' = BlockOf(k) /\ k # TopNum
  <2>1. k \in Int /\ k <= EndNum /\ TopNum - LastHeader.size < k /\ LastHeader.size \in Nat
    BY <1>3, ListedIs, HeadersAre, HeaderIs
  <2>2. k # top /\ k - top < LastHeader.size /\ top - k < LastHeader.size
    <3>1. LastHeader.size > 0
      BY <1>3, HeadersAre, HeaderIs
    <3> QED
      BY <1>1, <2>1, <3>1
  <2>3. EntryFor(k) # n
    BY <1>3, <1>6, <2>1, <2>2, EntryApart
  <2>4. EntryFor(k) \in 1..Len(entry)
    BY <1>3, <2>1, EntryForIs
  <2> QED
    BY <1>1, <1>5, <1>10, <2>2, <2>3, <2>4 DEF BlockOf
<1>12. ASSUME NEW k, k = TopNum PROVE BlockOf(k)' = b
  BY <1>1, <1>5, <1>6, <1>9, <1>10, <1>12 DEF BlockOf
<1>13. DoneOf(top) = {}
  <2>1. SUFFICES ASSUME NEW i \in Indices(top), Done(i) PROVE FALSE
    BY DEF DoneOf
  <2>2. i \in Int /\ Num(i) = top
    BY IndicesInt
  <2>3. ~ (i <= tailIndex - 1)
    <3>1. SUFFICES ASSUME i <= tailIndex - 1 PROVE FALSE
      OBVIOUS
    <3>2. tailIndex - 1 \in Int
      BY <1>2
    <3>3. Num(i) <= Num(tailIndex - 1)
      BY <2>2, <3>1, <3>2, NumOrder
    <3> QED
      BY <1>2, <2>2, <3>3
  <2> QED
    BY <1>2, <2>1, <2>2, <2>3 DEF Done
<1>14. ~ Spent(top)
  <2>1. PICK i \in Nat : tailIndex <= i /\ Num(i) = top
    BY <1>2, AheadIs
  <2>2. i \in Indices(top)
    BY <2>1, IndicesAre
  <2>3. ~ Done(i)
    BY <1>2, <2>1 DEF Done
  <2> QED
    BY <2>2, <2>3 DEF Spent
<1>15. /\ \A k : DoneOf(k)' = DoneOf(k)
       /\ Listed' = {k \in 0..EndNum' : ~Spent(k)} \cup {CurOf(cons[d]) : d \in Unlisting}
  BY <1>4, DoneSame
<1>16. Listed' = Listed \cup {top}
  <2>1. 0..EndNum' = 0..EndNum \cup {top}
    BY <1>1, <1>2
  <2> QED
    BY <1>14, <1>15, <2>1 DEF Listed
<1>17. ASSUME NEW k, k = TopNum PROVE DoneOf(k)' = {}
  BY <1>1, <1>13, <1>15, <1>17
<1>18. TopNum >= Num(tailIndex) /\ TopNum > EndNum /\ TopNum >= 0
  BY <1>1, <1>2
<1> QED
  BY <1>1, <1>3, <1>5, <1>6, <1>9, <1>10, <1>11, <1>12, <1>16, <1>17, <1>18

\* So all the invariant says still holds, if it does for the producer.
LEMMA BlockEntered ==
  ASSUME QueueInv, NEW b \in 1..MaxBlocks, NEW p, Enter(b, p), EntersAfter(p),
         UNCHANGED <<counters, cons, tailIndex, headers>>,
         TopNum = EndNum + 1, EndNum' = TopNum, TopNum' = TopNum,
         FilledTo = tailIndex, FilledTo' = tailIndex,
         prod.pc \in {"block", "found"}, prod' \in ProducerCalls, prod'.pc \notin {"block", "found"},
         ProducerFits'
  PROVE  QueueInv'
<1>1. /\ cons' = cons /\ tailIndex' = tailIndex /\ headers' = headers /\ headIndex' = headIndex
      /\ tailBlock' = b
  BY DEF counters, Enter
<1>2. PICK top \in Int : /\ top = TopNum /\ TopNum' = top /\ EndNum' = top
                          /\ EndNum = top - 1 /\ EndNum \in Int
  BY EndsAre
<1>3. PICK n : /\ top = TopNum /\ TopNum' = top /\ EndNum' = top
               /\ EndNum = top - 1 /\ EndNum \in Int /\ n = EntryFor(top)
  BY <1>2
<1>4. /\ headers # <<>> /\ top >= 0 /\ EndNum \in Int
      /\ \A k : EntryFor(k)' = EntryFor(k)
      /\ n \in 1..Len(entry) /\ entry' \in Seq(EntryRecs) /\ Len(entry') = Len(entry)
      /\ \A e \in 1..Len(entry) : entry'[e].key = entry[e].key /\
           (e # n => entry'[e].value = entry[e].value)
      /\ entry'[n].value = b
      /\ \A k \in Listed : BlockOf(k)' = BlockOf(k) /\ k # top
      /\ BlockOf(top)' = b /\ DoneOf(top)' = {}
      /\ Listed' = Listed \cup {top}
  <2>1. UNCHANGED <<cons, headIndex, headers>>
    BY <1>1
  <2>2. /\ \A k : k = TopNum => BlockOf(k)' = b /\ DoneOf(k)' = {}
        /\ EntryFor(TopNum) = n
    BY <1>3, <2>1, EnterKeeps
  <2>3. BlockOf(top)' = b /\ DoneOf(top)' = {}
    BY <1>3, <2>2
  <2>4. /\ headers # <<>> /\ TopNum >= 0
        /\ \A k : EntryFor(k)' = EntryFor(k)
        /\ EntryFor(TopNum) \in 1..Len(entry)
        /\ entry' \in Seq(EntryRecs) /\ Len(entry') = Len(entry)
        /\ \A e \in 1..Len(entry) : entry'[e].key = entry[e].key /\
             (e # EntryFor(TopNum) => entry'[e].value = entry[e].value)
        /\ entry'[EntryFor(TopNum)].value = b
        /\ \A k \in Listed : BlockOf(k)' = BlockOf(k) /\ k # TopNum
        /\ Listed' = Listed \cup {TopNum}
    BY <2>1, EnterKeeps
  <2> QED
    BY <1>3, <2>2, <2>3, <2>4
<1>5. /\ b \in Nat /\ b > 0 /\ b \in 1..Len(block') /\ block' \in Seq(BlockRecs)
      /\ Len(block) <= Len(block') /\ \A x \in 1..Len(block') : x \in 1..Len(block) \/ x = b
      /\ free' = free \ {b} /\ free' \subseteq 1..Len(block')
      /\ block'[b].empty = 0
      /\ \A x \in 1..Len(block) : x # b =>
           block'[x].empty = block[x].empty /\ block'[x].data = block[x].data
      /\ \A k \in Listed : BlockOf(k) # b
      /\ \A c \in Takers : cons[c].pc = "free" => cons[c].block # b
  BY EnteredIs DEF Entered
<1>6. Len(block) \in Nat /\ 1..Len(block) \subseteq 1..Len(block')
  BY <1>5 DEF QueueInv, QueueTypes
<1>7. /\ \A k : DoneOf(k)' = DoneOf(k) /\ (Spent(k)' <=> Spent(k))
  BY <1>1, DoneSame
<1>8. ClaimsInv'
  <2>1. tailIndex' \in Nat /\ tailIndex' >= tailIndex
    BY <1>1, EndsAre
  <2> QED
    BY <2>1, MoreClaims DEF QueueInv
<1>9. QueueTypes'
  BY <1>1, <1>4, <1>5 DEF QueueInv, QueueTypes
<1>10. TakersFit'
  BY <1>1 DEF QueueInv, TakersFit, TakersApart, RangeFits, GotRight, RestOf, CurOf, Num, Key
<1>11. HeadersFit'
  <2>1. LastHeader' = LastHeader
    BY <1>1 DEF LastHeader
  <2>2. /\ \A j \in 1..Len(headers) :
             /\ \A q \in 0..headers[j].size - 1 : headers[j].index[q] \in 1..Len(entry')
             /\ Aligned(headers[j], LastHeader)
        /\ OneEach(LastHeader)
    BY <1>4 DEF QueueInv, EntriesFit, HeadersFit
  <2>3. OneEach(LastHeader)'
    BY <2>1, <2>2 DEF OneEach
  <2> QED
    BY <1>1, <1>4, <2>1, <2>2, <2>3 DEF HeadersFit
<1>12. LastHeader' = LastHeader /\ LastHeader.size > 0 /\ LastHeader.size \in Nat
  BY <1>1, <1>4, HeadersAre, HeaderIs DEF LastHeader
<1>13. KeysFit'
  <2>1. KeysFit
    BY DEF QueueInv, EntriesFit
  <2>2. ASSUME NEW k \in Listed'
        PROVE  /\ k \in 0..EndNum' /\ TopNum' - LastHeader'.size < k
               /\ BlockOf(k)' # NoBlock
               /\ \A l \in k..TopNum' : entry'[EntryFor(l)'].key = Key(l)
    <3>1. CASE k \in Listed
      <4>1. /\ k \in 0..EndNum /\ TopNum - LastHeader.size < k
            /\ BlockOf(k) # NoBlock
            /\ \A l \in k..TopNum : entry[EntryFor(l)].key = Key(l)
        BY <2>1, <3>1 DEF KeysFit
      <4>2. k \in 0..EndNum' /\ TopNum' - LastHeader'.size < k
        BY <1>3, <1>4, <1>12, <4>1
      <4>3. ASSUME NEW l \in k..TopNum' PROVE entry'[EntryFor(l)'].key = Key(l)
        <5>1. l \in Int /\ l \in k..TopNum
          BY <1>3, <4>1, <4>3
        <5>2. EntryFor(l) \in 1..Len(entry)
          BY <1>4, <5>1, EntryForIs
        <5> QED
          BY <1>4, <4>1, <5>1, <5>2
      <4> QED
        BY <1>4, <3>1, <4>1, <4>2, <4>3
    <3>2. CASE k = top
      <4>1. entry[n].key = Key(top)
        BY <1>3, <2>1 DEF KeysFit
      <4>2. \A l \in k..TopNum' : l = top
        BY <1>3, <3>2
      <4>3. entry'[EntryFor(top)'].key = Key(top)
        BY <1>3, <1>4, <4>1
      <4>4. k \in 0..EndNum' /\ TopNum' - LastHeader'.size < k
        BY <1>3, <1>4, <1>12, <3>2
      <4>5. BlockOf(k)' # NoBlock
        BY <1>4, <1>5, <3>2 DEF NoBlock
      <4> QED
        BY <4>2, <4>3, <4>4, <4>5
    <3> QED
      BY <1>4, <2>2, <3>1, <3>2
  <2>3. ASSUME NEW e \in 1..Len(entry'), entry'[e].value # NoBlock
        PROVE  \E k \in Listed' : e = EntryFor(k)'
    <3>1. CASE e = n
      BY <1>3, <1>4, <3>1
    <3>2. CASE e # n
      <4>1. e \in 1..Len(entry) /\ entry[e].value # NoBlock
        BY <1>4, <2>3, <3>2
      <4>2. PICK k \in Listed : e = EntryFor(k)
        BY <2>1, <4>1 DEF KeysFit
      <4> QED
        BY <1>4, <4>2
    <3> QED
      BY <3>1, <3>2
  <2> QED
    BY <2>2, <2>3 DEF KeysFit, Key
<1>14. Owned'
  <2>1. ASSUME NEW k \in Listed'
        PROVE  /\ BlockOf(k)' \in 1..Len(block') /\ BlockOf(k)' \notin free'
               /\ block'[BlockOf(k)'].empty = Cardinality(DoneOf(k)')
    <3>1. CASE k \in Listed
      <4>1. BlockOf(k) \in 1..Len(block) /\ BlockOf(k) \notin free
            /\ block[BlockOf(k)].empty = Cardinality(DoneOf(k))
        BY <3>1 DEF QueueInv, Owned
      <4> QED
        BY <1>4, <1>5, <1>6, <1>7, <3>1, <4>1
    <3>2. CASE k = top
      BY <1>4, <1>5, <3>2, FS_EmptySet
    <3> QED
      BY <1>4, <2>1, <3>1, <3>2
  <2>2. ASSUME NEW k \in Listed', NEW l \in Listed', BlockOf(k)' = BlockOf(l)' PROVE k = l
    <3>1. CASE k \in Listed /\ l \in Listed
      <4>1. BlockOf(k) = BlockOf(l)
        BY <1>4, <2>2, <3>1
      <4> QED
        BY <3>1, <4>1 DEF QueueInv, Owned
    <3>2. CASE k = top /\ l \in Listed
      BY <1>4, <1>5, <2>2, <3>2
    <3>3. CASE k \in Listed /\ l = top
      BY <1>4, <1>5, <2>2, <3>3
    <3> QED
      BY <1>4, <2>2, <3>1, <3>2, <3>3
  <2>3. ASSUME NEW x \in 1..Len(block')
        PROVE  x \in free' \/ (\E k \in Listed' : BlockOf(k)' = x)
                 \/ \E c \in Takers : cons[c].pc = "free" /\ cons[c].block = x
    <3>1. CASE x = b
      BY <1>4, <3>1
    <3>2. CASE x # b
      <4>1. x \in 1..Len(block)
        BY <1>5, <3>2
      <4>2. x \in free \/ (\E k \in Listed : BlockOf(k) = x)
              \/ \E c \in Takers : cons[c].pc = "free" /\ cons[c].block = x
        BY <4>1 DEF QueueInv, Owned
      <4> QED
        BY <1>4, <1>5, <3>2, <4>2
    <3> QED
      BY <3>1, <3>2
  <2> QED
    BY <1>1, <2>1, <2>2, <2>3 DEF Owned
<1>15. DataFits'
  <2>1. ASSUME NEW i \in 0..tailIndex - 1,
               i >= headIndex \/ (\E c \in Takers : i \in UntakenOf(cons[c]))
        PROVE  block'[BlockOf(Num(i))'].data[i % BLOCK_SIZE] = i + 1
    <3>1. block[BlockOf(Num(i))].data[i % BLOCK_SIZE] = i + 1
      BY <2>1 DEF QueueInv, DataFits
    <3>2. PICK k \in Listed : k = Num(i)
      BY <2>1, NeededListed
    <3>3. BlockOf(k)' = BlockOf(k) /\ block'[BlockOf(k)].data = block[BlockOf(k)].data
      <4>1. BlockOf(k) \in 1..Len(block)
        BY BlockIs
      <4> QED
        BY <1>4, <1>5, <4>1
    <3>4. BlockOf(Num(i))' = BlockOf(k)'
      BY <3>2 DEF BlockOf, EntryFor, At, Mod, Num
    <3> QED
      BY <3>1, <3>2, <3>3, <3>4
  <2>2. \A c \in Takers : UntakenOf(cons[c])' = UntakenOf(cons[c])
    BY <1>1 DEF UntakenOf
  <2> QED
    BY <1>1, <2>1, <2>2 DEF DataFits
<1>16. TakersSee'
  <2>1. ASSUME NEW d \in Takers PROVE (IndexSeen(cons[d]) /\ BlockSeen(cons[d]))'
    <3>1. IndexSeen(cons[d]) /\ BlockSeen(cons[d]) /\ cons'[d] = cons[d]
      BY <1>1, TakerIs
    <3>2. \A m : Points(cons[d], m)' <=> Points(cons[d], m)
      BY <1>1, <1>4, <3>1 DEF Points, SpanOf, RestOf, CurOf, Num, Mod
    <3>3. IndexSeen(cons[d])'
      <4>1. \A e \in 1..Len(entry) : entry'[e].key = entry[e].key
        BY <1>4
      <4>2. cons[d].pc = "key" => headers[cons[d].index].index[cons[d].slot] \in 1..Len(entry)
        BY <3>1 DEF IndexSeen, QueueInv, EntriesFit, HeadersFit
      <4> QED
        BY <1>1, <3>1, <3>2, <4>1, <4>2 DEF IndexSeen, CurOf, Num, Key
    <3>4. BlockSeen(cons[d])'
      <4>1. PICK k : k = CurOf(cons[d])
        OBVIOUS
      <4>2. CurOf(cons[d])' = k
        BY <1>1, <4>1 DEF CurOf, Num
      <4>3. cons[d].pc \in {"empty", "unlist"} => cons[d].block = BlockOf(k)'
        <5>1. cons[d].pc \in {"empty", "unlist"} => k \in Listed /\ cons[d].block = BlockOf(k)
          BY <3>1, <4>1, CurListed DEF BlockSeen
        <5> QED
          BY <1>4, <5>1
      <4>4. cons[d].pc \in {"unlist", "free"} => Spent(k)'
        BY <1>7, <3>1, <4>1 DEF BlockSeen
      <4>5. cons[d].pc = "free" =>
              /\ cons[d].block \in 1..Len(block') /\ cons[d].block \notin free'
              /\ \A l \in Listed' : BlockOf(l)' # cons[d].block
        <5>1. cons[d].pc = "free" =>
                /\ cons[d].block \in 1..Len(block) /\ cons[d].block \notin free
                /\ \A l \in Listed : BlockOf(l) # cons[d].block
          BY <3>1 DEF BlockSeen
        <5> QED
          BY <1>4, <1>5, <1>6, <5>1
      <4>6. BlockOf(CurOf(cons[d]))' = BlockOf(k)' /\ (Spent(CurOf(cons[d]))' <=> Spent(k)')
        BY <4>2 DEF BlockOf, EntryFor, At, Mod, Spent, Indices, Done, Key
      <4> QED
        BY <3>1, <4>3, <4>4, <4>5, <4>6 DEF BlockSeen
    <3> QED
      BY <3>3, <3>4
  <2> QED
    BY <2>1 DEF TakersSee
<1> QED
  BY <1>8, <1>9, <1>10, <1>11, <1>13, <1>14, <1>15, <1>16 DEF QueueInv, EntriesFit

LEMMA EnqueueBlockQueue ==
  ASSUME QueueInv, EnqueueBlock
  PROVE  QueueInv'
<1>1. PICK b \in 1..MaxBlocks : Tick("block", [prod EXCEPT !.pc = "fill", !.at = b]) /\ Enter(b, 0)
  BY DEF EnqueueBlock
<1>2. PICK p : p = [prod EXCEPT !.pc = "fill", !.at = b]
  OBVIOUS
<1>3. /\ prod.pc = "block" /\ prod' = p /\ Enter(b, 0)
      /\ UNCHANGED <<counters, cons, tailIndex, headers>>
      /\ tailIndex' = tailIndex /\ tailBlock' = b
      /\ UNCHANGED <<cons, headIndex, headers>>
  BY <1>1, <1>2 DEF EnqueueBlock, Unshared, Tick, Enter, counters
<1>4. EntersAfter(0)
  BY DEF EntersAfter
<1>5. /\ tailIndex \in Nat /\ EndNum \in Int /\ TopNum = EndNum + 1 /\ FilledTo = tailIndex
      /\ EndNum = Num(tailIndex - 1) /\ Num(tailIndex) = EndNum + 1 /\ prod.i = tailIndex /\ prod.n = 1
      /\ prod \in ProducerCalls
  <2>1. ProducerFits /\ prod \in ProducerCalls
    BY DEF QueueInv, QueueTypes
  <2> QED
    BY <1>3, <2>1, EndsAre DEF EndNum, TopNum, FilledTo, ProducerFits
<1>6. p \in ProducerCalls /\ p.pc = "fill" /\ p.n = 1 /\ p.i = tailIndex /\ p.at = b
  <2>1. b \in Nat
    BY <1>3, <1>4, EnteredIs DEF Entered
  <2> QED
    BY <1>2, <1>5, <2>1 DEF ProducerCalls
<1>7. EndNum' = TopNum /\ TopNum' = TopNum /\ FilledTo' = tailIndex
  <2>1. EndNum' = Num(tailIndex + 1 - 1)
    BY <1>3, <1>6 DEF EndNum, Num
  <2>2. tailIndex + 1 - 1 = tailIndex
    BY <1>5
  <2>3. EndNum' = Num(tailIndex)
    BY <2>1, <2>2, Zenon
  <2> QED
    BY <1>3, <1>5, <1>6, <2>3 DEF TopNum, FilledTo
<1>8. \A k : k = TopNum => BlockOf(k)' = b
  BY <1>3, <1>4, <1>5, <1>7, EnterKeeps
<1>9. ProducerFits'
  <2>1. PICK t \in Int : t = EndNum + 1 /\ t = TopNum /\ EndNum' = t /\ Num(tailIndex) = t
    BY <1>5, <1>7
  <2>2. Num(prod.i)' = t /\ Num(tailIndex)' = t
    BY <1>3, <1>6, <2>1 DEF Num
  <2>3. BlockOf(t)' = b
    BY <1>8, <2>1
  <2>4. BlockOf(EndNum)' = b /\ BlockOf(Num(prod.i))' = b
    BY <2>1, <2>2, <2>3 DEF BlockOf, EntryFor, At, Mod
  <2>5. Linked(Num(prod.i))'
    BY <2>1, <2>2 DEF Linked
  <2>6. tailIndex <= p.i /\ p.i < tailIndex + p.n
    BY <1>5, <1>6
  <2> QED
    BY <1>3, <1>6, <2>4, <2>5, <2>6 DEF ProducerFits
<1>10. prod.pc \in {"block", "found"} /\ prod' \in ProducerCalls /\ prod'.pc \notin {"block", "found"}
  BY <1>3, <1>6
<1> QED
  BY <1>3, <1>4, <1>5, <1>7, <1>9, <1>10, BlockEntered

LEMMA BulkBlockQueue ==
  ASSUME QueueInv, BulkBlock
  PROVE  QueueInv'
<1>1. PICK a : a = IF StartsBlock /\ prod.first = 0 THEN 0 ELSE tailBlock
  OBVIOUS
<1>2. PICK b \in 1..MaxBlocks : Tick("found", BlockFound("find", b, 0)) /\ Enter(b, a)
  BY <1>1 DEF BulkBlock
<1>3. PICK f : f = IF prod.first = 0 THEN b ELSE prod.first
  OBVIOUS
<1>4. PICK p : p = [prod EXCEPT !.pc = "find", !.left = @ - 1, !.base = @ + BLOCK_SIZE,
                               !.first = f, !.front = 0]
  OBVIOUS
<1>5. /\ prod.pc = "found" /\ prod' = p /\ UNCHANGED <<counters, cons, tailIndex, headers>>
      /\ tailIndex' = tailIndex /\ tailBlock' = b
      /\ UNCHANGED <<cons, headIndex, headers>>
  BY <1>2, <1>3, <1>4 DEF BulkBlock, Unshared, Tick, BlockFound, Enter, counters
<1>6. /\ tailIndex \in Nat /\ EndNum \in Int /\ TopNum = EndNum + 1 /\ FilledTo = tailIndex
      /\ Num(tailIndex) \in Int /\ Num(tailIndex - 1) \in Int
      /\ Num(tailIndex - 1) <= Num(tailIndex) /\ Num(tailIndex) <= Num(tailIndex - 1) + 1
      /\ EndNum >= Num(tailIndex - 1) /\ EndNum = Num(prod.base)
  BY <1>5, EndsAre DEF EndNum, TopNum, FilledTo
<1>7. /\ prod \in ProducerCalls /\ prod.base = Key(EndNum) /\ prod.n > 0 /\ prod.i = tailIndex
      /\ prod.left > 0 /\ prod.left \in Nat /\ prod.base \in Int /\ prod.first \in Nat /\ prod.n \in Nat
      /\ EndNum + prod.left = Num(tailIndex + prod.n - 1)
      /\ EndNum = Num(tailIndex - 1) => prod.first = 0
      /\ EndNum > Num(tailIndex - 1) => prod.first = BlockOf(Num(tailIndex - 1) + 1)
      /\ Num(tailIndex - 1) = Num(tailIndex) => prod.start = BlockOf(Num(tailIndex))
      /\ Linked(Num(tailIndex))
      /\ EndNum >= Num(tailIndex) => tailBlock = BlockOf(EndNum)
  BY <1>5, ProducerIs DEF ProducerFits, QueueInv, QueueTypes
<1>8. PICK e \in Int, t \in Int, u \in Int, v \in Int :
        e = EndNum /\ t = Num(tailIndex) /\ u = Num(tailIndex - 1) /\ v = u + 1
  BY <1>6
<1>9. e > u => prod.first # 0 /\ v \in t..e /\ prod.first = BlockOf(v)
  <2>1. ASSUME e > u PROVE prod.first # 0 /\ v \in t..e /\ prod.first = BlockOf(v)
    <3>1. v \in t..e
      BY <1>6, <1>8, <2>1
    <3>2. v \in Listed
      BY <1>6, <1>8, <3>1, AheadListed
    <3>3. BlockOf(v) \in 1..Len(block) /\ Len(block) \in Nat
      BY <3>2, BlockIs DEF QueueInv, QueueTypes
    <3>4. prod.first = BlockOf(v)
      BY <1>7, <1>8, <2>1
    <3> QED
      BY <3>1, <3>3, <3>4
  <2> QED
    BY <2>1
<1>10. e >= t => a = BlockOf(e) /\ a # 0
  <2>1. ASSUME e >= t PROVE ~ (StartsBlock /\ prod.first = 0)
    <3>1. SUFFICES ASSUME StartsBlock PROVE e > u
      BY <1>9
    <3>2. tailIndex \in Int
      BY <1>6
    <3>3. u = t - 1
      BY <1>6, <1>8, <3>1, <3>2, NumBefore DEF StartsBlock
    <3> QED
      BY <1>8, <2>1, <3>3
  <2>2. ASSUME e >= t PROVE a = BlockOf(e) /\ a # 0
    <3>1. a = BlockOf(e)
      BY <1>1, <1>7, <1>8, <2>1, <2>2
    <3>2. e \in Listed
      <4>1. Num(tailIndex) <= e /\ e <= EndNum
        BY <1>6, <1>8, <2>2
      <4> QED
        BY <4>1, AheadListed
    <3>3. BlockOf(e) \in 1..Len(block) /\ Len(block) \in Nat
      BY <3>2, BlockIs DEF QueueInv, QueueTypes
    <3> QED
      BY <3>1, <3>3
  <2> QED
    BY <2>2
<1>11. e < t => a = 0
  <2>1. ASSUME e < t PROVE StartsBlock /\ prod.first = 0
    <3>1. u = t - 1 /\ e = u
      BY <1>6, <1>8, <2>1
    <3>2. tailIndex \in Int
      BY <1>6
    <3>3. StartsBlock
      BY <1>6, <1>8, <3>1, <3>2, NumBefore DEF StartsBlock
    <3> QED
      BY <1>7, <1>8, <3>1, <3>3
  <2> QED
    BY <1>1, <2>1
<1>12. EntersAfter(a)
  BY <1>8, <1>10, <1>11 DEF EntersAfter
<1>13. /\ Entered(b, a) /\ b \in Nat /\ b > 0
  BY <1>2, <1>12, EnteredIs DEF Entered
<1>14. f \in Nat
  BY <1>3, <1>7, <1>13
<1>15. /\ p \in ProducerCalls /\ p.pc = "find" /\ p.n = prod.n /\ p.left = prod.left - 1
       /\ p.base = prod.base + BLOCK_SIZE /\ p.first = f /\ p.start = prod.start /\ p.i = tailIndex
  <2>1. prod.left - 1 \in Nat /\ prod.base + BLOCK_SIZE \in Int
    BY <1>7, SizeFacts
  <2>2. PICK l, s : l = prod.left - 1 /\ s = prod.base + BLOCK_SIZE
    OBVIOUS
  <2>3. p = [prod EXCEPT !.pc = "find", !.left = l, !.base = s, !.first = f, !.front = 0]
    BY <1>4, <2>2
  <2> QED
    BY <1>7, <1>14, <2>1, <2>2, <2>3 DEF ProducerCalls
<1>16. p.base = Key(e + 1) /\ Num(p.base) = e + 1
  <2>1. p.base = Key(e + 1) /\ e + 1 \in Int
    BY <1>7, <1>8, <1>15, KeyType
  <2> QED
    BY <2>1, NumOfKey
<1>17. EndNum' = TopNum /\ TopNum' = TopNum /\ FilledTo' = tailIndex /\ EndNum' = e + 1
  <2>1. EndNum' = Num(p.base)
    BY <1>5, <1>15 DEF EndNum, Num
  <2> QED
    BY <1>5, <1>6, <1>8, <1>15, <1>16, <2>1 DEF TopNum, FilledTo
<1>18. /\ \A k \in Listed : BlockOf(k)' = BlockOf(k)
       /\ \A k : k = TopNum => BlockOf(k)' = b
  BY <1>2, <1>5, <1>6, <1>12, <1>17, EnterKeeps
<1>19. PICK w \in Int : w = e + 1 /\ EndNum' = w /\ BlockOf(w)' = b /\ w >= t
  BY <1>6, <1>8, <1>17, <1>18
<1>20. \A k \in t..e : k \in Listed /\ BlockOf(k)' = BlockOf(k) /\ BlockOf(k) \in 1..Len(block)
  BY <1>6, <1>8, <1>18, AheadListed, BlockIs
<1>21. ProducerFits'
  <2>1. /\ Num(tailIndex)' = t /\ Num(tailIndex - 1)' = u
        /\ Num(tailIndex + prod.n - 1)' = Num(tailIndex + prod.n - 1)
        /\ Key(EndNum)' = Key(w)
    BY <1>5, <1>6, <1>8, <1>15, <1>19 DEF Num, Key
  <2>2. BlockOf(EndNum)' = b
    <3>1. BlockOf(EndNum)' = BlockOf(w)'
      BY <1>19 DEF BlockOf, EntryFor, At, Mod
    <3> QED
      BY <1>19, <3>1
  <2>3. f = BlockOf(Num(tailIndex - 1) + 1)'
    <3>1. BlockOf(Num(tailIndex - 1) + 1)' = BlockOf(v)'
      BY <1>8, <2>1 DEF BlockOf, EntryFor, At, Mod
    <3>2. CASE e = u
      <4>1. prod.first = 0 /\ v = w
        BY <1>7, <1>8, <1>19, <3>2
      <4> QED
        BY <1>3, <1>19, <3>1, <4>1
    <3>3. CASE e # u
      <4>1. e > u
        BY <1>6, <1>8, <3>3
      <4>2. f = BlockOf(v) /\ v \in t..e
        BY <1>3, <1>9, <4>1
      <4> QED
        BY <1>20, <3>1, <4>2
    <3> QED
      BY <3>2, <3>3
  <2>4. u = t => prod.start = BlockOf(Num(tailIndex))'
    <3>1. BlockOf(Num(tailIndex))' = BlockOf(t)'
      BY <2>1 DEF BlockOf, EntryFor, At, Mod
    <3>2. u = t => t \in t..e
      BY <1>6, <1>8
    <3> QED
      BY <1>7, <1>8, <1>20, <3>1, <3>2
  <2>5. Linked(Num(tailIndex))'
    <3>1. ASSUME NEW k \in t..w - 1 PROVE block'[BlockOf(k)'].next = BlockOf(k + 1)'
      <4>1. k \in t..e
        BY <1>19
      <4>2. BlockOf(k)' = BlockOf(k) /\ BlockOf(k) \in 1..Len(block) /\ k \in Listed /\ BlockOf(k) # b
        BY <1>13, <1>20, <4>1 DEF Entered
      <4>3. CASE k = e
        <5>1. a = BlockOf(k) /\ a # 0
          BY <1>10, <4>1, <4>3
        <5>2. block'[BlockOf(k)'].next = b
          BY <1>13, <4>2, <5>1 DEF Entered
        <5>3. PICK l \in Int : l = k + 1 /\ l = w
          BY <1>19, <4>3
        <5> QED
          BY <1>19, <5>2, <5>3
      <4>4. CASE k # e
        <5>1. k \in t..e - 1
          BY <4>1, <4>4
        <5>2. PICK l \in t..e : l = k + 1
          BY <5>1
        <5>3. block[BlockOf(k)].next = BlockOf(l)
          BY <1>7, <1>8, <5>1, <5>2 DEF Linked
        <5>4. BlockOf(k) # a
          <6>1. SUFFICES ASSUME BlockOf(k) = a PROVE FALSE
            OBVIOUS
          <6>2. e >= t /\ e \in t..e
            BY <4>1
          <6>3. BlockOf(k) = BlockOf(e) /\ e \in Listed
            BY <1>10, <1>20, <6>1, <6>2
          <6>4. k = e
            BY <4>2, <6>3 DEF QueueInv, Owned
          <6> QED
            BY <4>4, <6>4
        <5>5. block'[BlockOf(k)].next = block[BlockOf(k)].next
          BY <1>13, <4>2, <5>4 DEF Entered
        <5> QED
          BY <1>20, <4>2, <5>2, <5>3, <5>5
      <4> QED
        BY <4>3, <4>4
    <3> QED
      BY <1>19, <2>1, <3>1 DEF Linked
  <2>6. w + p.left = Num(tailIndex + prod.n - 1)
    BY <1>7, <1>8, <1>15, <1>19
  <2>7. w >= u /\ w > u /\ w # u
    BY <1>6, <1>8, <1>19
  <2>8. p.base = Key(w)
    BY <1>16, <1>19
  <2> QED
    BY <1>5, <1>7, <1>8, <1>15, <1>19, <2>1, <2>2, <2>3, <2>4, <2>5, <2>6, <2>7, <2>8 DEF ProducerFits
<1>22. prod.pc \in {"block", "found"} /\ prod' \in ProducerCalls /\ prod'.pc \notin {"block", "found"}
  BY <1>5, <1>15
<1> QED
  BY <1>2, <1>5, <1>6, <1>12, <1>17, <1>21, <1>22, BlockEntered

-----------------------------------------------------------------------------
(* The producer finds nothing and gives all back.                          *)

\* The last block with elements, and the entries and blocks taken after it.
LastNum == Num(tailIndex - 1)
Taken == {EntryFor(k) : k \in LastNum + 1 .. TopNum}

GivesBack ==
  /\ entry' \in Seq(EntryRecs) /\ Len(entry') = Len(entry)
  /\ \A e \in 1..Len(entry) :
       /\ entry'[e].key = entry[e].key
       /\ e \in Taken => entry'[e].value = NoBlock
       /\ e \notin Taken => entry'[e].value = entry[e].value
  /\ headers' = IF TopNum = LastNum THEN headers ELSE Put(Turned(LastHeader, LastNum - TopNum))
  /\ free' = free \cup {BlockOf(k) : k \in LastNum + 1 .. EndNum}

\* What consumers claimed comes before it.
LEMMA CurBefore ==
  ASSUME QueueInv, NEW c \in Takers, cons[c].pc \in After
  PROVE  CurOf(cons[c]) \in Int /\ CurOf(cons[c]) <= LastNum
<1>1. PICK r : r = cons[c]
  OBVIOUS
<1>2. r \in TakerCalls /\ RangeFits(r) /\ ClaimTypes
  BY <1>1, TakerIs DEF QueueInv, ClaimsInv
<1>3. PICK a \in Int : a = r.at - Len(r.got)
  BY <1>2, RangeIs
<1>4. a < r.end /\ r.end <= headIndex /\ r.end \in Int
  BY <1>1, <1>2, <1>3, RangeIs DEF RangeFits
<1>5. PICK t \in Int : t = tailIndex - 1 /\ a <= t
  BY <1>4, EndsAre
<1>6. Num(a) <= Num(t) /\ Num(a) \in Int
  BY <1>5, NumOrder, NumType
<1> QED
  BY <1>1, <1>3, <1>5, <1>6 DEF CurOf, LastNum

LEMMA GiveBackKeeps ==
  ASSUME QueueInv, GivesBack, UNCHANGED <<cons, headIndex>>,
         EndNum' = LastNum, TopNum' = LastNum
  PROVE  /\ headers' \in Seq(HeaderRecs) /\ Len(headers') = Len(headers)
         /\ \A j \in 1..Len(headers) :
              headers'[j].size = headers[j].size /\ headers'[j].index = headers[j].index
         /\ headers # <<>> =>
              LastHeader'.size = LastHeader.size /\ LastHeader'.index = LastHeader.index
         /\ headers # <<>> => \A k \in Int : EntryFor(k)' = EntryFor(k)
         /\ Listed' = {k \in Listed : k <= LastNum}
         /\ \A k \in Listed : k <= LastNum =>
              BlockOf(k)' = BlockOf(k) /\ EntryFor(k) \notin Taken
         /\ \A k \in Listed : k > LastNum => EntryFor(k) \in Taken
         /\ \A k \in LastNum + 1 .. EndNum : k \in Listed
<1>1. PICK top \in Int, z \in Int : top = TopNum /\ z = LastNum /\ z <= EndNum /\ EndNum <= top /\ -1 <= z
                                    /\ EndNum \in Int /\ Num(tailIndex) \in Int /\ Num(tailIndex) <= z + 1
  BY EndsAre DEF LastNum
<1>2. cons' = cons /\ headIndex' = headIndex /\ EndNum' = z /\ TopNum' = z
  BY <1>1
<1>3. top # z => headers # <<>>
  BY <1>1 DEF QueueInv, EntriesFit, HeadersFit
<1>4. PICK h : h = IF top = z THEN LastHeader ELSE Turned(LastHeader, z - top)
  OBVIOUS
<1>5. headers # <<>> =>
        /\ h \in HeaderRecs /\ h.size = LastHeader.size /\ h.index = LastHeader.index
        /\ \A k \in Int : At(h, z, k) = At(LastHeader, top, k)
  <2>1. ASSUME headers # <<>>
        PROVE /\ h \in HeaderRecs /\ h.size = LastHeader.size /\ h.index = LastHeader.index
              /\ \A k \in Int : At(h, z, k) = At(LastHeader, top, k)
    <3>1. PICK l \in HeaderRecs, n \in Int : l = LastHeader /\ n = z - top /\ top + n = z
      BY <2>1, HeadersAre
    <3>2. /\ Turned(l, n) \in HeaderRecs /\ Turned(l, n).size = l.size /\ Turned(l, n).index = l.index
          /\ \A k \in Int : At(Turned(l, n), top + n, k) = At(l, top, k)
      BY TurnedIs
    <3>3. CASE top = z
      BY <1>4, <3>1, <3>3
    <3>4. CASE top # z
      <4>1. h = Turned(l, n)
        BY <1>4, <3>1, <3>4
      <4> QED
        BY <3>1, <3>2, <4>1
    <3> QED
      BY <3>3, <3>4
  <2> QED
    BY <2>1
<1>6. headers' = IF headers = <<>> THEN headers ELSE [headers EXCEPT ![Len(headers)] = h]
  <2>1. CASE headers = <<>>
    BY <1>1, <1>3, <2>1 DEF GivesBack
  <2>2. CASE headers # <<>> /\ top = z
    <3>1. headers' = headers
      BY <1>1, <2>2 DEF GivesBack
    <3>2. h = headers[Len(headers)] /\ headers \in Seq(HeaderRecs)
      BY <1>4, <2>2, HeadersAre DEF LastHeader
    <3> QED
      BY <2>2, <3>1, <3>2
  <2>3. CASE headers # <<>> /\ top # z
    BY <1>1, <1>4, <2>3 DEF GivesBack, Put
  <2> QED
    BY <2>1, <2>2, <2>3
<1>7. /\ headers' \in Seq(HeaderRecs) /\ Len(headers') = Len(headers)
      /\ \A j \in 1..Len(headers) :
           headers'[j].size = headers[j].size /\ headers'[j].index = headers[j].index
      /\ headers # <<>> => LastHeader' = h
  <2>1. CASE headers = <<>>
    BY <1>6, <2>1, HeadersAre
  <2>2. CASE headers # <<>>
    <3>1. headers \in Seq(HeaderRecs) /\ Len(headers) \in 1..Len(headers)
      BY <2>2, HeadersAre
    <3>2. PICK hs : hs = [headers EXCEPT ![Len(headers)] = h]
      OBVIOUS
    <3>3. /\ hs \in Seq(HeaderRecs) /\ Len(hs) = Len(headers) /\ hs[Len(headers)] = h
          /\ \A j \in 1..Len(headers) : j # Len(headers) => hs[j] = headers[j]
      BY <1>5, <2>2, <3>1, <3>2, SeqPut
    <3>4. headers' = hs
      BY <1>6, <2>2, <3>2
    <3> QED
      BY <1>5, <2>2, <3>3, <3>4 DEF LastHeader
  <2> QED
    BY <2>1, <2>2
<1>8. ASSUME headers # <<>>, NEW k \in Int PROVE EntryFor(k)' = EntryFor(k)
  <2>1. LastHeader' = h
    BY <1>7, <1>8
  <2>2. EntryFor(k)' = At(h, z, k)
    BY <1>2, <2>1 DEF EntryFor, At, Mod
  <2>3. EntryFor(k) = At(LastHeader, top, k)
    BY <1>1 DEF EntryFor
  <2> QED
    BY <1>5, <1>8, <2>2, <2>3
<1>9. Listed' = {k \in Listed : k <= z}
  <2>1. Listed' = {k \in 0..z : ~Spent(k)} \cup {CurOf(cons[d]) : d \in Unlisting}
    BY <1>2, DoneSame
  <2>2. \A d \in Unlisting : CurOf(cons[d]) \in Int /\ CurOf(cons[d]) <= z
    <3>1. \A d \in Unlisting : d \in Takers /\ cons[d].pc \in After
      BY DEF Unlisting, After
    <3> QED
      BY <1>1, <3>1, CurBefore
  <2>3. \A k \in 0..EndNum : k <= z <=> k \in 0..z
    BY <1>1
  <2>4. 0..z \subseteq 0..EndNum
    BY <1>1
  <2> QED
    BY <2>1, <2>2, <2>3, <2>4 DEF Listed
<1>10. ASSUME NEW k \in Listed, k > z PROVE EntryFor(k) \in Taken
  <2>1. k \in Int /\ k <= EndNum
    BY ListedIs
  <2>2. k \in LastNum + 1 .. TopNum
    BY <1>1, <1>10, <2>1
  <2> QED
    BY <2>2 DEF Taken
<1>11. ASSUME NEW k \in Listed, k <= z
       PROVE  BlockOf(k)' = BlockOf(k) /\ EntryFor(k) \notin Taken
  <2>1. k \in Int /\ headers # <<>> /\ TopNum - LastHeader.size < k
    BY ListedIs
  <2>2. LastHeader.size \in Nat /\ LastHeader.size > 0
    BY <2>1, HeadersAre, HeaderIs
  <2>3. EntryFor(k) \notin Taken
    <3>1. SUFFICES ASSUME NEW l \in LastNum + 1 .. TopNum, EntryFor(k) = EntryFor(l) PROVE FALSE
      BY DEF Taken
    <3>2. l \in Int /\ k < l /\ k - l < LastHeader.size /\ l - k < LastHeader.size
      BY <1>1, <1>11, <2>1, <2>2
    <3>3. k = l
      BY <2>1, <3>1, <3>2, EntryApart
    <3> QED
      BY <2>1, <3>2, <3>3
  <2>4. EntryFor(k) \in 1..Len(entry) /\ EntryFor(k)' = EntryFor(k)
    BY <1>8, <2>1, EntryForIs
  <2> QED
    BY <2>3, <2>4 DEF GivesBack, BlockOf
<1>12. \A k \in LastNum + 1 .. EndNum : k \in Listed
  BY <1>1, AheadListed
<1> QED
  BY <1>1, <1>5, <1>7, <1>8, <1>9, <1>10, <1>11, <1>12

LEMMA BlocksGivenBack ==
  ASSUME QueueInv, GivesBack, UNCHANGED <<counters, cons, tailIndex, block>>,
         prod' = IdleProducer, tailBlock' \in Nat,
         LastNum >= Num(tailIndex) => tailBlock' = BlockOf(LastNum)
  PROVE  QueueInv'
<1>1. /\ cons' = cons /\ tailIndex' = tailIndex /\ block' = block /\ headIndex' = headIndex
      /\ UNCHANGED <<cons, headIndex>>
  BY DEF counters
<1>2. IdleProducer \in ProducerCalls /\ IdleProducer.pc = "idle"
  BY DEF IdleProducer, ProducerCalls
<1>3. PICK top \in Int, z \in Int : top = TopNum /\ z = LastNum /\ z <= EndNum /\ EndNum <= top /\ -1 <= z
                                    /\ EndNum \in Int /\ Num(tailIndex) \in Int
  BY EndsAre DEF LastNum
<1>4. EndNum' = LastNum /\ TopNum' = LastNum /\ FilledTo' = tailIndex
  BY <1>1, <1>2 DEF EndNum, TopNum, FilledTo, LastNum, Num
<1>5. /\ headers' \in Seq(HeaderRecs) /\ Len(headers') = Len(headers)
      /\ \A j \in 1..Len(headers) :
           headers'[j].size = headers[j].size /\ headers'[j].index = headers[j].index
      /\ headers # <<>> =>
           LastHeader'.size = LastHeader.size /\ LastHeader'.index = LastHeader.index
      /\ headers # <<>> => \A k \in Int : EntryFor(k)' = EntryFor(k)
      /\ Listed' = {k \in Listed : k <= z}
      /\ \A k \in Listed : k <= z => BlockOf(k)' = BlockOf(k) /\ EntryFor(k) \notin Taken
      /\ \A k \in Listed : k > z => EntryFor(k) \in Taken
      /\ \A k \in z + 1 .. EndNum : k \in Listed
  BY <1>1, <1>3, <1>4, GiveBackKeeps
<1>6. /\ entry' \in Seq(EntryRecs) /\ Len(entry') = Len(entry)
      /\ \A e \in 1..Len(entry) :
           /\ entry'[e].key = entry[e].key
           /\ e \in Taken => entry'[e].value = NoBlock
           /\ e \notin Taken => entry'[e].value = entry[e].value
      /\ free' = free \cup {BlockOf(k) : k \in z + 1 .. EndNum}
  BY <1>3 DEF GivesBack
<1>7. /\ \A k : DoneOf(k)' = DoneOf(k) /\ (Spent(k)' <=> Spent(k))
  BY <1>1, DoneSame
<1>8. ClaimsInv'
  <2>1. tailIndex' \in Nat /\ tailIndex' >= tailIndex
    BY <1>1, EndsAre
  <2> QED
    BY <2>1, MoreClaims DEF QueueInv
<1>9. QueueTypes'
  <2>1. free' \subseteq 1..Len(block)
    <3>1. \A k \in z + 1 .. EndNum : BlockOf(k) \in 1..Len(block)
      BY <1>5, BlockIs
    <3> QED
      BY <1>6, <3>1 DEF QueueInv, QueueTypes
  <2> QED
    BY <1>1, <1>2, <1>5, <1>6, <2>1 DEF QueueInv, QueueTypes
<1>10. TakersFit'
  BY <1>1 DEF QueueInv, TakersFit, TakersApart, RangeFits, GotRight, RestOf, CurOf, Num, Key
<1>11. HeadersFit'
  <2>1. CASE headers = <<>>
    <3>1. headers' = <<>> /\ top = -1
      BY <1>3, <1>5, <2>1 DEF QueueInv, EntriesFit, HeadersFit
    <3>2. TopNum' = -1
      BY <1>3, <1>4, <3>1
    <3> QED
      BY <3>1, <3>2 DEF HeadersFit
  <2>2. CASE headers # <<>>
    <3>1. Len(headers) \in 1..Len(headers) /\ LastHeader \in HeaderRecs
          /\ \A j \in 1..Len(headers) : headers[j] \in HeaderRecs
      BY <2>2, HeadersAre
    <3>2. /\ \A j \in 1..Len(headers) :
               /\ \A q \in 0..headers[j].size - 1 : headers[j].index[q] \in 1..Len(entry')
               /\ Aligned(headers[j], LastHeader)
          /\ OneEach(LastHeader)
      BY <1>6, <2>2 DEF QueueInv, EntriesFit, HeadersFit
    <3>3. PICK t : t = LastHeader' /\ t.size = LastHeader.size /\ t.index = LastHeader.index
      BY <1>5, <2>2
    <3>4. \A j \in 1..Len(headers) : Aligned(headers'[j], t)
      BY <1>5, <3>1, <3>2, <3>3, AlignedLike
    <3>5. OneEach(t)
      BY <3>2, <3>3 DEF OneEach
    <3>6. OneEach(LastHeader)' /\ \A j \in 1..Len(headers) : Aligned(headers[j], LastHeader)'
      BY <3>3, <3>4, <3>5 DEF OneEach, Aligned, Divides, Multiple, Mod
    <3>7. headers' # <<>>
      BY <1>5, <3>1
    <3> QED
      BY <1>5, <3>2, <3>6, <3>7 DEF HeadersFit
  <2> QED
    BY <2>1, <2>2
<1>12. KeysFit'
  <2>1. KeysFit
    BY DEF QueueInv, EntriesFit
  <2>2. ASSUME NEW k \in Listed, k <= z
        PROVE  /\ k \in 0..EndNum' /\ TopNum' - LastHeader'.size < k
               /\ BlockOf(k)' # NoBlock
               /\ \A l \in k..TopNum' : entry'[EntryFor(l)'].key = Key(l)
    <3>1. /\ k \in 0..EndNum /\ TopNum - LastHeader.size < k
          /\ BlockOf(k) # NoBlock
          /\ \A l \in k..TopNum : entry[EntryFor(l)].key = Key(l)
      BY <2>1 DEF KeysFit
    <3>2. headers # <<>> /\ LastHeader.size \in Nat
      BY ListedIs, HeadersAre, HeaderIs
    <3>3. k \in 0..z /\ z - LastHeader.size < k
      BY <1>3, <2>2, <3>1, <3>2
    <3>4. ASSUME NEW l \in k..TopNum' PROVE entry'[EntryFor(l)'].key = Key(l)
      <4>1. l \in Int /\ l \in k..TopNum
        BY <1>3, <1>4, <3>1, <3>4
      <4>2. EntryFor(l) \in 1..Len(entry)
        BY <3>2, <4>1, EntryForIs
      <4> QED
        BY <1>5, <1>6, <3>1, <3>2, <4>1, <4>2
    <3>5. k \in 0..EndNum' /\ TopNum' - LastHeader'.size < k
      BY <1>3, <1>4, <1>5, <3>2, <3>3
    <3> QED
      BY <1>5, <2>2, <3>1, <3>4, <3>5
  <2>3. ASSUME NEW e \in 1..Len(entry'), entry'[e].value # NoBlock
        PROVE  \E k \in Listed : k <= z /\ e = EntryFor(k)'
    <3>1. e \in 1..Len(entry) /\ e \notin Taken /\ entry[e].value # NoBlock
      BY <1>6, <2>3
    <3>2. PICK k \in Listed : e = EntryFor(k)
      BY <2>1, <3>1 DEF KeysFit
    <3>3. k \in Int /\ headers # <<>>
      BY ListedIs
    <3>4. ~ (k > z)
      BY <1>5, <3>1, <3>2
    <3> QED
      BY <1>3, <1>5, <3>2, <3>3, <3>4
  <2>4. prod'.pc \notin {"block", "found"}
    BY <1>2
  <2> QED
    BY <1>5, <2>2, <2>3, <2>4 DEF KeysFit, Key
<1>13. Owned'
  <2>1. ASSUME NEW k \in Listed, k <= z
        PROVE  /\ BlockOf(k)' \in 1..Len(block) /\ BlockOf(k)' \notin free'
               /\ block[BlockOf(k)'].empty = Cardinality(DoneOf(k)')
    <3>1. BlockOf(k) \in 1..Len(block) /\ BlockOf(k) \notin free
          /\ block[BlockOf(k)].empty = Cardinality(DoneOf(k))
      BY DEF QueueInv, Owned
    <3>2. \A l \in z + 1 .. EndNum : BlockOf(k) # BlockOf(l)
      <4>1. SUFFICES ASSUME NEW l \in z + 1 .. EndNum, BlockOf(k) = BlockOf(l) PROVE FALSE
        OBVIOUS
      <4>2. k = l
        BY <1>5, <4>1 DEF QueueInv, Owned
      <4> QED
        BY <1>3, <2>1, <4>2
    <3> QED
      BY <1>5, <1>6, <1>7, <2>1, <3>1, <3>2
  <2>2. ASSUME NEW k \in Listed, NEW l \in Listed, k <= z, l <= z, BlockOf(k)' = BlockOf(l)'
        PROVE  k = l
    BY <1>5, <2>2 DEF QueueInv, Owned
  <2>3. ASSUME NEW x \in 1..Len(block)
        PROVE  x \in free' \/ (\E k \in Listed : k <= z /\ BlockOf(k)' = x)
                 \/ \E c \in Takers : cons[c].pc = "free" /\ cons[c].block = x
    <3>1. x \in free \/ (\E k \in Listed : BlockOf(k) = x)
            \/ \E c \in Takers : cons[c].pc = "free" /\ cons[c].block = x
      BY DEF QueueInv, Owned
    <3>2. ASSUME NEW k \in Listed, BlockOf(k) = x
          PROVE  x \in free' \/ (\E l \in Listed : l <= z /\ BlockOf(l)' = x)
      <4>1. CASE k <= z
        BY <1>5, <3>2, <4>1
      <4>2. CASE ~ (k <= z)
        <5>1. k \in z + 1 .. EndNum
          BY <1>3, <4>2, ListedIs
        <5> QED
          BY <1>6, <3>2, <5>1
      <4> QED
        BY <4>1, <4>2
    <3> QED
      BY <1>6, <3>1, <3>2
  <2> QED
    BY <1>1, <1>5, <2>1, <2>2, <2>3 DEF Owned
<1>14. ProducerFits'
  <2>1. LastNum >= Num(tailIndex) => tailBlock' = BlockOf(z)'
    <3>1. ASSUME LastNum >= Num(tailIndex) PROVE tailBlock' = BlockOf(z)'
      <4>1. Num(tailIndex) <= z
        BY <1>3, <3>1
      <4>2. z \in Listed
        BY <1>3, <4>1, AheadListed
      <4> QED
        BY <1>3, <1>5, <3>1, <4>2
    <3> QED
      BY <3>1
  <2>2. BlockOf(EndNum)' = BlockOf(z)' /\ Num(tailIndex)' = Num(tailIndex)
    BY <1>1, <1>3, <1>4 DEF BlockOf, EntryFor, At, Mod, Num
  <2> QED
    BY <1>2, <1>3, <1>4, <2>1, <2>2 DEF ProducerFits
<1>15. DataFits'
  <2>1. ASSUME NEW i \in 0..tailIndex - 1,
               i >= headIndex \/ (\E c \in Takers : i \in UntakenOf(cons[c]))
        PROVE  block[BlockOf(Num(i))'].data[i % BLOCK_SIZE] = i + 1
    <3>1. block[BlockOf(Num(i))].data[i % BLOCK_SIZE] = i + 1
      <4>1. i \in 0..FilledTo - 1
        <5>1. FilledTo \in Int /\ tailIndex \in Nat /\ tailIndex <= FilledTo
          BY EndsAre, ProducerIs DEF FilledTo, ProducerFits, QueueInv
        <5> QED
          BY <2>1, <5>1
      <4> QED
        BY <2>1, <4>1 DEF QueueInv, DataFits
    <3>2. PICK k \in Listed : k = Num(i)
      BY <2>1, NeededListed
    <3>3. k <= z
      <4>1. PICK t \in Int : t = tailIndex - 1 /\ i <= t /\ i \in Int
        BY <2>1, EndsAre
      <4> QED
        BY <1>3, <3>2, <4>1, NumOrder DEF LastNum
    <3>4. BlockOf(k)' = BlockOf(k)
      BY <1>5, <3>3
    <3>5. BlockOf(Num(i))' = BlockOf(k)'
      BY <3>2 DEF BlockOf, EntryFor, At, Mod, Num
    <3> QED
      BY <3>1, <3>2, <3>4, <3>5
  <2>2. \A c \in Takers : UntakenOf(cons[c])' = UntakenOf(cons[c])
    BY <1>1 DEF UntakenOf
  <2> QED
    BY <1>1, <1>4, <2>1, <2>2 DEF DataFits
<1>16. TakersSee'
  <2>1. ASSUME NEW d \in Takers PROVE (IndexSeen(cons[d]) /\ BlockSeen(cons[d]))'
    <3>1. IndexSeen(cons[d]) /\ BlockSeen(cons[d]) /\ cons'[d] = cons[d]
      BY <1>1, TakerIs
    <3>2. PICK r : r = cons[d]
      OBVIOUS
    <3>3. \A k \in SpanOf(r) : EntryFor(k)' = EntryFor(k)
      <4>1. \A k \in SpanOf(r) : k \in Listed /\ k \in Int
        BY <3>2, SpanListed
      <4>2. \A k \in Listed : headers # <<>>
        BY ListedIs
      <4> QED
        BY <1>5, <4>1, <4>2
    <3>4. /\ SpanOf(cons[d])' = SpanOf(r) /\ CurOf(cons[d])' = CurOf(r)
          /\ \A m : (Points(cons[d], m)' <=>
                      \A k \in SpanOf(r) : headers'[r.index].index[Mod(r.slot + (k - m), headers'[r.index].size)]
                                             = EntryFor(k)')
      <4>1. /\ SpanOf(cons[d])' = SpanOf(r) /\ CurOf(cons[d])' = CurOf(r)
        BY <3>1, <3>2 DEF SpanOf, RestOf, CurOf, Num
      <4> QED
        BY <3>1, <3>2, <4>1 DEF Points, Mod
    <3>5. ASSUME r.index \in 1..Len(headers), NEW m, Points(r, m) PROVE Points(cons[d], m)'
      <4>1. headers'[r.index].size = headers[r.index].size
            /\ headers'[r.index].index = headers[r.index].index
        BY <1>5, <3>5
      <4>2. \A k \in SpanOf(r) :
              headers[r.index].index[Mod(r.slot + (k - m), headers[r.index].size)] = EntryFor(k)
        BY <3>5 DEF Points
      <4> QED
        BY <3>3, <3>4, <4>1, <4>2
    <3>6. r.pc \in {"key", "take", "empty", "unlist", "free"} =>
            /\ r.index \in 1..Len(headers) /\ r.slot \in 0..headers[r.index].size - 1
            /\ headers'[r.index].size = headers[r.index].size
            /\ headers'[r.index].index = headers[r.index].index
      BY <1>5, <3>1, <3>2 DEF IndexSeen
    <3>7. ASSUME r.pc = "key"
          PROVE  \E m \in Int : entry'[headers'[r.index].index[r.slot]].key = Key(m) /\ Points(cons[d], m)'
      <4>1. PICK m \in Int :
              entry[headers[r.index].index[r.slot]].key = Key(m) /\ Points(r, m)
        BY <3>1, <3>2, <3>7 DEF IndexSeen
      <4>2. headers[r.index].index[r.slot] \in 1..Len(entry)
        BY <3>6, <3>7 DEF QueueInv, EntriesFit, HeadersFit
      <4>3. entry'[headers'[r.index].index[r.slot]].key = Key(m)
        BY <1>6, <3>6, <3>7, <4>1, <4>2
      <4>4. Points(cons[d], m)'
        BY <3>5, <3>6, <3>7, <4>1
      <4> QED
        BY <4>3, <4>4
    <3>8. r.pc \in {"take", "empty", "unlist", "free"} => Points(cons[d], CurOf(r))'
      BY <3>1, <3>2, <3>5, <3>6 DEF IndexSeen
    <3>9. IndexSeen(cons[d])'
      <4>1. \A m : Key(m)' = Key(m)
        BY DEF Key
      <4>2. Points(cons[d], CurOf(cons[d]))' <=> Points(cons[d], CurOf(r))'
        BY <3>4 DEF Points, Mod
      <4> QED
        BY <1>5, <3>1, <3>2, <3>6, <3>7, <3>8, <4>1, <4>2 DEF IndexSeen
    <3>10. BlockSeen(cons[d])'
      <4>1. PICK k : k = CurOf(cons[d])
        OBVIOUS
      <4>2. CurOf(cons[d])' = k
        BY <1>1, <4>1 DEF CurOf, Num
      <4>3. cons[d].pc \in {"empty", "unlist"} => cons[d].block = BlockOf(k)'
        <5>1. cons[d].pc \in {"empty", "unlist"} =>
                k \in Listed /\ k <= z /\ cons[d].block = BlockOf(k)
          BY <1>3, <3>1, <4>1, CurListed, CurBefore DEF BlockSeen, After
        <5> QED
          BY <1>5, <5>1
      <4>4. cons[d].pc \in {"unlist", "free"} => Spent(k)'
        BY <1>7, <3>1, <4>1 DEF BlockSeen
      <4>5. cons[d].pc = "free" =>
              /\ cons[d].block \in 1..Len(block) /\ cons[d].block \notin free'
              /\ \A l \in Listed' : BlockOf(l)' # cons[d].block
        <5>1. cons[d].pc = "free" =>
                /\ cons[d].block \in 1..Len(block) /\ cons[d].block \notin free
                /\ \A l \in Listed : BlockOf(l) # cons[d].block
          BY <3>1 DEF BlockSeen
        <5> QED
          BY <1>5, <1>6, <5>1
      <4>6. BlockOf(CurOf(cons[d]))' = BlockOf(k)' /\ (Spent(CurOf(cons[d]))' <=> Spent(k)')
        BY <4>2 DEF BlockOf, EntryFor, At, Mod, Spent, Indices, Done, Key
      <4> QED
        BY <1>1, <3>1, <4>3, <4>4, <4>5, <4>6 DEF BlockSeen
    <3> QED
      BY <3>9, <3>10
  <2> QED
    BY <2>1 DEF TakersSee
<1> QED
  BY <1>8, <1>9, <1>10, <1>11, <1>12, <1>13, <1>14, <1>15, <1>16 DEF QueueInv, EntriesFit

-----------------------------------------------------------------------------

LEMMA RewindIs ==
  ASSUME QueueInv, headers # <<>>, NEW n \in Int, Rewind(n)
  PROVE  headers' = Put(Turned(LastHeader, -n))
<1>1. LastHeader.tail \in Int
  BY HeadersAre, HeaderIs
<1>2. PICK t \in Int : t = LastHeader.tail
  BY <1>1
<1>3. t - n = t + (-n)
  OBVIOUS
<1>4. [LastHeader EXCEPT !.tail = (@ - n) % LastHeader.size] = Turned(LastHeader, -n)
  BY <1>2, <1>3 DEF Turned, Mod
<1> QED
  BY <1>4 DEF Rewind

LEMMA EnqueueGivesUpQueue ==
  ASSUME QueueInv, EnqueueGivesUp
  PROVE  QueueInv'
<1>1. /\ prod.pc = "block" /\ prod' = IdleProducer /\ Rewind(1) /\ free' = free
      /\ UNCHANGED <<counters, cons, tailIndex, block>> /\ tailBlock' = tailBlock
      /\ entry' = [entry EXCEPT ![TailEntry(0)].value = NoBlock]
  BY DEF EnqueueGivesUp, Tick, Unshared
<1>2. PICK top \in Int, z \in Int : top = TopNum /\ z = LastNum /\ -1 <= z /\ Num(tailIndex) \in Int
  BY EndsAre DEF LastNum
<1>3. EndNum = z /\ top = z + 1
  BY <1>1, <1>2 DEF EndNum, TopNum, LastNum
<1>4. Num(tailIndex) = z + 1 /\ tailBlock \in Nat
  BY <1>1, <1>2 DEF QueueInv, ProducerFits, QueueTypes, LastNum
<1>5. headers # <<>>
  BY <1>2, <1>3 DEF QueueInv, EntriesFit, HeadersFit
<1>6. PICK e \in 1..Len(entry) : e = EntryFor(top)
  BY <1>5, EntryForIs
<1>7. TailEntry(0) = e
  <2>1. top - top = 0
    OBVIOUS
  <2> QED
    BY <1>2, <1>6, <2>1, TailEntryIs
<1>8. Taken = {e}
  <2>1. z + 1 .. top = {top}
    BY <1>3
  <2> QED
    BY <1>2, <1>6, <2>1 DEF Taken
<1>9. GivesBack
  <2>1. entry \in Seq(EntryRecs) /\ entry[e] \in EntryRecs
    BY HeadersAre
  <2>2. PICK x : x = [entry[e] EXCEPT !.value = NoBlock]
    OBVIOUS
  <2>3. x \in EntryRecs /\ x.key = entry[e].key /\ x.value = NoBlock
    BY <2>1, <2>2 DEF EntryRecs, NoBlock
  <2>4. entry' = [entry EXCEPT ![e] = x]
    BY <1>1, <1>7, <2>2
  <2>5. /\ entry' \in Seq(EntryRecs) /\ Len(entry') = Len(entry) /\ entry'[e] = x
        /\ \A k \in 1..Len(entry) : k # e => entry'[k] = entry[k]
    BY <2>1, <2>3, <2>4, SeqPut
  <2>6. headers' = Put(Turned(LastHeader, z - top)) /\ top # z
    <3>1. headers' = Put(Turned(LastHeader, -1))
      BY <1>1, <1>5, RewindIs
    <3>2. z - top = -1 /\ top # z
      BY <1>3
    <3> QED
      BY <3>1, <3>2
  <2>7. {BlockOf(k) : k \in z + 1 .. EndNum} = {}
    <3>1. z + 1 .. EndNum = {}
      BY <1>3
    <3> QED
      BY <3>1
  <2> QED
    BY <1>1, <1>2, <1>8, <2>3, <2>5, <2>6, <2>7 DEF GivesBack
<1>10. ~ (LastNum >= Num(tailIndex))
  BY <1>2, <1>4
<1> QED
  BY <1>1, <1>4, <1>9, <1>10, BlocksGivenBack

LEMMA BulkGivesUpQueue ==
  ASSUME QueueInv, BulkGivesUp
  PROVE  QueueInv'
<1>1. PICK m, n :
        /\ m = (IF prod.pc = "found" THEN 1 ELSE 0)
        /\ n = (prod.base - Base(prod.i - 1)) \div BLOCK_SIZE
  OBVIOUS
<1>2. /\ prod.pc \in {"find", "found"} /\ prod' = IdleProducer /\ tailBlock' = prod.start
      /\ UNCHANGED <<counters, cons, tailIndex, block>>
      /\ free' = free \cup {entry[e].value : e \in Allocated(m, n)}
      /\ entry' = [e \in DOMAIN entry |->
                     IF e \in Allocated(m, n) \/ (m = 1 /\ e = TailEntry(0))
                     THEN [entry[e] EXCEPT !.value = NoBlock] ELSE entry[e]]
      /\ IF n + m = 0 THEN UNCHANGED headers ELSE Rewind(n + m)
  BY <1>1 DEF BulkGivesUp, Unshared
<1>3. PICK top \in Int, end \in Int, z \in Int :
        /\ top = TopNum /\ end = EndNum /\ z = LastNum /\ -1 <= z /\ z <= end
        /\ Num(tailIndex) \in Int /\ Num(tailIndex) <= z + 1 /\ z <= Num(tailIndex)
  BY EndsAre DEF LastNum
<1>4. m \in Int /\ top = end + m /\ 0 <= m /\ (m = 1 \/ m = 0)
  BY <1>1, <1>2, <1>3 DEF TopNum
<1>5. n = end - z
  <2>1. prod.base = Key(end) /\ prod.i = tailIndex
    BY <1>2, <1>3 DEF QueueInv, ProducerFits
  <2>2. PICK t \in Int : t = tailIndex - 1
    BY EndsAre
  <2>3. Base(t) = Key(z)
    BY <1>3, <2>2, NumType DEF LastNum
  <2> QED
    BY <1>1, <1>3, <2>1, <2>2, <2>3, BlocksBetween
<1>6. prod.start \in Nat
  BY DEF QueueInv, QueueTypes, ProducerCalls
<1>7. top # z => headers # <<>>
  BY <1>3, <1>4 DEF QueueInv, EntriesFit, HeadersFit
<1>8. \A k \in Int : TailEntry(top - k) = EntryFor(k)
  BY <1>3, TailEntryIs
<1>9. Allocated(m, n) = {EntryFor(k) : k \in z + 1 .. end}
  <2>1. ASSUME NEW j \in m .. m + n - 1
        PROVE  \E k \in z + 1 .. end : TailEntry(j) = EntryFor(k)
    <3>1. j \in Int /\ m <= j /\ j <= m + (end - z) - 1
      BY <1>4, <1>5
    <3>2. PICK k \in Int : k = top - j
      BY <3>1
    <3>3. k \in z + 1 .. end /\ top - k = j
      BY <1>4, <3>1, <3>2
    <3> QED
      BY <1>8, <3>2, <3>3
  <2>2. ASSUME NEW k \in z + 1 .. end
        PROVE  \E j \in m .. m + n - 1 : TailEntry(j) = EntryFor(k)
    <3>1. k \in Int /\ z + 1 <= k /\ k <= end
      OBVIOUS
    <3>2. PICK j \in Int : j = top - k
      BY <3>1
    <3>3. m <= j /\ j <= m + (end - z) - 1
      BY <1>4, <3>1, <3>2
    <3>4. j \in m .. m + n - 1
      BY <1>4, <1>5, <3>3
    <3> QED
      BY <1>8, <3>1, <3>2, <3>4
  <2> QED
    BY <2>1, <2>2 DEF Allocated
<1>10. ASSUME NEW e
       PROVE  e \in Taken <=> e \in Allocated(m, n) \/ (m = 1 /\ e = TailEntry(0))
  <2>1. Taken = {EntryFor(k) : k \in z + 1 .. top}
    BY <1>3 DEF Taken
  <2>2. CASE m = 0
    BY <1>4, <1>9, <2>1, <2>2
  <2>3. CASE m = 1
    <3>1. top - top = 0 /\ top = end + 1
      BY <1>4, <2>3
    <3>2. TailEntry(0) = EntryFor(top)
      BY <1>8, <3>1
    <3>3. z + 1 .. top = (z + 1 .. end) \cup {top}
      BY <1>3, <3>1
    <3> QED
      BY <1>9, <2>1, <2>3, <3>2, <3>3
  <2> QED
    BY <1>4, <2>2, <2>3
<1>11. /\ entry' \in Seq(EntryRecs) /\ Len(entry') = Len(entry)
       /\ \A e \in 1..Len(entry) :
            /\ entry'[e].key = entry[e].key
            /\ e \in Taken => entry'[e].value = NoBlock
            /\ e \notin Taken => entry'[e].value = entry[e].value
  <2>1. entry \in Seq(EntryRecs) /\ Len(entry) \in Nat /\ DOMAIN entry = 1..Len(entry)
        /\ \A e \in 1..Len(entry) : entry[e] \in EntryRecs
    BY HeadersAre
  <2>2. entry' = [e \in 1..Len(entry) |->
                    IF e \in Taken THEN [entry[e] EXCEPT !.value = NoBlock] ELSE entry[e]]
    BY <1>2, <1>10, <2>1
  <2>3. \A e \in 1..Len(entry) :
          /\ [entry[e] EXCEPT !.value = NoBlock] \in EntryRecs
          /\ [entry[e] EXCEPT !.value = NoBlock].key = entry[e].key
          /\ [entry[e] EXCEPT !.value = NoBlock].value = NoBlock
    BY <2>1 DEF EntryRecs, NoBlock
  <2>4. entry' \in [1..Len(entry) -> EntryRecs]
    BY <2>1, <2>2, <2>3
  <2>5. entry' \in Seq(EntryRecs) /\ Len(entry') = Len(entry)
    BY <2>1, <2>4
  <2> QED
    BY <2>2, <2>3, <2>5
<1>12. headers' = IF top = z THEN headers ELSE Put(Turned(LastHeader, z - top))
  <2>1. n + m = top - z
    BY <1>4, <1>5
  <2>2. CASE top = z
    BY <1>2, <2>1, <2>2
  <2>3. CASE top # z
    <3>1. PICK d \in Int : d = top - z /\ d # 0 /\ -d = z - top
      BY <2>3
    <3>2. Rewind(d)
      BY <1>2, <2>1, <3>1
    <3>3. headers' = Put(Turned(LastHeader, -d))
      BY <1>7, <2>3, <3>2, RewindIs
    <3> QED
      BY <2>3, <3>1, <3>3
  <2> QED
    BY <2>2, <2>3
<1>13. {entry[e].value : e \in Allocated(m, n)} = {BlockOf(k) : k \in z + 1 .. end}
  BY <1>9 DEF BlockOf
<1>14. GivesBack
  BY <1>2, <1>3, <1>11, <1>12, <1>13 DEF GivesBack
<1>15. LastNum >= Num(tailIndex) => tailBlock' = BlockOf(LastNum)
  <2>1. ASSUME z >= Num(tailIndex) PROVE tailBlock' = BlockOf(z)
    <3>1. z = Num(tailIndex)
      BY <1>3, <2>1
    <3>2. prod.start = BlockOf(Num(tailIndex))
      BY <1>2, <1>3, <3>1 DEF QueueInv, ProducerFits, LastNum
    <3> QED
      BY <1>2, <3>1, <3>2
  <2> QED
    BY <1>3, <2>1
<1> QED
  BY <1>2, <1>6, <1>14, <1>15, BlocksGivenBack

-----------------------------------------------------------------------------
(* The invariant of the queue of a producer without a token.               *)

LEMMA InitClaims ==
  ASSUME QueueInit
  PROVE  ClaimsInv /\ \A c \in Takers : cons[c] = IdleConsumer
<1>1. /\ tailIndex = 0 /\ headIndex = 0 /\ dequeueOptimisticCount = 0 /\ dequeueOvercommit = 0
      /\ \A c \in Takers : cons[c] = IdleConsumer
      /\ cons \in [Takers -> TakerCalls]
  BY IdleTaker DEF QueueInit
<1>2. IdleConsumer.pc = "idle" /\ CallFits(IdleConsumer)
  BY DEF IdleConsumer, CallFits
<1>3. SumHeld = 0 /\ SumGranted = 0
  <2>1. /\ \A c \in Takers : [d \in Takers |-> Held(cons[d])][c] = 0
        /\ \A c \in Takers : [d \in Takers |-> Granted(cons[d])][c] = 0
    BY <1>1, <1>2 DEF Held, Granted
  <2>2. SumFunctionOnSet([d \in Takers |-> Held(cons[d])], Takers) = 0
    BY <2>1, TakersFinite, SumOfZeros
  <2>3. SumFunctionOnSet([d \in Takers |-> Granted(cons[d])], Takers) = 0
    BY <2>1, TakersFinite, SumOfZeros
  <2> QED
    BY <2>2, <2>3 DEF SumHeld, SumGranted
<1>4. ClaimTypes /\ CountsMatch /\ GrantsFit
  BY <1>1, <1>3 DEF ClaimTypes, CountsMatch, GrantsFit
<1>5. ReservedApart /\ \A c \in Takers : cons[c].pc # "reload" /\ CallFits(cons[c])
  BY <1>1, <1>2 DEF ReservedApart
<1> QED
  BY <1>1, <1>4, <1>5 DEF ClaimsInv

\* The index a queue begins with.
LEMMA FirstHeader ==
  ASSUME NEW h, h = [size |-> IndexSize, tail |-> IndexSize - 1,
                     index |-> [j \in 0..IndexSize - 1 |-> j + 1]]
  PROVE  /\ h \in HeaderRecs /\ h.size = IndexSize /\ IndexSize \in Nat /\ OneEach(h)
         /\ \A p \in 0..h.size - 1 : h.index[p] \in 1..IndexSize
<1>1. IndexSize \in Nat \ {0}
  BY SubQueueFits DEF SubQueueAssumption
<1>2. PICK n \in Nat \ {0} : n = IndexSize
  BY <1>1
<1>3. n - 1 \in 0..n - 1 /\ [j \in 0..n - 1 |-> j + 1] \in [0..n - 1 -> Nat]
  OBVIOUS
<1>4. h \in [size : {n}, tail : 0..n - 1, index : [0..n - 1 -> Nat]]
  BY <1>2, <1>3
<1>5. \A p \in 0..n - 1 : h.index[p] = p + 1
  BY <1>2
<1> QED
  BY <1>2, <1>4, <1>5 DEF HeaderRecs, OneEach

LEMMA InitQueue ==
  ASSUME ImplicitInit
  PROVE  QueueInv
<1>1. /\ QueueInit /\ free = {}
      /\ \/ /\ entry = NewEntries(IndexSize)
            /\ headers = <<[size |-> IndexSize, tail |-> IndexSize - 1,
                            index |-> [j \in 0..IndexSize - 1 |-> j + 1]]>>
         \/ entry = <<>> /\ headers = <<>>
  BY DEF ImplicitInit
<1>2. ClaimsInv /\ \A c \in Takers : cons[c] = IdleConsumer
  BY <1>1, InitClaims
<1>3. /\ tailIndex = 0 /\ headIndex = 0 /\ block = <<>> /\ tailBlock = 0 /\ prod = IdleProducer
      /\ prod \in ProducerCalls /\ prod.pc = "idle"
  BY <1>1 DEF QueueInit, IdleProducer, ProducerCalls
<1>4. /\ IdleConsumer.pc = "idle" /\ IdleConsumer.got = <<>> /\ Len(IdleConsumer.got) = 0
      /\ RestOf(IdleConsumer) = {} /\ RangeFits(IdleConsumer) /\ GotRight(IdleConsumer)
      /\ IndexSeen(IdleConsumer) /\ BlockSeen(IdleConsumer)
  BY DEF IdleConsumer, RestOf, UntakenOf, After, RangeFits, GotRight, IndexSeen, BlockSeen
<1>5. Num(tailIndex - 1) = -1 /\ Num(tailIndex) = 0
  <2>1. Key(-1) = -BLOCK_SIZE /\ Key(0) = 0
    BY SizeFacts DEF Key
  <2>2. Num(-1) = -1 /\ Num(0) = 0
    BY <2>1, NumIs, SizeFacts
  <2>3. tailIndex - 1 = -1
    BY <1>3
  <2> QED
    BY <1>3, <2>2, <2>3
<1>6. EndNum = -1 /\ TopNum = -1 /\ FilledTo = 0
  BY <1>3, <1>5 DEF EndNum, TopNum, FilledTo
<1>7. Listed = {}
  <2>1. Unlisting = {}
    BY <1>2, <1>4 DEF Unlisting
  <2>2. 0..EndNum = {}
    BY <1>6
  <2> QED
    BY <2>1, <2>2 DEF Listed
<1>8. /\ entry \in Seq(EntryRecs) /\ headers \in Seq(HeaderRecs)
      /\ \A e \in 1..Len(entry) : entry[e].value = NoBlock
      /\ HeadersFit
  <2>1. CASE /\ entry = NewEntries(IndexSize)
             /\ headers = <<[size |-> IndexSize, tail |-> IndexSize - 1,
                             index |-> [j \in 0..IndexSize - 1 |-> j + 1]]>>
    <3>1. PICK h : h = [size |-> IndexSize, tail |-> IndexSize - 1,
                        index |-> [j \in 0..IndexSize - 1 |-> j + 1]]
      OBVIOUS
    <3>2. /\ h \in HeaderRecs /\ h.size = IndexSize /\ IndexSize \in Nat /\ OneEach(h)
          /\ \A p \in 0..h.size - 1 : h.index[p] \in 1..IndexSize
      BY <3>1, FirstHeader
    <3>3. Aligned(h, h)
      BY <3>2, AlignedItself
    <3>4. headers = <<h>> /\ Len(headers) = 1 /\ headers[1] = h /\ LastHeader = h
      BY <2>1, <3>1 DEF LastHeader
    <3>5. [key |-> INVALID_BLOCK_BASE, value |-> NoBlock] \in EntryRecs
      BY DEF EntryRecs, INVALID_BLOCK_BASE, NoBlock
    <3>6. /\ entry \in Seq(EntryRecs) /\ Len(entry) = IndexSize
          /\ \A e \in 1..IndexSize : entry[e].value = NoBlock
      <4>1. entry = [j \in 1..IndexSize |-> [key |-> INVALID_BLOCK_BASE, value |-> NoBlock]]
        BY <2>1 DEF NewEntries
      <4>2. entry \in [1..IndexSize -> EntryRecs]
        BY <3>5, <4>1
      <4>3. entry \in Seq(EntryRecs) /\ Len(entry) = IndexSize
        BY <3>2, <4>2
      <4> QED
        BY <4>1, <4>3
    <3>7. HeadersFit
      BY <3>2, <3>3, <3>4, <3>6 DEF HeadersFit
    <3>8. headers \in Seq(HeaderRecs)
      BY <3>2, <3>4
    <3> QED
      BY <3>6, <3>7, <3>8
  <2>2. CASE entry = <<>> /\ headers = <<>>
    <3>1. entry \in Seq(EntryRecs) /\ Len(entry) = 0 /\ headers \in Seq(HeaderRecs) /\ Len(headers) = 0
      BY <2>2
    <3> QED
      BY <1>6, <2>2, <3>1 DEF HeadersFit
  <2> QED
    BY <1>1, <2>1, <2>2
<1>9. QueueTypes
  BY <1>1, <1>3, <1>8 DEF QueueTypes
<1>10. TakersFit
  BY <1>2, <1>4 DEF TakersFit, TakersApart
<1>11. KeysFit /\ Owned
  <2>1. Len(block) = 0
    BY <1>3
  <2> QED
    BY <1>3, <1>7, <1>8, <2>1 DEF KeysFit, Owned
<1>12. ProducerFits
  <2>1. ~ (EndNum >= Num(tailIndex))
    BY <1>5, <1>6
  <2> QED
    BY <1>3, <2>1 DEF ProducerFits
<1>13. DataFits
  BY <1>6 DEF DataFits
<1>14. TakersSee
  BY <1>2, <1>4 DEF TakersSee
<1> QED
  BY <1>2, <1>8, <1>9, <1>10, <1>11, <1>12, <1>13, <1>14 DEF QueueInv, EntriesFit

LEMMA StutterQueue ==
  ASSUME QueueInv, UNCHANGED implicitVars
  PROVE  QueueInv'
<1>1. UNCHANGED <<counters, tailIndex, cons, blocks, entry, free>>
  BY DEF implicitVars
<1>2. /\ UNCHANGED <<counters, cons, headers, entry, free, tailBlock>>
      /\ tailIndex' = tailIndex /\ headIndex' = headIndex /\ prod' = prod /\ block' = block
      /\ UNCHANGED <<tailIndex, prod, headers>>
  BY <1>1 DEF blocks, counters
<1>3. ClaimsInv'
  <2>1. tailIndex' \in Nat /\ tailIndex' >= tailIndex /\ UNCHANGED <<counters, cons>>
    BY <1>2, EndsAre DEF counters
  <2> QED
    BY <2>1, MoreClaims DEF QueueInv
<1>4. /\ EndNum' = EndNum /\ TopNum' = TopNum /\ FilledTo' = FilledTo /\ LastHeader' = LastHeader
      /\ \A k : EntryFor(k)' = EntryFor(k)
  BY <1>2, EndsKeep
<1>5. \A k : BlockOf(k)' = BlockOf(k)
  BY <1>2, <1>4 DEF BlockOf
<1>6. Listed' = Listed /\ \A k : DoneOf(k)' = DoneOf(k) /\ (Spent(k)' <=> Spent(k))
  BY <1>2, <1>4, DoneSame DEF Listed
<1>7. QueueTypes' /\ TakersFit'
  BY <1>2 DEF QueueInv, QueueTypes, TakersFit, TakersApart, RangeFits, GotRight, RestOf, CurOf, Num, Key
<1>8. HeadersFit'
  BY <1>2, <1>4 DEF QueueInv, EntriesFit, HeadersFit, Aligned, OneEach
<1>9. KeysFit'
  BY <1>2, <1>4, <1>5, <1>6 DEF QueueInv, EntriesFit, KeysFit, Key
<1>10. Owned'
  BY <1>2, <1>5, <1>6 DEF QueueInv, Owned
<1>11. \A x : Linked(x)' <=> Linked(x)
  BY <1>2, <1>4, <1>5 DEF Linked
<1>12. ProducerFits'
  <2>1. BlockOf(EndNum)' = BlockOf(EndNum)
    BY <1>2, <1>4 DEF BlockOf, EntryFor, At, Mod
  <2> QED
    BY <1>2, <1>4, <1>5, <1>11, <2>1, ZenonT(30) DEF QueueInv, ProducerFits, Num, Key, BlockOf, EntryFor, At, Mod, Linked
<1>13. DataFits'
  BY <1>2, <1>4, <1>5 DEF QueueInv, DataFits, UntakenOf, Num, BlockOf, EntryFor, At, Mod
<1>14. TakersSee'
  <2>1. ASSUME NEW c \in Takers PROVE IndexSeen(cons[c])' /\ BlockSeen(cons[c])'
    <3>1. IndexSeen(cons[c]) /\ BlockSeen(cons[c])
      BY TakerIs
    <3>2. \A y : Points(cons[c], y)' <=> Points(cons[c], y)
      BY <1>2, <1>4 DEF Points, SpanOf, RestOf, CurOf, Num, Mod
    <3>3. IndexSeen(cons[c])'
      BY <1>2, <3>1, <3>2 DEF IndexSeen, CurOf, Num, Key
    <3>4. PICK n : n = CurOf(cons[c])
      OBVIOUS
    <3>5. CurOf(cons[c])' = n
      BY <1>2, <3>4 DEF CurOf, Num
    <3>6. BlockOf(CurOf(cons[c]))' = BlockOf(n) /\ (Spent(CurOf(cons[c]))' <=> Spent(n))
      BY <1>2, <1>4, <3>4, SMTT(30) DEF BlockOf, EntryFor, At, Mod, CurOf, Num, Spent, Done, Indices, Key, RestOf
    <3> QED
      BY <1>2, <1>5, <1>6, <3>1, <3>3, <3>4, <3>6 DEF BlockSeen
  <2> QED
    BY <1>2, <2>1 DEF TakersSee
<1> QED
  BY <1>3, <1>7, <1>8, <1>9, <1>10, <1>12, <1>13, <1>14 DEF QueueInv, EntriesFit

LEMMA NextQueue ==
  ASSUME QueueInv, [ImplicitNext]_implicitVars
  PROVE  QueueInv'
<1>1. CASE ImplicitEnqueue
  BY <1>1, EnqueueInTailQueue, EnqueueEntryQueue, EnqueueBlockQueue, EnqueueGivesUpQueue DEF ImplicitEnqueue
<1>2. CASE ImplicitEnqueueBulk
  BY <1>2, BulkBeginQueue, BulkIndexQueue, BulkBlockQueue, BulkGivesUpQueue, BulkFoundQueue
     DEF ImplicitEnqueueBulk
<1>3. CASE (Fill \/ Publish) /\ UNCHANGED <<entry, free>>
  BY <1>3, FillQueue, PublishQueue
<1>4. CASE \E c \in Takers : ImplicitConsuming(c)
  BY <1>4, ConsumerQueue
<1>5. CASE UNCHANGED implicitVars
  BY <1>5, StutterQueue
<1> QED
  BY <1>1, <1>2, <1>3, <1>4, <1>5 DEF ImplicitNext, ImplicitProducing

LEMMA ImplicitInvariant == ImplicitSpec => []QueueInv
BY InitQueue, NextQueue, PTL DEF ImplicitSpec

-----------------------------------------------------------------------------
(* What it gives.                                                          *)

\* The counters by which consumers share out the elements of a queue without a
\* lock: nothing is claimed that was not enqueued, and what is reserved in vain
\* is given back.
THEOREM CountersAgree == ImplicitSpec => []CountsAgree
<1>1. ASSUME QueueInv PROVE CountsAgree
  <2>1. headIndex <= tailIndex /\ ClaimTypes /\ CountsMatch
    BY <1>1, EndsAre DEF QueueInv, ClaimsInv
  <2>2. ASSUME \A c \in Takers : cons[c].pc = "idle" PROVE SumHeld = 0
    <3>1. \A c \in Takers : [d \in Takers |-> Held(cons[d])][c] = 0
      BY <2>2 DEF Held
    <3>2. SumFunctionOnSet([d \in Takers |-> Held(cons[d])], Takers) = 0
      BY <3>1, TakersFinite, SumOfZeros
    <3> QED
      BY <3>2 DEF SumHeld
  <2> QED
    BY <2>1, <2>2 DEF CountsAgree, CountsMatch, ClaimTypes
<1> QED
  BY <1>1, ImplicitInvariant, PTL

\* Each consumer gets the elements of the indices it claimed, however their
\* blocks were found and whatever was reused meanwhile.
THEOREM ElementsAreRight == ImplicitSpec => []RightElements
<1>1. ASSUME QueueInv PROVE RightElements
  <2>1. ASSUME NEW c \in Takers, NEW k \in DOMAIN cons[c].got
        PROVE  cons[c].got[k] = cons[c].at - Len(cons[c].got) + k
    <3>1. cons[c].got \in Seq(Nat) /\ GotRight(cons[c])
      BY <1>1, TakerIs, RangeIs DEF QueueInv, ClaimsInv
    <3>2. k \in 1..Len(cons[c].got)
      BY <3>1
    <3> QED
      BY <3>1, <3>2 DEF GotRight
  <2> QED
    BY <2>1 DEF RightElements
<1> QED
  BY <1>1, ImplicitInvariant, PTL

LEMMA RoomInBlock ==
  ASSUME QueueInv, NEW c \in Takers, cons[c].pc = "empty"
  PROVE  block[cons[c].block].empty + Len(cons[c].got) <= BLOCK_SIZE
<1>1. PICK a \in Nat, t \in Nat, z \in Nat, n \in Int :
        /\ a = cons[c].at - Len(cons[c].got) /\ t = cons[c].at /\ z = cons[c].end
        /\ n = CurOf(cons[c]) /\ a < t /\ t <= z
        /\ \A i \in a..t - 1 : Num(i) = n
        /\ RestOf(cons[c]) = a..z - 1 /\ Len(cons[c].got) = t - a
  BY EmptyingIs, SMTT(30)
<1>2. n \in Listed /\ cons[c].block = BlockOf(n)
  BY <1>1, CurListed, TakerIs DEF BlockSeen
<1>3. block[BlockOf(n)].empty = Cardinality(DoneOf(n))
  BY <1>2 DEF QueueInv, Owned
<1>4. PICK u \in Int : u = t - 1
  OBVIOUS
<1>5. IsFiniteSet(a..u) /\ Cardinality(a..u) = t - a
  <2>1. a \in Int /\ ~ (a > u) /\ u - a + 1 = t - a
    BY <1>1, <1>4
  <2> QED
    BY <2>1, FS_Interval
<1>6. DoneOf(n) \in SUBSET Indices(n) /\ a..u \in SUBSET Indices(n)
  <2>1. \A i \in a..u : i \in Indices(n)
    BY <1>1, <1>4, IndicesAre
  <2> QED
    BY <2>1 DEF DoneOf
<1>7. DoneOf(n) \cap (a..u) = {}
  <2>1. t - 1 <= z - 1
    BY <1>1
  <2>2. a..u \subseteq a..z - 1
    BY <1>4, <2>1
  <2>3. a..u \subseteq RestOf(cons[c])
    BY <1>1, <2>2
  <2> QED
    BY <2>3, RestListed DEF DoneOf
<1>8. IsFiniteSet(DoneOf(n)) /\ Cardinality(DoneOf(n)) \in Nat
  BY <1>6, SomeOfIs
<1>9. Cardinality(DoneOf(n) \cup (a..u)) = Cardinality(DoneOf(n)) + (t - a)
  <2>1. Cardinality({}) = 0
    BY FS_EmptySet
  <2>2. Cardinality(DoneOf(n) \cup (a..u))
          = Cardinality(DoneOf(n)) + Cardinality(a..u) - Cardinality(DoneOf(n) \cap (a..u))
    BY <1>5, <1>8, FS_Union
  <2>3. PICK x \in Nat, y \in Int : x = Cardinality(DoneOf(n)) /\ y = t - a
    BY <1>8
  <2>4. Cardinality(DoneOf(n) \cup (a..u)) = x + y - 0
    BY <1>5, <1>7, <2>1, <2>2, <2>3
  <2> QED
    BY <2>3, <2>4
<1>10. Cardinality(DoneOf(n) \cup (a..u)) <= BLOCK_SIZE
  <2>1. DoneOf(n) \cup (a..u) \in SUBSET Indices(n)
    BY <1>6
  <2> QED
    BY <2>1, SomeOfIs
<1> QED
  BY <1>1, <1>2, <1>3, <1>9, <1>10

\* The asserts of get_block_index_index_for_index and set_many_empty: a consumer
\* finds the entry of the block it claimed in, with a block, and a block is not
\* emptied beyond its size.
THEOREM AssertsOfImplicit == ImplicitSpec => []EntryAsserts
<1>1. ASSUME QueueInv PROVE EntryAsserts
  <2>1. ASSUME NEW c \in Takers, cons[c].pc = "take"
        PROVE  entry[EntryOf(c)].key = Base(cons[c].at) /\ entry[EntryOf(c)].value # NoBlock
    <3>1. PICK n \in Int, a \in Int : n = CurOf(cons[c]) /\ a = cons[c].at /\ n = Num(a)
      BY <1>1, <2>1, WantedIs
    <3>2. EntryOf(c) = EntryFor(n) /\ n \in Listed
      BY <1>1, <2>1, <3>1, EntryOfIs
    <3>3. entry[EntryFor(n)].key = Key(n) /\ BlockOf(n) # NoBlock
      BY <1>1, <3>2, BlockIs
    <3>4. Key(n) = Base(a)
      BY <3>1, NumType
    <3> QED
      BY <3>1, <3>2, <3>3, <3>4 DEF BlockOf
  <2> QED
    BY <1>1, <2>1, RoomInBlock DEF EntryAsserts
<1> QED
  BY <1>1, ImplicitInvariant, PTL

-----------------------------------------------------------------------------
(* Each block is accounted for.                                            *)

\* One that has claimed nothing has no indices.
Blank(r)   == r.pc \in Before => r.at = 0 /\ r.end = 0
TakersBlank == \A c \in Takers : Blank(cons[c])

LEMMA BlankMove ==
  ASSUME QueueInv, TakersBlank, NEW c \in Takers, NEW r, Blank(r), NEW from, Does(c, from, r)
  PROVE  TakersBlank'
<1>1. cons \in [Takers -> TakerCalls] /\ cons' = [cons EXCEPT ![c] = r]
  BY DEF QueueInv, ClaimsInv, ClaimTypes, Does
<1>2. \A d \in Takers : cons'[d] = IF d = c THEN r ELSE cons[d]
  BY <1>1
<1> QED
  BY <1>2 DEF TakersBlank, Blank

LEMMA BlankStep ==
  ASSUME QueueInv, TakersBlank, [ImplicitNext]_implicitVars
  PROVE  TakersBlank'
<1>1. Blank(IdleConsumer)
  BY DEF Blank, IdleConsumer
<1>2. ASSUME NEW c \in Takers, ImplicitConsuming(c) PROVE TakersBlank'
  <2>1. cons[c] \in TakerCalls /\ Blank(cons[c])
    BY <1>2, TakerIs DEF TakersBlank
  <2>2. Blank(NextBlock(c))
    <3>1. CASE cons[c].at < cons[c].end
      BY <2>1, <3>1 DEF NextBlock, Blank, Before, TakerCalls
    <3> QED
      BY <1>1, <3>1 DEF NextBlock
  <2>3. CASE \E max \in Asks : LoadTail(c, max)
    <3>1. PICK max \in Asks :
            Does(c, "idle", [IdleConsumer EXCEPT !.pc = "overcommit", !.n = max, !.tail = tailIndex])
      BY <2>3 DEF LoadTail
    <3>2. Blank([IdleConsumer EXCEPT !.pc = "overcommit", !.n = max, !.tail = tailIndex])
      BY DEF Blank, IdleConsumer
    <3> QED
      BY <3>1, <3>2, BlankMove
  <2>4. CASE LoadOvercommit(c)
    <3>1. PICK r : r = [cons[c] EXCEPT !.pc = "check", !.over = dequeueOvercommit]
      OBVIOUS
    <3>2. Does(c, "overcommit", r)
      BY <2>4, <3>1 DEF LoadOvercommit
    <3>3. Blank(r)
      BY <2>1, <3>1, <3>2 DEF Does, Blank, Before, TakerCalls
    <3> QED
      BY <3>2, <3>3, BlankMove
  <2>5. CASE Check(c)
    <3>1. PICK d, n : d = cons[c].tail - (dequeueOptimisticCount - cons[c].over) /\ n = Min({d, cons[c].n})
      OBVIOUS
    <3>2. PICK r : r = IF d > 0 THEN [cons[c] EXCEPT !.pc = "reserve", !.n = n, !.tail = 0]
                       ELSE IdleConsumer
      OBVIOUS
    <3>3. Does(c, "check", r)
      BY <2>5, <3>1, <3>2 DEF Check
    <3>4. Blank(r)
      BY <1>1, <2>1, <3>2, <3>3 DEF Does, Blank, Before, TakerCalls
    <3> QED
      BY <3>3, <3>4, BlankMove
  <2>6. CASE Reserve(c)
    <3>1. PICK r : r = [cons[c] EXCEPT !.pc = "reload", !.mine = dequeueOptimisticCount]
      OBVIOUS
    <3>2. Does(c, "reserve", r)
      BY <2>6, <3>1 DEF Reserve
    <3>3. Blank(r)
      BY <2>1, <3>1, <3>2 DEF Does, Blank, Before, TakerCalls
    <3> QED
      BY <3>2, <3>3, BlankMove
  <2>7. CASE Reload(c)
    <3>1. PICK n, back : n = Max({There(c), 0}) /\ back = cons[c].n - n
      OBVIOUS
    <3>2. PICK p : p = IF back > 0 THEN "give" ELSE "claim"
      OBVIOUS
    <3>3. PICK r : r = [cons[c] EXCEPT !.pc = p, !.n = n, !.back = back, !.over = 0, !.mine = 0]
      OBVIOUS
    <3>4. Does(c, "reload", r)
      BY <2>7, <3>1, <3>2, <3>3 DEF Reload
    <3>5. r.at = cons[c].at /\ r.end = cons[c].end /\ cons[c].pc \in Before
      BY <2>1, <3>3, <3>4 DEF Does, Before, TakerCalls
    <3>6. Blank(r)
      BY <2>1, <3>5 DEF Blank
    <3> QED
      BY <3>4, <3>6, BlankMove
  <2>8. CASE GiveBack(c)
    <3>1. PICK r : r = IF cons[c].n > 0 THEN [cons[c] EXCEPT !.pc = "claim", !.back = 0]
                       ELSE IdleConsumer
      OBVIOUS
    <3>2. Does(c, "give", r)
      BY <2>8, <3>1 DEF GiveBack
    <3>3. Blank(r)
      BY <1>1, <2>1, <3>1, <3>2 DEF Does, Blank, Before, TakerCalls
    <3> QED
      BY <3>2, <3>3, BlankMove
  <2>9. CASE Claim(c)
    <3>1. PICK r : r = [cons[c] EXCEPT !.pc = "locate", !.n = 0,
                                       !.at = headIndex, !.end = headIndex + cons[c].n]
      OBVIOUS
    <3>2. Does(c, "claim", r)
      BY <2>9, <3>1 DEF Claim
    <3>3. Blank(r)
      BY <2>1, <3>1 DEF Blank, Before, TakerCalls
    <3> QED
      BY <3>2, <3>3, BlankMove
  <2>10. CASE LoadTailEntry(c)
    <3>1. PICK r : r = [cons[c] EXCEPT !.pc = "key", !.index = Len(headers), !.slot = LastHeader.tail]
      OBVIOUS
    <3>2. Does(c, "locate", r)
      BY <2>10, <3>1 DEF LoadTailEntry
    <3>3. Blank(r)
      BY <2>1, <3>1 DEF Blank, Before, TakerCalls
    <3> QED
      BY <3>2, <3>3, BlankMove
  <2>11. CASE LoadKey(c)
    <3>1. \E s : Does(c, "key", [cons[c] EXCEPT !.pc = "take", !.slot = s])
      BY <2>11 DEF LoadKey
    <3>2. PICK s : Does(c, "key", [cons[c] EXCEPT !.pc = "take", !.slot = s])
      BY <3>1
    <3>3. Blank([cons[c] EXCEPT !.pc = "take", !.slot = s])
      BY <2>1 DEF Blank, Before, TakerCalls
    <3> QED
      BY <3>2, <3>3, BlankMove
  <2>12. CASE TakeEntry(c)
    <3>1. \E b, a, g : Does(c, "take", [cons[c] EXCEPT !.pc = "empty", !.block = b, !.at = a, !.got = g])
      BY <2>12 DEF TakeEntry, TakeFrom
    <3>2. PICK b, a, g : Does(c, "take", [cons[c] EXCEPT !.pc = "empty", !.block = b, !.at = a, !.got = g])
      BY <3>1
    <3>3. Blank([cons[c] EXCEPT !.pc = "empty", !.block = b, !.at = a, !.got = g])
      BY <2>1 DEF Blank, Before, TakerCalls
    <3> QED
      BY <3>2, <3>3, BlankMove
  <2>13. CASE AddEmpty(c)
    <3>1. PICK m : m = block[cons[c].block].empty + Len(cons[c].got)
      OBVIOUS
    <3>2. PICK r : r = IF m = BLOCK_SIZE THEN [cons[c] EXCEPT !.pc = "unlist"] ELSE NextBlock(c)
      OBVIOUS
    <3>3. Does(c, "empty", r)
      BY <2>13, <3>1, <3>2 DEF AddEmpty
    <3>4. Blank(r)
      BY <2>1, <2>2, <3>2 DEF Blank, Before, TakerCalls
    <3> QED
      BY <3>3, <3>4, BlankMove
  <2>14. CASE Unlist(c)
    <3>1. Does(c, "unlist", [cons[c] EXCEPT !.pc = "free"])
      BY <2>14 DEF Unlist
    <3>2. Blank([cons[c] EXCEPT !.pc = "free"])
      BY <2>1 DEF Blank, Before, TakerCalls
    <3> QED
      BY <3>1, <3>2, BlankMove
  <2>15. CASE Free(c)
    <3>1. Does(c, "free", NextBlock(c))
      BY <2>15 DEF Free
    <3> QED
      BY <2>2, <3>1, BlankMove
  <2> QED
    BY <1>2, <2>3, <2>4, <2>5, <2>6, <2>7, <2>8, <2>9, <2>10, <2>11, <2>12, <2>13, <2>14, <2>15
       DEF ImplicitConsuming, Claiming
<1>3. ASSUME ImplicitProducing \/ UNCHANGED implicitVars PROVE cons' = cons
  BY <1>3 DEF ImplicitProducing, ImplicitEnqueue, ImplicitEnqueueBulk, EnqueueInTail, EnqueueEntry,
     EnqueueBlock, EnqueueGivesUp, ImplicitBulkBegin, BulkStart, BulkIndex, BulkBlock, BulkGivesUp, BulkFound,
     Fill, Publish, Unshared, implicitVars
<1>4. ASSUME cons' = cons PROVE TakersBlank'
  BY <1>4 DEF TakersBlank, Blank
<1> QED
  BY <1>2, <1>3, <1>4 DEF ImplicitNext

-----------------------------------------------------------------------------

Freeing == {c \in Takers : cons[c].pc = "free"}
Used    == Listed \cup {CurOf(cons[c]) : c \in Freeing}
UsedBlock(k) == IF k \in Listed THEN BlockOf(k)
                ELSE cons[CHOOSE c \in Freeing : CurOf(cons[c]) = k].block
Kept    == (1..Len(block)) \ free

\* The consumer that is about to free the block of a number.
LEMMA FreeingIs ==
  ASSUME QueueInv, NEW c \in Freeing
  PROVE  /\ CurOf(cons[c]) \in Int /\ CurOf(cons[c]) \notin Listed
         /\ UsedBlock(CurOf(cons[c])) = cons[c].block
         /\ cons[c].block \in Kept /\ \A k \in Listed : BlockOf(k) # cons[c].block
         /\ \A d \in Freeing : cons[d].block = cons[c].block => d = c
<1>1. /\ c \in Takers /\ cons[c].pc = "free" /\ BlockSeen(cons[c]) /\ CurOf(cons[c]) \in Int
      /\ \A d \in Freeing : d \in Takers /\ cons[d].pc = "free"
  BY TakerIs, RangeIs DEF Freeing, QueueInv, ClaimsInv
<1>2. CurOf(cons[c]) \notin Listed
  <2>1. Spent(CurOf(cons[c]))
    BY <1>1 DEF BlockSeen
  <2>2. ASSUME NEW d \in Unlisting PROVE CurOf(cons[d]) # CurOf(cons[c])
    <3>1. d \in Takers /\ cons[d].pc = "unlist" /\ d # c
      BY <1>1 DEF Unlisting
    <3> QED
      BY <1>1, <3>1 DEF QueueInv, TakersFit, TakersApart
  <2> QED
    BY <2>1, <2>2 DEF Listed
<1>3. \A d \in Freeing : CurOf(cons[d]) = CurOf(cons[c]) => d = c
  BY <1>1 DEF QueueInv, TakersFit, TakersApart
<1>4. (CHOOSE d \in Freeing : CurOf(cons[d]) = CurOf(cons[c])) = c
  BY <1>3
<1>5. UsedBlock(CurOf(cons[c])) = cons[c].block
  BY <1>2, <1>4 DEF UsedBlock
<1>6. \A d \in Freeing : cons[d].block = cons[c].block => d = c
  BY <1>1 DEF QueueInv, TakersFit, TakersApart
<1> QED
  BY <1>1, <1>2, <1>5, <1>6 DEF BlockSeen, Kept

\* The indices a consumer has claimed, those of the block it is at included.
LEMMA ClaimedUsed ==
  ASSUME QueueInv, TakersBlank, NEW c \in Takers,
         NEW i \in cons[c].at - Len(cons[c].got) .. cons[c].end - 1
  PROVE  i \in Int /\ Num(i) \in Used
<1>1. /\ cons[c] \in TakerCalls /\ RangeFits(cons[c]) /\ Blank(cons[c])
      /\ cons[c].pc \in Before \cup After /\ cons[c].at \in Nat /\ cons[c].end \in Nat
      /\ Len(cons[c].got) \in Nat
  BY TakerIs, RangeIs DEF TakersBlank, QueueInv, ClaimsInv
<1>2. i \in Int
  BY <1>1
<1>3. CASE cons[c].pc \in Before
  <2>1. cons[c].at = 0 /\ cons[c].end = 0 /\ Len(cons[c].got) = 0
    BY <1>1, <1>3 DEF Blank, RangeFits, Before
  <2>2. cons[c].at - Len(cons[c].got) .. cons[c].end - 1 = {}
    BY <2>1
  <2> QED
    BY <2>2
<1>4. CASE i \in RestOf(cons[c])
  BY <1>2, <1>4, RestListed DEF Used
<1>5. CASE cons[c].pc \in {"unlist", "free"} /\ i \notin RestOf(cons[c])
  <2>1. PICK a \in Nat, t \in Nat, z \in Nat, n \in Int :
          /\ a = cons[c].at - Len(cons[c].got) /\ t = cons[c].at /\ z = cons[c].end
          /\ n = CurOf(cons[c])
          /\ \A j \in a..t - 1 : Num(j) = n
          /\ RestOf(cons[c]) = t..z - 1
    BY <1>5, EmptyingIs, SMTT(30)
  <2>2. i \in a..t - 1
    BY <1>2, <1>5, <2>1
  <2>3. Num(i) = n
    BY <2>1, <2>2
  <2>4. n \in Used
    <3>1. CASE cons[c].pc = "unlist"
      BY <2>1, <3>1, CurListed DEF Used
    <3>2. CASE cons[c].pc = "free"
      BY <2>1, <3>2 DEF Used, Freeing
    <3> QED
      BY <1>5, <3>1, <3>2
  <2> QED
    BY <1>2, <2>3, <2>4
<1>6. cons[c].pc \in {"locate", "key", "take", "empty"} => i \in RestOf(cons[c])
  BY DEF RestOf
<1> QED
  BY <1>1, <1>3, <1>4, <1>5, <1>6 DEF After, RangeFits

LEMMA CurLive ==
  ASSUME QueueInv, NEW c \in Takers, cons[c].pc \in After
  PROVE  Key(CurOf(cons[c])) \in Live
<1>1. cons[c] \in TakerCalls /\ RangeFits(cons[c]) /\ ClaimTypes
  BY TakerIs DEF QueueInv, ClaimsInv
<1>2. PICK a \in Int, z \in Int : a = cons[c].at - Len(cons[c].got) /\ z = cons[c].end /\ a < z
  BY <1>1, RangeIs DEF RangeFits
<1>3. a \in a..z - 1
  BY <1>2
<1>4. Key(CurOf(cons[c])) = Base(a)
  BY <1>2, NumType DEF CurOf
<1>5. Base(a) \in {Base(i) : i \in cons[c].at - Len(cons[c].got) .. cons[c].end - 1}
  BY <1>2, <1>3
<1> QED
  BY <1>4, <1>5 DEF Live

\* The bases of the blocks in use.
LEMMA LiveIs ==
  ASSUME QueueInv, TakersBlank, prod.pc = "idle"
  PROVE  Live = {Key(k) : k \in Used} /\ \A k \in Used : k \in Int
<1>1. PICK t \in Nat, h \in Nat, u \in Int : t = tailIndex /\ h = headIndex /\ h <= t /\ u = t - 1 /\ u < t
  BY EndsAre
<1>2. PICK z \in Int : z = EndNum /\ z = Num(u) /\ Num(t) \in Int /\ z <= Num(t)
  BY <1>1, EndsAre DEF EndNum
<1>3. StartsBlock <=> Num(t) # z
  <2>1. t \in Int /\ Num(t) \in Int
    BY <1>2
  <2>2. t % BLOCK_SIZE = 0 <=> Num(u) = Num(t) - 1
    BY <1>1, <2>1, NumBefore
  <2>3. t % BLOCK_SIZE # 0 <=> Num(u) = Num(t)
    BY <1>1, <2>1, NumBefore
  <2> QED
    BY <1>1, <1>2, <2>1, <2>2, <2>3 DEF StartsBlock
<1>4. \A i \in Int : Base(i) = Key(Num(i)) /\ Num(i) \in Int
  BY NumType
<1>5. ASSUME NEW i \in Nat, i >= h, Num(i) <= z PROVE Num(i) \in Listed
  BY <1>1, <1>2, <1>5, NotDoneListed DEF Done
<1>6. \A k \in Used : k \in Int
  <2>1. \A c \in Freeing : CurOf(cons[c]) \in Int
    BY FreeingIs
  <2> QED
    BY <2>1, ListedIs DEF Used
<1>7. ASSUME NEW x \in Live PROVE \E k \in Used : x = Key(k)
  <2>1. CASE x \in {Base(i) : i \in headIndex .. tailIndex - 1}
    <3>1. PICK i \in h..u : x = Base(i)
      BY <1>1, <2>1
    <3>2. i \in Nat /\ i >= h /\ i <= u /\ i \in Int
      BY <1>1
    <3>3. Num(i) <= z
      BY <1>2, <3>2, NumOrder
    <3>4. Num(i) \in Listed
      BY <1>5, <3>2, <3>3
    <3> QED
      BY <1>4, <3>1, <3>2, <3>4 DEF Used
  <2>2. CASE x \in {Base(i) : i \in {j \in {tailIndex - 1} : ~ StartsBlock}}
    <3>1. x = Base(u) /\ ~ StartsBlock
      BY <1>1, <2>2
    <3>2. Num(t) = z
      BY <1>3, <3>1
    <3>3. Num(t) \in Listed
      BY <1>1, <1>2, <1>5, <3>2
    <3> QED
      BY <1>2, <1>4, <3>1, <3>2, <3>3 DEF Used
  <2>3. CASE x \in UNION {{Base(i) : i \in cons[c].at - Len(cons[c].got) .. cons[c].end - 1} : c \in Takers}
    <3>1. PICK c \in Takers : x \in {Base(i) : i \in cons[c].at - Len(cons[c].got) .. cons[c].end - 1}
      BY <2>3
    <3>2. PICK i \in cons[c].at - Len(cons[c].got) .. cons[c].end - 1 : x = Base(i)
      BY <3>1
    <3>3. i \in Int /\ Num(i) \in Used
      BY ClaimedUsed
    <3> QED
      BY <1>4, <3>2, <3>3
  <2> QED
    BY <1>7, <2>1, <2>2, <2>3 DEF Live
<1>8. ASSUME NEW k \in Used PROVE Key(k) \in Live
  <2>1. CASE k \in 0..EndNum /\ ~ Spent(k)
    <3>1. PICK i \in Indices(k) : ~ Done(i)
      BY <2>1 DEF Spent
    <3>2. i \in Int /\ Num(i) = k /\ k \in Int /\ k <= z /\ Base(i) = Key(k)
      BY <1>2, <1>4, <2>1, <3>1, IndicesInt
    <3>3. CASE i < h
      <4>1. PICK c \in Takers : i \in RestOf(cons[c])
        BY <1>1, <3>1, <3>3 DEF Done
      <4>2. i \in cons[c].at - Len(cons[c].got) .. cons[c].end - 1
        <5>1. /\ cons[c].at \in Nat /\ cons[c].end \in Nat /\ Len(cons[c].got) \in Nat
          BY TakerIs, RangeIs DEF QueueInv, ClaimsInv
        <5> QED
          BY <3>2, <4>1, <5>1 DEF RestOf
      <4>3. Base(i) \in {Base(j) : j \in cons[c].at - Len(cons[c].got) .. cons[c].end - 1}
        BY <4>2
      <4> QED
        BY <3>2, <4>3 DEF Live
    <3>4. CASE h <= i /\ i <= u
      <4>1. i \in headIndex .. tailIndex - 1
        BY <1>1, <3>2, <3>4
      <4>2. Base(i) \in {Base(j) : j \in headIndex .. tailIndex - 1}
        BY <4>1
      <4> QED
        BY <3>2, <4>2 DEF Live
    <3>5. CASE u < i
      <4>1. t <= i
        BY <1>1, <3>2, <3>5
      <4>2. Num(t) <= Num(i)
        BY <1>1, <3>2, <4>1, NumOrder
      <4>3. Num(t) = z /\ k = z
        BY <1>2, <3>2, <4>2
      <4>4. ~ StartsBlock /\ Base(u) = Key(k)
        BY <1>2, <1>3, <1>4, <4>3
      <4>5. Base(u) \in {Base(j) : j \in {l \in {tailIndex - 1} : ~ StartsBlock}}
        BY <1>1, <4>4
      <4> QED
        BY <4>4, <4>5 DEF Live
    <3> QED
      BY <1>1, <3>2, <3>3, <3>4, <3>5
  <2>2. CASE \E c \in Unlisting \cup Freeing : k = CurOf(cons[c])
    <3>1. PICK c \in Takers : k = CurOf(cons[c]) /\ cons[c].pc \in {"unlist", "free"}
      BY <2>2 DEF Unlisting, Freeing
    <3> QED
      BY <3>1, CurLive DEF After
  <2> QED
    BY <2>1, <2>2 DEF Used, Listed
<1> QED
  BY <1>6, <1>7, <1>8

\* Each block in use is kept for one number.
LEMMA UsedBlocks ==
  ASSUME QueueInv
  PROVE  /\ \A k \in Used : UsedBlock(k) \in Kept
         /\ \A k, l \in Used : UsedBlock(k) = UsedBlock(l) => k = l
         /\ \A b \in Kept : \E k \in Used : UsedBlock(k) = b
<1>1. \A k \in Listed : UsedBlock(k) = BlockOf(k) /\ BlockOf(k) \in Kept
  BY BlockIs DEF UsedBlock, Kept
<1>2. \A c \in Freeing : /\ UsedBlock(CurOf(cons[c])) = cons[c].block /\ cons[c].block \in Kept
                         /\ \A k \in Listed : BlockOf(k) # cons[c].block
                         /\ \A d \in Freeing : cons[d].block = cons[c].block => d = c
  BY FreeingIs
<1>3. \A k, l \in Listed : BlockOf(k) = BlockOf(l) => k = l
  BY DEF QueueInv, Owned
<1>4. \A b \in Kept : (\E k \in Listed : BlockOf(k) = b) \/ \E c \in Freeing : cons[c].block = b
  BY DEF QueueInv, Owned, Kept, Freeing
<1>5. \A k \in Used : k \in Listed \/ \E c \in Freeing : k = CurOf(cons[c])
  BY DEF Used
<1>6. \A k, l \in Used : UsedBlock(k) = UsedBlock(l) => k = l
  BY <1>1, <1>2, <1>3, <1>5
<1>7. \A b \in Kept : \E k \in Used : UsedBlock(k) = b
  BY <1>1, <1>2, <1>4 DEF Used
<1> QED
  BY <1>1, <1>2, <1>5, <1>6, <1>7

LEMMA KeptCounted ==
  ASSUME QueueInv, TakersBlank, prod.pc = "idle"
  PROVE  IsFiniteSet(Kept) /\ Cardinality(Live) = Cardinality(Kept)
<1>1. IsFiniteSet(Kept)
  <2>1. PICK n \in Int, o \in Int : n = Len(block) /\ o = 1
    BY DEF QueueInv, QueueTypes
  <2>2. IsFiniteSet(o..n)
    BY FS_Interval
  <2>3. Kept \in SUBSET (o..n)
    BY <2>1 DEF Kept
  <2> QED
    BY <2>2, <2>3, FS_Subset
<1>2. PICK f : f = [x \in Live |-> UsedBlock(Num(x))]
  OBVIOUS
<1>3. Live = {Key(k) : k \in Used} /\ \A k \in Used : k \in Int /\ Num(Key(k)) = k
  BY LiveIs, NumOfKey
<1>4. \A k \in Used : Key(k) \in Live /\ f[Key(k)] = UsedBlock(k)
  BY <1>2, <1>3
<1>5. \A x \in Live : \E k \in Used : x = Key(k)
  BY <1>3
<1>6. f \in [Live -> Kept]
  <2>1. \A x \in Live : f[x] \in Kept
    BY <1>4, <1>5, UsedBlocks
  <2> QED
    BY <1>2, <2>1
<1>7. \A x, y \in Live : f[x] = f[y] => x = y
  BY <1>4, <1>5, UsedBlocks
<1>8. \A b \in Kept : \E x \in Live : f[x] = b
  BY <1>4, UsedBlocks
<1>9. f \in Injection(Live, Kept) /\ f \in Surjection(Live, Kept)
  BY <1>6, <1>7, <1>8, Fun_IsInj, Fun_IsSurj
<1> QED
  BY <1>1, <1>9, FS_Injection

\* Between the producer's calls a block is in the pool exactly if no element is,
\* will be or was just now in it: none is leaked, none owned twice.
THEOREM BlocksAreReturned == ImplicitSpec => []BlocksReturn
<1>1. ASSUME QueueInv, TakersBlank PROVE BlocksReturn
  <2>1. SUFFICES ASSUME prod.pc = "idle" PROVE Len(block) = Cardinality(free) + Cardinality(Live)
    BY DEF BlocksReturn
  <2>2. PICK n \in Nat, o \in Int : n = Len(block) /\ o = 1
    BY <1>1 DEF QueueInv, QueueTypes
  <2>3. IsFiniteSet(o..n) /\ Cardinality(o..n) = n
    <3>1. n \in Int /\ (IF o > n THEN 0 ELSE n - o + 1) = n
      BY <2>2
    <3> QED
      BY <3>1, FS_Interval
  <2>4. free \in SUBSET (o..n)
    BY <1>1, <2>2 DEF QueueInv, QueueTypes
  <2>5. IsFiniteSet(free) /\ Cardinality(free) \in Nat
    BY <2>3, <2>4, FS_Subset, FS_CardinalityType
  <2>6. IsFiniteSet(Kept) /\ Cardinality(Kept) \in Nat /\ Cardinality(Live) = Cardinality(Kept)
    BY <1>1, <2>1, KeptCounted, FS_CardinalityType
  <2>7. free \cup Kept = o..n /\ free \cap Kept = {}
    BY <2>2, <2>4 DEF Kept
  <2>8. Cardinality(o..n) = Cardinality(free) + Cardinality(Kept) - 0
    <3>1. Cardinality({}) = 0
      BY FS_EmptySet
    <3>2. Cardinality(free \cup Kept)
            = Cardinality(free) + Cardinality(Kept) - Cardinality(free \cap Kept)
      BY <2>5, <2>6, FS_Union
    <3> QED
      BY <2>7, <3>1, <3>2
  <2>9. PICK x \in Nat, y \in Nat : x = Cardinality(free) /\ y = Cardinality(Kept)
    BY <2>5, <2>6
  <2>10. n = x + y
    BY <2>3, <2>8, <2>9
  <2> QED
    BY <2>2, <2>6, <2>9, <2>10
<1>2. ImplicitInit => TakersBlank
  <2>1. ASSUME ImplicitInit PROVE TakersBlank
    <3>1. \A c \in Takers : cons[c] = IdleConsumer
      BY <2>1, InitClaims DEF ImplicitInit
    <3> QED
      BY <3>1 DEF TakersBlank, Blank, IdleConsumer
  <2> QED
    BY <2>1
<1>3. ImplicitSpec => []TakersBlank
  <2>1. QueueInv /\ TakersBlank /\ [ImplicitNext]_implicitVars => TakersBlank'
    BY BlankStep
  <2> QED
    BY <1>2, <2>1, ImplicitInvariant, PTL DEF ImplicitSpec
<1> QED
  BY <1>1, <1>3, ImplicitInvariant, PTL
=============================================================================
