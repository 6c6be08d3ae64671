----------------------------- MODULE TokenBucket -----------------------------
(***************************************************************************)
(* TokenBucket.cpp and the loop of UDPStream::senderEntry that waits for   *)
(* it, which together keep the sender to the stream's bandwidth.           *)
(*                                                                         *)
(* The bucket stores no tokens but the time from which they accrue:        *)
(* m_tsLast.  After a packet passes, the tokens left over are turned back  *)
(* into time, with two roundings.  The conversion to double and back is    *)
(* the integer quotient: it is exact as far as the burst size reaches.     *)
(*                                                                         *)
(* The clock never goes back.  Its readings are large: Epoch is the first. *)
(***************************************************************************)
EXTENDS Integers

CONSTANTS
  Unit,      \* clock ticks in a second, 1000000 in the code
  Burst,     \* burstSize, 128 * 1024 in the code
  Sizes,     \* packet sizes
  Rates,     \* bandwidths, in bytes per second
  Epoch,     \* the first reading of the clock
  MaxTime    \* bound: the clock stops here

ASSUME BucketAssumption ==
  /\ Unit \in Nat \ {0}
  /\ Burst \in Nat
  /\ Sizes \subseteq Nat \ {0} /\ \A n \in Sizes : n <= Burst
  /\ Rates \subseteq Nat \ {0}
  /\ Epoch \in Nat \ {0} /\ MaxTime \in Nat
  /\ \A r \in Rates : Epoch * r > Burst * Unit

VARIABLES
  now,        \* the clock
  m_tsLast,   \* time from which tokens accrue; 0 before the first packet
  rate,  \* UDPStream::bandwidth
  pkt,        \* size of the packet waiting, 0 for none
  since,      \* when it began to wait (history)
  mark,       \* beginning of the interval under observation (history)
  passed      \* bytes let through in it (history)

vars == <<now, m_tsLast, rate, pkt, since, mark, passed>>

Init ==
  /\ now = Epoch
  /\ m_tsLast = 0
  /\ rate \in Rates
  /\ pkt = 0
  /\ since = Epoch
  /\ mark = Epoch
  /\ passed = 0

\* m_tsLast is never in the future, which the unsigned tsDiff relies on, and
\* never becomes 0 again, which would fill the bucket.
TypeOK ==
  /\ now \in Nat /\ now >= Epoch
  /\ m_tsLast \in 0 .. now
  /\ rate \in Rates
  /\ pkt \in Sizes \cup {0}
  /\ since \in Epoch .. now
  /\ mark \in Epoch .. now
  /\ passed \in Nat
  /\ m_tsLast = 0 => passed = 0

Least(a, b) == IF a <= b THEN a ELSE b

\* What the elapsed time is worth, in bytes times Unit.
Credit ==
  IF m_tsLast = 0 THEN Burst * Unit
  ELSE Least(Burst * Unit, (now - m_tsLast) * rate)

\* Mutant of Tokens: the cap at the burst size is forgotten.
TokensUncapped ==
  IF m_tsLast = 0 THEN Burst ELSE ((now - m_tsLast) * rate) \div Unit

\* The tokens in the bucket.
Tokens ==
  IF m_tsLast = 0 THEN Burst
  ELSE Least(Burst, ((now - m_tsLast) * rate) \div Unit)

\* Mutant of Enough: a packet as large as the tokens waits.
EnoughStrict == Tokens > pkt

\* tokens < bytes is false.
Enough == Tokens >= pkt

\* Mutant of LeftOver: the tokens left over are thrown away.
LeftOverLost == 0

\* t0, the time that accrues the tokens left over.
LeftOver == ((Tokens - pkt) * Unit) \div rate

\* Time passes: the sender sleeps, or the queue is empty.
Tick ==
  /\ now < MaxTime
  /\ now' = now + 1
  /\ UNCHANGED <<m_tsLast, rate, pkt, since, mark, passed>>

\* tx () returns a packet of n bytes.
NextPacket(n) ==
  /\ pkt = 0
  /\ pkt' = n
  /\ since' = now
  /\ UNCHANGED <<now, m_tsLast, rate, mark, passed>>

\* consume () returns true and ends the loop.  When it returns false it
\* changes nothing, and the sender sleeps and calls it again.
Consume ==
  /\ pkt # 0
  /\ Enough
  /\ m_tsLast' = now - LeftOver
  /\ passed' = passed + pkt
  /\ pkt' = 0
  /\ UNCHANGED <<now, rate, since, mark>>

\* Another thread assigns bandwidth.  The observation begins anew.
SetBandwidth(r) ==
  /\ rate' = r
  /\ mark' = now
  /\ passed' = 0
  /\ UNCHANGED <<now, m_tsLast, pkt, since>>

\* The observation begins anew, at any time.
Observe ==
  /\ mark' = now
  /\ passed' = 0
  /\ UNCHANGED <<now, m_tsLast, rate, pkt, since>>

Next ==
  \/ Tick
  \/ \E n \in Sizes : NextPacket(n)
  \/ Consume
  \/ \E r \in Rates : SetBandwidth(r)
  \/ Observe

Spec == Init /\ [][Next]_vars

-----------------------------------------------------------------------------
(* Properties.                                                             *)

\* In every interval of constant bandwidth no more bytes pass than the rate
\* allows, plus one burst, roundings included (UDPStream.cpp:67).
RateBound ==
  passed * Unit <= Burst * Unit + rate * (now - mark)

\* A packet costs what it weighs: no less, and no more than one byte and one
\* tick more, which is what the two roundings of consume () lose.
FairCharge ==
  [][pkt # 0 /\ pkt' = 0 =>
       /\ Credit' <= Credit - pkt * Unit
       /\ Credit' > Credit - (pkt + 1) * Unit - rate]_vars

\* A packet waits no longer than its own bytes take at the current rate,
\* whatever was sent before it: after that consume () succeeds.
WaitIsBounded ==
  pkt # 0 /\ (now - since) * rate >= pkt * Unit => Enough
=============================================================================
