------------------------------- MODULE Limiter -------------------------------
(***************************************************************************)
(* limiterEntry and limiterStats: the thread that sets the bandwidth from  *)
(* the outcomes in the packet time table.  In this commit nothing calls    *)
(* setSent or setRecv and the thread only sleeps; here a new entry is made *)
(* before each packet, as PTT.hpp asks, and any packet sent may be         *)
(* answered, late, again, out of order or never, as the network has it.    *)
(*                                                                         *)
(* One-way delays are differences between two machines' clocks: they may   *)
(* be negative.  Fractions are kept exact by multiplying out; the          *)
(* conversions to integers that truncate are modelled.                     *)
(***************************************************************************)
EXTENDS PTT, Sequences

CONSTANTS
  MinPackets,  \* outcomes that start a round, 12 in the code
  Wnd,         \* rounds averaged over, 4 in the code
  Delays,      \* differences tsRecv - tsSent
  Garbage,     \* what an int may hold that was not initialized
  Start,       \* bandwidth at first
  Cap,         \* most bandwidth, 2^31 - 1 in the code
  Mtu,         \* mtu times the clock ticks in a second
  MaxSeq       \* bound: packets sent

\* What is assumed of the constants.
ASSUME LimiterAssumption ==
  /\ MinPackets \in Nat \ {0} /\ Wnd \in Nat \ {0} /\ MaxSeq \in Nat
  /\ Delays \subseteq Int /\ Garbage \subseteq Int
  /\ Cap \in Nat /\ Start \in 0 .. Cap /\ Mtu \in Nat

VARIABLES
  pc,           \* of the limiter: "sleep", "stats", "round"
  clock,
  astray,       \* was the table ever used beyond what it keeps (history)
  bandwidth, updateBandwidth,
  m_tsUpdated,
  st,           \* locals of limiterStats and the packets counted (history)
  q, y0, symin0, cs,
  lastRead,     \* number of the latest outcome read (history)
  cutAt,        \* when the bandwidth was last cut (history)
  changedAt     \* when it was last cut or raised (history)

rateVars == <<bandwidth, m_tsUpdated, q, y0, symin0, cs, cutAt, changedAt>>
limiterVars == <<pttVars, updateBandwidth, pc, clock, astray, st, lastRead, rateVars>>

LimiterInit ==
  /\ PTTInit
  /\ pc = "sleep"
  /\ clock = 1
  /\ astray = FALSE
  /\ bandwidth = Start /\ updateBandwidth \in BOOLEAN
  /\ m_tsUpdated = 0
  /\ st = [ymin |-> 0, nrecv |-> 0, ndropped |-> 0, counted |-> {}]
  /\ q = << >> /\ y0 = 0 /\ symin0 = 0 /\ cs = 0
  /\ lastRead = 0
  /\ cutAt = 0 /\ changedAt = 0

-----------------------------------------------------------------------------
(* The sender and the network.                                             *)

\* Two packets may be stamped by the same tick of the clock.
Send ==
  /\ m_seq <= MaxSeq
  /\ clock' \in {clock, clock + 1}
  /\ SetSent(clock')
  /\ astray' = (astray \/ TableFull)
  /\ UNCHANGED <<pc, st, lastRead, rateVars>>

\* An answer for a packet that is not found is ignored; one that is found
\* though nothing is in flight was found where outcomes are.
Answer(s, d) ==
  /\ s < m_seq
  /\ \E i \in Slots :
       /\ mbase[i].seq = s
       /\ mbase[i].tsSent + d # 0
       /\ SetRecv(s, mbase[i].tsSent + d)
  /\ astray' = (astray \/ InFlight = 0)
  /\ UNCHANGED <<pc, clock, st, lastRead, rateVars>>

-----------------------------------------------------------------------------
(* limiterStats.                                                           *)

\* Enough outcomes: limiterStats is called.  It returns ymin as it found it
\* when none of the packets it counts was answered.
Begin(garbage) ==
  /\ pc = "sleep"
  /\ Readable >= MinPackets
  /\ pc' = "stats"
  /\ st' = [ymin |-> garbage, nrecv |-> 0, ndropped |-> 0, counted |-> {}]
  /\ UNCHANGED <<pttVars, clock, astray, lastRead, rateVars>>

ReadOne ==
  /\ pc = "stats"
  /\ Readable > 0
  /\ lastRead' = Rptr.seq
  /\ ReadAdvance
  /\ UNCHANGED <<pc, clock, astray, rateVars>>

\* Packets sent before the last change do not count.
SkipOld ==
  /\ m_tsUpdated > Rptr.tsSent
  /\ ReadOne
  /\ UNCHANGED st

CountReceived ==
  /\ m_tsUpdated <= Rptr.tsSent
  /\ Rptr.tsRecv # 0
  /\ LET y == Rptr.tsRecv - Rptr.tsSent
     IN  st' = [st EXCEPT !.ymin = IF st.nrecv = 0 \/ y < @ THEN y ELSE @,
                          !.nrecv = @ + 1, !.counted = @ \cup {Rptr.tsSent}]
  /\ ReadOne

CountDropped ==
  /\ m_tsUpdated <= Rptr.tsSent
  /\ Rptr.tsRecv = 0
  /\ st' = [st EXCEPT !.ndropped = @ + 1, !.counted = @ \cup {Rptr.tsSent}]
  /\ ReadOne

StatsDone ==
  /\ pc = "stats"
  /\ Readable = 0
  /\ pc' = IF st.nrecv + st.ndropped = 0 THEN "sleep" ELSE "round"
  /\ UNCHANGED <<pttVars, clock, astray, st, lastRead, rateVars>>

-----------------------------------------------------------------------------
(* The rest of a round of limiterEntry.                                    *)

\* Division of ints and conversion to an int truncate towards zero.
Quotient(a, n) == IF a >= 0 THEN a \div n ELSE -((-a) \div n)
Magnitude(a)   == IF a >= 0 THEN a ELSE -a

\* The window holds Wnd minima before the round: the oldest makes room.
PopOldest == q' = Tail(Append(q, st.ymin)) /\ y0' = y0 + st.ymin - Head(q)

PushMinimum ==
  IF Len(q) < Wnd THEN q' = Append(q, st.ymin) /\ y0' = y0 + st.ymin
                  ELSE PopOldest

\* sc > 0.20 and sc < -0.20, where sc is total / base
Rising(total, base)  == IF base > 0 THEN 5 * total > base ELSE 5 * total < base
Falling(total, base) == IF base > 0 THEN 5 * total < -base ELSE 5 * total > -base

\* Mutant of SlowDown: the time of the change is not kept.
SlowDownUndated ==
  /\ bandwidth' = (3 * bandwidth) \div 4
  /\ cs' = 0
  /\ clock' \in {clock, clock + 1}
  /\ cutAt' = clock' /\ changedAt' = clock'
  /\ UNCHANGED m_tsUpdated

SlowDown ==
  /\ bandwidth' = (3 * bandwidth) \div 4
  /\ cs' = 0
  /\ clock' \in {clock, clock + 1}
  /\ cutAt' = clock' /\ changedAt' = clock'
  /\ m_tsUpdated' = clock'

\* One mtu per delay more, up to Cap; a delay of 0 gives an infinite double.
Faster(base) ==
  IF base # 0 /\ bandwidth + Mtu \div Magnitude(base) < Cap
    THEN bandwidth + Mtu \div Magnitude(base) ELSE Cap

\* A round that judges.  Without a reason to slow down the bandwidth is
\* raised in one round out of four, by lot; m_tsUpdated is not touched then.
Judge(now0, before) ==
  LET total == cs + now0 - before
      slow  == Rising(total, before) \/ st.ndropped > 1
  IN  \/ /\ slow /\ updateBandwidth
         /\ SlowDown
      \/ /\ ~(slow /\ updateBandwidth)
         /\ clock' \in {clock, clock + 1}
         /\ \/ UNCHANGED <<bandwidth, changedAt>>
            \/ /\ ~slow /\ updateBandwidth
               /\ bandwidth' = Faster(now0) /\ changedAt' = clock'
         /\ IF Falling(total, before)
              THEN cs' = 0 /\ m_tsUpdated' = clock'
              ELSE cs' = total /\ UNCHANGED m_tsUpdated
         /\ UNCHANGED cutAt

Round ==
  /\ pc = "round"
  /\ pc' = "sleep"
  /\ PushMinimum
  /\ IF Len(q') < Wnd
       THEN UNCHANGED <<symin0, bandwidth, cs, cutAt, changedAt, m_tsUpdated, clock>>
       ELSE /\ symin0' = Quotient(y0', Wnd)
            /\ IF symin0 # 0
                 THEN Judge(symin0', symin0)
                 ELSE UNCHANGED <<bandwidth, cs, cutAt, changedAt, m_tsUpdated, clock>>
  /\ UNCHANGED <<pttVars, astray, st, lastRead>>

Limit ==
  \/ \E g \in Garbage : Begin(g)
  \/ SkipOld \/ CountReceived \/ CountDropped
  \/ StatsDone
  \/ Round

LimiterNext ==
  /\ \/ Send
     \/ \E s \in 1 .. MaxSeq, d \in Delays : Answer(s, d)
     \/ Limit
  /\ UNCHANGED updateBandwidth

LimiterSpec == LimiterInit /\ [][LimiterNext]_limiterVars

-----------------------------------------------------------------------------
(* Properties.                                                             *)

\* The bandwidth stays within its cap, and the indices within the table.
LimiterTypeOK ==
  /\ mbase \in [Slots -> [seq : 0 .. MaxSeq, tsSent : Nat, tsRecv : Int]]
  /\ {m_head0, m_head1, m_tail} \subseteq Slots
  /\ pc \in {"sleep", "stats", "round"}
  /\ bandwidth \in 0 .. Cap
  /\ m_tsUpdated \in 0 .. clock
  /\ q \in Seq(Int)

\* The limiter reads the outcome of every packet once and in the order they
\* were sent, though the entries are reused and answers are missing, late,
\* repeated or out of order (PTT.cpp:208, "how many entries are available for
\* processing?"), until the table is used beyond what it keeps: a packet is
\* entered into a full table, or an answer is found with nothing in flight.
EachOutcomeOnce == ~astray /\ Readable > 0 => Rptr.seq = lastRead + 1

\* m_head1 moves over packets in flight only (PTT.cpp:112-113, "Looks between
\* head1(starT) and head0."): what the limiter has read is not given to it
\* again.
LooksInFlight    == m_head1' # m_head1 => InFlight > 0
LooksBetweenHeads == [][LooksInFlight]_limiterVars

\* One loss is not answered twice: the packets whose outcomes bring a cut were
\* not stamped before the last cut, in whatever order and how often they were
\* answered (UDPStream.cpp:298).
RestsOnNew    == bandwidth' < bandwidth => \A ts \in st.counted : ts >= cutAt
CutsRestOnNew == [][RestsOnNew]_limiterVars

\* The rate is judged by packets that were sent at it (UDPStream.cpp:264-265,
\* "timestamp when we last made a change to the send rate. Ignore all data
\* from packets sent before this time.").
SentAtPresentRate == bandwidth' # bandwidth => \A ts \in st.counted : ts >= changedAt
JudgedAtPresentRate == [][SentAtPresentRate]_limiterVars
=============================================================================
