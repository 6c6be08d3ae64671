-------------------------- MODULE RateControlProofs --------------------------
(***************************************************************************)
(* Theorems about what sets the pace of sending: Limiter, with the packet  *)
(* time table, for every table size, every reordering bound and every      *)
(* pattern of losses; RollingStats for every window size and all samples;  *)
(* and TokenBucket for every unit of time, burst, packet size and rate.    *)
(***************************************************************************)
EXTENDS TokenBucket, RollingStats, Limiter, SumTheorems, SequenceTheorems

-----------------------------------------------------------------------------
(* The inductive invariant of Limiter.                                     *)

Tables == [Slots -> [seq : 0 .. MaxSeq, tsSent : Nat, tsRecv : Int]]

\* LimiterTypeOK does not speak of the state the arithmetic goes through.
TableTypes ==
  /\ mbase \in Tables
  /\ m_seq \in 1 .. MaxSeq + 1
  /\ m_head0 \in Slots /\ m_head1 \in Slots /\ m_tail \in Slots
  /\ lastRead \in Nat /\ astray \in BOOLEAN

PaceTypes ==
  /\ pc \in {"sleep", "stats", "round"}
  /\ clock \in Nat /\ m_tsUpdated \in Nat /\ m_tsUpdated <= clock
  /\ bandwidth \in 0 .. Cap
  /\ q \in Seq(Int) /\ y0 \in Int /\ symin0 \in Int /\ cs \in Int

Tallies   == [ymin : Int, nrecv : Nat, ndropped : Nat, counted : SUBSET Nat]
StatTypes == st \in Tallies

\* Entries not read yet, from the tail on.
Held    == IndexDifference(m_head0, m_tail)
Kept(k) == mbase[After(m_tail, k)]

\* The entries held are those to read and those in flight, numbered on from
\* what was read; the table wraps around only there.
Ring ==
  /\ Held = Readable + InFlight
  /\ m_seq = lastRead + 1 + Held
  /\ \A k \in 0 .. Held - 1 : Kept(k).seq = lastRead + 1 + k

RingInv == ~astray => Ring

\* What limiterStats counts is not older than m_tsUpdated, nor that than the
\* last cut.
CutInv ==
  /\ cutAt \in Nat /\ cutAt <= m_tsUpdated
  /\ pc # "sleep" => \A ts \in st.counted : ts >= cutAt

LInv == TableTypes /\ PaceTypes /\ StatTypes /\ RingInv /\ CutInv

-----------------------------------------------------------------------------
(* The inductive invariant of RollingStats.                                *)

\* The samples since the window was sized are all that were taken.
SampleTypes ==
  /\ m_size \in Nat /\ m_count \in Nat /\ seen \in Seq(Values)
  /\ IF m_size = 0 THEN seen = << >>
     ELSE /\ m_size > 1 /\ m_count = Len(seen)
          /\ m_head \in 0 .. m_size - 1
          /\ m_buf \in [0 .. m_size - 1 -> Nat]

\* The slot t places before the latest one.
Back(head, t) == IF t <= head THEN head - t ELSE head + m_size - t

\* The ring holds the window, and the multiset and the sum are its.
RingHolds ==
  \A t \in 0 .. Count - 1 : m_buf[Back(m_head, t)] = seen[Len(seen) - t]

SetCounts  == m_set = HowOften(seen, Window)
TotalIsSum == m_total = SumFunctionOnSet(seen, Window)

StatsInv == SampleTypes /\ RingHolds /\ SetCounts /\ TotalIsSum

-----------------------------------------------------------------------------
(* The table is a ring.                                                    *)

\* After without the remainder.
LEMMA AfterIs ==
  ASSUME NEW i \in Slots, NEW k \in 0 .. Entries
  PROVE  After(i, k) = IF i + k < Entries THEN i + k ELSE i + k - Entries
BY TableAssumption DEF After, Slots

LEMMA AfterType ==
  ASSUME NEW i \in Slots, NEW k \in 0 .. Entries
  PROVE  After(i, k) \in Slots
BY AfterIs, TableAssumption, SMTT(30) DEF Slots

\* Two ways on are one way, if it does not go around.
LEMMA AfterAfter ==
  ASSUME NEW i \in Slots, NEW a \in Nat, NEW b \in Nat, a + b <= Entries
  PROVE  After(After(i, a), b) = After(i, a + b)
<1>1. After(i, a) \in Slots
  BY AfterType, TableAssumption
<1>2. After(i, a + b) = IF i + (a + b) < Entries THEN i + (a + b) ELSE i + (a + b) - Entries
  BY AfterIs, TableAssumption
<1>3. After(i, a) = IF i + a < Entries THEN i + a ELSE i + a - Entries
  BY AfterIs, TableAssumption
<1> DEFINE j == After(i, a)
<1>4. After(j, b) = IF j + b < Entries THEN j + b ELSE j + b - Entries
  <2> HIDE DEF j
  <2> QED
    BY <1>1, AfterIs, TableAssumption DEF j
<1> QED
  BY <1>1, <1>2, <1>3, <1>4, TableAssumption DEF Slots

\* IndexDifference is how far it is from the second to the first.
LEMMA DifferenceIsWay ==
  ASSUME NEW i \in Slots, NEW j \in Slots
  PROVE  /\ IndexDifference(j, i) \in 0 .. Entries - 1
         /\ After(i, IndexDifference(j, i)) = j
<1>1. IndexDifference(j, i) \in 0 .. Entries - 1
  BY TableAssumption DEF IndexDifference, Slots
<1> DEFINE d == IndexDifference(j, i)
<1>2. After(i, d) = IF i + d < Entries THEN i + d ELSE i + d - Entries
  <2> HIDE DEF d
  <2> QED
    BY <1>1, AfterIs, TableAssumption DEF d
<1> QED
  BY <1>1, <1>2, TableAssumption DEF IndexDifference, Slots

LEMMA WayIsDifference ==
  ASSUME NEW i \in Slots, NEW k \in 0 .. Entries - 1
  PROVE  IndexDifference(After(i, k), i) = k
<1>1. After(i, k) = IF i + k < Entries THEN i + k ELSE i + k - Entries
  BY AfterIs, TableAssumption
<1> QED
  BY <1>1, TableAssumption DEF IndexDifference, Slots

\* Different ways shorter than the table end in different slots.
LEMMA AfterDiffers ==
  ASSUME NEW i \in Slots, NEW a \in 0 .. Entries - 1, NEW b \in 0 .. Entries - 1, a # b
  PROVE  After(i, a) # After(i, b)
BY WayIsDifference

LEMMA MinIsLeast ==
  ASSUME NEW S \in SUBSET Nat, S # {}
  PROVE  Min(S) \in S /\ \A n \in S : Min(S) <= n
<1>1. \E n \in S : \A m \in S : n <= m
  BY LeastNumber
<1> QED
  BY <1>1 DEF Min

\* Where the indices are, counted from the tail.
LEMMA Counted ==
  ASSUME TableTypes, Ring
  PROVE  /\ Held \in 0 .. Entries - 1 /\ Readable \in 0 .. Held /\ InFlight \in 0 .. Held
         /\ m_head0 = After(m_tail, Held)
         /\ m_head1 = After(m_tail, Readable)
         /\ m_head0 = After(m_head1, InFlight)
         /\ \A k \in 0 .. Held : k \in 0 .. Entries - 1 /\ After(m_tail, k) \in Slots
         /\ \A k \in 0 .. InFlight :
              /\ After(m_head1, k) = After(m_tail, Readable + k)
              /\ Readable + k \in 0 .. Held
<1>1. /\ Held \in 0 .. Entries - 1 /\ After(m_tail, Held) = m_head0
      /\ Readable \in 0 .. Entries - 1 /\ After(m_tail, Readable) = m_head1
      /\ InFlight \in 0 .. Entries - 1 /\ After(m_head1, InFlight) = m_head0
  BY DifferenceIsWay DEF TableTypes, Held, Readable, InFlight
<1>2. Held = Readable + InFlight
  BY DEF Ring
<1>3. Readable \in 0 .. Held /\ InFlight \in 0 .. Held
  BY <1>1, <1>2, TableAssumption
<1>4. ASSUME NEW k \in 0 .. Held PROVE k \in 0 .. Entries - 1 /\ After(m_tail, k) \in Slots
  BY <1>1, AfterType, TableAssumption DEF TableTypes
<1>5. ASSUME NEW k \in 0 .. InFlight
      PROVE  After(m_head1, k) = After(m_tail, Readable + k) /\ Readable + k \in 0 .. Held
  <2>1. Readable \in Nat /\ k \in Nat /\ Readable + k <= Entries /\ Readable + k \in 0 .. Held
    BY <1>1, <1>2, TableAssumption
  <2>2. After(After(m_tail, Readable), k) = After(m_tail, Readable + k)
    BY <2>1, AfterAfter DEF TableTypes
  <2> QED
    BY <1>1, <2>1, <2>2
<1> QED
  BY <1>1, <1>3, <1>4, <1>5

-----------------------------------------------------------------------------
(* A new entry, and an outcome read.                                       *)

LEMMA SentTypes ==
  ASSUME TableTypes, NEW ts \in Nat,
         m_seq <= MaxSeq, SetSent(ts), lastRead' = lastRead, astray' \in BOOLEAN
  PROVE  TableTypes'
<1> DEFINE new == [seq |-> m_seq, tsSent |-> ts, tsRecv |-> 0]
<1> USE TableAssumption
<1>1. /\ mbase' = [mbase EXCEPT ![m_head0] = new]
      /\ m_head0' = After(m_head0, 1) /\ m_seq' = m_seq + 1
      /\ m_head1' = m_head1 /\ m_tail' = m_tail
  BY DEF SetSent
<1>2. m_head0' \in Slots
  BY <1>1, AfterType DEF TableTypes
<1>3. new \in [seq : 0 .. MaxSeq, tsSent : Nat, tsRecv : Int]
  BY LimiterAssumption DEF TableTypes
<1>4. mbase' \in Tables
  BY <1>1, <1>3 DEF TableTypes, Tables
<1> QED
  BY <1>1, <1>2, <1>4, LimiterAssumption DEF TableTypes

LEMMA SentIsKept ==
  ASSUME TableTypes, Ring, NEW ts \in Nat, ~TableFull, SetSent(ts), lastRead' = lastRead
  PROVE  Ring'
<1> DEFINE new == [seq |-> m_seq, tsSent |-> ts, tsRecv |-> 0]
<1> USE TableAssumption
<1>1. /\ mbase' = [mbase EXCEPT ![m_head0] = new]
      /\ m_head0' = After(m_head0, 1) /\ m_seq' = m_seq + 1
      /\ m_head1' = m_head1 /\ m_tail' = m_tail
  BY DEF SetSent
<1>2. Held < Entries - 1
  BY Counted DEF TableFull, Held
<1>3. m_head0' = After(m_tail, Held + 1) /\ m_head0' = After(m_head1, InFlight + 1)
  <2>0. /\ m_tail \in Slots /\ m_head1 \in Slots
        /\ Held \in Nat /\ InFlight \in Nat /\ Held + 1 <= Entries /\ InFlight + 1 <= Entries
    BY <1>2, Counted DEF TableTypes
  <2>1. After(After(m_tail, Held), 1) = After(m_tail, Held + 1)
    BY <2>0, AfterAfter
  <2>2. After(After(m_head1, InFlight), 1) = After(m_head1, InFlight + 1)
    BY <2>0, AfterAfter
  <2> QED
    BY <1>1, <2>1, <2>2, Counted
<1>4. Held' = Held + 1 /\ Readable' = Readable /\ InFlight' = InFlight + 1
  <2>1. Held' = IndexDifference(m_head0', m_tail) /\ InFlight' = IndexDifference(m_head0', m_head1)
    BY <1>1 DEF Held, InFlight, IndexDifference
  <2>2. Readable' = Readable
    BY <1>1 DEF Readable, IndexDifference
  <2>3. Held + 1 \in 0 .. Entries - 1 /\ InFlight + 1 \in 0 .. Entries - 1
    BY <1>2, Counted
  <2>4. IndexDifference(After(m_tail, Held + 1), m_tail) = Held + 1
    BY <2>3, WayIsDifference DEF TableTypes
  <2>5. IndexDifference(After(m_head1, InFlight + 1), m_head1) = InFlight + 1
    BY <2>3, WayIsDifference DEF TableTypes
  <2> QED
    BY <1>3, <2>1, <2>2, <2>4, <2>5
<1>5. ASSUME NEW k \in 0 .. Held - 1
      PROVE  Kept(k)' = Kept(k)
  <2>1. k \in 0 .. Entries - 1 /\ Held \in 0 .. Entries - 1 /\ k # Held
    BY Counted
  <2>2. After(m_tail, k) # After(m_tail, Held)
    BY <2>1, AfterDiffers DEF TableTypes
  <2>3. After(m_tail, k) # m_head0 /\ After(m_tail, k) \in Slots
    BY <2>1, <2>2, Counted
  <2> QED
    BY <1>1, <2>3 DEF Kept, TableTypes, Tables, After
<1>6. mbase'[After(m_tail, Held)] = new
  BY <1>1, Counted DEF TableTypes, Tables
<1>7. ASSUME NEW k \in 0 .. Held' - 1
      PROVE  Kept(k)' = IF k < Held THEN Kept(k) ELSE new
  <2>1. CASE k < Held
    BY <1>5, <2>1, Counted
  <2>2. CASE k = Held
    BY <1>1, <1>6, <2>2 DEF Kept, After
  <2> QED
    BY <1>4, <2>1, <2>2, Counted
<1>8. m_seq' = lastRead' + 1 + Held'
  BY <1>1, <1>4, Counted DEF Ring, TableTypes
<1>9. ASSUME NEW k \in 0 .. Held' - 1
      PROVE  Kept(k)'.seq = lastRead' + 1 + k
  <2>1. CASE k < Held
    <3>1. k \in 0 .. Held - 1 /\ Kept(k)' = Kept(k)
      BY <1>7, <2>1, Counted
    <3>2. Kept(k).seq = lastRead + 1 + k
      BY <3>1 DEF Ring
    <3> QED
      BY <3>1, <3>2
  <2>2. CASE k = Held
    <3>1. Kept(k)' = new
      BY <1>7, <2>2, Counted
    <3> QED
      BY <3>1, <2>2 DEF Ring
  <2> QED
    BY <1>4, <2>1, <2>2, Counted
<1> QED
  BY <1>4, <1>8, <1>9, Counted DEF Ring

LEMMA ReadIsGone ==
  ASSUME TableTypes, Ring, Readable > 0, ReadAdvance, lastRead' = Rptr.seq
  PROVE  Ring'
<1> USE TableAssumption
<1>1. /\ mbase' = mbase /\ m_head0' = m_head0 /\ m_head1' = m_head1 /\ m_seq' = m_seq
      /\ m_tail' = After(m_tail, 1)
  BY DEF ReadAdvance
<1>2. m_tail' \in Slots
  BY <1>1, AfterType DEF TableTypes
<1>3. /\ Held - 1 \in 0 .. Entries - 1 /\ Readable - 1 \in 0 .. Entries - 1
      /\ Held \in Nat /\ Readable \in Nat /\ Held <= Entries /\ Readable <= Entries
      /\ m_tail \in Slots /\ m_tail' \in Slots
  BY <1>2, Counted DEF TableTypes
<1>4. Held' = Held - 1 /\ Readable' = Readable - 1 /\ InFlight' = InFlight
  <2>1. /\ Held' = IndexDifference(m_head0, m_tail') /\ Readable' = IndexDifference(m_head1, m_tail')
        /\ InFlight' = InFlight
    BY <1>1 DEF Held, Readable, InFlight, IndexDifference
  <2>2. After(m_tail', Held - 1) = m_head0
    <3>1. After(After(m_tail, 1), Held - 1) = After(m_tail, 1 + (Held - 1))
      BY <1>3, AfterAfter
    <3>2. 1 + (Held - 1) = Held
      BY <1>3
    <3> QED
      BY <1>1, <3>1, <3>2, Counted
  <2>3. After(m_tail', Readable - 1) = m_head1
    <3>1. After(After(m_tail, 1), Readable - 1) = After(m_tail, 1 + (Readable - 1))
      BY <1>3, AfterAfter
    <3>2. 1 + (Readable - 1) = Readable
      BY <1>3
    <3> QED
      BY <1>1, <3>1, <3>2, Counted
  <2>4. /\ IndexDifference(After(m_tail', Held - 1), m_tail') = Held - 1
        /\ IndexDifference(After(m_tail', Readable - 1), m_tail') = Readable - 1
    BY <1>3, WayIsDifference
  <2> QED
    BY <2>1, <2>2, <2>3, <2>4
<1>5. ASSUME NEW k \in 0 .. Held' - 1
      PROVE  Kept(k)' = Kept(k + 1) /\ k + 1 \in 0 .. Held - 1
  <2>1. k \in Nat /\ 1 + k <= Entries /\ 1 + k = k + 1 /\ k + 1 \in 0 .. Held - 1
    BY <1>3, <1>4
  <2>2. After(After(m_tail, 1), k) = After(m_tail, 1 + k)
    BY <1>3, <2>1, AfterAfter
  <2>3. Kept(k)' = mbase[After(After(m_tail, 1), k)]
    BY <1>1 DEF Kept, After
  <2> QED
    BY <2>1, <2>2, <2>3 DEF Kept
<1>6. lastRead' = lastRead + 1
  <2>1. After(m_tail, 0) = m_tail
    BY <1>3, AfterIs DEF Slots
  <2>2. Rptr = Kept(0) /\ 0 \in 0 .. Held - 1
    BY <2>1, Counted DEF Rptr, Kept
  <2> QED
    BY <2>2 DEF Ring, TableTypes
<1>7. ASSUME NEW k \in 0 .. Held' - 1
      PROVE  Kept(k)'.seq = lastRead' + 1 + k
  BY <1>3, <1>5, <1>6 DEF Ring, TableTypes
<1>8. Held' = Readable' + InFlight' /\ m_seq' = lastRead' + 1 + Held'
  BY <1>1, <1>3, <1>4, <1>6, Counted DEF Ring, TableTypes
<1> QED
  BY <1>7, <1>8 DEF Ring

-----------------------------------------------------------------------------
(* An answer.                                                              *)

LEMMA SkipsToSlot ==
  ASSUME NEW i \in Slots, NEW buf, m_head0 \in Slots
  PROVE  SkipAnswered(buf, i) \in Slots
<1> DEFINE stops == {k \in Slots : After(i, k) = m_head0 \/ buf[After(i, k)].tsRecv = 0}
<1>1. IndexDifference(m_head0, i) \in stops
  BY DifferenceIsWay, TableAssumption DEF Slots
<1>2. stops \in SUBSET Nat /\ stops \subseteq Slots
  BY TableAssumption DEF Slots
<1>3. Min(stops) \in Slots
  <2> HIDE DEF stops
  <2> QED
    BY <1>1, <1>2, MinIsLeast
<1>4. Min(stops) \in 0 .. Entries
  BY <1>3, TableAssumption DEF Slots
<1>5. After(i, Min(stops)) \in Slots
  <2> HIDE DEF stops
  <2> QED
    BY <1>4, AfterType
<1> QED
  BY <1>5 DEF SkipAnswered

LEMMA AnswerTypes ==
  ASSUME TableTypes, NEW s \in Nat, NEW ts \in Int,
         SetRecv(s, ts), lastRead' = lastRead, astray' \in BOOLEAN
  PROVE  TableTypes'
<1> USE TableAssumption
<1> DEFINE reach  == IF InFlight = 0 THEN Entries ELSE InFlight
           places == {k \in 0 .. reach - 1 : mbase[After(m_head1, k)].seq = s}
           ii     == After(m_head1, Min(places))
           buf    == [mbase EXCEPT ![ii].tsRecv = ts]
<1>1. /\ mbase' = buf /\ m_head1' \in {SkipAnswered(buf, ii), m_head1} /\ places # {}
      /\ UNCHANGED <<m_seq, m_head0, m_tail>>
  BY DEF SetRecv
<1>2. InFlight \in 0 .. Entries - 1
  BY DifferenceIsWay DEF InFlight, TableTypes
<1>3. places \subseteq 0 .. Entries /\ places \in SUBSET Nat
  BY <1>2
<1>4. Min(places) \in 0 .. Entries
  <2> HIDE DEF places
  <2> QED
    BY <1>1, <1>3, MinIsLeast
<1>5. ii \in Slots
  <2> HIDE DEF places
  <2> QED
    BY <1>4, AfterType DEF TableTypes
<1> HIDE DEF ii
<1>6. m_head1' \in Slots
  BY <1>1, <1>5, SkipsToSlot DEF TableTypes
<1>7. mbase' \in Tables
  BY <1>1, <1>5 DEF TableTypes, Tables
<1> QED
  BY <1>1, <1>6, <1>7 DEF TableTypes

\* The search finds the one entry with the number, among those in flight, and
\* m_head1 stays or moves on, no further than to m_head0.
LEMMA AnswerMoves ==
  ASSUME TableTypes, Ring, NEW s \in Nat, NEW ts \in Int, ts # 0,
         InFlight # 0, SetRecv(s, ts)
  PROVE  \E k \in 0 .. InFlight - 1, j \in 0 .. InFlight :
           /\ mbase' = [mbase EXCEPT ![After(m_head1, k)].tsRecv = ts]
           /\ m_head1' = After(m_head1, j)
<1> USE TableAssumption
<1> DEFINE reach  == IF InFlight = 0 THEN Entries ELSE InFlight
           places == {k \in 0 .. reach - 1 : mbase[After(m_head1, k)].seq = s}
           ii     == After(m_head1, Min(places))
           buf    == [mbase EXCEPT ![ii].tsRecv = ts]
<1>1. /\ places # {} /\ mbase' = buf
      /\ m_head1' = IF GivenUp(Min(places)) THEN SkipAnswered(buf, ii) ELSE m_head1
  BY DEF SetRecv
<1>2. InFlight > 0
  BY Counted
<1> DEFINE k == Min(places)
<1>4. k \in 0 .. InFlight - 1
  <2>1. places \in SUBSET (0 .. InFlight - 1) /\ places \in SUBSET Nat
    BY <1>2
  <2>2. Min(places) \in places
    <3> HIDE DEF places
    <3> QED
      BY <1>1, <2>1, MinIsLeast
  <2> QED
    BY <2>1, <2>2
<1> HIDE DEF places, k
<1>5. mbase' = [mbase EXCEPT ![After(m_head1, k)].tsRecv = ts]
  BY <1>1 DEF k
<1>6. CASE ~ GivenUp(k)
  <2>1. m_head1' = After(m_head1, 0)
    BY <1>1, <1>6, AfterIs DEF k, TableTypes, Slots
  <2>2. 0 \in 0 .. InFlight
    BY <1>4, Counted
  <2> QED
    BY <1>4, <1>5, <2>1, <2>2
<1>7. CASE GivenUp(k)
  <2> DEFINE stops == {m \in Slots : After(ii, m) = m_head0 \/ buf[After(ii, m)].tsRecv = 0}
             m == Min(stops)
             j == k + m
  <2>1. m_head1' = After(ii, m)
    BY <1>1, <1>7 DEF k, SkipAnswered
  <2>2. /\ m_head1 \in Slots /\ ii \in Slots /\ ii = After(m_head1, k)
        /\ InFlight \in 0 .. Entries - 1
    BY <1>4, Counted, AfterType DEF TableTypes, k
  <2>3. InFlight - k \in stops
    <3>1. InFlight - k \in Nat /\ k \in Nat /\ k + (InFlight - k) <= Entries
          /\ k + (InFlight - k) = InFlight /\ InFlight - k \in Slots
      BY <1>4, <2>2 DEF Slots
    <3>2. After(After(m_head1, k), InFlight - k) = After(m_head1, k + (InFlight - k))
      BY <2>2, <3>1, AfterAfter
    <3> QED
      BY <2>2, <3>1, <3>2, Counted
  <2>4. m \in stops /\ m <= InFlight - k
    <3>1. stops \in SUBSET Nat
      BY DEF Slots
    <3> HIDE DEF stops
    <3> QED
      BY <2>3, <3>1, MinIsLeast
  <2>5. m \in Nat
    BY <2>4 DEF Slots
  <2> HIDE DEF m
  <2>6. j \in 0 .. InFlight /\ k \in Nat /\ k + m <= Entries
    BY <1>4, <2>2, <2>4, <2>5
  <2>7. After(ii, m) = After(m_head1, j)
    <3> HIDE DEF ii
    <3> QED
      BY <2>2, <2>5, <2>6, AfterAfter
  <2> HIDE DEF j
  <2> QED
    BY <1>4, <1>5, <2>1, <2>6, <2>7
<1> QED
  BY <1>6, <1>7

LEMMA AnswerIsKept ==
  ASSUME TableTypes, Ring, NEW s \in Nat, NEW ts \in Int, ts # 0,
         InFlight # 0, SetRecv(s, ts), lastRead' = lastRead, TableTypes'
  PROVE  Ring'
<1> USE TableAssumption
<1>1. m_seq' = m_seq /\ m_head0' = m_head0 /\ m_tail' = m_tail
  BY DEF SetRecv
<1>2. PICK k \in 0 .. InFlight - 1, j \in 0 .. InFlight :
        /\ mbase' = [mbase EXCEPT ![After(m_head1, k)].tsRecv = ts]
        /\ m_head1' = After(m_head1, j)
  BY AnswerMoves
<1>3. /\ Held \in 0 .. Entries - 1 /\ Readable \in 0 .. Held /\ InFlight \in 0 .. Held
      /\ Held = Readable + InFlight
      /\ k \in 0 .. InFlight /\ Readable + k \in 0 .. Held - 1
      /\ Readable + j \in 0 .. Held /\ InFlight - j \in 0 .. Held
      /\ After(m_head1, k) = After(m_tail, Readable + k)
      /\ After(m_head1, j) = After(m_tail, Readable + j)
  <2>1. /\ Held \in 0 .. Entries - 1 /\ Readable \in 0 .. Held /\ InFlight \in 0 .. Held
        /\ Held = Readable + InFlight
    BY Counted DEF Ring
  <2>2. k \in 0 .. InFlight
    BY <2>1
  <2> QED
    BY <2>1, <2>2, Counted
<1>5. Held' = Held /\ Readable' = Readable + j /\ InFlight' = InFlight - j
  <2>1. Held' = Held
    BY <1>1 DEF Held, IndexDifference
  <2>2. Readable' = IndexDifference(After(m_tail, Readable + j), m_tail)
    BY <1>1, <1>2, <1>3 DEF Readable, IndexDifference
  <2>3. IndexDifference(After(m_tail, Readable + j), m_tail) = Readable + j
    <3>1. m_tail \in Slots /\ Readable + j \in 0 .. Entries - 1
      BY <1>3 DEF TableTypes
    <3> QED
      BY <3>1, WayIsDifference
  <2>4. InFlight' = IndexDifference(m_head0, After(m_head1, j))
    BY <1>1, <1>2 DEF InFlight, IndexDifference
  <2>5. m_head0 = After(After(m_head1, j), InFlight - j)
    <3>1. /\ m_head1 \in Slots /\ j \in Nat /\ InFlight - j \in Nat
          /\ j + (InFlight - j) <= Entries /\ j + (InFlight - j) = InFlight
      BY <1>3 DEF TableTypes
    <3>2. After(After(m_head1, j), InFlight - j) = After(m_head1, j + (InFlight - j))
      BY <3>1, AfterAfter
    <3> QED
      BY <3>1, <3>2, Counted
  <2>6. IndexDifference(After(After(m_head1, j), InFlight - j), After(m_head1, j)) = InFlight - j
    <3>1. After(m_head1, j) \in Slots /\ InFlight - j \in 0 .. Entries - 1
      BY <1>2, <1>3 DEF TableTypes
    <3> QED
      BY <3>1, WayIsDifference
  <2> QED
    BY <2>1, <2>2, <2>3, <2>4, <2>5, <2>6
<1>6. ASSUME NEW l \in 0 .. Held - 1
      PROVE  Kept(l)'.seq = Kept(l).seq
  <2>1. l \in 0 .. Entries - 1 /\ Readable + k \in 0 .. Entries - 1
        /\ m_tail \in Slots /\ After(m_tail, l) \in Slots
    BY <1>3, Counted DEF TableTypes
  <2>2. l # Readable + k => After(m_tail, l) # After(m_tail, Readable + k)
    BY <2>1, AfterDiffers
  <2>3. Kept(l)' = mbase'[After(m_tail, l)]
    BY <1>1 DEF Kept, After
  <2> QED
    BY <1>2, <1>3, <2>1, <2>2, <2>3 DEF Kept, TableTypes, Tables
<1>7. Held' = Readable' + InFlight' /\ m_seq' = lastRead' + 1 + Held'
  BY <1>1, <1>3, <1>5 DEF Ring, TableTypes
<1>8. ASSUME NEW l \in 0 .. Held' - 1 PROVE Kept(l)'.seq = lastRead' + 1 + l
  BY <1>5, <1>6 DEF Ring
<1> QED
  BY <1>7, <1>8 DEF Ring

-----------------------------------------------------------------------------
(* A round of the limiter.                                                 *)

LEMMA QuotientType ==
  ASSUME NEW a \in Int, NEW n \in Nat \ {0}
  PROVE  Quotient(a, n) \in Int
BY DEF Quotient

LEMMA FasterType ==
  ASSUME NEW base \in Int, bandwidth \in 0 .. Cap
  PROVE  Faster(base) \in 0 .. Cap
<1> USE LimiterAssumption
<1>1. CASE base = 0
  BY <1>1 DEF Faster
<1>2. CASE base # 0
  <2>1. Magnitude(base) \in Nat \ {0}
    BY <1>2 DEF Magnitude
  <2>2. Mtu \div Magnitude(base) \in Nat
    <3> DEFINE d == Magnitude(base)
    <3> HIDE DEF d
    <3> QED
      BY <2>1 DEF d
  <2> QED
    BY <1>2, <2>2 DEF Faster
<1> QED
  BY <1>1, <1>2

LEMMA SlideTypes ==
  ASSUME NEW s \in Seq(Int), NEW x \in Int
  PROVE  Append(s, x) \in Seq(Int) /\ Tail(Append(s, x)) \in Seq(Int)
<1>1. Append(s, x) \in Seq(Int) /\ Append(s, x) # << >>
  BY AppendProperties
<1> QED
  BY <1>1, HeadTailProperties

LEMMA PushedTypes ==
  ASSUME PaceTypes, StatTypes, PushMinimum
  PROVE  q' \in Seq(Int) /\ y0' \in Int
<1> USE LimiterAssumption
<1>1. st.ymin \in Int /\ q \in Seq(Int) /\ y0 \in Int /\ Len(q) \in Nat
  BY DEF StatTypes, PaceTypes, Tallies
<1>2. Append(q, st.ymin) \in Seq(Int) /\ Tail(Append(q, st.ymin)) \in Seq(Int)
  BY <1>1, SlideTypes
<1>3. CASE Len(q) < Wnd
  <2>1. q' = Append(q, st.ymin) /\ y0' = y0 + st.ymin
    BY <1>3 DEF PushMinimum
  <2> QED
    BY <1>1, <1>2, <2>1
<1>4. CASE ~ (Len(q) < Wnd)
  <2>1. Head(q) \in Int
    BY <1>1, <1>4
  <2>2. q' = Tail(Append(q, st.ymin)) /\ y0' = y0 + st.ymin - Head(q)
    BY <1>4 DEF PushMinimum, PopOldest
  <2>3. y0' \in Int
    BY <1>1, <2>1, <2>2
  <2> QED
    BY <1>2, <2>2, <2>3
<1> QED
  BY <1>3, <1>4

\* What a judgement does to the clock: m_tsUpdated stays or moves to the
\* present, and a cut is dated.
Dated ==
  /\ clock' \in Nat /\ clock <= clock'
  /\ m_tsUpdated' \in {m_tsUpdated, clock'}
  /\ cutAt' = cutAt \/ (cutAt' = clock' /\ m_tsUpdated' = clock')

LEMMA JudgeTypes ==
  ASSUME PaceTypes, NEW now0 \in Int, NEW before \in Int, Judge(now0, before)
  PROVE  bandwidth' \in 0 .. Cap /\ cs' \in Int /\ Dated
<1> DEFINE total == cs + now0 - before
           slow  == Rising(total, before) \/ st.ndropped > 1
<1> USE LimiterAssumption
<1>1. total \in Int
  BY DEF PaceTypes
<1>2. CASE SlowDown
  <2>1. bandwidth' \in 0 .. Cap
    BY <1>2 DEF SlowDown, PaceTypes
  <2> QED
    BY <1>2, <2>1 DEF SlowDown, PaceTypes, Dated
<1>3. CASE /\ clock' \in {clock, clock + 1}
           /\ bandwidth' = bandwidth \/ bandwidth' = Faster(now0)
           /\ IF Falling(total, before)
                THEN cs' = 0 /\ m_tsUpdated' = clock'
                ELSE cs' = total /\ UNCHANGED m_tsUpdated
           /\ UNCHANGED cutAt
  <2>1. bandwidth' \in 0 .. Cap
    BY <1>3, FasterType DEF PaceTypes
  <2>2. clock' \in Nat /\ clock <= clock'
    BY <1>3 DEF PaceTypes
  <2>3. CASE cs' = 0 /\ m_tsUpdated' = clock'
    BY <1>3, <2>1, <2>2, <2>3 DEF Dated
  <2>4. CASE cs' = total /\ m_tsUpdated' = m_tsUpdated
    BY <1>1, <1>3, <2>1, <2>2, <2>4 DEF Dated
  <2> QED
    BY <1>3, <2>3, <2>4
<1> QED
  BY <1>2, <1>3 DEF Judge

LEMMA RoundTypes ==
  ASSUME PaceTypes, StatTypes, Round
  PROVE  PaceTypes' /\ Dated
<1> USE LimiterAssumption
<1>1. q' \in Seq(Int) /\ y0' \in Int
  BY PushedTypes DEF Round
<1>2. CASE UNCHANGED <<symin0, bandwidth, cs, cutAt, changedAt, m_tsUpdated, clock>>
  <2>1. /\ clock' = clock /\ m_tsUpdated' = m_tsUpdated /\ cutAt' = cutAt
        /\ bandwidth' = bandwidth /\ symin0' = symin0 /\ cs' = cs
    BY <1>2
  <2>2. Dated
    BY <2>1 DEF PaceTypes, Dated
  <2>3. pc' = "sleep"
    BY DEF Round
  <2> QED
    BY <1>1, <2>1, <2>2, <2>3 DEF PaceTypes
<1>3. CASE symin0' = Quotient(y0', Wnd) /\ symin0 # 0 /\ Judge(symin0', symin0)
  <2>1. symin0' \in Int /\ symin0 \in Int
    BY <1>1, <1>3, QuotientType DEF PaceTypes
  <2>2. bandwidth' \in 0 .. Cap /\ cs' \in Int /\ Dated
    BY <1>3, <2>1, JudgeTypes
  <2> QED
    BY <1>1, <2>1, <2>2 DEF PaceTypes, Round, Dated
<1>4. CASE /\ symin0' = Quotient(y0', Wnd)
           /\ UNCHANGED <<bandwidth, cs, cutAt, changedAt, m_tsUpdated, clock>>
  <2>1. symin0' \in Int
    BY <1>1, <1>4, QuotientType
  <2>2. /\ clock' = clock /\ m_tsUpdated' = m_tsUpdated /\ cutAt' = cutAt
        /\ bandwidth' = bandwidth /\ cs' = cs
    BY <1>4
  <2>3. Dated
    BY <2>2 DEF PaceTypes, Dated
  <2>4. pc' = "sleep"
    BY DEF Round
  <2> QED
    BY <1>1, <2>1, <2>2, <2>3, <2>4 DEF PaceTypes
<1> QED
  BY <1>2, <1>3, <1>4 DEF Round

-----------------------------------------------------------------------------
(* Every step keeps the invariant.                                         *)

\* The invariant after the step, and what the action property says of it.
Preserved == LInv' /\ RestsOnNew

LEMMA SameTable ==
  ASSUME TableTypes, RingInv, UNCHANGED <<pttVars, astray, lastRead>>
  PROVE  TableTypes' /\ RingInv'
<1>1. UNCHANGED <<mbase, m_seq, m_head0, m_head1, m_tail, astray, lastRead>>
  BY DEF pttVars
<1>2. Held' = Held /\ Readable' = Readable /\ InFlight' = InFlight
  BY <1>1 DEF Held, Readable, InFlight, IndexDifference
<1>3. \A k \in 0 .. Held - 1 : Kept(k)' = Kept(k)
  BY <1>1 DEF Kept, After
<1>4. TableTypes'
  BY <1>1 DEF TableTypes
<1>5. RingInv'
  BY <1>1, <1>2, <1>3 DEF RingInv, Ring
<1> QED
  BY <1>4, <1>5

LEMMA SameRate ==
  ASSUME PaceTypes, bandwidth' = bandwidth
  PROVE  RestsOnNew
BY LimiterAssumption DEF RestsOnNew, PaceTypes

LEMMA SendKeeps ==
  ASSUME LInv, Send
  PROVE  Preserved
<1>1. /\ m_seq <= MaxSeq /\ clock' \in {clock, clock + 1} /\ SetSent(clock')
      /\ astray' = (astray \/ TableFull)
      /\ UNCHANGED <<pc, st, lastRead, bandwidth, m_tsUpdated, q, y0, symin0, cs, cutAt>>
  BY DEF Send, rateVars
<1>2. clock' \in Nat /\ clock <= clock'
  BY <1>1 DEF LInv, PaceTypes
<1>3. TableTypes'
  BY <1>1, <1>2, SentTypes DEF LInv, TableTypes
<1>4. RingInv'
  BY <1>1, <1>2, SentIsKept DEF LInv, RingInv
<1>5. PaceTypes' /\ StatTypes' /\ CutInv'
  BY <1>1, <1>2 DEF LInv, PaceTypes, StatTypes, CutInv
<1> QED
  BY <1>1, <1>3, <1>4, <1>5, SameRate DEF Preserved, LInv

LEMMA AnswerKeeps ==
  ASSUME LInv, NEW s \in 1 .. MaxSeq, NEW d \in Delays, Answer(s, d)
  PROVE  Preserved
<1> USE LimiterAssumption
<1>1. /\ astray' = (astray \/ InFlight = 0)
      /\ UNCHANGED <<pc, clock, st, lastRead, bandwidth, m_tsUpdated, q, y0, symin0, cs, cutAt>>
  BY DEF Answer, rateVars
<1>2. PICK ts \in Int : ts # 0 /\ SetRecv(s, ts)
  <2>1. PICK i \in Slots : mbase[i].tsSent + d # 0 /\ SetRecv(s, mbase[i].tsSent + d)
    BY DEF Answer
  <2>2. mbase[i].tsSent + d \in Int
    BY DEF LInv, TableTypes, Tables
  <2> QED
    BY <2>1, <2>2
<1>3. TableTypes'
  BY <1>1, <1>2, AnswerTypes DEF LInv, TableTypes
<1>4. RingInv'
  <2> SUFFICES ASSUME ~ astray' PROVE Ring'
    BY DEF RingInv
  <2>1. ~ astray /\ InFlight # 0
    BY <1>1
  <2>2. TableTypes /\ Ring
    BY <2>1 DEF LInv, RingInv
  <2>3. s \in Nat /\ lastRead' = lastRead
    BY <1>1
  <2> QED
    BY <1>2, <1>3, <2>1, <2>2, <2>3, AnswerIsKept
<1>5. PaceTypes' /\ StatTypes' /\ CutInv'
  BY <1>1 DEF LInv, PaceTypes, StatTypes, CutInv
<1> QED
  BY <1>1, <1>3, <1>4, <1>5, SameRate DEF Preserved, LInv

LEMMA BeginKeeps ==
  ASSUME LInv, NEW g \in Garbage, Begin(g)
  PROVE  Preserved
<1> USE LimiterAssumption
<1>1. /\ pc' = "stats" /\ st' = [ymin |-> g, nrecv |-> 0, ndropped |-> 0, counted |-> {}]
      /\ UNCHANGED <<pttVars, astray, lastRead>>
      /\ UNCHANGED <<clock, bandwidth, m_tsUpdated, q, y0, symin0, cs, cutAt>>
  BY DEF Begin, rateVars
<1>2. TableTypes' /\ RingInv'
  BY <1>1, SameTable DEF LInv
<1>3. PaceTypes' /\ StatTypes' /\ CutInv'
  BY <1>1 DEF LInv, PaceTypes, StatTypes, Tallies, CutInv
<1> QED
  BY <1>1, <1>2, <1>3, SameRate DEF Preserved, LInv

LEMMA StatsDoneKeeps ==
  ASSUME LInv, StatsDone
  PROVE  Preserved
<1>1. /\ pc = "stats" /\ pc' \in {"sleep", "round"}
      /\ UNCHANGED <<pttVars, astray, lastRead>>
      /\ UNCHANGED <<clock, st, bandwidth, m_tsUpdated, q, y0, symin0, cs, cutAt>>
  BY DEF StatsDone, rateVars
<1>2. TableTypes' /\ RingInv'
  BY <1>1, SameTable DEF LInv
<1>3. PaceTypes' /\ StatTypes' /\ CutInv'
  BY <1>1 DEF LInv, PaceTypes, StatTypes, CutInv
<1> QED
  BY <1>1, <1>2, <1>3, SameRate DEF Preserved, LInv

LEMMA RoundKeeps ==
  ASSUME LInv, Round
  PROVE  Preserved
<1>1. /\ pc = "round" /\ pc' = "sleep"
      /\ UNCHANGED <<pttVars, astray, lastRead>> /\ UNCHANGED st
  BY DEF Round
<1>2. TableTypes' /\ RingInv'
  BY <1>1, SameTable DEF LInv
<1>3. PaceTypes' /\ StatTypes' /\ Dated
  BY <1>1, RoundTypes DEF LInv, StatTypes
<1>4. CutInv'
  BY <1>1, <1>3 DEF LInv, CutInv, Dated, PaceTypes
<1>5. RestsOnNew
  BY <1>1 DEF RestsOnNew, LInv, CutInv
<1> QED
  BY <1>2, <1>3, <1>4, <1>5 DEF Preserved, LInv

LEMMA RptrTypes ==
  ASSUME TableTypes
  PROVE  Rptr.seq \in Nat /\ Rptr.tsSent \in Nat /\ Rptr.tsRecv \in Int
BY LimiterAssumption DEF TableTypes, Tables, Rptr

LEMMA ReadKeeps ==
  ASSUME LInv, ReadOne, StatTypes',
         \/ st'.counted = st.counted
         \/ st'.counted = st.counted \cup {Rptr.tsSent} /\ m_tsUpdated <= Rptr.tsSent
  PROVE  Preserved
<1>1. /\ pc = "stats" /\ pc' = "stats" /\ Readable > 0 /\ ReadAdvance /\ lastRead' = Rptr.seq
      /\ UNCHANGED <<clock, astray, bandwidth, m_tsUpdated, q, y0, symin0, cs, cutAt>>
  BY DEF ReadOne, rateVars
<1>2. TableTypes'
  <2>1. m_tail' \in Slots /\ UNCHANGED <<mbase, m_seq, m_head0, m_head1>>
    BY <1>1, AfterType, TableAssumption DEF ReadAdvance, LInv, TableTypes
  <2> QED
    BY <1>1, <2>1, RptrTypes DEF LInv, TableTypes
<1>3. RingInv'
  BY <1>1, ReadIsGone DEF LInv, RingInv
<1>4. PaceTypes'
  BY <1>1 DEF LInv, PaceTypes
<1>5. CutInv'
  <2>1. m_tsUpdated \in Nat /\ cutAt \in Nat /\ Rptr.tsSent \in Nat
    BY RptrTypes DEF LInv, PaceTypes, CutInv
  <2>2. \A ts \in st'.counted : ts >= cutAt
    BY <1>1, <2>1 DEF LInv, CutInv
  <2> QED
    BY <1>1, <2>2 DEF LInv, CutInv
<1> QED
  BY <1>1, <1>2, <1>3, <1>4, <1>5, SameRate DEF Preserved, LInv

LEMMA SkipOldKeeps ==
  ASSUME LInv, SkipOld
  PROVE  Preserved
BY ReadKeeps DEF SkipOld, LInv, StatTypes

LEMMA TallyChanges ==
  ASSUME NEW r \in Tallies, NEW c \in SUBSET Nat
  PROVE  /\ \A i \in Int :
              [r EXCEPT !.ymin = i, !.nrecv = r.nrecv + 1, !.counted = c] \in Tallies
         /\ [r EXCEPT !.ndropped = r.ndropped + 1, !.counted = c] \in Tallies
<1>1. r.nrecv + 1 \in Nat /\ r.ndropped + 1 \in Nat
  BY DEF Tallies
<1>2. ASSUME NEW n \in Nat
      PROVE  /\ \A i \in Int : [r EXCEPT !.ymin = i, !.nrecv = n, !.counted = c] \in Tallies
             /\ [r EXCEPT !.ndropped = n, !.counted = c] \in Tallies
  BY Zenon DEF Tallies
<1> QED
  BY <1>1, <1>2

LEMMA CountReceivedKeeps ==
  ASSUME LInv, CountReceived
  PROVE  Preserved
<1> DEFINE y == Rptr.tsRecv - Rptr.tsSent
<1>1. /\ m_tsUpdated <= Rptr.tsSent /\ ReadOne
      /\ st' = [st EXCEPT !.ymin = IF st.nrecv = 0 \/ y < st.ymin THEN y ELSE st.ymin,
                          !.nrecv = st.nrecv + 1, !.counted = st.counted \cup {Rptr.tsSent}]
  BY DEF CountReceived
<1>2. y \in Int /\ Rptr.tsSent \in Nat
  BY RptrTypes DEF LInv
<1> HIDE DEF y
<1>3. StatTypes' /\ st'.counted = st.counted \cup {Rptr.tsSent}
  <2>1. st \in Tallies
    BY DEF LInv, StatTypes
  <2>2. st.counted \cup {Rptr.tsSent} \in SUBSET Nat
    BY <1>2, <2>1 DEF Tallies
  <2>3. st' \in Tallies
    <3> DEFINE i == IF st.nrecv = 0 \/ y < st.ymin THEN y ELSE st.ymin
    <3>1. i \in Int
      BY <1>2, <2>1 DEF Tallies
    <3> HIDE DEF i
    <3>2. [st EXCEPT !.ymin = i, !.nrecv = st.nrecv + 1,
                     !.counted = st.counted \cup {Rptr.tsSent}] \in Tallies
      BY <2>1, <2>2, <3>1, TallyChanges
    <3> QED
      BY <1>1, <3>2 DEF i
  <2>4. st'.counted = st.counted \cup {Rptr.tsSent}
    BY <1>1, <2>1 DEF Tallies
  <2> QED
    BY <2>3, <2>4 DEF StatTypes
<1> QED
  BY <1>1, <1>3, ReadKeeps

LEMMA CountDroppedKeeps ==
  ASSUME LInv, CountDropped
  PROVE  Preserved
<1>1. /\ m_tsUpdated <= Rptr.tsSent /\ ReadOne
      /\ st' = [st EXCEPT !.ndropped = st.ndropped + 1, !.counted = st.counted \cup {Rptr.tsSent}]
  BY DEF CountDropped
<1>2. Rptr.tsSent \in Nat
  BY RptrTypes DEF LInv
<1>3. StatTypes' /\ st'.counted = st.counted \cup {Rptr.tsSent}
  <2>1. st \in Tallies
    BY DEF LInv, StatTypes
  <2>2. st.counted \cup {Rptr.tsSent} \in SUBSET Nat
    BY <1>2, <2>1 DEF Tallies
  <2>3. st' \in Tallies
    BY <1>1, <2>1, <2>2, TallyChanges
  <2>4. st'.counted = st.counted \cup {Rptr.tsSent}
    BY <1>1, <2>1 DEF Tallies
  <2> QED
    BY <2>3, <2>4 DEF StatTypes
<1> QED
  BY <1>1, <1>3, ReadKeeps

LEMMA StutterKeeps ==
  ASSUME LInv, UNCHANGED limiterVars
  PROVE  Preserved
<1>1. /\ UNCHANGED <<pttVars, astray, lastRead>>
      /\ UNCHANGED <<pc, clock, st, bandwidth, m_tsUpdated, q, y0, symin0, cs, cutAt>>
  BY DEF limiterVars, rateVars
<1>2. TableTypes' /\ RingInv'
  BY <1>1, SameTable DEF LInv
<1>3. PaceTypes' /\ StatTypes' /\ CutInv'
  BY <1>1 DEF LInv, PaceTypes, StatTypes, CutInv
<1> QED
  BY <1>1, <1>2, <1>3, SameRate DEF Preserved, LInv

LEMMA LimiterInitially == LimiterInit => LInv
<1> SUFFICES ASSUME LimiterInit PROVE LInv
  OBVIOUS
<1> USE TableAssumption, LimiterAssumption
<1>1. TableTypes
  <2>1. mbase \in Tables
    <3>1. [seq |-> 0, tsSent |-> 0, tsRecv |-> 0] \in [seq : 0 .. MaxSeq, tsSent : Nat, tsRecv : Int]
      OBVIOUS
    <3> QED
      BY <3>1 DEF LimiterInit, PTTInit, Tables
  <2> QED
    BY <2>1 DEF LimiterInit, PTTInit, TableTypes, Slots
<1>2. PaceTypes /\ StatTypes
  BY DEF LimiterInit, PaceTypes, StatTypes, Tallies
<1>3. Held = 0 /\ Readable = 0 /\ InFlight = 0 /\ m_seq = 1 /\ lastRead = 0
  BY DEF LimiterInit, PTTInit, Held, Readable, InFlight, IndexDifference
<1>4. RingInv /\ CutInv
  BY <1>3 DEF LimiterInit, RingInv, Ring, CutInv
<1> QED
  BY <1>1, <1>2, <1>4 DEF LInv

LEMMA LimiterStep == LInv /\ [LimiterNext]_limiterVars => Preserved
<1> SUFFICES ASSUME LInv, [LimiterNext]_limiterVars PROVE Preserved
  OBVIOUS
<1>1. CASE Send
  BY <1>1, SendKeeps
<1>2. CASE \E s \in 1 .. MaxSeq, d \in Delays : Answer(s, d)
  BY <1>2, AnswerKeeps
<1>3. CASE Limit
  BY <1>3, BeginKeeps, SkipOldKeeps, CountReceivedKeeps, CountDroppedKeeps, StatsDoneKeeps,
     RoundKeeps DEF Limit
<1>4. CASE UNCHANGED limiterVars
  BY <1>4, StutterKeeps
<1> QED
  BY <1>1, <1>2, <1>3, <1>4 DEF LimiterNext

THEOREM LimiterInvariant == LimiterSpec => []LInv
<1>1. LInv /\ [LimiterNext]_limiterVars => LInv'
  BY LimiterStep DEF Preserved
<1> QED
  BY <1>1, LimiterInitially, PTL DEF LimiterSpec

-----------------------------------------------------------------------------
(* What follows from it.                                                   *)

\* The bandwidth never leaves 0 .. Cap, whatever the delays measured, and
\* no index leaves the table (UDPStream.cpp:289-438, PTT.cpp).
THEOREM LimiterIsTyped == LimiterSpec => []LimiterTypeOK
<1>1. LInv => LimiterTypeOK
  BY DEF LInv, TableTypes, PaceTypes, Tables, LimiterTypeOK
<1> QED
  BY <1>1, LimiterInvariant, PTL

\* As long as nothing was entered into a full table and no answer was found
\* with nothing in flight, each outcome is read once and in the order of
\* sending, for every size of the table and however late, often and out of
\* order the answers come (PTT.cpp:112-214).
THEOREM OutcomesInOrder == LimiterSpec => []EachOutcomeOnce
<1>1. LInv => EachOutcomeOnce
  <2> SUFFICES ASSUME LInv, ~astray, Readable > 0 PROVE Rptr.seq = lastRead + 1
    BY DEF EachOutcomeOnce
  <2>1. Ring
    BY DEF LInv, RingInv
  <2>2. Held \in Nat /\ Readable \in 0 .. Held /\ 0 \in 0 .. Held - 1
    BY <2>1, Counted, TableAssumption DEF LInv
  <2>3. After(m_tail, 0) = m_tail
    BY AfterIs, TableAssumption DEF LInv, TableTypes, Slots
  <2>4. Rptr.seq = lastRead + 1 + 0
    BY <2>1, <2>2, <2>3 DEF Ring, Kept, Rptr
  <2> QED
    BY <2>4 DEF LInv, TableTypes
<1> QED
  BY <1>1, LimiterInvariant, PTL

\* A cut of the bandwidth rests on packets stamped no earlier than the cut
\* before, for every clock, every delay and every use of the table
\* (UDPStream.cpp:298).
THEOREM CutsRestOnNewPackets == LimiterSpec => CutsRestOnNew
<1>1. LInv /\ [LimiterNext]_limiterVars => [RestsOnNew]_limiterVars
  BY LimiterStep DEF Preserved
<1> QED
  BY <1>1, LimiterInvariant, PTL DEF LimiterSpec, CutsRestOnNew

-----------------------------------------------------------------------------
(* How often each value occurs.                                            *)

LEMMA OccursWithout ==
  ASSUME NEW f, NEW S, IsFiniteSet(S), NEW x \in S
  PROVE  HowOften(f, S) (-) SetToBag({f[x]}) = HowOften(f, S \ {x})
<1> DEFINE At1(v) == {i \in S : f[i] = v}
           At0(v) == {i \in S \ {x} : f[i] = v}
           B == HowOften(f, S)
           D == {d \in DOMAIN B : (IF d = f[x] THEN B[d] - 1 ELSE B[d]) > 0}
<1>1. ASSUME NEW v
      PROVE  /\ Cardinality(At1(v)) \in Nat /\ Cardinality(At0(v)) \in Nat
             /\ At0(v) = {} <=> Cardinality(At0(v)) = 0
             /\ v # f[x] => Cardinality(At0(v)) = Cardinality(At1(v))
             /\ v = f[x] => Cardinality(At0(v)) = Cardinality(At1(v)) - 1
  <2>1. IsFiniteSet(At1(v)) /\ IsFiniteSet(At0(v))
    BY FS_Subset
  <2>2. v # f[x] => At0(v) = At1(v)
    OBVIOUS
  <2>3. v = f[x] => x \in At1(v) /\ At0(v) = At1(v) \ {x}
    OBVIOUS
  <2> HIDE DEF At0, At1
  <2>4. v = f[x] => Cardinality(At1(v) \ {x}) = Cardinality(At1(v)) - 1
    BY <2>1, <2>3, FS_RemoveElement
  <2> QED
    BY <2>1, <2>2, <2>3, <2>4, FS_CardinalityType, FS_EmptySet
<1>2. DOMAIN B = {f[i] : i \in S} /\ \A v \in DOMAIN B : B[v] = Cardinality(At1(v))
  BY DEF HowOften
<1>3. B (-) SetToBag({f[x]}) = [v \in D |-> IF v = f[x] THEN B[v] - 1 ELSE B[v]]
  BY DEF (-), SetToBag
<1>4. D = {f[i] : i \in S \ {x}}
  <2>1. ASSUME NEW v \in D PROVE v \in {f[i] : i \in S \ {x}}
    <3>0. v \in DOMAIN B /\ (IF v = f[x] THEN B[v] - 1 ELSE B[v]) > 0
      BY <2>1
    <3>1. Cardinality(At0(v)) # 0
      <4> HIDE DEF At0, At1, B, D
      <4>1. B[v] = Cardinality(At1(v))
        BY <1>2, <3>0
      <4> QED
        BY <1>1, <3>0, <4>1
    <3> QED
      BY <1>1, <3>1
  <2>2. ASSUME NEW i \in S \ {x} PROVE f[i] \in D
    <3>1. i \in At0(f[i]) /\ f[i] \in DOMAIN B
      BY <1>2
    <3>2. Cardinality(At0(f[i])) # 0
      BY <1>1, <3>1
    <3>3. (IF f[i] = f[x] THEN B[f[i]] - 1 ELSE B[f[i]]) > 0
      <4> HIDE DEF At0, At1, B, D
      <4>1. B[f[i]] = Cardinality(At1(f[i]))
        BY <1>2, <3>1
      <4> QED
        BY <1>1, <3>2, <4>1
    <3> QED
      BY <3>1, <3>3
  <2> QED
    BY <2>1, <2>2
<1>5. \A v \in D : (IF v = f[x] THEN B[v] - 1 ELSE B[v]) = Cardinality(At0(v))
  <2> SUFFICES ASSUME NEW v \in D
               PROVE  (IF v = f[x] THEN B[v] - 1 ELSE B[v]) = Cardinality(At0(v))
    OBVIOUS
  <2>1. v \in DOMAIN B
    OBVIOUS
  <2> HIDE DEF At0, At1, B, D
  <2>2. B[v] = Cardinality(At1(v))
    BY <1>2, <2>1
  <2> QED
    BY <1>1, <2>2
<1> HIDE DEF D, B
<1>6. [v \in D |-> IF v = f[x] THEN B[v] - 1 ELSE B[v]] = [v \in D |-> Cardinality(At0(v))]
  BY <1>5
<1> QED
  BY <1>3, <1>4, <1>6 DEF HowOften, B

LEMMA OccursWith ==
  ASSUME NEW f, NEW S, IsFiniteSet(S), NEW x, x \notin S
  PROVE  HowOften(f, S) (+) SetToBag({f[x]}) = HowOften(f, S \cup {x})
<1> DEFINE At0(v) == {i \in S : f[i] = v}
           At1(v) == {i \in S \cup {x} : f[i] = v}
           B == HowOften(f, S)
           D == {f[i] : i \in S} \cup {f[x]}
           sum(v) == (IF v \in {f[i] : i \in S} THEN B[v] ELSE 0) + (IF v = f[x] THEN 1 ELSE 0)
<1>1. ASSUME NEW v
      PROVE  /\ Cardinality(At0(v)) \in Nat /\ Cardinality(At1(v)) \in Nat
             /\ v \notin {f[i] : i \in S} => Cardinality(At0(v)) = 0
             /\ v # f[x] => Cardinality(At1(v)) = Cardinality(At0(v))
             /\ v = f[x] => Cardinality(At1(v)) = Cardinality(At0(v)) + 1
  <2>1. IsFiniteSet(S \cup {x})
    BY FS_AddElement
  <2>2. IsFiniteSet(At1(v)) /\ IsFiniteSet(At0(v))
    BY <2>1, FS_Subset
  <2>3. v # f[x] => At1(v) = At0(v)
    OBVIOUS
  <2>4. v = f[x] => x \notin At0(v) /\ At1(v) = At0(v) \cup {x}
    OBVIOUS
  <2>5. v \notin {f[i] : i \in S} => At0(v) = {}
    OBVIOUS
  <2> HIDE DEF At0, At1
  <2>6. v = f[x] => Cardinality(At0(v) \cup {x}) = Cardinality(At0(v)) + 1
    BY <2>2, <2>4, FS_AddElement
  <2> QED
    BY <2>2, <2>3, <2>4, <2>5, <2>6, FS_CardinalityType, FS_EmptySet
<1>2. DOMAIN B = {f[i] : i \in S} /\ \A v \in DOMAIN B : B[v] = Cardinality(At0(v))
  BY DEF HowOften
<1>3. B (+) SetToBag({f[x]}) = [v \in D |-> sum(v)]
  BY <1>2 DEF (+), SetToBag
<1>4. D = {f[i] : i \in S \cup {x}}
  OBVIOUS
<1>5. ASSUME NEW v \in D PROVE sum(v) = Cardinality(At1(v))
  <2>1. v \in DOMAIN B => B[v] = Cardinality(At0(v))
    BY <1>2
  <2> HIDE DEF At0, At1, B, D
  <2> QED
    BY <1>1, <1>2, <2>1
<1> HIDE DEF D, B, sum
<1>6. [v \in D |-> sum(v)] = [v \in D |-> Cardinality(At1(v))]
  BY <1>5
<1> QED
  BY <1>3, <1>4, <1>6 DEF HowOften, B

LEMMA OccursSame ==
  ASSUME NEW f, NEW e, NEW S, \A i \in S : e[i] = f[i]
  PROVE  HowOften(e, S) = HowOften(f, S)
<1>1. {e[i] : i \in S} = {f[i] : i \in S}
  OBVIOUS
<1>2. \A v : {i \in S : e[i] = v} = {i \in S : f[i] = v}
  OBVIOUS
<1> QED
  BY <1>1, <1>2 DEF HowOften

-----------------------------------------------------------------------------
(* A sample.                                                               *)

\* The window after a sample: the oldest leaves a full window.
Oldest == Len(seen) - Count + 1
Rest   == IF Full THEN Window \ {Oldest} ELSE Window

LEMMA WindowSlides ==
  ASSUME SampleTypes, m_size # 0, NEW val \in Values, seen' = Append(seen, val), m_size' = m_size
  PROVE  /\ Len(seen) \in Nat /\ Count \in 0 .. Len(seen) /\ Count <= m_size
         /\ Len(seen') = Len(seen) + 1 /\ seen'[Len(seen) + 1] = val
         /\ \A i \in 1 .. Len(seen) : seen'[i] = seen[i]
         /\ Full => Count = m_size /\ Oldest \in Window
         /\ ~ Full => Count < m_size
         /\ Full => Count' = Count
         /\ ~ Full => Count' = Count + 1
         /\ Window' = Rest \cup {Len(seen) + 1} /\ Len(seen) + 1 \notin Rest
         /\ Rest \subseteq 1 .. Len(seen) /\ Window \subseteq 1 .. Len(seen)
<1> DEFINE L == Len(seen)
<1>1. /\ L \in Nat /\ m_size \in Nat /\ m_size > 1 /\ m_count = L
      /\ Len(seen') = L + 1 /\ seen'[L + 1] = val
      /\ \A i \in 1 .. L : seen'[i] = seen[i]
  <2>1. seen \in Seq(Values)
    BY DEF SampleTypes
  <2>2. /\ L \in Nat /\ Len(Append(seen, val)) = L + 1 /\ Append(seen, val)[L + 1] = val
        /\ \A i \in 1 .. L : Append(seen, val)[i] = seen[i]
    BY <2>1, AppendProperties
  <2> QED
    BY <2>2 DEF SampleTypes
<1>2. /\ Count = IF L <= m_size THEN L ELSE m_size
      /\ Count' = IF L + 1 <= m_size THEN L + 1 ELSE m_size
      /\ Full <=> L >= m_size
  BY <1>1 DEF Count, Lesser, Full
<1>3. Window = L - Count + 1 .. L
  BY DEF Window
<1>4. Window' = Rest \cup {L + 1}
  <2>1. Window' = Len(seen') - Count' + 1 .. Len(seen')
    BY DEF Window
  <2>2. PICK c \in Nat, n \in Nat : c = Count' /\ n = Len(seen')
    BY <1>1, <1>2
  <2>3. Window' = n - c + 1 .. n
    BY <2>1, <2>2
  <2>4. CASE Full
    <3>1. n = L + 1 /\ c = m_size /\ Count = m_size
      BY <1>1, <1>2, <2>2, <2>4
    <3>2. Window' = L + 1 - m_size + 1 .. L + 1
      BY <2>3, <3>1
    <3>3. Rest = (L - m_size + 1 .. L) \ {L - m_size + 1}
      BY <1>3, <2>4, <3>1 DEF Rest, Oldest
    <3> HIDE DEF L
    <3> QED
      BY <1>1, <1>2, <2>4, <3>2, <3>3
  <2>5. CASE ~ Full
    <3>1. n = L + 1 /\ c = L + 1 /\ Count = L
      BY <1>1, <1>2, <2>2, <2>5
    <3>2. Window' = 1 .. L + 1
      BY <1>1, <2>3, <3>1
    <3>3. Rest = 1 .. L
      BY <1>1, <1>3, <2>5, <3>1 DEF Rest
    <3> HIDE DEF L
    <3> QED
      BY <1>1, <3>2, <3>3
  <2> QED
    BY <2>4, <2>5
<1> HIDE DEF L
<1>5. /\ Full => Count = m_size /\ Oldest \in Window
      /\ ~ Full => Count < m_size
  BY <1>1, <1>2, <1>3 DEF Oldest, L
<1>6. Window \subseteq 1 .. L /\ Rest \subseteq Window /\ L + 1 \notin Rest
  BY <1>1, <1>2, <1>3 DEF Rest
<1> QED
  BY <1>1, <1>2, <1>4, <1>5, <1>6 DEF L

\* The slot overwritten holds the sample that leaves.
LEMMA OverwritesOldest ==
  ASSUME SampleTypes, RingHolds, m_size # 0, Full
  PROVE  m_buf[NextHead] = seen[Oldest]
<1>1. /\ Len(seen) \in Nat /\ m_size \in Nat /\ m_size > 1 /\ m_count = Len(seen)
      /\ m_head \in 0 .. m_size - 1
  BY DEF SampleTypes
<1>2. Count = m_size /\ m_size - 1 \in 0 .. Count - 1
  BY <1>1 DEF Count, Lesser, Full
<1>3. Back(m_head, m_size - 1) = NextHead
  BY <1>1 DEF Back, NextHead
<1>4. Len(seen) - (m_size - 1) = Oldest
  BY <1>1, <1>2 DEF Oldest
<1> QED
  BY <1>2, <1>3, <1>4 DEF RingHolds

LEMMA RingKeeps ==
  ASSUME SampleTypes, RingHolds, m_size # 0, NEW val \in Values, Sample(val)
  PROVE  SampleTypes' /\ RingHolds'
<1>1. /\ m_head' = NextHead /\ m_count' = m_count + 1 /\ m_buf' = [m_buf EXCEPT ![NextHead] = val]
      /\ seen' = Append(seen, val) /\ m_size' = m_size
  BY DEF Sample
<1>2. /\ m_size \in Nat /\ m_size > 1 /\ m_count = Len(seen) /\ seen \in Seq(Values)
      /\ m_head \in 0 .. m_size - 1 /\ m_buf \in [0 .. m_size - 1 -> Nat]
  BY DEF SampleTypes
<1>3. NextHead \in 0 .. m_size - 1
  BY <1>2 DEF NextHead
<1>4. /\ Len(seen) \in Nat /\ Count \in Nat /\ Count <= m_size /\ Count <= Len(seen)
      /\ Len(seen') = Len(seen) + 1 /\ seen'[Len(seen) + 1] = val
      /\ \A i \in 1 .. Len(seen) : seen'[i] = seen[i]
      /\ Full => Count' = Count
      /\ Full => Count = m_size
      /\ ~ Full => Count' = Count + 1
      /\ ~ Full => Count < m_size
  BY <1>1, WindowSlides
<1>5. SampleTypes'
  <2>1. val \in Nat
    BY StatsAssumption
  <2>2. m_buf' \in [0 .. m_size - 1 -> Nat]
    BY <1>1, <1>2, <2>1
  <2>3. seen' \in Seq(Values)
    BY <1>1, <1>2, AppendProperties
  <2> QED
    BY <1>1, <1>2, <1>3, <1>4, <2>2, <2>3 DEF SampleTypes
<1>6. Count \in Nat /\ m_size \in Nat /\ Count <= m_size
  BY <1>2, <1>4
<1>7. PICK c \in Nat : c = Count' /\ c <= Count + 1 /\ c <= m_size
  <2>1. CASE Full
    <3>1. Count' = Count
      BY <1>4, <2>1
    <3> QED
      BY <1>6, <3>1
  <2>2. CASE ~ Full
    <3>1. Count' = Count + 1 /\ Count < m_size
      BY <1>4, <2>2
    <3>2. Count + 1 \in Nat /\ Count + 1 <= m_size
      BY <1>6, <3>1
    <3> QED
      BY <1>6, <3>1, <3>2
  <2> QED
    BY <2>1, <2>2
<1>8. c <= Count + 1 /\ c <= m_size
  BY <1>7, Zenon
<1>9. ASSUME NEW t \in 0 .. c - 1
      PROVE  m_buf'[Back(m_head, t)'] = seen'[Len(seen') - t]
  <2>1. CASE t = 0
    <3>1. Back(m_head, t)' = NextHead
      BY <1>1, <1>3, <2>1 DEF Back
    <3> QED
      BY <1>1, <1>2, <1>3, <1>4, <2>1, <3>1
  <2>2. CASE t # 0
    <3>0. t \in Int /\ t >= 1 /\ t <= Count /\ t < m_size
      BY <1>6, <1>8, <2>2
    <3>1. t - 1 \in 0 .. Count - 1
      BY <1>4, <3>0
    <3>2. Back(m_head, t)' = Back(m_head, t - 1)
      BY <1>1, <1>2, <3>0 DEF Back, NextHead
    <3>3. Back(m_head, t - 1) # NextHead /\ Back(m_head, t - 1) \in 0 .. m_size - 1
      BY <1>2, <3>0 DEF Back, NextHead
    <3>4. m_buf'[Back(m_head, t - 1)] = seen[Len(seen) - (t - 1)]
      BY <1>1, <1>2, <3>1, <3>3 DEF RingHolds
    <3>5. Len(seen') - t = Len(seen) - (t - 1) /\ Len(seen) - (t - 1) \in 1 .. Len(seen)
      <4>1. Len(seen) \in Nat /\ Count <= Len(seen) /\ Count \in Nat
        BY <1>4
      <4>2. (Len(seen) + 1) - t = Len(seen) - (t - 1)
        BY <3>0, <4>1
      <4>3. Len(seen') = Len(seen) + 1
        BY <1>4
      <4>4. Len(seen) - (t - 1) \in 1 .. Len(seen)
        BY <3>0, <4>1
      <4> QED
        BY <4>2, <4>3, <4>4, Zenon
    <3> QED
      BY <1>4, <3>2, <3>4, <3>5
  <2> QED
    BY <2>1, <2>2
<1>10. RingHolds'
  BY <1>7, <1>9 DEF RingHolds, Back
<1> QED
  BY <1>5, <1>10

LEMMA TotalKeeps ==
  ASSUME SampleTypes, RingHolds, TotalIsSum, m_size # 0, NEW val \in Values, Sample(val)
  PROVE  TotalIsSum'
<1>1. /\ m_total' = (IF Full THEN m_total - m_buf[NextHead] ELSE m_total) + val
      /\ seen' = Append(seen, val) /\ m_size' = m_size
  BY DEF Sample
<1> DEFINE N == Len(seen) + 1
           R == Rest
           W == Window
<1>2. /\ Window' = R \cup {N} /\ N \notin R /\ R \subseteq 1 .. Len(seen) /\ W \subseteq 1 .. Len(seen)
      /\ seen'[N] = val /\ Len(seen) \in Nat
      /\ \A i \in 1 .. Len(seen) : seen'[i] = seen[i]
      /\ Full => Oldest \in W
  BY <1>1, WindowSlides
<1>3. IsFiniteSet(R) /\ IsFiniteSet(W)
  <2>1. IsFiniteSet(1 .. Len(seen))
    BY <1>2, FS_Interval
  <2> QED
    BY <1>2, <2>1, FS_Subset
<1>4. /\ \A i \in 1 .. Len(seen) : seen[i] \in Int
      /\ \A i \in R \cup {N} : seen'[i] \in Int
  <2>1. \A i \in 1 .. Len(seen) : seen[i] \in Int
    <3>1. Values \subseteq Int
      BY StatsAssumption
    <3>2. ASSUME NEW i \in 1 .. Len(seen) PROVE seen[i] \in Values
      BY DEF SampleTypes
    <3> QED
      BY <3>1, <3>2
  <2> QED
    BY <1>2, <2>1, StatsAssumption
<1>5. SumFunctionOnSet(seen, R) = IF Full THEN m_total - m_buf[NextHead] ELSE m_total
  <2>1. CASE Full
    <3>1. R = W \ {Oldest} /\ m_buf[NextHead] = seen[Oldest]
      BY <2>1, OverwritesOldest DEF Rest
    <3>2. \A i \in W : seen[i] \in Int
      BY <1>2, <1>4
    <3> HIDE DEF R, W
    <3>3. SumFunctionOnSet(seen, W \ {Oldest}) = SumFunctionOnSet(seen, W) - seen[Oldest]
      BY <1>2, <1>3, <2>1, <3>2, SumWithout
    <3> QED
      BY <2>1, <3>1, <3>3 DEF TotalIsSum, W
  <2>2. CASE ~ Full
    BY <2>2 DEF Rest, TotalIsSum
  <2> QED
    BY <2>1, <2>2
<1>6. SumFunctionOnSet(seen', R) = SumFunctionOnSet(seen, R)
  <2>1. \A i \in R : seen'[i] = seen[i]
    BY <1>2
  <2> HIDE DEF R
  <2> QED
    BY <1>3, <2>1, SumSame
<1>7. SumFunctionOnSet(seen', R \cup {N}) = SumFunctionOnSet(seen', R) + val
  <2> HIDE DEF R, N
  <2> QED
    BY <1>2, <1>3, <1>4, SumWith
<1>8. SumFunctionOnSet(seen', Window') = SumFunctionOnSet(seen', R \cup {N})
  <2> HIDE DEF R, N
  <2> QED
    BY <1>2, Zenon
<1> HIDE DEF R, N
<1> QED
  BY <1>1, <1>5, <1>6, <1>7, <1>8 DEF TotalIsSum

LEMMA CountsKeep ==
  ASSUME SampleTypes, RingHolds, SetCounts, m_size # 0, NEW val \in Values, Sample(val)
  PROVE  SetCounts'
<1>1. /\ m_set' = (IF Full THEN m_set (-) SetToBag({m_buf[NextHead]}) ELSE m_set) (+) SetToBag({val})
      /\ seen' = Append(seen, val) /\ m_size' = m_size
  BY DEF Sample
<1> DEFINE N == Len(seen) + 1
           R == Rest
           W == Window
<1>2. /\ Window' = R \cup {N} /\ N \notin R /\ R \subseteq 1 .. Len(seen) /\ W \subseteq 1 .. Len(seen)
      /\ seen'[N] = val /\ Len(seen) \in Nat
      /\ \A i \in 1 .. Len(seen) : seen'[i] = seen[i]
      /\ Full => Oldest \in W
  BY <1>1, WindowSlides
<1>3. IsFiniteSet(R) /\ IsFiniteSet(W)
  <2>1. IsFiniteSet(1 .. Len(seen))
    BY <1>2, FS_Interval
  <2> QED
    BY <1>2, <2>1, FS_Subset
<1>4. HowOften(seen, R) = IF Full THEN m_set (-) SetToBag({m_buf[NextHead]}) ELSE m_set
  <2>1. CASE Full
    <3>1. R = W \ {Oldest} /\ m_buf[NextHead] = seen[Oldest]
      BY <2>1, OverwritesOldest DEF Rest
    <3> HIDE DEF R, W
    <3>2. HowOften(seen, W) (-) SetToBag({seen[Oldest]}) = HowOften(seen, W \ {Oldest})
      BY <1>2, <1>3, <2>1, OccursWithout
    <3> QED
      BY <2>1, <3>1, <3>2 DEF SetCounts, W
  <2>2. CASE ~ Full
    BY <2>2 DEF Rest, SetCounts
  <2> QED
    BY <2>1, <2>2
<1>5. HowOften(seen', R) = HowOften(seen, R)
  <2>1. \A i \in R : seen'[i] = seen[i]
    BY <1>2
  <2> HIDE DEF R
  <2> QED
    BY <2>1, OccursSame
<1> HIDE DEF R, N
<1>6. HowOften(seen', R) (+) SetToBag({seen'[N]}) = HowOften(seen', R \cup {N})
  BY <1>2, <1>3, OccursWith
<1>7. HowOften(seen', Window') = HowOften(seen', R \cup {N})
  BY <1>2, Zenon
<1>8. m_set' = HowOften(seen', R) (+) SetToBag({seen'[N]})
  BY <1>1, <1>2, <1>4, <1>5
<1>9. m_set' = HowOften(seen', Window')
  BY <1>6, <1>7, <1>8
<1> QED
  BY <1>9 DEF SetCounts, HowOften

LEMMA EmptyWindow ==
  ASSUME m_size \in Nat, seen = << >>
  PROVE  Count = 0 /\ Window = {}
<1>1. Len(seen) = 0
  OBVIOUS
<1>2. Count = 0
  BY <1>1 DEF Count, Lesser
<1> QED
  BY <1>1, <1>2 DEF Window

\* With nothing taken the ring, the multiset and the sum are those of nothing.
Unused == SampleTypes /\ seen = << >> /\ m_set = EmptyBag /\ m_total = 0

LEMMA NothingTaken == Unused => StatsInv
<1> SUFFICES ASSUME Unused PROVE StatsInv
  OBVIOUS
<1>0. SampleTypes /\ seen = << >> /\ m_set = EmptyBag /\ m_total = 0
  BY DEF Unused
<1>1. Count = 0 /\ Window = {}
  BY <1>0, EmptyWindow DEF SampleTypes
<1>2. RingHolds
  BY <1>1 DEF RingHolds
<1>3. SetCounts
  BY <1>0, <1>1 DEF SetCounts, HowOften, EmptyBag, SetToBag
<1>4. TotalIsSum
  <2>1. SumFunctionOnSet(seen, Window) = SumFunctionOnSet(seen, {})
    BY <1>1, Zenon
  <2> QED
    BY <1>0, <2>1, SumEmpty DEF TotalIsSum
<1> QED
  BY <1>0, <1>2, <1>3, <1>4 DEF StatsInv

LEMMA NothingTakenNext == Unused' => StatsInv'
BY NothingTaken, PTL

LEMMA StatsInitially == StatsInit => StatsInv
<1> SUFFICES ASSUME StatsInit PROVE StatsInv
  OBVIOUS
<1>1. SampleTypes
  BY DEF StatsInit, SampleTypes
<1> QED
  BY <1>1, NothingTaken DEF StatsInit, Unused

LEMMA SizeKeeps ==
  ASSUME StatsInv, NEW n \in Windows, SetSize(n)
  PROVE  StatsInv'
<1>1. /\ m_size = 0 /\ m_size' = n /\ m_count' = 0 /\ m_head' = 0 /\ m_set' = EmptyBag
      /\ m_buf' = [i \in 0 .. n - 1 |-> 0] /\ m_total' = m_total /\ seen' = seen
  BY DEF SetSize
<1>2. n \in Nat /\ n > 1
  BY StatsAssumption
<1>3. seen = << >>
  BY <1>1 DEF StatsInv, SampleTypes
<1>4. m_total = 0
  <2>1. Window = {}
    BY <1>1, <1>3, EmptyWindow
  <2>2. SumFunctionOnSet(seen, Window) = SumFunctionOnSet(seen, {})
    BY <2>1, Zenon
  <2> QED
    BY <2>2, SumEmpty DEF StatsInv, TotalIsSum
<1>5. SampleTypes'
  BY <1>1, <1>2, <1>3 DEF SampleTypes
<1> QED
  BY <1>1, <1>3, <1>4, <1>5, NothingTakenNext DEF Unused

LEMMA StatsStep == StatsInv /\ [StatsNext]_statsVars => StatsInv'
<1> SUFFICES ASSUME StatsInv, [StatsNext]_statsVars PROVE StatsInv'
  OBVIOUS
<1>1. ASSUME NEW n \in Windows, SetSize(n) PROVE StatsInv'
  BY <1>1, SizeKeeps
<1>2. ASSUME NEW val \in Values, Sample(val) PROVE StatsInv'
  <2>1. m_size # 0
    BY <1>2 DEF Sample
  <2> QED
    BY <1>2, <2>1, RingKeeps, TotalKeeps, CountsKeep DEF StatsInv
<1>3. CASE UNCHANGED statsVars
  <2>1. UNCHANGED <<m_head, m_count, m_size, m_total, m_buf, m_set, seen>>
    BY <1>3 DEF statsVars
  <2>2. Count' = Count /\ Window' = Window
    BY <2>1 DEF Count, Window
  <2> QED
    BY <2>1, <2>2 DEF StatsInv, SampleTypes, RingHolds, Back, SetCounts, HowOften, TotalIsSum
<1> QED
  BY <1>1, <1>2, <1>3 DEF StatsNext

\* The incremental sum and the multiset of RollingStats are those of the
\* latest samples, for every window size and every samples: each is taken
\* out exactly when it leaves the ring (RollingStats.cpp:20-31).
THEOREM StatsFollowTheWindow == StatsSpec => []WindowIsLatest
<1>1. StatsInv => WindowIsLatest
  BY DEF StatsInv, SetCounts, TotalIsSum, WindowIsLatest
<1> QED
  BY <1>1, StatsInitially, StatsStep, PTL DEF StatsSpec

-----------------------------------------------------------------------------
(* The moments of a window.                                                *)

\* What holds of 0 and of the next number with each number below n holds up to n.
LEMMA Stepwise ==
  ASSUME NEW n \in Nat, NEW T, 0 \in T, \A k \in 0 .. n - 1 : k \in T => k + 1 \in T
  PROVE  \A k \in 0 .. n : k \in T
<1> DEFINE Missing == {k \in 0 .. n : k \notin T}
<1>1. ASSUME Missing # {} PROVE FALSE
  <2>1. Missing \in SUBSET Nat
    OBVIOUS
  <2>2. PICK k \in Missing : \A m \in Missing : k <= m
    BY <1>1, <2>1, LeastNumber
  <2>3. k \in Nat /\ k # 0 /\ k - 1 \in 0 .. n - 1 /\ k - 1 \in 0 .. n
    BY <2>2
  <2>4. k - 1 \in T
    BY <2>2, <2>3
  <2>5. (k - 1) + 1 \in T
    BY <2>3, <2>4
  <2> QED
    BY <2>2, <2>3, <2>5
<1> QED
  BY <1>1

MeanSteps(m, x, n) ==
  m = [k \in 0 .. n |-> IF k = 0 THEN 0 ELSE m[k - 1] + (x[k - 1] - m[k - 1]) \div k]
SquareSteps(s, m, x, n) ==
  s = [k \in 0 .. n |-> IF k = 0 THEN 0 ELSE s[k - 1] + (x[k - 1] - m[k]) * (x[k - 1] - m[k - 1])]

\* The functions that the passes are exist.
LEMMA MeansExist == ASSUME NEW x, NEW n \in Nat PROVE MeanSteps(PassMean(x, n), x, n)
<1> DEFINE T == {j \in 0 .. n : \E m : MeanSteps(m, x, j)}
<1>1. 0 \in T
  <2> DEFINE m == [k \in 0 .. 0 |-> 0]
  <2>1. MeanSteps(m, x, 0)
    BY DEF MeanSteps
  <2> QED
    BY <2>1
<1>2. ASSUME NEW j \in 0 .. n - 1, j \in T PROVE j + 1 \in T
  <2>1. PICK m : MeanSteps(m, x, j)
    BY <1>2
  <2> DEFINE w == [k \in 0 .. j + 1 |-> IF k <= j THEN m[k] ELSE m[j] + (x[j] - m[j]) \div (j + 1)]
  <2>2. ASSUME NEW k \in 0 .. j + 1
        PROVE  w[k] = IF k = 0 THEN 0 ELSE w[k - 1] + (x[k - 1] - w[k - 1]) \div k
    <3>1. CASE k <= j
      <4>1. m[k] = IF k = 0 THEN 0 ELSE m[k - 1] + (x[k - 1] - m[k - 1]) \div k
        BY <2>1, <3>1 DEF MeanSteps
      <4>2. w[k] = m[k] /\ (k # 0 => w[k - 1] = m[k - 1])
        BY <3>1
      <4> QED
        BY <4>1, <4>2
    <3>2. CASE k = j + 1
      <4>1. w[k] = m[j] + (x[j] - m[j]) \div k /\ k - 1 = j /\ k # 0 /\ w[j] = m[j]
        BY <3>2
      <4> QED
        BY <4>1
    <3> QED
      BY <3>1, <3>2
  <2>3. w = [k \in 0 .. j + 1 |-> IF k = 0 THEN 0 ELSE w[k - 1] + (x[k - 1] - w[k - 1]) \div k]
    BY <2>2
  <2> HIDE DEF w
  <2>4. MeanSteps(w, x, j + 1)
    BY <2>3 DEF MeanSteps
  <2> QED
    BY <2>4
<1> HIDE DEF T
<1>3. n \in T
  BY <1>1, <1>2, Stepwise
<1>4. PassMean(x, n) = CHOOSE m : MeanSteps(m, x, n)
  BY DEF PassMean, MeanSteps
<1> QED
  BY <1>3, <1>4 DEF T

LEMMA SquaresExist ==
  ASSUME NEW x, NEW n \in Nat
  PROVE  \E s : SquareSteps(s, PassMean(x, n), x, n) /\ PassSquares(x, n) = s[n]
<1>1. PICK m : m = PassMean(x, n)
  OBVIOUS
<1> DEFINE T == {j \in 0 .. n : \E s : SquareSteps(s, m, x, j)}
<1>2. 0 \in T
  <2> DEFINE s == [k \in 0 .. 0 |-> 0]
  <2>1. SquareSteps(s, m, x, 0)
    BY DEF SquareSteps
  <2> QED
    BY <2>1
<1>3. ASSUME NEW j \in 0 .. n - 1, j \in T PROVE j + 1 \in T
  <2>1. PICK s : SquareSteps(s, m, x, j)
    BY <1>3
  <2> DEFINE w == [k \in 0 .. j + 1 |-> IF k <= j THEN s[k]
                                        ELSE s[j] + (x[j] - m[j + 1]) * (x[j] - m[j])]
  <2>2. ASSUME NEW k \in 0 .. j + 1
        PROVE  w[k] = IF k = 0 THEN 0
                      ELSE w[k - 1] + (x[k - 1] - m[k]) * (x[k - 1] - m[k - 1])
    <3>1. CASE k <= j
      <4>1. s[k] = IF k = 0 THEN 0
                   ELSE s[k - 1] + (x[k - 1] - m[k]) * (x[k - 1] - m[k - 1])
        BY <2>1, <3>1 DEF SquareSteps
      <4>2. w[k] = s[k] /\ (k # 0 => w[k - 1] = s[k - 1])
        BY <3>1
      <4> QED
        BY <4>1, <4>2
    <3>2. CASE k = j + 1
      <4>1. w[k] = s[j] + (x[j] - m[k]) * (x[j] - m[j]) /\ k - 1 = j /\ k # 0 /\ w[j] = s[j]
        BY <3>2
      <4> QED
        BY <4>1
    <3> QED
      BY <3>1, <3>2
  <2>3. w = [k \in 0 .. j + 1 |-> IF k = 0 THEN 0
                                  ELSE w[k - 1] + (x[k - 1] - m[k]) * (x[k - 1] - m[k - 1])]
    BY <2>2
  <2> HIDE DEF w
  <2>4. SquareSteps(w, m, x, j + 1)
    BY <2>3 DEF SquareSteps
  <2> QED
    BY <2>4
<1> HIDE DEF T
<1>4. n \in T
  BY <1>2, <1>3, Stepwise
<1>5. \E s : SquareSteps(s, m, x, n)
  BY <1>4 DEF T
<1>6. PassSquares(x, n) = (CHOOSE s : SquareSteps(s, m, x, n))[n]
  BY <1>1 DEF PassSquares, SquareSteps
<1> QED
  BY <1>1, <1>5, <1>6

\* Multiples, for divisions that leave no remainder.
Multiple(v, p) == \E z \in Int : v = p * z

LEMMA CancelFactor ==
  ASSUME NEW p \in Nat \ {0}, NEW a \in Int, NEW b \in Int, p * a = p * b
  PROVE  a = b
<1>1. ASSUME NEW c \in Int, NEW d \in Int, c < d PROVE p * c < p * d
  <2>1. PICK e \in Nat \ {0} : e = d - c
    BY <1>1
  <2>2. p * e \in Nat /\ p * e > 0
    BY <2>1
  <2>3. p * d = p * c + p * e
    BY <2>1
  <2> QED
    BY <2>2, <2>3
<1>2. ~ (a < b) /\ ~ (b < a)
  BY <1>1
<1> QED
  BY <1>2

LEMMA MultiplesAdd ==
  ASSUME NEW p \in Nat, NEW a \in Int, NEW b \in Int, Multiple(a, p), Multiple(b, p)
  PROVE  Multiple(a + b, p) /\ Multiple(a - b, p)
<1>1. PICK u \in Int, w \in Int : a = p * u /\ b = p * w
  BY DEF Multiple
<1>2. u + w \in Int /\ u - w \in Int /\ a + b = p * (u + w) /\ a - b = p * (u - w)
  BY <1>1
<1> QED
  BY <1>2 DEF Multiple

LEMMA MultipleTimes ==
  ASSUME NEW p \in Nat, NEW a \in Int, NEW b \in Int, Multiple(a, p)
  PROVE  Multiple(a * b, p)
<1>1. PICK u \in Int : a = p * u
  BY DEF Multiple
<1>2. u * b \in Int /\ a * b = p * (u * b)
  BY <1>1
<1> QED
  BY <1>2 DEF Multiple

\* The quotient of a multiple.
LEMMA WholeQuotient ==
  ASSUME NEW p \in Nat \ {0}, NEW v \in Int, Multiple(v, p)
  PROVE  v \div p \in Int /\ p * (v \div p) = v
<1>1. PICK z \in Int : v = p * z
  BY DEF Multiple
<1>2. v \div p \in Int /\ p * (v \div p) <= v /\ v < p * (v \div p) + p
  OBVIOUS
<1>3. PICK d \in Int : d = v \div p
  BY <1>2
<1>4. ASSUME d < z PROVE FALSE
  <2>1. PICK e \in Nat : z = d + 1 + e
    BY <1>4
  <2>2. p * z = p * d + p + p * e /\ p * e \in Nat
    BY <2>1
  <2> QED
    BY <1>1, <1>2, <1>3, <2>2
<1>5. ASSUME z < d PROVE FALSE
  <2>1. PICK e \in Nat : d = z + 1 + e
    BY <1>5
  <2>2. p * d = p * z + p + p * e /\ p * e \in Nat
    BY <2>1
  <2> QED
    BY <1>1, <1>2, <1>3, <2>2
<1> QED
  BY <1>1, <1>2, <1>3, <1>4, <1>5

\* A multiple of two numbers in a row is one of their product.
LEMMA OfBoth ==
  ASSUME NEW j \in Nat \ {0}, NEW v \in Int, NEW a \in Int, v = j * a,
         Multiple(v, j + 1)
  PROVE  Multiple(a, j + 1)
<1>1. PICK w \in Int : v = (j + 1) * w
  BY DEF Multiple
<1>2. j * a = j * ((j + 1) * (a - w))
  <2>1. PICK ja \in Int, jw \in Int : ja = j * a /\ jw = j * w
    OBVIOUS
  <2>2. ja = jw + w
    BY <1>1, <2>1
  <2>3. (j + 1) * (a - w) = ja + a - jw - w
    BY <2>1
  <2>4. (j + 1) * (a - w) = a
    BY <2>2, <2>3
  <2> QED
    BY <2>4
<1>3. a - w \in Int /\ (j + 1) * (a - w) \in Int
  BY <1>1
<1>4. a = (j + 1) * (a - w)
  BY <1>2, <1>3, CancelFactor
<1> QED
  BY <1>3, <1>4 DEF Multiple

LEMMA RemainderIsNone ==
  ASSUME NEW p \in Nat \ {0}, NEW v \in Nat, v % p = 0
  PROVE  Multiple(v, p)
<1>1. v = p * (v \div p) + (v % p) /\ v \div p \in Int
  OBVIOUS
<1>2. v = p * (v \div p)
  BY <1>1
<1> QED
  BY <1>1, <1>2 DEF Multiple

-----------------------------------------------------------------------------
\* A step of the mean.
LEMMA MeanStep ==
  ASSUME NEW j \in Nat, NEW a \in Int, NEW v \in Int,
         Multiple(a, j + 1), Multiple(v, j + 1)
  PROVE  /\ a + (v - a) \div (j + 1) \in Int
         /\ (j + 1) * (a + (v - a) \div (j + 1)) = j * a + v
<1>1. Multiple(v - a, j + 1)
  BY MultiplesAdd
<1>2. (v - a) \div (j + 1) \in Int /\ (j + 1) * ((v - a) \div (j + 1)) = v - a
  <2>1. PICK p \in Nat \ {0}, w \in Int : p = j + 1 /\ w = v - a
    OBVIOUS
  <2>2. w \div p \in Int /\ p * (w \div p) = w
    BY <1>1, <2>1, WholeQuotient
  <2> QED
    BY <2>1, <2>2
<1>3. PICK d \in Int : d = (v - a) \div (j + 1)
  BY <1>2
<1>4. (j + 1) * (a + d) = j * a + a + (j + 1) * d
  OBVIOUS
<1> QED
  BY <1>2, <1>3, <1>4

\* A step of the squares: u is the sum of the squares so far, a the mean of j
\* samples, b the mean with the next one.
LEMMA SquareStep ==
  ASSUME NEW j \in Nat, NEW a \in Int, NEW b \in Int, NEW v \in Int, NEW u \in Int,
         (j + 1) * b = j * a + v
  PROVE  (u - a * (j * a)) + (v - b) * (v - a) = (u + v * v) - b * (j * a + v)
<1>1. PICK aa \in Int, ab \in Int, av \in Int, bv \in Int, vv \in Int :
        aa = a * a /\ ab = a * b /\ av = a * v /\ bv = b * v /\ vv = v * v
  OBVIOUS
<1>2. PICK jaa \in Int, jab \in Int : jaa = j * aa /\ jab = j * ab
  OBVIOUS
<1>3. a * (j * a) = jaa
  BY <1>1, <1>2
<1>4. (v - b) * (v - a) = vv - av - bv + ab
  BY <1>1
<1>5. b * (j * a + v) = jab + bv
  BY <1>1, <1>2
<1>6. jab + ab = jaa + av
  <2>1. a * ((j + 1) * b) = jab + ab
    BY <1>1, <1>2
  <2>2. a * (j * a + v) = jaa + av
    BY <1>1, <1>2
  <2> QED
    BY <2>1, <2>2
<1>7. PICK vv2 \in Int : vv2 = v * v /\ vv2 = vv
  BY <1>1
<1> QED
  BY <1>3, <1>4, <1>5, <1>6, <1>7

-----------------------------------------------------------------------------
\* The latest j of L samples.
Latest(L, j) == L - j + 1 .. L

LEMMA OneMore ==
  ASSUME NEW L \in Nat, NEW c \in Nat, c <= L, NEW f,
         \A i \in Latest(L, c) : f[i] \in Int, NEW j \in 0 .. c - 1
  PROVE  /\ SumFunctionOnSet(f, Latest(L, j)) \in Int
         /\ f[L - j] \in Int
         /\ SumFunctionOnSet(f, Latest(L, j + 1)) = SumFunctionOnSet(f, Latest(L, j)) + f[L - j]
<1>1. /\ Latest(L, j + 1) = Latest(L, j) \cup {L - j} /\ L - j \notin Latest(L, j)
      /\ Latest(L, j + 1) \subseteq Latest(L, c)
  BY DEF Latest
<1>2. IsFiniteSet(Latest(L, j))
  BY FS_Interval DEF Latest
<1>3. \A i \in Latest(L, j) \cup {L - j} : f[i] \in Int
  BY <1>1
<1>4. SumFunctionOnSet(f, Latest(L, j)) \in Int
  BY <1>2, <1>3, SumType
<1>5. SumFunctionOnSet(f, Latest(L, j) \cup {L - j}) = SumFunctionOnSet(f, Latest(L, j)) + f[L - j]
  BY <1>1, <1>2, <1>3, SumWith
<1> QED
  BY <1>1, <1>3, <1>4, <1>5

LEMMA NoneYet == ASSUME NEW L \in Nat, NEW f PROVE SumFunctionOnSet(f, Latest(L, 0)) = 0
<1>1. Latest(L, 0) = {}
  BY DEF Latest
<1> QED
  BY <1>1, SumEmpty

\* The sum of multiples is one.
LEMMA SumIsMultiple ==
  ASSUME NEW L \in Nat, NEW c \in Nat, c <= L, NEW f, NEW p \in Nat,
         \A i \in Latest(L, c) : f[i] \in Int /\ Multiple(f[i], p)
  PROVE  \A j \in 0 .. c : /\ SumFunctionOnSet(f, Latest(L, j)) \in Int
                           /\ Multiple(SumFunctionOnSet(f, Latest(L, j)), p)
<1> DEFINE S(j) == SumFunctionOnSet(f, Latest(L, j))
           T == {j \in 0 .. c : S(j) \in Int /\ Multiple(S(j), p)}
<1>1. 0 \in T
  <2>1. S(0) = 0
    BY NoneYet
  <2>2. Multiple(0, p)
    <3>1. 0 = p * 0
      OBVIOUS
    <3> QED
      BY <3>1 DEF Multiple
  <2> HIDE DEF S
  <2> QED
    BY <2>1, <2>2
<1>2. ASSUME NEW j \in 0 .. c - 1, j \in T PROVE j + 1 \in T
  <2>1. S(j + 1) = S(j) + f[L - j] /\ f[L - j] \in Int
    BY OneMore
  <2>2. L - j \in Latest(L, c)
    BY DEF Latest
  <2>3. Multiple(f[L - j], p)
    BY <2>2
  <2> HIDE DEF S
  <2>4. S(j) \in Int /\ Multiple(S(j), p)
    BY <1>2
  <2>5. Multiple(S(j) + f[L - j], p) /\ S(j) + f[L - j] \in Int
    <3>1. PICK u \in Int, v \in Int : u = S(j) /\ v = f[L - j]
      BY <2>1, <2>4
    <3>2. Multiple(u, p) /\ Multiple(v, p)
      BY <2>3, <2>4, <3>1
    <3>3. Multiple(u + v, p)
      BY <3>2, MultiplesAdd
    <3> QED
      BY <3>1, <3>3
  <2> QED
    BY <2>1, <2>5
<1> HIDE DEF T
<1>3. \A j \in 0 .. c : j \in T
  BY <1>1, <1>2, Stepwise
<1> QED
  BY <1>3 DEF T

\* The pass over c samples of a window, x[0] the latest, of which every number
\* up to c is a divisor.
Whole(x, f, L, c) ==
  /\ c \in Nat \ {0} /\ L \in Nat /\ c <= L
  /\ \A i \in Latest(L, c) : f[i] \in Int /\ \A p \in 1 .. c : Multiple(f[i], p)
  /\ \A k \in 0 .. c - 1 : x[k] = f[L - k]

\* The mean after j samples is the mean of the latest j.
LEMMA MeansAre ==
  ASSUME NEW x, NEW f, NEW L, NEW c, Whole(x, f, L, c)
  PROVE  \A j \in 0 .. c : /\ PassMean(x, c)[j] \in Int
                           /\ j * PassMean(x, c)[j] = SumFunctionOnSet(f, Latest(L, j))
<1>0. /\ c \in Nat \ {0} /\ L \in Nat /\ c <= L
      /\ \A i \in Latest(L, c) : f[i] \in Int /\ \A p \in 1 .. c : Multiple(f[i], p)
      /\ \A k \in 0 .. c - 1 : x[k] = f[L - k]
  BY DEF Whole
<1>1. PICK m : m = PassMean(x, c)
  OBVIOUS
<1>2. \A k \in 0 .. c : m[k] = IF k = 0 THEN 0 ELSE m[k - 1] + (x[k - 1] - m[k - 1]) \div k
  <2>1. MeanSteps(m, x, c)
    BY <1>0, <1>1, MeansExist
  <2> QED
    BY <2>1 DEF MeanSteps
<1> DEFINE S(j) == SumFunctionOnSet(f, Latest(L, j))
           T == {j \in 0 .. c : m[j] \in Int /\ j * m[j] = S(j)}
<1>3. 0 \in T
  <2>1. m[0] = 0 /\ S(0) = 0
    BY <1>0, <1>2, NoneYet
  <2> HIDE DEF S
  <2> QED
    BY <1>0, <2>1
<1>4. ASSUME NEW j \in 0 .. c - 1, j \in T PROVE j + 1 \in T
  <2>1. S(j + 1) = S(j) + f[L - j] /\ f[L - j] \in Int
    BY <1>0, OneMore
  <2>2. S(j) \in Int /\ Multiple(S(j), j + 1)
    <3>1. \A i \in Latest(L, c) : f[i] \in Int /\ Multiple(f[i], j + 1)
      BY <1>0
    <3> QED
      BY <1>0, <3>1, SumIsMultiple
  <2>3. L - j \in Latest(L, c)
    BY <1>0 DEF Latest
  <2>4. Multiple(f[L - j], j + 1) /\ x[j] = f[L - j]
    BY <1>0, <2>3
  <2> HIDE DEF S
  <2>5. m[j] \in Int /\ S(j) = j * m[j] /\ j \in Nat
    BY <1>0, <1>4
  <2>6. Multiple(m[j], j + 1)
    <3>1. CASE j = 0
      <4>1. m[j] = (j + 1) * m[j]
        BY <2>5, <3>1
      <4> QED
        BY <2>5, <4>1 DEF Multiple
    <3>2. CASE j # 0
      BY <2>2, <2>5, <3>2, OfBoth
    <3> QED
      BY <3>1, <3>2
  <2>7. m[j + 1] = m[j] + (f[L - j] - m[j]) \div (j + 1)
    <3>1. j + 1 \in 0 .. c /\ j + 1 # 0 /\ (j + 1) - 1 = j
      BY <1>0
    <3> QED
      BY <1>2, <2>4, <3>1
  <2>8. m[j + 1] \in Int /\ (j + 1) * m[j + 1] = j * m[j] + f[L - j]
    BY <2>1, <2>4, <2>5, <2>6, <2>7, MeanStep
  <2>9. j + 1 \in 0 .. c
    BY <1>0
  <2> QED
    BY <2>1, <2>5, <2>8, <2>9
<1> HIDE DEF T
<1>5. \A j \in 0 .. c : j \in T
  BY <1>0, <1>3, <1>4, Stepwise
<1> QED
  BY <1>1, <1>5 DEF T

\* The squared deviations after j samples.
LEMMA DeviationsAre ==
  ASSUME NEW x, NEW f, NEW g, NEW L, NEW c, Whole(x, f, L, c),
         \A i \in Latest(L, c) : g[i] = f[i] * f[i]
  PROVE  /\ PassSquares(x, c) \in Int
         /\ PassSquares(x, c) =
              SumFunctionOnSet(g, Latest(L, c))
              - PassMean(x, c)[c] * SumFunctionOnSet(f, Latest(L, c))
<1>0. /\ c \in Nat \ {0} /\ L \in Nat /\ c <= L
      /\ \A i \in Latest(L, c) : f[i] \in Int
      /\ \A k \in 0 .. c - 1 : x[k] = f[L - k]
  BY DEF Whole
<1>1. PICK m : m = PassMean(x, c)
  OBVIOUS
<1>2. PICK s : SquareSteps(s, m, x, c) /\ PassSquares(x, c) = s[c]
  BY <1>0, <1>1, SquaresExist
<1>3. \A k \in 0 .. c : s[k] = IF k = 0 THEN 0
                               ELSE s[k - 1] + (x[k - 1] - m[k]) * (x[k - 1] - m[k - 1])
  BY <1>2 DEF SquareSteps
<1>4. \A i \in Latest(L, c) : g[i] \in Int
  <2>1. \A v \in Int : v * v \in Int
    OBVIOUS
  <2> QED
    BY <1>0, <2>1
<1> DEFINE S(j) == SumFunctionOnSet(f, Latest(L, j))
           U(j) == SumFunctionOnSet(g, Latest(L, j))
           T == {j \in 0 .. c : s[j] \in Int /\ U(j) \in Int /\ s[j] = U(j) - m[j] * S(j)}
<1>5. \A j \in 0 .. c : m[j] \in Int /\ j * m[j] = S(j)
  BY <1>1, MeansAre
<1>6. 0 \in T
  <2>1. s[0] = 0 /\ S(0) = 0 /\ U(0) = 0 /\ m[0] \in Int
    BY <1>0, <1>3, <1>5, NoneYet
  <2> HIDE DEF S, U
  <2> QED
    BY <1>0, <2>1
<1>7. ASSUME NEW j \in 0 .. c - 1, j \in T PROVE j + 1 \in T
  <2>1. S(j + 1) = S(j) + f[L - j] /\ f[L - j] \in Int
    BY <1>0, OneMore
  <2>2. U(j + 1) = U(j) + g[L - j] /\ g[L - j] \in Int
    BY <1>0, <1>4, OneMore
  <2>3. L - j \in Latest(L, c) /\ j + 1 \in 0 .. c /\ j \in 0 .. c /\ j \in Nat
    BY <1>0 DEF Latest
  <2>4. g[L - j] = f[L - j] * f[L - j] /\ x[j] = f[L - j]
    BY <1>0, <2>3
  <2> HIDE DEF S, U
  <2>5. PICK a \in Int, b \in Int, v \in Int, u \in Int : a = m[j] /\ b = m[j + 1] /\ v = f[L - j] /\ u = U(j)
    BY <1>5, <1>7, <2>1, <2>3
  <2>6. S(j) = j * a /\ (j + 1) * b = j * a + v
    BY <1>5, <2>1, <2>3, <2>5
  <2>7. s[j] = u - a * (j * a)
    BY <1>7, <2>5, <2>6
  <2>8. s[j + 1] = s[j] + (v - b) * (v - a)
    <3>1. j + 1 # 0 /\ (j + 1) - 1 = j
      BY <2>3
    <3> QED
      BY <1>3, <2>3, <2>4, <2>5, <3>1
  <2>9. s[j + 1] = (u + v * v) - b * (j * a + v)
    BY <2>3, <2>6, <2>7, <2>8, SquareStep
  <2>10. U(j + 1) = u + v * v /\ S(j + 1) = j * a + v
    BY <2>1, <2>2, <2>4, <2>5, <2>6
  <2>11. v * v \in Int /\ j * a \in Int /\ b * (j * a + v) \in Int
    BY <2>3
  <2> QED
    BY <2>3, <2>5, <2>9, <2>10, <2>11
<1> HIDE DEF T
<1>8. \A j \in 0 .. c : j \in T
  BY <1>0, <1>6, <1>7, Stepwise
<1>9. c \in T
  BY <1>0, <1>8
<1> QED
  BY <1>1, <1>2, <1>9 DEF T

\* What the code makes of the pass.
LEMMA PassIsExact ==
  ASSUME NEW x, NEW f, NEW g, NEW L, NEW c, Whole(x, f, L, c), c > 1,
         \A i \in Latest(L, c) : g[i] = f[i] * f[i],
         NEW t, t = SumFunctionOnSet(f, Latest(L, c)),
         NEW u, u = SumFunctionOnSet(g, Latest(L, c))
  PROVE  /\ (t \div c) * c = t
         /\ (PassSquares(x, c) \div (c - 1)) * c * (c - 1) = c * u - t * t
<1>0. /\ c \in Nat \ {0} /\ c - 1 \in Nat \ {0} /\ L \in Nat /\ c <= L /\ c \in 0 .. c
      /\ \A i \in Latest(L, c) : f[i] \in Int /\ \A p \in 1 .. c : Multiple(f[i], p)
      /\ c \in 1 .. c /\ c - 1 \in 1 .. c
  BY DEF Whole
<1>1. t \in Int /\ Multiple(t, c) /\ Multiple(t, c - 1)
  <2>1. t \in Int /\ Multiple(t, c)
    BY <1>0, SumIsMultiple
  <2>2. Multiple(t, c - 1)
    BY <1>0, SumIsMultiple
  <2> QED
    BY <2>1, <2>2
<1>2. u \in Int /\ Multiple(u, c - 1)
  <2>1. \A i \in Latest(L, c) : g[i] \in Int /\ Multiple(g[i], c - 1)
    <3>1. ASSUME NEW i \in Latest(L, c) PROVE g[i] \in Int /\ Multiple(g[i], c - 1)
      <4>1. PICK v \in Int : v = f[i] /\ Multiple(v, c - 1)
        BY <1>0
      <4>2. Multiple(v * v, c - 1) /\ v * v \in Int
        BY <1>0, <4>1, MultipleTimes
      <4> QED
        BY <4>1, <4>2
    <3> QED
      BY <3>1
  <2> QED
    BY <1>0, <2>1, SumIsMultiple
<1>3. PICK b \in Int : b = PassMean(x, c)[c] /\ c * b = t
  BY <1>0, MeansAre
<1>4. PICK p \in Int : p = PassSquares(x, c) /\ p = u - b * t
  BY <1>0, <1>3, DeviationsAre
<1>5. Multiple(p, c - 1)
  <2>1. Multiple(t * b, c - 1) /\ t * b \in Int
    BY <1>0, <1>1, MultipleTimes
  <2>2. Multiple(u - t * b, c - 1)
    BY <1>0, <1>2, <2>1, MultiplesAdd
  <2>3. t * b = b * t
    BY <1>1
  <2> QED
    BY <1>4, <2>2, <2>3
<1>6. PICK d \in Int : d = p \div (c - 1) /\ (c - 1) * d = p
  BY <1>0, <1>5, WholeQuotient
<1>7. d * c * (c - 1) = c * u - t * t
  <2>1. d * c * (c - 1) = c * ((c - 1) * d)
    BY <1>0
  <2>2. c * (u - b * t) = c * u - (c * b) * t
    BY <1>0, <1>1, <1>2
  <2> QED
    BY <1>3, <1>4, <1>6, <2>1, <2>2
<1>8. (t \div c) * c = t
  <2>1. PICK e \in Int : e = t \div c /\ c * e = t
    BY <1>0, <1>1, WholeQuotient
  <2> QED
    BY <1>0, <2>1
<1> QED
  BY <1>4, <1>6, <1>7, <1>8

WindowGiven == m_size = 0 \/ m_size \in Windows
MomentsInv  == StatsInv /\ WindowGiven /\ MomentsAreExact

\* Samples leave no remainder.
LEMMA SamplesAreWhole ==
  ASSUME NEW n \in Windows, NEW v \in Values, NEW p \in 1 .. n
  PROVE  v \in Int /\ Multiple(v, p)
<1>1. n \in Nat /\ v \in Nat /\ p \in Nat \ {0}
  BY StatsAssumption
<1>2. v % p = 0
  BY ExactAssumption
<1> QED
  BY <1>1, <1>2, RemainderIsNone

\* The place k before h in the ring.
LEMMA BackInRing ==
  ASSUME NEW n \in Nat \ {0}, NEW h \in 0 .. n - 1, NEW k \in 0 .. n - 1
  PROVE  (h - k) % n = IF k <= h THEN h - k ELSE h + n - k
<1>1. CASE k <= h
  <2>1. PICK d \in 0 .. n - 1 : d = h - k
    BY <1>1
  <2>2. d % n = d
    OBVIOUS
  <2> QED
    BY <1>1, <2>1, <2>2
<1>2. CASE ~ (k <= h)
  <2>1. PICK d \in 1 .. n - 1 : d = h + n - k
    BY <1>2
  <2>2. (d - n) % n = d
    OBVIOUS
  <2>3. h - k = d - n
    BY <2>1
  <2> QED
    BY <1>2, <2>1, <2>2, <2>3
<1> QED
  BY <1>1, <1>2

\* What the pass reads from the ring is the window, the latest sample first.
LEMMA PassReadsWindow ==
  ASSUME StatsInv, WindowGiven, NEW val \in Values, Sample(val)
  PROVE  \E c, L, x :
           /\ Whole(x, seen', L, c)
           /\ c = Count' /\ L = Len(seen')
           /\ m_mean' = m_total' \div c
           /\ c > 1 => m_variance' = PassSquares(x, c) \div (c - 1)
<1>1. /\ m_size # 0 /\ m_head' = NextHead /\ m_size' = m_size
      /\ seen' = Append(seen, val)
  BY DEF Sample
<1>2. StatsInv'
  BY StatsStep DEF StatsNext
<1>3. /\ m_size \in Nat \ {0} /\ m_size \in Windows /\ m_count = Len(seen)
      /\ seen \in Seq(Values) /\ m_head \in 0 .. m_size - 1
  BY <1>1 DEF StatsInv, SampleTypes, WindowGiven
<1>4. PICK L \in Nat : L = Len(seen') /\ L = m_count + 1 /\ L > 0
  BY <1>1, <1>3, AppendProperties
<1>5. PICK c \in Nat \ {0} : c = Lesser(m_count + 1, m_size) /\ c <= L /\ c <= m_size
  BY <1>3, <1>4 DEF Lesser
<1>6. Count' = c
  BY <1>1, <1>4, <1>5 DEF Count
<1> DEFINE x == [k \in 0 .. c - 1 |-> At(m_buf', NextHead, k)]
<1>7. /\ m_mean' = m_total' \div c
      /\ c > 1 => m_variance' = PassSquares(x, c) \div (c - 1)
  BY <1>5 DEF Sample
<1>8. ASSUME NEW k \in 0 .. c - 1 PROVE x[k] = seen'[L - k]
  <2>1. PICK h \in 0 .. m_size - 1 : h = NextHead
    BY <1>3 DEF NextHead
  <2>2. k \in 0 .. m_size - 1
    BY <1>3, <1>5
  <2>3. (h - k) % m_size = IF k <= h THEN h - k ELSE h + m_size - k
    BY <1>3, <2>2, BackInRing
  <2>4. x[k] = m_buf'[(h - k) % m_size]
    BY <2>1 DEF At
  <2>5. Back(m_head, k)' = IF k <= h THEN h - k ELSE h + m_size - k
    BY <1>1, <2>1 DEF Back
  <2>6. m_buf'[Back(m_head, k)'] = seen'[L - k]
    BY <1>2, <1>4, <1>6 DEF StatsInv, RingHolds, Back
  <2> QED
    BY <2>3, <2>4, <2>5, <2>6
<1>9. seen' \in Seq(Values)
  BY <1>2 DEF StatsInv, SampleTypes
<1> HIDE DEF x
<1>10. ASSUME NEW i \in Latest(L, c)
       PROVE  seen'[i] \in Int /\ \A p \in 1 .. c : Multiple(seen'[i], p)
  <2>1. i \in 1 .. Len(seen')
    BY <1>4, <1>5 DEF Latest
  <2>2. PICK v \in Values : v = seen'[i]
    BY <1>9, <2>1
  <2>3. \A p \in 1 .. c : p \in 1 .. m_size
    BY <1>3, <1>5
  <2>4. 1 \in 1 .. c
    BY <1>3, <1>5
  <2>5. \A p \in 1 .. c : v \in Int /\ Multiple(v, p)
    BY <1>3, <2>3, SamplesAreWhole
  <2> QED
    BY <2>2, <2>4, <2>5
<1>11. Whole(x, seen', L, c)
  BY <1>4, <1>5, <1>8, <1>10 DEF Whole
<1> QED
  BY <1>4, <1>6, <1>7, <1>11

LEMMA MomentsKeep ==
  ASSUME StatsInv, WindowGiven, NEW val \in Values, Sample(val)
  PROVE  MomentsAreExact'
<1>1. PICK c, L, x :
        /\ Whole(x, seen', L, c)
        /\ c = Count' /\ L = Len(seen')
        /\ m_mean' = m_total' \div c
        /\ c > 1 => m_variance' = PassSquares(x, c) \div (c - 1)
  BY PassReadsWindow
<1>2. Window' = Latest(L, c)
  BY <1>1 DEF Window, Latest
<1>3. m_total' = SumFunctionOnSet(seen', Latest(L, c))
  <2>1. StatsInv'
    BY StatsStep DEF StatsNext
  <2> QED
    BY <1>2, <2>1 DEF StatsInv, TotalIsSum
<1>4. \A i \in Latest(L, c) : Squares'[i] = seen'[i] * seen'[i]
  <2>1. Squares' = [i \in Window' |-> seen'[i] * seen'[i]]
    BY DEF Squares
  <2> QED
    BY <1>2, <2>1
<1>5. PICK t, u : /\ t = SumFunctionOnSet(seen', Latest(L, c))
                  /\ u = SumFunctionOnSet(Squares', Latest(L, c))
  OBVIOUS
<1>6. ASSUME c > 1
      PROVE  m_mean' * c = t /\ m_variance' * c * (c - 1) = c * u - t * t
  <2>1. /\ (t \div c) * c = t
        /\ (PassSquares(x, c) \div (c - 1)) * c * (c - 1) = c * u - t * t
    BY <1>1, <1>4, <1>5, <1>6, PassIsExact
  <2>2. m_mean' = t \div c /\ m_variance' = PassSquares(x, c) \div (c - 1)
    BY <1>1, <1>3, <1>5, <1>6
  <2> QED
    BY <2>1, <2>2, Zenon
<1> QED
  BY <1>1, <1>2, <1>5, <1>6, Zenon DEF MomentsAreExact

LEMMA MomentsStep == MomentsInv /\ [StatsNext]_statsVars => MomentsInv'
<1> SUFFICES ASSUME MomentsInv, [StatsNext]_statsVars PROVE MomentsInv'
  OBVIOUS
<1>0. StatsInv /\ WindowGiven /\ MomentsAreExact
  BY DEF MomentsInv
<1>1. StatsInv'
  BY <1>0, StatsStep
<1>2. ASSUME NEW n \in Windows, SetSize(n) PROVE WindowGiven' /\ MomentsAreExact'
  <2>1. m_size' = n /\ m_size = 0 /\ seen' = seen
    BY <1>2 DEF SetSize
  <2>2. n \in Nat /\ seen' = << >>
    BY <1>0, <2>1, StatsAssumption DEF StatsInv, SampleTypes
  <2>3. Count' = 0
    <3>1. Len(seen') = 0
      BY <2>2
    <3> QED
      BY <2>1, <2>2, <3>1 DEF Count, Lesser
  <2> QED
    BY <2>1, <2>2, <2>3 DEF WindowGiven, MomentsAreExact
<1>3. ASSUME NEW val \in Values, Sample(val) PROVE WindowGiven' /\ MomentsAreExact'
  <2>1. m_size' = m_size
    BY <1>3 DEF Sample
  <2> QED
    BY <1>0, <1>3, <2>1, MomentsKeep DEF WindowGiven
<1>4. CASE UNCHANGED statsVars
  <2>1. UNCHANGED <<m_size, m_mean, m_variance, seen>>
    BY <1>4 DEF statsVars
  <2>2. Count' = Count /\ Window' = Window
    BY <2>1 DEF Count, Window
  <2>3. Squares' = Squares
    BY <2>1, <2>2 DEF Squares
  <2>4. MomentsAreExact'
    BY <1>0, <2>1, <2>2, <2>3, Zenon DEF MomentsAreExact
  <2>5. WindowGiven'
    BY <1>0, <2>1 DEF WindowGiven
  <2> QED
    BY <1>1, <2>4, <2>5 DEF MomentsInv
<1> QED
  BY <1>1, <1>2, <1>3, <1>4 DEF MomentsInv, StatsNext

\* The variance computed in one pass over the ring is the unbiased variance of
\* the latest samples, and the mean is theirs (RollingStats.cpp:32-47), for a
\* window of any size and samples that every number up to its size divides:
\* then no division of the code leaves a remainder.
THEOREM OnePassIsExact == StatsSpec => []MomentsAreExact
<1>1. StatsInit => MomentsInv
  <2>1. ASSUME StatsInit PROVE MomentsInv
    <3>1. StatsInv
      BY <2>1, StatsInitially
    <3>2. m_size = 0 /\ seen = << >>
      BY <2>1 DEF StatsInit
    <3>3. Count = 0
      BY <3>2, EmptyWindow
    <3> QED
      BY <3>1, <3>2, <3>3 DEF MomentsInv, WindowGiven, MomentsAreExact
  <2> QED
    BY <2>1
<1>2. MomentsInv => MomentsAreExact
  BY DEF MomentsInv
<1> QED
  BY <1>1, <1>2, MomentsStep, PTL DEF StatsSpec

-----------------------------------------------------------------------------
(* Arithmetic, for the two roundings of the bucket.                        *)

\* The integer quotient, as a bound on products.
LEMMA Floor ==
  ASSUME NEW a \in Nat, NEW b \in Nat \ {0}
  PROVE  /\ a \div b \in Nat
         /\ (a \div b) * b <= a
         /\ a < (a \div b) * b + b
OBVIOUS

LEMMA Monotone ==
  ASSUME NEW a \in Nat, NEW b \in Nat, NEW c \in Nat, a <= b
  PROVE  a * c <= b * c
OBVIOUS

LEMMA Cancel ==
  ASSUME NEW a \in Nat, NEW b \in Nat, NEW c \in Nat \ {0}, a * c <= b * c
  PROVE  a <= b
OBVIOUS

-----------------------------------------------------------------------------
(* What the bucket is worth.                                               *)

\* The tokens are the credit, rounded down to whole bytes.
LEMMA TokensAreCredit ==
  ASSUME TypeOK
  PROVE  /\ Tokens \in 0 .. Burst
         /\ Credit \in 0 .. Burst * Unit
         /\ Tokens * Unit <= Credit
         /\ Credit < (Tokens + 1) * Unit
<1> DEFINE x == (now - m_tsLast) * rate
<1>1. /\ Unit \in Nat \ {0} /\ Burst \in Nat /\ Burst * Unit \in Nat
      /\ now - m_tsLast \in Nat /\ rate \in Nat /\ x \in Nat
  BY BucketAssumption DEF TypeOK
<1>2. CASE m_tsLast = 0
  BY <1>1, <1>2 DEF Tokens, Credit
<1>3. CASE m_tsLast # 0
  <2>1. Tokens = Least(Burst, x \div Unit) /\ Credit = Least(Burst * Unit, x)
    BY <1>3 DEF Tokens, Credit
  <2> HIDE DEF x
  <2>2. x \div Unit \in Nat /\ (x \div Unit) * Unit <= x /\ x < (x \div Unit) * Unit + Unit
    BY <1>1, Floor
  <2>3. CASE x \div Unit >= Burst
    <3>1. Burst * Unit <= (x \div Unit) * Unit
      BY <1>1, <2>2, <2>3, Monotone
    <3>2. Tokens = Burst /\ Credit = Burst * Unit
      BY <1>1, <2>1, <2>2, <2>3, <3>1 DEF Least
    <3> QED
      BY <1>1, <3>2
  <2>4. CASE ~ (x \div Unit >= Burst)
    <3>1. ((x \div Unit) + 1) * Unit <= Burst * Unit
      BY <1>1, <2>2, <2>4, Monotone
    <3>2. ((x \div Unit) + 1) * Unit = (x \div Unit) * Unit + Unit
      BY <1>1, <2>2
    <3>3. Tokens = x \div Unit /\ Credit = x
      BY <1>1, <2>1, <2>2, <2>4, <3>1, <3>2 DEF Least
    <3> QED
      BY <1>1, <2>2, <2>4, <3>1, <3>2, <3>3
  <2> QED
    BY <2>3, <2>4
<1> QED
  BY <1>2, <1>3

\* What a packet costs, and why m_tsLast stays a time between 1 and now.
LEMMA Charge ==
  ASSUME TypeOK, Consume
  PROVE  /\ m_tsLast' \in 1 .. now
         /\ Credit' \in Nat
         /\ Credit' <= Credit - pkt * Unit
         /\ Credit' > Credit - (pkt + 1) * Unit - rate
<1> DEFINE y == (Tokens - pkt) * Unit
<1>1. /\ Unit \in Nat \ {0} /\ Burst \in Nat /\ Burst * Unit \in Nat
      /\ rate \in Nat \ {0} /\ pkt \in Nat /\ now \in Nat /\ Epoch \in Nat
      /\ Epoch <= now /\ Epoch * rate > Burst * Unit
  BY BucketAssumption DEF TypeOK
<1>2. /\ Tokens \in 0 .. Burst /\ Tokens >= pkt /\ Tokens * Unit <= Credit
      /\ Credit \in Nat /\ Credit < (Tokens + 1) * Unit
  BY <1>1, TokensAreCredit DEF Consume, Enough
<1>3. y \in Nat /\ y = Tokens * Unit - pkt * Unit /\ y <= Burst * Unit
  <2>1. Tokens * Unit <= Burst * Unit
    BY <1>1, <1>2, Monotone
  <2> QED
    BY <1>1, <1>2, <2>1
<1>4. LeftOver = y \div rate
  BY DEF LeftOver
<1> HIDE DEF y
<1>5. LeftOver \in Nat /\ LeftOver * rate <= y /\ y < LeftOver * rate + rate
  BY <1>1, <1>3, <1>4, Floor
<1>6. LeftOver < now
  <2>1. SUFFICES ASSUME now <= LeftOver PROVE FALSE
    BY <1>1, <1>5
  <2>2. Epoch * rate <= LeftOver * rate
    BY <1>1, <1>5, <2>1, Monotone
  <2> QED
    BY <1>1, <1>3, <1>5, <2>2
<1>7. m_tsLast' = now - LeftOver /\ now' = now /\ rate' = rate
  BY DEF Consume
<1>8. m_tsLast' \in 1 .. now
  BY <1>1, <1>5, <1>6, <1>7
<1>9. Credit' = LeftOver * rate
  <2>1. Credit' = Least(Burst * Unit, (now' - m_tsLast') * rate')
    BY <1>8 DEF Credit
  <2>2. now' - m_tsLast' = LeftOver
    BY <1>1, <1>5, <1>7
  <2> QED
    BY <1>1, <1>3, <1>5, <1>7, <2>1, <2>2 DEF Least
<1>10. (Tokens + 1) * Unit = Tokens * Unit + Unit /\ (pkt + 1) * Unit = pkt * Unit + Unit
  BY <1>1, <1>2
<1> QED
  BY <1>1, <1>2, <1>3, <1>5, <1>8, <1>9, <1>10

-----------------------------------------------------------------------------
(* The bucket's invariant: the bytes that passed, together with what the   *)
(* bucket is still worth, stay within the bound.                           *)

Worth == passed * Unit + Credit <= Burst * Unit + rate * (now - mark)

\* The tokens of a waiting packet accrue since it came at the latest.
Waiting == pkt # 0 => m_tsLast <= since

BInv == TypeOK /\ Worth /\ Waiting

LEMMA InitBInv == Init => BInv
BY BucketAssumption DEF Init, BInv, TypeOK, Worth, Waiting, Credit

\* Waiting earns no more than the rate.
LEMMA TickBInv == ASSUME BInv, Tick PROVE BInv'
<1>1. /\ Unit \in Nat \ {0} /\ Burst * Unit \in Nat /\ rate \in Nat \ {0}
      /\ now \in Nat /\ mark \in 0 .. now /\ m_tsLast \in 0 .. now /\ passed * Unit \in Nat
  BY BucketAssumption DEF BInv, TypeOK
<1>2. TypeOK'
  BY <1>1, BucketAssumption DEF BInv, TypeOK, Tick
<1>3. Credit' <= Credit + rate /\ Credit' \in Nat /\ Credit \in Nat
  <2>1. CASE m_tsLast = 0
    BY <1>1, <2>1 DEF Tick, Credit
  <2>2. CASE m_tsLast # 0
    <3>1. (now' - m_tsLast') * rate' = (now - m_tsLast) * rate + rate
      BY <1>1 DEF Tick
    <3>2. (now - m_tsLast) * rate \in Nat
      BY <1>1
    <3> QED
      BY <1>1, <2>2, <3>1, <3>2 DEF Tick, Credit, Least
  <2> QED
    BY <2>1, <2>2
<1>4. rate' * (now' - mark') = rate * (now - mark) + rate
  BY <1>1 DEF Tick
<1>5. rate * (now - mark) \in Nat
  BY <1>1
<1>6. passed' * Unit + Credit' <= Burst * Unit + rate' * (now' - mark')
  BY <1>1, <1>3, <1>4, <1>5 DEF BInv, Worth, Tick
<1> QED
  BY <1>2, <1>6 DEF BInv, Worth, Waiting, Tick

LEMMA ConsumeBInv == ASSUME BInv, Consume PROVE BInv'
<1>1. /\ Unit \in Nat \ {0} /\ passed \in Nat /\ pkt \in Nat /\ now \in Nat
  BY BucketAssumption DEF BInv, TypeOK
<1>2. TypeOK'
  BY <1>1, Charge DEF BInv, TypeOK, Consume
<1>3. passed' * Unit = passed * Unit + pkt * Unit
  BY <1>1 DEF Consume
<1>4. Worth'
  <2>1. Credit' <= Credit - pkt * Unit /\ Credit' \in Nat /\ Credit \in Nat
    BY Charge, TokensAreCredit, BucketAssumption DEF BInv
  <2>2. rate' = rate /\ now' = now /\ mark' = mark
    BY DEF Consume
  <2>3. rate * (now - mark) \in Int /\ Burst * Unit \in Int /\ passed * Unit \in Int
        /\ pkt * Unit \in Int
    BY <1>1, BucketAssumption DEF BInv, TypeOK
  <2>4. passed' * Unit + Credit' <= Burst * Unit + rate' * (now' - mark')
    BY <1>3, <2>1, <2>2, <2>3 DEF BInv, Worth
  <2> QED
    BY <2>4 DEF Worth
<1> QED
  BY <1>2, <1>4 DEF BInv, Waiting, Consume

LEMMA OtherBInv ==
  ASSUME BInv,
         (\E n \in Sizes : NextPacket(n)) \/ (\E r \in Rates : SetBandwidth(r)) \/ Observe
         \/ UNCHANGED vars
  PROVE  BInv'
<1>1. TypeOK'
  BY BucketAssumption DEF BInv, TypeOK, NextPacket, SetBandwidth, Observe, vars
<1>2. Credit \in 0 .. Burst * Unit /\ Credit' \in 0 .. Burst * Unit
  <2>1. Credit' = IF m_tsLast' = 0 THEN Burst * Unit
                  ELSE Least(Burst * Unit, (now' - m_tsLast') * rate')
    BY DEF Credit
  <2>2. (now' - m_tsLast') * rate' \in Nat /\ Burst * Unit \in Nat
    <3>1. now' \in Nat /\ m_tsLast' \in 0 .. now' /\ rate' \in Rates
      BY <1>1 DEF TypeOK
    <3>2. now' - m_tsLast' \in Nat
      <4>1. ASSUME NEW a \in Nat, NEW b \in 0 .. a PROVE a - b \in Nat
        OBVIOUS
      <4> QED
        BY <3>1, <4>1
    <3>3. rate' \in Nat /\ Burst \in Nat /\ Unit \in Nat
      BY <3>1, BucketAssumption
    <3> QED
      BY <3>2, <3>3
  <2> QED
    BY <2>1, <2>2, TokensAreCredit DEF BInv, Least
<1>3. ASSUME mark' = now, passed' = 0, now' = now PROVE Worth'
  <2>1. passed' * Unit = 0 /\ rate' * (now' - mark') = 0 /\ Burst * Unit \in Nat
    <3>1. /\ rate' \in Nat /\ Burst \in Nat /\ Unit \in Nat /\ passed' = 0
          /\ now' - mark' = 0
      BY <1>1, <1>3, BucketAssumption DEF TypeOK
    <3> QED
      BY <3>1
  <2>2. passed' * Unit + Credit' <= Burst * Unit + rate' * (now' - mark')
    BY <1>2, <2>1
  <2> QED
    BY <2>2 DEF Worth
<1>4. ASSUME UNCHANGED <<now, m_tsLast, rate, mark, passed>> PROVE Worth'
  BY <1>4 DEF BInv, Worth, Credit
<1>5. TypeOK' /\ Worth'
  BY <1>1, <1>3, <1>4 DEF BInv, NextPacket, SetBandwidth, Observe, vars
<1>6. Waiting'
  BY DEF BInv, TypeOK, Waiting, NextPacket, SetBandwidth, Observe, vars
<1> QED
  BY <1>5, <1>6 DEF BInv

LEMMA BInductive == Spec => []BInv
<1>1. BInv /\ [Next]_vars => BInv'
  BY TickBInv, ConsumeBInv, OtherBInv DEF Next
<1> QED
  BY <1>1, InitBInv, PTL DEF Spec

\* m_tsLast is a time between 1 and now from the first packet on.
THEOREM BucketTypeCorrect == Spec => []TypeOK
BY BInductive, PTL DEF BInv

\* In no interval does the sender exceed rate x time + burst.
THEOREM RateIsBounded == Spec => []RateBound
<1>1. BInv => RateBound
  <2> SUFFICES ASSUME BInv PROVE RateBound
    OBVIOUS
  <2>1. Credit \in Nat /\ passed * Unit \in Int /\ Burst * Unit \in Int
        /\ rate * (now - mark) \in Int
    BY TokensAreCredit, BucketAssumption DEF BInv, TypeOK
  <2> QED
    BY <2>1 DEF BInv, Worth, RateBound
<1> QED
  BY <1>1, BInductive, PTL

\* A packet is charged what it weighs, up to the two roundings.
THEOREM ChargesAreFair == Spec => FairCharge
<1>1. BInv /\ [Next]_vars =>
        [pkt # 0 /\ pkt' = 0 =>
           /\ Credit' <= Credit - pkt * Unit
           /\ Credit' > Credit - (pkt + 1) * Unit - rate]_vars
  <2> SUFFICES ASSUME BInv, Next, pkt # 0, pkt' = 0
               PROVE  /\ Credit' <= Credit - pkt * Unit
                      /\ Credit' > Credit - (pkt + 1) * Unit - rate
    OBVIOUS
  <2>1. Consume
    BY DEF Next, Tick, NextPacket, SetBandwidth, Observe
  <2> QED
    BY <2>1, Charge DEF BInv
<1> QED
  BY <1>1, BInductive, PTL DEF Spec, FairCharge

\* A packet passes once its own bytes' worth of time is over.
THEOREM WaitsAreBounded == Spec => []WaitIsBounded
<1>1. BInv => WaitIsBounded
  <2> SUFFICES ASSUME BInv, pkt # 0, (now - since) * rate >= pkt * Unit
               PROVE  Tokens >= pkt
    BY DEF WaitIsBounded, Enough
  <2>1. /\ Unit \in Nat \ {0} /\ Burst \in Nat /\ rate \in Nat /\ pkt \in Nat
        /\ now \in Nat /\ since \in 0 .. now /\ m_tsLast \in 0 .. since /\ pkt <= Burst
    BY BucketAssumption DEF BInv, TypeOK, Waiting
  <2>2. Tokens \in Nat /\ Credit < (Tokens + 1) * Unit
    BY <2>1, TokensAreCredit DEF BInv
  <2>3. pkt * Unit <= Credit
    <3>1. pkt * Unit <= Burst * Unit
      BY <2>1, Monotone
    <3>2. (now - since) * rate <= (now - m_tsLast) * rate
      BY <2>1, Monotone
    <3>3. pkt * Unit \in Nat /\ Burst * Unit \in Nat /\ (now - since) * rate \in Nat
          /\ (now - m_tsLast) * rate \in Nat
      BY <2>1
    <3> QED
      BY <3>1, <3>2, <3>3 DEF Credit, Least
  <2>4. SUFFICES ASSUME Tokens + 1 <= pkt PROVE FALSE
    BY <2>1, <2>2
  <2>5. (Tokens + 1) * Unit <= pkt * Unit
    BY <2>1, <2>2, <2>4, Monotone
  <2> QED
    BY <2>1, <2>2, <2>3, <2>5, TokensAreCredit DEF BInv
<1> QED
  BY <1>1, BInductive, PTL
=============================================================================
