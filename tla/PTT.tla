--------------------------------- MODULE PTT ---------------------------------
(***************************************************************************)
(* The packet time table of PTT.cpp: a ring of send and receive times      *)
(* between who sends packets, who gets answers and who reads the outcomes. *)
(* m_head0 is where the next packet goes, m_head1 the oldest packet still  *)
(* waited for, m_tail the next outcome to read.  None of them is atomic;   *)
(* each call is one step here.                                             *)
(***************************************************************************)
EXTENDS Integers, FiniteSetsExt

CONSTANTS
  Entries,   \* m_size: entries, a page's worth in the code
  Reorder    \* how far the oldest packet may be overtaken, 5 in the code

\* What is assumed of the constants.
ASSUME TableAssumption == Entries \in Nat \ {0, 1} /\ Reorder \in Nat

VARIABLES mbase, m_seq, m_head0, m_head1, m_tail

pttVars == <<mbase, m_seq, m_head0, m_head1, m_tail>>

Slots == 0 .. Entries - 1

\* The slot k after slot i.
After(i, k) == (i + k) % Entries

IndexDifference(a, b) == IF a >= b THEN a - b ELSE a + Entries - b

InFlight == IndexDifference(m_head0, m_head1)
Readable == IndexDifference(m_head1, m_tail)

\* One more entry and m_head0 is m_tail, as in an empty table.
TableFull == IndexDifference(m_head0, m_tail) = Entries - 1

PTTInit ==
  /\ mbase = [i \in Slots |-> [seq |-> 0, tsSent |-> 0, tsRecv |-> 0]]
  /\ m_seq = 1
  /\ m_head0 = 0 /\ m_head1 = 0 /\ m_tail = 0

\* A full table is not noticed: the oldest outcome is overwritten.
SetSent(ts) ==
  /\ mbase' = [mbase EXCEPT ![m_head0] = [seq |-> m_seq, tsSent |-> ts, tsRecv |-> 0]]
  /\ m_head0' = After(m_head0, 1)
  /\ m_seq' = m_seq + 1
  /\ UNCHANGED <<m_head1, m_tail>>

\* Mutant of SkipAnswered: the end is taken to be one slot further.
SkipAnsweredOn(buf, i) ==
  After(i, Min({k \in Slots : After(i, k) = After(m_head0, 1) \/ buf[After(i, k)].tsRecv = 0}))

\* The first slot from i on that has no answer, or the end of those sent.
SkipAnswered(buf, i) ==
  After(i, Min({k \in Slots : After(i, k) = m_head0 \/ buf[After(i, k)].tsRecv = 0}))

\* An answer k packets after the oldest one waited for moves on from that.
GivenUp(k) == k = 0 \/ k > Reorder

\* The answer for packet s.  The search begins at m_head1 without a look at
\* m_head0, so that with nothing in flight it goes around the whole table.
SetRecv(s, ts) ==
  LET reach  == IF InFlight = 0 THEN Entries ELSE InFlight
      places == {k \in 0 .. reach - 1 : mbase[After(m_head1, k)].seq = s}
      ii     == After(m_head1, Min(places))
      buf    == [mbase EXCEPT ![ii].tsRecv = ts]
  IN  /\ places # {}
      /\ mbase' = buf
      /\ m_head1' = IF GivenUp(Min(places)) THEN SkipAnswered(buf, ii) ELSE m_head1
      /\ UNCHANGED <<m_seq, m_head0, m_tail>>

\* rptr () and readAdvance (1)
Rptr == mbase[m_tail]

ReadAdvance ==
  /\ m_tail' = After(m_tail, 1)
  /\ UNCHANGED <<mbase, m_seq, m_head0, m_head1>>
=============================================================================
