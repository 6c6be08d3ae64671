------------------------------ MODULE RecvPath ------------------------------
(***************************************************************************)
(* The receiving half of one UDPStream: receiverEntry putting data packets *)
(* back in order (onRecvData), and the application that reads the bytes,   *)
(* which share only the byte ring.                                         *)
(*                                                                         *)
(* The peer's stream is cut into packets: packet s holds the bytes         *)
(* Start[s] .. Start[s + 1] - 1, so a packet is its number and a payload   *)
(* its first byte and its size.  wire holds the packets the peer has sent  *)
(* so far: each may be lost, arrive late, or arrive many times.            *)
(*                                                                         *)
(* Nothing in the code keeps the peer from sending more than the ring can  *)
(* take.  MaxAhead bounds how many bytes the peer is ahead of the reader.  *)
(***************************************************************************)
EXTENDS CircBuff

CONSTANTS
  MaxSeq,    \* bound: packets of the peer's stream
  Start,     \* Start[s]: position of the first byte of packet s
  SeqBit,    \* numbers are sent without their top bit, 2^31 in the code
  MaxAhead   \* most bytes sent and not read

ASSUME StreamAssumption ==
  /\ MaxSeq \in Nat
  /\ SeqBit \in Nat /\ SeqBit >= 1
  /\ MaxAhead \in Nat
  /\ Start \in [1 .. MaxSeq + 1 -> Nat]
  /\ Start[1] = 0
  /\ \A a, b \in 1 .. MaxSeq + 1 : a < b => Start[a] < Start[b]

VARIABLES
  pc,         \* where the receiver and the reader are
  sent,       \* packets the peer has sent: 1 .. sent
  cur,        \* the packet being handled by the receiver
  m_nextSeq,  \* the number the receiver waits for
  m_recvMap,  \* packets that came too early, by the number they came with
  acks,       \* packets an ack was sent for (history)
  r_n,        \* bytes the reader has decided to take
  r_data,     \* bytes the reader took out of the ring
  r_got       \* bytes the reader is done with

recvVars == <<cur, m_nextSeq, m_recvMap, acks>>
readVars == <<r_n, r_data, r_got>>
vars == <<cbVars, pc, sent, recvVars, readVars>>

Packets  == 1 .. MaxSeq
SizeOf(s) == Start[s + 1] - Start[s]

\* The number packet s travels with: Packet::seq () drops the top bit.
Header(s) == IF s >= SeqBit THEN s - SeqBit ELSE s

ReceiverLabels == {"recv", "data", "advance", "drain", "take", "ack"}
ReaderLabels   == {"poll", "copy", "done"}

Init ==
  /\ CBInit
  /\ pc = [receiver |-> "recv", reader |-> "poll"]
  /\ sent = 0
  /\ cur = 0
  /\ m_nextSeq = 1
  /\ m_recvMap = [h \in {} |-> 0]
  /\ acks = {}
  /\ r_n = 0
  /\ r_data = [k \in {} |-> 0]
  /\ r_got = 0

PcTypeOK == pc \in [receiver : ReceiverLabels, reader : ReaderLabels]

RecvTypeOK ==
  /\ sent \in 0 .. MaxSeq
  /\ cur \in 0 .. sent
  /\ pc.receiver # "recv" => cur # 0
  /\ m_nextSeq \in 1 .. MaxSeq + 1
  /\ \A h \in DOMAIN m_recvMap : m_recvMap[h] \in 1 .. sent /\ h = Header(m_recvMap[h])
  /\ acks \subseteq Packets

ReadTypeOK ==
  /\ r_n \in Nat
  /\ r_got \in Nat

TypeOK == CBTypeOK /\ PcTypeOK /\ RecvTypeOK /\ ReadTypeOK

Step(t, from, to) ==
  /\ pc[t] = from
  /\ pc' = [pc EXCEPT ![t] = to]

-----------------------------------------------------------------------------
(* The peer sends its next packet.                                         *)
PeerSends ==
  /\ sent < MaxSeq
  /\ Start[sent + 2] - r_got <= MaxAhead
  /\ sent' = sent + 1
  /\ UNCHANGED <<cbVars, pc, recvVars, readVars>>

-----------------------------------------------------------------------------
(* The receiver thread, as far as it concerns data packets.                *)

\* recv () returns data packet s.
RecvData(s) ==
  /\ Step("receiver", "recv", "data")
  /\ cur' = s
  /\ UNCHANGED <<cbVars, sent, m_nextSeq, m_recvMap, acks, readVars>>

\* onRecvData, fast path: the packet is the one waited for.
FastCopy ==
  /\ Step("receiver", "data", "advance")
  /\ Header(cur) = m_nextSeq
  /\ Write(Start[cur], SizeOf(cur))
  /\ m_nextSeq' = m_nextSeq + 1
  /\ UNCHANGED <<sent, cur, m_recvMap, acks, readVars>>

FastAdvance ==
  /\ Step("receiver", "advance", "drain")
  /\ WptrAdvance(SizeOf(cur))
  /\ UNCHANGED <<sent, recvVars, readVars>>

\* Mutant of Stash: a packet that came too early is dropped.
StashNothing ==
  /\ Step("receiver", "data", "drain")
  /\ Header(cur) > m_nextSeq
  /\ UNCHANGED <<cbVars, sent, recvVars, readVars>>

\* onRecvData, out of order path: the packet is kept for later.
Stash ==
  /\ Step("receiver", "data", "drain")
  /\ Header(cur) > m_nextSeq
  /\ m_recvMap' = [h \in DOMAIN m_recvMap \cup {Header(cur)} |->
                     IF h = Header(cur) THEN cur ELSE m_recvMap[h]]
  /\ UNCHANGED <<cbVars, sent, cur, m_nextSeq, acks, readVars>>

\* Mutant of TooOld: the number waited for counts as seen.
TooOldOrNext == Header(cur) <= m_nextSeq

\* "if the data's too old (or a dup) just drop it entirely"
TooOld == Header(cur) < m_nextSeq

Drop ==
  /\ Step("receiver", "data", "drain")
  /\ TooOld
  /\ UNCHANGED <<cbVars, sent, recvVars, readVars>>

\* Mutant of DrainCopy: the bytes come from the packet buffer, not the map.
DrainCopyPacket ==
  /\ Step("receiver", "drain", "take")
  /\ m_nextSeq \in DOMAIN m_recvMap
  /\ Write(Start[cur], SizeOf(cur))
  /\ UNCHANGED <<sent, recvVars, readVars>>

\* The loop that moves kept packets to the ring: first the bytes ...
DrainCopy ==
  /\ Step("receiver", "drain", "take")
  /\ m_nextSeq \in DOMAIN m_recvMap
  /\ Write(Start[m_recvMap[m_nextSeq]], SizeOf(m_recvMap[m_nextSeq]))
  /\ UNCHANGED <<sent, recvVars, readVars>>

\* ... then the write index, the map and the number waited for.
DrainAdvance ==
  /\ Step("receiver", "take", "drain")
  /\ WptrAdvance(SizeOf(m_recvMap[m_nextSeq]))
  /\ m_recvMap' = [h \in DOMAIN m_recvMap \ {m_nextSeq} |-> m_recvMap[h]]
  /\ m_nextSeq' = m_nextSeq + 1
  /\ UNCHANGED <<sent, cur, acks, readVars>>

\* Mutant of DrainEnd: at most one kept packet is moved, as if with `if`.
DrainEndEarly ==
  /\ Step("receiver", "drain", "ack")
  /\ UNCHANGED <<cbVars, sent, recvVars, readVars>>

DrainEnd ==
  /\ Step("receiver", "drain", "ack")
  /\ m_nextSeq \notin DOMAIN m_recvMap
  /\ UNCHANGED <<cbVars, sent, recvVars, readVars>>

\* Every data packet is acked, whatever became of it.
SendAck ==
  /\ Step("receiver", "ack", "recv")
  /\ acks' = acks \cup {cur}
  /\ UNCHANGED <<cbVars, sent, cur, m_nextSeq, m_recvMap, readVars>>

Handle ==
  \/ FastCopy \/ FastAdvance \/ Stash \/ Drop
  \/ DrainCopy \/ DrainAdvance \/ DrainEnd \/ SendAck

Receiver == (\E s \in 1 .. sent : RecvData(s)) \/ Handle

-----------------------------------------------------------------------------
(* The application that reads.                                             *)

\* readable () has become positive; the application takes n of those bytes.
Poll(n) ==
  /\ Step("reader", "poll", "copy")
  /\ r_n' = n
  /\ UNCHANGED <<cbVars, sent, recvVars, r_data, r_got>>

\* It uses the bytes at rptr () ...
Copy ==
  /\ Step("reader", "copy", "done")
  /\ r_data' = ReadBytes(r_n)
  /\ UNCHANGED <<cbVars, sent, recvVars, r_n, r_got>>

\* ... and gives their room back.
FreeRoom ==
  /\ Step("reader", "done", "poll")
  /\ RptrAdvance(r_n)
  /\ r_got' = r_got + r_n
  /\ UNCHANGED <<sent, recvVars, r_n, r_data>>

Reader == (\E n \in 1 .. Used : Poll(n)) \/ Copy \/ FreeRoom

Next == PeerSends \/ Receiver \/ Reader

Spec == Init /\ [][Next]_vars

\* The peer retransmits what is not acked and the network does not lose one
\* packet for ever, so a packet that is not acked is received in the end; no
\* packet need arrive again once it is acked.  The two threads never stop.
FairSpec ==
  /\ Spec
  /\ WF_vars(PeerSends)
  /\ WF_vars(Handle)
  /\ WF_vars(Reader)
  /\ \A s \in Packets : SF_vars(s \in 1 .. sent \ acks /\ RecvData(s))

-----------------------------------------------------------------------------
(* Properties.                                                             *)

\* The bytes the application uses are the next ones of the peer's stream:
\* nothing is missing, repeated, reordered or overwritten before it is read.
ReadsInOrder ==
  pc.reader = "done" => r_data = [k \in 0 .. r_n - 1 |-> r_got + k]

\* Whenever the receiver waits for a packet, what it has acked without a gap
\* from the first packet on can be read: nothing acked stays behind in the
\* map that should have been moved to the ring.
AckedIsReadable ==
  pc.receiver = "recv" =>
    \A n \in 0 .. sent : 1 .. n \subseteq acks => r_got + Used >= Start[n + 1]

\* An acked packet is never forgotten: it is in the stream already or kept.
AckedIsHeld ==
  \A s \in acks : s < m_nextSeq \/ \E h \in DOMAIN m_recvMap : m_recvMap[h] = s

\* Between packets the map holds only packets that are still to come: none
\* that was delivered is left in it.
MapIsAhead ==
  pc.receiver = "recv" => \A h \in DOMAIN m_recvMap : h > m_nextSeq

\* Only a packet that is old is dropped (UDPStream.cpp:106): one whose bytes
\* are in the stream already.
OnlyOldDropped ==
  [][Drop => Start[cur + 1] <= r_got + Used]_vars

\* The receiving half keeps the promise of Delivery, on which Transport
\* stands: packets that arrived are kept, and whole packets become readable,
\* in order.
Promise == INSTANCE Delivery WITH
  start   <- [s \in 1 .. sent + 1 |-> Start[s]],
  arrived <- 1 .. m_nextSeq - 1 \cup {m_recvMap[h] : h \in DOMAIN m_recvMap},
  avail   <- r_got + Used,
  ackedTo <- acks,
  got     <- r_got

ImplementsDelivery == Promise!Spec

\* Every packet sent is eventually read to its last byte.
AllIsRead == \A n \in Packets : sent = n ~> r_got >= Start[n + 1]
=============================================================================
