--------------------------- MODULE RecvPathProofs ---------------------------
(***************************************************************************)
(* Theorems about RecvPath for every ring capacity, every way of cutting   *)
(* the stream into packets, and every loss, duplication and reordering of  *)
(* them.  Two assumptions on the peer: it is never a whole ring ahead of   *)
(* the reader, and it stops before its sequence numbers lose their top     *)
(* bit.  The code enforces neither.                                        *)
(***************************************************************************)
EXTENDS RecvPath, SequenceTheorems, TLAPS

ASSUME PeerAssumption ==
  /\ MaxAhead < Capacity
  /\ MaxSeq < SeqBit

-----------------------------------------------------------------------------
(* The inductive invariant.                                                *)

\* Stream position after the last byte copied to the ring, and of the write
\* index; they differ between a copy and its wptrAdvance.
Copied   == Start[IF pc.receiver = "take" THEN m_nextSeq + 1 ELSE m_nextSeq]
Readable == IF pc.receiver = "advance" THEN Start[cur] ELSE Start[m_nextSeq]

\* The peer is at most MaxAhead bytes ahead of the reader, the receiver is
\* not ahead of the peer.
AheadInv ==
  /\ m_nextSeq <= sent + 1
  /\ Start[sent + 1] - r_got <= MaxAhead
  /\ pc.receiver = "advance" => m_nextSeq = cur + 1

\* The ring holds the bytes of the stream from r_got on, at consecutive indices
\* from the read index.
RingInv ==
  /\ r_got + Used = Readable
  /\ \A k \in 0 .. Copied - r_got - 1 : m_base[At(m_ridx, k)] = r_got + k

\* The map holds packets under their own numbers, none that was delivered;
\* the one waited for only while the loop that drains the map runs.
MapInv ==
  /\ \A h \in DOMAIN m_recvMap : m_recvMap[h] = h /\ h \in m_nextSeq .. sent
  /\ pc.receiver \in {"recv", "data", "ack"} => m_nextSeq \notin DOMAIN m_recvMap
  /\ pc.receiver = "take" => m_nextSeq \in DOMAIN m_recvMap

\* What is acked, and the packet about to be, is delivered or in the map.
HeldInv ==
  \A s \in Packets :
    s \in acks \/ (s = cur /\ pc.receiver \in {"advance", "drain", "take", "ack"})
      => s < m_nextSeq \/ s \in DOMAIN m_recvMap

\* What the reader takes is there.
ReaderInv ==
  /\ pc.reader \in {"copy", "done"} => r_n \in 1 .. Used
  /\ ReadsInOrder

RInv == TypeOK /\ AheadInv /\ RingInv /\ MapInv /\ HeldInv /\ ReaderInv

-----------------------------------------------------------------------------
(* The ring.                                                               *)

LEMMA AtType ==
  ASSUME NEW i \in Indices, NEW k \in 0 .. Capacity
  PROVE  At(i, k) \in Indices
BY CapacityAssumption DEF Indices, At

LEMMA UsedType == CBTypeOK => Used \in Indices
BY CapacityAssumption DEF CBTypeOK, Indices, Used

\* Writing n bytes behind the used ones keeps those and adds the new ones.
LEMMA WriteEffect ==
  ASSUME CBTypeOK, NEW n \in Nat, NEW b \in Nat, Used + n <= Capacity, Write(b, n)
  PROVE  /\ \A k \in 0 .. Used - 1 : m_base'[At(m_ridx, k)] = m_base[At(m_ridx, k)]
         /\ \A k \in Used .. Used + n - 1 : m_base'[At(m_ridx, k)] = b + (k - Used)
<1>1. /\ m_ridx \in Indices /\ m_widx \in Indices /\ Used \in Indices
      /\ Capacity \in Nat /\ Capacity >= 1
  BY UsedType, CapacityAssumption DEF CBTypeOK
<1>2. ASSUME NEW k \in 0 .. Used - 1 PROVE Ahead(At(m_ridx, k)) >= n /\ At(m_ridx, k) \in Indices
  BY <1>1 DEF Ahead, At, Used, Indices
<1>3. ASSUME NEW k \in Used .. Used + n - 1
      PROVE  Ahead(At(m_ridx, k)) = k - Used /\ At(m_ridx, k) \in Indices
  BY <1>1 DEF Ahead, At, Used, Indices
<1>4. \A i \in Indices :
        /\ Ahead(i) \in Int
        /\ m_base'[i] = IF Ahead(i) < n THEN b + Ahead(i) ELSE m_base[i]
  BY <1>1 DEF Ahead, Indices, Write
<1>5. ASSUME NEW k \in 0 .. Used - 1
      PROVE  m_base'[At(m_ridx, k)] = m_base[At(m_ridx, k)]
  <2>1. ~ (Ahead(At(m_ridx, k)) < n)
    BY <1>2, <1>4
  <2> QED
    BY <1>2, <1>4, <2>1
<1>6. ASSUME NEW k \in Used .. Used + n - 1
      PROVE  m_base'[At(m_ridx, k)] = b + (k - Used)
  <2>1. k - Used < n
    BY <1>1 DEF Indices
  <2> QED
    BY <1>3, <1>4, <2>1
<1> QED
  BY <1>5, <1>6

LEMMA WptrEffect ==
  ASSUME CBTypeOK, NEW n \in Nat, Used + n < Capacity, WptrAdvance(n)
  PROVE  Used' = Used + n /\ m_widx' \in Indices
BY CapacityAssumption DEF CBTypeOK, Indices, WptrAdvance, Used, At

LEMMA RptrEffect ==
  ASSUME CBTypeOK, NEW n \in 0 .. Used, RptrAdvance(n)
  PROVE  /\ Used' = Used - n /\ m_ridx' \in Indices
         /\ \A k \in 0 .. Capacity - 1 - n : At(m_ridx', k) = At(m_ridx, k + n)
BY CapacityAssumption DEF CBTypeOK, Indices, RptrAdvance, Used, At

-----------------------------------------------------------------------------
(* The stream.                                                             *)

LEMMA StartFacts ==
  /\ MaxSeq \in Nat /\ MaxAhead \in Nat /\ Capacity \in Nat /\ MaxAhead < Capacity
  /\ \A a \in 1 .. MaxSeq + 1 : Start[a] \in Nat
  /\ \A a, b \in 1 .. MaxSeq + 1 : a <= b => Start[a] <= Start[b]
  /\ \A s \in 1 .. MaxSeq : Header(s) = s
BY StreamAssumption, CapacityAssumption, PeerAssumption DEF Header


-----------------------------------------------------------------------------
(* Types.                                                                  *)

LEMMA InitRType == Init => TypeOK
<1> SUFFICES ASSUME Init PROVE TypeOK
  OBVIOUS
<1>1. CBTypeOK
  <2>1. m_base \in [Indices -> Int]
    BY DEF Init, CBInit, NoByte
  <2> QED
    BY <2>1, CapacityAssumption DEF Init, CBInit, CBTypeOK, Indices
<1>2. PcTypeOK
  BY DEF Init, PcTypeOK, ReceiverLabels, ReaderLabels
<1>3. RecvTypeOK /\ ReadTypeOK
  BY StreamAssumption DEF Init, RecvTypeOK, ReadTypeOK
<1> QED
  BY <1>1, <1>2, <1>3 DEF TypeOK

LEMMA NextRPc == TypeOK /\ [Next]_vars => PcTypeOK'
<1> SUFFICES ASSUME TypeOK, [Next]_vars PROVE PcTypeOK'
  OBVIOUS
<1> USE DEF TypeOK, PcTypeOK, ReceiverLabels, ReaderLabels, Step
<1>1. CASE PeerSends
  BY <1>1 DEF PeerSends
<1>2. CASE Receiver
  BY <1>2 DEF Receiver, Handle, RecvData, FastCopy, FastAdvance, Stash, Drop, DrainCopy,
     DrainAdvance, DrainEnd, SendAck
<1>3. CASE Reader
  BY <1>3 DEF Reader, Poll, Copy, FreeRoom
<1>4. CASE UNCHANGED vars
  BY <1>4 DEF vars
<1> QED
  BY <1>1, <1>2, <1>3, <1>4 DEF Next

-----------------------------------------------------------------------------
(* Each step preserves the invariant.                                      *)

\* Facts about a state of the invariant that the steps use.
LEMMA RecvNumbers ==
  ASSUME RInv
  PROVE  /\ sent \in 0 .. MaxSeq /\ cur \in 0 .. sent
         /\ m_nextSeq \in 1 .. sent + 1 /\ r_got \in Nat /\ r_n \in Nat
         /\ Used \in 0 .. Capacity - 1 /\ r_got + Used = Readable
         /\ pc.receiver # "recv" => cur \in 1 .. MaxSeq
         /\ \A a \in 1 .. sent + 1 : Start[a] \in Nat /\ Start[a] - r_got <= MaxAhead
         /\ \A h \in DOMAIN m_recvMap : h \in 1 .. sent
BY StartFacts, UsedType DEF RInv, TypeOK, RecvTypeOK, ReadTypeOK, AheadInv, RingInv, MapInv,
   Indices

\* Steps that leave the ring alone, and the two that only one thread sees.
LEMMA QuietSteps ==
  ASSUME RInv,
         \/ PeerSends \/ (\E s \in 1 .. sent : RecvData(s))
         \/ Stash \/ Drop \/ DrainEnd \/ SendAck \/ UNCHANGED vars
  PROVE  RInv'
<1>0. /\ UNCHANGED <<m_base, m_widx, m_ridx, pc.reader, r_n, r_data, r_got, m_nextSeq>>
      /\ Used' = Used
  BY DEF PeerSends, RecvData, Stash, Drop, DrainEnd, SendAck, vars, cbVars, readVars, recvVars,
     Step, RInv, TypeOK, PcTypeOK, Used
<1>1. PcTypeOK'
  BY NextRPc DEF Next, Receiver, Handle, RInv
<1>2. CBTypeOK' /\ ReadTypeOK' /\ ReaderInv'
  BY <1>0 DEF RInv, TypeOK, CBTypeOK, ReadTypeOK, ReaderInv, ReadsInOrder
<1>3. ASSUME RecvTypeOK', AheadInv', MapInv', HeldInv', Copied' = Copied, Readable' = Readable
      PROVE  RInv'
  BY <1>0, <1>1, <1>2, <1>3 DEF RInv, TypeOK, RingInv
<1> USE DEF AheadInv, Copied, Readable
<1>4. CASE PeerSends
  <2>1. /\ sent' = sent + 1 /\ sent < MaxSeq /\ Start[sent + 2] - r_got <= MaxAhead
        /\ UNCHANGED <<pc, cur, m_recvMap, acks>>
    BY <1>4 DEF PeerSends, recvVars
  <2>2. RecvTypeOK' /\ AheadInv'
    BY <1>0, <2>1, RecvNumbers, StartFacts DEF RInv, TypeOK, RecvTypeOK
  <2>3. MapInv' /\ HeldInv'
    BY <1>0, <2>1, RecvNumbers DEF RInv, MapInv, HeldInv
  <2> QED
    BY <1>0, <1>3, <2>1, <2>2, <2>3
<1>5. ASSUME NEW s \in 1 .. sent, RecvData(s) PROVE RInv'
  <2>1. /\ cur' = s /\ UNCHANGED <<sent, m_recvMap, acks>>
        /\ pc.receiver = "recv" /\ pc'.receiver = "data"
    BY <1>5 DEF RecvData, Step, RInv, TypeOK, PcTypeOK
  <2>2. RecvTypeOK' /\ AheadInv' /\ MapInv' /\ HeldInv'
    BY <1>0, <2>1, RecvNumbers DEF RInv, TypeOK, RecvTypeOK, MapInv, HeldInv
  <2> QED
    BY <1>0, <1>3, <2>1, <2>2
<1>6. CASE Stash
  <2>1. /\ UNCHANGED <<sent, cur, acks>>
        /\ pc.receiver = "data" /\ pc'.receiver = "drain"
        /\ Header(cur) > m_nextSeq
        /\ m_recvMap' = [h \in DOMAIN m_recvMap \cup {Header(cur)} |->
                           IF h = Header(cur) THEN cur ELSE m_recvMap[h]]
    BY <1>6 DEF Stash, Step, RInv, TypeOK, PcTypeOK
  <2>2. Header(cur) = cur /\ cur \in 1 .. sent
    BY <2>1, RecvNumbers, StartFacts
  <2>3. /\ DOMAIN m_recvMap' = DOMAIN m_recvMap \cup {cur}
        /\ \A h \in DOMAIN m_recvMap' : m_recvMap'[h] = IF h = cur THEN cur ELSE m_recvMap[h]
    BY <2>1, <2>2
  <2>4. RecvTypeOK' /\ AheadInv'
    BY <1>0, <2>1, <2>2, <2>3, RecvNumbers DEF RInv, TypeOK, RecvTypeOK
  <2>5. MapInv' /\ HeldInv'
    BY <1>0, <2>1, <2>2, <2>3, RecvNumbers DEF RInv, MapInv, HeldInv
  <2> QED
    BY <1>0, <1>3, <2>1, <2>4, <2>5
<1>7. CASE Drop
  <2>1. /\ UNCHANGED <<sent, cur, m_recvMap, acks>>
        /\ pc.receiver = "data" /\ pc'.receiver = "drain" /\ Header(cur) < m_nextSeq
    BY <1>7 DEF Drop, TooOld, Step, RInv, TypeOK, PcTypeOK, recvVars
  <2>2. Header(cur) = cur
    BY <2>1, RecvNumbers, StartFacts
  <2>3. RecvTypeOK' /\ AheadInv' /\ MapInv' /\ HeldInv'
    BY <1>0, <2>1, <2>2, RecvNumbers DEF RInv, TypeOK, RecvTypeOK, MapInv, HeldInv
  <2> QED
    BY <1>0, <1>3, <2>1, <2>3
<1>7a. CASE DrainEnd
  <2>1. /\ UNCHANGED <<sent, cur, m_recvMap, acks>>
        /\ pc.receiver = "drain" /\ pc'.receiver = "ack" /\ m_nextSeq \notin DOMAIN m_recvMap
    BY <1>7a DEF DrainEnd, Step, RInv, TypeOK, PcTypeOK, recvVars
  <2>2. RecvTypeOK' /\ AheadInv' /\ MapInv' /\ HeldInv'
    BY <1>0, <2>1, RecvNumbers DEF RInv, TypeOK, RecvTypeOK, MapInv, HeldInv
  <2> QED
    BY <1>0, <1>3, <2>1, <2>2
<1>8. CASE SendAck
  <2>1. /\ UNCHANGED <<sent, cur, m_recvMap>> /\ acks' = acks \cup {cur}
        /\ pc.receiver = "ack" /\ pc'.receiver = "recv"
    BY <1>8 DEF SendAck, Step, RInv, TypeOK, PcTypeOK
  <2>2. RecvTypeOK' /\ AheadInv' /\ MapInv' /\ HeldInv'
    BY <1>0, <2>1, RecvNumbers DEF RInv, TypeOK, RecvTypeOK, MapInv, HeldInv, Packets
  <2> QED
    BY <1>0, <1>3, <2>1, <2>2
<1>9. CASE UNCHANGED vars
  <2>1. UNCHANGED <<pc, sent, cur, m_recvMap, acks>>
    BY <1>9 DEF vars, recvVars
  <2>2. RecvTypeOK' /\ AheadInv' /\ MapInv' /\ HeldInv'
    BY <1>0, <2>1 DEF RInv, TypeOK, RecvTypeOK, MapInv, HeldInv
  <2> QED
    BY <1>0, <1>3, <2>1, <2>2
<1> QED
  BY <1>4, <1>5, <1>6, <1>7, <1>7a, <1>8, <1>9

\* A copy of packet m_nextSeq extends what is in the ring.
LEMMA CopyExtends ==
  ASSUME RInv, pc.receiver \in {"data", "drain"}, m_nextSeq <= sent,
         Write(Start[m_nextSeq], SizeOf(m_nextSeq))
  PROVE  /\ UNCHANGED <<m_widx, m_ridx>> /\ Used' = Used
         /\ CBTypeOK'
         /\ \A k \in 0 .. Start[m_nextSeq + 1] - r_got - 1 : m_base'[At(m_ridx, k)] = r_got + k
<1>1. /\ r_got + Used = Start[m_nextSeq] /\ Copied = Start[m_nextSeq]
      /\ m_nextSeq \in 1 .. MaxSeq /\ r_got \in Nat /\ Used \in Nat
      /\ Start[m_nextSeq] \in Nat /\ Start[m_nextSeq + 1] \in Nat
      /\ Start[m_nextSeq] <= Start[m_nextSeq + 1]
      /\ Start[m_nextSeq + 1] - r_got < Capacity
  BY RecvNumbers, StartFacts DEF Readable, Copied
<1>2. SizeOf(m_nextSeq) \in Nat /\ Used + SizeOf(m_nextSeq) <= Capacity
  BY <1>1, StartFacts DEF SizeOf
<1>3. /\ \A k \in 0 .. Used - 1 : m_base'[At(m_ridx, k)] = m_base[At(m_ridx, k)]
      /\ \A k \in Used .. Used + SizeOf(m_nextSeq) - 1 :
           m_base'[At(m_ridx, k)] = Start[m_nextSeq] + (k - Used)
  BY <1>1, <1>2, WriteEffect DEF RInv, TypeOK
<1>4. \A k \in 0 .. Start[m_nextSeq + 1] - r_got - 1 : m_base'[At(m_ridx, k)] = r_got + k
  <2> SUFFICES ASSUME NEW k \in 0 .. Start[m_nextSeq + 1] - r_got - 1
               PROVE  m_base'[At(m_ridx, k)] = r_got + k
    OBVIOUS
  <2>1. CASE k < Used
    BY <1>1, <1>3, <2>1 DEF RInv, RingInv
  <2>2. CASE k >= Used
    BY <1>1, <1>3, <2>2 DEF SizeOf
  <2> QED
    BY <1>1, <2>1, <2>2
<1>5. m_base' \in [Indices -> Int]
  <2>1. \A i \in Indices : Ahead(i) \in Int
    BY CapacityAssumption DEF Ahead, Indices, RInv, TypeOK, CBTypeOK
  <2> QED
    BY <1>1, <2>1 DEF Write, RInv, TypeOK, CBTypeOK
<1> QED
  BY <1>4, <1>5 DEF Write, Used, RInv, TypeOK, CBTypeOK

LEMMA CopySteps == ASSUME RInv, FastCopy \/ DrainCopy PROVE RInv'
<1>1. PcTypeOK'
  BY NextRPc DEF Next, Receiver, Handle, RInv
<1>2. CASE FastCopy
  <2>1. /\ pc.receiver = "data" /\ pc'.receiver = "advance" /\ pc'.reader = pc.reader
        /\ Header(cur) = m_nextSeq /\ Write(Start[cur], SizeOf(cur))
        /\ m_nextSeq' = m_nextSeq + 1
        /\ UNCHANGED <<sent, cur, m_recvMap, acks, r_n, r_data, r_got>>
    BY <1>2 DEF FastCopy, Step, RInv, TypeOK, PcTypeOK, readVars
  <2>2. cur = m_nextSeq /\ m_nextSeq <= sent /\ m_nextSeq \notin DOMAIN m_recvMap
    BY <2>1, RecvNumbers, StartFacts DEF RInv, MapInv
  <2>3. /\ UNCHANGED <<m_widx, m_ridx>> /\ Used' = Used /\ CBTypeOK'
        /\ \A k \in 0 .. Start[m_nextSeq + 1] - r_got - 1 : m_base'[At(m_ridx, k)] = r_got + k
    BY <2>1, <2>2, CopyExtends
  <2>4. RingInv'
    BY <2>1, <2>2, <2>3, RecvNumbers DEF RingInv, Copied, Readable
  <2>5. RecvTypeOK' /\ ReadTypeOK' /\ AheadInv'
    BY <2>1, <2>2, RecvNumbers, StartFacts DEF RInv, TypeOK, RecvTypeOK, ReadTypeOK, AheadInv
  <2>5a. MapInv'
    BY <2>1, <2>2, RecvNumbers DEF RInv, MapInv
  <2>5b. HeldInv'
    BY <2>1, <2>2, RecvNumbers DEF RInv, HeldInv, Packets
  <2>6. ReaderInv'
    BY <2>1, <2>3 DEF RInv, ReaderInv, ReadsInOrder
  <2> QED
    BY <1>1, <2>3, <2>4, <2>5, <2>5a, <2>5b, <2>6 DEF RInv, TypeOK
<1>3. CASE DrainCopy
  <2>1. /\ pc.receiver = "drain" /\ pc'.receiver = "take" /\ pc'.reader = pc.reader
        /\ m_nextSeq \in DOMAIN m_recvMap
        /\ Write(Start[m_recvMap[m_nextSeq]], SizeOf(m_recvMap[m_nextSeq]))
        /\ UNCHANGED <<sent, cur, m_nextSeq, m_recvMap, acks, r_n, r_data, r_got>>
    BY <1>3 DEF DrainCopy, Step, RInv, TypeOK, PcTypeOK, readVars, recvVars
  <2>2. m_recvMap[m_nextSeq] = m_nextSeq /\ m_nextSeq <= sent
    BY <2>1, RecvNumbers DEF RInv, MapInv
  <2>3. /\ UNCHANGED <<m_widx, m_ridx>> /\ Used' = Used /\ CBTypeOK'
        /\ \A k \in 0 .. Start[m_nextSeq + 1] - r_got - 1 : m_base'[At(m_ridx, k)] = r_got + k
    BY <2>1, <2>2, CopyExtends
  <2>4. RingInv'
    BY <2>1, <2>2, <2>3, RecvNumbers DEF RingInv, Copied, Readable
  <2>5. RecvTypeOK' /\ ReadTypeOK' /\ AheadInv' /\ MapInv' /\ HeldInv'
    BY <2>1, <2>2, RecvNumbers DEF RInv, TypeOK, RecvTypeOK, ReadTypeOK, AheadInv, MapInv, HeldInv
  <2>6. ReaderInv'
    BY <2>1, <2>3 DEF RInv, ReaderInv, ReadsInOrder
  <2> QED
    BY <1>1, <2>3, <2>4, <2>5, <2>6 DEF RInv, TypeOK
<1> QED
  BY <1>2, <1>3

\* wptrAdvance makes the copied packet readable.
LEMMA AdvanceSteps == ASSUME RInv, FastAdvance \/ DrainAdvance PROVE RInv'
<1>1. PcTypeOK'
  BY NextRPc DEF Next, Receiver, Handle, RInv
<1>2. ASSUME NEW s \in 1 .. sent, WptrAdvance(SizeOf(s)), Readable = Start[s], Copied = Start[s + 1],
             pc'.reader = pc.reader, UNCHANGED <<r_n, r_data, r_got>>
      PROVE  /\ CBTypeOK' /\ ReaderInv' /\ r_got + Used' = Start[s + 1]
             /\ \A k \in 0 .. Start[s + 1] - r_got - 1 : m_base'[At(m_ridx', k)] = r_got + k
  <2>1. /\ SizeOf(s) \in Nat /\ Used \in Nat /\ r_got + Used + SizeOf(s) = Start[s + 1]
        /\ Used + SizeOf(s) < Capacity
    BY <1>2, RecvNumbers, StartFacts DEF SizeOf
  <2>2. Used' = Used + SizeOf(s) /\ m_widx' \in Indices /\ UNCHANGED <<m_base, m_ridx>>
    BY <1>2, <2>1, WptrEffect DEF RInv, TypeOK, WptrAdvance
  <2>3. CBTypeOK'
    BY <2>2 DEF RInv, TypeOK, CBTypeOK
  <2>4. ReaderInv'
    BY <1>2, <2>1, <2>2, RecvNumbers DEF RInv, ReaderInv, ReadsInOrder
  <2> QED
    BY <1>2, <2>1, <2>2, <2>3, <2>4, RecvNumbers DEF RInv, RingInv
<1>3. CASE FastAdvance
  <2>1. /\ pc.receiver = "advance" /\ pc'.receiver = "drain" /\ pc'.reader = pc.reader
        /\ WptrAdvance(SizeOf(cur))
        /\ UNCHANGED <<sent, cur, m_nextSeq, m_recvMap, acks, r_n, r_data, r_got>>
    BY <1>3 DEF FastAdvance, Step, RInv, TypeOK, PcTypeOK, recvVars, readVars
  <2>2. /\ cur \in 1 .. sent /\ m_nextSeq = cur + 1
        /\ Readable = Start[cur] /\ Copied = Start[cur + 1]
    BY <2>1, RecvNumbers DEF RInv, AheadInv, Readable, Copied
  <2>3. /\ CBTypeOK' /\ ReaderInv' /\ r_got + Used' = Start[cur + 1]
        /\ \A k \in 0 .. Start[cur + 1] - r_got - 1 : m_base'[At(m_ridx', k)] = r_got + k
    BY <1>2, <2>1, <2>2
  <2>4. RingInv'
    BY <2>1, <2>2, <2>3 DEF RingInv, Copied, Readable
  <2>5. RecvTypeOK' /\ ReadTypeOK' /\ AheadInv' /\ MapInv' /\ HeldInv'
    BY <2>1, RecvNumbers DEF RInv, TypeOK, RecvTypeOK, ReadTypeOK, AheadInv, MapInv, HeldInv
  <2> QED
    BY <1>1, <2>3, <2>4, <2>5 DEF RInv, TypeOK
<1>4. CASE DrainAdvance
  <2>1. /\ pc.receiver = "take" /\ pc'.receiver = "drain" /\ pc'.reader = pc.reader
        /\ WptrAdvance(SizeOf(m_recvMap[m_nextSeq]))
        /\ m_recvMap' = [h \in DOMAIN m_recvMap \ {m_nextSeq} |-> m_recvMap[h]]
        /\ m_nextSeq' = m_nextSeq + 1
        /\ UNCHANGED <<sent, cur, acks, r_n, r_data, r_got>>
    BY <1>4 DEF DrainAdvance, Step, RInv, TypeOK, PcTypeOK, readVars
  <2>2. /\ m_recvMap[m_nextSeq] = m_nextSeq /\ m_nextSeq \in 1 .. sent
        /\ Readable = Start[m_nextSeq] /\ Copied = Start[m_nextSeq + 1]
    BY <2>1, RecvNumbers DEF RInv, MapInv, Readable, Copied
  <2>3. /\ CBTypeOK' /\ ReaderInv' /\ r_got + Used' = Start[m_nextSeq + 1]
        /\ \A k \in 0 .. Start[m_nextSeq + 1] - r_got - 1 : m_base'[At(m_ridx', k)] = r_got + k
    BY <1>2, <2>1, <2>2
  <2>4. RingInv'
    BY <2>1, <2>2, <2>3 DEF RingInv, Copied, Readable
  <2>5. /\ DOMAIN m_recvMap' = DOMAIN m_recvMap \ {m_nextSeq}
        /\ \A h \in DOMAIN m_recvMap' : m_recvMap'[h] = m_recvMap[h]
    BY <2>1
  <2>6. RecvTypeOK'
    BY <2>1, <2>2, <2>5, RecvNumbers, StartFacts DEF RInv, TypeOK, RecvTypeOK
  <2>6a. ReadTypeOK' /\ AheadInv'
    BY <2>1, <2>2, RecvNumbers DEF RInv, TypeOK, ReadTypeOK, AheadInv
  <2>7. MapInv' /\ HeldInv'
    BY <2>1, <2>2, <2>5, RecvNumbers DEF RInv, MapInv, HeldInv, Packets
  <2> QED
    BY <1>1, <2>3, <2>4, <2>6, <2>6a, <2>7 DEF RInv, TypeOK
<1> QED
  BY <1>3, <1>4

LEMMA ReaderSteps == ASSUME RInv, Reader PROVE RInv'
<1>0. /\ UNCHANGED <<sent, cur, m_nextSeq, m_recvMap, acks>> /\ pc'.receiver = pc.receiver
      /\ PcTypeOK'
  BY NextRPc DEF Next, Reader, Poll, Copy, FreeRoom, Step, RInv, TypeOK, PcTypeOK, recvVars
<1>1. RecvTypeOK' /\ MapInv' /\ HeldInv' /\ Copied' = Copied /\ Readable' = Readable
  BY <1>0 DEF RInv, TypeOK, RecvTypeOK, MapInv, HeldInv, Copied, Readable
<1>2. ASSUME UNCHANGED <<m_base, m_widx, m_ridx, r_got>>, r_n' \in Nat, ReaderInv'
      PROVE  RInv'
  <2>1. Used' = Used /\ CBTypeOK' /\ ReadTypeOK' /\ AheadInv'
    BY <1>0, <1>2 DEF RInv, TypeOK, CBTypeOK, ReadTypeOK, Used, AheadInv
  <2> QED
    BY <1>0, <1>1, <1>2, <2>1 DEF RInv, TypeOK, RingInv
<1>3. ASSUME NEW n \in 1 .. Used, Poll(n) PROVE RInv'
  <2>1. /\ r_n' = n /\ UNCHANGED <<m_base, m_widx, m_ridx, r_got>> /\ pc'.reader = "copy"
    BY <1>3 DEF Poll, Step, cbVars, RInv, TypeOK, PcTypeOK
  <2>2. Used' = Used /\ n \in Nat
    BY <2>1, RecvNumbers DEF Used
  <2> QED
    BY <1>2, <2>1, <2>2 DEF ReaderInv, ReadsInOrder
<1>4. CASE Copy
  <2>1. /\ r_data' = ReadBytes(r_n) /\ UNCHANGED <<m_base, m_widx, m_ridx, r_n, r_got>>
        /\ pc.reader = "copy" /\ pc'.reader = "done"
    BY <1>4 DEF Copy, Step, cbVars, RInv, TypeOK, PcTypeOK
  <2>2. r_n \in 1 .. Used /\ Used' = Used
    BY <2>1 DEF RInv, ReaderInv, Used
  <2>3. Used <= Copied - r_got
    BY RecvNumbers, StartFacts DEF Readable, Copied, RInv, AheadInv, MapInv
  <2>4. \A k \in 0 .. r_n - 1 : m_base[At(m_ridx, k)] = r_got + k
    BY <2>2, <2>3, RecvNumbers, StartFacts DEF RInv, RingInv, Copied, AheadInv, MapInv
  <2>5. r_data' = [k \in 0 .. r_n - 1 |-> r_got + k]
    BY <2>1, <2>4 DEF ReadBytes
  <2> QED
    BY <1>2, <2>1, <2>2, <2>5, RecvNumbers DEF ReaderInv, ReadsInOrder
<1>5. CASE FreeRoom
  <2>1. /\ RptrAdvance(r_n) /\ r_got' = r_got + r_n /\ r_n' = r_n
        /\ pc.reader = "done" /\ pc'.reader = "poll"
    BY <1>5 DEF FreeRoom, Step, RInv, TypeOK, PcTypeOK
  <2>2. r_n \in 1 .. Used
    BY <2>1 DEF RInv, ReaderInv
  <2>3. /\ Used' = Used - r_n /\ m_ridx' \in Indices /\ UNCHANGED <<m_base, m_widx>>
        /\ \A k \in 0 .. Capacity - 1 - r_n : At(m_ridx', k) = At(m_ridx, k + r_n)
    BY <2>1, <2>2, RecvNumbers, RptrEffect DEF RInv, TypeOK, RptrAdvance
  <2>4. CBTypeOK' /\ ReadTypeOK' /\ ReaderInv'
    BY <2>1, <2>2, <2>3, RecvNumbers DEF RInv, TypeOK, CBTypeOK, ReadTypeOK, ReaderInv, ReadsInOrder
  <2>4a. AheadInv'
    <3>1. /\ Start[sent + 1] \in Nat /\ MaxAhead \in Nat /\ r_got \in Nat /\ r_n \in Nat
          /\ Start[sent + 1] - r_got <= MaxAhead
      BY RecvNumbers, StartFacts DEF RInv, AheadInv
    <3> QED
      BY <1>0, <2>1, <3>1 DEF RInv, AheadInv
  <2>5. Copied \in Nat /\ Copied - r_got < Capacity
    BY RecvNumbers, StartFacts DEF Copied, RInv, AheadInv, MapInv
  <2>6. ASSUME NEW k \in 0 .. Copied - r_got' - 1 PROVE m_base'[At(m_ridx', k)] = r_got' + k
    <3>1. k \in 0 .. Capacity - 1 - r_n /\ k + r_n \in 0 .. Copied - r_got - 1
      BY <2>1, <2>2, <2>5, RecvNumbers, StartFacts
    <3>2. m_base[At(m_ridx, k + r_n)] = r_got + (k + r_n)
      BY <3>1 DEF RInv, RingInv
    <3> QED
      BY <2>1, <2>2, <2>3, <3>1, <3>2, RecvNumbers
  <2>7. RingInv'
    BY <1>1, <2>1, <2>2, <2>3, <2>6, RecvNumbers DEF RingInv
  <2> QED
    BY <1>0, <1>1, <2>4, <2>4a, <2>7 DEF RInv, TypeOK
<1> QED
  BY <1>3, <1>4, <1>5 DEF Reader

-----------------------------------------------------------------------------
(* The theorems.                                                           *)

LEMMA InitRInv == Init => RInv
<1> SUFFICES ASSUME Init PROVE RInv
  OBVIOUS
<1>1. TypeOK
  BY InitRType
<1>2. /\ pc.receiver = "recv" /\ pc.reader = "poll" /\ m_nextSeq = 1 /\ sent = 0 /\ r_got = 0
      /\ DOMAIN m_recvMap = {} /\ acks = {} /\ Start[1] = 0
  BY StreamAssumption DEF Init
<1>3. Used = 0
  BY DEF Init, CBInit, Used
<1>4. AheadInv /\ RingInv /\ MapInv /\ HeldInv
  BY <1>2, <1>3, StartFacts DEF AheadInv, RingInv, Copied, Readable, MapInv, HeldInv
<1>5. ReaderInv
  BY <1>2 DEF ReaderInv, ReadsInOrder
<1> QED
  BY <1>1, <1>4, <1>5 DEF RInv

LEMMA NextRInv == RInv /\ [Next]_vars => RInv'
BY QuietSteps, CopySteps, AdvanceSteps, ReaderSteps DEF Next, Receiver, Handle

LEMMA RInductive == Spec => []RInv
BY InitRInv, NextRInv, PTL DEF Spec

\* The application reads the peer's bytes, each once and in order, whatever
\* the network does to the packets.
THEOREM BytesInOrder == Spec => []ReadsInOrder
BY RInductive, PTL DEF RInv, ReaderInv

\* What is acked without a gap can be read whenever the receiver waits.
THEOREM AckedPrefixIsReadable == Spec => []AckedIsReadable
<1>1. RInv => AckedIsReadable
  <2> SUFFICES ASSUME RInv, pc.receiver = "recv", NEW n \in 0 .. sent, 1 .. n \subseteq acks
               PROVE  r_got + Used >= Start[n + 1]
    BY DEF AckedIsReadable
  <2>1. /\ m_nextSeq \in 1 .. sent + 1 /\ sent <= MaxSeq /\ sent \in Nat
        /\ r_got + Used = Start[m_nextSeq]
    BY RecvNumbers, StartFacts DEF Readable
  <2>2. m_nextSeq \in Packets => m_nextSeq \notin acks
    BY <2>1 DEF RInv, HeldInv, MapInv
  <2>3. n < m_nextSeq
    BY <2>1, <2>2, StartFacts DEF Packets
  <2> QED
    BY <2>1, <2>3, StartFacts
<1> QED
  BY <1>1, RInductive, PTL

\* Whatever was acked is delivered or kept.
THEOREM AckedStays == Spec => []AckedIsHeld
<1>1. RInv => AckedIsHeld
  BY DEF RInv, HeldInv, MapInv, AckedIsHeld, TypeOK, RecvTypeOK
<1> QED
  BY <1>1, RInductive, PTL

\* Only a packet whose bytes are in the stream already is dropped.
THEOREM DropsAreOld == Spec => OnlyOldDropped
<1>1. RInv /\ Drop => Start[cur + 1] <= r_got + Used
  <2> SUFFICES ASSUME RInv, Drop PROVE Start[cur + 1] <= r_got + Used
    OBVIOUS
  <2>1. pc.receiver = "data" /\ Header(cur) < m_nextSeq
    BY DEF Drop, Step, TooOld
  <2> QED
    BY <2>1, RecvNumbers, StartFacts DEF Readable
<1>2. RInv /\ [Next]_vars => [Drop => Start[cur + 1] <= r_got + Used]_vars
  BY <1>1
<1> QED
  BY <1>2, RInductive, PTL DEF Spec, OnlyOldDropped

\* Every variable keeps its type: the ring indices stay in the ring.
THEOREM RecvTypeCorrect == Spec => []TypeOK
BY RInductive, PTL DEF RInv

\* Between packets the map holds nothing that was delivered.
THEOREM MapStaysAhead == Spec => []MapIsAhead
<1>1. RInv => MapIsAhead
  <2> SUFFICES ASSUME RInv, pc.receiver = "recv", NEW h \in DOMAIN m_recvMap
               PROVE  h > m_nextSeq
    BY DEF MapIsAhead
  <2>1. h \in m_nextSeq .. sent /\ m_nextSeq \in Nat /\ sent \in Nat
    BY RecvNumbers DEF RInv, MapInv, TypeOK, RecvTypeOK
  <2>2. h # m_nextSeq
    BY DEF RInv, MapInv
  <2> QED
    BY <2>1, <2>2
<1> QED
  BY <1>1, RInductive, PTL
-----------------------------------------------------------------------------
(* RecvPath implements Delivery.                                           *)

\* The refinement mapping.
Cuts    == [s \in 1 .. sent + 1 |-> Start[s]]
Arrived == 1 .. m_nextSeq - 1 \cup {m_recvMap[h] : h \in DOMAIN m_recvMap}
Avail   == r_got + Used

CutsAre ==
  /\ Cuts \in Seq(Nat) /\ Len(Cuts) = sent + 1 /\ sent \in Nat
  /\ \A s \in 1 .. sent + 1 : Cuts[s] = Start[s] /\ Start[s] \in Nat

ArrivedAre == Arrived = 1 .. m_nextSeq - 1 \cup DOMAIN m_recvMap

LEMMA CutsType == RInv => CutsAre
<1> SUFFICES ASSUME RInv PROVE CutsAre
  OBVIOUS
<1>1. sent + 1 \in Nat /\ \A s \in 1 .. sent + 1 : Cuts[s] = Start[s] /\ Start[s] \in Nat
  BY RecvNumbers, StartFacts DEF Cuts
<1>2. Cuts \in [1 .. sent + 1 -> Nat]
  BY <1>1 DEF Cuts
<1>3. Cuts \in Seq(Nat)
  BY <1>1, <1>2, SeqDef
<1>4. Len(Cuts) \in Nat /\ 1 .. Len(Cuts) = 1 .. sent + 1
  BY <1>2, <1>3, LenProperties
<1> QED
  BY <1>1, <1>3, <1>4, RecvNumbers DEF CutsAre

LEMMA ArrivedIs == RInv => ArrivedAre
BY DEF RInv, MapInv, Arrived, ArrivedAre

\* Both hold after a step as they do before it.
LEMMA MappedNext == RInv /\ RInv' => CutsAre /\ CutsAre' /\ ArrivedAre /\ ArrivedAre'
BY CutsType, ArrivedIs, PTL

\* What the peer sends next is cut off behind what it has sent.
LEMMA PeerCuts == ASSUME RInv, RInv', PeerSends PROVE Promise!Next
<1>1. /\ sent' = sent + 1 /\ Len(Cuts) = sent + 1 /\ Len(Cuts') = sent + 2 /\ sent \in Nat
      /\ UNCHANGED <<Arrived, acks, Avail, r_got>>
  <2>1. sent' = sent + 1 /\ UNCHANGED <<cbVars, recvVars, readVars>>
    BY DEF PeerSends
  <2>2. Len(Cuts) = sent + 1 /\ Len(Cuts') = sent' + 1 /\ sent \in Nat
    BY MappedNext DEF CutsAre
  <2> QED
    BY <2>1, <2>2 DEF cbVars, recvVars, readVars, Arrived, Avail, Used
<1>2. /\ \A s \in 1 .. sent + 1 : Cuts'[s] = Cuts[s]
      /\ Cuts[sent + 1] \in Nat /\ Cuts'[sent + 2] \in Nat
      /\ Cuts \in Seq(Nat) /\ Cuts' \in Seq(Nat)
  BY <1>1, MappedNext DEF CutsAre
<1> DEFINE n == Cuts'[Len(Cuts) + 1] - Cuts[Len(Cuts)]
           longer == Append(Cuts, Cuts[Len(Cuts)] + n)
<1>3. Cuts[Len(Cuts)] + n = Cuts'[sent + 2]
  BY <1>1, <1>2
<1>4. /\ longer \in Seq(Nat) /\ Len(longer) = sent + 2
      /\ \A s \in 1 .. sent + 2 : longer[s] = Cuts'[s]
  BY <1>1, <1>2, <1>3, AppendProperties
<1>5. Cuts' = longer
  BY <1>1, <1>2, <1>4, SeqEqual
<1>6. Promise!Cut(n)
  BY <1>1, <1>5 DEF Promise!Cut, Cuts, Arrived, Avail
<1>7. Len(Cuts') = Len(Cuts) + 1
  BY <1>1
<1> QED
  BY <1>6, <1>7 DEF Promise!Next, Cuts

\* The steps of the two threads that show: a packet is kept, the next one
\* becomes readable, an ack is sent, bytes are given back.
LEMMA KeptArrives == ASSUME RInv, RInv', FastCopy \/ Stash PROVE Promise!Next
<1>1. /\ cur \in 1 .. sent /\ m_nextSeq \in 1 .. sent + 1 /\ sent \in Nat
      /\ UNCHANGED <<Cuts, acks, Avail, r_got>>
  <2>1. UNCHANGED <<sent, acks, m_widx, m_ridx, r_got>> /\ pc.receiver = "data"
    BY DEF FastCopy, Stash, Step, Write, cbVars, readVars, RInv, TypeOK, PcTypeOK
  <2> QED
    BY <2>1, RecvNumbers DEF Cuts, Avail, Used
<1>2. Header(cur) = cur
  BY <1>1, RecvNumbers, StartFacts
<1>3. Arrived' = Arrived \cup {cur}
  <2>1. CASE FastCopy
    <3>1. cur = m_nextSeq /\ m_nextSeq' = cur + 1 /\ m_recvMap' = m_recvMap
      BY <1>2, <2>1 DEF FastCopy
    <3> QED
      BY <1>1, <3>1 DEF Arrived
  <2>2. CASE Stash
    <3>1. m_nextSeq' = m_nextSeq /\ DOMAIN m_recvMap' = DOMAIN m_recvMap \cup {cur}
      BY <1>2, <2>2 DEF Stash
    <3> QED
      BY <3>1, MappedNext DEF ArrivedAre
  <2> QED
    BY <2>1, <2>2
<1>4. Promise!Arrive(cur)
  BY <1>1, <1>3 DEF Promise!Arrive, Cuts, Arrived, Avail
<1>5. cur \in 1 .. Len(Cuts) - 1
  BY <1>1, CutsType DEF CutsAre
<1> QED
  BY <1>4, <1>5 DEF Promise!Next, Promise!Arrive, Cuts

LEMMA AdvanceDelivers == ASSUME RInv, RInv', FastAdvance \/ DrainAdvance PROVE Promise!Next
<1>1. PICK s \in 1 .. sent :
        /\ s \in Arrived /\ Avail = Start[s] /\ Avail' = Start[s + 1]
        /\ UNCHANGED <<sent, Arrived, acks, r_got>>
  <2>1. CASE FastAdvance
    <3>1. /\ pc.receiver = "advance" /\ pc'.receiver = "drain"
          /\ UNCHANGED <<sent, cur, m_nextSeq, m_recvMap, acks, r_got>>
      BY <2>1 DEF FastAdvance, Step, recvVars, readVars, RInv, TypeOK, PcTypeOK
    <3>2. cur \in 1 .. sent /\ m_nextSeq = cur + 1 /\ Avail = Start[cur]
      BY <3>1, RecvNumbers DEF RInv, AheadInv, Readable, Avail
    <3>3. Avail' = Start[cur + 1]
      BY <3>1, <3>2 DEF RInv, RingInv, Readable, Avail
    <3> QED
      BY <3>1, <3>2, <3>3, RecvNumbers DEF Arrived
  <2>2. CASE DrainAdvance
    <3>1. /\ pc.receiver = "take" /\ pc'.receiver = "drain"
          /\ m_recvMap' = [h \in DOMAIN m_recvMap \ {m_nextSeq} |-> m_recvMap[h]]
          /\ m_nextSeq' = m_nextSeq + 1 /\ UNCHANGED <<sent, acks, r_got>>
      BY <2>2 DEF DrainAdvance, Step, readVars, RInv, TypeOK, PcTypeOK
    <3>2. /\ m_nextSeq \in DOMAIN m_recvMap /\ m_nextSeq \in 1 .. sent
          /\ Avail = Start[m_nextSeq]
      BY <3>1, RecvNumbers DEF RInv, MapInv, Readable, Avail
    <3>3. Avail' = Start[m_nextSeq + 1]
      BY <3>1 DEF RInv, RingInv, Readable, Avail
    <3>4. Arrived' = Arrived /\ m_nextSeq \in Arrived
      <4>1. DOMAIN m_recvMap' = DOMAIN m_recvMap \ {m_nextSeq}
        BY <3>1
      <4>2. 1 .. m_nextSeq' - 1 = 1 .. m_nextSeq - 1 \cup {m_nextSeq}
        BY <3>1, <3>2
      <4> QED
        BY <3>2, <4>1, <4>2, MappedNext DEF ArrivedAre
    <3> QED
      BY <3>1, <3>2, <3>3, <3>4
  <2> QED
    BY <2>1, <2>2
<1>2. /\ s \in 1 .. Len(Cuts) - 1 /\ Cuts[s] = Start[s] /\ Cuts[s + 1] = Start[s + 1]
      /\ Cuts' = Cuts
  BY <1>1, CutsType DEF Cuts, CutsAre
<1>3. Promise!Deliver(s)
  BY <1>1, <1>2 DEF Promise!Deliver, Cuts, Arrived, Avail
<1> QED
  BY <1>2, <1>3 DEF Promise!Next, Cuts

LEMMA AckIsSent == ASSUME RInv, SendAck PROVE Promise!Next
<1>1. /\ pc.receiver = "ack" /\ acks' = acks \cup {cur}
      /\ UNCHANGED <<Cuts, Arrived, Avail, r_got>>
  BY DEF SendAck, Step, cbVars, readVars, Cuts, Arrived, Avail, Used
<1>2. cur \in 1 .. sent /\ cur \in 1 .. Len(Cuts) - 1 /\ m_nextSeq \in Nat
  BY <1>1, RecvNumbers, CutsType DEF CutsAre
<1>3. cur \in Arrived
  BY <1>1, <1>2, RecvNumbers, ArrivedIs DEF RInv, HeldInv, Packets, ArrivedAre
<1>4. Promise!SendAck(cur)
  BY <1>1, <1>3 DEF Promise!SendAck, Cuts, Arrived, Avail
<1> QED
  BY <1>2, <1>4 DEF Promise!Next, Cuts

LEMMA ReleaseReads == ASSUME RInv, RInv', FreeRoom PROVE Promise!Next
<1>1. /\ pc.reader = "done" /\ RptrAdvance(r_n) /\ r_got' = r_got + r_n
      /\ UNCHANGED <<Cuts, Arrived, acks>>
  BY DEF FreeRoom, Step, recvVars, Cuts, Arrived
<1>2. r_n \in 1 .. Used /\ r_got \in Nat /\ Used \in Nat
  BY <1>1, RecvNumbers DEF RInv, ReaderInv
<1>3. Used' = Used - r_n
  BY <1>1, <1>2, RptrEffect DEF RInv, TypeOK
<1>4. Avail' = Avail /\ r_n <= Avail - r_got /\ r_got' > r_got /\ r_got' - r_got = r_n
  BY <1>1, <1>2, <1>3 DEF Avail
<1>5. Promise!Read(r_n)
  BY <1>1, <1>4 DEF Promise!Read, Cuts, Arrived, Avail
<1> QED
  BY <1>4, <1>5 DEF Promise!Next

\* The others do not show.
LEMMA UnseenSteps ==
  ASSUME RInv, \/ \E s \in 1 .. sent : RecvData(s)
               \/ Drop \/ DrainCopy \/ DrainEnd
               \/ (\E n \in 1 .. Used : Poll(n)) \/ Copy \/ UNCHANGED vars
  PROVE  UNCHANGED Promise!delVars
<1>1. UNCHANGED <<sent, m_nextSeq, m_recvMap, acks, m_widx, m_ridx, r_got>>
  BY DEF RecvData, Drop, DrainCopy, DrainEnd, Poll, Copy, vars, cbVars, recvVars, readVars, Write
<1> QED
  BY <1>1 DEF Promise!delVars, Used

LEMMA NextDelivers == RInv /\ RInv' /\ [Next]_vars => [Promise!Next]_(Promise!delVars)
BY PeerCuts, KeptArrives, AdvanceDelivers, AckIsSent, ReleaseReads, UnseenSteps
   DEF Next, Receiver, Handle, Reader

\* The two threads and their ring keep the promise of Delivery at every step
\* (UDPStream.cpp:103-131): what Transport builds on.
THEOREM DeliveryIsImplemented == Spec => ImplementsDelivery
<1>1. Init => Promise!Init
  <2> SUFFICES ASSUME Init PROVE Promise!Init
    OBVIOUS
  <2>1. sent = 0 /\ m_nextSeq = 1 /\ DOMAIN m_recvMap = {} /\ acks = {} /\ r_got = 0
    BY DEF Init
  <2>2. Used = 0
    BY DEF Init, CBInit, Used
  <2>3. [s \in 1 .. sent + 1 |-> Start[s]] = <<0>>
    <3>1. Cuts \in Seq(Nat) /\ Len(Cuts) = 1 /\ Cuts[1] = 0
      BY <2>1, InitRInv, CutsType, StreamAssumption DEF CutsAre
    <3>2. <<0>> \in Seq(Nat) /\ Len(<<0>>) = 1 /\ <<0>>[1] = 0
      OBVIOUS
    <3>3. Cuts = <<0>>
      BY <3>1, <3>2, SeqEqual
    <3> QED
      BY <3>3 DEF Cuts
  <2> QED
    BY <2>1, <2>2, <2>3 DEF Promise!Init
<1> QED
  BY <1>1, RInductive, NextDelivers, PTL DEF Spec, ImplementsDelivery, Promise!Spec
=============================================================================
