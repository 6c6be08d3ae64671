--------------------------- MODULE SendPathProofs ---------------------------
(***************************************************************************)
(* Theorems about SendPath for every ring size, message size, network      *)
(* behaviour and bound.  The types are proved of Spec, which is the code   *)
(* with any caller.  The rest is proved of PacedSpec, whose caller leaves  *)
(* the ring room for what it sends, and is false without that: counted     *)
(* from m_unacked the window never takes more than Size - 2 slots.  One    *)
(* spare slot tells a full ring from an empty one, the other is for a      *)
(* packet being retransmitted, which is in the ring twice until the sweep  *)
(* moves on.                                                               *)
(***************************************************************************)
EXTENDS SendPath, SumTheorems

-----------------------------------------------------------------------------
(* Types.                                                                  *)

LEMMA NextSlotInSlots == \A i \in Slots : NextSlot(i) \in Slots
BY SizeAssumption DEF NextSlot, Slots

LEMMA InitType == Init => TypeOK
<1> SUFFICES ASSUME Init PROVE TypeOK
  OBVIOUS
<1>1. PQTypeOK
  <2>1. 0 \in Slots
    BY SizeAssumption DEF Slots
  <2>2. m_buf \in [Slots -> Packets]
    BY DEF Init, PQInit, Packets, NewPacket
  <2> QED
    BY <2>1, <2>2 DEF Init, PQInit, PQTypeOK
<1>2. PcTypeOK
  BY DEF Init, PcTypeOK, Threads, PushLabels, AppLabels, SenderLabels, ReceiverLabels
<1>3. StreamTypeOK
  <2>0. << >> \in Seq(Acks)
    OBVIOUS
  <2>1. sock \in Seq(Acks)
    BY <2>0, Zenon DEF Init
  <2>2. pc["app"] # "front"
    BY DEF Init, Threads
  <2>3. a_left \in Nat /\ m_dseq \in Nat \ {0}
    BY DEF Init
  <2>3a. m_done \in BOOLEAN
    BY Zenon DEF Init
  <2>4. r_now \in Nat /\ clock \in Nat /\ wire \subseteq Nat /\ acked \subseteq Nat
    BY DEF Init
  <2> QED
    BY <2>1, <2>2, <2>3, <2>3a, <2>4 DEF StreamTypeOK
<1> QED
  BY <1>1, <1>2, <1>3 DEF TypeOK

\* Each thread stays on labels of its own.
LEMMA NextPc == PcTypeOK /\ [Next]_vars => PcTypeOK'
<1> SUFFICES ASSUME PcTypeOK, [Next]_vars PROVE PcTypeOK'
  OBVIOUS
<1> USE DEF PcTypeOK, Threads, PushLabels, AppLabels, SenderLabels, ReceiverLabels, Goto
<1>1. ASSUME NEW t \in {"app", "receiver"}, Push(t) PROVE PcTypeOK'
  BY <1>1 DEF Push, PushAdd, PushAdvance, PushRelease, PushSignal
<1>2. CASE App /\ ~ Push("app")
  BY <1>2 DEF App, AppDrained, StartSend, SendFill, DestroyDone, DestroyJoin
<1>3. CASE Sender
  BY <1>3 DEF Sender, SenderLoop, SenderTx, SenderWake, SenderTimeout, SenderStamp, SenderSendto, SenderSub, SenderNext
<1>4. CASE Receiver /\ ~ Push("receiver")
  BY <1>4 DEF Receiver,ReceiverLoop, RecvNothing, ReadNow, SweepEnd, SweepAcked, SweepOld,RecvAck, RetransmitFill, Metadata, MetadataAbort
<1>5. ASSUME NEW s \in wire, AckArrives(s) PROVE PcTypeOK'
  BY <1>5 DEF AckArrives
<1>6. CASE UNCHANGED vars
  BY <1>6 DEF vars
<1> QED
  BY <1>1, <1>2, <1>3, <1>4, <1>5, <1>6 DEF Next, App, Receiver
\* The fields outside the ring.
LEMMA NextStream == TypeOK /\ [Next]_vars => StreamTypeOK'
<1> SUFFICES ASSUME TypeOK, [Next]_vars PROVE StreamTypeOK'
  OBVIOUS
<1> USE DEF TypeOK, StreamTypeOK, PcTypeOK, Goto
<1>1. ASSUME NEW t \in {"app", "receiver"}, Push(t) PROVE StreamTypeOK'
  BY <1>1 DEF Push, PushAdd, PushAdvance, PushRelease, PushSignal, streamVars, Threads
<1>2. CASE AppDrained \/ DestroyDone \/ DestroyJoin
  BY <1>2 DEF AppDrained, DestroyDone, DestroyJoin, streamVars, Threads
<1>3. ASSUME NEW k \in 1 .. MaxSend, StartSend(k) PROVE StreamTypeOK'
  BY <1>3, BoundsAssumption DEF StartSend, Threads
<1>4. ASSUME NEW n \in 1 .. MTU, SendFill(n) PROVE StreamTypeOK'
  BY <1>4 DEF SendFill, Threads
<1>5. CASE SenderLoop \/ SenderTx \/ SenderWake \/ SenderTimeout \/ SenderSub \/ SenderNext
  BY <1>5 DEF SenderLoop, SenderTx, SenderWake, SenderTimeout, SenderSub, SenderNext, streamVars, Threads
<1>6. CASE SenderStamp
  BY <1>6 DEF SenderStamp, Threads
<1>7. CASE SenderSendto
  <2>1. m_buf[m_tx].seq \in Nat
    BY DEF PQTypeOK, Packets
  <2> QED BY <1>7, <2>1 DEF SenderSendto, Threads
<1>8. CASE ReceiverLoop \/ RecvNothing \/ ReadNow \/ SweepEnd \/ SweepAcked \/ SweepOld
  BY <1>8 DEF ReceiverLoop, RecvNothing, ReadNow, SweepEnd, SweepAcked, SweepOld, streamVars, Threads
<1>9. CASE RecvAck
  BY <1>9 DEF RecvAck, Threads
<1>10. CASE RetransmitFill \/ Metadata \/ MetadataAbort
  BY <1>10 DEF RetransmitFill, Metadata, MetadataAbort, streamVars, Threads
<1>11. ASSUME NEW s \in wire, AckArrives(s) PROVE StreamTypeOK'
  BY <1>11 DEF AckArrives, Acks
<1>12. CASE UNCHANGED vars
  BY <1>12 DEF vars, streamVars
<1> QED
  BY <1>1, <1>2, <1>3, <1>4, <1>5, <1>6, <1>7, <1>8, <1>9, <1>10, <1>11, <1>12 DEF Next, App, Sender, Receiver

\* The fields of the ring.
LEMMA NextPQ == TypeOK /\ [Next]_vars => PQTypeOK'
<1> SUFFICES ASSUME TypeOK, [Next]_vars PROVE PQTypeOK'
  OBVIOUS
<1> USE NextSlotInSlots DEF TypeOK, PQTypeOK
<1>0. \A i \in Slots : m_buf[i] \in Packets /\ m_buf[i].size \in Nat
  BY DEF Packets
<1>1. ASSUME NEW t \in {"app", "receiver"}, Push(t) PROVE PQTypeOK'
  <2>1. CASE PushAdd(t)
    BY <1>0, <2>1 DEF PushAdd, FrontNextAdd
  <2>2. CASE PushAdvance(t)
    BY <2>2 DEF PushAdvance, FrontNextAdvance
  <2>3. CASE PushRelease(t)
    BY <2>3 DEF PushRelease, FrontNextRelease
  <2>4. CASE PushSignal(t)
    BY <2>4 DEF PushSignal, FrontNextSignal
  <2> QED BY <1>1, <2>1, <2>2, <2>3, <2>4 DEF Push
<1>2. CASE AppDrained \/ DestroyDone \/ DestroyJoin
  BY <1>2 DEF AppDrained, DestroyDone, DestroyJoin, pqVars
<1>3. ASSUME NEW k \in 1 .. MaxSend, StartSend(k) PROVE PQTypeOK'
  BY <1>3 DEF StartSend, pqVars
<1>4. ASSUME NEW n \in 1 .. MTU, SendFill(n) PROVE PQTypeOK'
  <2>1. HeaderSize + n \in Nat /\ m_dseq \in Nat
    BY MTUAssumption DEF HeaderSize, StreamTypeOK
  <2>2. m_buf' \in [Slots -> Packets]
    BY <1>0, <1>4, <2>1 DEF SendFill, Packets
  <2> QED BY <1>4, <2>2 DEF SendFill, Front
<1>5. CASE SenderLoop \/ SenderTx \/ SenderWake \/ SenderTimeout \/ SenderNext \/ SenderSendto
  BY <1>5 DEF SenderLoop, SenderTx, SenderWake, SenderTimeout, SenderNext, SenderSendto, pqVars, TxWaitSignalled, TxWaitTimeout, TxNextAdvance
<1>5b. CASE SenderSub
  BY <1>0, <1>5b DEF SenderSub, TxNextSub
<1>6. CASE SenderStamp
  <2>1. clock + 1 \in Nat
    BY DEF StreamTypeOK
  <2>2. m_buf' \in [Slots -> Packets]
    BY <1>0, <1>6, <2>1 DEF SenderStamp, Packets
  <2> QED BY <1>6, <2>2 DEF SenderStamp
<1>8. CASE ReceiverLoop \/ RecvNothing \/ ReadNow \/ SweepEnd \/ SweepAcked \/ SweepOld
  BY <1>8 DEF ReceiverLoop, RecvNothing, ReadNow, SweepEnd, SweepAcked, SweepOld, pqVars
<1>9. CASE RecvAck
  <2>1. Head(sock) \in Acks
    BY <1>9 DEF RecvAck, StreamTypeOK
  <2>1a. Head(sock).ts \in Nat
    BY <2>1 DEF Acks
  <2>2. m_buf' \in [Slots -> Packets]
    BY <1>0, <1>9, <2>1a DEF RecvAck, Packets
  <2> QED BY <1>9, <2>2 DEF RecvAck
<1>10. CASE RetransmitFill
  <2>2. m_buf' \in [Slots -> Packets]
    BY <1>0, <1>10 DEF RetransmitFill, Packets
  <2> QED BY <1>10, <2>2 DEF RetransmitFill, Front
<1>11b. CASE  Metadata \/ MetadataAbort
  BY <1>11b DEF  Metadata, MetadataAbort, UnackedNext, pqVars
<1>11. ASSUME NEW s \in wire, AckArrives(s) PROVE PQTypeOK'
  BY <1>11 DEF AckArrives, pqVars
<1>12. CASE UNCHANGED vars
  BY <1>12 DEF vars, pqVars
<1> QED
  BY <1>1, <1>2, <1>3, <1>4, <1>5, <1>5b, <1>6, <1>8, <1>9, <1>10, <1>11b, <1>11, <1>12 DEF Next, App, Sender, Receiver
\* The type invariant, of the ring, the program counters and the rest.
THEOREM TypeCorrect == Spec => []TypeOK
<1>1. Init => TypeOK
  BY InitType
<1>2. TypeOK /\ [Next]_vars => TypeOK'
  BY NextPQ, NextPc, NextStream DEF TypeOK
<1> QED
  BY <1>1, <1>2, PTL DEF Spec

-----------------------------------------------------------------------------
ASSUME WindowAssumption == MaxWindow <= Size - 2

-----------------------------------------------------------------------------
(* The inductive invariant.                                                *)

\* Thread t holds the front slot.
Holds(t) == pc[t] \in {"add", "advance", "release"}

\* m_frontUsed is a lock: set exactly while one thread is between front ()
\* and the release in frontNext ().
LockInv ==
  /\ m_frontUsed <=> (Holds("app") \/ Holds("receiver"))
  /\ ~ (Holds("app") /\ Holds("receiver"))

\* Packets of the running send () that are not in the ring yet, and slots
\* that a retransmission in progress takes in addition.
AppPending == a_left + (IF Filling("app") THEN 1 ELSE 0)
RetxExtra  == IF pc["receiver"] \in {"release", "signal", "meta", "abort"} THEN 1 ELSE 0

\* The receiver is dealing with the packet at m_unacked; the sender with the
\* packet at m_tx.
Sweeping == pc["receiver"] \in PushLabels \cup {"front", "meta"}
Sending  == pc["sender"] \in {"stamp", "sendto", "sub", "next"}
Stamped  == pc["sender"] \in {"sendto", "sub", "next"}

\* Going forward from m_unacked one meets m_tx, then m_front, and the ring
\* is never full.
WindowInv ==
  /\ Dist(m_unacked, m_tx) + Dist(m_tx, m_front) = Dist(m_unacked, m_front)
  /\ Dist(m_unacked, m_front) + AppPending <= MaxWindow + RetxExtra
  /\ Sweeping => m_unacked # m_tx
  /\ Sending => m_tx # m_front

\* Live packets have sequence numbers send () has given out; the one being
\* filled is new (app) or that of the packet at m_unacked (receiver).
SeqInv ==
  /\ \A i \in Live : m_buf[i].seq \in 1 .. m_dseq - 1
  /\ Filling("app") =>
       /\ m_dseq > 1
       /\ m_buf[m_front].seq = m_dseq - 1
       /\ \A i \in Live : m_buf[i].seq # m_dseq - 1
  /\ Filling("receiver") => m_buf[m_front].seq = m_buf[m_unacked].seq

\* Another live slot holds the sequence number of the packet at m_unacked.
HasCopy == \E j \in Live : j # m_unacked /\ m_buf[j].seq = m_buf[m_unacked].seq

\* The sweep moves past a packet either because it is acked or because it
\* was copied, and never for both reasons.
CopyInv ==
  /\ pc["receiver"] \in {"release", "signal"} => HasCopy
  /\ pc["receiver"] \in PushLabels \cup {"front"} => m_buf[m_unacked].tsAck = 0
  /\ pc["receiver"] = "meta" => (HasCopy <=> m_buf[m_unacked].tsAck = 0)

\* No stamp is ahead of the clock; an ack in the socket is a real one; a
\* packet just stamped is younger than any ack its slot holds from before.
StampInv ==
  /\ \A i \in Slots : m_buf[i].tsSent <= clock /\ m_buf[i].tsAck <= clock
  /\ \A k \in 1 .. Len(sock) : sock[k].seq \in acked /\ sock[k].ts <= clock
  /\ Stamped => m_buf[m_tx].tsAck < m_buf[m_tx].tsSent

\* An ack that is not older than its transmission is a real one.
AckTruth ==
  \A i \in Between(m_unacked, m_tx) :
    m_buf[i].tsAck # 0 /\ ~ Impossible(m_buf[i]) => m_buf[i].seq \in acked

\* OldestFirst, extended to the packet being transmitted.
StampOrder ==
  /\ OldestFirst
  /\ Stamped => \A i \in Between(m_unacked, m_tx) : m_buf[i].tsSent < m_buf[m_tx].tsSent

IInv ==
  /\ TypeOK
  /\ LockInv
  /\ WindowInv
  /\ SeqInv
  /\ CopyInv
  /\ UniqueCopies
  /\ StampInv
  /\ AckTruth
  /\ StampOrder
  /\ NoLostSegment
-----------------------------------------------------------------------------
(* Positions in the ring.                                                  *)

LEMMA NextSlotType ==
  ASSUME NEW i \in Slots
  PROVE  NextSlot(i) \in Slots /\ NextSlot(i) # i
BY SizeAssumption DEF Slots, NextSlot

\* Moving the far end of an interval that is not full adds that slot.
LEMMA IntervalGrows ==
  ASSUME NEW u \in Slots, NEW f \in Slots, Dist(u, f) < Size - 1
  PROVE  /\ Dist(u, NextSlot(f)) = Dist(u, f) + 1
         /\ Between(u, NextSlot(f)) = Between(u, f) \cup {f}
         /\ f \notin Between(u, f)
BY SizeAssumption DEF Slots, NextSlot, Dist, Between

\* Moving the near end of a non-empty interval removes that slot.
LEMMA IntervalShrinks ==
  ASSUME NEW u \in Slots, NEW f \in Slots, u # f
  PROVE  /\ Dist(NextSlot(u), f) = Dist(u, f) - 1
         /\ Between(NextSlot(u), f) = Between(u, f) \ {u}
         /\ u \in Between(u, f)
BY SizeAssumption DEF Slots, NextSlot, Dist, Between

\* With t between u and f, the interval [u, t) is part of [u, f), and t is
\* in the latter unless t = f.
LEMMA IntervalSplits ==
  ASSUME NEW u \in Slots, NEW t \in Slots, NEW f \in Slots,
         Dist(u, t) + Dist(t, f) = Dist(u, f)
  PROVE  /\ Between(u, t) \subseteq Between(u, f)
         /\ t \notin Between(u, t)
         /\ f \notin Between(u, f)
         /\ t # f => t \in Between(u, f) /\ Dist(u, t) < Size - 1
BY SizeAssumption DEF Slots, Dist, Between

LEMMA DistType ==
  ASSUME NEW a \in Slots, NEW b \in Slots
  PROVE  Dist(a, b) \in 0 .. Size - 1 /\ (Dist(a, b) = 0 <=> a = b)
BY SizeAssumption DEF Slots, Dist

-----------------------------------------------------------------------------
(* The lock.                                                               *)

LEMMA LockStep == TypeOK /\ LockInv /\ [Next]_vars => LockInv'
<1> SUFFICES ASSUME TypeOK, LockInv, [Next]_vars PROVE LockInv'
  OBVIOUS
<1> USE DEF TypeOK, PcTypeOK, Threads, LockInv, Holds, Goto
<1>1. CASE Push("app")
  BY <1>1 DEF Push, PushAdd, PushAdvance, PushRelease, PushSignal,
     FrontNextAdd, FrontNextAdvance, FrontNextRelease, FrontNextSignal
<1>2. CASE Push("receiver")
  BY <1>2 DEF Push, PushAdd, PushAdvance, PushRelease, PushSignal,
     FrontNextAdd, FrontNextAdvance, FrontNextRelease, FrontNextSignal
<1>3. CASE App /\ ~ Push("app")
  BY <1>3 DEF App, AppDrained, StartSend, SendFill, Front, DestroyDone, DestroyJoin, pqVars
<1>4. CASE Sender
  BY <1>4 DEF Sender, SenderLoop, SenderTx, SenderWake, SenderTimeout, SenderStamp,
     SenderSendto, SenderSub, SenderNext, TxWaitSignalled, TxWaitTimeout, TxNextSub,
     TxNextAdvance, pqVars
<1>5. CASE Receiver /\ ~ Push("receiver")
  BY <1>5 DEF Receiver, ReceiverLoop, RecvNothing, RecvAck, ReadNow, SweepEnd, SweepAcked,
     SweepOld, RetransmitFill, Front, Metadata, MetadataAbort, UnackedNext, pqVars
<1>6. ASSUME NEW s \in wire, AckArrives(s) PROVE LockInv'
  BY <1>6 DEF AckArrives, pqVars
<1>7. CASE UNCHANGED vars
  BY <1>7 DEF vars, pqVars
<1> QED
  BY <1>1, <1>2, <1>3, <1>4, <1>5, <1>6, <1>7 DEF Next, App, Receiver

-----------------------------------------------------------------------------
(* The three indices.                                                      *)

LEMMA WindowStep ==
  TypeOK /\ LockInv /\ WindowInv /\ [PacedNext]_vars => WindowInv'
<1> SUFFICES ASSUME TypeOK, LockInv, WindowInv, [PacedNext]_vars PROVE WindowInv'
  OBVIOUS
<1>a. [Next]_vars
  BY DEF PacedNext
<1> USE DEF TypeOK, PcTypeOK, Threads, PushLabels, Goto,
        WindowInv, AppPending, Filling, RetxExtra, Sweeping, Sending
<1>0. /\ m_front \in Slots /\ m_tx \in Slots /\ m_unacked \in Slots
      /\ a_left \in Nat /\ MaxWindow \in Nat /\ MaxWindow <= Size - 2 /\ Size \in Nat
      /\ Dist(m_unacked, m_front) \in Nat
      /\ Dist(m_tx, m_front) \in Nat
      /\ Dist(m_unacked, m_tx) \in Nat
  BY DistType, WindowAssumption, BoundsAssumption, SizeAssumption DEF PQTypeOK, StreamTypeOK
<1>1. ASSUME NEW t \in {"app", "receiver"}, PushAdd(t) \/ PushRelease(t) \/ PushSignal(t)
      PROVE  WindowInv'
  BY <1>0, <1>1 DEF PushAdd, PushRelease, PushSignal, FrontNextAdd, FrontNextRelease,
     FrontNextSignal, streamVars
<1>2. CASE PushAdvance("app") \/ PushAdvance("receiver")
  <2>1. Dist(m_unacked, m_front) < Size - 1
    BY <1>0, <1>2 DEF PushAdvance, LockInv, Holds
  <2>2. Dist(m_unacked, m_front') = Dist(m_unacked, m_front) + 1
    BY <1>0, <1>2, <2>1, IntervalGrows DEF PushAdvance, FrontNextAdvance
  <2>3. Dist(m_tx, m_front') = Dist(m_tx, m_front) + 1
    BY <1>0, <1>2, <2>1, IntervalGrows DEF PushAdvance, FrontNextAdvance
  <2>4. m_front' \in Slots /\ UNCHANGED <<m_unacked, m_tx, a_left>>
    BY <1>0, <1>2, NextSlotType DEF PushAdvance, FrontNextAdvance, streamVars
  <2>5. Sending' => m_tx' # m_front'
    BY <1>0, <2>3, <2>4, DistType
  <2> QED
    BY <1>0, <1>2, <2>2, <2>3, <2>4, <2>5 DEF PushAdvance, LockInv, Holds
<1>3. ASSUME NEW k \in 1 .. MaxSend, StartSend(k) PROVE WindowInv'
  <2>1. pc["app"] = "ready" /\ pc'["app"] = "front"
    BY <1>3 DEF StartSend
  <2>2. Dist(m_unacked, m_front) + a_left' <= MaxWindow
    BY <2>1 DEF PacedNext, LeavesRoom, vars
  <2> QED
    BY <1>0, <1>3, <2>2 DEF StartSend, pqVars
<1>4. ASSUME NEW n \in 1 .. MTU, SendFill(n) PROVE WindowInv'
  BY <1>0, <1>4 DEF SendFill, StreamTypeOK
<1>5. CASE AppDrained \/ DestroyDone \/ DestroyJoin
  BY <1>0, <1>5 DEF AppDrained, DestroyDone, DestroyJoin, pqVars, streamVars
<1>6. CASE SenderLoop \/ SenderTx \/ SenderWake \/ SenderTimeout
  BY <1>0, <1>6 DEF SenderLoop, SenderTx, SenderWake, SenderTimeout, TxEmpty,
     TxWaitSignalled, TxWaitTimeout, pqVars, streamVars
<1>7. CASE SenderStamp \/ SenderSendto \/ SenderSub
  BY <1>0, <1>7 DEF SenderStamp, SenderSendto, SenderSub, TxNextSub, pqVars, streamVars
<1>8. CASE SenderNext
  <2>1. m_tx # m_front /\ m_tx' = NextSlot(m_tx) /\ UNCHANGED <<m_unacked, m_front, a_left>>
    BY <1>8 DEF SenderNext, TxNextAdvance, streamVars
  <2>2. Dist(m_tx', m_front) = Dist(m_tx, m_front) - 1
    BY <1>0, <2>1, IntervalShrinks
  <2>3. Dist(m_unacked, m_tx') = Dist(m_unacked, m_tx) + 1
    BY <1>0, <2>1, IntervalSplits, IntervalGrows
  <2>4. m_unacked # m_tx'
    BY <1>0, <2>1, <2>3, DistType, NextSlotType
  <2> QED
    BY <1>0, <1>8, <2>1, <2>2, <2>3, <2>4 DEF SenderNext
<1>9. CASE ReceiverLoop \/ RecvNothing \/ RecvAck \/ ReadNow
  BY <1>0, <1>9 DEF ReceiverLoop, RecvNothing, RecvAck, ReadNow, pqVars, streamVars
<1>10. CASE SweepEnd \/ SweepAcked \/ SweepOld \/ RetransmitFill \/ MetadataAbort
  BY <1>0, <1>10 DEF SweepEnd, SweepAcked, SweepOld, RetransmitFill, MetadataAbort,
     NoneUnacked, pqVars, streamVars
<1>11. CASE Metadata
  <2>1. /\ m_unacked # m_tx /\ m_unacked' = NextSlot(m_unacked)
        /\ UNCHANGED <<m_tx, m_front, a_left>>
    BY <1>11 DEF Metadata, UnackedNext, streamVars
  <2>2. m_unacked # m_front
    BY <1>0, <2>1, DistType
  <2>3. /\ Dist(m_unacked', m_tx) = Dist(m_unacked, m_tx) - 1
        /\ Dist(m_unacked', m_front) = Dist(m_unacked, m_front) - 1
    BY <1>0, <2>1, <2>2, IntervalShrinks
  <2> QED
    BY <1>0, <1>11, <2>1, <2>3 DEF Metadata
<1>12. ASSUME NEW s \in wire, AckArrives(s) PROVE WindowInv'
  BY <1>0, <1>12 DEF AckArrives, pqVars
<1>13. CASE UNCHANGED vars
  BY <1>0, <1>13 DEF vars, pqVars, streamVars
<1> QED
  BY <1>a, <1>1, <1>2, <1>3, <1>4, <1>5, <1>6, <1>7, <1>8, <1>9, <1>10, <1>11, <1>12, <1>13
     DEF Next, App, Sender, Receiver, Push

-----------------------------------------------------------------------------
(* What the steps that write a packet write.                               *)

LEMMA FillEffect ==
  ASSUME TypeOK, NEW n \in 1 .. MTU, SendFill(n)
  PROVE  /\ m_buf'[m_front].seq = m_dseq
         /\ \A i \in Slots : i # m_front => m_buf'[i].seq = m_buf[i].seq
         /\ \A i \in Slots : m_buf'[i].tsSent = m_buf[i].tsSent /\ m_buf'[i].tsAck = m_buf[i].tsAck
BY DEF SendFill, TypeOK, PQTypeOK, Packets

LEMMA RetransmitEffect ==
  ASSUME TypeOK, RetransmitFill
  PROVE  /\ m_buf'[m_front].seq = m_buf[m_unacked].seq
         /\ \A i \in Slots : i # m_front => m_buf'[i].seq = m_buf[i].seq
         /\ \A i \in Slots : m_buf'[i].tsSent = m_buf[i].tsSent /\ m_buf'[i].tsAck = m_buf[i].tsAck
BY DEF RetransmitFill, TypeOK, PQTypeOK, Packets

LEMMA StampEffect ==
  ASSUME TypeOK, SenderStamp
  PROVE  /\ m_buf'[m_tx].tsSent = clock + 1
         /\ \A i \in Slots : i # m_tx => m_buf'[i].tsSent = m_buf[i].tsSent
         /\ \A i \in Slots : m_buf'[i].seq = m_buf[i].seq /\ m_buf'[i].tsAck = m_buf[i].tsAck
BY DEF SenderStamp, TypeOK, PQTypeOK, Packets

\* Sequence numbers are unique while the receiver handles an ack, so find ()
\* returns a packet with the number it was asked for.
LEMMA FindFinds ==
  ASSUME TypeOK, WindowInv, UniqueCopies, pc["receiver"] = "recv", NEW s, Matches(s) # {}
  PROVE  Find(s) \in Matches(s)
<1>1. PICK m \in Matches(s) : TRUE
  OBVIOUS
<1>2. Between(m_unacked, m_tx) \subseteq Live
  BY IntervalSplits DEF TypeOK, PQTypeOK, WindowInv, Live
<1>3. \A j \in Matches(s) : j = m
  BY <1>2 DEF Matches, UniqueCopies
<1>4. Dist(m_unacked, m) <= Dist(m_unacked, m)
  BY DistType DEF TypeOK, PQTypeOK, Matches, Between
<1> QED
  BY <1>3, <1>4 DEF Find

LEMMA AckEffect ==
  ASSUME TypeOK, WindowInv, UniqueCopies, RecvAck
  PROVE  /\ Head(sock) \in Acks
         /\ \A i \in Slots : m_buf'[i].seq = m_buf[i].seq /\ m_buf'[i].tsSent = m_buf[i].tsSent
         /\ \A i \in Slots :
              \/ m_buf'[i].tsAck = m_buf[i].tsAck
              \/ /\ i \in Between(m_unacked, m_tx)
                 /\ m_buf[i].seq = Head(sock).seq
                 /\ m_buf'[i].tsAck = Head(sock).ts
<1>1. Head(sock) \in Acks
  BY DEF RecvAck, TypeOK, StreamTypeOK
<1>2. CASE Matches(Head(sock).seq) = {}
  BY <1>1, <1>2 DEF RecvAck
<1>3. CASE Matches(Head(sock).seq) # {}
  <2> DEFINE m == Find(Head(sock).seq)
  <2>1. m \in Matches(Head(sock).seq)
    BY <1>3, FindFinds DEF RecvAck, Goto
  <2>2. m \in Slots /\ m \in Between(m_unacked, m_tx) /\ m_buf[m].seq = Head(sock).seq
    BY <2>1 DEF Matches, Between
  <2>3. m_buf' = [m_buf EXCEPT ![m].tsAck = Head(sock).ts]
    BY <1>3 DEF RecvAck
  <2> HIDE DEF m
  <2> QED
    BY <1>1, <2>2, <2>3 DEF TypeOK, PQTypeOK, Packets
<1> QED
  BY <1>2, <1>3

\* All other steps leave the packets, the window and the numbering alone.
Steady ==
  /\ UNCHANGED <<m_front, m_unacked, m_dseq>>
  /\ \A i \in Slots : m_buf'[i].seq = m_buf[i].seq
  /\ acked \subseteq acked'
  /\ \A t \in {"app", "receiver"} : Filling(t)' <=> Filling(t)

LEMMA SteadySteps ==
  ASSUME TypeOK, WindowInv, UniqueCopies, [Next]_vars
  PROVE  \/ \E n \in 1 .. MTU : SendFill(n)
         \/ RetransmitFill \/ Metadata \/ PushAdvance("app") \/ PushAdvance("receiver")
         \/ Steady
<1> USE DEF Steady, Filling, TypeOK, PcTypeOK, Threads, Goto
<1>1. ASSUME NEW t \in {"app", "receiver"}, PushAdd(t) \/ PushRelease(t) \/ PushSignal(t)
      PROVE  Steady
  BY <1>1 DEF PushAdd, PushRelease, PushSignal, FrontNextAdd, FrontNextRelease,
     FrontNextSignal, streamVars
<1>2. CASE AppDrained \/ DestroyDone \/ DestroyJoin
  BY <1>2 DEF AppDrained, DestroyDone, DestroyJoin, pqVars, streamVars
<1>3. ASSUME NEW k \in 1 .. MaxSend, StartSend(k) PROVE Steady
  BY <1>3 DEF StartSend, pqVars
<1>4. CASE Sender
  <2>1. CASE SenderStamp
    BY <2>1, StampEffect DEF SenderStamp
  <2> QED
    BY <1>4, <2>1 DEF Sender, SenderLoop, SenderTx, SenderWake, SenderTimeout, SenderSendto,
       SenderSub, SenderNext, TxWaitSignalled, TxWaitTimeout, TxNextSub, TxNextAdvance,
       pqVars, streamVars
<1>5. CASE RecvAck
  BY <1>5, AckEffect DEF RecvAck
<1>6. CASE ReceiverLoop \/ RecvNothing \/ ReadNow \/ SweepEnd \/ SweepAcked
           \/ SweepOld \/ MetadataAbort
  BY <1>6 DEF ReceiverLoop, RecvNothing, ReadNow, SweepEnd, SweepAcked, SweepOld,
     MetadataAbort, pqVars, streamVars
<1>7. ASSUME NEW s \in wire, AckArrives(s) PROVE Steady
  BY <1>7 DEF AckArrives, pqVars
<1>8. CASE UNCHANGED vars
  BY <1>8 DEF vars, pqVars, streamVars
<1> QED
  BY <1>1, <1>2, <1>3, <1>4, <1>5, <1>6, <1>7, <1>8 DEF Next, App, Receiver, Push

-----------------------------------------------------------------------------
(* Sequence numbers and copies.                                            *)

\* The window assumption leaves a free slot behind the one being pushed.
LEMMA WindowRoom ==
  ASSUME TypeOK, LockInv, WindowInv, NEW t \in {"app", "receiver"}, PushAdvance(t)
  PROVE  Dist(m_unacked, m_front) < Size - 1
<1>1. /\ m_front \in Slots /\ m_unacked \in Slots
      /\ a_left \in Nat /\ MaxWindow \in Nat /\ MaxWindow <= Size - 2 /\ Size \in Nat
      /\ Dist(m_unacked, m_front) \in Nat
  BY DistType, WindowAssumption, BoundsAssumption, SizeAssumption
     DEF TypeOK, PQTypeOK, StreamTypeOK
<1> QED
  BY <1>1 DEF PushAdvance, LockInv, Holds, WindowInv, AppPending, RetxExtra, Filling,
     TypeOK, PcTypeOK, Threads, PushLabels, Goto

\* A push turns the packet at m_front into the youngest live one.
LEMMA PushEffect ==
  ASSUME TypeOK, LockInv, WindowInv, NEW t \in {"app", "receiver"}, PushAdvance(t)
  PROVE  /\ Filling(t) /\ ~ Filling("app")' /\ ~ Filling("receiver")'
         /\ \A r \in {"app", "receiver"} : Filling(r) => r = t
         /\ Live' = Live \cup {m_front}
         /\ m_front \notin Live
         /\ UNCHANGED <<m_buf, m_unacked, m_tx, m_dseq, acked>>
<1>1. m_front \in Slots /\ m_unacked \in Slots /\ Dist(m_unacked, m_front) < Size - 1
  BY WindowRoom DEF TypeOK, PQTypeOK
<1>2. /\ m_front' = NextSlot(m_front)
      /\ UNCHANGED <<m_buf, m_unacked, m_tx, m_dseq, acked>>
  BY DEF PushAdvance, FrontNextAdvance, streamVars
<1>3. Live' = Live \cup {m_front} /\ m_front \notin Live
  BY <1>1, <1>2, IntervalGrows DEF Live
<1>4. /\ Filling(t) /\ ~ Filling("app")' /\ ~ Filling("receiver")'
      /\ \A r \in {"app", "receiver"} : Filling(r) => r = t
  BY DEF PushAdvance, LockInv, Holds, Filling, TypeOK, PcTypeOK, Threads, Goto
<1> QED
  BY <1>2, <1>3, <1>4

\* front () succeeds only for a thread that finds nobody filling a packet.
LEMMA FrontEffect ==
  ASSUME TypeOK, LockInv, WindowInv, Front, NEW t \in {"app", "receiver"}, Goto(t, "front", "add")
  PROVE  /\ ~ Filling("app") /\ ~ Filling("receiver")
         /\ \A r \in {"app", "receiver"} : Filling(r)' <=> r = t
         /\ m_front \notin Live
         /\ pc["receiver"] \notin {"add", "advance", "release"}
<1>1. m_front \notin Live
  BY IntervalSplits DEF Live, WindowInv, TypeOK, PQTypeOK
<1> QED
  BY <1>1 DEF Front, Goto, LockInv, Holds, Filling, TypeOK, PcTypeOK, Threads

\* The sweep moves past the packet at m_unacked.
LEMMA MetadataEffect ==
  ASSUME TypeOK, LockInv, WindowInv, Metadata
  PROVE  /\ m_unacked \in Live /\ Live' = Live \ {m_unacked}
         /\ Between(m_unacked', m_tx) = Between(m_unacked, m_tx) \ {m_unacked}
         /\ m_unacked \in Between(m_unacked, m_tx)
         /\ m_unacked \in Slots /\ m_unacked # m_tx /\ m_unacked' = NextSlot(m_unacked)
         /\ UNCHANGED <<m_front, m_tx, m_buf, m_dseq, acked>>
         /\ pc["receiver"] = "meta" /\ pc'["receiver"] = "sweep" /\ pc'["app"] = pc["app"]
         /\ pc'["sender"] = pc["sender"]
<1>1. /\ m_unacked # m_tx /\ m_unacked \in Slots /\ m_tx \in Slots /\ m_front \in Slots
      /\ m_unacked' = NextSlot(m_unacked)
      /\ UNCHANGED <<m_front, m_tx, m_buf, m_dseq, acked>>
  BY DEF Metadata, UnackedNext, streamVars, WindowInv, Sweeping, Goto, TypeOK, PQTypeOK
<1>2. m_unacked # m_front
  <2>1. /\ Dist(m_unacked, m_tx) \in Nat /\ Dist(m_tx, m_front) \in Nat
        /\ Dist(m_unacked, m_tx) # 0 /\ (m_unacked = m_front => Dist(m_unacked, m_front) = 0)
    BY <1>1, DistType, SizeAssumption
  <2> QED
    BY <2>1 DEF WindowInv
<1>3. m_unacked \in Live /\ Live' = Live \ {m_unacked}
  BY <1>1, <1>2, IntervalShrinks DEF Live
<1>4. /\ Between(m_unacked', m_tx) = Between(m_unacked, m_tx) \ {m_unacked}
      /\ m_unacked \in Between(m_unacked, m_tx)
  BY <1>1, IntervalShrinks
<1>5. /\ pc["receiver"] = "meta" /\ pc'["receiver"] = "sweep" /\ pc'["app"] = pc["app"]
      /\ pc'["sender"] = pc["sender"]
  BY DEF Metadata, Goto, TypeOK, PcTypeOK, Threads
<1> QED
  BY <1>1, <1>3, <1>4, <1>5

LEMMA LiveSlots ==
  ASSUME TypeOK
  PROVE  Live \subseteq Slots /\ \A i \in Slots : m_buf[i].seq \in Nat
BY DEF TypeOK, PQTypeOK, Packets, Live, Between

LEMMA SeqStep ==
  TypeOK /\ LockInv /\ WindowInv /\ SeqInv /\ UniqueCopies /\ [Next]_vars => SeqInv'
<1> SUFFICES ASSUME TypeOK, LockInv, WindowInv, SeqInv, UniqueCopies, [Next]_vars
             PROVE  SeqInv'
  OBVIOUS
<1>0. /\ Live \subseteq Slots /\ m_dseq \in Nat \ {0}
      /\ m_front \in Slots /\ m_unacked \in Slots
      /\ \A i \in Slots : m_buf[i].seq \in Nat
  BY LiveSlots DEF TypeOK, PQTypeOK, StreamTypeOK
<1>1. ASSUME NEW n \in 1 .. MTU, SendFill(n) PROVE SeqInv'
  <2>1. /\ Live' = Live /\ m_dseq' = m_dseq + 1 /\ m_front' = m_front
        /\ Front /\ Goto("app", "front", "add")
    BY <1>1 DEF SendFill, Live
  <2>2. m_front \notin Live /\ Filling("app")' /\ ~ Filling("receiver")'
    BY <2>1, FrontEffect
  <2> QED
    BY <1>0, <1>1, <2>1, <2>2, FillEffect DEF SeqInv
<1>2. CASE RetransmitFill
  <2>1. /\ Live' = Live /\ m_dseq' = m_dseq /\ m_front' = m_front /\ m_unacked' = m_unacked
        /\ Front /\ Goto("receiver", "front", "add")
    BY <1>2 DEF RetransmitFill, streamVars, Live
  <2>2. m_front \notin Live /\ Filling("receiver")' /\ ~ Filling("app")'
    BY <2>1, FrontEffect
  <2>3. m_unacked # m_front
    <3>1. /\ m_unacked # m_tx /\ m_tx \in Slots
      BY <1>2 DEF RetransmitFill, Goto, WindowInv, Sweeping, TypeOK, PQTypeOK
    <3>2. /\ Dist(m_unacked, m_tx) \in Nat /\ Dist(m_tx, m_front) \in Nat
          /\ Dist(m_unacked, m_tx) # 0 /\ (m_unacked = m_front => Dist(m_unacked, m_front) = 0)
      BY <1>0, <3>1, DistType, SizeAssumption
    <3> QED
      BY <3>2 DEF WindowInv
  <2> QED
    BY <1>0, <1>2, <2>1, <2>2, <2>3, RetransmitEffect DEF SeqInv
<1>3. CASE Metadata
  <2>1. (Filling("app")' <=> Filling("app")) /\ ~ Filling("receiver")'
    BY <1>3, MetadataEffect DEF Filling
  <2> QED
    BY <1>0, <1>3, <2>1, MetadataEffect DEF SeqInv
<1>4. CASE PushAdvance("app")
  BY <1>0, <1>4, PushEffect DEF SeqInv
<1>5. CASE PushAdvance("receiver")
  <2>1. m_unacked \in Live
    <3>1. m_unacked # m_tx /\ m_tx \in Slots
      BY <1>5 DEF PushAdvance, Goto, WindowInv, Sweeping, PushLabels, TypeOK, PQTypeOK
    <3>2. m_unacked \in Between(m_unacked, m_tx)
      BY <1>0, <3>1, IntervalShrinks
    <3> QED
      BY <1>0, <3>1, <3>2, IntervalSplits DEF Live, WindowInv
  <2> QED
    BY <1>0, <1>5, <2>1, PushEffect DEF SeqInv
<1>6. CASE Steady
  <2>1. Live' = Live
    BY <1>6 DEF Steady, Live
  <2> QED
    BY <1>0, <1>6, <2>1 DEF Steady, SeqInv
<1> QED
  BY <1>1, <1>2, <1>3, <1>4, <1>5, <1>6, SteadySteps

LEMMA SweptIsLive ==
  ASSUME TypeOK, WindowInv, Sweeping
  PROVE  m_unacked \in Live /\ m_unacked \in Between(m_unacked, m_tx) /\ m_unacked # m_front
<1>1. m_unacked # m_tx /\ m_tx \in Slots /\ m_unacked \in Slots /\ m_front \in Slots
  BY DEF WindowInv, TypeOK, PQTypeOK
<1>2. m_unacked \in Between(m_unacked, m_tx)
  BY <1>1, IntervalShrinks
<1>3. m_unacked \in Live
  BY <1>1, <1>2, IntervalSplits DEF Live, WindowInv
<1> QED
  BY <1>1, <1>2, <1>3, IntervalSplits DEF Live, WindowInv

\* A step that is none of the five leaves the receiver before its retransmission
\* or carries it one step on.
LEMMA SteadyReceiver ==
  ASSUME TypeOK, WindowInv, UniqueCopies, [Next]_vars, Steady
  PROVE  \/ /\ pc'["receiver"] = pc["receiver"]
            /\ \A i \in Slots : m_buf'[i].tsAck = m_buf[i].tsAck
         \/ /\ m_buf' = m_buf
            /\ \/ PushAdd("receiver") \/ PushRelease("receiver") \/ PushSignal("receiver")
               \/ SweepAcked \/ SweepOld \/ MetadataAbort
         \/ pc["receiver"] \in {"loop", "recv", "now", "sweep"}
            /\ pc'["receiver"] \in {"loop", "recv", "now", "sweep", "exit"}
<1> USE DEF TypeOK, PcTypeOK, Threads, Goto
<1>1. CASE App
  <2>1. pc'["receiver"] = pc["receiver"]
    BY <1>1 DEF App, Push, PushAdd, PushAdvance, PushRelease, PushSignal, AppDrained,
       StartSend, SendFill, DestroyDone, DestroyJoin
  <2>2. ASSUME NEW n \in 1 .. MTU, SendFill(n)
        PROVE  \A i \in Slots : m_buf'[i].tsAck = m_buf[i].tsAck
    BY <2>2, FillEffect
  <2>3. CASE \E k \in 1 .. MaxSend : StartSend(k)
    BY <2>3 DEF StartSend, pqVars
  <2>4. ASSUME Push("app") \/ AppDrained \/ DestroyDone \/ DestroyJoin
        PROVE  m_buf' = m_buf
    BY <2>4 DEF Push, PushAdd, PushAdvance, PushRelease, PushSignal, FrontNextAdd,
       FrontNextAdvance, FrontNextRelease, FrontNextSignal, AppDrained,
       DestroyDone, DestroyJoin, pqVars
  <2> QED
    BY <1>1, <2>1, <2>2, <2>3, <2>4 DEF App
<1>2. CASE Sender
  <2>1. pc'["receiver"] = pc["receiver"]
    BY <1>2 DEF Sender, SenderLoop, SenderTx, SenderWake, SenderTimeout, SenderStamp,
       SenderSendto, SenderSub, SenderNext
  <2>2. CASE SenderStamp
    BY <2>1, <2>2, StampEffect
  <2>3. ASSUME ~ SenderStamp PROVE m_buf' = m_buf
    BY <1>2, <2>3 DEF Sender, SenderLoop, SenderTx, SenderWake, SenderTimeout,
       SenderSendto, SenderSub, SenderNext, TxWaitSignalled, TxWaitTimeout, TxNextSub,
       TxNextAdvance, pqVars
  <2> QED
    BY <2>1, <2>2, <2>3
<1>3. CASE Receiver
  <2>1. CASE ReceiverLoop \/ RecvNothing \/ RecvAck \/ ReadNow \/ SweepEnd
    BY <2>1 DEF ReceiverLoop, RecvNothing, RecvAck, ReadNow, SweepEnd
  <2>2. ASSUME PushAdd("receiver") \/ PushRelease("receiver") \/ PushSignal("receiver")
               \/ SweepAcked \/ SweepOld \/ MetadataAbort
        PROVE  m_buf' = m_buf
    BY <2>2 DEF PushAdd, PushRelease, PushSignal, FrontNextAdd, FrontNextRelease,
       FrontNextSignal, SweepAcked, SweepOld, MetadataAbort, pqVars
  <2>3. ~ RetransmitFill /\ ~ PushAdvance("receiver") /\ ~ Metadata
    <3>1. ASSUME RetransmitFill PROVE FALSE
      BY <3>1 DEF RetransmitFill, Steady, Filling
    <3>2. ASSUME PushAdvance("receiver") PROVE FALSE
      BY <3>2 DEF PushAdvance, Steady, Filling
    <3>3. ASSUME Metadata PROVE FALSE
      BY <3>3, NextSlotType DEF Metadata, UnackedNext, Steady, PQTypeOK
    <3> QED
      BY <3>1, <3>2, <3>3
  <2> QED
    BY <1>3, <2>1, <2>2, <2>3 DEF Receiver, Push
<1>4. CASE (\E s \in wire : AckArrives(s)) \/ UNCHANGED vars
  BY <1>4 DEF AckArrives, vars, pqVars
<1> QED
  BY <1>1, <1>2, <1>3, <1>4 DEF Next

LEMMA CopyStep ==
  TypeOK /\ LockInv /\ WindowInv /\ SeqInv /\ CopyInv /\ UniqueCopies /\ [Next]_vars
    => CopyInv' /\ UniqueCopies'
<1> SUFFICES ASSUME TypeOK, LockInv, WindowInv, SeqInv, CopyInv, UniqueCopies, [Next]_vars
             PROVE  CopyInv' /\ UniqueCopies'
  OBVIOUS
<1>0. Live \subseteq Slots /\ m_front \in Slots /\ m_unacked \in Slots
  BY LiveSlots DEF TypeOK, PQTypeOK
<1>a. pc["receiver"] \in PushLabels \cup {"front", "meta"}
        => m_unacked \in Live /\ m_unacked # m_front
  BY SweptIsLive DEF Sweeping
<1>1. ASSUME NEW n \in 1 .. MTU, SendFill(n) PROVE CopyInv' /\ UniqueCopies'
  <2>1. /\ Live' = Live /\ m_front \notin Live /\ m_unacked' = m_unacked
        /\ pc'["receiver"] = pc["receiver"]
    <3>1. Front /\ Goto("app", "front", "add") /\ Live' = Live /\ m_unacked' = m_unacked
      BY <1>1 DEF SendFill, Live
    <3> QED
      BY <3>1, FrontEffect DEF Goto, TypeOK, PcTypeOK, Threads
  <2>2. \A i \in Slots : i # m_front => m_buf'[i].seq = m_buf[i].seq
    BY <1>1, FillEffect
  <2>3. m_buf'[m_unacked].tsAck = m_buf[m_unacked].tsAck
    BY <1>0, <1>1, FillEffect
  <2>4. UniqueCopies'
    BY <1>0, <2>1, <2>2 DEF UniqueCopies
  <2>5. pc["receiver"] \in PushLabels \cup {"front", "meta"} => (HasCopy' <=> HasCopy)
    BY <1>0, <1>a, <2>1, <2>2 DEF HasCopy
  <2> QED
    BY <2>1, <2>3, <2>4, <2>5 DEF CopyInv, PushLabels
<1>2. CASE RetransmitFill
  <2>1. /\ Live' = Live /\ m_front \notin Live /\ m_unacked' = m_unacked
        /\ pc["receiver"] = "front" /\ pc'["receiver"] = "add"
    <3>1. /\ Front /\ Goto("receiver", "front", "add") /\ Live' = Live
          /\ m_unacked' = m_unacked
      BY <1>2 DEF RetransmitFill, Live
    <3> QED
      BY <3>1, FrontEffect DEF Goto, TypeOK, PcTypeOK, Threads
  <2>2. \A i \in Slots : i # m_front => m_buf'[i].seq = m_buf[i].seq
    BY <1>2, RetransmitEffect
  <2>3. m_buf'[m_unacked].tsAck = m_buf[m_unacked].tsAck
    BY <1>0, <1>2, RetransmitEffect
  <2> QED
    BY <1>0, <2>1, <2>2, <2>3 DEF CopyInv, UniqueCopies
<1>3. CASE Metadata
  BY <1>0, <1>3, MetadataEffect DEF CopyInv, UniqueCopies, PushLabels
<1>4. CASE PushAdvance("app")
  <2>1. /\ Filling("app") /\ Live' = Live \cup {m_front} /\ m_front \notin Live
        /\ UNCHANGED <<m_buf, m_unacked>>
    BY <1>4, PushEffect
  <2>2. \A i \in Live : m_buf[i].seq # m_buf[m_front].seq
    BY <2>1 DEF SeqInv
  <2>3. pc'["receiver"] = pc["receiver"]
    BY <1>4 DEF PushAdvance, Goto, TypeOK, PcTypeOK, Threads
  <2>4. UniqueCopies'
    BY <2>1, <2>2, <2>3 DEF UniqueCopies
  <2>5. pc["receiver"] \in PushLabels \cup {"front", "meta"} => (HasCopy' <=> HasCopy)
    BY <1>a, <2>1, <2>2 DEF HasCopy
  <2> QED
    BY <2>1, <2>3, <2>4, <2>5 DEF CopyInv, PushLabels
<1>5. CASE PushAdvance("receiver")
  <2>1. /\ Filling("receiver") /\ Live' = Live \cup {m_front} /\ m_front \notin Live
        /\ UNCHANGED <<m_buf, m_unacked>>
    BY <1>5, PushEffect
  <2>2. pc["receiver"] = "advance" /\ pc'["receiver"] = "release"
    BY <1>5 DEF PushAdvance, Goto, TypeOK, PcTypeOK, Threads
  <2>3. m_buf[m_front].seq = m_buf[m_unacked].seq /\ m_unacked \in Live
    BY <1>a, <2>1, <2>2 DEF SeqInv, PushLabels
  <2>4. \A i, j \in Live : m_buf[i].seq = m_buf[j].seq => i = j
    BY <2>2 DEF UniqueCopies
  <2>5. HasCopy' /\ m_buf[m_unacked].tsAck = 0
    BY <2>1, <2>2, <2>3 DEF HasCopy, CopyInv, PushLabels
  <2>6. UniqueCopies'
    BY <2>1, <2>2, <2>3, <2>4 DEF UniqueCopies
  <2> QED
    BY <2>1, <2>2, <2>5, <2>6 DEF CopyInv, PushLabels
<1>6. CASE Steady
  <2>1. Live' = Live /\ m_unacked' = m_unacked /\ \A i \in Slots : m_buf'[i].seq = m_buf[i].seq
    BY <1>6 DEF Steady, Live
  <2>2. HasCopy' <=> HasCopy
    BY <1>0, <2>1 DEF HasCopy
  <2>3. \A i, j \in Live : m_buf'[i].seq = m_buf'[j].seq <=> m_buf[i].seq = m_buf[j].seq
    BY <1>0, <2>1
  <2>4. CASE /\ pc'["receiver"] = pc["receiver"]
             /\ \A i \in Slots : m_buf'[i].tsAck = m_buf[i].tsAck
    BY <1>0, <2>1, <2>2, <2>3, <2>4 DEF CopyInv, UniqueCopies
  <2>5. CASE /\ pc["receiver"] \in {"loop", "recv", "now", "sweep"}
             /\ pc'["receiver"] \in {"loop", "recv", "now", "sweep", "exit"}
    BY <1>0, <2>1, <2>3, <2>5 DEF CopyInv, UniqueCopies, PushLabels
  <2>6. ASSUME m_buf' = m_buf, PushAdd("receiver") \/ PushRelease("receiver")
        PROVE  CopyInv' /\ UniqueCopies'
    BY <2>1, <2>2, <2>6 DEF PushAdd, PushRelease, Goto, TypeOK, PcTypeOK, Threads,
       CopyInv, UniqueCopies, PushLabels
  <2>7. ASSUME m_buf' = m_buf, PushSignal("receiver")
        PROVE  CopyInv' /\ UniqueCopies'
    BY <2>1, <2>2, <2>7 DEF PushSignal, Goto, TypeOK, PcTypeOK, Threads,
       CopyInv, UniqueCopies, PushLabels
  <2>8. ASSUME m_buf' = m_buf, SweepAcked \/ SweepOld
        PROVE  CopyInv' /\ UniqueCopies'
    <3>1. /\ pc["receiver"] = "sweep" /\ pc'["receiver"] \in {"front", "meta"}
          /\ m_unacked # m_tx
      BY <2>8 DEF SweepAcked, SweepOld, Goto, TypeOK, PcTypeOK, Threads, NoneUnacked
    <3>2. m_unacked \in Live
      BY <1>0, <3>1, IntervalShrinks, IntervalSplits DEF Live, WindowInv, TypeOK, PQTypeOK
    <3>3. ~ HasCopy /\ UniqueCopies'
      BY <2>1, <2>8, <3>1, <3>2 DEF HasCopy, UniqueCopies
    <3>4. CASE SweepAcked
      BY <2>1, <2>2, <2>8, <3>3, <3>4 DEF SweepAcked, Goto, TypeOK, PcTypeOK, Threads,
         CopyInv, PushLabels
    <3>5. CASE SweepOld
      BY <2>1, <2>2, <2>8, <3>3, <3>5 DEF SweepOld, Goto, TypeOK, PcTypeOK, Threads,
         CopyInv, PushLabels
    <3> QED
      BY <2>8, <3>4, <3>5
  <2>9. ASSUME m_buf' = m_buf, MetadataAbort
        PROVE  CopyInv' /\ UniqueCopies'
    <3>1. /\ pc["receiver"] = "meta" /\ pc'["receiver"] = "abort"
          /\ m_buf[m_unacked].tsAck # 0
      BY <2>9 DEF MetadataAbort, Impossible, Goto, TypeOK, PcTypeOK, Threads
    <3>2. ~ HasCopy
      BY <3>1 DEF CopyInv
    <3> QED
      BY <1>a, <2>1, <2>9, <3>1, <3>2 DEF CopyInv, UniqueCopies, HasCopy, PushLabels
  <2> QED
    BY <1>6, <2>4, <2>5, <2>6, <2>7, <2>8, <2>9, SteadyReceiver
<1> QED
  BY <1>1, <1>2, <1>3, <1>4, <1>5, <1>6, SteadySteps

-----------------------------------------------------------------------------
(* Time stamps.                                                            *)

\* The steps that neither stamp, nor take in acks, nor move m_tx or m_unacked.
Timeless ==
  /\ UNCHANGED <<m_unacked, m_tx, clock, sock, acked>>
  /\ Stamped' => Stamped
  /\ \A i \in Slots : m_buf'[i].tsSent = m_buf[i].tsSent /\ m_buf'[i].tsAck = m_buf[i].tsAck
  /\ \A i \in Between(m_unacked, m_tx) : m_buf'[i].seq = m_buf[i].seq

LEMMA TimelessSteps ==
  ASSUME TypeOK, LockInv, WindowInv, UniqueCopies, [Next]_vars
  PROVE  \/ SenderStamp \/ SenderNext \/ RecvAck \/ Metadata
         \/ \E s \in wire : AckArrives(s)
         \/ Timeless
<1> USE DEF TypeOK, PcTypeOK, Threads, Goto
<1>0. Between(m_unacked, m_tx) \subseteq Live /\ Live \subseteq Slots /\ m_front \notin Live
  BY IntervalSplits, LiveSlots DEF WindowInv, PQTypeOK, Live
<1>1. CASE \E t \in {"app", "receiver"} : Push(t)
  BY <1>1 DEF Push, PushAdd, PushAdvance, PushRelease, PushSignal, FrontNextAdd,
     FrontNextAdvance, FrontNextRelease, FrontNextSignal, streamVars, Timeless, Stamped
<1>2. ASSUME NEW n \in 1 .. MTU, SendFill(n) PROVE Timeless
  <2>1. UNCHANGED <<m_unacked, m_tx, clock, sock, acked>> /\ (Stamped' => Stamped)
    BY <1>2 DEF SendFill, Stamped
  <2> QED
    BY <1>0, <1>2, <2>1, FillEffect DEF Timeless
<1>3. CASE RetransmitFill
  <2>1. UNCHANGED <<m_unacked, m_tx, clock, sock, acked>> /\ (Stamped' => Stamped)
    BY <1>3 DEF RetransmitFill, Stamped, streamVars
  <2> QED
    BY <1>0, <1>3, <2>1, RetransmitEffect DEF Timeless
<1>4. CASE AppDrained \/ (\E k \in 1 .. MaxSend : StartSend(k)) \/ DestroyDone \/ DestroyJoin
  BY <1>4 DEF AppDrained, StartSend, DestroyDone, DestroyJoin, pqVars, streamVars,
     Timeless, Stamped
<1>5. CASE Sender /\ ~ SenderStamp /\ ~ SenderNext
  BY <1>5 DEF Sender, SenderLoop, SenderTx, SenderWake, SenderTimeout, SenderSendto,
     SenderSub, TxWaitSignalled, TxWaitTimeout, TxNextSub, pqVars, streamVars,
     Timeless, Stamped
<1>6. CASE ReceiverLoop \/ RecvNothing \/ ReadNow \/ SweepEnd \/ SweepAcked \/ SweepOld
           \/ MetadataAbort
  BY <1>6 DEF ReceiverLoop, RecvNothing, ReadNow, SweepEnd, SweepAcked, SweepOld,
     MetadataAbort, pqVars, streamVars, Timeless, Stamped
<1>7. CASE UNCHANGED vars
  BY <1>7 DEF vars, pqVars, streamVars, Timeless, Stamped
<1> QED
  BY <1>1, <1>2, <1>3, <1>4, <1>5, <1>6, <1>7 DEF Next, App, Receiver

\* The sender has the oldest packet not yet transmitted, which find () does
\* not look at.
LEMMA SendingEffect ==
  ASSUME TypeOK, WindowInv, Sending
  PROVE  /\ m_tx \in Slots /\ m_unacked \in Slots
         /\ m_tx \notin Between(m_unacked, m_tx)
         /\ Between(m_unacked, NextSlot(m_tx)) = Between(m_unacked, m_tx) \cup {m_tx}
         /\ Between(m_unacked, m_tx) \subseteq Slots
BY IntervalSplits, IntervalGrows DEF WindowInv, TypeOK, PQTypeOK, Between

LEMMA StampTypes ==
  ASSUME TypeOK
  PROVE  /\ clock \in Nat /\ acked \subseteq Nat /\ sock \in Seq(Acks)
         /\ m_unacked \in Slots /\ m_tx \in Slots
         /\ \A i \in Slots : /\ m_buf[i].seq \in Nat
                             /\ m_buf[i].tsSent \in Nat
                             /\ m_buf[i].tsAck \in Nat
BY DEF TypeOK, PQTypeOK, StreamTypeOK, Packets

\* An ack leaves the socket, or one is added to it.
LEMMA SockInv ==
  ASSUME TypeOK, StampInv
  PROVE  /\ sock # << >> => Head(sock).seq \in acked /\ Head(sock).ts <= clock
         /\ RecvAck => \A k \in 1 .. Len(sock') : sock'[k].seq \in acked /\ sock'[k].ts <= clock
         /\ \A s : AckArrives(s) =>
              \A k \in 1 .. Len(sock') : sock'[k].seq \in acked' /\ sock'[k].ts <= clock'
<1>1. sock \in Seq(Acks) /\ clock \in Nat /\ \A a \in Acks : a.ts \in Nat
  BY StampTypes DEF Acks
<1>2. sock # << >> => Head(sock).seq \in acked /\ Head(sock).ts <= clock
  BY <1>1 DEF StampInv
<1>3. ASSUME RecvAck
      PROVE  \A k \in 1 .. Len(sock') : sock'[k].seq \in acked /\ sock'[k].ts <= clock
  <2>1. sock # << >> /\ sock' = Tail(sock)
    BY <1>3 DEF RecvAck
  <2>2. /\ Len(sock') = Len(sock) - 1
        /\ \A k \in 1 .. Len(sock') : sock'[k] = sock[k + 1] /\ k + 1 \in 1 .. Len(sock)
    BY <1>1, <2>1
  <2> QED
    BY <2>2 DEF StampInv
<1>4. ASSUME NEW s, AckArrives(s)
      PROVE  \A k \in 1 .. Len(sock') : sock'[k].seq \in acked' /\ sock'[k].ts <= clock'
  <2>1. /\ sock' = Append(sock, [seq |-> s, ts |-> clock + 1])
        /\ acked' = acked \cup {s} /\ clock' = clock + 1
    BY <1>4 DEF AckArrives
  <2>2. /\ Len(sock') = Len(sock) + 1 /\ Len(sock) \in Nat
        /\ sock'[Len(sock) + 1] = [seq |-> s, ts |-> clock + 1]
        /\ \A k \in 1 .. Len(sock) : sock'[k] = sock[k] /\ sock[k] \in Acks
    BY <1>1, <2>1
  <2>3. ASSUME NEW k \in 1 .. Len(sock), sock[k].ts \in Nat
        PROVE  sock'[k].seq \in acked' /\ sock'[k].ts <= clock'
    BY <1>1, <2>1, <2>2, <2>3 DEF StampInv
  <2>4. \A k \in 1 .. Len(sock) : sock[k].ts \in Nat
    BY <1>1, <2>2
  <2>5. sock'[Len(sock) + 1].seq \in acked' /\ sock'[Len(sock) + 1].ts <= clock'
    BY <1>1, <2>1, <2>2
  <2> QED
    BY <2>2, <2>3, <2>4, <2>5
<1> QED
  BY <1>2, <1>3, <1>4

LEMMA StampStep ==
  TypeOK /\ LockInv /\ WindowInv /\ UniqueCopies /\ StampInv /\ [Next]_vars => StampInv'
<1> SUFFICES ASSUME TypeOK, LockInv, WindowInv, UniqueCopies, StampInv, [Next]_vars
             PROVE  StampInv'
  OBVIOUS
<1>0. /\ clock \in Nat /\ acked \subseteq Nat /\ m_tx \in Slots
      /\ \A i \in Slots : m_buf[i].tsSent \in Nat /\ m_buf[i].tsAck \in Nat
  BY StampTypes
<1>1. CASE SenderStamp
  <2>1. clock' = clock + 1 /\ UNCHANGED <<m_tx, sock, acked>>
    BY <1>1 DEF SenderStamp
  <2>1a. sock \in Seq(Acks) /\ \A a \in Acks : a.ts \in Nat
    BY StampTypes DEF Acks
  <2>2. \A k \in 1 .. Len(sock) : sock[k].ts \in Nat
    BY <2>1a
  <2> QED
    BY <1>0, <1>1, <2>1, <2>2, StampEffect DEF StampInv
<1>2. CASE SenderNext
  <2>1. ~ Stamped' /\ UNCHANGED <<m_buf, clock, sock, acked>>
    BY <1>2 DEF SenderNext, TxNextAdvance, streamVars, Goto, Stamped, TypeOK, PcTypeOK, Threads
  <2> QED
    BY <2>1 DEF StampInv
<1>3. CASE RecvAck
  <2>1. UNCHANGED <<m_tx, clock, acked>> /\ (Stamped' => Stamped) /\ sock # << >>
    BY <1>3 DEF RecvAck, Goto, Stamped, TypeOK, PcTypeOK, Threads
  <2>2. \A i \in Slots : m_buf'[i].tsSent <= clock /\ m_buf'[i].tsAck <= clock
    BY <1>0, <1>3, <2>1, AckEffect, SockInv DEF StampInv
  <2>3. Stamped => m_tx \notin Between(m_unacked, m_tx)
    BY SendingEffect DEF Stamped, Sending
  <2>4. Stamped => m_buf'[m_tx].tsAck < m_buf'[m_tx].tsSent
    BY <1>0, <1>3, <2>3, AckEffect DEF StampInv
  <2> QED
    BY <1>3, <2>1, <2>2, <2>4, SockInv DEF StampInv
<1>4. CASE Metadata
  <2>1. (Stamped' <=> Stamped) /\ UNCHANGED <<m_tx, m_buf, clock, sock, acked>>
    BY <1>4, MetadataEffect DEF Metadata, UnackedNext, streamVars, Stamped
  <2> QED
    BY <2>1 DEF StampInv
<1>5. ASSUME NEW s \in wire, AckArrives(s) PROVE StampInv'
  <2>1. clock' = clock + 1 /\ UNCHANGED <<m_buf, m_tx, pc>>
    BY <1>5 DEF AckArrives, pqVars
  <2> QED
    BY <1>0, <1>5, <2>1, SockInv DEF StampInv, Stamped
<1>6. CASE Timeless
  BY <1>0, <1>6 DEF Timeless, StampInv
<1> QED
  BY <1>1, <1>2, <1>3, <1>4, <1>5, <1>6, TimelessSteps

LEMMA AckStep ==
  TypeOK /\ LockInv /\ WindowInv /\ UniqueCopies /\ StampInv /\ AckTruth /\ [Next]_vars
    => AckTruth'
<1> SUFFICES ASSUME TypeOK, LockInv, WindowInv, UniqueCopies, StampInv, AckTruth, [Next]_vars
             PROVE  AckTruth'
  OBVIOUS
<1>0. /\ clock \in Nat /\ m_tx \in Slots
      /\ Between(m_unacked, m_tx) \subseteq Slots
      /\ \A i \in Slots : m_buf[i].tsSent \in Nat /\ m_buf[i].tsAck \in Nat
  BY StampTypes DEF Between
<1>1. CASE SenderStamp
  <2>1. UNCHANGED <<m_unacked, m_tx, acked>> /\ m_tx \notin Between(m_unacked, m_tx)
    BY <1>1, SendingEffect DEF SenderStamp, Goto, Sending
  <2> QED
    BY <1>0, <1>1, <2>1, StampEffect DEF AckTruth, Impossible
<1>2. CASE SenderNext
  <2>1. Stamped /\ m_tx' = NextSlot(m_tx) /\ UNCHANGED <<m_buf, m_unacked, acked>>
    BY <1>2 DEF SenderNext, TxNextAdvance, streamVars, Goto, Stamped
  <2>2. Between(m_unacked, m_tx') = Between(m_unacked, m_tx) \cup {m_tx}
    BY <2>1, SendingEffect DEF Stamped, Sending
  <2>3. m_buf[m_tx].tsAck # 0 => Impossible(m_buf[m_tx])
    BY <2>1 DEF StampInv, Impossible
  <2> QED
    BY <2>1, <2>2, <2>3 DEF AckTruth
<1>3. CASE RecvAck
  <2>1. UNCHANGED <<m_unacked, m_tx, acked>> /\ Head(sock).seq \in acked
    BY <1>3, SockInv DEF RecvAck
  <2> QED
    BY <1>0, <1>3, <2>1, AckEffect DEF AckTruth, Impossible
<1>4. CASE Metadata
  BY <1>4, MetadataEffect DEF AckTruth
<1>5. ASSUME NEW s \in wire, AckArrives(s) PROVE AckTruth'
  BY <1>5 DEF AckArrives, pqVars, AckTruth
<1>6. CASE Timeless
  BY <1>0, <1>6 DEF Timeless, AckTruth, Impossible
<1> QED
  BY <1>1, <1>2, <1>3, <1>4, <1>5, <1>6, TimelessSteps

LEMMA OrderStep ==
  TypeOK /\ LockInv /\ WindowInv /\ UniqueCopies /\ StampInv /\ StampOrder /\ [Next]_vars
    => StampOrder'
<1> SUFFICES ASSUME TypeOK, LockInv, WindowInv, UniqueCopies, StampInv, StampOrder, [Next]_vars
             PROVE  StampOrder'
  OBVIOUS
<1> DEFINE Sent == Between(m_unacked, m_tx)
<1>0. /\ clock \in Nat /\ m_tx \in Slots /\ m_unacked \in Slots /\ Sent \subseteq Slots
      /\ \A i \in Slots : m_buf[i].tsSent \in Nat /\ m_buf[i].tsAck \in Nat
  BY StampTypes DEF Between
<1>1. CASE SenderStamp
  <2>1. UNCHANGED <<m_unacked, m_tx>> /\ m_tx \notin Sent
    BY <1>1, SendingEffect DEF SenderStamp, Goto, Sending
  <2>2. \A i \in Sent : m_buf'[i].tsSent = m_buf[i].tsSent /\ m_buf[i].tsSent < clock + 1
    BY <1>0, <1>1, <2>1, StampEffect DEF StampInv
  <2> QED
    BY <1>0, <1>1, <2>1, <2>2, StampEffect DEF StampOrder, OldestFirst
<1>2. CASE SenderNext
  <2>1. /\ Stamped /\ ~ Stamped' /\ m_tx' = NextSlot(m_tx) /\ UNCHANGED <<m_buf, m_unacked>>
    BY <1>2 DEF SenderNext, TxNextAdvance, streamVars, Goto, Stamped, TypeOK, PcTypeOK, Threads
  <2>2. Between(m_unacked, m_tx') = Sent \cup {m_tx}
    BY <2>1, SendingEffect DEF Stamped, Sending
  <2>3. \A i \in Sent : Dist(m_unacked, i) < Dist(m_unacked, m_tx)
    BY DEF Between
  <2>4. \A i \in Slots : Dist(m_unacked, i) \in Nat
    BY <1>0, DistType, SizeAssumption
  <2>5. ASSUME NEW i \in Sent \cup {m_tx}, NEW j \in Sent \cup {m_tx},
               Dist(m_unacked, i) < Dist(m_unacked, j)
        PROVE  m_buf[i].tsSent < m_buf[j].tsSent
    <3>1. CASE i = m_tx
      BY <1>0, <2>3, <2>4, <2>5, <3>1
    <3>2. CASE i \in Sent
      BY <2>1, <2>5, <3>2 DEF StampOrder, OldestFirst
    <3> QED
      BY <3>1, <3>2
  <2> QED
    BY <2>1, <2>2, <2>5 DEF StampOrder, OldestFirst
<1>3. CASE RecvAck
  <2>1. UNCHANGED <<m_unacked, m_tx>> /\ (Stamped' => Stamped)
    BY <1>3 DEF RecvAck, Goto, Stamped, TypeOK, PcTypeOK, Threads
  <2> QED
    BY <1>0, <1>3, <2>1, AckEffect DEF StampOrder, OldestFirst
<1>4. CASE Metadata
  <2>1. /\ Between(m_unacked', m_tx) = Sent \ {m_unacked} /\ UNCHANGED <<m_tx, m_buf>>
        /\ (Stamped' <=> Stamped) /\ m_unacked' = NextSlot(m_unacked)
    BY <1>4, MetadataEffect DEF Stamped
  <2>2. \A i \in Sent \ {m_unacked} : Dist(m_unacked', i) = Dist(m_unacked, i) - 1
    BY <1>0, <2>1, IntervalShrinks
  <2>3. \A i \in Slots : Dist(m_unacked, i) \in Nat
    BY <1>0, DistType, SizeAssumption
  <2>4. OldestFirst'
    BY <1>0, <2>1, <2>2, <2>3 DEF StampOrder, OldestFirst
  <2> QED
    BY <2>1, <2>4 DEF StampOrder
<1>5. ASSUME NEW s \in wire, AckArrives(s) PROVE StampOrder'
  BY <1>5 DEF AckArrives, pqVars, StampOrder, OldestFirst, Stamped
<1>6. CASE Timeless
  BY <1>0, <1>6 DEF Timeless, StampOrder, OldestFirst
<1> QED
  BY <1>1, <1>2, <1>3, <1>4, <1>5, <1>6, TimelessSteps

-----------------------------------------------------------------------------
(* No segment is lost.                                                     *)

LEMMA LostStep ==
  ASSUME TypeOK, LockInv, WindowInv, SeqInv, CopyInv, UniqueCopies, AckTruth, NoLostSegment,
         [Next]_vars
  PROVE  NoLostSegment'
<1> DEFINE Safe(s) == \/ s \in acked
                      \/ \E i \in Live : m_buf[i].seq = s
                      \/ Filling("app") /\ s = m_dseq - 1 /\ m_buf[m_front].seq = s
<1>0. /\ Live \subseteq Slots /\ m_dseq \in Nat \ {0} /\ m_front \in Slots
      /\ \A s \in 1 .. m_dseq - 1 : Safe(s)
  BY LiveSlots DEF TypeOK, PQTypeOK, StreamTypeOK, NoLostSegment
<1>1. ASSUME NEW n \in 1 .. MTU, SendFill(n) PROVE NoLostSegment'
  <2>1. /\ Front /\ Goto("app", "front", "add") /\ m_dseq' = m_dseq + 1 /\ Live' = Live
        /\ UNCHANGED <<acked, m_front>>
    BY <1>1 DEF SendFill, Live
  <2>2. m_front \notin Live /\ Filling("app")' /\ ~ Filling("app")
    BY <2>1, FrontEffect
  <2>3. ASSUME NEW s \in 1 .. m_dseq - 1 PROVE Safe(s)'
    BY <1>0, <1>1, <2>1, <2>2, <2>3, FillEffect
  <2>4. Safe(m_dseq - 1)'
    BY <1>0, <1>1, <2>1, <2>2, FillEffect
  <2>5. \A s \in 1 .. m_dseq' - 1 : s = m_dseq' - 1 \/ s \in 1 .. m_dseq - 1
    BY <1>0, <2>1
  <2> QED
    BY <2>3, <2>4, <2>5 DEF NoLostSegment
<1>2. CASE RetransmitFill
  <2>1. /\ Front /\ Goto("receiver", "front", "add") /\ Live' = Live
        /\ UNCHANGED <<acked, m_front, m_dseq>>
    BY <1>2 DEF RetransmitFill, streamVars, Live
  <2>2. m_front \notin Live /\ ~ Filling("app")
    BY <2>1, FrontEffect
  <2> QED
    BY <1>0, <1>2, <2>1, <2>2, RetransmitEffect DEF NoLostSegment
<1>3. CASE Metadata
  <2>1. /\ Live' = Live \ {m_unacked} /\ m_unacked \in Between(m_unacked, m_tx)
        /\ UNCHANGED <<m_front, m_buf, m_dseq, acked>>
        /\ pc["receiver"] = "meta" /\ pc'["app"] = pc["app"]
    BY <1>3, MetadataEffect
  <2>2. \/ m_buf[m_unacked].seq \in acked
        \/ \E j \in Live \ {m_unacked} : m_buf[j].seq = m_buf[m_unacked].seq
    <3>1. CASE m_buf[m_unacked].tsAck = 0
      BY <2>1, <3>1 DEF CopyInv, HasCopy
    <3>2. CASE m_buf[m_unacked].tsAck # 0
      BY <1>3, <2>1, <3>2 DEF AckTruth, Metadata
    <3> QED
      BY <3>1, <3>2
  <2>3. ASSUME NEW s \in 1 .. m_dseq - 1 PROVE Safe(s)'
    BY <1>0, <2>1, <2>2, <2>3 DEF Filling
  <2> QED
    BY <2>1, <2>3 DEF NoLostSegment
<1>4. ASSUME NEW t \in {"app", "receiver"}, PushAdvance(t) PROVE NoLostSegment'
  <2>1. /\ Live' = Live \cup {m_front} /\ UNCHANGED <<m_buf, m_dseq, acked>>
    BY <1>4, PushEffect
  <2>2. ASSUME NEW s \in 1 .. m_dseq - 1 PROVE Safe(s)'
    BY <1>0, <2>1, <2>2
  <2> QED
    BY <2>1, <2>2 DEF NoLostSegment
<1>5. CASE Steady
  <2>1. Live' = Live
    BY <1>5 DEF Steady, Live
  <2>2. ASSUME NEW s \in 1 .. m_dseq - 1 PROVE Safe(s)'
    BY <1>0, <1>5, <2>1, <2>2 DEF Steady
  <2>3. m_dseq' = m_dseq
    BY <1>5 DEF Steady
  <2> QED
    BY <2>2, <2>3 DEF NoLostSegment
<1> QED
  BY <1>1, <1>2, <1>3, <1>4, <1>5, SteadySteps

-----------------------------------------------------------------------------
(* The theorems.                                                           *)

LEMMA InitIInv == Init => IInv
<1> SUFFICES ASSUME Init PROVE IInv
  OBVIOUS
<1>1. TypeOK
  BY InitType
<1>2. m_front = 0 /\ m_tx = 0 /\ m_unacked = 0 /\ 0 \in Slots
  BY SizeAssumption DEF Init, PQInit, Slots
<1>3. pc["app"] = "idle" /\ pc["sender"] = "loop" /\ pc["receiver"] = "loop"
  BY DEF Init, Threads
<1>4. Between(0, 0) = {} /\ Dist(0, 0) = 0
  BY SizeAssumption DEF Between, Dist, Slots
<1>5. LockInv
  BY <1>3 DEF Init, PQInit, LockInv, Holds
<1>6. WindowInv
  BY <1>2, <1>3, <1>4, BoundsAssumption DEF Init, WindowInv, AppPending, Filling, RetxExtra,
     Sweeping, Sending, PushLabels
<1>7. SeqInv /\ CopyInv /\ UniqueCopies /\ AckTruth /\ StampOrder
  BY <1>2, <1>3, <1>4 DEF SeqInv, CopyInv, UniqueCopies, AckTruth, StampOrder, OldestFirst,
     Live, Filling, Stamped, PushLabels
<1>8. StampInv
  <2>1. clock = 0 /\ sock = << >> /\ \A i \in Slots : m_buf[i] = NewPacket
    BY DEF Init, PQInit
  <2> QED
    BY <1>3, <2>1 DEF StampInv, NewPacket, Stamped
<1>9. NoLostSegment
  BY DEF Init, NoLostSegment
<1> QED
  BY <1>1, <1>5, <1>6, <1>7, <1>8, <1>9 DEF IInv

\* A caller that leaves room takes steps of the code all the same.
LEMMA PacedIsNext == [PacedNext]_vars => [Next]_vars
BY DEF PacedNext

LEMMA NextIInv == IInv /\ [PacedNext]_vars => IInv'
BY PacedIsNext, NextPQ, NextPc, NextStream, LockStep, WindowStep, SeqStep, CopyStep, StampStep,
   AckStep, OrderStep, LostStep DEF IInv, TypeOK

LEMMA Inductive == PacedSpec => []IInv
BY InitIInv, NextIInv, PTL DEF PacedSpec

\* Every sequence number send () has given out is acked or still in the ring,
\* however the three threads, losses, duplicate and late acks interleave:
\* retransmission in PacketQueue drops nothing if callers leave the ring room.
THEOREM SegmentsAreKept == PacedSpec => []NoLostSegment
BY Inductive, PTL DEF IInv

\* find () cannot confuse two packets: a live sequence number is in the ring
\* once, twice only while the receiver is between pushing a retransmission
\* and moving past the packet it copied.
THEOREM CopiesAreUnique == PacedSpec => []UniqueCopies
BY Inductive, PTL DEF IInv

\* Transmitted packets lie in the ring in the order they were stamped, so the
\* sweep may stop at the first young one.
THEOREM StampsAreOrdered == PacedSpec => []OldestFirst
BY Inductive, PTL DEF IInv, StampOrder

\* If the caller leaves room whenever it begins a send (), frontNext never
\* pushes onto the packet being transmitted or an unsettled one: the check
\* PacketQueue.cpp:39-40 asks for is then not needed, retransmissions, which
\* take a slot more, included.
THEOREM NeverOverrun == PacedSpec => RingNeverOverrun
<1>1. ASSUME IInv, [Next]_vars, m_front' # m_front
      PROVE  m_front' \notin {m_tx, m_unacked}
  <2>1. TypeOK /\ LockInv /\ WindowInv /\ UniqueCopies /\ m_front \in Slots
        /\ m_tx \in Slots /\ m_unacked \in Slots
    BY <1>1 DEF IInv, TypeOK, PQTypeOK
  <2>2. PICK t \in {"app", "receiver"} : PushAdvance(t)
    <3>1. ASSUME NEW n \in 1 .. MTU, SendFill(n) PROVE FALSE
      BY <1>1, <3>1 DEF SendFill
    <3>2. ~ RetransmitFill /\ ~ Metadata /\ ~ Steady
      BY <1>1 DEF RetransmitFill, Metadata, UnackedNext, Steady
    <3> QED
      BY <1>1, <2>1, <3>1, <3>2, SteadySteps
  <2>3. /\ Dist(m_unacked, m_front') # 0 /\ Dist(m_tx, m_front') # 0
        /\ m_front' \in Slots
    <3>1. /\ Dist(m_unacked, m_front) < Size - 1
          /\ Dist(m_unacked, m_front) \in Nat /\ Dist(m_tx, m_front) \in Nat
          /\ Dist(m_unacked, m_tx) \in Nat
      BY <2>1, <2>2, WindowRoom, DistType, SizeAssumption
    <3>2. Dist(m_tx, m_front) < Size - 1
      BY <3>1, <2>1, SizeAssumption DEF WindowInv
    <3>3. m_front' = NextSlot(m_front)
      BY <2>2 DEF PushAdvance, FrontNextAdvance
    <3> QED
      BY <2>1, <3>1, <3>2, <3>3, IntervalGrows, NextSlotType
  <2> QED
    BY <2>1, <2>3, DistType
<1>2. IInv /\ [Next]_vars => [m_front' # m_front => m_front' \notin {m_tx, m_unacked}]_vars
  BY <1>1
<1> QED
  BY <1>2, Inductive, PacedIsNext, PTL DEF PacedSpec, RingNeverOverrun

-----------------------------------------------------------------------------
(* The count of the bytes queued.                                          *)

\* The steps that neither queue bytes, nor take them, nor write a size.
SameBytes ==
  /\ UNCHANGED <<m_front, m_tx, m_bytesQueued>>
  /\ \A i \in Slots : m_buf'[i].size = m_buf[i].size
  /\ (\E t \in Threads : pc'[t] = "advance") <=> (\E t \in Threads : pc[t] = "advance")
  /\ pc'["sender"] = "next" <=> pc["sender"] = "next"

Filled == (\E n \in 1 .. MTU : SendFill(n)) \/ RetransmitFill

LEMMA SameBytesSteps ==
  ASSUME TypeOK, [Next]_vars
  PROVE  \/ Filled \/ SenderSub \/ SenderNext \/ SameBytes
         \/ \E t \in {"app", "receiver"} : PushAdd(t) \/ PushAdvance(t)
<1> USE DEF TypeOK, PcTypeOK, Threads, PushLabels, SenderLabels, Goto, SameBytes
<1>1. ASSUME NEW t \in {"app", "receiver"}, PushRelease(t) \/ PushSignal(t)
      PROVE  SameBytes
  BY <1>1 DEF PushRelease, PushSignal, FrontNextRelease, FrontNextSignal
<1>2. CASE AppDrained \/ (\E k \in 1 .. MaxSend : StartSend(k)) \/ DestroyDone \/ DestroyJoin
  BY <1>2 DEF AppDrained, StartSend, DestroyDone, DestroyJoin, pqVars
<1>3. CASE SenderLoop \/ SenderTx \/ SenderWake \/ SenderTimeout \/ SenderSendto
  BY <1>3 DEF SenderLoop, SenderTx, SenderWake, SenderTimeout, SenderSendto,
     TxWaitSignalled, TxWaitTimeout, pqVars
<1>4. CASE SenderStamp
  BY <1>4 DEF SenderStamp, PQTypeOK, Packets
<1>5. CASE RecvAck
  <2>1. \A i \in Slots : m_buf'[i].size = m_buf[i].size
    BY <1>5 DEF RecvAck, PQTypeOK, Packets
  <2> QED
    BY <1>5, <2>1 DEF RecvAck
<1>6. CASE ReceiverLoop \/ RecvNothing \/ ReadNow \/ SweepEnd \/ SweepAcked \/ SweepOld
           \/ Metadata \/ MetadataAbort
  BY <1>6 DEF ReceiverLoop, RecvNothing, ReadNow, SweepEnd, SweepAcked, SweepOld,
     Metadata, MetadataAbort, UnackedNext, pqVars
<1>7. CASE (\E s \in wire : AckArrives(s)) \/ UNCHANGED vars
  BY <1>7 DEF AckArrives, vars, pqVars
<1> QED
  BY <1>1, <1>2, <1>3, <1>4, <1>5, <1>6, <1>7 DEF Next, App, Sender, Receiver, Push, Filled

LEMMA BytesTypes ==
  ASSUME TypeOK
  PROVE  /\ m_front \in Slots /\ m_tx \in Slots /\ m_bytesQueued \in Int
         /\ \A i \in Slots : m_buf[i].size \in Nat /\ Sizes[i] = m_buf[i].size
         /\ \A a, b \in Slots : IsFiniteSet(Between(a, b)) /\ Between(a, b) \subseteq Slots
         /\ BytesInTx \in Nat
<1>1. IsFiniteSet(Slots)
  BY FS_Interval, SizeAssumption DEF Slots
<1>2. \A a, b \in Slots : Between(a, b) \subseteq Slots
  BY DEF Between
<1>3. \A a, b \in Slots : IsFiniteSet(Between(a, b))
  BY <1>1, <1>2, FS_Subset
<1>4. /\ m_front \in Slots /\ m_tx \in Slots /\ m_bytesQueued \in Int
      /\ \A i \in Slots : m_buf[i].size \in Nat /\ Sizes[i] = m_buf[i].size
  BY DEF TypeOK, PQTypeOK, Packets, Sizes
<1>5. BytesInTx \in Nat
  BY <1>2, <1>3, <1>4, SumNat DEF BytesInTx
<1> QED
  BY <1>2, <1>3, <1>4, <1>5

\* What was taken is of the packet being transmitted, which is still in the queue.
LEMMA NotBelowZero ==
  ASSUME TypeOK, WindowInv
  PROVE  BytesTaken \in Nat /\ BytesAdded \in Nat /\ BytesTaken <= BytesInTx
<1>1. BytesAdded \in Nat /\ BytesTaken \in Nat
  BY BytesTypes DEF BytesAdded, BytesTaken
<1>2. CASE pc["sender"] = "next"
  <2>1. m_tx \in Between(m_tx, m_front)
    BY <1>2, BytesTypes, IntervalShrinks DEF WindowInv, Sending
  <2>2. Sizes[m_tx] <= BytesInTx
    BY <2>1, BytesTypes, SumNat DEF BytesInTx
  <2> QED
    BY <1>1, <1>2, <2>2, BytesTypes DEF BytesTaken
<1>3. CASE pc["sender"] # "next"
  BY <1>1, <1>3, BytesTypes DEF BytesTaken
<1> QED
  BY <1>1, <1>2, <1>3

\* While one thread has the front slot no other is between the two counters.
LEMMA OneAdds ==
  ASSUME TypeOK, LockInv, NEW t \in {"app", "receiver"}, pc[t] \in {"add", "advance"}
  PROVE  (\E s \in Threads : pc[s] = "advance") <=> pc[t] = "advance"
BY DEF TypeOK, PcTypeOK, Threads, SenderLabels, LockInv, Holds

Exact == m_bytesQueued = BytesInTx + BytesAdded - BytesTaken

LEMMA ExactStep == IInv /\ Exact /\ [PacedNext]_vars => Exact'
<1> SUFFICES ASSUME IInv, Exact, [PacedNext]_vars
             PROVE  m_bytesQueued' = BytesInTx' + BytesAdded' - BytesTaken'
  BY DEF Exact
<1>0. TypeOK /\ LockInv /\ WindowInv /\ [Next]_vars
  BY PacedIsNext DEF IInv
<1>0a. TypeOK' /\ LockInv' /\ WindowInv'
  BY NextIInv DEF IInv
<1>t. /\ m_front \in Slots /\ m_tx \in Slots /\ m_bytesQueued \in Int
      /\ \A i \in Slots : m_buf[i].size \in Nat /\ Sizes[i] = m_buf[i].size
      /\ \A i \in Slots : m_buf'[i].size \in Nat /\ Sizes'[i] = m_buf'[i].size
      /\ \A a, b \in Slots : IsFiniteSet(Between(a, b)) /\ Between(a, b) \subseteq Slots
      /\ BytesInTx \in Nat /\ BytesAdded \in Nat /\ BytesTaken \in Nat
  <2>1. TypeOK' => \A i \in Slots : m_buf'[i].size \in Nat /\ Sizes'[i] = m_buf'[i].size
    BY DEF TypeOK, PQTypeOK, Packets, Sizes
  <2> QED
    BY <1>0, <1>0a, <2>1, BytesTypes, NotBelowZero
<1>e. m_bytesQueued = BytesInTx + BytesAdded - BytesTaken
  BY DEF Exact
<1>1. CASE SameBytes
  <2>1. BytesInTx' = BytesInTx
    <3>1. \A i \in Between(m_tx, m_front) : Sizes'[i] = Sizes[i]
      BY <1>1, <1>t DEF SameBytes
    <3>2. SumFunctionOnSet(Sizes', Between(m_tx, m_front)) = BytesInTx
      BY <1>t, <3>1, SumSame DEF BytesInTx
    <3> QED
      BY <1>1, <3>2 DEF SameBytes, BytesInTx
  <2>2. BytesAdded' = BytesAdded /\ BytesTaken' = BytesTaken
    BY <1>1, <1>t DEF SameBytes, BytesAdded, BytesTaken
  <2> QED
    BY <1>1, <1>e, <2>1, <2>2 DEF SameBytes
<1>2. CASE Filled
  <2>1. /\ UNCHANGED <<m_front, m_tx, m_bytesQueued>>
        /\ \A i \in Slots : i # m_front => m_buf'[i].size = m_buf[i].size
    BY <1>2, <1>0 DEF Filled, SendFill, RetransmitFill, TypeOK, PQTypeOK, Packets
  <2>2. PICK t \in {"app", "receiver"} : Front /\ Goto(t, "front", "add")
    BY <1>2 DEF Filled, SendFill, RetransmitFill
  <2>3. BytesInTx' = BytesInTx
    <3>1. m_front \notin Between(m_tx, m_front)
      BY <1>t, DistType DEF Between
    <3>2. \A i \in Between(m_tx, m_front) : Sizes'[i] = Sizes[i]
      BY <3>1, <2>1, <1>t
    <3>3. SumFunctionOnSet(Sizes', Between(m_tx, m_front)) = BytesInTx
      BY <1>t, <3>2, SumSame DEF BytesInTx
    <3> QED
      BY <2>1, <3>3 DEF BytesInTx
  <2>4. BytesAdded = 0 /\ BytesAdded' = 0
    BY <1>0, <2>2 DEF BytesAdded, LockInv, Holds, Front, Goto, TypeOK, PcTypeOK, Threads,
       SenderLabels
  <2>5. BytesTaken' = BytesTaken
    <3>1. pc'["sender"] = pc["sender"]
      BY <1>0, <2>2 DEF Goto, TypeOK, PcTypeOK, Threads
    <3>2. pc["sender"] = "next" => m_tx # m_front
      BY <1>0 DEF WindowInv, Sending
    <3> QED
      BY <2>1, <3>1, <3>2, <1>t DEF BytesTaken
  <2> QED
    BY <2>1, <2>3, <2>4, <2>5, <1>e
<1>3. ASSUME NEW t \in {"app", "receiver"}, PushAdd(t)
      PROVE  m_bytesQueued' = BytesInTx' + BytesAdded' - BytesTaken'
  <2>1. /\ UNCHANGED <<m_front, m_tx, m_buf>> /\ m_bytesQueued' = m_bytesQueued + m_buf[m_front].size
        /\ pc[t] = "add" /\ pc'[t] = "advance" /\ pc'["sender"] = pc["sender"]
    BY <1>0, <1>3 DEF PushAdd, FrontNextAdd, Goto, TypeOK, PcTypeOK, Threads
  <2>2. BytesAdded = 0
    BY <1>0, <2>1, OneAdds DEF BytesAdded
  <2>3. BytesAdded' = m_buf[m_front].size
    BY <2>1 DEF BytesAdded, Threads
  <2>4. BytesInTx' = BytesInTx /\ BytesTaken' = BytesTaken
    BY <2>1 DEF BytesInTx, BytesTaken, Sizes
  <2> QED
    BY <1>t, <1>e, <2>1, <2>2, <2>3, <2>4
<1>4. ASSUME NEW t \in {"app", "receiver"}, PushAdvance(t)
      PROVE  m_bytesQueued' = BytesInTx' + BytesAdded' - BytesTaken'
  <2>1. /\ UNCHANGED <<m_tx, m_buf, m_bytesQueued>> /\ m_front' = NextSlot(m_front)
        /\ pc[t] = "advance" /\ pc' = [pc EXCEPT ![t] = "release"]
        /\ pc'["sender"] = pc["sender"]
    BY <1>0, <1>4 DEF PushAdvance, FrontNextAdvance, Goto, TypeOK, PcTypeOK, Threads
  <2>2. BytesAdded = m_buf[m_front].size
    BY <1>0, <2>1, OneAdds DEF BytesAdded
  <2>3. BytesAdded' = 0
    BY <1>0, <2>1 DEF BytesAdded, Threads, LockInv, Holds, TypeOK, PcTypeOK, SenderLabels
  <2>4. BytesInTx' = BytesInTx + m_buf[m_front].size
    <3>1. Dist(m_tx, m_front) < Size - 1
      <4>1. Dist(m_unacked, m_front) < Size - 1 /\ m_unacked \in Slots
        BY <1>0, <1>4, WindowRoom DEF TypeOK, PQTypeOK
      <4> QED
        BY <1>0, <4>1, <1>t, DistType, SizeAssumption DEF WindowInv
    <3>2. /\ Between(m_tx, m_front') = Between(m_tx, m_front) \cup {m_front}
          /\ m_front \notin Between(m_tx, m_front)
      BY <1>t, <2>1, <3>1, IntervalGrows
    <3>3. SumFunctionOnSet(Sizes, Between(m_tx, m_front) \cup {m_front})
            = BytesInTx + Sizes[m_front]
      <4> DEFINE B == Between(m_tx, m_front)
      <4>1. IsFiniteSet(B) /\ m_front \notin B /\ \A y \in B \cup {m_front} : Sizes[y] \in Int
        BY <1>t, <3>2
      <4> HIDE DEF B
      <4>2. SumFunctionOnSet(Sizes, B \cup {m_front}) = SumFunctionOnSet(Sizes, B) + Sizes[m_front]
        BY <4>1, SumWith
      <4> QED
        BY <4>2 DEF B, BytesInTx
    <3>4. Sizes' = Sizes
      BY <2>1 DEF Sizes
    <3> QED
      BY <1>t, <2>1, <3>2, <3>3, <3>4 DEF BytesInTx
  <2>5. BytesTaken' = BytesTaken
    BY <2>1 DEF BytesTaken
  <2> QED
    BY <1>t, <1>e, <2>1, <2>2, <2>3, <2>4, <2>5
<1>5. CASE SenderSub
  <2>1. /\ UNCHANGED <<m_front, m_tx, m_buf>> /\ m_bytesQueued' = m_bytesQueued - m_buf[m_tx].size
        /\ pc["sender"] = "sub" /\ pc' = [pc EXCEPT !["sender"] = "next"]
    BY <1>5 DEF SenderSub, TxNextSub, Goto
  <2>2. BytesTaken = 0 /\ BytesTaken' = m_buf[m_tx].size
    BY <1>0, <2>1 DEF BytesTaken, TypeOK, PcTypeOK, Threads
  <2>3. BytesAdded' = BytesAdded
    BY <1>0, <2>1 DEF BytesAdded, TypeOK, PcTypeOK, Threads
  <2>4. BytesInTx' = BytesInTx
    BY <2>1 DEF BytesInTx, Sizes
  <2> QED
    BY <1>t, <1>e, <2>1, <2>2, <2>3, <2>4
<1>6. CASE SenderNext
  <2>1. /\ UNCHANGED <<m_front, m_bytesQueued, m_buf>> /\ m_tx' = NextSlot(m_tx)
        /\ pc["sender"] = "next" /\ pc' = [pc EXCEPT !["sender"] = "loop"]
    BY <1>6 DEF SenderNext, TxNextAdvance, Goto
  <2>2. BytesTaken = m_buf[m_tx].size /\ BytesTaken' = 0
    BY <1>0, <2>1 DEF BytesTaken, TypeOK, PcTypeOK, Threads
  <2>3. BytesAdded' = BytesAdded
    BY <1>0, <2>1 DEF BytesAdded, TypeOK, PcTypeOK, Threads
  <2>4. BytesInTx' = BytesInTx - m_buf[m_tx].size
    <3>1. m_tx # m_front
      BY <1>0, <2>1 DEF WindowInv, Sending
    <3>2. /\ Between(m_tx', m_front) = Between(m_tx, m_front) \ {m_tx}
          /\ m_tx \in Between(m_tx, m_front)
      BY <1>t, <2>1, <3>1, IntervalShrinks
    <3>3. SumFunctionOnSet(Sizes, Between(m_tx, m_front) \ {m_tx}) = BytesInTx - Sizes[m_tx]
      <4> DEFINE B == Between(m_tx, m_front)
      <4>1. IsFiniteSet(B) /\ m_tx \in B /\ \A y \in B : Sizes[y] \in Int
        BY <1>t, <3>2
      <4> HIDE DEF B
      <4>2. SumFunctionOnSet(Sizes, B \ {m_tx}) = SumFunctionOnSet(Sizes, B) - Sizes[m_tx]
        BY <4>1, SumWithout
      <4> QED
        BY <4>2 DEF B, BytesInTx
    <3>4. Sizes' = Sizes
      BY <2>1 DEF Sizes
    <3> QED
      BY <1>t, <2>1, <3>2, <3>3, <3>4 DEF BytesInTx
  <2> QED
    BY <1>t, <1>e, <2>1, <2>2, <2>3, <2>4
<1> QED
  BY <1>0, <1>1, <1>2, <1>3, <1>4, <1>5, <1>6, SameBytesSteps

\* bytesQueued () is exact whatever the threads are doing, and does not wrap.
THEOREM BytesAreExact == PacedSpec => []BytesAccounting
<1>1. IInv /\ Exact => BytesAccounting
  <2> SUFFICES ASSUME IInv, Exact PROVE BytesAccounting
    OBVIOUS
  <2> QED
    BY BytesTypes, NotBelowZero DEF IInv, Exact, BytesAccounting
<1>2. Init => Exact
  <2> SUFFICES ASSUME Init PROVE Exact
    OBVIOUS
  <2>1. Between(m_tx, m_front) = {}
    BY SizeAssumption DEF Init, PQInit, Between, Dist, Slots
  <2>2. BytesInTx = 0
    BY <2>1, SumEmpty DEF BytesInTx
  <2>3. BytesAdded = 0 /\ BytesTaken = 0 /\ m_bytesQueued = 0
    BY DEF Init, PQInit, BytesAdded, BytesTaken, Threads
  <2> QED
    BY <2>2, <2>3 DEF Exact
<1> QED
  BY <1>1, <1>2, ExactStep, Inductive, PacedIsNext, PTL DEF PacedSpec

-----------------------------------------------------------------------------
(* SendPath implements ReliableSend.                                       *)

\* Only sendto and the network touch the two histories.
LEMMA HistorySteps ==
  ASSUME [Next]_vars
  PROVE  \/ UNCHANGED <<wire, acked>>
         \/ SenderSendto
         \/ \E s \in wire : AckArrives(s)
<1>1. CASE App
  BY <1>1 DEF App, AppDrained, StartSend, SendFill, DestroyDone, DestroyJoin, Push, PushAdd,
     PushAdvance, PushRelease, PushSignal, streamVars
<1>2. CASE Sender
  BY <1>2 DEF Sender, SenderLoop, SenderTx, SenderWake, SenderTimeout, SenderStamp, SenderSub,
     SenderNext, streamVars
<1>3. CASE Receiver
  BY <1>3 DEF Receiver, ReceiverLoop, RecvNothing, RecvAck, ReadNow, SweepEnd, SweepAcked,
     SweepOld, RetransmitFill, Push, PushAdd, PushAdvance, PushRelease, PushSignal, Metadata,
     MetadataAbort, streamVars
<1>4. CASE UNCHANGED vars
  BY <1>4 DEF vars, streamVars
<1> QED
  BY <1>1, <1>2, <1>3, <1>4 DEF Next

\* A step that moves neither the window nor the numbering, and leaves the
\* sequence numbers in it as they are, holds what was held.
LEMMA SameHeld ==
  ASSUME TypeOK, Live' = Live, m_dseq' = m_dseq, Filling("app")' <=> Filling("app"),
         \A i \in Live : m_buf'[i].seq = m_buf[i].seq
  PROVE  Held' = Held
BY DEF Held

\* send () fills a slot: one more segment is given and held.
LEMMA FillGives ==
  ASSUME IInv, NEW n \in 1 .. MTU, SendFill(n)
  PROVE  Reliable!Give
<1>1. TypeOK /\ LockInv /\ WindowInv
  BY DEF IInv
<1>2. /\ Front /\ Goto("app", "front", "add") /\ m_dseq' = m_dseq + 1
      /\ Live' = Live /\ UNCHANGED <<wire, acked>>
  BY DEF SendFill, Live
<1>3. m_front \notin Live /\ ~ Filling("app") /\ Filling("app")'
  BY <1>1, <1>2, FrontEffect
<1>4. \A i \in Live : m_buf'[i].seq = m_buf[i].seq
  BY <1>1, <1>3, FillEffect, LiveSlots
<1>5. m_dseq \in Nat /\ m_dseq' - 1 = m_dseq /\ (m_dseq - 1) + 1 = m_dseq
  BY <1>1, <1>2 DEF TypeOK, StreamTypeOK
<1>6. Held' = Held \cup {m_dseq}
  BY <1>2, <1>3, <1>4, <1>5 DEF Held
<1> QED
  BY <1>2, <1>5, <1>6 DEF Reliable!Give

\* Neither filling the slot of a copy nor moving m_front shows.
LEMMA PushHolds ==
  ASSUME IInv, RetransmitFill \/ PushAdvance("app") \/ PushAdvance("receiver")
  PROVE  UNCHANGED <<m_dseq, Held>>
<1>0. /\ TypeOK /\ LockInv /\ WindowInv /\ SeqInv /\ CopyInv
      /\ Live \subseteq Slots /\ m_front \in Slots
  BY LiveSlots DEF IInv, TypeOK, PQTypeOK
<1>1. CASE RetransmitFill
  <2>1. /\ Front /\ Goto("receiver", "front", "add") /\ Live' = Live /\ m_dseq' = m_dseq
    BY <1>1 DEF RetransmitFill, streamVars, Live
  <2>2. m_front \notin Live /\ ~ Filling("app") /\ ~ Filling("app")'
    BY <1>0, <2>1, FrontEffect
  <2>3. \A i \in Live : m_buf'[i].seq = m_buf[i].seq
    BY <1>0, <1>1, <2>2, RetransmitEffect
  <2> QED
    BY <1>0, <2>1, <2>2, <2>3, SameHeld
<1>2. CASE PushAdvance("app")
  <2>1. /\ Filling("app") /\ ~ Filling("app")' /\ Live' = Live \cup {m_front}
        /\ UNCHANGED <<m_buf, m_dseq>>
    BY <1>0, <1>2, PushEffect
  <2>2. m_buf[m_front].seq = m_dseq - 1
    BY <1>0, <2>1 DEF SeqInv
  <2> QED
    BY <2>1, <2>2 DEF Held
<1>3. CASE PushAdvance("receiver")
  <2>1. /\ Filling("receiver") /\ ~ Filling("app") /\ ~ Filling("app")'
        /\ Live' = Live \cup {m_front} /\ UNCHANGED <<m_buf, m_dseq>>
    BY <1>0, <1>3, PushEffect
  <2>2. Sweeping
    BY <2>1 DEF Filling, Sweeping, PushLabels
  <2>3. m_buf[m_front].seq = m_buf[m_unacked].seq /\ m_unacked \in Live
    BY <1>0, <2>1, <2>2, SweptIsLive DEF SeqInv
  <2> QED
    BY <2>1, <2>3 DEF Held
<1> QED
  BY <1>1, <1>2, <1>3

\* Moving past a packet settles its segment if it is acked, and shows
\* nothing if a copy of it is in the ring.
LEMMA MetadataSettles ==
  ASSUME IInv, Metadata
  PROVE  \/ UNCHANGED <<m_dseq, Held, wire, acked>>
         \/ \E s \in Held : Reliable!Settle(s)
<1>0. TypeOK /\ LockInv /\ WindowInv /\ SeqInv /\ CopyInv /\ AckTruth
  BY DEF IInv
<1>1. /\ m_unacked \in Live /\ Live' = Live \ {m_unacked}
      /\ m_unacked \in Between(m_unacked, m_tx)
      /\ UNCHANGED <<m_buf, m_dseq, acked>>
      /\ pc["receiver"] = "meta" /\ pc'["app"] = pc["app"]
  BY <1>0, MetadataEffect
<1>2. wire' = wire /\ (Filling("app")' <=> Filling("app"))
  BY <1>1 DEF Metadata, streamVars, Filling
<1> DEFINE s == m_buf[m_unacked].seq
<1>3. CASE m_buf[m_unacked].tsAck = 0
  <2>1. PICK j \in Live \ {m_unacked} : m_buf[j].seq = s
    BY <1>0, <1>1, <1>3 DEF CopyInv, HasCopy
  <2>2. Held' = Held
    BY <1>1, <1>2, <2>1 DEF Held
  <2> QED
    BY <1>1, <1>2, <2>2
<1>4. CASE m_buf[m_unacked].tsAck # 0
  <2>1. s \in acked
    BY <1>0, <1>1, <1>4 DEF AckTruth, Metadata
  <2>2. \A j \in Live \ {m_unacked} : m_buf[j].seq # s
    BY <1>0, <1>1, <1>4 DEF CopyInv, HasCopy
  <2>3. Filling("app") => s # m_dseq - 1
    BY <1>0, <1>1 DEF SeqInv
  <2>4. s \in Held /\ Held' = Held \ {s}
    BY <1>1, <1>2, <2>2, <2>3 DEF Held
  <2> QED
    BY <1>1, <1>2, <2>1, <2>4 DEF Reliable!Settle
<1> QED
  BY <1>3, <1>4

\* What is handed to sendto is held.
LEMMA SendtoTransmits ==
  ASSUME IInv, SenderSendto, Held' = Held, m_dseq' = m_dseq
  PROVE  \E s \in Held : Reliable!Transmit(s)
<1>1. m_tx \in Live
  BY IntervalSplits DEF IInv, TypeOK, PQTypeOK, WindowInv, SenderSendto, Goto, Sending, Live
<1>2. m_buf[m_tx].seq \in Held
  BY <1>1 DEF Held
<1>3. wire' = wire \cup {m_buf[m_tx].seq} /\ acked' = acked
  BY DEF SenderSendto
<1> QED
  BY <1>2, <1>3 DEF Reliable!Transmit

LEMMA NextRefines == IInv /\ [Next]_vars => [Reliable!Next]_(Reliable!relVars)
<1> SUFFICES ASSUME IInv, [Next]_vars PROVE Reliable!Next \/ UNCHANGED Reliable!relVars
  OBVIOUS
<1>0. TypeOK /\ LockInv /\ WindowInv /\ UniqueCopies
  BY DEF IInv
<1>1. ASSUME NEW n \in 1 .. MTU, SendFill(n) PROVE Reliable!Next
  BY <1>1, FillGives DEF Reliable!Next
<1>2. CASE RetransmitFill \/ PushAdvance("app") \/ PushAdvance("receiver")
  <2>1. UNCHANGED <<wire, acked>>
    BY <1>2 DEF RetransmitFill, PushAdvance, streamVars
  <2> QED
    BY <1>2, <2>1, PushHolds DEF Reliable!relVars
<1>3. CASE Metadata
  BY <1>3, MetadataSettles DEF Reliable!Next, Reliable!relVars
<1>4. CASE Steady
  <2>1. Held' = Held /\ m_dseq' = m_dseq
    BY <1>0, <1>4, SameHeld, LiveSlots DEF Steady, Live
  <2>2. CASE UNCHANGED <<wire, acked>>
    BY <2>1, <2>2 DEF Reliable!relVars
  <2>3. CASE SenderSendto
    BY <2>1, <2>3, SendtoTransmits DEF Reliable!Next
  <2>4. ASSUME NEW s \in wire, AckArrives(s) PROVE Reliable!Next
    BY <2>1, <2>4 DEF AckArrives, Reliable!Next, Reliable!Ack
  <2> QED
    BY <2>2, <2>3, <2>4, HistorySteps
<1> QED
  BY <1>0, <1>1, <1>2, <1>3, <1>4, SteadySteps

\* The three threads and their ring keep the promise of ReliableSend
\* ("reliable sending of packets", PacketQueue.hpp:5) at every step.
THEOREM ReliableIsImplemented == PacedSpec => ImplementsReliable
<1>1. Init => Reliable!Init
  <2> SUFFICES ASSUME Init PROVE Reliable!Init
    OBVIOUS
  <2>1. Live = {}
    BY SizeAssumption DEF Init, PQInit, Live, Between, Dist, Slots
  <2>2. ~ Filling("app")
    BY DEF Init, Threads, Filling
  <2> QED
    BY <2>1, <2>2 DEF Init, Held, Reliable!Init
<1> QED
  BY <1>1, Inductive, NextRefines, PacedIsNext, PTL DEF PacedSpec, ImplementsReliable, Reliable!Spec
=============================================================================
