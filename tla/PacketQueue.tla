---------------------------- MODULE PacketQueue ----------------------------
(***************************************************************************)
(* The ring of packets in PacketQueue.cpp that UDPStream sends from.       *)
(*                                                                         *)
(* The ring is a passive object: the operators of this module are the      *)
(* atomic steps of its methods, over its fields only.  The threads that    *)
(* call them are in SendPath.  A method that touches several atomics is    *)
(* several operators, because other threads run between two of them.       *)
(*                                                                         *)
(* Abstractions.  A packet is its header sequence number, its wire size    *)
(* and its two local time stamps; the payload is determined by the         *)
(* sequence number.  tsRecv (the peer's clock) is written together with    *)
(* tsAck by the only thread that reads either, so tsAck stands for both.   *)
(* m_txSema is signalled by txNext and never waited on: it is left out.    *)
(***************************************************************************)
EXTENDS Integers

CONSTANTS
  Size,   \* slots of the ring, m_size (8192 in the code)
  MTU     \* largest payload of one packet, Packet::MTU (1400 in the code)

ASSUME SizeAssumption == Size \in Nat /\ Size >= 2
ASSUME MTUAssumption  == MTU \in Nat /\ MTU >= 1

VARIABLES
  m_front,        \* slot the next packet is written to
  m_frontUsed,    \* TRUE while some thread fills slot m_front
  m_tx,           \* slot of the next packet to transmit
  m_unacked,      \* slot of the oldest packet whose fate is not settled
  m_bytesQueued,  \* wire bytes of the packets in [m_tx, m_front)
  m_buf,          \* the packets
  m_frontSema     \* count of the semaphore frontNext signals

pqVars == <<m_front, m_frontUsed, m_tx, m_unacked, m_bytesQueued, m_buf, m_frontSema>>

Slots == 0 .. Size - 1

HeaderSize == 4

\* A slot as `new Packet[m_size]` leaves it.  Time stamp 0 means "not set".
NewPacket == [seq |-> 0, size |-> 0, tsSent |-> 0, tsAck |-> 0]

Packets == [seq : Nat, size : Nat, tsSent : Nat, tsAck : Nat]

\* The slot after slot i.
NextSlot(i) == IF i = Size - 1 THEN 0 ELSE i + 1

\* Steps from slot a forward to slot b, and the slots of the half-open
\* interval [a, b) as the loops of the code walk it.
Dist(a, b) == IF a <= b THEN b - a ELSE b + Size - a
Between(a, b) == {i \in Slots : Dist(a, i) < Dist(a, b)}

PQInit ==
  /\ m_front = 0
  /\ m_frontUsed = FALSE
  /\ m_tx = 0
  /\ m_unacked = 0
  /\ m_bytesQueued = 0
  /\ m_buf = [i \in Slots |-> NewPacket]
  /\ m_frontSema = 0

PQTypeOK ==
  /\ m_front \in Slots
  /\ m_frontUsed \in BOOLEAN
  /\ m_tx \in Slots
  /\ m_unacked \in Slots
  /\ m_bytesQueued \in Int
  /\ m_buf \in [Slots -> Packets]
  /\ m_frontSema \in Nat

-----------------------------------------------------------------------------
(* front (): the compare-and-swap that reserves slot m_front.  A caller    *)
(* that loses it gets nullptr and spins, which changes nothing.            *)
Front ==
  /\ ~ m_frontUsed
  /\ m_frontUsed' = TRUE

(* frontNext (), first step: m_bytesQueued += m_buf[m_front].size ().      *)
FrontNextAdd ==
  /\ m_bytesQueued' = m_bytesQueued + m_buf[m_front].size
  /\ UNCHANGED <<m_front, m_frontUsed, m_tx, m_unacked, m_buf, m_frontSema>>

(* frontNext (), second step: the new packet becomes visible to tx ().     *)
(* Nothing compares the new index with m_tx or m_unacked.                  *)
FrontNextAdvance ==
  /\ m_front' = NextSlot(m_front)
  /\ UNCHANGED <<m_frontUsed, m_tx, m_unacked, m_bytesQueued, m_buf, m_frontSema>>

(* frontNext (), third step: the front slot may be reserved again.         *)
FrontNextRelease ==
  /\ m_frontUsed' = FALSE
  /\ UNCHANGED <<m_front, m_tx, m_unacked, m_bytesQueued, m_buf, m_frontSema>>

(* frontNext (), last step: m_frontSema.signal ().                         *)
FrontNextSignal ==
  /\ m_frontSema' = m_frontSema + 1
  /\ UNCHANGED <<m_front, m_frontUsed, m_tx, m_unacked, m_bytesQueued, m_buf>>

-----------------------------------------------------------------------------
(* tx (timeout): nothing to transmit, as its loop tests it.                *)
TxEmpty == m_tx = m_front

(* tx (timeout): m_frontSema.wait succeeds.                                *)
TxWaitSignalled ==
  /\ m_frontSema > 0
  /\ m_frontSema' = m_frontSema - 1
  /\ UNCHANGED <<m_front, m_frontUsed, m_tx, m_unacked, m_bytesQueued, m_buf>>

(* tx (timeout): m_frontSema.wait times out, which it only does while the  *)
(* count is zero; tx returns nullptr.                                      *)
TxWaitTimeout ==
  /\ m_frontSema = 0
  /\ UNCHANGED pqVars

\* Mutant of TxNextSub: the index moves before the size is read.
TxNextSubLate ==
  /\ m_bytesQueued' = m_bytesQueued - m_buf[NextSlot(m_tx)].size
  /\ UNCHANGED <<m_front, m_frontUsed, m_tx, m_unacked, m_buf, m_frontSema>>

(* txNext (), first step: m_bytesQueued -= m_buf[m_tx].size ().  The       *)
(* counter is a uint32_t in the code; here a negative value would show     *)
(* the wrap-around.                                                        *)
TxNextSub ==
  /\ m_bytesQueued' = m_bytesQueued - m_buf[m_tx].size
  /\ UNCHANGED <<m_front, m_frontUsed, m_tx, m_unacked, m_buf, m_frontSema>>

(* txNext (), second step: the packet becomes visible to find () and       *)
(* unacked ().                                                             *)
TxNextAdvance ==
  /\ m_tx' = NextSlot(m_tx)
  /\ UNCHANGED <<m_front, m_frontUsed, m_unacked, m_bytesQueued, m_buf, m_frontSema>>

-----------------------------------------------------------------------------
(* find (seq): the slots of [m_unacked, m_tx) that hold seq, and the one   *)
(* the scan returns, the nearest to m_unacked.                             *)
Matches(seq) == {i \in Between(m_unacked, m_tx) : m_buf[i].seq = seq}

Find(seq) ==
  CHOOSE i \in Matches(seq) :
    \A j \in Matches(seq) : Dist(m_unacked, i) <= Dist(m_unacked, j)

(* unacked () returns nullptr.                                             *)
NoneUnacked == m_unacked = m_tx

(* unackedNext ().                                                         *)
UnackedNext ==
  /\ m_unacked' = NextSlot(m_unacked)
  /\ UNCHANGED <<m_front, m_frontUsed, m_tx, m_bytesQueued, m_buf, m_frontSema>>
=============================================================================
