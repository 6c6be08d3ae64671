------------------------------ MODULE SendPath ------------------------------
(***************************************************************************)
(* The sending half of one UDPStream: the three threads that share its     *)
(* PacketQueue, at the granularity of their atomic steps.                  *)
(*                                                                         *)
(*   "app"       the caller: waits for bytesQueued () = 0, calls send (),  *)
(*               and finally runs the destructor;                          *)
(*   "sender"    senderEntry: transmits slot after slot;                   *)
(*   "receiver"  receiverEntry: records acks, then sweeps the packets that *)
(*               are acked or too old, retransmitting the latter through   *)
(*               the same front slot the caller fills.                     *)
(*                                                                         *)
(* Time.  MicrosecondsSinceEpoch and the kernel's receive stamp read one   *)
(* clock; every stamp is a tick of its own.  "Older than the timeout" is a *)
(* free choice for a packet stamped before the sweep's reading of the      *)
(* clock (the timeout varies with the round-trip statistics) and certain   *)
(* for one stamped after it, because the code subtracts unsigned numbers.  *)
(*                                                                         *)
(* Network.  wire is the set of sequence numbers handed to sendto: any of  *)
(* them may be lost, or be acked any number of times, in any order.  The   *)
(* socket keeps at most MaxSock unread acks, in arrival order.             *)
(***************************************************************************)
EXTENDS PacketQueue, Sequences, FiniteSetsExt

CONSTANTS
  MaxWindow,  \* of PacedSpec: most packets unsettled when a send () is over,
              \* if nothing is retransmitted
  MaxSend,    \* bound: packets of one send () call
  MaxSeq,     \* bound: packets ever given a sequence number
  MaxClock,   \* bound: no ack arrives, nothing is retransmitted after it
  MaxSock     \* bound: unread acks in the socket

ASSUME BoundsAssumption ==
  /\ MaxWindow \in Nat
  /\ MaxSend \in Nat
  /\ MaxSeq \in Nat
  /\ MaxClock \in Nat
  /\ MaxSock \in Nat

VARIABLES
  pc,       \* where each thread is
  a_left,   \* packets the running send () has not filled yet
  m_dseq,   \* next sequence number
  m_done,   \* set by the destructor
  r_now,    \* receiver's reading of the clock for the current sweep
  clock,    \* the last time stamp handed out
  sock,     \* acks in the socket, oldest first
  wire,     \* sequence numbers ever transmitted
  acked     \* sequence numbers some ack ever arrived for (history)

\* Everything but the ring and the program counters.
streamVars == <<a_left, m_dseq, m_done, r_now, clock, sock, wire, acked>>

vars == <<pqVars, pc, streamVars>>

Threads == {"app", "sender", "receiver"}

\* Steps of frontNext (), and the labels of each thread.
PushLabels     == {"add", "advance", "release", "signal"}
AppLabels      == PushLabels \cup {"idle", "ready", "front", "join", "dead"}
SenderLabels   == {"loop", "tx", "wait", "stamp", "sendto", "sub", "next", "exit"}
ReceiverLabels == PushLabels \cup {"loop", "recv", "now", "sweep", "front", "meta",
                                   "abort", "exit"}

Acks == [seq : Nat, ts : Nat]

Init ==
  /\ PQInit
  /\ pc = [t \in Threads |-> IF t = "app" THEN "idle" ELSE "loop"]
  /\ a_left = 0
  /\ m_dseq = 1
  /\ m_done = FALSE
  /\ r_now = 0
  /\ clock = 0
  /\ sock = << >>
  /\ wire = {}
  /\ acked = {}

PcTypeOK ==
  /\ pc \in [Threads -> AppLabels \cup SenderLabels \cup ReceiverLabels]
  /\ pc["app"] \in AppLabels
  /\ pc["sender"] \in SenderLabels
  /\ pc["receiver"] \in ReceiverLabels

StreamTypeOK ==
  /\ a_left \in Nat
  /\ pc["app"] = "front" => a_left > 0
  /\ m_dseq \in Nat \ {0}
  /\ m_done \in BOOLEAN
  /\ r_now \in Nat
  /\ clock \in Nat
  /\ sock \in Seq(Acks)
  /\ wire \subseteq Nat
  /\ acked \subseteq Nat

TypeOK == PQTypeOK /\ PcTypeOK /\ StreamTypeOK

\* abort () ends the whole process.
Alive == pc["receiver"] # "abort"

Goto(t, from, to) ==
  /\ Alive
  /\ pc[t] = from
  /\ pc' = [pc EXCEPT ![t] = to]

-----------------------------------------------------------------------------
(* frontNext (), called by the app and by the receiver.                    *)

PushAdd(t) ==
  /\ Goto(t, "add", "advance")
  /\ FrontNextAdd
  /\ UNCHANGED streamVars

PushAdvance(t) ==
  /\ Goto(t, "advance", "release")
  /\ FrontNextAdvance
  /\ UNCHANGED streamVars

PushRelease(t) ==
  /\ Goto(t, "release", "signal")
  /\ FrontNextRelease
  /\ UNCHANGED streamVars

\* After its last frontNext () the app returns from send (); the receiver
\* goes on to the packet's metadata.
PushSignal(t) ==
  /\ Goto(t, "signal", IF t = "receiver" THEN "meta"
                       ELSE IF a_left > 0 THEN "front" ELSE "idle")
  /\ FrontNextSignal
  /\ UNCHANGED streamVars

Push(t) == PushAdd(t) \/ PushAdvance(t) \/ PushRelease(t) \/ PushSignal(t)

-----------------------------------------------------------------------------
(* The application thread.                                                 *)

\* `while (bytesQueued ())` of the callers and of the destructor ends.
AppDrained ==
  /\ Goto("app", "idle", "ready")
  /\ m_bytesQueued = 0
  /\ UNCHANGED <<pqVars, streamVars>>

\* send (msg) for a message of k packets.
StartSend(k) ==
  /\ Goto("app", "ready", "front")
  /\ m_dseq + k <= MaxSeq + 1
  /\ a_left' = k
  /\ UNCHANGED <<pqVars, m_dseq, m_done, r_now, clock, sock, wire, acked>>

\* Mutant of SendFill: the sequence number is not advanced.
SendFillSameSeq(n) ==
  /\ Goto("app", "front", "add")
  /\ Front
  /\ m_buf' = [m_buf EXCEPT ![m_front].seq = m_dseq, ![m_front].size = HeaderSize + n]
  /\ a_left' = a_left - 1
  /\ UNCHANGED <<m_front, m_tx, m_unacked, m_bytesQueued, m_frontSema>>
  /\ UNCHANGED <<m_dseq, m_done, r_now, clock, sock, wire, acked>>

\* send (): front () succeeds; header, size and payload are written.  All
\* packets of a message but the last carry MTU bytes.
SendFill(n) ==
  /\ Goto("app", "front", "add")
  /\ a_left > 1 => n = MTU
  /\ Front
  /\ m_buf' = [m_buf EXCEPT ![m_front].seq = m_dseq, ![m_front].size = HeaderSize + n]
  /\ m_dseq' = m_dseq + 1
  /\ a_left' = a_left - 1
  /\ UNCHANGED <<m_front, m_tx, m_unacked, m_bytesQueued, m_frontSema>>
  /\ UNCHANGED <<m_done, r_now, clock, sock, wire, acked>>

\* ~UDPStream: after its own wait for bytesQueued () = 0.
DestroyDone ==
  /\ Goto("app", "ready", "join")
  /\ m_done' = TRUE
  /\ UNCHANGED <<pqVars, a_left, m_dseq, r_now, clock, sock, wire, acked>>

\* ~UDPStream: both threads joined.
DestroyJoin ==
  /\ Goto("app", "join", "dead")
  /\ pc["receiver"] = "exit"
  /\ pc["sender"] = "exit"
  /\ UNCHANGED <<pqVars, streamVars>>

App ==
  \/ AppDrained
  \/ \E k \in 1 .. MaxSend : StartSend(k)
  \/ \E n \in 1 .. MTU : SendFill(n)
  \/ DestroyDone
  \/ DestroyJoin
  \/ Push("app")

-----------------------------------------------------------------------------
(* The sender thread.                                                      *)

SenderLoop ==
  /\ Goto("sender", "loop", IF m_done THEN "exit" ELSE "tx")
  /\ UNCHANGED <<pqVars, streamVars>>

SenderTx ==
  /\ Goto("sender", "tx", IF TxEmpty THEN "wait" ELSE "stamp")
  /\ UNCHANGED <<pqVars, streamVars>>

SenderWake ==
  /\ Goto("sender", "wait", "tx")
  /\ TxWaitSignalled
  /\ UNCHANGED streamVars

SenderTimeout ==
  /\ Goto("sender", "wait", "loop")
  /\ TxWaitTimeout
  /\ UNCHANGED streamVars

\* Mutant of SenderStamp: a slot that holds a stamp keeps it.
SenderStampOnce ==
  /\ Goto("sender", "stamp", "sendto")
  /\ clock' = clock + 1
  /\ m_buf' = [m_buf EXCEPT ![m_tx].tsSent = IF @ = 0 THEN clock + 1 ELSE @]
  /\ UNCHANGED <<m_front, m_frontUsed, m_tx, m_unacked, m_bytesQueued, m_frontSema>>
  /\ UNCHANGED <<a_left, m_dseq, m_done, r_now, sock, wire, acked>>

\* The token bucket lets the packet through (its delay is the time spent at
\* "stamp") and tsSent is set.
SenderStamp ==
  /\ Goto("sender", "stamp", "sendto")
  /\ clock' = clock + 1
  /\ m_buf' = [m_buf EXCEPT ![m_tx].tsSent = clock + 1]
  /\ UNCHANGED <<m_front, m_frontUsed, m_tx, m_unacked, m_bytesQueued, m_frontSema>>
  /\ UNCHANGED <<a_left, m_dseq, m_done, r_now, sock, wire, acked>>

SenderSendto ==
  /\ Goto("sender", "sendto", "sub")
  /\ wire' = wire \cup {m_buf[m_tx].seq}
  /\ UNCHANGED <<pqVars, a_left, m_dseq, m_done, r_now, clock, sock, acked>>

SenderSub ==
  /\ Goto("sender", "sub", "next")
  /\ TxNextSub
  /\ UNCHANGED streamVars

SenderNext ==
  /\ Goto("sender", "next", "loop")
  /\ TxNextAdvance
  /\ UNCHANGED streamVars

Sender ==
  \/ SenderLoop \/ SenderTx \/ SenderWake \/ SenderTimeout
  \/ SenderStamp \/ SenderSendto \/ SenderSub \/ SenderNext

-----------------------------------------------------------------------------
(* The receiver thread, as far as it concerns packets sent from here.      *)

ReceiverLoop ==
  /\ Goto("receiver", "loop", IF m_done THEN "exit" ELSE "recv")
  /\ UNCHANGED <<pqVars, streamVars>>

\* recv () times out, or returns a packet that is no ack.
RecvNothing ==
  /\ Goto("receiver", "recv", "now")
  /\ UNCHANGED <<pqVars, streamVars>>

\* recv () returns an ack: find its packet and store the kernel's stamp of
\* the ack in it; an ack for no packet in [m_unacked, m_tx) is ignored.
RecvAck ==
  /\ Goto("receiver", "recv", "now")
  /\ sock # << >>
  /\ sock' = Tail(sock)
  /\ m_buf' = IF Matches(Head(sock).seq) = {} THEN m_buf
              ELSE [m_buf EXCEPT ![Find(Head(sock).seq)].tsAck = Head(sock).ts]
  /\ UNCHANGED <<m_front, m_frontUsed, m_tx, m_unacked, m_bytesQueued, m_frontSema>>
  /\ UNCHANGED <<a_left, m_dseq, m_done, r_now, clock, wire, acked>>

\* now = MicrosecondsSinceEpoch (), once for the whole sweep.
ReadNow ==
  /\ Goto("receiver", "now", "sweep")
  /\ r_now' = clock
  /\ UNCHANGED <<pqVars, a_left, m_dseq, m_done, clock, sock, wire, acked>>

\* (now - tsSent) > timeout may be false.  It cannot be for a packet stamped
\* after `now` was read: the unsigned difference wraps around.
CanBeYoung(p) == p.tsSent <= r_now

\* The sweep ends: nothing is unacked, or the oldest is neither acked nor old.
SweepEnd ==
  /\ Goto("receiver", "sweep", "loop")
  /\ NoneUnacked \/ (m_buf[m_unacked].tsAck = 0 /\ CanBeYoung(m_buf[m_unacked]))
  /\ UNCHANGED <<pqVars, streamVars>>

\* The oldest packet is acked.
SweepAcked ==
  /\ Goto("receiver", "sweep", "meta")
  /\ ~ NoneUnacked
  /\ m_buf[m_unacked].tsAck # 0
  /\ UNCHANGED <<pqVars, streamVars>>

\* Mutant of SweepOld: the old packet is dropped instead of retransmitted.
SweepOldDrops ==
  /\ Goto("receiver", "sweep", "meta")
  /\ ~ NoneUnacked
  /\ m_buf[m_unacked].tsAck = 0
  /\ clock < MaxClock
  /\ UNCHANGED <<pqVars, streamVars>>

\* The oldest packet is too old and not acked.
SweepOld ==
  /\ Goto("receiver", "sweep", "front")
  /\ ~ NoneUnacked
  /\ m_buf[m_unacked].tsAck = 0
  /\ clock < MaxClock
  /\ UNCHANGED <<pqVars, streamVars>>

\* Mutant of RetransmitFill: the size is copied, the bytes are not.
RetransmitFillBlank ==
  /\ Goto("receiver", "front", "add")
  /\ Front
  /\ m_buf' = [m_buf EXCEPT ![m_front].size = m_buf[m_unacked].size]
  /\ UNCHANGED <<m_front, m_tx, m_unacked, m_bytesQueued, m_frontSema>>
  /\ UNCHANGED streamVars

\* Retransmission: front () succeeds; bytes and size are copied, the time
\* stamps of the slot are left as they are.
RetransmitFill ==
  /\ Goto("receiver", "front", "add")
  /\ Front
  /\ m_buf' = [m_buf EXCEPT ![m_front].seq = m_buf[m_unacked].seq,
                            ![m_front].size = m_buf[m_unacked].size]
  /\ UNCHANGED <<m_front, m_tx, m_unacked, m_bytesQueued, m_frontSema>>
  /\ UNCHANGED streamVars

\* onMetadata calls abort () on an ack older than the transmission.
Impossible(p) == p.tsAck # 0 /\ p.tsAck < p.tsSent

Metadata ==
  /\ Goto("receiver", "meta", "sweep")
  /\ ~ Impossible(m_buf[m_unacked])
  /\ UnackedNext
  /\ UNCHANGED streamVars

MetadataAbort ==
  /\ Goto("receiver", "meta", "abort")
  /\ Impossible(m_buf[m_unacked])
  /\ UNCHANGED <<pqVars, streamVars>>

Receiver ==
  \/ ReceiverLoop \/ RecvNothing \/ RecvAck \/ ReadNow
  \/ SweepEnd \/ SweepAcked \/ SweepOld
  \/ RetransmitFill \/ Push("receiver") \/ Metadata \/ MetadataAbort

-----------------------------------------------------------------------------
(* The network and the peer: an ack for something transmitted arrives.     *)
AckArrives(s) ==
  /\ Alive
  /\ clock < MaxClock
  /\ Len(sock) < MaxSock
  /\ clock' = clock + 1
  /\ sock' = Append(sock, [seq |-> s, ts |-> clock + 1])
  /\ acked' = acked \cup {s}
  /\ UNCHANGED <<pqVars, pc, a_left, m_dseq, m_done, r_now, wire>>

Next ==
  \/ App
  \/ Sender
  \/ Receiver
  \/ \E s \in wire : AckArrives(s)

Spec == Init /\ [][Next]_vars

\* No line of send () or of PacketQueue looks whether the ring has room for
\* the packets of a message.  A caller leaves it room if, when it begins a
\* send (), the packets whose fate is not settled and those of the message
\* are MaxWindow at most.
LeavesRoom ==
  pc["app"] = "ready" /\ pc'["app"] = "front" =>
    Dist(m_unacked, m_front) + a_left' <= MaxWindow

PacedNext == Next /\ LeavesRoom
PacedSpec == Init /\ [][PacedNext]_vars

-----------------------------------------------------------------------------
(* Properties.                                                             *)

\* Slots [m_unacked, m_front): packets whose fate is not settled.
Live == Between(m_unacked, m_front)

\* Thread t has filled slot m_front and not advanced past it.
Filling(t) == pc[t] \in {"add", "advance"}

\* No segment is lost: every sequence number send () has given out is acked
\* by the peer, or still in a live slot of the ring, or in the slot being
\* pushed.  (Sweeping and retransmitting never drop an unacked packet.)
NoLostSegment ==
  \A s \in 1 .. m_dseq - 1 :
    \/ s \in acked
    \/ \E i \in Live : m_buf[i].seq = s
    \/ Filling("app") /\ s = m_dseq - 1 /\ m_buf[m_front].seq = s

\* The wire bytes of [m_tx, m_front); of a push already added and not yet
\* advanced; and of a transmission already subtracted and not yet advanced.
Sizes      == [i \in Slots |-> m_buf[i].size]
BytesInTx  == SumFunctionOnSet(Sizes, Between(m_tx, m_front))
BytesAdded == IF \E t \in Threads : pc[t] = "advance" THEN m_buf[m_front].size ELSE 0
BytesTaken == IF pc["sender"] = "next" THEN m_buf[m_tx].size ELSE 0

\* bytesQueued () is exact at every step, whichever of its two counters and
\* two indices the threads are between, and never wraps below zero.
BytesAccounting ==
  /\ m_bytesQueued = BytesInTx + BytesAdded - BytesTaken
  /\ m_bytesQueued >= 0

\* find () identifies a packet by its sequence number alone, so two live
\* slots never hold the same one, except the packet at m_unacked and its
\* retransmitted copy until the sweep moves past the former.
UniqueCopies ==
  \A i, j \in Live :
    i # j /\ m_buf[i].seq = m_buf[j].seq
      => /\ pc["receiver"] \in {"release", "signal", "meta"}
         /\ m_unacked \in {i, j}

\* The sweep stops at the first packet that is young: transmitted packets
\* are in the ring in the order of their time stamps.
OldestFirst ==
  \A i, j \in Between(m_unacked, m_tx) :
    Dist(m_unacked, i) < Dist(m_unacked, j) => m_buf[i].tsSent < m_buf[j].tsSent

\* frontNext never advances m_front onto the packet being transmitted or
\* onto an unsettled one, which would hide the whole ring from tx () and
\* unacked ().  The code does not see to that (PacketQueue.cpp:39-40, "If top
\* pushes past a tail it invalidates it. So the tails should be moved along
\* too."); a caller that leaves room does.
RingNeverOverrun ==
  [][m_front' # m_front => m_front' \notin {m_tx, m_unacked}]_vars

\* Segments in the ring, or in the slot send () is pushing.
Held ==
  {m_buf[i].seq : i \in Live} \cup (IF Filling("app") THEN {m_dseq - 1} ELSE {})

\* The ring, its three indices and the three threads amount to a set of
\* segments that are transmitted until acked: only held segments reach the
\* wire, only acked ones leave the ring, and none comes back.
Reliable == INSTANCE ReliableSend WITH given <- m_dseq - 1, held <- Held

ImplementsReliable == Reliable!Spec

\* A packet found acked was received by the peer (UDPStream.cpp:209).
AckedMeansReceived ==
  \A i \in Between(m_unacked, m_tx) : m_buf[i].tsAck # 0 => m_buf[i].seq \in acked

\* onMetadata never finds an ack older than the transmission it belongs to
\* (the "Impossible!" of UDPStream.cpp:138).
AckAfterSend == Alive

\* Only packets older than the timeout are retransmitted, in particular none
\* stamped after the sweep read the clock (UDPStream.cpp:216).
OnlyOldRetransmitted ==
  pc["receiver"] = "front" => m_buf[m_unacked].tsSent <= r_now
=============================================================================
