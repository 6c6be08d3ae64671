--------------------------- MODULE TransportProofs ---------------------------
(***************************************************************************)
(* What send_data and recv_data do together, for every size of block,      *)
(* header and packet and every input: a header is whole when it is taken,  *)
(* the output is the input as far as it goes, and it goes to the end.      *)
(***************************************************************************)
EXTENDS Transport, FiniteSetTheorems, TLAPS

\* Where the stream ends so far, and where it will when the message being
\* sent is cut.
End     == start[Len(start)]
SentEnd == End + s_left
Sent    == Len(blocks)

BlockEnd(k) == blocks[k].at + HeaderBytes + blocks[k].size

\* Where the reader is when it is done with the first j blocks.
Position(j) == IF j < Sent THEN blocks[j + 1].at ELSE SentEnd

Headers == [at : Nat, size : 0 .. BlockSize, eof : BOOLEAN]

TypeInv ==
  /\ start \in Seq(Nat) /\ start # << >>
  /\ blocks \in Seq(Headers)
  /\ avail \in Nat /\ got \in Nat
  /\ input \in Nat /\ s_read \in 0 .. input
  /\ s_n \in 0 .. BlockSize /\ s_left \in Nat
  /\ s_pc \in {"drain", "read", "send", "close", "exited", "aborted"}
  /\ r_pc \in {"header", "block", "write", "exited", "aborted"}
  /\ r_hdr \in Headers /\ r_w \in Nat /\ out \in Nat

\* Packets are not empty, and what is readable ends where a packet does.
PacketInv ==
  /\ \A i, j \in 1 .. Len(start) : i < j => start[i] < start[j]
  /\ \E i \in 1 .. Len(start) : avail = start[i]

\* The blocks follow each other, and the last ends where the stream will.
BlockInv ==
  /\ \A k \in 1 .. Sent : BlockEnd(k) = Position(k)
  /\ \A j, k \in 1 .. Sent : j < k => BlockEnd(j) <= blocks[k].at
  /\ s_pc = "send" => Sent > 0 /\ s_n = blocks[Sent].size
  /\ s_pc = "send" => s_left <= HeaderBytes + s_n
  /\ s_pc # "send" => s_left = 0

\* No packet begins within a header.
HeaderInv ==
  \A k \in 1 .. Sent, i \in 1 .. Len(start) :
    start[i] <= blocks[k].at \/ start[i] >= blocks[k].at + HeaderBytes

\* Headers apart, the stream is what was read of the input and not kept.
InputInv ==
  s_read = SentEnd - HeaderBytes * Sent + (IF s_pc \in {"read", "aborted"} THEN s_n ELSE 0)

\* Only the last block says that it is, when all of the input was read.
EofInv ==
  \A k \in 1 .. Sent : blocks[k].eof =>
    k = Sent /\ s_read = input /\ s_pc \in {"send", "close", "exited"}

\* The reader is before a block, or has the header of the block it is in.
BeforeBlock(j) ==
  /\ got = Position(j)
  /\ out = got - HeaderBytes * j

InBlock(j) ==
  /\ r_hdr = blocks[j]
  /\ got = blocks[j].at + HeaderBytes
  /\ got <= avail

ReaderInv ==
  /\ r_pc = "header" => \E j \in 0 .. Sent : BeforeBlock(j)
  /\ r_pc = "block" =>
       \E j \in 1 .. Sent : InBlock(j) /\ out = got - HeaderBytes * j
  /\ r_pc = "write" =>
       \E j \in 1 .. Sent :
         /\ InBlock(j)
         /\ got + r_hdr.size <= avail /\ r_w <= r_hdr.size
         /\ out = got + r_w - HeaderBytes * j
  /\ r_pc = "exited" => out = input /\ s_read = input

TInv ==
  TypeInv /\ PacketInv /\ BlockInv /\ HeaderInv /\ InputInv /\ EofInv /\ ReaderInv
-----------------------------------------------------------------------------
(* Lemmas.                                                                 *)

USE FramingAssumption

\* One header more.
LEMMA OneMore == \A n \in Nat : HeaderBytes * n \in Nat /\ HeaderBytes * (n + 1) = HeaderBytes * n + HeaderBytes
  OBVIOUS

LEMMA BlockTypes ==
  ASSUME TypeInv
  PROVE  /\ Sent \in Nat
         /\ \A k \in 1 .. Sent : blocks[k].at \in Nat /\ blocks[k].size \in 0 .. BlockSize
  <1>1. Sent \in Nat /\ \A k \in 1 .. Sent : blocks[k] \in Headers
    BY DEF TypeInv, Sent
  <1>2. \A h \in Headers : h.at \in Nat /\ h.size \in 0 .. BlockSize
    BY DEF Headers
  <1>3. QED
    BY <1>1, <1>2

\* The initial state satisfies the invariant.
LEMMA StartsWell == TransportInit => TInv
  <1> SUFFICES ASSUME TransportInit PROVE TInv
    OBVIOUS
  <1>1. TypeInv
    BY DEF TransportInit, D!Init, TypeInv, Headers
  <1>2. PacketInv
    BY DEF TransportInit, D!Init, PacketInv
  <1>3. Sent = 0 /\ End = 0 /\ SentEnd = 0 /\ HeaderBytes * 0 = 0
    BY DEF TransportInit, D!Init, Sent, End, SentEnd
  <1>4. BlockInv /\ HeaderInv /\ InputInv /\ EofInv
    BY <1>3 DEF TransportInit, D!Init, BlockInv, HeaderInv, InputInv, EofInv
  <1>5. ReaderInv
    BY <1>3 DEF TransportInit, D!Init, ReaderInv, BeforeBlock, Position
  <1>6. QED
    BY <1>1, <1>2, <1>4, <1>5 DEF TInv

\* What the invariant says of a state in which only the reader's variables,
\* or only the sending half's, have changed.
LEMMA SourceKept ==
  ASSUME TInv, UNCHANGED <<start, avail, srcVars>>
  PROVE  PacketInv' /\ BlockInv' /\ HeaderInv' /\ InputInv' /\ EofInv'
  BY DEF TInv, srcVars, PacketInv, BlockInv, HeaderInv, InputInv, EofInv, Position,
         BlockEnd, End, SentEnd, Sent

LEMMA ReaderKept ==
  ASSUME TInv, UNCHANGED <<start, avail, got, blocks, s_left, s_read, input, dstVars>>
  PROVE  ReaderInv'
  BY DEF TInv, dstVars, ReaderInv, BeforeBlock, InBlock, Position, BlockEnd, End, SentEnd, Sent

\* The streams' own steps leave the programs' state alone, but for what
\* Deliver makes readable.
LEMMA StreamsStep == TInv /\ (\E s \in Segments : Streams(s)) => TInv'
  <1> SUFFICES ASSUME TInv, NEW s \in Segments, Streams(s)
               PROVE  TInv'
    OBVIOUS
  <1>1. UNCHANGED <<start, got, srcVars, dstVars>>
    BY DEF Streams, Transmit, AckArrives, Settle, Arrive, Deliver, SendAckOf, deliverVars,
           D!Arrive, D!Deliver, D!SendAck
  <1>2. CASE UNCHANGED avail
    <2>1. TypeInv'
      BY <1>1, <1>2 DEF TInv, TypeInv, srcVars, dstVars
    <2>2. ReaderInv'
      BY <1>1, <1>2, ReaderKept DEF srcVars
    <2>3. QED
      BY <1>1, <1>2, <2>1, <2>2, SourceKept DEF TInv
  <1>3. CASE D!Deliver(s)
    <2>1. /\ s \in 1 .. Len(start) /\ s + 1 \in 1 .. Len(start)
          /\ avail = start[s] /\ avail' = start[s + 1]
      BY <1>3 DEF TInv, TypeInv, Segments, D!Deliver
    <2>2. avail' \in Nat /\ avail < avail'
      BY <2>1 DEF TInv, TypeInv, PacketInv
    <2>3. TypeInv'
      BY <1>1, <2>2 DEF TInv, TypeInv, srcVars, dstVars
    <2>4. PacketInv'
      BY <1>1, <2>1 DEF TInv, PacketInv
    <2>5. BlockInv' /\ HeaderInv' /\ InputInv' /\ EofInv'
      BY <1>1 DEF TInv, srcVars, BlockInv, HeaderInv, InputInv, EofInv, Position,
                  BlockEnd, End, SentEnd, Sent
    <2>6. \A j \in 1 .. Sent : InBlock(j) => InBlock(j)'
      <3>1. got <= avail => got' <= avail'
        BY <1>1, <2>2 DEF TInv, TypeInv
      <3>2. QED
        BY <1>1, <3>1 DEF InBlock, srcVars, dstVars
    <2>7. \A j \in 0 .. Sent : BeforeBlock(j) => BeforeBlock(j)'
      BY <1>1 DEF BeforeBlock, Position, srcVars, dstVars, Sent, SentEnd, End
    <2>8. ReaderInv'
      <3>1. CASE r_pc = "header"
        BY <1>1, <2>7, <3>1 DEF TInv, ReaderInv, dstVars, srcVars, Sent
      <3>2. CASE r_pc = "block"
        BY <1>1, <2>6, <3>2 DEF TInv, ReaderInv, dstVars, srcVars, Sent
      <3>3. CASE r_pc = "write"
        <4>1. PICK j \in 1 .. Sent :
                /\ InBlock(j) /\ got + r_hdr.size <= avail /\ r_w <= r_hdr.size
                /\ out = got + r_w - HeaderBytes * j
          BY <3>3 DEF TInv, ReaderInv
        <4>2. InBlock(j)'
          BY <2>6, <4>1
        <4>3. (got + r_hdr.size <= avail)'
          BY <1>1, <2>2, <4>1 DEF TInv, TypeInv, Headers, dstVars
        <4>4. QED
          BY <1>1, <3>3, <4>1, <4>2, <4>3 DEF ReaderInv, dstVars, srcVars, Sent
      <3>4. CASE r_pc \in {"exited", "aborted"}
        BY <1>1, <3>4 DEF TInv, ReaderInv, dstVars, srcVars
      <3>5. QED
        BY <3>1, <3>2, <3>3, <3>4 DEF TInv, TypeInv
    <2>9. QED
      BY <2>3, <2>4, <2>5, <2>8 DEF TInv
  <1>4. QED
    BY <1>2, <1>3 DEF Streams, Transmit, AckArrives, Settle, Arrive, Deliver, SendAckOf,
                      deliverVars, D!Arrive, D!SendAck
-----------------------------------------------------------------------------
(* The steps of send_data.                                                 *)

\* Steps of send_data that send nothing.
LEMMA QuietStep ==
  TInv /\ (WaitDrained \/ SendDone \/ Exit \/ ReadFails \/ \E n \in 1 .. BlockSize : ReadSome(n))
    => TInv'
  <1> SUFFICES ASSUME TInv,
                      WaitDrained \/ SendDone \/ Exit \/ ReadFails
                        \/ \E n \in 1 .. BlockSize : ReadSome(n)
               PROVE  TInv'
    OBVIOUS
  <1> USE DEF TInv
  <1>1. /\ UNCHANGED <<start, avail, got, dstVars, input, s_left, blocks>>
        /\ UNCHANGED <<End, SentEnd, Sent>>
        /\ \A k : BlockEnd(k)' = BlockEnd(k) /\ Position(k)' = Position(k)
    BY DEF WaitDrained, SendDone, Exit, ReadFails, ReadSome, deliverVars, End, SentEnd, Sent,
           BlockEnd, Position
  <1>2. PacketInv' /\ HeaderInv'
    BY <1>1 DEF PacketInv, HeaderInv, Sent
  <1>3. CASE UNCHANGED s_read
    <2>1. ReaderInv'
      BY <1>1, <1>3, ReaderKept
    <2>2. CASE WaitDrained
      <3>1. TypeInv'
        BY <1>1, <1>3, <2>2 DEF WaitDrained, TypeInv, dstVars
      <3>2. BlockInv' /\ InputInv' /\ EofInv'
        BY <1>1, <1>3, <2>2 DEF TypeInv, WaitDrained, BlockInv, InputInv, EofInv
      <3>3. QED
        BY <1>2, <2>1, <3>1, <3>2
    <2>3. CASE SendDone
      <3>1. TypeInv' /\ s_pc' \in {"drain", "close"}
        BY <1>1, <1>3, <2>3 DEF SendDone, TypeInv, dstVars
      <3>2. BlockInv' /\ InputInv'
        BY <1>1, <1>3, <2>3, <3>1 DEF SendDone, BlockInv, InputInv
      <3>3. EofInv'
        BY <1>1, <1>3, <2>3, <3>1 DEF SendDone, EofInv, Sent
      <3>4. QED
        BY <1>2, <2>1, <3>1, <3>2, <3>3
    <2>4. CASE Exit
      <3>1. TypeInv'
        BY <1>1, <1>3, <2>4 DEF Exit, TypeInv, dstVars
      <3>2. BlockInv' /\ InputInv' /\ EofInv'
        BY <1>1, <1>3, <2>4 DEF Exit, BlockInv, InputInv, EofInv
      <3>3. QED
        BY <1>2, <2>1, <3>1, <3>2
    <2>5. CASE ReadFails
      <3>1. TypeInv'
        BY <1>1, <1>3, <2>5 DEF ReadFails, TypeInv, dstVars
      <3>2. BlockInv' /\ InputInv' /\ EofInv'
        BY <1>1, <1>3, <2>5 DEF ReadFails, BlockInv, InputInv, EofInv
      <3>3. QED
        BY <1>2, <2>1, <3>1, <3>2
    <2>6. CASE \E n \in 1 .. BlockSize : ReadSome(n)
      BY <1>3, <2>6 DEF ReadSome, TypeInv
    <2>7. QED
      BY <2>2, <2>3, <2>4, <2>5, <2>6
  <1>4. ASSUME NEW n \in 1 .. BlockSize, ReadSome(n)
        PROVE  TInv'
    <2>1. TypeInv'
      BY <1>1, <1>4 DEF ReadSome, TypeInv, dstVars
    <2>2. BlockInv' /\ EofInv'
      BY <1>1, <1>4 DEF ReadSome, BlockInv, EofInv
    <2>3. InputInv'
      <3>1. HeaderBytes * Sent \in Nat /\ SentEnd \in Nat
        BY OneMore DEF TypeInv, Sent, SentEnd, End
      <3>2. QED
        BY <1>1, <1>4, <3>1, SMTT(30) DEF ReadSome, InputInv, TypeInv
    <2>4. ReaderInv'
      <3>1. r_pc # "exited"
        BY <1>4 DEF ReadSome, ReaderInv, TypeInv
      <3>2. UNCHANGED <<r_pc, r_hdr, r_w, out>>
        BY <1>1 DEF dstVars
      <3>3. \A k : /\ BeforeBlock(k) => BeforeBlock(k)'
                   /\ InBlock(k) => InBlock(k)'
        BY <1>1, <3>2 DEF BeforeBlock, InBlock
      <3>4. QED
        BY <1>1, <3>1, <3>2, <3>3 DEF ReaderInv
    <2>5. QED
      BY <1>2, <2>1, <2>2, <2>3, <2>4
  <1>5. QED
    BY <1>3, <1>4 DEF WaitDrained, SendDone, Exit, ReadFails, ReadSome
\* A block begins where the stream ends, after all blocks there are.
LEMMA SendBlockStep == TInv /\ SendBlock => TInv'
  <1> SUFFICES ASSUME TInv, SendBlock
               PROVE  TInv'
    OBVIOUS
  <1> USE DEF TInv
  <1> DEFINE new == [at |-> End, size |-> s_n, eof |-> AtEof]
  <1>1. /\ UNCHANGED <<start, avail, got, dstVars, input, s_read, s_n>>
        /\ s_pc = "read" /\ s_pc' = "send" /\ s_left = 0 /\ s_left' = HeaderBytes + s_n
        /\ blocks' = Append(blocks, new)
    BY DEF SendBlock, deliverVars, End, BlockInv
  <1>2. /\ End \in Nat /\ s_n \in 0 .. BlockSize
        /\ new \in Headers /\ Len(start) \in 1 .. Len(start)
    BY DEF TypeInv, Headers, End, AtEof
  <1>3. TypeInv'
    BY <1>1, <1>2 DEF TypeInv, dstVars
  <1>4. /\ Sent \in Nat /\ Sent' = Sent + 1
        /\ \A k \in 1 .. Sent : blocks'[k] = blocks[k]
        /\ blocks'[Sent + 1] = new
        /\ End' = End /\ SentEnd = End /\ SentEnd' = End + HeaderBytes + s_n
    BY <1>1, <1>2 DEF TypeInv, Sent, End, SentEnd
  <1>5. \A k \in 1 .. Sent : /\ blocks[k].at \in Nat /\ blocks[k].size \in Nat
                             /\ BlockEnd(k)' = BlockEnd(k)
    BY <1>4, BlockTypes DEF BlockEnd
  <1>6. blocks'[Sent + 1].at + HeaderBytes + blocks'[Sent + 1].size = End + HeaderBytes + s_n
    BY <1>4
  <1>7. \A j \in 0 .. Sent : Position(j)' = Position(j)
    BY <1>4 DEF Position
  <1>8. PacketInv'
    BY <1>1 DEF PacketInv
  <1>9. BlockInv'
    <2>1. ASSUME NEW k \in 1 .. Sent'
          PROVE  BlockEnd(k)' = Position(k)'
      <3>1. CASE k = Sent + 1
        BY <1>4, <1>6, <3>1 DEF Position, BlockEnd
      <3>2. CASE k \in 1 .. Sent
        BY <1>5, <1>7, <3>2 DEF BlockInv
      <3>3. QED
        BY <1>4, <3>1, <3>2
    <2>2. ASSUME NEW j \in 1 .. Sent', NEW k \in 1 .. Sent', j < k
          PROVE  BlockEnd(j)' <= blocks'[k].at
      <3>1. j \in 1 .. Sent /\ BlockEnd(j)' = BlockEnd(j) /\ BlockEnd(j) = Position(j)
        BY <1>4, <1>5, <2>2 DEF BlockInv
      <3>2. CASE k \in 1 .. Sent
        BY <1>4, <2>2, <3>1, <3>2 DEF BlockInv
      <3>3. CASE k = Sent + 1
        <4>1. CASE j = Sent
          BY <1>2, <1>4, <3>1, <3>3, <4>1 DEF Position
        <4>2. CASE j < Sent
          <5>1. /\ BlockEnd(j) <= blocks[Sent].at
                /\ BlockEnd(Sent) = End /\ Sent \in 1 .. Sent
            BY <1>4, <3>1, <4>2 DEF BlockInv, Position
          <5>2. blocks[Sent].at <= BlockEnd(Sent) /\ BlockEnd(j) \in Nat
            BY <1>5, <3>1, <5>1 DEF BlockEnd
          <5>3. QED
            BY <1>2, <1>4, <1>5, <3>1, <3>3, <5>1, <5>2
        <4>3. QED
          BY <1>4, <3>1, <4>1, <4>2
      <3>4. QED
        BY <1>4, <3>2, <3>3
    <2>3. QED
      <3>1. Sent' > 0 /\ s_n = blocks'[Sent'].size
        BY <1>4
      <3>2. s_left' <= HeaderBytes + s_n /\ UNCHANGED s_n
        BY <1>1, <1>2
      <3>3. QED
        BY <1>1, <2>1, <2>2, <3>1, <3>2 DEF BlockInv
  <1>10. HeaderInv'
    <2>1. ASSUME NEW i \in 1 .. Len(start)
          PROVE  start[i] <= End /\ start[i] \in Nat
      <3>1. \A j \in 1 .. Len(start) : start[j] \in Nat
        BY DEF TypeInv
      <3>2. QED
        BY <1>2, <2>1, <3>1 DEF PacketInv, End
    <2>2. ASSUME NEW k \in 1 .. Sent', NEW i \in 1 .. Len(start)
          PROVE  start[i] <= blocks'[k].at \/ start[i] >= blocks'[k].at + HeaderBytes
      <3>1. CASE k \in 1 .. Sent
        BY <1>4, <3>1 DEF HeaderInv
      <3>2. CASE k = Sent + 1
        BY <1>4, <2>1, <3>2
      <3>3. QED
        BY <1>4, <3>1, <3>2
    <2>3. QED
      BY <1>1, <2>2 DEF HeaderInv
  <1>11. InputInv'
    <2>1. /\ HeaderBytes * Sent \in Nat
          /\ HeaderBytes * Sent' = HeaderBytes * Sent + HeaderBytes
      BY <1>4, OneMore
    <2>2. s_read = End - HeaderBytes * Sent + s_n
      BY <1>1, <1>4 DEF InputInv
    <2>3. SentEnd' - HeaderBytes * Sent' = End - HeaderBytes * Sent + s_n
      BY <1>2, <1>4, <2>1, SMTT(30)
    <2>4. s_read' = SentEnd' - HeaderBytes * Sent' + 0
      BY <1>1, <1>2, <2>1, <2>2, <2>3
    <2>5. QED
      BY <1>1, <2>4 DEF InputInv
  <1>12. EofInv'
    <2>1. \A k \in 1 .. Sent : ~ blocks[k].eof
      BY <1>1 DEF EofInv
    <2>2. new.eof => s_read = input
      BY DEF AtEof
    <2>3. ASSUME NEW k \in 1 .. Sent', blocks'[k].eof
          PROVE  k = Sent' /\ s_read' = input'
      <3>1. k = Sent + 1
        BY <1>4, <2>1, <2>3
      <3>2. new.eof
        BY <1>4, <2>3, <3>1
      <3>3. QED
        BY <1>1, <1>4, <2>2, <3>1, <3>2
    <2>4. QED
      BY <1>1, <2>3 DEF EofInv
  <1>13. ReaderInv'
    <2>1. UNCHANGED <<r_pc, r_hdr, r_w, out>>
      BY <1>1 DEF dstVars
    <2>2. \A j \in 0 .. Sent : BeforeBlock(j) => BeforeBlock(j)'
      BY <1>1, <1>7, <2>1 DEF BeforeBlock
    <2>3. \A j \in 1 .. Sent : InBlock(j) => InBlock(j)'
      BY <1>1, <1>4, <2>1 DEF InBlock
    <2>4. \A j \in 0 .. Sent : j \in 0 .. Sent'
      BY <1>4
    <2>5. \A j \in 1 .. Sent : j \in 1 .. Sent'
      BY <1>4
    <2>6. QED
      BY <1>1, <2>1, <2>2, <2>3, <2>4, <2>5 DEF ReaderInv
  <1>14. QED
    BY <1>3, <1>8, <1>9, <1>10, <1>11, <1>12, <1>13

\* The first packet of a message holds its header, as a packet holds MTU bytes
\* and a header is no longer; the others begin after it.
LEMMA SendSegmentStep == TInv /\ SendSegment => TInv'
  <1> SUFFICES ASSUME TInv, SendSegment
               PROVE  TInv'
    OBVIOUS
  <1> USE DEF TInv
  <1>1. /\ UNCHANGED <<avail, got, dstVars, input, s_pc, s_read, s_n, blocks>>
        /\ s_pc = "send" /\ s_left > 0 /\ s_left' = s_left - SegmentSize
        /\ start' = Append(start, End + SegmentSize)
    BY DEF SendSegment, D!Cut, End
  <1>2. /\ SegmentSize \in 1 .. s_left
        /\ SegmentSize = s_left \/ SegmentSize >= HeaderBytes
    BY <1>1 DEF SegmentSize, Least, TypeInv
  <1>3. Len(start) \in Nat \ {0} /\ End \in Nat /\ \A i \in 1 .. Len(start) : start[i] \in Nat
    BY DEF TypeInv, End
  <1>4. /\ Len(start') = Len(start) + 1
        /\ \A i \in 1 .. Len(start) : start'[i] = start[i]
        /\ start'[Len(start) + 1] = End + SegmentSize
        /\ End' = End + SegmentSize
        /\ SentEnd' = SentEnd /\ Sent' = Sent
    BY <1>1, <1>2, <1>3 DEF TypeInv, End, SentEnd, Sent
  <1>5. \A i \in 1 .. Len(start) : start[i] <= End
    BY <1>3 DEF PacketInv, End
  <1>6. TypeInv'
    BY <1>1, <1>2, <1>3 DEF TypeInv, dstVars
  <1>7. PacketInv'
    <2>1. ASSUME NEW i \in 1 .. Len(start'), NEW j \in 1 .. Len(start'), i < j
          PROVE  start'[i] < start'[j]
      <3>1. i \in 1 .. Len(start) /\ (j \in 1 .. Len(start) \/ j = Len(start) + 1)
        BY <1>3, <1>4, <2>1
      <3>2. QED
        BY <1>2, <1>3, <1>4, <1>5, <2>1, <3>1 DEF PacketInv
    <2>2. \E i \in 1 .. Len(start') : avail' = start'[i]
      BY <1>1, <1>3, <1>4 DEF PacketInv
    <2>3. QED
      BY <2>1, <2>2 DEF PacketInv
  <1>8. \A k : BlockEnd(k)' = BlockEnd(k) /\ Position(k)' = Position(k)
    BY <1>1, <1>4 DEF BlockEnd, Position
  <1>9. BlockInv'
    BY <1>1, <1>2, <1>4, <1>8 DEF BlockInv, TypeInv
  <1>10. HeaderInv'
    <2>1. /\ Sent \in Nat \ {0}
          /\ \A k \in 1 .. Sent : blocks[k].at \in Nat /\ blocks[k].size \in Nat
      BY <1>1, BlockTypes DEF BlockInv
    <2>2. End + s_left = blocks[Sent].at + HeaderBytes + s_n
      BY <1>1, <2>1 DEF BlockInv, Position, BlockEnd, SentEnd
    <2>3. End = blocks[Sent].at \/ End >= blocks[Sent].at + HeaderBytes
      <3>1. s_left <= HeaderBytes + s_n /\ s_left \in Nat /\ s_n \in Nat
        BY <1>1 DEF BlockInv, TypeInv
      <3>2. Sent \in 1 .. Sent /\ Len(start) \in 1 .. Len(start)
        BY <1>3, <2>1
      <3>3. End <= blocks[Sent].at \/ End >= blocks[Sent].at + HeaderBytes
        BY <3>2 DEF HeaderInv, End
      <3>4. QED
        BY <1>3, <2>1, <2>2, <3>1, <3>2, <3>3, SMTT(30)
    <2>4. End + SegmentSize >= blocks[Sent].at + HeaderBytes
      <3>1. s_left \in Nat /\ s_n \in Nat /\ Sent \in 1 .. Sent
        BY <2>1 DEF TypeInv
      <3>2. QED
        BY <1>2, <1>3, <2>1, <2>2, <2>3, <3>1
    <2>5. \A k \in 1 .. Sent : End + SegmentSize >= blocks[k].at + HeaderBytes
      <3>1. ASSUME NEW k \in 1 .. Sent, k # Sent
            PROVE  blocks[k].at <= blocks[Sent].at
        BY <2>1, <3>1 DEF BlockInv, BlockEnd
      <3>2. HeaderBytes \in Nat
        BY FramingAssumption DEF FramingAssumption
      <3>3. ASSUME NEW k \in 1 .. Sent
            PROVE  End + SegmentSize >= blocks[k].at + HeaderBytes
        <4>1. /\ End \in Int /\ SegmentSize \in Int
              /\ blocks[k].at \in Int /\ blocks[Sent].at \in Int
          BY <1>2, <1>3, <2>1, <3>3
        <4>2. blocks[k].at <= blocks[Sent].at
          BY <3>1, <3>3, <4>1
        <4>3. QED
          BY <2>4, <3>2, <4>1, <4>2
      <3>4. QED
        BY <3>3
    <2>6. QED
      BY <1>1, <1>3, <1>4, <2>5 DEF HeaderInv
  <1>11. InputInv' /\ EofInv'
    BY <1>1, <1>4 DEF InputInv, EofInv
  <1>12. ReaderInv'
    <2>1. UNCHANGED <<r_pc, r_hdr, r_w, out>>
      BY <1>1 DEF dstVars
    <2>2. \A j : /\ BeforeBlock(j) => BeforeBlock(j)'
                 /\ InBlock(j) => InBlock(j)'
      BY <1>1, <1>8, <2>1 DEF BeforeBlock, InBlock
    <2>3. QED
      BY <1>1, <1>4, <2>1, <2>2 DEF ReaderInv
  <1>13. QED
    BY <1>6, <1>7, <1>9, <1>10, <1>11, <1>12
-----------------------------------------------------------------------------
(* The steps of recv_data.                                                 *)

\* Where the reader may be, as numbers.
LEMMA Positions ==
  ASSUME TInv
  PROVE  /\ SentEnd \in Nat /\ avail <= SentEnd
         /\ \A j \in 0 .. Sent : Position(j) \in Nat
         /\ \A j \in 1 .. Sent : Position(j) = blocks[j].at + HeaderBytes + blocks[j].size
  <1>1. Len(start) \in Nat \ {0} /\ \A i \in 1 .. Len(start) : start[i] \in Nat
    BY DEF TInv, TypeInv
  <1>2. \A i \in 1 .. Len(start) : start[i] <= End
    BY <1>1 DEF TInv, PacketInv, End
  <1>3. SentEnd \in Nat /\ avail <= SentEnd
    BY <1>1, <1>2 DEF TInv, TypeInv, PacketInv, SentEnd, End
  <1>4. TypeInv
    BY DEF TInv
  <1>5. \A j \in 0 .. Sent : Position(j) \in Nat
    BY <1>3, <1>4, BlockTypes DEF Position
  <1>6. QED
    BY <1>3, <1>5 DEF TInv, BlockInv, BlockEnd

\* Of the stream's bytes that are readable, a whole header is or none of it.
LEMMA WholeHeader ==
  ASSUME TInv, NEW k \in 1 .. Sent, avail > blocks[k].at
  PROVE  avail >= blocks[k].at + HeaderBytes
  <1>1. PICK i \in 1 .. Len(start) : avail = start[i]
    BY DEF TInv, PacketInv
  <1>2. blocks[k].at \in Nat /\ avail \in Nat
    BY BlockTypes DEF TInv, TypeInv
  <1>3. QED
    BY <1>1, <1>2 DEF TInv, HeaderInv

\* No two blocks begin at one place, so the reader knows where it is.
LEMMA BlocksApart ==
  ASSUME TInv, NEW j \in 1 .. Sent, NEW k \in 1 .. Sent, j < k
  PROVE  blocks[j].at + HeaderBytes <= blocks[k].at
  <1>1. TypeInv /\ BlockEnd(j) <= blocks[k].at
    BY DEF TInv, BlockInv
  <1>2. QED
    BY <1>1, BlockTypes DEF BlockEnd

LEMMA TakeHeaderStep == TInv /\ TakeHeader => TInv'
  <1> SUFFICES ASSUME TInv, TakeHeader
               PROVE  TInv'
    OBVIOUS
  <1>1. /\ UNCHANGED <<start, avail, srcVars, r_w, out>>
        /\ r_pc = "header" /\ r_pc' = "block" /\ avail > got /\ got' = got + HeaderBytes
        /\ r_hdr' \in HeaderAt(got)
    BY DEF TakeHeader
  <1>2. PICK j \in 0 .. Sent : BeforeBlock(j)
    BY <1>1 DEF TInv, ReaderInv
  <1>3. TypeInv /\ Sent \in Nat /\ avail \in Nat /\ got \in Nat
    BY BlockTypes DEF TInv, TypeInv
  <1>4. j < Sent /\ j + 1 \in 1 .. Sent /\ got = blocks[j + 1].at
    BY <1>1, <1>2, <1>3, Positions DEF BeforeBlock, Position
  <1>5. avail >= got + HeaderBytes
    BY <1>1, <1>4, WholeHeader
  <1>6. \A k \in 1 .. Sent : blocks[k].at = got => k = j + 1
    <2>1. ASSUME NEW k \in 1 .. Sent, blocks[k].at = got, k # j + 1
          PROVE  FALSE
      <3>1. CASE k < j + 1
        BY <1>3, <1>4, <2>1, <3>1, BlocksApart
      <3>2. CASE j + 1 < k
        BY <1>3, <1>4, <2>1, <3>2, BlocksApart
      <3>3. QED
        BY <1>3, <2>1, <3>1, <3>2
    <2>2. QED
      BY <2>1
  <1>7. DOMAIN blocks = 1 .. Sent
    BY <1>3 DEF TypeInv, Sent
  <1>8. r_hdr' = blocks[j + 1]
    <2>1. {k \in DOMAIN blocks : blocks[k].at = got /\ got + HeaderBytes <= avail} = {j + 1}
      BY <1>3, <1>4, <1>5, <1>6, <1>7
    <2>2. QED
      BY <1>1, <2>1 DEF HeaderAt
  <1>9. TypeInv'
    <2>1. blocks[j + 1] \in Headers
      BY <1>3, <1>4 DEF TypeInv, Sent
    <2>2. QED
      BY <1>1, <1>3, <1>8, <2>1 DEF TypeInv, srcVars
  <1>10. InBlock(j + 1)' /\ j + 1 \in 1 .. Sent'
    BY <1>1, <1>3, <1>4, <1>5, <1>8 DEF InBlock, srcVars, Sent
  <1>11. out' = got' - HeaderBytes * (j + 1)
    BY <1>1, <1>2, <1>3, OneMore DEF BeforeBlock
  <1>12. ReaderInv'
    BY <1>1, <1>10, <1>11 DEF ReaderInv
  <1>13. QED
    BY <1>1, <1>9, <1>12, SourceKept DEF TInv

LEMMA WaitBlockStep == TInv /\ WaitBlock => TInv'
  <1> SUFFICES ASSUME TInv, WaitBlock
               PROVE  TInv'
    OBVIOUS
  <1>1. /\ UNCHANGED <<start, avail, got, srcVars, r_hdr, out>>
        /\ r_pc = "block" /\ r_pc' = "write" /\ r_hdr.size <= avail - got /\ r_w' = 0
    BY DEF WaitBlock, BlockIsReadable, deliverVars
  <1>2. PICK j \in 1 .. Sent : InBlock(j) /\ out = got - HeaderBytes * j
    BY <1>1 DEF TInv, ReaderInv
  <1>3. avail \in Nat /\ got \in Nat /\ r_hdr.size \in Nat
    BY DEF TInv, TypeInv, Headers
  <1>4. TypeInv'
    BY <1>1 DEF TInv, TypeInv, srcVars
  <1>5. InBlock(j)' /\ j \in 1 .. Sent'
    BY <1>1, <1>2 DEF InBlock, srcVars, Sent
  <1>6. HeaderBytes * j \in Nat
    BY OneMore, BlockTypes DEF TInv
  <1>7. /\ (got + r_hdr.size <= avail)' /\ (r_w <= r_hdr.size)'
        /\ out' = got' + r_w' - HeaderBytes * j
    BY <1>1, <1>2, <1>3, <1>6
  <1>8. ReaderInv'
    BY <1>1, <1>5, <1>7 DEF ReaderInv
  <1>9. QED
    BY <1>1, <1>4, <1>8, SourceKept DEF TInv

LEMMA WriteSomeStep ==
  ASSUME TInv, NEW n \in 1 .. BlockSize, WriteSome(n)
  PROVE  TInv'
  <1>1. /\ UNCHANGED <<start, avail, got, srcVars, r_pc, r_hdr>>
        /\ r_pc = "write" /\ n <= r_hdr.size - r_w /\ r_w' = r_w + n /\ out' = out + n
    BY DEF WriteSome, deliverVars
  <1>2. PICK j \in 1 .. Sent :
          /\ InBlock(j)
          /\ got + r_hdr.size <= avail /\ r_w <= r_hdr.size
          /\ out = got + r_w - HeaderBytes * j
    BY <1>1 DEF TInv, ReaderInv
  <1>3. /\ avail \in Nat /\ got \in Nat /\ r_hdr.size \in Nat
        /\ r_w \in Nat /\ out \in Nat /\ n \in Nat
    BY DEF TInv, TypeInv, Headers
  <1>4. TypeInv'
    BY <1>1, <1>3 DEF TInv, TypeInv, srcVars
  <1>5. InBlock(j)' /\ j \in 1 .. Sent'
    BY <1>1, <1>2 DEF InBlock, srcVars, Sent
  <1>6. HeaderBytes * j \in Nat
    BY OneMore, BlockTypes DEF TInv
  <1>7. /\ (got + r_hdr.size <= avail)' /\ (r_w <= r_hdr.size)'
        /\ out' = got' + r_w' - HeaderBytes * j
    BY <1>1, <1>2, <1>3, <1>6
  <1>8. ReaderInv'
    BY <1>1, <1>5, <1>7 DEF ReaderInv
  <1>9. QED
    BY <1>1, <1>4, <1>8, SourceKept DEF TInv

\* The reader leaves at the end of a block; when the block says that it is the
\* last, all of the input is in the blocks up to it.
LEMMA WriteDoneStep == TInv /\ WriteDone => TInv'
  <1> SUFFICES ASSUME TInv, WriteDone
               PROVE  TInv'
    OBVIOUS
  <1>1. /\ UNCHANGED <<start, avail, srcVars, r_hdr, r_w, out>>
        /\ r_pc = "write" /\ r_pc' = IF r_hdr.eof THEN "exited" ELSE "header"
        /\ r_w = r_hdr.size /\ got' = got + r_hdr.size
    BY DEF WriteDone
  <1>2. PICK j \in 1 .. Sent :
          /\ InBlock(j)
          /\ got + r_hdr.size <= avail /\ r_w <= r_hdr.size
          /\ out = got + r_w - HeaderBytes * j
    BY <1>1 DEF TInv, ReaderInv
  <1>3. /\ avail \in Nat /\ got \in Nat /\ r_hdr.size \in Nat /\ r_w \in Nat
        /\ Sent \in Nat
    BY BlockTypes DEF TInv, TypeInv, Headers
  <1>4. TypeInv'
    BY <1>1, <1>3 DEF TInv, TypeInv, srcVars
  <1>5. Position(j)' = Position(j) /\ Sent' = Sent
    BY <1>1 DEF Position, Sent, SentEnd, End, srcVars
  <1>6. got' = Position(j) /\ out' = got' - HeaderBytes * j
    BY <1>1, <1>2, <1>3, Positions DEF InBlock
  <1>7. BeforeBlock(j)' /\ j \in 0 .. Sent'
    BY <1>3, <1>5, <1>6 DEF BeforeBlock
  <1>8. CASE ~ r_hdr.eof
    BY <1>1, <1>4, <1>7, <1>8, SourceKept DEF TInv, ReaderInv
  <1>9. CASE r_hdr.eof
    <2>1. j = Sent /\ s_read = input /\ s_pc \in {"send", "close", "exited"}
      BY <1>2, <1>9 DEF TInv, EofInv, InBlock
    <2>2. got' = SentEnd
      BY <1>3, <1>6, <2>1 DEF Position
    <2>3. s_read = SentEnd - HeaderBytes * Sent
      <3>1. HeaderBytes * Sent \in Nat
        BY <1>3, OneMore
      <3>2. QED
        BY <2>1, <3>1, Positions DEF TInv, InputInv
    <2>4. out' = s_read
      BY <1>6, <2>1, <2>2, <2>3
    <2>5. ReaderInv'
      BY <1>1, <1>9, <2>1, <2>4 DEF ReaderInv, srcVars
    <2>6. QED
      BY <1>1, <1>4, <2>5, SourceKept DEF TInv
  <1>10. QED
    BY <1>8, <1>9

LEMMA WriteFailsStep == TInv /\ WriteFails => TInv'
  <1> SUFFICES ASSUME TInv, WriteFails
               PROVE  TInv'
    OBVIOUS
  <1>1. /\ UNCHANGED <<start, avail, got, srcVars, r_hdr, r_w, out>>
        /\ r_pc' = "aborted"
    BY DEF WriteFails, deliverVars
  <1>2. TypeInv' /\ ReaderInv'
    BY <1>1 DEF TInv, TypeInv, ReaderInv, srcVars
  <1>3. QED
    BY <1>1, <1>2, SourceKept DEF TInv

-----------------------------------------------------------------------------
(* The theorems.                                                           *)

\* TInv holds in every state of every behaviour.
THEOREM TransportInvariant == TransportSpec => []TInv
  <1>1. TInv /\ [TransportNext]_transportVars => TInv'
    <2> SUFFICES ASSUME TInv, [TransportNext]_transportVars
                 PROVE  TInv'
      OBVIOUS
    <2>1. CASE Source \/ Exit \/ ReadFails
      BY <2>1, QuietStep, SendBlockStep, SendSegmentStep DEF Source
    <2>2. CASE \E s \in Segments : Streams(s)
      BY <2>2, StreamsStep
    <2>3. CASE Destination \/ WriteFails
      BY <2>3, TakeHeaderStep, WaitBlockStep, WriteSomeStep, WriteDoneStep, WriteFailsStep
         DEF Destination
    <2>4. CASE UNCHANGED transportVars
      <3>1. UNCHANGED <<start, avail, got, srcVars, dstVars>>
        BY <2>4 DEF transportVars, deliverVars
      <3>2. TypeInv' /\ ReaderInv'
        BY <3>1, ReaderKept DEF TInv, TypeInv, srcVars, dstVars
      <3>3. QED
        BY <3>1, <3>2, SourceKept DEF TInv
    <2>5. QED
      BY <2>1, <2>2, <2>3, <2>4 DEF TransportNext
  <1>2. QED
    BY <1>1, StartsWell, PTL DEF TransportSpec

\* Where recv_data waits for one byte and takes four (recv_data.cpp:18-26),
\* the four are there and are the header of a block.
THEOREM HeadersAreWhole == TransportSpec => []HeaderIsWhole
  <1>1. TInv => HeaderIsWhole
    <2> SUFFICES ASSUME TInv, r_pc = "header", avail > got
                 PROVE  avail >= got + HeaderBytes /\ \E k \in DOMAIN blocks : blocks[k].at = got
      BY DEF HeaderIsWhole
    <2>1. PICK j \in 0 .. Sent : BeforeBlock(j)
      BY DEF TInv, ReaderInv
    <2>2. TypeInv /\ Sent \in Nat /\ avail \in Nat /\ got \in Nat
      BY BlockTypes DEF TInv, TypeInv
    <2>3. j < Sent /\ j + 1 \in 1 .. Sent /\ got = blocks[j + 1].at
      BY <2>1, <2>2, Positions DEF BeforeBlock, Position
    <2>4. DOMAIN blocks = 1 .. Sent
      BY <2>2 DEF TypeInv, Sent
    <2>5. QED
      BY <2>3, <2>4, WholeHeader
  <1>2. QED
    BY <1>1, TransportInvariant, PTL

\* Each byte recv_data writes is the next of those send_data read
\* (recv_data.cpp:28-31), whatever the sizes of blocks and packets.
THEOREM OutputFollowsInput == TransportSpec => []OutputIsInput
  <1>1. TInv => OutputIsInput
    <2> SUFFICES ASSUME TInv, r_pc = "write", r_w < r_hdr.size
                 PROVE  /\ got + r_w < avail
                        /\ out = got + r_w
                             - HeaderBytes * Cardinality({k \in DOMAIN blocks : blocks[k].at < got})
      BY DEF OutputIsInput
    <2>1. PICK j \in 1 .. Sent :
            /\ InBlock(j)
            /\ got + r_hdr.size <= avail /\ r_w <= r_hdr.size
            /\ out = got + r_w - HeaderBytes * j
      BY DEF TInv, ReaderInv
    <2>2. /\ TypeInv /\ avail \in Nat /\ got \in Nat /\ r_hdr.size \in Nat /\ r_w \in Nat
          /\ Sent \in Nat /\ DOMAIN blocks = 1 .. Sent
          /\ \A k \in 1 .. Sent : blocks[k].at \in Nat
      <3>1. Sent \in Nat /\ DOMAIN blocks = 1 .. Sent
        BY DEF TInv, TypeInv, Sent
      <3>2. QED
        BY <3>1, BlockTypes DEF TInv, TypeInv, Headers
    <2>3. ASSUME NEW k \in 1 .. Sent
          PROVE  blocks[k].at < got <=> k <= j
      <3>1. got = blocks[j].at + HeaderBytes
        BY <2>1 DEF InBlock
      <3>2. CASE k < j
        BY <2>2, <3>1, <3>2, BlocksApart
      <3>3. CASE k = j
        BY <2>2, <3>1, <3>3
      <3>4. CASE j < k
        BY <2>2, <3>1, <3>4, BlocksApart
      <3>5. QED
        BY <2>2, <3>2, <3>3, <3>4
    <2>4. {k \in DOMAIN blocks : blocks[k].at < got} = 1 .. j
      BY <2>2, <2>3
    <2>5. Cardinality(1 .. j) = j
      BY <2>2, FS_Interval
    <2>6. Cardinality({k \in DOMAIN blocks : blocks[k].at < got}) = j
      BY <2>4, <2>5
    <2>7. got + r_w < avail
      BY <2>1, <2>2
    <2>8. QED
      BY <2>1, <2>6, <2>7
  <1>2. QED
    BY <1>1, TransportInvariant, PTL

\* recv_data ends with all of the input written (send_data.cpp:42).
THEOREM EndsAtTheEnd == TransportSpec => []EndIsTheEnd
  <1>1. TInv => EndIsTheEnd
    BY DEF TInv, ReaderInv, EndIsTheEnd
  <1>2. QED
    BY <1>1, TransportInvariant, PTL
=============================================================================
