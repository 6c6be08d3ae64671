------------------------------ MODULE Transport ------------------------------
(***************************************************************************)
(* send_data on one machine, recv_data on another: standard input is read  *)
(* in blocks, each is sent with a header that holds its size and whether   *)
(* it is the last, and written to standard output at the other end.        *)
(*                                                                         *)
(* The two streams are what their halves are shown to implement:           *)
(* ReliableSend, whose packets are transmitted and held until acked, and   *)
(* Delivery, which makes them readable in order.  Between them is a        *)
(* network that loses, repeats and reorders packets and acks.              *)
(***************************************************************************)
EXTENDS Integers, Sequences, FiniteSets

CONSTANTS
  Inputs,      \* how many bytes there are to copy
  BlockSize,   \* 128 KB in the code
  HeaderBytes, \* 4 in the code
  MTU          \* payload bytes of a packet

ASSUME FramingAssumption ==
  /\ Inputs \subseteq Nat
  /\ BlockSize \in Nat \ {0} /\ HeaderBytes \in Nat \ {0}
  /\ MTU \in Nat /\ MTU >= HeaderBytes

VARIABLES
  held, wire, acked,                      \* the sending half
  start, arrived, ackedTo, avail, got,    \* the receiving half
  input,    \* bytes on standard input
  s_pc,     \* of send_data
  s_read,   \* bytes read so far
  s_n,      \* bytes of the block read so far, total in full_read ()
  s_left,   \* bytesRemaining in send ()
  blocks,   \* the headers sent, and where in the stream they are (history)
  r_pc,     \* of recv_data
  r_hdr,    \* the header it works on
  r_w,      \* bytes of the block written, total in full_write ()
  out       \* bytes on standard output

S == INSTANCE ReliableSend WITH given <- Len(start) - 1
D == INSTANCE Delivery

sendVars == <<held, wire, acked>>
deliverVars == <<arrived, ackedTo, avail, got>>
srcVars  == <<input, s_pc, s_read, s_n, s_left, blocks>>
dstVars  == <<r_pc, r_hdr, r_w, out>>
transportVars == <<sendVars, start, deliverVars, srcVars, dstVars>>

Least(a, b) == IF a <= b THEN a ELSE b
Segments    == 1 .. Len(start) - 1
Runs(pc)    == pc \notin {"exited", "aborted"}

TransportInit ==
  /\ D!Init
  /\ S!Init
  /\ input \in Inputs
  /\ s_pc = "drain" /\ s_read = 0 /\ s_n = 0 /\ s_left = 0
  /\ blocks = << >>
  /\ r_pc = "header"
  /\ r_hdr = [at |-> 0, size |-> 0, eof |-> FALSE]
  /\ r_w = 0 /\ out = 0

-----------------------------------------------------------------------------
(* send_data.                                                              *)

\* bytesQueued () is 0 only when every packet was transmitted once.
Drained == Segments \subseteq wire

WaitDrained ==
  /\ s_pc = "drain"
  /\ Drained
  /\ s_pc' = "read"
  /\ s_n' = 0
  /\ UNCHANGED <<sendVars, start, deliverVars, dstVars, input, s_read, s_left, blocks>>

\* full_read: read () returns n bytes; interrupted calls are repeated.
ReadSome(n) ==
  /\ s_pc = "read"
  /\ n <= BlockSize - s_n /\ n <= input - s_read
  /\ s_n' = s_n + n
  /\ s_read' = s_read + n
  /\ UNCHANGED <<sendVars, start, deliverVars, dstVars, input, s_pc, s_left, blocks>>

\* Mutant of AtEof: a short read is taken for the end.
AtEofShort == s_n \in 1 .. BlockSize - 1

\* read () returns 0, which it is asked for only while the block has room.
AtEof == s_n < BlockSize /\ s_read = input

\* full_read is done: the block and its header go to send ().
SendBlock ==
  /\ s_pc = "read"
  /\ s_n = BlockSize \/ AtEof
  /\ s_pc' = "send"
  /\ s_left' = HeaderBytes + s_n
  /\ blocks' = Append(blocks, [at |-> start[Len(start)], size |-> s_n, eof |-> AtEof])
  /\ UNCHANGED <<sendVars, start, deliverVars, dstVars, input, s_read, s_n>>

\* Mutant of SegmentSize: the first packet of a message holds one byte.
SegmentSizeShort == IF s_left = HeaderBytes + s_n THEN 1 ELSE Least(s_left, MTU)

SegmentSize == Least(s_left, MTU)

\* send () cuts the message into packets; a message begins with a packet.
SendSegment ==
  /\ s_pc = "send"
  /\ s_left > 0
  /\ s_left' = s_left - SegmentSize
  /\ D!Cut(SegmentSize)
  /\ S!Give
  /\ UNCHANGED <<dstVars, input, s_pc, s_read, s_n, blocks>>

SendDone ==
  /\ s_pc = "send"
  /\ s_left = 0
  /\ s_pc' = IF blocks[Len(blocks)].eof THEN "close" ELSE "drain"
  /\ UNCHANGED <<sendVars, start, deliverVars, dstVars, input, s_read, s_n, s_left, blocks>>

\* The last wait, fclose, and the stream's destructor, which stops its threads.
Exit ==
  /\ s_pc = "close"
  /\ Drained
  /\ s_pc' = "exited"
  /\ UNCHANGED <<sendVars, start, deliverVars, dstVars, input, s_read, s_n, s_left, blocks>>

\* A failed read () ends the process.
ReadFails ==
  /\ s_pc = "read"
  /\ s_pc' = "aborted"
  /\ UNCHANGED <<sendVars, start, deliverVars, dstVars, input, s_read, s_n, s_left, blocks>>

Source == WaitDrained \/ (\E n \in 1 .. BlockSize : ReadSome(n))
            \/ SendBlock \/ SendSegment \/ SendDone

-----------------------------------------------------------------------------
(* The threads of the two streams and the network between them.            *)

Transmit(s) ==
  /\ Runs(s_pc)
  /\ UNCHANGED <<start, deliverVars, srcVars, dstVars>>
  /\ S!Transmit(s)

AckArrives(s) ==
  /\ Runs(s_pc)
  /\ s \in ackedTo
  /\ UNCHANGED <<start, deliverVars, srcVars, dstVars>>
  /\ S!Ack(s)

Settle(s) ==
  /\ Runs(s_pc)
  /\ UNCHANGED <<start, deliverVars, srcVars, dstVars>>
  /\ S!Settle(s)

Arrive(s) ==
  /\ Runs(r_pc)
  /\ s \in wire
  /\ D!Arrive(s)
  /\ UNCHANGED <<sendVars, srcVars, dstVars>>

Deliver(s) ==
  /\ Runs(r_pc)
  /\ D!Deliver(s)
  /\ UNCHANGED <<sendVars, srcVars, dstVars>>

SendAckOf(s) ==
  /\ Runs(r_pc)
  /\ D!SendAck(s)
  /\ UNCHANGED <<sendVars, srcVars, dstVars>>

Streams(s) ==
  Transmit(s) \/ AckArrives(s) \/ Settle(s) \/ Arrive(s) \/ Deliver(s) \/ SendAckOf(s)

-----------------------------------------------------------------------------
(* recv_data.                                                              *)

\* What the four bytes at position at of the stream hold: the header that is
\* there, or, when one is not there or not readable yet, anything.
HeaderAt(at) ==
  LET there == {k \in DOMAIN blocks : blocks[k].at = at /\ at + HeaderBytes <= avail}
  IN  IF there # {} THEN {blocks[k] : k \in there}
                    ELSE [at : {at}, size : 0 .. BlockSize, eof : BOOLEAN]

\* One readable byte is enough for the program to take the header.
TakeHeader ==
  /\ r_pc = "header"
  /\ avail > got
  /\ r_hdr' \in HeaderAt(got)
  /\ r_pc' = "block"
  /\ got' = got + HeaderBytes
  /\ UNCHANGED <<sendVars, start, arrived, ackedTo, avail, srcVars, r_w, out>>

\* Mutant of BlockIsReadable: the program waits for a byte only.
BlockIsReadableSoon == avail > got \/ r_hdr.size = 0

\* Mutant of BlockIsReadable: the program waits for more than the block.
BlockIsReadableLate == r_hdr.size < avail - got

BlockIsReadable == r_hdr.size <= avail - got

WaitBlock ==
  /\ r_pc = "block"
  /\ BlockIsReadable
  /\ r_pc' = "write"
  /\ r_w' = 0
  /\ UNCHANGED <<sendVars, start, deliverVars, srcVars, r_hdr, out>>

\* full_write: write () takes n bytes.
WriteSome(n) ==
  /\ r_pc = "write"
  /\ n <= r_hdr.size - r_w
  /\ r_w' = r_w + n
  /\ out' = out + n
  /\ UNCHANGED <<sendVars, start, deliverVars, srcVars, r_pc, r_hdr>>

WriteDone ==
  /\ r_pc = "write"
  /\ r_w = r_hdr.size
  /\ r_pc' = IF r_hdr.eof THEN "exited" ELSE "header"
  /\ got' = got + r_hdr.size
  /\ UNCHANGED <<sendVars, start, arrived, ackedTo, avail, srcVars, r_hdr, r_w, out>>

WriteFails ==
  /\ r_pc = "write"
  /\ r_w < r_hdr.size
  /\ r_pc' = "aborted"
  /\ UNCHANGED <<sendVars, start, deliverVars, srcVars, r_hdr, r_w, out>>

Destination == TakeHeader \/ WaitBlock \/ (\E n \in 1 .. BlockSize : WriteSome(n)) \/ WriteDone

TransportNext ==
  \/ Source \/ Exit \/ ReadFails
  \/ \E s \in Segments : Streams(s)
  \/ Destination \/ WriteFails

TransportSpec == TransportInit /\ [][TransportNext]_transportVars

\* Both programs and the threads of both streams go on as long as their
\* process exists.  The sending one exits as soon as everything was
\* transmitted once, and nothing is expected of the network.
Sending    == \E s \in held \ wire : Transmit(s)
Delivering == \E s \in Segments : Deliver(s)

TransportFairSpec ==
  /\ TransportSpec
  /\ WF_transportVars(Source \/ Exit) /\ WF_transportVars(Sending)
  /\ WF_transportVars(Destination) /\ WF_transportVars(Delivering)

-----------------------------------------------------------------------------
(* Properties.                                                             *)

\* Whenever one byte can be read where a header is expected, a whole header
\* is there (recv_data.cpp:18-26, which waits for one byte and takes four):
\* no packet ends within a header and none begins before it.
HeaderIsWhole ==
  r_pc = "header" /\ avail > got =>
    /\ avail >= got + HeaderBytes
    /\ \E k \in DOMAIN blocks : blocks[k].at = got

\* The byte written next is the next byte of the input: position got + r_w of
\* the stream is, headers apart, as far into the input as the output is.
OutputIsInput ==
  r_pc = "write" /\ r_w < r_hdr.size =>
    /\ got + r_w < avail
    /\ out = got + r_w - HeaderBytes * Cardinality({k \in DOMAIN blocks : blocks[k].at < got})

\* recv_data ends when it has written all of the input and not before
\* (send_data.cpp:42, "so it can gracefully shut down after receiving all
\* packets").
EndIsTheEnd == r_pc = "exited" => out = input /\ s_read = input

\* Where block k ends in the stream; all packets up to there have arrived.
EndOf(k) == blocks[k].at + HeaderBytes + blocks[k].size
HasArrived(k) ==
  /\ k \in DOMAIN blocks /\ EndOf(k) <= start[Len(start)]
  /\ \A s \in Segments : start[s] < EndOf(k) => s \in arrived

\* The first k blocks are on standard output; the last ends the program.
IsWritten(k) ==
  /\ k \in DOMAIN blocks /\ out >= EndOf(k) - k * HeaderBytes
  /\ blocks[k].eof => r_pc = "exited"

\* A sender that has sent something ends, whatever is lost: its queue drains
\* without a single ack.  And a block is written as soon as its own packets
\* and those before it have arrived, however they were ordered and repeated,
\* whether or not the sender still exists: recv_data.cpp:18 and :27 wait for
\* no byte beyond it.
MaxBlocks        == 2   \* bound of the quantifier: no instance has more
SenderEnds       == Segments # {} ~> ~Runs(s_pc)
ArrivedIsWritten == \A k \in 1 .. MaxBlocks : HasArrived(k) ~> r_pc = "aborted" \/ IsWritten(k)
NobodyWaits      == SenderEnds /\ ArrivedIsWritten
=============================================================================
