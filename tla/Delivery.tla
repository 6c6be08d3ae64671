------------------------------ MODULE Delivery ------------------------------
(***************************************************************************)
(* What the receiving half of a UDPStream promises, without rings, maps or *)
(* threads: packets that arrived are kept and may be acked; the stream     *)
(* becomes readable packet by packet, in order, as soon as none is missing *)
(* before.  Packet s holds the bytes start[s] .. start[s + 1] - 1 of the   *)
(* stream.                                                                 *)
(***************************************************************************)
EXTENDS Integers, Sequences

VARIABLES
  start,     \* where the packets cut so far begin, and where the next will
  arrived,   \* packets received
  ackedTo,   \* packets an ack was sent for
  avail,     \* bytes that have become readable
  got        \* bytes the application is done with

delVars == <<start, arrived, ackedTo, avail, got>>

Init ==
  /\ start = <<0>>
  /\ arrived = {}
  /\ ackedTo = {}
  /\ avail = 0
  /\ got = 0

Cut(n) ==
  /\ start' = Append(start, start[Len(start)] + n)
  /\ UNCHANGED <<arrived, ackedTo, avail, got>>

Arrive(s) ==
  /\ arrived' = arrived \cup {s}
  /\ UNCHANGED <<start, ackedTo, avail, got>>

\* The packet that begins where the readable bytes end becomes readable.
Deliver(s) ==
  /\ s \in arrived
  /\ avail = start[s]
  /\ avail' = start[s + 1]
  /\ UNCHANGED <<start, arrived, ackedTo, got>>

SendAck(s) ==
  /\ s \in arrived
  /\ ackedTo' = ackedTo \cup {s}
  /\ UNCHANGED <<start, arrived, avail, got>>

Read(n) ==
  /\ n <= avail - got
  /\ got' = got + n
  /\ UNCHANGED <<start, arrived, ackedTo, avail>>

Next ==
  \/ /\ Len(start') = Len(start) + 1
     /\ Cut(start'[Len(start) + 1] - start[Len(start)])
  \/ \E s \in 1 .. Len(start) - 1 : Arrive(s) \/ Deliver(s) \/ SendAck(s)
  \/ got' > got /\ Read(got' - got)

Spec == Init /\ [][Next]_delVars
=============================================================================
