---------------------------- MODULE ReliableSend ----------------------------
(***************************************************************************)
(* What the sending half of a UDPStream promises, without rings, threads   *)
(* or time stamps: a set of segments, each of which may be transmitted as  *)
(* long as it is held and is held until the peer has acked it.             *)
(***************************************************************************)
EXTENDS Integers

VARIABLES
  given,   \* segments given to send () so far: 1 .. given
  held,    \* segments that may still be transmitted
  wire,    \* segments ever transmitted
  acked    \* segments the peer has acked

relVars == <<given, held, wire, acked>>

Init ==
  /\ given = 0
  /\ held = {}
  /\ wire = {}
  /\ acked = {}

\* The caller hands over the next segment.
Give ==
  /\ given' = given + 1
  /\ held' = held \cup {given'}
  /\ UNCHANGED <<wire, acked>>

Transmit(s) ==
  /\ s \in held
  /\ wire' = wire \cup {s}
  /\ UNCHANGED <<given, held, acked>>

Ack(s) ==
  /\ s \in wire
  /\ acked' = acked \cup {s}
  /\ UNCHANGED <<given, held, wire>>

\* Only a segment the peer has is let go, and it never comes back.
Settle(s) ==
  /\ s \in held \cap acked
  /\ held' = held \ {s}
  /\ UNCHANGED <<given, wire, acked>>

Next ==
  \/ Give
  \/ \E s \in held : Transmit(s) \/ Settle(s)
  \/ \E s \in wire : Ack(s)

Spec == Init /\ [][Next]_relVars
=============================================================================
