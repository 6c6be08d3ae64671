----------------------------- MODULE MCSendPath -----------------------------
(* An instance of SendPath for TLC whose caller leaves the ring room; IInv   *)
(* is at hand to be checked.                                                *)
EXTENDS SendPathProofs

\* One packet at a time, of one byte or two, for longer: the ring of Size
\* slots is gone round.
Long == INSTANCE SendPath WITH
  MTU <- 2, MaxWindow <- 1, MaxSend <- 1, MaxSeq <- 4, MaxClock <- 5

ASSUME Long!BoundsAssumption /\ Long!MTUAssumption

VARIABLE part   \* which of the two this is

BothInit == Init /\ part \in {"wide", "long"}

BothNext ==
  \/ part = "wide" /\ PacedNext /\ UNCHANGED part
  \/ part = "long" /\ Long!PacedNext /\ UNCHANGED part

BothSpec == BothInit /\ [][BothNext]_<<vars, part>>
=============================================================================
