------------------------- MODULE MCRecvPathUnpaced -------------------------
(* An instance of RecvPath for TLC with a peer that does not keep to        *)
(* PeerAssumption.                                                          *)
EXTENDS RecvPath

\* Four packets, of 1, 2, 3 and 1 bytes.
MCStart == <<0, 1, 3, 6, 7>>
=============================================================================
