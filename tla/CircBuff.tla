------------------------------ MODULE CircBuff ------------------------------
(***************************************************************************)
(* The byte ring of CircBuff.cpp, between one writer and one reader.       *)
(*                                                                         *)
(* A byte is the position it has in the stream the peer sends; NoByte is   *)
(* a byte never written.  The second mapping of the same pages behind the  *)
(* first makes a copy that runs past the end continue at the start: that   *)
(* is At.  The mask of used () is a remainder because the capacity is a    *)
(* power of two (a page times 1024).  The compare-and-swap loops of the    *)
(* advances never lose, each index having one thread that moves it.        *)
(***************************************************************************)
EXTENDS Integers

CONSTANTS Capacity   \* bytes of the ring, m_capacity

ASSUME CapacityAssumption == Capacity \in Nat /\ Capacity >= 1

VARIABLES
  m_base,   \* the bytes
  m_widx,   \* index the writer writes to
  m_ridx    \* index the reader reads from

cbVars == <<m_base, m_widx, m_ridx>>

Indices == 0 .. Capacity - 1
NoByte  == -1

\* The index k bytes after index i, for k up to Capacity.
At(i, k) == IF i + k >= Capacity THEN i + k - Capacity ELSE i + k

CBInit ==
  /\ m_base = [i \in Indices |-> NoByte]
  /\ m_widx = 0
  /\ m_ridx = 0

CBTypeOK ==
  /\ m_base \in [Indices -> Int]
  /\ m_widx \in Indices
  /\ m_ridx \in Indices

(* used (): a ring with Capacity bytes in it cannot be told from an empty  *)
(* one, and reads as empty.                                                *)
Used == IF m_widx >= m_ridx THEN m_widx - m_ridx ELSE m_widx + Capacity - m_ridx

\* Steps from the write index forward to index i.
Ahead(i) == IF i >= m_widx THEN i - m_widx ELSE i + Capacity - m_widx

(* memcpy (wptr (), ...) of n bytes, the first of which is byte b of the   *)
(* stream.  Nothing compares n with free ().                               *)
Write(b, n) ==
  /\ m_base' = [i \in Indices |-> IF Ahead(i) < n THEN b + Ahead(i) ELSE m_base[i]]
  /\ UNCHANGED <<m_widx, m_ridx>>

(* wptrAdvance (n): the bytes written become readable.                     *)
WptrAdvance(n) ==
  /\ m_widx' = At(m_widx, n)
  /\ UNCHANGED <<m_base, m_ridx>>

(* The n bytes at rptr ().                                                 *)
ReadBytes(n) == [k \in 0 .. n - 1 |-> m_base[At(m_ridx, k)]]

(* rptrAdvance (n): the bytes may be overwritten.                          *)
RptrAdvance(n) ==
  /\ m_ridx' = At(m_ridx, n)
  /\ UNCHANGED <<m_base, m_widx>>
=============================================================================
