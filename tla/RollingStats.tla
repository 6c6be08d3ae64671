---------------------------- MODULE RollingStats ----------------------------
(***************************************************************************)
(* RollingStats.cpp: mean, variance and extremes of the latest m_size      *)
(* samples.  UDPStream::rtt is one, fed with the round-trip time of every  *)
(* acked packet; the retransmission timeout comes from its mean and        *)
(* deviation.                                                              *)
(*                                                                         *)
(* Arithmetic.  The code computes with doubles; its samples are whole      *)
(* microseconds, so that m_total is exact.  Here the samples are multiples *)
(* of every number up to the window (ExactAssumption): then every division *)
(* is exact and all results are integers.  m_count stays below the width   *)
(* of an int.                                                              *)
(***************************************************************************)
EXTENDS Integers, Sequences, Bags, FiniteSetsExt

CONSTANTS
  Windows,     \* window sizes, 64 in UDPStream and 4 in tester.cpp
  Values,      \* samples
  MaxSamples   \* bound: samples taken

\* What is assumed of the constants.
ASSUME StatsAssumption ==
  Windows \subseteq Nat \ {0, 1} /\ Values \subseteq Nat /\ MaxSamples \in Nat

\* The divisions are exact: 12 suffices for windows of 2, 3 and 4.
ASSUME ExactAssumption ==
  \A v \in Values, n \in Windows : \A k \in 1 .. n : v % k = 0

VARIABLES
  m_head,      \* index of the latest sample
  m_count,     \* samples since size (n)
  m_size,      \* the window, 0 before size (n)
  m_total,     \* sum of the window
  m_mean,
  m_variance,
  m_min,       \* extremes since size (n)
  m_max,
  m_buf,       \* the ring
  m_set,       \* the multiset of the samples in the window
  seen         \* all samples since size (n), oldest first (history)

statsVars == <<m_head, m_count, m_size, m_total, m_mean, m_variance, m_min, m_max,
          m_buf, m_set, seen>>

\* m_min and m_max are first assigned by size (n).
StatsInit ==
  /\ m_head = 0 /\ m_count = 0 /\ m_size = 0
  /\ m_total = 0 /\ m_mean = 0 /\ m_variance = 0
  /\ m_min = 0 /\ m_max = 0
  /\ m_buf = << >>
  /\ m_set = EmptyBag
  /\ seen = << >>

Lesser(a, b)  == IF a <= b THEN a ELSE b
Greater(a, b) == IF a >= b THEN a ELSE b

\* size (n), called once, before the first sample.
SetSize(n) ==
  /\ m_size = 0
  /\ m_size' = n
  /\ m_count' = 0 /\ m_head' = 0 /\ m_min' = 0 /\ m_max' = 0
  /\ m_set' = EmptyBag
  /\ m_buf' = [i \in 0 .. n - 1 |-> 0]
  /\ UNCHANGED <<m_total, m_mean, m_variance, seen>>

NextHead == IF m_head = m_size - 1 THEN 0 ELSE m_head + 1

\* Mutant of Full: the window is found full one sample late.
FullLate == m_count > m_size

\* m_count++ >= m_size
Full == m_count >= m_size

\* at (t), the sample t places before the latest.
At(buf, head, t) == buf[(head - t) % m_size]

\* The one-pass mean and sum of squared deviations of n samples x[0], x[1] ...
PassMean(x, n) ==
  LET m[k \in 0 .. n] == IF k = 0 THEN 0 ELSE m[k - 1] + (x[k - 1] - m[k - 1]) \div k
  IN  m

\* Mutant of PassSquares: both factors take the new mean.
PassSquaresNew(x, n) ==
  LET m == PassMean(x, n)
      s[k \in 0 .. n] == IF k = 0 THEN 0
                         ELSE s[k - 1] + (x[k - 1] - m[k]) * (x[k - 1] - m[k])
  IN  s[n]

PassSquares(x, n) ==
  LET m == PassMean(x, n)
      s[k \in 0 .. n] == IF k = 0 THEN 0
                         ELSE s[k - 1] + (x[k - 1] - m[k]) * (x[k - 1] - m[k - 1])
  IN  s[n]

\* operator () (val)
Sample(val) ==
  /\ m_size > 0
  /\ m_count < MaxSamples
  /\ m_head' = NextHead
  /\ m_count' = m_count + 1
  /\ LET oldval == m_buf[NextHead]
         kept   == IF Full THEN m_set (-) SetToBag({oldval}) ELSE m_set
         rest   == IF Full THEN m_total - oldval ELSE m_total
         wsize  == Lesser(m_count + 1, m_size)
         buf    == [m_buf EXCEPT ![NextHead] = val]
         window == [k \in 0 .. wsize - 1 |-> At(buf, NextHead, k)]
     IN  /\ m_set' = kept (+) SetToBag({val})
         /\ m_total' = rest + val
         /\ m_mean' = m_total' \div wsize
         /\ m_buf' = buf
         /\ m_variance' = IF wsize > 1 THEN PassSquares(window, wsize) \div (wsize - 1)
                                       ELSE m_variance
         /\ m_min' = IF wsize > 1 THEN Lesser(m_min, val) ELSE val
         /\ m_max' = IF wsize > 1 THEN Greater(m_max, val) ELSE val
  /\ seen' = Append(seen, val)
  /\ UNCHANGED m_size

StatsNext ==
  \/ \E n \in Windows : SetSize(n)
  \/ \E val \in Values : Sample(val)

StatsSpec == StatsInit /\ [][StatsNext]_statsVars

-----------------------------------------------------------------------------
(* Properties.                                                             *)

\* The window: where in seen the latest samples are, as many as it holds.
Count   == Lesser(Len(seen), m_size)
Window  == Len(seen) - Count + 1 .. Len(seen)
\* The multiset of the values of f over S.
HowOften(f, S) == [v \in {f[i] : i \in S} |-> Cardinality({i \in S : f[i] = v})]
Squares == [i \in Window |-> seen[i] * seen[i]]

\* The incremental sum and the multiset are those of the window: what is
\* subtracted and erased is what was once added (RollingStats.cpp:23-31).
\* The code erases an iterator that must not be end ().
WindowIsLatest ==
  /\ m_total = SumFunctionOnSet(seen, Window)
  /\ m_set = HowOften(seen, Window)

\* The one-pass variance is the unbiased variance of the window, and the
\* mean is its mean, with every division exact (RollingStats.cpp:32-47).
MomentsAreExact ==
  Count > 1 =>
    /\ m_mean * Count = SumFunctionOnSet(seen, Window)
    /\ m_variance * Count * (Count - 1) =
         Count * SumFunctionOnSet(Squares, Window)
         - SumFunctionOnSet(seen, Window) * SumFunctionOnSet(seen, Window)
=============================================================================
