---------------------------- MODULE MCRateControl ----------------------------
(* An instance for TLC of what the pace of the sender rests on: TokenBucket, *)
(* RollingStats and Limiter.  They share no state in this commit: a behaviour *)
(* runs one of them while the others stay as they were made.                 *)
EXTENDS TokenBucket, RollingStats, Limiter

VARIABLE part   \* which of them runs

MCSizes == {1, 2, 4}
MCRates == {2, 3, 5}

MCWindows == {2, 3, 4}
MCValues  == {0, 12, 24, 60}

MCDelays  == {2}
MCGarbage == {-3}   \* taken for the clocks' difference, it is negative

\* The limiter with a longer table than MaxSeq packets need, whose delays
\* rise and fall; that of the module reuses its entries.
Judging == INSTANCE Limiter WITH MaxSeq <- 3, Wnd <- 1, Delays <- {1, 2, 4}

MCInit ==
  /\ Init /\ StatsInit /\ LimiterInit
  /\ part \in {"bucket", "stats", "limiter", "judging"}
  /\ part # "limiter" => updateBandwidth
  /\ part # "bucket" => \A r \in Rates : rate <= r

MCNext ==
  \/ part = "bucket" /\ Next /\ UNCHANGED <<part, statsVars, limiterVars>>
  \/ part = "stats" /\ StatsNext /\ UNCHANGED <<part, vars, limiterVars>>
  \/ part = "limiter" /\ LimiterNext /\ UNCHANGED <<part, vars, statsVars>>
  \/ part = "judging" /\ Judging!LimiterNext /\ UNCHANGED <<part, vars, statsVars>>

MCSpec == MCInit /\ [][MCNext]_<<part, vars, statsVars, limiterVars>>
=============================================================================
