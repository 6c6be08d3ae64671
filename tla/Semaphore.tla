------------------------------ MODULE Semaphore ------------------------------
(***************************************************************************)
(* What the callers of a LightweightSemaphore rely on: a counter.  A wait  *)
(* takes one of it, or times out when what is there is not enough for all  *)
(* who wait; with a single waiter that is when there is nothing.           *)
(***************************************************************************)
EXTENDS Integers, FiniteSets

CONSTANTS Waiters   \* threads that call wait (timeout)

VARIABLES
  count,     \* signals not taken
  waiting,   \* the threads inside wait ()
  result     \* what each thread's last wait () returned

semVars == <<count, waiting, result>>

Init ==
  /\ count = 0
  /\ waiting = {}
  /\ result = [w \in Waiters |-> FALSE]

Signal ==
  /\ count' = count + 1
  /\ UNCHANGED <<waiting, result>>

Call(w) ==
  /\ w \notin waiting
  /\ waiting' = waiting \cup {w}
  /\ UNCHANGED <<count, result>>

Take(w) ==
  /\ w \in waiting
  /\ count > 0
  /\ count' = count - 1
  /\ waiting' = waiting \ {w}
  /\ result' = [result EXCEPT ![w] = TRUE]

TimeOut(w) ==
  /\ w \in waiting
  /\ count < Cardinality(waiting)
  /\ waiting' = waiting \ {w}
  /\ result' = [result EXCEPT ![w] = FALSE]
  /\ UNCHANGED count

Next == Signal \/ \E w \in Waiters : Call(w) \/ Take(w) \/ TimeOut(w)

Spec == Init /\ [][Next]_semVars
=============================================================================
