----------------------------- MODULE MCProgress -----------------------------
(* Instances for TLC of the parts that wait for one another and have to get  *)
(* on: LightweightSemaphore, on which the sender waits while the caller and  *)
(* the receiver signal; ReaderWriterQueue, whose ring grows from one block   *)
(* of two slots ("queue") or is made of five such blocks ("blocks");         *)
(* RecvPath, with a peer that keeps to PeerAssumption; and Transport.  They  *)
(* share nothing, and a behaviour runs one of them while the others stay as  *)
(* they were made.                                                           *)
EXTENDS WaitingProofs, RecvPathProofs, Transport

CONSTANTS sender, app, receiver

MCWaiters    == {sender}
MCSignallers == {app, receiver}

\* Packets of 1, 2, 3 and 3 bytes.
MCStart == <<0, 1, 3, 6, 9>>

Ring == INSTANCE ReaderWriterQueue WITH MAX_BLOCK_SIZE <- 2, Sizes <- {4}

VARIABLE part   \* which of them this is

all == <<part, semaphoreVars, queueVars, vars, transportVars>>

MCInit ==
  /\ part \in {"semaphore", "queue", "blocks", "receiving", "transport"}
  /\ IF part = "blocks" THEN Ring!QueueInit ELSE QueueInit
  /\ SemaphoreInit /\ Init /\ TransportInit
  /\ part # "transport" => input = 0

In(p, action) ==
  /\ part = p /\ action
  /\ p # "semaphore" => UNCHANGED semaphoreVars
  /\ p \notin {"queue", "blocks"} => UNCHANGED queueVars
  /\ p # "receiving" => UNCHANGED vars
  /\ p # "transport" => UNCHANGED transportVars
  /\ UNCHANGED part

MCNext ==
  \/ In("semaphore", SemaphoreNext)
  \/ In("queue", QueueNext)
  \/ In("blocks", Ring!QueueNext)
  \/ In("receiving", Next)
  \/ In("transport", TransportNext)

\* What SemaphoreFairSpec, QueueFairSpec, FairSpec and TransportFairSpec say.
\* A behaviour has actions of one part only, so that fairness of a disjunction
\* of actions of different parts is fairness of each.
MCFairSpec ==
  /\ MCInit /\ [][MCNext]_all
  /\ WF_all(In("semaphore", Waiter(sender)) \/ In("queue", Producing)
              \/ In("blocks", Ring!Producing) \/ In("receiving", Handle)
              \/ In("transport", Source \/ Exit))
  /\ WF_all(In("semaphore", Post(app)) \/ In("queue", Consuming)
              \/ In("blocks", Ring!Consuming) \/ In("receiving", Reader)
              \/ In("transport", Destination))
  /\ WF_all(In("semaphore", Post(receiver)) \/ In("receiving", PeerSends)
              \/ In("transport", Delivering))
  /\ WF_all(In("transport", Sending))
  /\ \A s \in Packets : SF_all(In("receiving", s \in 1 .. sent \ acks /\ RecvData(s)))
=============================================================================
