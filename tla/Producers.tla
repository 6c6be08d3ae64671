------------------------------ MODULE Producers ------------------------------
(***************************************************************************)
(* How the threads of a ConcurrentQueue come by their producers: through a *)
(* ProducerToken, whose producer is left to the next token when the token  *)
(* is destroyed, or through the table from thread ids to producers that is *)
(* replaced by larger ones while other threads still use it.               *)
(*                                                                         *)
(* One action for each atomic access.  The thread-local cleanup is not in  *)
(* this build (MOODYCAMEL_CPP11_THREAD_LOCAL_SUPPORTED is not defined): the *)
(* producer of a thread stays in the table.                                *)
(***************************************************************************)
EXTENDS Integers, Sequences, FiniteSets

CONSTANTS
  WithToken, WithoutToken,   \* the threads that use a token; and that do not
  HashSize,    \* INITIAL_IMPLICIT_PRODUCER_HASH_SIZE
  MaxHash,     \* bound: hashes of thread ids
  MaxMade,     \* bound: producers created
  invalid_thread_id   \* a model value: no thread

NoProducer == 0

Callers == WithToken \cup WithoutToken

\* What is assumed of the constants.
ASSUME ProducersAssumption ==
  /\ \E k \in 0..HashSize : HashSize = 2^k
  /\ HashSize \in Nat \ {0} /\ MaxHash \in Nat /\ MaxMade \in Nat
  /\ IsFiniteSet(Callers) /\ invalid_thread_id \notin Callers
  \* Powers of two as far as capacities are doubled: a fact of arithmetic.
  /\ \A k \in 1 .. Cardinality(Callers) + 1 : 2^k \in Nat /\ 2^k >= 2 * k

VARIABLES
  producer,    \* the list of producers, its tail last
  producerCount, implicitProducerHashCount,
  implicitProducerHashResizeInProgress,
  table,       \* the hash tables made so far; the last is implicitProducerHash
  hashOf,      \* hash_thread_id
  caller,      \* where each thread is
  mine, token  \* the producer each thread found first (history), and its token's

hashVars == <<implicitProducerHashCount, implicitProducerHashResizeInProgress, table, hashOf>>
listVars == <<producer, producerCount>>
producersVars == <<hashVars, listVars, caller, mine, token>>

Table(n) == [capacity |-> n, key |-> [i \in 0..n - 1 |-> invalid_thread_id],
             value |-> [i \in 0..n - 1 |-> NoProducer]]

\* main: the table taken for the current one; at, i: the one probed and where;
\* count: the newCount of an insertion; p: a producer; explicit: wanted for a token.
Away == [pc |-> "idle", main |-> 0, at |-> 0, i |-> 0, count |-> 0, p |-> NoProducer,
         explicit |-> FALSE]

ProducersInit ==
  /\ producer = <<>> /\ producerCount = 0
  /\ implicitProducerHashCount = 0 /\ implicitProducerHashResizeInProgress = FALSE
  /\ table = <<Table(HashSize)>> /\ hashOf \in [Callers -> 0..MaxHash]
  /\ caller = [t \in Callers |-> Away]
  /\ mine = [t \in Callers |-> NoProducer] /\ token = [t \in Callers |-> NoProducer]

Steps(t, from, next) == caller[t].pc = from /\ caller' = [caller EXCEPT ![t] = next]
Now(t, pc) == [caller[t] EXCEPT !.pc = pc]

-----------------------------------------------------------------------------
(* recycle_or_create_producer and add_producer.                            *)

\* Mutant of Catch: the producer is taken without compare_exchange.
CatchBlindly(t) ==
  /\ Steps(t, "catch", Now(t, "caught"))
  /\ producer' = [producer EXCEPT ![caller[t].p].inactive = FALSE]
  /\ UNCHANGED <<hashVars, producerCount, mine, token>>

\* compare_exchange on inactive.
Catch(t) ==
  LET ok == producer[caller[t].p].inactive
  IN /\ Steps(t, "catch", IF ok THEN Now(t, "caught") ELSE [Now(t, "walk") EXCEPT !.p = @ - 1])
     /\ producer' = IF ok THEN [producer EXCEPT ![caller[t].p].inactive = FALSE] ELSE producer
     /\ UNCHANGED <<hashVars, producerCount, mine, token>>

\* The list is walked for an inactive producer of the kind.
Walk(t) ==
  LET p == caller[t].p
  IN /\ Steps(t, "walk", IF p = NoProducer THEN Now(t, "create")
                        ELSE IF producer[p].inactive /\ producer[p].explicit = caller[t].explicit
                        THEN Now(t, "catch") ELSE [caller[t] EXCEPT !.p = p - 1])
     /\ UNCHANGED <<hashVars, listVars, mine, token>>

\* The new producer is counted, and then linked in.
MakeProducer(t) ==
  /\ producerCount < MaxMade
  /\ Steps(t, "create", Now(t, "push"))
  /\ producerCount' = producerCount + 1
  /\ UNCHANGED <<hashVars, producer, mine, token>>

\* There was no memory: the implicit producer is not counted any more.
MakeFails(t) ==
  /\ Steps(t, "create", Away)
  /\ implicitProducerHashCount' = implicitProducerHashCount - (IF caller[t].explicit THEN 0 ELSE 1)
  /\ UNCHANGED <<implicitProducerHashResizeInProgress, table, hashOf, listVars, mine, token>>

LinkProducer(t) ==
  /\ Steps(t, "push", [Now(t, IF caller[t].explicit THEN "caught" ELSE "insert")
                        EXCEPT !.p = Len(producer) + 1])
  /\ producer' = Append(producer, [explicit |-> caller[t].explicit, inactive |-> FALSE, token |-> NoProducer])
  /\ UNCHANGED <<hashVars, producerCount, mine, token>>

-----------------------------------------------------------------------------
(* ProducerToken.                                                          *)

Token(t) ==
  /\ t \in WithToken /\ token[t] = NoProducer
  /\ Steps(t, "idle", [Away EXCEPT !.pc = "walk", !.p = Len(producer), !.explicit = TRUE])
  /\ UNCHANGED <<hashVars, listVars, mine, token>>

TokenMade(t) ==
  /\ Steps(t, "caught", Away)
  /\ token' = [token EXCEPT ![t] = caller[t].p]
  /\ producer' = [producer EXCEPT ![caller[t].p].token = t]
  /\ UNCHANGED <<hashVars, producerCount, mine>>

\* The destructor: the producer forgets its token, and then
Unlink(t) ==
  /\ token[t] # NoProducer /\ Steps(t, "idle", Now(t, "leave"))
  /\ producer' = [producer EXCEPT ![token[t]].token = NoProducer]
  /\ UNCHANGED <<hashVars, producerCount, mine, token>>

\* it can be used by another one.
Leave(t) ==
  /\ Steps(t, "leave", Away)
  /\ producer' = [producer EXCEPT ![token[t]].inactive = TRUE]
  /\ token' = [token EXCEPT ![t] = NoProducer]
  /\ UNCHANGED <<hashVars, producerCount, mine>>

-----------------------------------------------------------------------------
(* get_or_add_implicit_producer.                                           *)

Probe(t, at) == [Now(t, "probe") EXCEPT !.at = at, !.i = hashOf[t] % table[at].capacity]
NextSlot(t, at) == [caller[t] EXCEPT !.i = (@ + 1) % table[at].capacity]

Lookup(t) ==
  /\ t \in WithoutToken
  /\ Steps(t, "idle", [Probe(t, Len(table)) EXCEPT !.main = Len(table)])
  /\ UNCHANGED <<hashVars, listVars, mine, token>>

\* The tables are searched, the current one first.
ProbeKey(t) ==
  LET at  == caller[t].at
      key == table[at].key[caller[t].i]
  IN /\ Steps(t, "probe",
          CASE key = t -> [Now(t, "found") EXCEPT !.p = table[at].value[caller[t].i]]
            [] key = invalid_thread_id /\ at > 1 -> Probe(t, at - 1)
            [] key = invalid_thread_id /\ at = 1 -> Now(t, "count")
            [] OTHER -> NextSlot(t, at))
     /\ UNCHANGED <<hashVars, listVars, mine, token>>

\* Found: in an old table, it is put in the current one too.
Found(t) ==
  /\ Steps(t, "found", IF caller[t].at = caller[t].main THEN Away
                      ELSE [Probe(t, caller[t].main) EXCEPT !.pc = "insert"])
  /\ mine' = [mine EXCEPT ![t] = IF @ = NoProducer THEN caller[t].p ELSE @]
  /\ UNCHANGED <<hashVars, listVars, token>>

Count(t) ==
  /\ Steps(t, "count", [Now(t, "size") EXCEPT !.count = implicitProducerHashCount + 1])
  /\ implicitProducerHashCount' = implicitProducerHashCount + 1
  /\ UNCHANGED <<implicitProducerHashResizeInProgress, table, hashOf, listVars, mine, token>>

Capacity(t) == table[caller[t].main].capacity

\* Half full: the table is to grow, unless another thread is at it.
Size(t) ==
  LET grow == caller[t].count >= Capacity(t) \div 2 /\ ~implicitProducerHashResizeInProgress
  IN /\ Steps(t, "size", IF grow THEN [Now(t, "grow") EXCEPT !.main = Len(table)] ELSE Now(t, "fits"))
     /\ implicitProducerHashResizeInProgress' = (implicitProducerHashResizeInProgress \/ grow)
     /\ UNCHANGED <<implicitProducerHashCount, table, hashOf, listVars, mine, token>>

\* Twice the size, or as often as it takes to be less than half full.
NewCapacity(t) ==
  CHOOSE c \in {Capacity(t) * 2^k : k \in 1 .. caller[t].count + 1} :
    /\ caller[t].count < c \div 2
    /\ \A b \in {Capacity(t) * 2^k : k \in 1 .. caller[t].count + 1} : caller[t].count < b \div 2 => c <= b

Grow(t) ==
  /\ caller[t].pc = "grow" /\ caller[t].count >= Capacity(t) \div 2
  /\ table' = Append(table, Table(NewCapacity(t)))
  /\ Steps(t, "grow", [Now(t, "clear") EXCEPT !.main = Len(table')])
  /\ UNCHANGED <<implicitProducerHashCount, implicitProducerHashResizeInProgress, hashOf, listVars, mine, token>>

GrowNot(t) ==
  /\ caller[t].pc = "grow" /\ caller[t].count < Capacity(t) \div 2
  /\ Steps(t, "grow", Now(t, "clear"))
  /\ UNCHANGED <<hashVars, listVars, mine, token>>

\* No memory for a table: the call fails.
GrowFails(t) ==
  /\ caller[t].pc = "grow" /\ caller[t].count >= Capacity(t) \div 2
  /\ Steps(t, "grow", [Away EXCEPT !.pc = "clear"])
  /\ implicitProducerHashCount' = implicitProducerHashCount - 1
  /\ UNCHANGED <<implicitProducerHashResizeInProgress, table, hashOf, listVars, mine, token>>

Clear(t) ==
  /\ Steps(t, "clear", IF caller[t].main = 0 THEN Away ELSE Now(t, "fits"))
  /\ implicitProducerHashResizeInProgress' = FALSE
  /\ UNCHANGED <<implicitProducerHashCount, table, hashOf, listVars, mine, token>>

\* Mutant of FewEnough: a table may be filled to the last slot and beyond.
AnyNumber(t) == TRUE

\* Less than three quarters full.
FewEnough(t) == caller[t].count < Capacity(t) \div 2 + Capacity(t) \div 4

\* The thread's producer goes into this table, or the next table is waited for.
Fits(t) ==
  /\ Steps(t, "fits", IF FewEnough(t) THEN [Now(t, "walk") EXCEPT !.p = Len(producer)]
                     ELSE [Now(t, "size") EXCEPT !.main = Len(table)])
  /\ UNCHANGED <<hashVars, listVars, mine, token>>

\* Where an insertion starts: the hash's slot of the current table.
Start(t) == [caller[t] EXCEPT !.pc = "slot", !.i = hashOf[t] % Capacity(t)]

Insert(t) ==
  /\ Steps(t, "insert", Start(t))
  /\ UNCHANGED <<hashVars, listVars, mine, token>>

\* A table with a thread's producer in one more slot.
WithKey(b, i, t, p) == [capacity |-> b.capacity, key |-> [b.key EXCEPT ![i] = t],
                        value |-> [b.value EXCEPT ![i] = p]]

\* compare_exchange on the key of a free slot; else the next one.
Slot(t) ==
  LET i    == caller[t].i
      free == table[caller[t].main].key[i] = invalid_thread_id
  IN /\ Steps(t, "slot", IF free THEN Away ELSE NextSlot(t, caller[t].main))
     /\ IF free
        THEN /\ table' = [table EXCEPT ![caller[t].main] = WithKey(@, i, t, caller[t].p)]
             /\ mine' = [mine EXCEPT ![t] = IF @ = NoProducer THEN caller[t].p ELSE @]
        ELSE UNCHANGED <<table, mine>>
     /\ UNCHANGED <<implicitProducerHashCount, implicitProducerHashResizeInProgress, hashOf, listVars, token>>

Producer(t) == Walk(t) \/ Catch(t) \/ MakeProducer(t) \/ MakeFails(t) \/ LinkProducer(t)
ProducerToken(t) == Token(t) \/ TokenMade(t) \/ Unlink(t) \/ Leave(t)
GetOrAdd(t) == Lookup(t) \/ ProbeKey(t) \/ Found(t) \/ Count(t) \/ Size(t) \/ Grow(t)
               \/ GrowNot(t) \/ GrowFails(t) \/ Clear(t) \/ Fits(t) \/ Insert(t) \/ Slot(t)

ProducersNext == \E t \in Callers : Producer(t) \/ ProducerToken(t) \/ GetOrAdd(t)
ProducersSpec == ProducersInit /\ [][ProducersNext]_producersVars

-----------------------------------------------------------------------------

\* No two threads ever enqueue into the same producer's queue, which has no
\* locks against that, through tokens or through the tables; and a thread that
\* has a producer finds it again, however the tables grow meanwhile.
OwnProducer ==
  \A t \in Callers :
    /\ \A s \in Callers \ {t} : /\ token[t] # NoProducer => token[s] # token[t]
                                /\ mine[t] # NoProducer => mine[s] # mine[t]
    /\ caller[t].pc \in {"found", "insert", "slot"} /\ mine[t] # NoProducer => caller[t].p = mine[t]

\* Every table has a free slot, or its searches would not end (as the comment
\* on their loop says).
SlotIsFree ==
  \A n \in DOMAIN table : \E i \in DOMAIN table[n].key : table[n].key[i] = invalid_thread_id
=============================================================================
