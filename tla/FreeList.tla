------------------------------ MODULE FreeList ------------------------------
(***************************************************************************)
(* The blocks that the producers of a queue share (concurrentqueue.h): the *)
(* initial pool and the lock-free list of the blocks given back.  A node   *)
(* is on the list only with a reference count above zero, and a thread     *)
(* that wants to pop it takes a reference first, so that its next pointer  *)
(* stays put.  What is to be added while others still hold references is   *)
(* only flagged: the last of them adds it.                                 *)
(*                                                                         *)
(* One action for each atomic access.                                      *)
(***************************************************************************)
EXTENDS Integers, FiniteSets, Functions

CONSTANTS
  Threads,
  PoolSize,               \* blocks of the initial pool
  MaxNodes,               \* bound: blocks, with those allocated later
  SHOULD_BE_ON_FREELIST   \* a flag in the count of references; 2^31 in the code

ASSUME FreeListAssumption ==
  /\ PoolSize \in Nat /\ MaxNodes \in Nat /\ PoolSize <= MaxNodes
  /\ SHOULD_BE_ON_FREELIST \in Nat
  /\ \E k \in 1..SHOULD_BE_ON_FREELIST : SHOULD_BE_ON_FREELIST = 2^k
  /\ IsFiniteSet(Threads) /\ Cardinality(Threads) + 1 < SHOULD_BE_ON_FREELIST   \* 2^31 threads are not met

VARIABLES
  freeListHead, freeListRefs, freeListNext,
  initialBlockPoolIndex,
  made,   \* blocks in use so far, but for those of the pool
  thr,    \* where each thread is
  held    \* the blocks each thread has

list == <<freeListHead, freeListRefs, freeListNext>>
pool == <<initialBlockPoolIndex, made>>
freeListVars == <<list, pool, thr, held>>

Nodes == 1..MaxNodes
Null == 0
Flag == SHOULD_BE_ON_FREELIST

\* head, refs, next: of try_get; node, top: of an add; then: where it goes on.
Idle == [pc |-> "idle", head |-> Null, refs |-> 0, next |-> Null,
         node |-> Null, top |-> Null, then |-> "idle"]

FreeListInit ==
  /\ freeListHead = Null
  /\ freeListRefs = [n \in Nodes |-> 0] /\ freeListNext = [n \in Nodes |-> Null]
  /\ initialBlockPoolIndex = 0 /\ made = 0
  /\ thr = [t \in Threads |-> Idle] /\ held = [t \in Threads |-> {}]

Goes(t, from, next) == thr[t].pc = from /\ thr' = [thr EXCEPT ![t] = next]
At(t, pc) == [thr[t] EXCEPT !.pc = pc]
SetRefs(n, r) == freeListRefs' = [freeListRefs EXCEPT ![n] = r]
Gets(t, n) == held' = [held EXCEPT ![t] = @ \cup {n}]

-----------------------------------------------------------------------------
(* requisition_block.                                                      *)

Requisition(t) ==
  /\ Goes(t, "idle", At(t, IF initialBlockPoolIndex < PoolSize THEN "pool" ELSE "head"))
  /\ UNCHANGED <<list, pool, held>>

FromPool(t) ==
  /\ Goes(t, "pool", IF initialBlockPoolIndex < PoolSize THEN Idle ELSE At(t, "head"))
  /\ initialBlockPoolIndex' = initialBlockPoolIndex + 1
  /\ IF initialBlockPoolIndex < PoolSize THEN Gets(t, initialBlockPoolIndex + 1) ELSE UNCHANGED held
  /\ UNCHANGED <<list, made>>

\* The list is empty: a new block is created, or the call fails.
Create(t) ==
  /\ Goes(t, "none", Idle)
  /\ \/ /\ PoolSize + made < MaxNodes
        /\ made' = made + 1 /\ Gets(t, PoolSize + made')
     \/ UNCHANGED <<made, held>>
  /\ UNCHANGED <<list, initialBlockPoolIndex>>

-----------------------------------------------------------------------------
(* try_get.                                                                *)

\* With no head there is nothing to get.
With(t, head) == [Idle EXCEPT !.pc = IF head = Null THEN "none" ELSE "refs", !.head = head]

LoadHead(t) ==
  /\ Goes(t, "head", With(t, freeListHead))
  /\ UNCHANGED <<list, pool, held>>

\* Mutant of LoadRefs: a node that nobody refers to is as good as another.
LoadRefsAnyway(t) ==
  /\ Goes(t, "refs", [At(t, "ref") EXCEPT !.refs = freeListRefs[thr[t].head]])
  /\ UNCHANGED <<list, pool, held>>

LoadRefs(t) ==
  LET r == freeListRefs[thr[t].head]
  IN /\ Goes(t, "refs", IF r % Flag = 0 THEN At(t, "head") ELSE [At(t, "ref") EXCEPT !.refs = r])
     /\ UNCHANGED <<list, pool, held>>

\* compare_exchange on the count of references.
TakeRef(t) ==
  LET n  == thr[t].head
      ok == freeListRefs[n] = thr[t].refs
  IN /\ Goes(t, "ref", At(t, IF ok THEN "next" ELSE "head"))
     /\ IF ok THEN SetRefs(n, thr[t].refs + 1) ELSE UNCHANGED freeListRefs
     /\ UNCHANGED <<freeListHead, freeListNext, pool, held>>

LoadNext(t) ==
  /\ Goes(t, "next", [At(t, "pop") EXCEPT !.next = freeListNext[thr[t].head]])
  /\ UNCHANGED <<list, pool, held>>

\* compare_exchange on the head; one that fails loads it anew.
Pop(t) ==
  LET n == thr[t].head
  IN /\ Goes(t, "pop", IF freeListHead = n THEN At(t, "popped")
                       ELSE [At(t, "unref") EXCEPT !.head = freeListHead, !.node = n])
     /\ freeListHead' = IF freeListHead = n THEN thr[t].next ELSE freeListHead
     /\ UNCHANGED <<freeListRefs, freeListNext, pool, held>>

\* Its own reference and the list's are dropped: the block is the thread's.
Popped(t) ==
  LET n == thr[t].head
  IN /\ Goes(t, "popped", Idle)
     /\ SetRefs(n, freeListRefs[n] - 2) /\ Gets(t, n)
     /\ UNCHANGED <<freeListHead, freeListNext, pool>>

\* Mutant of DropRef: the last one leaves the flagged node.
DropRefOnly(t) ==
  LET n == thr[t].node
  IN /\ Goes(t, "unref", With(t, thr[t].head))
     /\ SetRefs(n, freeListRefs[n] - 1)
     /\ UNCHANGED <<freeListHead, freeListNext, pool, held>>

\* The reference is dropped; the last one adds a node that was flagged.
DropRef(t) ==
  LET n == thr[t].node
  IN /\ Goes(t, "unref", IF freeListRefs[n] = Flag + 1
                         THEN [At(t, "top") EXCEPT !.then = "again"] ELSE With(t, thr[t].head))
     /\ SetRefs(n, freeListRefs[n] - 1)
     /\ UNCHANGED <<freeListHead, freeListNext, pool, held>>

-----------------------------------------------------------------------------
(* add, and add_knowing_refcount_is_zero.                                  *)

Add(t, n) ==
  /\ n \in held[t] /\ held' = [held EXCEPT ![t] = @ \ {n}]
  /\ Goes(t, "idle", IF freeListRefs[n] = 0 THEN [At(t, "top") EXCEPT !.node = n] ELSE Idle)
  /\ SetRefs(n, freeListRefs[n] + Flag)
  /\ UNCHANGED <<freeListHead, freeListNext, pool>>

LoadTop(t) ==
  /\ Goes(t, "top", [At(t, "link") EXCEPT !.top = freeListHead])
  /\ UNCHANGED <<list, pool, held>>

Link(t) ==
  /\ Goes(t, "link", At(t, "expose"))
  /\ freeListNext' = [freeListNext EXCEPT ![thr[t].node] = thr[t].top]
  /\ UNCHANGED <<freeListHead, freeListRefs, pool, held>>

Expose(t) ==
  /\ Goes(t, "expose", At(t, "push"))
  /\ SetRefs(thr[t].node, 1)
  /\ UNCHANGED <<freeListHead, freeListNext, pool, held>>

\* The end of an add: the call returns, or try_get looks at the head it has.
Done(t) == IF thr[t].then = "again" THEN With(t, thr[t].head) ELSE Idle

Push(t) ==
  /\ Goes(t, "push", IF freeListHead = thr[t].top THEN Done(t)
                     ELSE [At(t, "retry") EXCEPT !.top = freeListHead])
  /\ freeListHead' = IF freeListHead = thr[t].top THEN thr[t].node ELSE freeListHead
  /\ UNCHANGED <<freeListRefs, freeListNext, pool, held>>

\* The push failed: it is tried again only while nobody took a reference.
Retry(t) ==
  LET n == thr[t].node
  IN /\ Goes(t, "retry", IF freeListRefs[n] = 1 THEN At(t, "link") ELSE Done(t))
     /\ SetRefs(n, freeListRefs[n] + Flag - 1)
     /\ UNCHANGED <<freeListHead, freeListNext, pool, held>>

Getting(t) == LoadHead(t) \/ LoadRefs(t) \/ TakeRef(t) \/ LoadNext(t) \/ Pop(t)
              \/ Popped(t) \/ DropRef(t)
Adding(t) == (\E n \in Nodes : Add(t, n)) \/ LoadTop(t) \/ Link(t) \/ Expose(t)
             \/ Push(t) \/ Retry(t)
Requisitioning(t) == Requisition(t) \/ FromPool(t) \/ Create(t)

FreeListNext == \E t \in Threads : Getting(t) \/ Adding(t) \/ Requisitioning(t)
FreeListSpec == FreeListInit /\ [][FreeListNext]_freeListVars

-----------------------------------------------------------------------------

\* The nodes from the head on: those that lead to null, or not, in n steps.
Listed == LET step[k \in 0..MaxNodes] == IF k = 0 THEN freeListHead
                 ELSE IF step[k - 1] = Null THEN Null ELSE freeListNext[step[k - 1]]
          IN {step[k] : k \in 0..MaxNodes} \ {Null}

\* A block is never given to two, nor to one while it is on the list; and what
\* was popped is not flagged to be added (the assert of try_get).
OneOwner ==
  /\ \A t \in Threads : held[t] \cap Listed = {}
  /\ \A s, t \in Threads : s # t => held[s] \cap held[t] = {}
  /\ \A t \in Threads : thr[t].pc = "popped" => freeListRefs[thr[t].head] < Flag

\* However the adds and gets of the threads overlapped, no block is lost: when
\* they are done, each is on the list, with the list's reference only, or held.
NoneLost ==
  (\A t \in Threads : thr[t].pc = "idle") =>
    \A n \in 1..PoolSize + made :
      IF n \in Listed THEN freeListRefs[n] = 1
      ELSE freeListRefs[n] = 0 /\ (n \in initialBlockPoolIndex + 1 .. PoolSize
                                   \/ \E t \in Threads : n \in held[t])
=============================================================================
