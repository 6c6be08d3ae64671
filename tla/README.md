# adaptive-transport: models, checks and proofs

adaptive-transport is a C++ library, `UDPStream`, that carries a byte stream
over UDP with retransmission, and four small programs that use it
(`send_data`/`recv_data` copy standard input to standard output,
`test_client`/`test_server` measure throughput). This directory holds TLA+
modules of its protocol core and of the concurrent containers vendored with it,
at the granularity of the threads' atomic steps, of the two programs that copy a
file end to end, the TLC runs that check them and the proofs that hold for every
size.
All source lines are those of `src/src/`.

## 1. The system

### Components, their state and operations

| Component | State | Operations | What makes it correct |
|---|---|---|---|
| `Packet` | header word (ack bit + 31-bit number), size, `tsSent`, `tsRecv`, `tsAck` | accessors | what is written is what is read, in the bits the header has |
| `PacketQueue` | ring `m_buf` of 8192 packets; atomics `m_front`, `m_frontUsed`, `m_tx`, `m_unacked`, `m_bytesQueued`; `m_frontSema` | `front`/`frontNext` (push), `tx`/`txNext` (transmit), `find`, `unacked`/`unackedNext` (settle) | one thread at a time owns the front slot; the three indices keep their circular order; the byte counter agrees with the ring |
| `UDPStream`, sending | `m_dseq`, `m_done`, `rtt`, the queue | `send`, `bytesQueued`, destructor; threads `senderEntry` and the ack and sweep parts of `receiverEntry`; `onMetadata` | no segment leaves the ring before the peer has it; none is in it twice; the sweep looks at the oldest first |
| `UDPStream`, receiving | `m_nextSeq`, `m_recvMap`, the byte ring | data part of `receiverEntry`, `onRecvData`, the ack it sends; `readable`, `rptr`, `rptrAdvance` | bytes come out once, in order; what is acked is not forgotten |
| `CircBuff` | `m_base` mapped twice in a row, `m_widx`, `m_ridx` | `wptr`/`wptrAdvance`, `rptr`/`rptrAdvance`, `used` | unread bytes are not overwritten; a copy may cross the end |
| limiter (`limiterEntry`, `limiterStats`) | moving sums of one-way delays, `bandwidth`, `m_tsUpdated`, `m_ptt` | every 5 ms | the rate stays in its limits, one loss cuts it once; never acts in this commit: nothing writes `m_ptt` |
| `PTT` | table of send and receive times, three indices | `setSent`, `setRecv`, `readAdvance` | every outcome is read once and in order, while the table holds it; superseded by `PacketQueue`, only its reading side is called |
| `TokenBucket` | `m_tsLast` | `consume` | bytes let through in a period do not exceed rate x time + burst |
| `RollingStats`, `RollingWindow`, `RollingFilter` | ring of samples, running total | call operator, `at`, `size` | mean and deviation are those of the last `m_size` samples |
| `UDPSocket`, `FileDescriptor`, `Address`, `Timing`, `Util` | a descriptor and its service counters | system calls | errors become exceptions |
| `Poller` | actions and their poll descriptors | `add_action`, `poll` | not used by any program |
| `fullio` | none | `full_read`, `full_write` | complete partial reads and writes |
| programs | framing of stdin blocks; the sessions of `test_server` | `main` | the copy ends after the last byte |
| `LightweightSemaphore` (vendored) | a count and a kernel semaphore | `wait`, `waitMany`, `signal` | no wake-up is lost |
| `ConcurrentQueue`, `BlockingConcurrentQueue` (vendored; `UDPStream.hpp` includes the first and makes no queue of it) | a queue for each producer, of blocks found through an index; the list of free blocks; the list of producers, the table from threads to them; tokens; a semaphore | `enqueue`, `enqueue_bulk`, `try_dequeue`, `try_dequeue_bulk`, tokens; the waiting forms | each element goes to one consumer; no block has two owners or is lost; a queue said to be empty was; a permit is an element |
| `ReaderWriterQueue` (vendored, used by `Plot`) | a ring of blocks, two ends, a semaphore of its own (`atomicops.h`) | `enqueue`, `try_enqueue`, `try_dequeue`, `wait_dequeue`, `peek`, `pop` | first in, first out, also across blocks |
| `Plot` (not built) | a thread and its queue | `plot` | the queue's |

### How they interact

One `UDPStream` has four threads. The caller (`app`) pushes packets at the
front of the ring; `senderEntry` transmits from `m_tx`; `receiverEntry` reads
the socket, either stores an ack in the packet it finds between `m_unacked` and
`m_tx`, or hands data to `onRecvData` and sends an ack, and after each datagram
or timeout sweeps from `m_unacked`: acked packets are passed over, packets
older than a timeout computed from `rtt` are first copied to the front, through
the same `front ()` lock the caller uses. The limiter thread only sleeps.
The receive side and the reading application share nothing but the byte ring.

### What is hard about it

No mutex is used: ordering comes from single atomics, each method of
`PacketQueue` touching several. The network loses, repeats and reorders both
data and acks, and a retransmission races the late answer to the first
transmission. Slots, stamps and sequence numbers are reused. Both rings have a
limit which the code does not test. `PROJECT.json` lists these hazards one by
one at their lines, with the properties that watch them.

## 2. The modules

    PacketQueue          the packet ring: atomic steps of its methods
      SendPath           three threads over one ring, the clock, the network
        SendPathProofs   the safety theorems; SendPath implements ReliableSend
          MCSendPath     instances whose callers leave the ring room
    ReliableSend         what the sending half promises, without a ring
    CircBuff             the byte ring
      RecvPath           receiver and reader over one byte ring, the peer
        RecvPathProofs   the safety theorems; RecvPath implements Delivery
        MCRecvPathUnpaced  instances whose peer does not keep within the ring
    Delivery             what the receiving half promises
      Transport          send_data, ReliableSend, a network, Delivery, recv_data
        TransportProofs  inductive invariant and the safety theorems
    TokenBucket          the bandwidth of the sender thread
    RollingStats         the round-trip statistics
    PTT                  the packet time table
      Limiter            the limiter thread that reads it
        RateControlProofs  theorems of TokenBucket, RollingStats and Limiter
        MCRateControl    instances of the three
    Semaphore            what PacketQueue takes its semaphore for: a counter
    LightweightSemaphore the semaphore, one action per atomic access
    ReaderWriterQueue    the single-producer queue and its semaphore
        WaitingProofs    LightweightSemaphore implements Semaphore; theorems of the queue
        MCProgress       instances of these two, of RecvPath and of Transport
    SubQueue             what the two kinds of producers' queues share
      ExplicitProducer   a token's queue: blocks in a ring, a circular index
        MCExplicitProducer  an instance whose bulk calls run out of memory
      ImplicitProducer   a thread's queue: blocks from the free list
        SubQueueProofs   theorems of SubQueue's counters and of ImplicitProducer
    FreeList             the lock-free list of free blocks, the pool before it
    Producers            the list of producers, tokens, the table of threads
    ConcurrentQueue      the dequeue calls over all producers' queues
    BlockingConcurrentQueue  the semaphore above it
        ConcurrentQueueProofs  theorems of the last four
        MCConcurrentQueue  instances of all of these
    SumTheorems          the laws of a sum over a set, and the least of some numbers

Where one `MC` module has instances of several modules (`MCRateControl`,
`MCProgress`, `MCConcurrentQueue`), the variable `part` is chosen at the start
and says which of them the behaviour runs; the variables of the others stay
as they were made, or unused. Nothing is lost by this: as modelled here those
modules share no state, and each property speaks of its own part (`RecvPath` and
`Transport` meet in `Delivery`, by refinement).
The modules are EXTENDed, so that a property is one definition to the run and
to the theorem. In `MCConcurrentQueue` further instances under a name stand
beside them: the two queues of a token's producer, whose `prod` is a variable of
its own, a second `ImplicitProducer` whose calls run out of memory
(`ImplicitScarce`), and a second `ConcurrentQueue` where all have tokens (`Tokens`).

### PacketQueue and SendPath

The variables of `PacketQueue` are the fields of the class, under their names.
A method is split where another thread may run between two of its atomics:
`frontNext` is `FrontNextAdd`, `FrontNextAdvance`, `FrontNextRelease` and
`FrontNextSignal`; `txNext` is `TxNextSub` and `TxNextAdvance`; `tx` is the test
`TxEmpty` and the two outcomes of the semaphore wait. `find` is one step: it
reads slots below `m_tx`, whose contents only the receiver itself changes, and a
`m_tx` that moves during the scan can only make it see one more packet.

`SendPath` gives each thread a program counter. The labels follow the code: for
the sender `loop` (`while (!m_done)`), `tx`, `wait`, `stamp`, `sendto`, `sub`,
`next`; for the receiver `loop`, `recv`, `now`, `sweep`, `front`, the push
labels, `meta`; for the caller `idle` (waiting for `bytesQueued () == 0`),
`ready`, `front`, the push labels, and the destructor's `join` and `dead`.
`abort ()` in `onMetadata` freezes the whole process.

What is abstracted:

* A packet is its number, its size and two stamps. Payload follows from the
  number. `tsRecv` is always written with `tsAck` by the one thread that reads
  either, so one field stands for both.
* Time is a counter of stamps: each `MicrosecondsSinceEpoch ()` that is stored
  and each kernel receive stamp is a tick of its own (two equal stamps would
  change nothing: every comparison with consequences is strict). Whether a
  packet stamped before `now` is older than the timeout is a free choice, as
  the timeout varies with the measured round trips; for a packet stamped after
  `now` it is certain, because the code subtracts unsigned numbers.
* The token bucket's delay is the time the sender spends at `stamp`.
* The network is the set `wire` of numbers ever transmitted: an ack may arrive
  for any of them, at any time, any number of times; or never.
* `Spec` is the code: `StartSend` and `FrontNextAdvance` look at no index, as
  `send ()` and `frontNext ()` do not. `LeavesRoom` is an assumption on the
  callers that stands beside it: when a send is begun, the packets between
  `m_unacked` and `m_front` and the new ones do not exceed `MaxWindow`.
  `PacedSpec` is `Spec` with that assumption, and what the passing run and the
  theorems are about, the latter with `MaxWindow <= Size - 2`. The programs wait
  for `bytesQueued () == 0` and send at most 128 KB, 94 packets, at a time, which
  keeps them within 8190 slots unless more than eighty such blocks stay unacked;
  nothing forbids that. Run `send_overrun` checks `Spec` itself and finds the front
  on the tail: the ring reads as empty and its segments are lost, as the comment
  at PacketQueue.cpp:39 says.

`ReliableSend` is the promise those three threads keep: a set of held segments,
each of which may be transmitted, and which is let go only once acked.
`SendPath` implements it with `given <- m_dseq - 1` and `held <- Held`, the
numbers in the live slots and in the slot `send ()` is pushing. The steps of
`frontNext`, the copy a retransmission makes and moving past a copied packet
are stutters; moving past an acked one is `Settle`. The later modules that
compose streams can stand on it instead of on the ring.

### CircBuff and RecvPath

A byte is its position in the peer's stream, so reading in order is an equality
on positions. Packet `s` carries bytes `Start[s] .. Start[s+1]-1`; cutting the
stream differently is another value of the constant `Start`. The copy into the
ring and the advance of the write index are separate steps, and so are reading
at `rptr ()` and `rptrAdvance`. `Header` drops the bit of the number the wire
format has no room for. The peer is `PeerSends` and the network `RecvData`:
any packet sent so far may arrive next, any number of times. `MaxAhead` is how
far the peer gets ahead of the reader; again no line of the code bounds it.

The reader takes any part of what is readable, which includes what `recv_data`
(header, then the block), `test_client` (everything) and `test_server` (nine
bytes) do.

### TokenBucket

`consume` and the loop of `senderEntry` around it. The bucket's state is the
time from which tokens accrue, so both roundings of the code are in the model:
elapsed time to whole bytes, and the bytes left over back to whole ticks.
Its field `bandwidth` (`rate` in the module) is assigned by other threads
(`SetBandwidth`). The sender may
oversleep by any amount: `Tick` is never forced to stop for it. `mark` and
`passed` observe one interval, which may begin at any time (`Observe`) and
begins anew when the bandwidth changes. Assumed: rates of at least 1, packets
no larger than the burst (a packet is at most 1404 bytes, the burst 128 KB), and
a clock whose first reading is worth more than a burst, as the time since 1970 is.

### Semaphore and LightweightSemaphore

`tryWait`, `wait (timeout)` and `signal` of the vendored header, whose atomics
are actions of their own. A load followed by a compare-and-swap that succeeds is
one step. `Semaphore` is what `PacketQueue` assumes when it models `m_frontSema`
as a number: a `wait` that takes one, or times out. With a single waiter, as
here, it times out only when there is nothing to take. The count of the abstract
semaphore is `m_count` plus the waiters it was lowered for.

### RollingStats

The class `UDPStream::rtt` is an instance of: ring, sum, multiset and the
one-pass variance. `WindowIsLatest` compares the running sum and the multiset with
the sum and the counts of the latest samples, `MomentsAreExact` mean and variance
with their definitions. Samples are multiples of every number up to the window
(`ExactAssumption`), which makes every division exact, so that results are compared
as integers. The rounding of the doubles is left out.

### Delivery and Transport

`Delivery` is the promise of a receiving half: what arrived may be acked, and
the stream becomes readable packet by packet, in order. `RecvPath` implements it
(`ImplementsDelivery`): a packet becomes readable at the step that advances the
write index over it, and a drop or a stash is `Arrive`.

`Transport` is `send_data` and `recv_data` over `ReliableSend` on one side and
`Delivery` on the other, with acks and data lost, repeated and reordered between
them. `full_read` and `full_write` move any number of bytes per call and see the
end of the file and errors; `send ()` cuts header and block into packets, as it
does in the code. `recv_data` takes four bytes as soon as one is readable: were
the rest not there, the bytes would be whatever is in the ring, which the model
lets be anything. Both programs end as the code does: the sender after its wait
for `bytesQueued ()`, whether or not the last packets were acked.

### PTT and Limiter

The three indices of the table and the limiter that consumes it. In this commit
nothing calls `setSent` or `setRecv`; the module lets a sender and a receiver call
them as the network would have it: a new entry before each packet, whether or not the
table has room, and an answer for any packet sent, at any time, in any order,
again, or never. Two packets may be stamped by the same tick. Both callers are
marked external. `astray` is history: was a packet entered into a full table, or
an answer found with nothing in flight? Until then the table does what it is for
(`EachOutcomeOnce`); after the second, `m_head1` may have moved back
(`rate_astray`). One-way delays are differences of two clocks
and so may be negative. Fractions are multiplied out; the conversions to
integers truncate as they do in C++. Read closely, the code also does the
following, all of which is in the model: the minimum is uninitialised in a round
where nothing was received (`Garbage`); a sum of delays of 0 makes the quotient
infinite and the rate jump to its cap; a negative one turns the signs of the two
tests around; small rates are cut down to 0; `m_tsUpdated` does not move when the
rate is raised (`rate_raise`); and `setRecv` with nothing in flight searches the
whole table. `cutAt` and `changedAt`, when the rate was last cut and last changed
at all, are history too.

### ReaderWriterQueue

One producer, one consumer, one action per access to what the other thread
writes. Blocks are filled in order and the ring grows by doubling; each thread's
copy of the other's index is modelled, since what could go wrong is that it is
stale. The semaphore is the other one, of `atomicops.h`, whose timed-out wait
undoes its decrement by `fetch_add` and `fetch_sub`. `try_enqueue` and a failed
allocation are the same refusal. `Fifo` includes the assertions of the two headers
(`AssertsHold`): a queue that hands out the right elements from a block it did not
expect would be right by chance.

### The parts of ConcurrentQueue

The header's five mechanisms are modules of their own, since each talks to the
others through one call only.

* `SubQueue` has what `ExplicitProducer` and `ImplicitProducer` share: the
  counters by which a consumer reserves a place (`dequeueOptimisticCount`,
  `dequeueOvercommit`, the tail), claims indices at `headIndex` and then takes
  the elements block by block. A consumer that looks at the tail a second time
  counts what is there for it from the value its own `fetch_add` returned (`mine`)
  and the overcommit it loaded before (`over`), however much either has moved since.
  `enqueue`, `enqueue_bulk`, `dequeue` and
  `dequeue_bulk` are in it, one action per atomic access.
* `ExplicitProducer` adds the ring of blocks, its circular index and the copy
  into a larger one; `ImplicitProducer` the hash-like index of entries, the
  blocks it takes from and returns to the free list, and the undoing of a bulk
  call in the middle (one step: it takes back only entries that no consumer has
  been told of). Memory may run out in the calls named by `Scarce`.
* `FreeList` is `try_get` and `add` on the list with reference counts and the
  flag `SHOULD_BE_ON_FREELIST`, each compare-and-swap an action, with the pool of
  blocks that is used up first. A failed weak compare-and-swap is a stutter of
  the loop, which loads again. A block is put back by the thread that got it; in
  the code a consumer may be the one, which makes no difference to the list.
* `Producers` is how a thread comes by a producer: `recycle_or_create_producer`,
  the two ends of a token's life, and `get_or_add_implicit_producer` with its
  hash tables, which grow while others probe and insert. `mine` is history: the
  producer a thread got first, which it has to find again ever after.
* `ConcurrentQueue` is the calls that go through the producers: by score, in the
  list's order, or around from the token's place with the rotation of all tokens
  after a quota. A producer's own `dequeue` is one action here.
* `BlockingConcurrentQueue` adds the semaphore: permits taken one by one or many
  at a time, timeouts, and the loop that tries the queue until it has an element
  for each permit. `waitMany`, `tryWaitMany`, the wait without timeout and
  `signal (count)` are modelled here.

Accesses are sequentially consistent in the models. The code uses relaxed
accesses with fences; that they suffice is not shown. Indices are naturals: the
wrap of a 64-bit index is not reached.

## 3. The runs

| Run | Instance | Shows |
|---|---|---|
| `send_core`, wide | 4 slots, a window of 2, sends of up to 2 packets, 3 segments, 4 clock ticks | `NoLostSegment`, `UniqueCopies`, `OldestFirst`, `BytesAccounting`, `ImplementsReliable` |
| `send_core`, long | a window of 1, two packet sizes, 4 segments, 5 ticks: the ring is gone round | the same |
| `progress`, receiving | 8 bytes, 4 packets of 1 to 3 bytes, 9 bytes in all: the ring wraps within a packet; fairness | `ReadsInOrder`, `AckedIsReadable`, `AckedIsHeld`, `ImplementsDelivery`, `AllIsRead` |
| `progress`, transport | inputs of 0, 2 and 3 bytes in blocks of 2, header of 2, packets of up to 3 bytes; fairness | `HeaderIsWhole`, `OutputIsInput`, `EndIsTheEnd`, `NobodyWaits` |
| `progress`, semaphore | the sender waits, caller and receiver signal, up to 8 signals pending; fairness | `PostsMatchWaiters`, `ImplementsCounter`, `SignalIsTaken` |
| `progress`, queue and blocks | a queue made for 1 element, and one made for 4 of blocks of 2; 5 elements; fairness | `Fifo`, `HoldsSize`, `SizesAgree`, `WaitEnds` |
| `rate`, bucket | 4 ticks a second, burst of 5, packets of 1, 2 and 4 bytes, rates of 2, 3 and 5, 12 clock readings | `RateBound`, `WaitIsBounded`, `FairCharge` |
| `rate`, stats | windows of 2, 3 and 4, every sequence of 7 samples out of 4 values | `WindowIsLatest`, `MomentsAreExact` |
| `rate`, limiter | table of 4 entries, 6 packets, one packet of reordering, averages over 2 rounds, an uninitialised minimum of -3, rate from 8 up to 10 | `EachOutcomeOnce`, `CutsRestOnNew` |
| `rate`, judging | the same table, 3 packets, delays of 1, 2 and 4, each round judged | the same |
| `mpmc`, explicit and implicit (four parts) | 2 consumers, blocks of 2, 5 or 7 elements, an index of 2 that grows or 4 that does not; memory that runs out in single calls, in bulk calls, or not at all | `RightElements`, `CountsAgree`, `BlocksReturn`, `AssertsOfBoth` |
| `mpmc`, blocks | 2 threads, 2 blocks, one of them in the pool at first | `OneOwner`, `NoneLost` |
| `mpmc`, list | 2 threads with tokens and without, a table of 1 that grows, colliding hashes, 3 producers | `OwnProducer`, `SlotIsFree` |
| `mpmc`, dequeue and tokens | a consumer of each kind, or two with tokens; 3 producers, 2 elements, quota 2 | `EveryoneAsked` |
| `mpmc`, blocking | 2 producers, 2 consumers, calls for 1 or 2, 3 elements | `PermitsMatchElements` |
| `send_overrun` | 4 slots, sends of up to 2 packets, 4 segments, any caller | violation of `RingNeverOverrun` |
| `send_stale_ack` | 3 slots | violation of `AckedMeansReceived` |
| `send_late_ack` | 5 slots | violation of `AckAfterSend` |
| `send_unsigned` | 4 slots | violation of `OnlyOldRetransmitted` |
| `recv_overrun` | 4 bytes, peer up to 6 bytes ahead | violation of `ReadsInOrder` |
| `rate_astray` | as `rate`, with a table of 5 entries that 4 packets do not fill | violation of `LooksBetweenHeads` |
| `rate_raise` | as `rate` | violation of `JudgedAtPresentRate` |
| `failed_bulk` | 2 consumers, blocks of 2, an index of 2, bulk calls that may run out of memory | violation of `AssertsHold` |

The bounds are constants named in the modules: `MaxSend`, `MaxSeq`, `MaxClock`
and `MaxSock` on the sending side, `MaxSeq` and `Start` on the receiving side,
`MaxElements`, `MaxTail`, `MaxBlocks`, `MaxNodes` and the like in the queues. They are
enough for what the properties are about. A window of one makes four packets go
around four slots, each settled before the next, with a retransmission in
progress at the same time as a new send; with a window of two, both threads compete
for the front slot while the sender transmits the packet behind it. Four or five
ticks allow a transmission, its retransmission and the late ack of the first. On
the receiving side four packets allow a gap, two kept packets behind it, a
duplicate of each, and a packet that crosses the end of the ring. In the transport
the inputs are an empty one, one that ends with a block (so that the last block
is empty) and one that does not; a full block takes two packets. In the
bucket one interval holds several refills, oversleeping beyond the burst, and a
change of rate with a packet waiting. Seven samples go around each window at
least once after it is full. The limiter's six packets go around its table, may
overfill it, and make up to six rounds, more than it averages over; the three of the
other part bring a raise of the rate and a cut after it. Five elements make the small
single-producer queue grow and go around the blocks of the other. In `mpmc`
each index fills up and wraps, blocks are used again, two consumers compete for
one claim, and the hash table grows twice while a thread that hashes to the same
slot is inserted. Two threads of a kind that do the same are interchangeable,
which `SYMMETRY` uses; the properties of that run are invariants.

Deadlock is not checked where a bounded run must stop: on the sending side when
the bounds are used up and the stream is destroyed or has aborted, on the
receiving side when the reader has everything and its acks are out, in the
transport when the programs have ended, in the others when samples, packets or
elements are used up.

Fairness is assumed in one run, `progress`. A behaviour of it takes the steps of
one part only, so that fairness of a disjunction of steps of several parts is
fairness of each.

* Receiving: `WF` on the receiver's handling of a packet it has and on the
  reader: each is a thread in an endless loop, and the operating system runs it.
  `WF` on `PeerSends`: the peer's application goes on. `SF` on the arrival of
  each packet not yet acked: the peer retransmits it and the network does not
  lose one packet for ever; nothing makes an acked packet arrive again. The last
  is a promise of the peer's sending half, which the code keeps only apart from
  the findings below, and while the peer's process exists.
* Transport: `WF` on the programs' loops (standard input and output go on), on
  the sender's exit, which send_data.cpp:50-56 comes to as soon as everything was
  transmitted once, on the first transmission of a held packet and on delivery,
  which are threads' loops. Nothing is expected of the network, and no arrival is
  promised: the sending process is gone before the last packets are acked.
  `NobodyWaits` says what the code keeps nevertheless. `SenderEnds`: once something
  was sent, the sender ends, though not one ack may come. `ArrivedIsWritten`: a
  block whose packets have arrived, with those before, is written, and if it is
  the last the copier ends.
* Semaphore and queues: `WF` on the steps inside a call of either, which no lock
  can block; nobody has to make a call, and no timeout is counted on.

### What the violations show

1. `send_stale_ack`. `send ()` and the retransmission write number, size and
   payload into a slot and leave `tsAck`/`tsRecv` as the former packet had them.
   After 8192 packets every new packet counts as acked from its transmission
   until its own ack overwrites the stamp. A sweep that meets it in between
   takes the old ack for its own; since that ack is older than the new
   transmission, `onMetadata` calls `abort ()`. This is also why
   `NoLostSegment` holds in spite of it: the process dies first.
2. `send_late_ack`. An ack is matched by number only. The ack of a slow first
   transmission, stamped by the kernel before the copy was sent and read after,
   makes the copy look acked before it was sent, and `onMetadata` aborts.
   (The same follows from 1.)
3. `send_unsigned`. `now - tsSent` of a packet stamped during the sweep wraps
   around and is larger than any timeout: the packet is retransmitted at once.
4. `recv_overrun`. Nothing compares what arrives with the room in the byte ring.
5. `send_overrun`. Nothing compares what is sent with the room in the packet ring.
   A caller whose packets stay unacked for long enough sends over them: `m_front`
   arrives at `m_unacked`, and the sweep takes the ring for empty.
6. `rate_astray`. `setRecv ()` does not compare `m_head1` with `m_head0` before it
   searches. With nothing in flight it goes around the table, finds a packet that
   was given up, and `m_head1` goes back to it, against the comment at PTT.cpp:112:
   settled outcomes are in flight again, and those read may be read again.
7. `rate_raise`. The comment at UDPStream.cpp:264 has `tsUpdated` be the time of
   the last change of the send rate. A cut sets it (411), a raise does not
   (415-427), so that packets sent at the lower rate are judged as if sent at the
   higher. That a cut rests on packets of after the last **cut** holds
   (`CutsRestOnNew`).
8. `failed_bulk`. After an `enqueue_bulk` of a token's producer that ran out of
   memory, the blocks it had already linked in stay in the ring, but
   `pr_blockIndexSlotsUsed` is set back (concurrentqueue.h:2048-2068). Later calls
   use those blocks and enter them in the index without counting, so that a new
   block's entry overwrites one in use; a consumer then reads the wrong block and
   the assertion that its slot was not empty (1541) fails. The program makes no
   such queue.

Two limits of the code are seen in the models and have no run. The destructor's caller
waits for everything to be transmitted once, not for it to be acked
(UDPStream.cpp:27). And the header keeps 31 of the 32 bits of the number, so that
after 2^31 packets new data would be dropped as old (Packet.cpp:34), which
`PeerAssumption` excludes.

## 4. The proofs

All are safety, for every value of the constants, by the usual argument:
`Init => I`, `I /\ [Next]_vars => I'`, and `I => P`.

**Sending half.** Assumed: the ring has at least two slots, the bounds are
natural numbers (`SizeAssumption`, `MTUAssumption`, `BoundsAssumption`), and
`WindowAssumption`, `MaxWindow <= Size - 2`. `TypeCorrect` proves `TypeOK` of `Spec`
by itself. The others are about `PacedSpec`: they hold under callers that leave the ring
room, and run `send_overrun` shows why they need to. None of the properties is
inductive; `SendPathProofs` strengthens them to `IInv`:

* `LockInv`: `m_frontUsed` is set exactly while one of the two pushing threads
  is between `front ()` and the release in `frontNext ()`, and never both are.
* `WindowInv`: going forward from `m_unacked` one meets `m_tx`, then `m_front`,
  and the slots in use plus those the running send still needs stay within the
  window plus one for a retransmitted copy. This is where the two spare slots
  go: one tells a full ring from an empty one, the other holds the copy.
* `SeqInv`, `CopyInv`, `UniqueCopies`: what the slot being filled holds, and
  that the packet at `m_unacked` has a second copy exactly from the moment its
  retransmission was pushed until the sweep moves on. Without `CopyInv` moving
  `m_unacked` might remove the only copy, or the retransmission add a third.
* `StampInv`, `StampOrder`: stamps grow from `m_unacked` to `m_tx`, and no stamp
  is larger than the clock.
* `AckTruth`: what an ack in the socket, or a stamp the current occupant of a
  slot got from one, says about `acked`.

The theorems are `SegmentsAreKept`, `CopiesAreUnique`, `StampsAreOrdered`, and
`NeverOverrun`, which states the condition on the callers that suffices for
`RingNeverOverrun`; the code does not impose it.

`BytesAreExact` is `PacedSpec => []BytesAccounting`: `m_bytesQueued` is the sum of the
sizes between `m_tx` and `m_front`, plus the packet whose push has added its size
and not moved the index, minus the one whose transmission has subtracted it and
not moved; and it is not negative. It is inductive beside `IInv`: `LockInv` says
that one push is in progress at most, and `WindowInv` that moving an index adds
or removes exactly one slot. A step that refills a slot does so outside the
interval, which the lemma `SameBytesSteps` shows of all other steps at once.

`ReliableIsImplemented`, `PacedSpec => ImplementsReliable`, follows step by step
from `IInv`: `SeqInv` gives that a filled slot's segment is new, `CopyInv` and
`AckTruth` that moving past a packet either removes one of two copies or settles
an acked segment, `WindowInv` that what is transmitted is held.

**Receiving half.** Assumed: the cut `Start` is strictly increasing from 0
(`StreamAssumption`), and `PeerAssumption`: the peer is never a whole ring ahead
of the reader, and numbers do not need the missing bit. The invariant `RInv`
says that the write index is the position of the next byte modulo the capacity
(`AheadInv`, `RingInv`: the bytes from read to write index are those from `got`
on), that the map holds packets ahead of `m_nextSeq` under their own numbers
(`MapInv`), that what was acked is delivered or in the map (`HeldInv`), and what
the reader holds in each of its steps (`ReaderInv`). The theorems are
`BytesInOrder`, `AckedPrefixIsReadable`, `AckedStays`, `MapStaysAhead`,
`DropsAreOld` and, for `TypeOK`, `RecvTypeCorrect`.

`DeliveryIsImplemented`, `Spec => ImplementsDelivery`, is the refinement of
`Delivery`, step by step from `RInv`: the peer's step cuts the stream one packet
further (`PeerCuts`); copying the expected packet or keeping a later one is
`Arrive` (`KeptArrives`), and so is a drop, of a packet that had arrived; the
advance of the write index over a packet, fast or from the map, delivers
(`AdvanceDelivers`), for which `AheadInv` says that what is readable ends where
packet `m_nextSeq` begins; an ack is of what has arrived (`HeldInv`); the reader's
release reads no further than what was delivered. The others are stutters.

**End to end.** From `FramingAssumption`: blocks and headers of at least one byte,
and a packet that takes at least a header; any set of inputs. `TInv` puts the
pieces that the two programs and the two halves hold on one stream. `PacketInv`:
packets are not empty and what is readable ends with one. `BlockInv`: each block
begins where the last one ended, its header first. `HeaderInv` is what
`recv_data` relies on without saying so: no packet begins within a header, since
`send_data` gives a header and its block in one call (send_data.cpp:47), `send ()`
begins each call with a new packet, and a packet has room for a header. `InputInv` and `EofInv`: headers apart, what was sent is what was read,
and only the last block carries the mark. `ReaderInv`: what is read ends before a
block, or in one whose header the reader has, and the output is what was read
without the headers. `HeadersAreWhole`, `OutputFollowsInput` and `EndsAtTheEnd`
follow, whatever is lost, repeated or reordered between the halves. They rest on
`ReliableSend` and `Delivery`, which the two refinements above show the code to
implement under their own assumptions.

**Token bucket.** From `BucketAssumption` alone, for every unit, burst, set of
sizes and set of rates. `BucketTypeCorrect`: `m_tsLast` stays between 1 and now
once it was set, which the unsigned difference and the `m_tsLast ?` test need.
`RateIsBounded` needs the strengthening that what has passed and what the bucket
is still worth together stay within the bound; the two roundings are two lemmas
about integer division. `ChargesAreFair` bounds the loss per packet and
`WaitsAreBounded` the wait.

**Limiter.** From `TableAssumption` and `LimiterAssumption`, for every size of the
table, distance of reordering, delays, garbage in the uninitialised minimum, and
number of packets; for answers that are late, repeated, in any order or missing.
The invariant `LInv` counts the entries from the tail on, since
the indices themselves go around. `RingInv`: until the table is used beyond what it
keeps (`astray`), the entries held are those the reader may take and those in
flight, under consecutive numbers from the one after the last read. `CutInv`: what
limiterStats counts is not stamped before `m_tsUpdated` as it was then, and that
is not before the last cut. The
lemmas about differences of indices modulo the size come first, then that
`setRecv` with something in flight finds an entry of those in flight, and that
wherever it puts `m_head1`, at the entry, over those answered behind it, or
nowhere else, this stays between `m_head1` and `m_head0`. `OutcomesInOrder`
(`EachOutcomeOnce`), `CutsRestOnNewPackets` (`CutsRestOnNew`), which no order of
answers and no state of the table can disturb, and `LimiterIsTyped`
(`LimiterTypeOK`: whatever the rate is divided by, also a sum of delays of 0 or
below, it ends between 0 and its cap) follow.

**Round-trip statistics.** `StatsFollowTheWindow`, `StatsSpec => []WindowIsLatest`,
for every window and sequence of samples, from `StatsAssumption` alone: the exact
divisions are not needed for it. `RingHolds` says that the ring, counted back from
`m_head`, holds the latest samples; so the value subtracted and taken out of the
multiset, read from the slot about to be overwritten, is the sample that leaves
the window, and no other.

`OnePassIsExact` is `StatsSpec => []MomentsAreExact`: the running mean and sum of
squares that one pass over the ring computes, in the order of the slots and not of
the samples, are those of the definition, which takes the mean first. It holds for
windows of any size, the 64 samples of the code (UDPStream.cpp:156) included, and any number
of samples, under `ExactAssumption`, as the models' integers stand for the code's
doubles: each number up to the window divides the samples. The pass is a recursion
as deep as the window, which `Stepwise` turns into an induction over its steps:
after k of them the running mean times k is the sum (`MeansAre`) and the running
sum of squares is that of the deviations (`DeviationsAre`). Each step divides
without a rest, since a sum of multiples is one (`SumIsMultiple`, `WholeQuotient`)
and what two neighbours divide their product divides (`OfBoth`). `PassIsExact` puts
these together, and `PassReadsWindow` says that the slots hold the window's
samples, on whose order nothing depends.

**Sums.** `BytesAccounting`, `WindowIsLatest`, the elements in a ring of blocks, the
posts of the blocking queue and what consumers have reserved are about sums over sets, `SumFunctionOnSet` of the community modules, which a
fold over an arbitrary choice defines. Their laws (a sum over one element more or
less, over a function changed at one place, of naturals, of zeros) need induction
over the size of the set, and the induction theorems of the library cannot be
used with the provers at hand. `SumTheorems` proves them without: a failing size
would have a least one (`LeastNumber`, from the well-foundedness of the naturals),
whose predecessor does not fail.

**Semaphore.** For every set of waiters and of signallers. `PostsAreExact` is
inductive: posts made and under way equal the threads counted below zero that
the count does not show any more. `CounterIsImplemented` is a step-by-step
refinement; `PostsMatchWaiters` is what makes a wait that succeeds in the kernel,
also one that already timed out, take a signal that exists.

**Single-producer queue.** For any sizes asked for, block sizes that are powers of
two, and any number of elements and of timeouts (`QueueAssumption`). It also says
of the smallest power of two above a size that it is at most twice the size: the
provers know nothing of powers. `QueueInv` has these parts. `RingFits`: the blocks
form one ring, in the sense that no smaller set of them is closed under `next`,
which survives linking in a new one. `BlocksFit`: the blocks from `frontBlock` to
`tailBlock` hold the elements from `taken` to `given` in order, those between the
two are full, and the others are empty, but for the one `enqueue` is filling ahead.
`BlockFits`, in each block: what a thread has seen of the other's index lags
behind it, so that a consumer which trusts its copy finds an element and a producer
a free slot. `ProducerFits` and `ConsumerFits`: what each knows at its step, as that
a block left for the next is drained, which the second look at `tail` (`Recheck`) is
for. `SemaphoreFits`: elements are permits, those taken and those not signalled
yet, and a post is owed to the one asleep exactly if the count shows it. `RoomFits`
with `SizeFits`: if all blocks are in use and the last is full, they hold at least
`size` elements (`RoomIsFound`, by a sum over the blocks). Each action has a lemma;
`ElementsInOrder` (`Fifo`), `SizeIsRoom` (`HoldsSize`) and `SizesStayEqual`
(`SizesAgree`) follow.

**Blocking queue.** For finite sets of producers and consumers, calls for any
numbers of elements, any timeouts, and queues of any length
(`BlockingAssumption`). `PermitsAreElements` proves `PermitsMatchElements`, which is
not inductive: the count of the semaphore goes below zero for waiters, a timeout
takes that back in two steps, and a producer posts after it has signalled.
`BlockingInv` balances two accounts. `ElementsCounted`: the elements are those that
permits were taken for, those not signalled yet, and the count, where each
consumer asleep has lowered it by one. `PostsOwed`: posts made or still to be
made are the sleepers that the count does not show below zero any more.
`PermitsInUse` and `OneSignal` say in which steps of a call permits and posts
exist at all. Each step moves one amount from one term to another; the lemmas
`GainsStep`, `AwakeStep`, `AsleepStep` and `LeavesStep` do it once for all of them.

**Dequeue calls.** For every number of producers, which may join during a call, of
consumers and rotations (`ConcurrentQueueAssumption`), `EveryProducerIsAsked`
proves `EveryoneAsked`: a call that returns less than it was asked for saw every
producer empty that was there at its start. `CallsInv` says for each stage of a
call which producers it has seen: by score, those from the pointer on unless one
was found that is not empty (`ScoredSoFar`); down the list, those from the pointer
on and the best one before them (`AskedSoFar`); with a token, those from its
current one around to the pointer, across the end of the list, beginning anew
from wherever something was got (`RoundSoFar`). `TokenFits` keeps a token's two
producers in the list, which grows and never shrinks.

**Producers.** For any finite number of threads, any hashes, an initial table of any
power of two and any number of producers (`ProducersAssumption`, which also says that
a power of two is at least twice its exponent as far as tables can be doubled: the provers know
nothing of powers). `ProducersInv` has these parts. `TablesFit`: tables never get
smaller; a thread's key is in at most one slot of a table, with the producer it got
first, and from the slot its hash asks for up to there no slot is free, which is what
a search that ends at a free slot relies on. `SearchFits`: what a thread in a call has
found out (it is in no later table, the slots it passed are other threads') is not
undone by the others, since a key, once written, stays and each thread writes its
own only. `LockFits`: one thread at a time makes a table, and the one it doubles is
the last. `OwnFits`: a producer has one owner, through a token, a table or a call in
progress, and is not on offer; only explicit ones are ever offered again.
`CountFits` is for the free slot, and is the one that took thought: the threads that have
a slot or are on their way to one are as many as `implicitProducerHashCount` says,
but the count falls when a call fails, so that a thread's `newCount` may be equal to
another's and says little about those counted later. What holds is that there is a
number for each thread, its `newCount` as long as it is on its way, with at most b of
them up to b (`UpTo`), and below the room of each table it has a slot in; a full
table would need as many threads as slots below its room, three quarters of them
(`TableIsNotFull`, by the pigeonhole principle). `ProducersAreOwned` proves
`OwnProducer`, `TablesAreNeverFull` `SlotIsFree`.

**Free blocks.** For any pool, any number of blocks, and threads that are finitely
many and fewer than the flag in the counts, 2^31 (`FreeListAssumption`: with more,
references would run into the flag). `FreeListInv` follows each node. `NodesFit`:
it is in one place, which is to be fresh, held by one thread, about to be linked
in by one, exposed and not pushed yet, on the list, popped, or flagged for the
last of those who refer to it; and its count is what the place gives it (0, 1 or
the flag) plus one for each thread that refers to it. So a count that a thread has
compared tells it the place: `Flag + 1` that it is the last to refer to a flagged
node, 1 after a failed push that nobody took a reference meanwhile. `ThreadFits`:
the next pointer a thread has read, or written, is the node's until it is done,
which is what saves the compare-and-swap on the head from the node's having gone
and come back; only a node in the place "adding", to which nobody refers, changes
its pointer. `ListEnds`: from the head one gets to null along distinct nodes, so
that the nodes listed are those of a path, which a pop shortens and a push
lengthens by its head (`ListPops`, `ListPushes`). `BlocksHaveOneOwner` proves
`OneOwner`, `NoBlockIsLost` `NoneLost`.

**Counters of a producer's queue.** For any finite number of consumers, calls for any
numbers of elements, and any length (`SubQueueAssumption`). `CountersAgree` proves
`CountsAgree`, and `ClaimsInv` on the way what the code relies on without saying so:
a consumer that finds room at its second look claims indices of elements which
are there. A consumer reserves by adding to one count, gives back by adding to
another, and compares neither with `headIndex`; so what it finds may be taken by
others that have reserved before or after it. `CountsMatch`: the optimistic
count is what was claimed, what was given back, and what is reserved now. `GrantsFit`:
what all those who found room may claim ends before the tail. For a consumer that
still has to look (`ReserveFits`), either those who reserved before it, with
what they were granted since, are within what it counts from, or another one
that reserved after it found room for itself and for all of these. The second
case is the one that took thought: the overcommit a consumer counts with may be
older than others' giving back, so that its own sum says less than is true.

**Queue of a producer without a token.** From the same assumption: blocks and
indices of any size from 2 on, bulks of any size, which may run out of memory at
any point, and any number of consumers. `QueueInv` numbers the blocks in the order
in which they are entered, so that element i is in the block with number
`Num(i)`. `EntriesFit`: in each index ever made, old and new, the entries are
arranged so that going on from an entry gets to the next number (`HeadersFit`),
and from the first block in use to the last the entries are the right ones, while
those of others may be used again (`KeysFit`). So a
consumer that looked up a header and its last slot, and finds the way from the key
it reads there, gets to the entry it needs (`TakersSee`, with `Points`), although the
producer enters blocks and replaces the index meanwhile. `TakersFit`: indices
claimed belong to one consumer, which goes through them in order. `Owned`: a block
is in the pool, or entered for one number, or with the one consumer that emptied
it and will free it; `empty` counts the indices consumers are done with, so that
one of them alone sees the count reach `BLOCK_SIZE`. `ProducerFits`: what a bulk
call has linked and entered so far, which it takes back if there is no more
memory. `DataFits`: an element not yet taken is where it was put. Each action has
a lemma, with one step for each part it disturbs. `ElementsAreRight`
(`RightElements`) and `AssertsOfImplicit` (`EntryAsserts`, one half of
`AssertsOfBoth`: the entry found has the key looked for and a block, and no block is
emptied beyond its size) follow, and `ImplicitInvariant` states the invariant itself.

`BlocksAreReturned` is `BlocksReturn`: between the producer's calls the blocks not
in the pool are as many as those with an element that is, will be or was just now
there. It is a bijection from the numbers in use to these blocks (`UsedBlocks`), and
needs that a consumer which is done keeps no trace of its last call
(`TakersBlank`).

`TypeCorrect`, `RecvTypeCorrect`, `BucketTypeCorrect`, `LimiterIsTyped`,
`MapStaysAhead` and `DropsAreOld` are proved about formulas that no run checks any
more, since the proof covers every instance.

Only model-checked, because the provers cannot reach them: the liveness properties
(`AllIsRead`, `SignalIsTaken`, `NobodyWaits`, `WaitEnds`). Only model-checked
so far: `RightElements`, `CountsAgree`, `BlocksReturn` and the assertions for a
producer **with** a token. The counters are the same (`ClaimsInv` speaks of
`SubQueue` alone), but its blocks are a ring which the producer reuses in place and
its index a circle counted by `pr_blockIndexSlotsUsed`, for which `QueueInv` would
have to be found anew; and with bulk calls that run out of memory, it does not hold
(`failed_bulk`). Not proved either is what is taken apart here: that the queue
over all producers, whose `dequeue` from one producer is one action in
`ConcurrentQueue`, is implemented by those producers' queues.

## 5. What is not modelled, and the plan

Left out for good:

* `matplotlibcpp.h` and `wyhash.h`, calls into Python and a hash function;
  plotting itself (`Plot.cpp` is not built; it hands its vectors to a thread over
  the queue of `ReaderWriterQueue`, with a counter `m_numQueued` that is never
  initialised and a destructor that leaves what is queued);
* addresses, clock reading and system-call wrappers: no protocol state; what
  `recv` and `sendto` do to a stream is in `SendPath` and `RecvPath`;
* the text of the log, and the construction of the stream, whose threads start
  before the members they use exist: undefined from the first step;
* in `concurrentqueue.h`: moves, destructors, exceptions of the elements'
  constructors, `MAX_SUBQUEUE_SIZE`, the clean-up at thread exit (not compiled
  here), and weak memory ordering;
* `retransmitOlderThan`, `RollingWindow`, `RollingFilter` and `Poller`, which
  nothing in the transport calls.

One thing seen while modelling and harmless: a token's quota is compared with
`==` after single dequeues, while bulk calls may step past it; such a token does
not start a rotation until another one does.

What is left, in this order:

1. Proofs: the ring of blocks and the circular index of `ExplicitProducer`, without
   failing bulk calls; `ClaimsInv` can be used as it is.
2. `Session`: the successive streams of `test_server` on one port, and `m_peer`.
3. Liveness of the sending half: a segment that keeps being acked is settled,
   and a sweep that ends.
