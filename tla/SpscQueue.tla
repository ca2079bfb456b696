----------------------------- MODULE SpscQueue -----------------------------
(***************************************************************************)
(* spsc/SpscQueue.h: the single-producer single-consumer ring buffer with  *)
(* free-running unsigned indices and a cached copy of the other side's     *)
(* index, one action per access to shared memory.                          *)
(*                                                                         *)
(* std::size_t has IndexMod values, so index arithmetic is modulo          *)
(* IndexMod; the mask `& (Capacity - 1)` is `% Capacity` because Capacity  *)
(* is a power of two (module SpscSequential works on the bits).  head_ and *)
(* tail_ are modification orders, so a load by the other thread may be     *)
(* stale.  Each slot carries two stamps, never read by the program: the    *)
(* producer's write count when it was last written and the consumer's read *)
(* count when it was last read.  They tell data races.                     *)
(*                                                                         *)
(* The operators named Faulty... are coding errors one could make here;    *)
(* nothing uses them, and substituted for the definition that follows each *)
(* they show that the properties notice.                                   *)
(***************************************************************************)
EXTENDS Integers, Sequences, MemoryOrder

CONSTANTS
  Capacity,      \* slots of buf_
  IndexMod,      \* number of values of std::size_t
  Indeterminate  \* what a slot holds before anything is stored in it

ASSUME CapacityAssumption ==
  /\ Capacity \in Nat \ {0}
  /\ IndexMod \in Nat
  /\ \E laps \in 2 .. IndexMod : IndexMod = Capacity * laps

VARIABLES
  queue,     \* what both threads reach: buf (buf_), head (head_), tail (tail_)
  producer,  \* the pushing thread: try_push's locals, head_cache_, its clock
  consumer   \* the popping thread: try_pop's locals, tail_cache_, its clock

-----------------------------------------------------------------------------
(* The ring and its indices.                                               *)

Slots == 0 .. Capacity - 1
Indices == 0 .. IndexMod - 1

SlotOf(index) == index % Capacity

FaultySuccNoWrap(index) == index + 1
Succ(index) == (index + 1) % IndexMod
Distance(tail, head) == (tail - head) % IndexMod

QueueInit ==
  queue = [buf  |-> [s \in Slots |->
                       [value |-> Indeterminate, written |-> 0, read |-> 0]],
           head |-> <<[index |-> 0, accesses |-> 0]>>,
           tail |-> <<[index |-> 0, accesses |-> 0]>>]

ProducerInit ==
  producer = [pc |-> "idle", t |-> 0, item |-> Indeterminate, head_cache |-> 0,
              seen |-> 1, writes |-> 0, reads_known |-> 0]

ConsumerInit ==
  consumer = [pc |-> "idle", h |-> 0, out |-> Indeterminate, tail_cache |-> 0,
              seen |-> 1, reads |-> 0, writes_known |-> 0]

-----------------------------------------------------------------------------
(* try_push.  The load of tail_ and the test against head_cache_ touch     *)
(* only what the producer alone writes, so they are one step.              *)

FaultyHeadLoadRelaxed == "relaxed"
HeadLoadOrder == "acquire"

FaultyTailStoreRelaxed == "relaxed"
TailStoreOrder == "release"

FaultyFullTooLate(t, head) == Distance(t, head) > Capacity
LooksFull(t, head) == Distance(t, head) = Capacity

PushCall(item) ==
  LET t == Latest(queue.tail).index IN
  /\ producer.pc = "idle"
  /\ producer' = [producer EXCEPT
       !.t = t,
       !.item = item,
       !.pc = IF LooksFull(t, producer.head_cache) THEN "reload" ELSE "write"]
  /\ UNCHANGED queue

FaultyNoReload(seen, next) ==
  /\ producer.pc = "reload"
  /\ LooksFull(producer.t, producer.head_cache) = (next = "idle")
  /\ producer' = [producer EXCEPT !.pc = next]
  /\ UNCHANGED queue

(* The cached guess says "full": reload head_ from message `seen`.         *)
LoadHead(seen, next) ==
  LET message == queue.head[seen] IN
  /\ producer.pc = "reload"
  /\ LooksFull(producer.t, message.index) = (next = "idle")
  /\ producer' = [producer EXCEPT
       !.head_cache = message.index,
       !.seen = seen,
       !.reads_known = Acquired(HeadLoadOrder, @, message.accesses),
       !.pc = next]
  /\ UNCHANGED queue

PushReload == \E seen \in Visible(queue.head, producer.seen) : LoadHead(seen, "write")

(* try_push returns false.                                                 *)
PushFull == \E seen \in Visible(queue.head, producer.seen) : LoadHead(seen, "idle")

PushWrite ==
  /\ producer.pc = "write"
  /\ producer' = [producer EXCEPT !.pc = "publish", !.writes = @ + 1]
  /\ queue' = [queue EXCEPT
       !.buf[SlotOf(producer.t)].value = producer.item,
       !.buf[SlotOf(producer.t)].written = producer.writes + 1]

(* tail_.store, and try_push returns true.                                 *)
PushPublish ==
  /\ producer.pc = "publish"
  /\ queue' = [queue EXCEPT
       !.tail = Append(@, [index |-> Succ(producer.t),
                           accesses |-> Released(TailStoreOrder, producer.writes)])]
  /\ producer' = [producer EXCEPT !.pc = "idle"]

-----------------------------------------------------------------------------
(* try_pop, in the same steps.                                             *)

TailLoadOrder == "acquire"
HeadStoreOrder == "release"

FaultyEmptyByOrder(h, tail) == h >= tail
FaultyEmptyTooLate(h, tail) == h = Succ(tail)
LooksEmpty(h, tail) == h = tail

PopCall ==
  LET h == Latest(queue.head).index IN
  /\ consumer.pc = "idle"
  /\ consumer' = [consumer EXCEPT
       !.h = h,
       !.pc = IF LooksEmpty(h, consumer.tail_cache) THEN "reload" ELSE "read"]
  /\ UNCHANGED queue

LoadTail(seen, next) ==
  LET message == queue.tail[seen] IN
  /\ consumer.pc = "reload"
  /\ LooksEmpty(consumer.h, message.index) = (next = "idle")
  /\ consumer' = [consumer EXCEPT
       !.tail_cache = message.index,
       !.seen = seen,
       !.writes_known = Acquired(TailLoadOrder, @, message.accesses),
       !.pc = next]
  /\ UNCHANGED queue

PopReload == \E seen \in Visible(queue.tail, consumer.seen) : LoadTail(seen, "read")

(* try_pop returns false.                                                  *)
PopEmpty == \E seen \in Visible(queue.tail, consumer.seen) : LoadTail(seen, "idle")

PopRead ==
  /\ consumer.pc = "read"
  /\ consumer' = [consumer EXCEPT
       !.pc = "publish",
       !.out = queue.buf[SlotOf(consumer.h)].value,
       !.reads = @ + 1]
  /\ queue' = [queue EXCEPT !.buf[SlotOf(consumer.h)].read = consumer.reads + 1]

(* head_.store, and try_pop returns true.                                  *)
PopPublish ==
  /\ consumer.pc = "publish"
  /\ queue' = [queue EXCEPT
       !.head = Append(@, [index |-> Succ(consumer.h),
                           accesses |-> Released(HeadStoreOrder, consumer.reads)])]
  /\ consumer' = [consumer EXCEPT !.pc = "idle"]

-----------------------------------------------------------------------------
(* Types, with Item the set of items the producer pushes.                  *)

Steps == {"idle", "reload", "write", "read", "publish"}

QueueTypeOK(Item) ==
  LET Message == [index : Indices, accesses : Nat] IN
  queue \in [buf  : [Slots -> [value : Item \union {Indeterminate},
                               written : Nat, read : Nat]],
             head : Seq(Message),
             tail : Seq(Message)]

ProducerTypeOK(Item) ==
  producer \in [pc : Steps \ {"read"}, t : Indices,
                item : Item \union {Indeterminate}, head_cache : Indices,
                seen : Nat, writes : Nat, reads_known : Nat]

ConsumerTypeOK(Item) ==
  consumer \in [pc : Steps \ {"write"}, h : Indices,
                out : Item \union {Indeterminate}, tail_cache : Indices,
                seen : Nat, reads : Nat, writes_known : Nat]

-----------------------------------------------------------------------------
(* Correctness.                                                            *)

(* No data race on a slot (buf_[..].value is a plain object, lines 41 and  *)
(* 55): when the producer is about to overwrite a slot, the consumer's     *)
(* last read of it happens before, and when the consumer is about to read  *)
(* a slot, the producer's last write of it happens before.  This is what   *)
(* the acquire/release pairs on head_ and tail_ are for.                   *)
DataRaceFree ==
  /\ producer.pc = "write" =>
       queue.buf[SlotOf(producer.t)].read <= producer.reads_known
  /\ consumer.pc = "read" =>
       queue.buf[SlotOf(consumer.h)].written <= consumer.writes_known

(* A stale cached index errs on the safe side only (comment, lines 75-79): *)
(* however the indices have wrapped, head_cache_ lies between tail_ minus  *)
(* Capacity and head_, and tail_cache_ between head_ and tail_, so the     *)
(* producer never sees more room, and the consumer never more items, than  *)
(* there are.                                                              *)
StaleCacheIsSafe ==
  LET tail == Latest(queue.tail).index
      head == Latest(queue.head).index
  IN /\ Distance(tail, producer.head_cache) \in Distance(tail, head) .. Capacity
     /\ Distance(consumer.tail_cache, head) \in 0 .. Distance(tail, head)

(* The queue's contents as its indices and slots represent them.           *)
Contents ==
  LET tail == Latest(queue.tail).index
      head == Latest(queue.head).index
  IN [i \in 1 .. Distance(tail, head) |-> queue.buf[SlotOf(head + i - 1)].value]
=============================================================================
