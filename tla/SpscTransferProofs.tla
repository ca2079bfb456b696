------------------------- MODULE SpscTransferProofs -------------------------
(***************************************************************************)
(* Proofs about the transfer of N items through one SpscQueue, for every   *)
(* N, every Capacity and every index width: no data race, no item lost,    *)
(* repeated or out of order, a stale cache that errs on the safe side, a   *)
(* ring buffer that implements a bounded first-in first-out queue; and,    *)
(* when size() is called meanwhile, that the calls disturb nothing and     *)
(* that what they tell an owner of an index is one-sided.                  *)
(***************************************************************************)
EXTENDS SpscSize, TLAPS

P == INSTANCE QueueProofs
  WITH pushed <- p_expected, popped <- c_expected, items <- [k \in Nat |-> k], Value <- Item

(* What P says of its queue is said of this one.                           *)
LEMMA SameInv == Progress!Inv <=> P!Inv
BY DEF Progress!Inv, Progress!TypeInv, Progress!QueueTypeOK, Progress!ProducerTypeOK,
       Progress!ConsumerTypeOK, Progress!Steps, Progress!Slots, Progress!Indices,
       Progress!LogsInv, Progress!ProducerInv, Progress!ConsumerInv, Progress!SlotsInv,
       Progress!SlotOf,
       P!Inv, P!TypeInv, P!QueueTypeOK, P!ProducerTypeOK, P!ConsumerTypeOK, P!Steps, P!Slots,
       P!Indices, P!LogsInv, P!ProducerInv, P!ConsumerInv, P!SlotsInv, P!SlotOf

LEMMA SameInit ==
  /\ QueueInit <=> P!QueueInit
  /\ ProducerInit <=> P!ProducerInit
  /\ ConsumerInit <=> P!ConsumerInit
BY DEF QueueInit, ProducerInit, ConsumerInit, Slots,
       P!QueueInit, P!ProducerInit, P!ConsumerInit, P!Slots

LEMMA SameIndices ==
  /\ \A log : P!Latest(log) = Latest(log)
  /\ \A log, seen : P!Visible(log, seen) = Visible(log, seen)
  /\ \A a, b : P!Distance(a, b) = Distance(a, b)
  /\ \A a, b : P!LooksFull(a, b) <=> LooksFull(a, b)
  /\ \A a, b : P!LooksEmpty(a, b) <=> LooksEmpty(a, b)
BY DEF Latest, Visible, Distance, LooksFull, LooksEmpty,
       P!Latest, P!Visible, P!Distance, P!LooksFull, P!LooksEmpty

LEMMA SamePush ==
  /\ \A item : PushCall(item) <=> P!PushCall(item)
  /\ \A seen, next : LoadHead(seen, next) <=> P!LoadHead(seen, next)
  /\ PushWrite <=> P!PushWrite
  /\ PushPublish <=> P!PushPublish
BY DEF PushCall, LoadHead, PushWrite, PushPublish, Latest, LooksFull, Distance, Acquired,
       HeadLoadOrder, SlotOf, Succ, Released, TailStoreOrder,
       P!PushCall, P!LoadHead, P!PushWrite, P!PushPublish, P!Latest, P!LooksFull, P!Distance,
       P!Acquired, P!HeadLoadOrder, P!SlotOf, P!Succ, P!Released, P!TailStoreOrder

LEMMA SamePop ==
  /\ PopCall <=> P!PopCall
  /\ \A seen, next : LoadTail(seen, next) <=> P!LoadTail(seen, next)
  /\ PopRead <=> P!PopRead
  /\ PopPublish <=> P!PopPublish
BY DEF PopCall, LoadTail, PopRead, PopPublish, Latest, LooksEmpty, Acquired,
       TailLoadOrder, SlotOf, Succ, Released, HeadStoreOrder,
       P!PopCall, P!LoadTail, P!PopRead, P!PopPublish, P!Latest, P!LooksEmpty,
       P!Acquired, P!TailLoadOrder, P!SlotOf, P!Succ, P!Released, P!HeadStoreOrder

LEMMA InvIsProgress ==
  /\ Inv <=> P!Inv /\ LoopsInv
  /\ Inv' <=> P!Inv' /\ LoopsInv'
<1>1. Inv <=> P!Inv /\ LoopsInv
  BY SameInv DEF Inv
<1> QED
  BY <1>1, PTL

-----------------------------------------------------------------------------
(* What the threads know of each other's progress is in order: pops the    *)
(* producer knows of, pops, pushes the consumer knows of, pushes.          *)
LEMMA Order ==
  ASSUME Inv
  PROVE  /\ producer.seen \in Nat /\ consumer.seen \in Nat
         /\ p_expected \in Nat /\ c_expected \in Nat
         /\ producer.seen - 1 <= c_expected
         /\ c_expected <= consumer.seen - 1 /\ consumer.seen - 1 <= p_expected
         /\ c_expected <= p_expected /\ p_expected - c_expected <= Capacity
         /\ Capacity \in Nat
<1>1. P!Inv
  BY InvIsProgress
<1> QED
  BY <1>1, P!Order, P!ItemsHeld, CapacityAssumption

(* The distance of the two indices is the number of items.                 *)
LEMMA IndicesHold ==
  ASSUME Inv
  PROVE  Distance(Latest(queue.tail).index, Latest(queue.head).index) = p_expected - c_expected
<1>1. P!Inv
  BY InvIsProgress
<1>2. /\ Latest(queue.tail).index = p_expected % IndexMod
      /\ Latest(queue.head).index = c_expected % IndexMod
  BY <1>1, P!LatestIndices, SameIndices, CapacityAssumption
<1>3. Distance(p_expected % IndexMod, c_expected % IndexMod) = p_expected - c_expected
  BY Order, P!DistanceOfCounters, SameIndices, CapacityAssumption
<1> QED
  BY <1>2, <1>3

-----------------------------------------------------------------------------
LEMMA InitInv == Init => Inv
<1> SUFFICES ASSUME Init
             PROVE  Inv
  OBVIOUS
<1>1. P!Inv
  BY P!InitInv, SameInit, CapacityAssumption DEF Init
<1>2. LoopsInv
  BY TransferAssumption DEF Init, ProducerInit, ConsumerInit, LoopsInv
<1> QED
  BY <1>1, <1>2, InvIsProgress

LEMMA ProducerKeepsInv ==
  ASSUME Inv, ProducerThread
  PROVE  Inv'
<1> DEFINE items == [k \in Nat |-> k]
<1>1. P!Inv /\ LoopsInv
  BY InvIsProgress
<1>2. p_expected \in Nat /\ N \in Nat
  BY Order, TransferAssumption
<1>3. CASE ProducerCalls
  <2>1. /\ p_expected < N /\ PushCall(p_expected)
        /\ UNCHANGED <<consumer, p_expected, c_expected>>
    BY <1>3 DEF ProducerCalls
  <2>2. items[p_expected] = p_expected /\ p_expected \in Item
    BY <1>2, <2>1 DEF Item
  <2>3. P!PushCall(items[p_expected])
    BY <2>1, <2>2, SamePush
  <2>4. P!Inv'
    BY <1>1, <2>1, <2>2, <2>3, P!PushCallInv, CapacityAssumption
  <2>5. LoopsInv'
    BY <1>1, <2>1 DEF LoopsInv
  <2> QED
    BY <2>4, <2>5, InvIsProgress
<1>4. CASE ProducerSteps
  <2>1. UNCHANGED <<consumer, p_expected, c_expected>>
    BY <1>4 DEF ProducerSteps
  <2>2. CASE PushReload \/ PushFull
    <3>1. PICK seen \in Visible(queue.head, producer.seen), next \in {"write", "idle"} :
            LoadHead(seen, next)
      BY <2>2 DEF PushReload, PushFull
    <3>2. seen \in P!Visible(queue.head, producer.seen) /\ P!LoadHead(seen, next)
      BY <3>1, SameIndices, SamePush
    <3>3. P!Inv'
      BY <1>1, <2>1, <3>2, P!LoadHeadInv, CapacityAssumption
    <3>4. producer.pc = "reload"
      BY <3>1 DEF LoadHead
    <3>5. LoopsInv'
      BY <1>1, <2>1, <3>4 DEF LoopsInv
    <3> QED
      BY <3>3, <3>5, InvIsProgress
  <2>3. CASE PushWrite
    <3>1. P!Inv'
      BY <1>1, <2>1, <2>3, P!PushWriteInv, SamePush, CapacityAssumption
    <3>2. LoopsInv'
      BY <1>1, <2>1, <2>3 DEF PushWrite, LoopsInv
    <3> QED
      BY <3>1, <3>2, InvIsProgress
  <2> QED
    BY <1>4, <2>2, <2>3 DEF ProducerSteps
<1>5. CASE ProducerReturns
  <2>1. PushPublish /\ p_expected' = p_expected + 1 /\ UNCHANGED <<consumer, c_expected>>
    BY <1>5 DEF ProducerReturns
  <2>2. P!Inv'
    BY <1>1, <2>1, P!PushPublishInv, SamePush, CapacityAssumption
  <2>3. p_expected < N /\ producer'.pc = "idle"
    BY <1>1, <2>1 DEF PushPublish, LoopsInv, P!Inv, P!TypeInv, P!ProducerTypeOK
  <2>4. LoopsInv'
    BY <1>1, <1>2, <2>1, <2>3 DEF LoopsInv
  <2> QED
    BY <2>2, <2>4, InvIsProgress
<1> QED
  BY <1>3, <1>4, <1>5 DEF ProducerThread

LEMMA ConsumerKeepsInv ==
  ASSUME Inv, ConsumerThread
  PROVE  Inv'
<1>1. P!Inv /\ LoopsInv
  BY InvIsProgress
<1>2. CASE ConsumerCalls
  <2>1. c_expected < N /\ PopCall /\ UNCHANGED <<producer, p_expected, c_expected>>
    BY <1>2 DEF ConsumerCalls
  <2>2. P!Inv'
    BY <1>1, <2>1, P!PopCallInv, SamePop, CapacityAssumption
  <2>3. LoopsInv'
    BY <1>1, <2>1 DEF LoopsInv
  <2> QED
    BY <2>2, <2>3, InvIsProgress
<1>3. CASE ConsumerSteps
  <2>1. UNCHANGED <<producer, p_expected, c_expected>>
    BY <1>3 DEF ConsumerSteps
  <2>2. CASE PopReload \/ PopEmpty
    <3>1. PICK seen \in Visible(queue.tail, consumer.seen), next \in {"read", "idle"} :
            LoadTail(seen, next)
      BY <2>2 DEF PopReload, PopEmpty
    <3>2. seen \in P!Visible(queue.tail, consumer.seen) /\ P!LoadTail(seen, next)
      BY <3>1, SameIndices, SamePop
    <3>3. P!Inv'
      BY <1>1, <2>1, <3>2, P!LoadTailInv, CapacityAssumption
    <3>4. consumer.pc = "reload"
      BY <3>1 DEF LoadTail
    <3>5. LoopsInv'
      BY <1>1, <2>1, <3>4 DEF LoopsInv
    <3> QED
      BY <3>3, <3>5, InvIsProgress
  <2>3. CASE PopRead
    <3>1. P!Inv'
      BY <1>1, <2>1, <2>3, P!PopReadInv, SamePop, CapacityAssumption
    <3>2. LoopsInv'
      BY <1>1, <2>1, <2>3 DEF PopRead, LoopsInv
    <3> QED
      BY <3>1, <3>2, InvIsProgress
  <2> QED
    BY <1>3, <2>2, <2>3 DEF ConsumerSteps
<1>4. CASE ConsumerReturns
  <2>1. PopPublish /\ c_expected' = c_expected + 1 /\ UNCHANGED <<producer, p_expected>>
    BY <1>4 DEF ConsumerReturns
  <2>2. P!Inv'
    BY <1>1, <2>1, P!PopPublishInv, SamePop, CapacityAssumption
  <2>3. c_expected < N /\ consumer'.pc = "idle"
    BY <1>1, <2>1 DEF PopPublish, LoopsInv, P!Inv, P!TypeInv, P!ConsumerTypeOK
  <2>4. LoopsInv'
    BY <1>1, <2>1, <2>3, Order, TransferAssumption DEF LoopsInv
  <2> QED
    BY <2>2, <2>4, InvIsProgress
<1> QED
  BY <1>2, <1>3, <1>4 DEF ConsumerThread

LEMMA NextInv == Inv /\ [Next]_vars => Inv'
<1> SUFFICES ASSUME Inv, [Next]_vars
             PROVE  Inv'
  OBVIOUS
<1>1. CASE ProducerThread
  BY <1>1, ProducerKeepsInv
<1>2. CASE ConsumerThread
  BY <1>2, ConsumerKeepsInv
<1>3. CASE UNCHANGED vars
  <2>1. UNCHANGED <<queue, producer, consumer, p_expected, c_expected>>
    BY <1>3 DEF vars
  <2>2. P!Inv /\ LoopsInv
    BY InvIsProgress
  <2>3. P!Inv'
    BY <2>1, <2>2, P!UnchangedInv, CapacityAssumption
  <2>4. LoopsInv'
    BY <2>1, <2>2 DEF LoopsInv
  <2> QED
    BY <2>3, <2>4, InvIsProgress
<1> QED
  BY <1>1, <1>2, <1>3 DEF Next, Joined

-----------------------------------------------------------------------------
(* Every state of the transfer satisfies the invariant: what each thread   *)
(* knows of the other, and what each slot holds, survives every step of    *)
(* try_push and try_pop (lines 32 to 58), every stale load and every wrap. *)
THEOREM Invariance == Safety => []Inv
<1> QED
  BY InitInv, NextInv, PTL DEF Safety

(* The queue, the threads' locals and the loop counters keep their types.  *)
THEOREM TypeCorrect == Safety => []TypeOK
<1>1. Inv => TypeOK
  BY InvIsProgress, TransferAssumption
  DEF TypeOK, QueueTypeOK, ProducerTypeOK, ConsumerTypeOK, Steps, Slots, Indices, LoopsInv,
      P!Inv, P!TypeInv, P!QueueTypeOK, P!ProducerTypeOK, P!ConsumerTypeOK, P!Steps, P!Slots,
      P!Indices
<1> QED
  BY <1>1, Invariance, PTL

LEMMA InvInOrder == Inv => InOrder
<1> SUFFICES ASSUME Inv, consumer.pc = "publish"
             PROVE  consumer.out = c_expected
  BY DEF InOrder
<1>1. consumer.out = [k \in Nat |-> k][c_expected]
  BY InvIsProgress, P!ItemsHeld, CapacityAssumption
<1> QED
  BY <1>1, Order

(* The assertion of the consumer's loop (spsc_bench.cpp line 79) never     *)
(* fails.                                                                  *)
THEOREM ItemsInOrder == Safety => []InOrder
<1>1. Inv => InOrder
  BY InvInOrder
<1> QED
  BY <1>1, Invariance, PTL

LEMMA InvDataRaceFree == Inv => DataRaceFree
<1> SUFFICES ASSUME Inv
             PROVE  DataRaceFree
  OBVIOUS
<1>1. P!DataRaceFree
  BY InvIsProgress, P!InvDataRaceFree, CapacityAssumption
<1> QED
  BY <1>1 DEF DataRaceFree, SlotOf, P!DataRaceFree, P!SlotOf

(* No slot is written while its last read, nor read while its last write,  *)
(* is not ordered before: the accesses of lines 41 and 55 never race.      *)
THEOREM NoDataRace == Safety => []DataRaceFree
<1> QED
  BY InvDataRaceFree, Invariance, PTL

LEMMA InvStaleCache == Inv => StaleCacheIsSafe
<1> SUFFICES ASSUME Inv
             PROVE  StaleCacheIsSafe
  OBVIOUS
<1>1. P!StaleCacheIsSafe
  BY InvIsProgress, P!InvStaleCache, CapacityAssumption
<1> QED
  BY <1>1
  DEF StaleCacheIsSafe, Latest, Distance, P!StaleCacheIsSafe, P!Latest, P!Distance

(* A stale cache never makes the producer overwrite nor the consumer read  *)
(* ahead (comment of SpscQueue.h, lines 75 to 79), at any index width.     *)
THEOREM StaleCacheErrsSafe == Safety => []StaleCacheIsSafe
<1> QED
  BY InvStaleCache, Invariance, PTL

-----------------------------------------------------------------------------
(* The queue holds the items pushed and not yet popped, in order.          *)
Interval(a, b) == P!Segment([k \in Nat |-> k], a, b)

LEMMA IntervalSteps ==
  ASSUME NEW a \in Nat, NEW b \in Nat, a <= b
  PROVE  /\ Len(Interval(a, b)) = b - a
         /\ a = b => Interval(a, b) = <<>>
         /\ Append(Interval(a, b), b) = Interval(a, b + 1)
         /\ a < b => Interval(a, b) # <<>> /\ Tail(Interval(a, b)) = Interval(a + 1, b)
<1> DEFINE items == [k \in Nat |-> k]
<1>1. items[b] = b
  OBVIOUS
<1> HIDE DEF items
<1>2. /\ Len(P!Segment(items, a, b)) = b - a
      /\ a = b => P!Segment(items, a, b) = <<>>
  BY P!SegmentLen, CapacityAssumption
<1>3. Append(P!Segment(items, a, b), b) = P!Segment(items, a, b + 1)
  BY <1>1, P!SegmentAppend, CapacityAssumption
<1>4. a < b => /\ P!Segment(items, a, b) # <<>>
               /\ Tail(P!Segment(items, a, b)) = P!Segment(items, a + 1, b)
  BY P!SegmentTail, CapacityAssumption
<1> QED
  BY <1>2, <1>3, <1>4 DEF Interval, items

LEMMA InvContents == Inv => Contents = Interval(c_expected, p_expected)
<1> SUFFICES ASSUME Inv
             PROVE  Contents = Interval(c_expected, p_expected)
  OBVIOUS
<1>1. P!Contents = P!Segment([k \in Nat |-> k], c_expected, p_expected)
  BY InvIsProgress, P!InvContents, CapacityAssumption
<1> QED
  BY <1>1
  DEF Interval, Contents, Latest, Distance, SlotOf, P!Contents, P!Latest, P!Distance, P!SlotOf

(* Each step of the transfer is a push, a pop or a stutter of the queue    *)
(* that its indices represent, so the ring implements the safety part of   *)
(* a bounded first-in first-out queue of Capacity items.                   *)
THEOREM RingImplementsFifo == Safety => Fifo!Safety
<1>1. Init /\ Inv => Fifo!Init
  <2> SUFFICES ASSUME Init, Inv
               PROVE  Contents = <<>>
    BY DEF Fifo!Init
  <2>1. p_expected = 0 /\ c_expected = 0
    BY DEF Init
  <2> QED
    BY <2>1, InvContents, IntervalSteps
<1>2. Inv' => (Contents = Interval(c_expected, p_expected))'
  BY InvContents, PTL
<1>3. Inv /\ Inv' /\ [Next]_vars => [Fifo!Next]_Contents
  <2> SUFFICES ASSUME Inv, Inv', [Next]_vars
               PROVE  [Fifo!Next]_Contents
    OBVIOUS
  <2>1. /\ Contents = Interval(c_expected, p_expected)
        /\ Contents' = Interval(c_expected', p_expected')
    BY <1>2, InvContents
  <2>2. c_expected <= p_expected /\ p_expected \in Nat /\ c_expected \in Nat
    BY Order
  <2>3. CASE ProducerReturns
    <3>1. /\ p_expected' = p_expected + 1 /\ c_expected' = c_expected
          /\ p_expected \in Item /\ p_expected - c_expected < Capacity
      <4>1. p_expected' = p_expected + 1 /\ c_expected' = c_expected /\ producer.pc = "publish"
        BY <2>3 DEF ProducerReturns, PushPublish
      <4>2. p_expected < N /\ p_expected - c_expected < Capacity
        BY <4>1, InvIsProgress, P!ItemsHeld, CapacityAssumption DEF LoopsInv
      <4> QED
        BY <4>1, <4>2, Order, TransferAssumption DEF Item
    <3>2. Len(Contents) < Capacity /\ Contents' = Append(Contents, p_expected)
      BY <2>1, <2>2, <3>1, IntervalSteps
    <3> QED
      BY <3>1, <3>2 DEF Fifo!Next, Fifo!Push
  <2>4. CASE ConsumerReturns
    <3>1. /\ c_expected' = c_expected + 1 /\ p_expected' = p_expected
          /\ c_expected < p_expected
      BY <2>4, InvIsProgress, P!ItemsHeld, CapacityAssumption
      DEF ConsumerReturns, PopPublish
    <3>2. Contents # <<>> /\ Contents' = Tail(Contents)
      BY <2>1, <2>2, <3>1, IntervalSteps
    <3> QED
      BY <3>2 DEF Fifo!Next, Fifo!Pop
  <2>5. CASE UNCHANGED <<p_expected, c_expected>>
    BY <2>1, <2>5
  <2> QED
    BY <2>3, <2>4, <2>5
    DEF Next, ProducerThread, ConsumerThread, ProducerCalls, ProducerSteps, ConsumerCalls,
        ConsumerSteps, Joined, vars
<1> QED
  BY <1>1, <1>3, Invariance, PTL DEF Safety, Fifo!Safety
-----------------------------------------------------------------------------
(* The invariant of the transfer, and what size() said, held against the   *)
(* value of the other index the caller has seen since: the producer is     *)
(* told at least, and the consumer at most, what that value amounts to.    *)
SizeInv ==
  /\ Inv
  /\ producer_size # Unknown =>
       producer_size \in p_expected - (producer.seen - 1) .. Capacity
  /\ consumer_size # Unknown =>
       consumer_size \in 0 .. (consumer.seen - 1) - c_expected

-----------------------------------------------------------------------------
(* What size() computes from the producer's own index and any value of     *)
(* head_ it may load, and likewise for the consumer.                       *)
LEMMA ProducersSize ==
  ASSUME Inv, NEW seen \in Visible(queue.head, producer.seen)
  PROVE  /\ seen \in Nat /\ producer.seen <= seen /\ seen - 1 <= c_expected
         /\ Size(Latest(queue.tail).index, queue.head[seen].index) = p_expected - (seen - 1)
         /\ p_expected - (seen - 1) <= Capacity
<1>1. P!Inv /\ seen \in P!Visible(queue.head, producer.seen)
  BY InvIsProgress, SameIndices
<1>2. seen \in Nat /\ producer.seen <= seen /\ seen - 1 <= c_expected
  <2>1. seen \in Nat /\ seen \in producer.seen .. c_expected + 1
    BY <1>1, P!VisibleHead, CapacityAssumption
  <2> QED
    BY <2>1, Order
<1> QED
  BY <1>1, <1>2, P!DistanceSeenByProducer, SameIndices, CapacityAssumption DEF Size

LEMMA ConsumersSize ==
  ASSUME Inv, NEW seen \in Visible(queue.tail, consumer.seen)
  PROVE  /\ seen \in Nat /\ consumer.seen <= seen /\ seen - 1 <= p_expected
         /\ Size(queue.tail[seen].index, Latest(queue.head).index) = (seen - 1) - c_expected
         /\ c_expected <= seen - 1
<1>1. P!Inv /\ seen \in P!Visible(queue.tail, consumer.seen)
  BY InvIsProgress, SameIndices
<1>2. seen \in Nat /\ consumer.seen <= seen /\ seen - 1 <= p_expected
  <2>1. seen \in Nat /\ seen \in consumer.seen .. p_expected + 1
    BY <1>1, P!VisibleTail, CapacityAssumption
  <2> QED
    BY <2>1, Order
<1> QED
  BY <1>1, <1>2, P!DistanceSeenByConsumer, SameIndices, CapacityAssumption DEF Size

-----------------------------------------------------------------------------
(* What a thread has seen of the other's index never goes back.            *)
LEMMA SeenAdvances ==
  ASSUME Inv, [Next]_vars
  PROVE  /\ producer.seen <= producer'.seen /\ producer'.seen \in Nat
         /\ consumer.seen <= consumer'.seen /\ consumer'.seen \in Nat
<1>1. producer.seen \in Nat /\ consumer.seen \in Nat
  BY Order
<1>2. CASE ProducerThread
  <2>1. consumer' = consumer
    BY <1>2 DEF ProducerThread, ProducerCalls, ProducerSteps, ProducerReturns
  <2>2. CASE ProducerSteps /\ (PushReload \/ PushFull)
    <3>1. PICK seen \in Visible(queue.head, producer.seen), next \in {"write", "idle"} :
            LoadHead(seen, next)
      BY <2>2 DEF PushReload, PushFull
    <3>2. producer'.seen = seen
      BY <3>1, InvIsProgress DEF LoadHead, P!Inv, P!TypeInv, P!ProducerTypeOK
    <3>3. seen \in Nat /\ producer.seen <= seen
      BY ProducersSize
    <3> QED
      BY <1>1, <2>1, <3>2, <3>3
  <2>3. CASE ProducerCalls \/ PushWrite \/ PushPublish
    <3>1. producer'.seen = producer.seen
      BY <2>3, InvIsProgress
      DEF ProducerCalls, PushCall, PushWrite, PushPublish, P!Inv, P!TypeInv, P!ProducerTypeOK
    <3> QED
      BY <1>1, <2>1, <3>1
  <2> QED
    BY <1>2, <2>2, <2>3 DEF ProducerThread, ProducerSteps, ProducerReturns
<1>3. CASE ConsumerThread
  <2>1. producer' = producer
    BY <1>3 DEF ConsumerThread, ConsumerCalls, ConsumerSteps, ConsumerReturns
  <2>2. CASE ConsumerSteps /\ (PopReload \/ PopEmpty)
    <3>1. PICK seen \in Visible(queue.tail, consumer.seen), next \in {"read", "idle"} :
            LoadTail(seen, next)
      BY <2>2 DEF PopReload, PopEmpty
    <3>2. consumer'.seen = seen
      BY <3>1, InvIsProgress DEF LoadTail, P!Inv, P!TypeInv, P!ConsumerTypeOK
    <3>3. seen \in Nat /\ consumer.seen <= seen
      BY ConsumersSize
    <3> QED
      BY <1>1, <2>1, <3>2, <3>3
  <2>3. CASE ConsumerCalls \/ PopRead \/ PopPublish
    <3>1. consumer'.seen = consumer.seen
      BY <2>3, InvIsProgress
      DEF ConsumerCalls, PopCall, PopRead, PopPublish, P!Inv, P!TypeInv, P!ConsumerTypeOK
    <3> QED
      BY <1>1, <2>1, <3>1
  <2> QED
    BY <1>3, <2>2, <2>3 DEF ConsumerThread, ConsumerSteps, ConsumerReturns
<1>4. CASE UNCHANGED vars
  BY <1>1, <1>4 DEF vars
<1> QED
  BY <1>2, <1>3, <1>4 DEF Next, Joined

-----------------------------------------------------------------------------
LEMMA SizeInitInv == SizeInit => SizeInv
BY InitInv DEF SizeInit, SizeInv

LEMMA TransferKeepsSizeInv == SizeInv /\ TransferSteps => SizeInv'
<1> SUFFICES ASSUME SizeInv, TransferSteps
             PROVE  SizeInv'
  OBVIOUS
<1>1. Inv /\ [Next]_vars
  BY DEF SizeInv, TransferSteps
<1>2. Inv'
  BY <1>1, NextInv
<1>3. /\ p_expected \in Nat /\ c_expected \in Nat
      /\ producer.seen \in Nat /\ consumer.seen \in Nat
      /\ producer.seen <= producer'.seen /\ producer'.seen \in Nat
      /\ consumer.seen <= consumer'.seen /\ consumer'.seen \in Nat
      /\ Capacity \in Nat
  BY <1>1, Order, SeenAdvances
<1>4. ASSUME producer_size' # Unknown
      PROVE  producer_size' \in p_expected' - (producer'.seen - 1) .. Capacity
  <2>1. p_expected' = p_expected /\ producer_size' = producer_size
    BY <1>4 DEF TransferSteps
  <2>2. producer_size \in p_expected - (producer.seen - 1) .. Capacity
    BY <1>4, <2>1 DEF SizeInv
  <2> QED
    BY <1>3, <2>1, <2>2
<1>5. ASSUME consumer_size' # Unknown
      PROVE  consumer_size' \in 0 .. (consumer'.seen - 1) - c_expected'
  <2>1. c_expected' = c_expected /\ consumer_size' = consumer_size
    BY <1>5 DEF TransferSteps
  <2>2. consumer_size \in 0 .. (consumer.seen - 1) - c_expected
    BY <1>5, <2>1 DEF SizeInv
  <2> QED
    BY <1>3, <2>1, <2>2
<1> QED
  BY <1>2, <1>4, <1>5 DEF SizeInv

LEMMA ProducerCallKeepsSizeInv == SizeInv /\ ProducerCallsSize => SizeInv'
<1> SUFFICES ASSUME SizeInv, ProducerCallsSize
             PROVE  SizeInv'
  OBVIOUS
<1>1. Inv
  BY DEF SizeInv
<1>2. PICK seen \in Visible(queue.head, producer.seen) :
        /\ producer' = [producer EXCEPT !.seen = seen]
        /\ producer_size' = Size(Latest(queue.tail).index, queue.head[seen].index)
  BY DEF ProducerCallsSize
<1>3. UNCHANGED <<queue, consumer, p_expected, c_expected, consumer_size>>
  BY DEF ProducerCallsSize
<1>4. P!Inv /\ seen \in P!Visible(queue.head, producer.seen) /\ LoopsInv
  BY <1>1, InvIsProgress, SameIndices
<1>5. producer'.seen = seen /\ producer'.pc = producer.pc /\ seen \in Nat
  BY <1>1, <1>2, <1>4, ProducersSize DEF P!Inv, P!TypeInv, P!ProducerTypeOK
<1>8. Inv'
  <2>1. P!Inv'
    BY <1>2, <1>3, <1>4, P!SeenHeadInv, CapacityAssumption
  <2>2. LoopsInv'
    BY <1>3, <1>4, <1>5 DEF LoopsInv
  <2> QED
    BY <2>1, <2>2, InvIsProgress
<1>6. producer_size' = p_expected - (seen - 1) /\ p_expected - (seen - 1) <= Capacity
  BY <1>1, <1>2, ProducersSize
<1>7. producer_size' \in p_expected' - (producer'.seen - 1) .. Capacity
  BY <1>1, <1>3, <1>5, <1>6, Order
<1> QED
  BY <1>3, <1>8, <1>7 DEF SizeInv

LEMMA ConsumerCallKeepsSizeInv == SizeInv /\ ConsumerCallsSize => SizeInv'
<1> SUFFICES ASSUME SizeInv, ConsumerCallsSize
             PROVE  SizeInv'
  OBVIOUS
<1>1. Inv
  BY DEF SizeInv
<1>2. PICK seen \in Visible(queue.tail, consumer.seen) :
        /\ consumer' = [consumer EXCEPT !.seen = seen]
        /\ consumer_size' = Size(queue.tail[seen].index, Latest(queue.head).index)
  BY DEF ConsumerCallsSize
<1>3. UNCHANGED <<queue, producer, p_expected, c_expected, producer_size>>
  BY DEF ConsumerCallsSize
<1>4. P!Inv /\ seen \in P!Visible(queue.tail, consumer.seen) /\ LoopsInv
  BY <1>1, InvIsProgress, SameIndices
<1>5. consumer'.seen = seen /\ consumer'.pc = consumer.pc /\ seen \in Nat
  BY <1>1, <1>2, <1>4, ConsumersSize DEF P!Inv, P!TypeInv, P!ConsumerTypeOK
<1>8. Inv'
  <2>1. P!Inv'
    BY <1>2, <1>3, <1>4, P!SeenTailInv, CapacityAssumption
  <2>2. LoopsInv'
    BY <1>3, <1>4, <1>5 DEF LoopsInv
  <2> QED
    BY <2>1, <2>2, InvIsProgress
<1>6. consumer_size' = (seen - 1) - c_expected /\ c_expected <= seen - 1
  BY <1>1, <1>2, ConsumersSize
<1>7. consumer_size' \in 0 .. (consumer'.seen - 1) - c_expected'
  BY <1>1, <1>3, <1>5, <1>6, Order
<1> QED
  BY <1>3, <1>8, <1>7 DEF SizeInv

(* The third thread only loads.                                            *)
LEMMA ObserverKeepsSizeInv ==
  ASSUME SizeInv, UNCHANGED <<vars, producer_size, consumer_size>>
  PROVE  SizeInv'
<1>1. Inv'
  BY NextInv DEF SizeInv
<1> QED
  BY <1>1 DEF SizeInv, vars

LEMMA SizeNextInv == SizeInv /\ [SizeNext]_sizeVars => SizeInv'
<1> SUFFICES ASSUME SizeInv, [SizeNext]_sizeVars
             PROVE  SizeInv'
  OBVIOUS
<1>1. CASE TransferSteps
  BY <1>1, TransferKeepsSizeInv
<1>2. CASE ProducerCallsSize
  BY <1>2, ProducerCallKeepsSizeInv
<1>3. CASE ConsumerCallsSize
  BY <1>3, ConsumerCallKeepsSizeInv
<1>4. CASE ObserverLoadsTail \/ ObserverLoadsHead \/ ObserverReturns
  BY <1>4, ObserverKeepsSizeInv DEF ObserverLoadsTail, ObserverLoadsHead, ObserverReturns
<1>5. CASE UNCHANGED sizeVars
  BY <1>5, ObserverKeepsSizeInv DEF sizeVars, sizes
<1> QED
  BY <1>1, <1>2, <1>3, <1>4, <1>5 DEF SizeNext

-----------------------------------------------------------------------------
(* While the three threads call size() between and during the calls of     *)
(* try_push and try_pop, the invariant of the transfer survives every step *)
(* and what size() last said stays on its side of the truth.               *)
THEOREM SizeInvariance == SizeSpec => []SizeInv
<1> QED
  BY SizeInitInv, SizeNextInv, PTL DEF SizeSpec

(* The relaxed loads of size() (line 61) take nothing from the transfer:   *)
(* still no data race on a slot, and no item lost, repeated or reordered.  *)
THEOREM SizeDisturbsNothing == SizeSpec => [](DataRaceFree /\ InOrder /\ StaleCacheIsSafe)
<1>1. SizeInv => DataRaceFree /\ InOrder /\ StaleCacheIsSafe
  BY InvInOrder, InvDataRaceFree, InvStaleCache DEF SizeInv
<1> QED
  BY <1>1, SizeInvariance, PTL

(* Line 61 on the two threads that own an index: never fewer items than    *)
(* there are for the producer, never more for the consumer, and never a    *)
(* number that no queue of this Capacity has.                              *)
THEOREM OwnersAreToldTheirSide == SizeSpec => []OwnersSizeInRange
<1>1. SizeInv => OwnersSizeInRange
  <2> SUFFICES ASSUME SizeInv
               PROVE  OwnersSizeInRange
    OBVIOUS
  <2>1. Inv
    BY DEF SizeInv
  <2>2. /\ p_expected \in Nat /\ c_expected \in Nat
        /\ c_expected <= p_expected /\ p_expected - c_expected <= Capacity
        /\ producer.seen - 1 <= c_expected /\ producer.seen \in Nat
        /\ consumer.seen - 1 <= p_expected /\ consumer.seen \in Nat
    BY <2>1, Order
  <2>4. Distance(Latest(queue.tail).index, Latest(queue.head).index) = p_expected - c_expected
    BY <2>1, IndicesHold
  <2>5. producer_size # Unknown => producer_size \in p_expected - c_expected .. Capacity
    BY <2>2, Order DEF SizeInv
  <2>6. consumer_size # Unknown => consumer_size \in 0 .. p_expected - c_expected
    BY <2>2 DEF SizeInv
  <2> QED
    BY <2>4, <2>5, <2>6 DEF OwnersSizeInRange
<1> QED
  BY <1>1, SizeInvariance, PTL

(* The reload of lines 36 and 49 keeps what size() promised: a producer    *)
(* that was told there is room is not refused, nor a consumer that was     *)
(* told there is an item, however stale head_cache_ and tail_cache_ are.   *)
THEOREM RoomIsKeptForTheOwner == SizeSpec => RoomIsKept
<1>1. ASSUME SizeInv, PushFull
      PROVE  producer_size \in {Unknown, Capacity}
  <2>1. Inv
    BY <1>1 DEF SizeInv
  <2>2. PICK seen \in Visible(queue.head, producer.seen) : LoadHead(seen, "idle")
    BY <1>1 DEF PushFull
  <2>3. LooksFull(producer.t, queue.head[seen].index) /\ producer.pc = "reload"
    BY <2>2 DEF LoadHead
  <2>4. P!Inv /\ seen \in P!Visible(queue.head, producer.seen)
    BY <2>1, InvIsProgress, SameIndices
  <2>5. p_expected - (seen - 1) = Capacity
    <3>1. producer.t = p_expected % IndexMod
      BY <2>3, <2>4 DEF P!Inv, P!ProducerInv
    <3>2. queue.head[seen].index = (seen - 1) % IndexMod
      <4>1. queue.head[seen] = [index |-> (seen - 1) % IndexMod, accesses |-> seen - 1]
        BY <2>4, P!VisibleHead, CapacityAssumption
      <4> QED
        BY <4>1
    <3> QED
      BY <2>3, <2>4, <3>1, <3>2, P!VisibleHead, SameIndices, CapacityAssumption
  <2>6. p_expected - (producer.seen - 1) >= Capacity
    BY <2>1, <2>5, ProducersSize, Order
  <2> QED
    BY <1>1, <2>1, <2>6, Order DEF SizeInv
<1>2. ASSUME SizeInv, PopEmpty
      PROVE  consumer_size \in {Unknown, 0}
  <2>1. Inv
    BY <1>2 DEF SizeInv
  <2>2. PICK seen \in Visible(queue.tail, consumer.seen) : LoadTail(seen, "idle")
    BY <1>2 DEF PopEmpty
  <2>3. LooksEmpty(consumer.h, queue.tail[seen].index) /\ consumer.pc = "reload"
    BY <2>2 DEF LoadTail
  <2>4. P!Inv /\ seen \in P!Visible(queue.tail, consumer.seen)
    BY <2>1, InvIsProgress, SameIndices
  <2>5. seen - 1 = c_expected
    <3>1. consumer.h = c_expected % IndexMod
      BY <2>3, <2>4 DEF P!Inv, P!ConsumerInv
    <3>2. queue.tail[seen].index = (seen - 1) % IndexMod
      <4>1. queue.tail[seen] = [index |-> (seen - 1) % IndexMod, accesses |-> seen - 1]
        BY <2>4, P!VisibleTail, CapacityAssumption
      <4> QED
        BY <4>1
    <3> QED
      BY <2>3, <2>4, <3>1, <3>2, P!VisibleTail, SameIndices, CapacityAssumption
  <2>6. (consumer.seen - 1) - c_expected <= 0
    BY <2>1, <2>5, ConsumersSize, Order
  <2> QED
    BY <1>2, <2>1, <2>6, Order DEF SizeInv
<1>3. SizeInv => [/\ PushFull => producer_size \in {Unknown, Capacity}
                  /\ PopEmpty => consumer_size \in {Unknown, 0}]_sizeVars
  BY <1>1, <1>2
<1> QED
  BY <1>3, SizeInvariance, PTL DEF RoomIsKept
=============================================================================
