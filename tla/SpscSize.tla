------------------------------ MODULE SpscSize ------------------------------
(***************************************************************************)
(* size() of spsc/SpscQueue.h, called while the transfer of module         *)
(* SpscTransfer runs: by the producer and the consumer between their own   *)
(* calls, and by a third thread that keeps statistics.  size() loads tail_ *)
(* and head_ separately and relaxed, in either order.  A thread's loads of *)
(* one atomic never go back (coherence), whichever member function makes   *)
(* them.  empty() has no action of its own: it makes the same two loads,   *)
(* and is true exactly when size() of what it loaded would be 0.           *)
(* (Faulty... : see module SpscQueue.)                                     *)
(***************************************************************************)
EXTENDS SpscTransfer

CONSTANT Unknown  \* no call of size() to speak of

VARIABLES
  producer_size,  \* what size() last told the producer, since its last push
  consumer_size,  \* what size() last told the consumer, since its last pop
  observer        \* the third thread: what it loaded, and what size() returned

sizes == <<producer_size, consumer_size, observer>>
sizeVars == <<vars, sizes>>

SizeInit ==
  /\ Init
  /\ producer_size = Unknown
  /\ consumer_size = Unknown
  /\ observer = [tail |-> Unknown, head |-> Unknown, tail_seen |-> 1,
                 head_seen |-> 1, size |-> Unknown]

FaultySizeSwapped(tail, head) == Distance(head, tail)

(* The subtraction of line 61.                                             *)
Size(tail, head) == Distance(tail, head)

ProducerCallsSize ==
  /\ producer.pc = "idle"
  /\ \E seen \in Visible(queue.head, producer.seen) :
       /\ producer' = [producer EXCEPT !.seen = seen]
       /\ producer_size' = Size(Latest(queue.tail).index, queue.head[seen].index)
  /\ UNCHANGED <<queue, consumer, p_expected, c_expected, consumer_size, observer>>

ConsumerCallsSize ==
  /\ consumer.pc = "idle"
  /\ \E seen \in Visible(queue.tail, consumer.seen) :
       /\ consumer' = [consumer EXCEPT !.seen = seen]
       /\ consumer_size' = Size(queue.tail[seen].index, Latest(queue.head).index)
  /\ UNCHANGED <<queue, producer, p_expected, c_expected, producer_size, observer>>

ObserverLoadsTail ==
  /\ observer.tail = Unknown
  /\ \E seen \in Visible(queue.tail, observer.tail_seen) :
       observer' = [observer EXCEPT !.tail = queue.tail[seen].index, !.tail_seen = seen,
                                    !.size = Unknown]
  /\ UNCHANGED <<vars, producer_size, consumer_size>>

ObserverLoadsHead ==
  /\ observer.head = Unknown
  /\ \E seen \in Visible(queue.head, observer.head_seen) :
       observer' = [observer EXCEPT !.head = queue.head[seen].index, !.head_seen = seen,
                                    !.size = Unknown]
  /\ UNCHANGED <<vars, producer_size, consumer_size>>

ObserverReturns ==
  /\ Unknown \notin {observer.tail, observer.head}
  /\ observer' = [observer EXCEPT !.tail = Unknown, !.head = Unknown,
                                  !.size = Size(observer.tail, observer.head)]
  /\ UNCHANGED <<vars, producer_size, consumer_size>>

(* The transfer's own steps; what size() said is out of date once the      *)
(* thread that asked has itself moved its index.                           *)
TransferSteps ==
  /\ Next
  /\ producer_size' = IF p_expected' # p_expected THEN Unknown ELSE producer_size
  /\ consumer_size' = IF c_expected' # c_expected THEN Unknown ELSE consumer_size
  /\ UNCHANGED observer

SizeNext ==
  \/ TransferSteps
  \/ ProducerCallsSize \/ ConsumerCallsSize
  \/ ObserverLoadsTail \/ ObserverLoadsHead \/ ObserverReturns

SizeSpec == SizeInit /\ [][SizeNext]_sizeVars

-----------------------------------------------------------------------------
(* On the two threads that own an index, size() is never out of range:     *)
(* a stale copy of the other index only overstates what the producer sees  *)
(* and understates what the consumer sees (line 61).                       *)
OwnersSizeInRange ==
  LET actual == Distance(Latest(queue.tail).index, Latest(queue.head).index) IN
  /\ producer_size # Unknown => producer_size \in actual .. Capacity
  /\ consumer_size # Unknown => consumer_size \in 0 .. actual

(* size() is only called approximate, but to its owners it is a one-sided  *)
(* promise: once it told the producer there is room, the next try_push     *)
(* does not return false, and once it told the consumer there is an item,  *)
(* the next try_pop does not.  head_cache_ and tail_cache_ are older than  *)
(* what size() loaded, so this rests on the reload of lines 36 and 49.     *)
RoomIsKept ==
  [][/\ PushFull => producer_size \in {Unknown, Capacity}
     /\ PopEmpty => consumer_size \in {Unknown, 0}]_sizeVars

(* "Approximate under concurrency - fine for stats", line 60: what a third *)
(* thread gets is at least the size of a queue of this Capacity.           *)
ObserverSizeIsPlausible ==
  observer.size # Unknown => observer.size \in 0 .. Capacity
=============================================================================
