---------------------------- MODULE SpscProgress ----------------------------
(***************************************************************************)
(* What is invariant of one SpscQueue whoever uses it: what its two        *)
(* threads know of each other, and what its slots hold, as a function of   *)
(* the number of calls that have returned true.  A module that lets two    *)
(* threads use a queue says what those numbers are, and what is pushed, in *)
(* terms of its own state; its invariant has this one for a conjunct.      *)
(***************************************************************************)
EXTENDS SpscQueue

CONSTANT Value  \* what may be pushed

VARIABLES
  pushed,  \* calls of try_push that have returned true
  popped,  \* calls of try_pop that have returned true
  items    \* items[k] is what the k-th push pushes, counted from 0

TypeInv ==
  /\ QueueTypeOK(Value)
  /\ ProducerTypeOK(Value)
  /\ ConsumerTypeOK(Value)
  /\ pushed \in Nat
  /\ popped \in Nat

(* Stores into tail_ and head_: the k-th one after construction wrote k    *)
(* modulo IndexMod and released k slot accesses.                           *)
LogsInv ==
  /\ Len(queue.tail) = pushed + 1
  /\ Len(queue.head) = popped + 1
  /\ \A k \in 0 .. pushed : queue.tail[k + 1] = [index |-> k % IndexMod, accesses |-> k]
  /\ \A k \in 0 .. popped : queue.head[k + 1] = [index |-> k % IndexMod, accesses |-> k]

(* The producer knows of exactly the pops its cached head_ counts, and is  *)
(* never more than Capacity pushes ahead of them.  It may have seen later  *)
(* values of head_, which size() loads but does not cache.                 *)
ProducerInv ==
  /\ producer.seen \in 1 .. popped + 1
  /\ producer.reads_known \in 0 .. producer.seen - 1
  /\ producer.head_cache = producer.reads_known % IndexMod
  /\ pushed - producer.reads_known <= Capacity
  /\ producer.writes = pushed + (IF producer.pc = "publish" THEN 1 ELSE 0)
  /\ producer.pc # "idle" =>
       producer.t = pushed % IndexMod /\ producer.item = items[pushed]
  /\ producer.pc \in {"write", "publish"} => pushed - producer.reads_known < Capacity

(* The consumer knows of exactly the pushes its cached tail_ counts, and   *)
(* has popped no more than those.                                          *)
ConsumerInv ==
  /\ consumer.seen \in 1 .. pushed + 1
  /\ consumer.writes_known \in 0 .. consumer.seen - 1
  /\ consumer.tail_cache = consumer.writes_known % IndexMod
  /\ popped <= consumer.writes_known
  /\ consumer.reads = popped + (IF consumer.pc = "publish" THEN 1 ELSE 0)
  /\ consumer.pc # "idle" => consumer.h = popped % IndexMod
  /\ consumer.pc \in {"read", "publish"} => popped < consumer.writes_known
  /\ consumer.pc = "publish" => consumer.out = items[popped]

(* Every item written and not yet released by the consumer is in its slot, *)
(* and a slot was last read by a pop whose index falls on that slot.       *)
SlotsInv ==
  /\ \A k \in popped .. producer.writes - 1 :
       /\ queue.buf[SlotOf(k)].value = items[k]
       /\ queue.buf[SlotOf(k)].written = k + 1
  /\ \A s \in Slots :
       LET last == queue.buf[s].read IN
       last > 0 => last <= consumer.reads /\ SlotOf(last - 1) = s

Inv == TypeInv /\ LogsInv /\ ProducerInv /\ ConsumerInv /\ SlotsInv
=============================================================================
