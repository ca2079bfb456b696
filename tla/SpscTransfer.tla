---------------------------- MODULE SpscTransfer ----------------------------
(***************************************************************************)
(* test_concurrency in bench/spsc_bench.cpp: one thread pushes 0, 1, ...,  *)
(* N - 1 through one SpscQueue, retrying while try_push returns false; the *)
(* other pops N items, retrying while try_pop returns false, and asserts   *)
(* that the i-th item is i.  The benchmark threads of the same file and    *)
(* test case 1 of spsc_head_to_head.cpp run the same two loops.            *)
(***************************************************************************)
EXTENDS SpscQueue

CONSTANT N  \* TEST_CONCURRENCY_N

ASSUME TransferAssumption == N \in Nat /\ Indeterminate \notin 0 .. N - 1

VARIABLES
  p_expected,  \* producer_test_thread's `expected`: the next item to push
  c_expected   \* consumer_test_thread's `expected`: the next item to pop

vars == <<queue, producer, consumer, p_expected, c_expected>>

Item == 0 .. N - 1

Init ==
  /\ QueueInit
  /\ ProducerInit
  /\ ConsumerInit
  /\ p_expected = 0
  /\ c_expected = 0

ProducerCalls ==
  /\ p_expected < N
  /\ PushCall(p_expected)
  /\ UNCHANGED <<consumer, p_expected, c_expected>>

ProducerSteps ==
  /\ PushReload \/ PushFull \/ PushWrite
  /\ UNCHANGED <<consumer, p_expected, c_expected>>

ProducerReturns ==
  /\ PushPublish
  /\ p_expected' = p_expected + 1
  /\ UNCHANGED <<consumer, c_expected>>

ConsumerCalls ==
  /\ c_expected < N
  /\ PopCall
  /\ UNCHANGED <<producer, p_expected, c_expected>>

ConsumerSteps ==
  /\ PopReload \/ PopEmpty \/ PopRead
  /\ UNCHANGED <<producer, p_expected, c_expected>>

ConsumerReturns ==
  /\ PopPublish
  /\ c_expected' = c_expected + 1
  /\ UNCHANGED <<producer, p_expected>>

ProducerThread == ProducerCalls \/ ProducerSteps \/ ProducerReturns
ConsumerThread == ConsumerCalls \/ ConsumerSteps \/ ConsumerReturns

Done ==
  /\ p_expected = N /\ producer.pc = "idle"
  /\ c_expected = N /\ consumer.pc = "idle"

(* Both threads have left their loops and are joined.                      *)
Joined == Done /\ UNCHANGED vars

Next == ProducerThread \/ ConsumerThread \/ Joined

Safety == Init /\ [][Next]_vars

(* The scheduler runs both threads, and a thread that keeps reloading the  *)
(* other's index eventually loads its latest value: the forward progress   *)
(* and visibility the C++ standard asks of atomic stores.                  *)
ReloadsLatestHead ==
  /\ PushReload \/ PushFull
  /\ producer'.seen = Len(queue.head)
  /\ UNCHANGED <<consumer, p_expected, c_expected>>

ReloadsLatestTail ==
  /\ PopReload \/ PopEmpty
  /\ consumer'.seen = Len(queue.tail)
  /\ UNCHANGED <<producer, p_expected, c_expected>>

Fairness ==
  /\ WF_vars(ProducerThread) /\ SF_vars(ReloadsLatestHead)
  /\ WF_vars(ConsumerThread) /\ SF_vars(ReloadsLatestTail)

Spec == Safety /\ Fairness

-----------------------------------------------------------------------------
(* Correctness.                                                            *)

(* The types of the queue, of the two threads' locals and of the loop      *)
(* counters of lines 70 and 76.                                            *)
TypeOK ==
  /\ QueueTypeOK(Item)
  /\ ProducerTypeOK(Item)
  /\ ConsumerTypeOK(Item)
  /\ p_expected \in 0 .. N
  /\ c_expected \in 0 .. N

(* assert(out == static_cast<int>(expected)), line 79: what try_pop has    *)
(* read is the item the consumer is waiting for, so no item is lost,       *)
(* repeated, reordered or overwritten before it is read.                   *)
InOrder == consumer.pc = "publish" => consumer.out = c_expected

(* Both loops end (lines 71 and 78 and the joins of lines 86 and 87): two  *)
(* threads that each trust a stale copy of the other's index never wait    *)
(* for each other for ever.                                                *)
AllTransferred == <>Done

Fifo == INSTANCE BoundedFifo WITH items <- Contents

(* The lock-free queue implements a bounded first-in first-out queue       *)
(* (SPSC_Paper_Design.md line 3): each tail_.store is a push, each         *)
(* head_.store is a pop, and what is pushed is popped.                     *)
ImplementsFifo == Fifo!Spec

-----------------------------------------------------------------------------
(* The inductive invariant.                                                *)

(* What is known of the queue, of which p_expected pushes and c_expected    *)
(* pops have returned: the k-th push pushes k.                             *)
Progress == INSTANCE SpscProgress
  WITH pushed <- p_expected, popped <- c_expected, items <- [k \in Nat |-> k], Value <- Item

(* A call is made for an item below N.                                     *)
LoopsInv ==
  /\ p_expected <= N
  /\ c_expected <= N
  /\ producer.pc # "idle" => p_expected < N
  /\ consumer.pc # "idle" => c_expected < N

(* Everything the threads know of each other, for every interleaving,      *)
(* every stale load and every wrap of the indices; the safety properties   *)
(* above follow from it.                                                   *)
Inv == Progress!Inv /\ LoopsInv
=============================================================================
