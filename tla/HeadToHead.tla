----------------------------- MODULE HeadToHead -----------------------------
(***************************************************************************)
(* bench/spsc_head_to_head.cpp: run_for_target builds two queues of the    *)
(* target, and run starts the two threads of one of three test cases.      *)
(*   1  one thread pushes 0 .. Iterations - 1 into q0, the other pops them *)
(*   2  each request pushed into q0 is popped and pushed back into q1, and *)
(*      the next request waits for that echo                               *)
(*   3  Batches times, BatchSize items are pushed into q0, and popped.     *)
(* The steps of a call are those of module SpscQueue for the target        *)
(* "mine", those of LibraryQueue for the others.  In test case 2 a thread  *)
(* is allowed staler loads of one queue than what it has learnt through    *)
(* the other would leave it: SpscQueue keeps what is known of the other    *)
(* thread's accesses by queue.                                             *)
(*                                                                         *)
(* (Faulty... : coding errors, see module SpscQueue.)                      *)
(***************************************************************************)
EXTENDS Integers, Sequences

CONSTANTS
  Capacity, IndexMod, Indeterminate,  \* see SpscQueue
  Iterations,                         \* BENCH_ITERATION_COUNT_TC1
  Batches, BatchSize                  \* NUM_BATCHES, BATCH_SIZE

ASSUME CapacityAssumption ==  \* that of SpscQueue
  /\ Capacity \in Nat \ {0}
  /\ IndexMod \in Nat
  /\ \E laps \in 2 .. IndexMod : IndexMod = Capacity * laps

ASSUME HeadToHeadAssumption ==
  /\ Iterations \in Nat /\ Batches \in Nat /\ BatchSize \in Nat \ {0}
  /\ Indeterminate \notin Int

VARIABLES
  target, test_case,
  q0, push0, pop0,  \* q0, and the locals of the calls that push and pop it
  q1, push1, pop1,  \* q1, likewise
  first,            \* the thread called producer: its loop counters
  second,           \* the thread called consumer
  times             \* times.size()

Q0 == INSTANCE SpscQueue WITH queue <- q0, producer <- push0, consumer <- pop0
Q1 == INSTANCE SpscQueue WITH queue <- q1, producer <- push1, consumer <- pop1
L0 == INSTANCE LibraryQueue WITH queue <- q0, consumer <- pop0
L1 == INSTANCE LibraryQueue WITH queue <- q1, consumer <- pop1

Mine == target = "mine"
PopsInPlace == target \in {"rigtorp", "folly"}
PopsWhole == target \in {"moodycamel", "boost"}

vars0 == <<q0, push0, pop0>>
vars1 == <<q1, push1, pop1>>
vars == <<target, test_case, vars0, vars1, first, second, times>>

Init ==
  /\ target \in {"mine", "rigtorp", "moodycamel", "folly", "boost"}
  /\ test_case \in 1 .. 3
  /\ Q0!ProducerInit /\ Q1!ProducerInit
  /\ IF Mine
     THEN Q0!QueueInit /\ Q0!ConsumerInit /\ Q1!QueueInit /\ Q1!ConsumerInit
     ELSE L0!WrapperInit /\ L1!WrapperInit
  /\ first = [at |-> "push0", i |-> 0, b |-> 0]
  /\ second = [at |-> "pop0", i |-> 0, b |-> 0]
  /\ times = 0

-----------------------------------------------------------------------------
(* A call in progress: everything up to its return of true.  A call that   *)
(* returns false is made again.                                            *)

Pushing0(item) ==
  /\ Mine
  /\ Q0!PushCall(item) \/ Q0!PushReload \/ Q0!PushFull \/ Q0!PushWrite
  /\ UNCHANGED pop0

Popping0 ==
  /\ \/ Mine /\ (Q0!PopCall \/ Q0!PopReload \/ Q0!PopEmpty \/ Q0!PopRead)
     \/ PopsInPlace /\ (L0!FrontPtr \/ L0!CopyOut)
     \/ PopsWhole /\ L0!Dequeue
  /\ UNCHANGED push0

Pushing1(item) ==
  /\ Mine
  /\ Q1!PushCall(item) \/ Q1!PushReload \/ Q1!PushFull \/ Q1!PushWrite
  /\ UNCHANGED pop1

Popping1 ==
  /\ \/ Mine /\ (Q1!PopCall \/ Q1!PopReload \/ Q1!PopEmpty \/ Q1!PopRead)
     \/ PopsInPlace /\ (L1!FrontPtr \/ L1!CopyOut)
     \/ PopsWhole /\ L1!Dequeue
  /\ UNCHANGED push1

(* The call returns true.                                                  *)

Pushed0(item) ==
  /\ (Mine /\ Q0!PushPublish) \/ (~Mine /\ L0!Write(item) /\ UNCHANGED push0)
  /\ UNCHANGED pop0

Popped0 ==
  /\ (Mine /\ Q0!PopPublish) \/ (PopsInPlace /\ L0!PopFront) \/ (PopsWhole /\ L0!Return)
  /\ UNCHANGED push0

Pushed1(item) ==
  /\ (Mine /\ Q1!PushPublish) \/ (~Mine /\ L1!Write(item) /\ UNCHANGED push1)
  /\ UNCHANGED pop1

Popped1 ==
  /\ (Mine /\ Q1!PopPublish) \/ (PopsInPlace /\ L1!PopFront) \/ (PopsWhole /\ L1!Return)
  /\ UNCHANGED push1

-----------------------------------------------------------------------------
(* The loops.  In test cases 1 and 2 the counter runs to Iterations, in 3  *)
(* it runs to BatchSize in each of Batches rounds.                         *)

NextItem(loop) ==
  IF test_case = 3 /\ loop.i + 1 = BatchSize
  THEN [loop EXCEPT !.i = 0, !.b = @ + 1]
  ELSE [loop EXCEPT !.i = @ + 1]

More(loop) == IF test_case = 3 THEN loop.b < Batches ELSE loop.i < Iterations

(* The push has returned: producer_req now waits for the echo.             *)
FaultyAfterPush(loop) == NextItem(loop)
AfterPush(loop) == IF test_case = 2 THEN [loop EXCEPT !.at = "pop1"] ELSE NextItem(loop)

(* producer_thread, producer_req and producer_burst push their counter.    *)
FirstPushes ==
  /\ first.at = "push0" /\ More(first)
  /\ \/ Pushing0(first.i) /\ UNCHANGED first
     \/ Pushed0(first.i) /\ first' = AfterPush(first)
  /\ UNCHANGED <<vars1, second, times>>

(* producer_req pops the echo.                                             *)
FirstPopsEcho ==
  /\ first.at = "pop1"
  /\ \/ Popping1 /\ UNCHANGED first
     \/ Popped1 /\ first' = [NextItem(first) EXCEPT !.at = "push0"]
  /\ UNCHANGED <<vars0, second, times>>

(* consumer_burst has timed a batch.                                       *)
CountTimes == times' = IF test_case = 3 /\ second.i + 1 = BatchSize THEN times + 1 ELSE times

SecondPops ==
  /\ second.at = "pop0" /\ More(second)
  /\ \/ Popping0 /\ UNCHANGED <<second, times>>
     \/ /\ Popped0
        /\ IF test_case = 2
           THEN second' = [second EXCEPT !.at = "push1"] /\ UNCHANGED times
           ELSE second' = NextItem(second) /\ CountTimes
  /\ UNCHANGED <<vars1, first>>

(* consumer_resp sends back what it popped.                                *)
SecondEchoes ==
  /\ second.at = "push1"
  /\ \/ Pushing1(pop0.out) /\ UNCHANGED second
     \/ Pushed1(pop0.out) /\ second' = [NextItem(second) EXCEPT !.at = "pop0"]
  /\ UNCHANGED <<vars0, first, times>>

First == (FirstPushes \/ FirstPopsEcho) /\ UNCHANGED <<target, test_case>>
Second == (SecondPops \/ SecondEchoes) /\ UNCHANGED <<target, test_case>>

Done ==
  /\ first.at = "push0" /\ ~More(first)
  /\ second.at = "pop0" /\ ~More(second)

(* run has joined both threads.                                            *)
Joined == Done /\ UNCHANGED vars

Next == First \/ Second \/ Joined

Safety == Init /\ [][Next]_vars

(* A reload that returns the index last stored.                            *)
FreshHead0 == First /\ push0.pc = "reload" /\ push0'.seen = Len(q0.head)
FreshTail0 == Second /\ pop0.pc = "reload" /\ pop0'.seen = Len(q0.tail)
FreshHead1 == Second /\ push1.pc = "reload" /\ push1'.seen = Len(q1.head)
FreshTail1 == First /\ pop1.pc = "reload" /\ pop1'.seen = Len(q1.tail)

(* As in SpscTransfer: both threads run, and reloads are not stale for     *)
(* ever.                                                                   *)
Spec ==
  /\ Safety
  /\ WF_vars(First) /\ SF_vars(FreshHead0) /\ SF_vars(FreshTail1)
  /\ WF_vars(Second) /\ SF_vars(FreshTail0) /\ SF_vars(FreshHead1)

-----------------------------------------------------------------------------
(* Every pop returns the item its loop is at, whether it copies before it  *)
(* frees the slot (lines 43 and 63) or with it: the assertion of line 98   *)
(* in test case 1; in 2 each request and, though the benchmark drops it,   *)
(* each echo (line 113); in 3 the i-th item of a batch, with no batch      *)
(* running into the next (lines 150 to 158).                               *)
ItemsMatch ==
  /\ pop0.pc \in {"publish", "return"} => pop0.out = second.i
  /\ pop1.pc \in {"publish", "return"} => pop1.out = first.i

(* No slot of either SpscQueue is raced for, also when the same two        *)
(* threads use both queues with their roles exchanged.                     *)
DataRaceFree == Mine => Q0!DataRaceFree /\ Q1!DataRaceFree

(* Both threads are joined in every test case (lines 168, 175 and 185):    *)
(* producer_req and consumer_resp, each waiting on the queue the other one *)
(* fills, do not end up waiting for each other, and consumer_burst has a   *)
(* sample for every batch.                                                 *)
AllJoin == <>(Done /\ (test_case = 3 => times = Batches))

(* A message is in a queue until the pop that takes it has returned.       *)
Holds(q, pop) ==
  IF Mine THEN Q0!Latest(q.tail).index # Q0!Latest(q.head).index
          ELSE q # <<>> \/ pop.pc = "return"

(* Test case 2 as a game: where the message is.                            *)
Ball ==
  IF test_case # 2 THEN "home"
  ELSE IF Holds(q0, pop0) THEN "request"
  ELSE IF Holds(q1, pop1) THEN "response"
  ELSE IF second.at = "push1" THEN "away"
  ELSE "home"

Game == INSTANCE RoundTrips
  WITH rounds <- IF test_case = 2 THEN Iterations ELSE 0,
       trips <- IF test_case = 2 THEN first.i ELSE 0,
       ball <- Ball

(* In test case 2 there is one message in the two queues together, it goes *)
(* round Iterations times, and no request is sent before the echo of the   *)
(* one before it has been popped (lines 108 to 115 and 122 to 129).        *)
PlaysRoundTrips == Game!Spec

-----------------------------------------------------------------------------
(* The inductive invariant.                                                *)

(* The calls that have returned true, from the loops' counters.  In test   *)
(* cases 1 and 3, q1 is not used.                                          *)
Count(loop) == IF test_case = 3 THEN loop.b * BatchSize + loop.i ELSE loop.i

PushCount0 == IF first.at = "pop1" THEN Count(first) + 1 ELSE Count(first)
PopCount0 == IF second.at = "push1" THEN Count(second) + 1 ELSE Count(second)
PushCount1 == IF test_case = 2 THEN second.i ELSE 0
PopCount1 == IF test_case = 2 THEN first.i ELSE 0

(* What is pushed into q0, batch after batch, and into q1.                 *)
Items0 == [k \in Nat |-> IF test_case = 3 THEN k % BatchSize ELSE k]
Items1 == [k \in Nat |-> k]

Progress0 == INSTANCE SpscProgress
  WITH queue <- q0, producer <- push0, consumer <- pop0,
       pushed <- PushCount0, popped <- PopCount0, items <- Items0, Value <- Nat
Progress1 == INSTANCE SpscProgress
  WITH queue <- q1, producer <- push1, consumer <- pop1,
       pushed <- PushCount1, popped <- PopCount1, items <- Items1, Value <- Nat
LibProgress0 == INSTANCE LibraryProgress
  WITH queue <- q0, consumer <- pop0,
       pushed <- PushCount0, popped <- PopCount0, items <- Items0
LibProgress1 == INSTANCE LibraryProgress
  WITH queue <- q1, consumer <- pop1,
       pushed <- PushCount1, popped <- PopCount1, items <- Items1

QueuesInv ==
  /\ Mine => Progress0!Inv /\ Progress1!Inv
  /\ ~Mine => LibProgress0!Inv /\ LibProgress1!Inv

(* Only test case 2 uses q1; in 3 the counters stay within a batch, and    *)
(* every batch popped has been timed.                                      *)
LoopsInv ==
  /\ first \in [at : {"push0", "pop1"}, i : Nat, b : Nat]
  /\ second \in [at : {"pop0", "push1"}, i : Nat, b : Nat]
  /\ test_case # 2 => first.at = "push0" /\ second.at = "pop0"
  /\ test_case = 3 => /\ first.i < BatchSize /\ second.i < BatchSize
                      /\ times = second.b /\ times <= Batches

(* A thread that is not popping a queue has no call in progress on it, and *)
(* what consumer_resp sends back is the request it popped.                 *)
CallsInv ==
  /\ first.at = "push0" => pop1.pc = "idle"
  /\ second.at = "push1" => pop0.pc = "idle" /\ pop0.out = second.i

(* What the loops' counters say of the two queues, whichever target they   *)
(* are of, in every test case.                                             *)
Inv == QueuesInv /\ LoopsInv /\ CallsInv
=============================================================================
