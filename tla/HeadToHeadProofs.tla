-------------------------- MODULE HeadToHeadProofs --------------------------
(***************************************************************************)
(* Proofs about the three test cases of the head-to-head benchmark, for    *)
(* every target, every Capacity, index width and number of iterations,     *)
(* batches and items in a batch: every pop returns the item its loop is    *)
(* at, no slot of either SpscQueue is raced for, and test case 2 plays     *)
(* round trips.  What one queue does is proved in QueueProofs, of which    *)
(* P0 and P1 are the instances for q0 and q1.                              *)
(***************************************************************************)
EXTENDS HeadToHead, TLAPS

P0 == INSTANCE QueueProofs
  WITH queue <- q0, producer <- push0, consumer <- pop0,
       pushed <- PushCount0, popped <- PopCount0, items <- Items0, Value <- Nat
P1 == INSTANCE QueueProofs
  WITH queue <- q1, producer <- push1, consumer <- pop1,
       pushed <- PushCount1, popped <- PopCount1, items <- Items1, Value <- Nat

(* What is invariant of each queue, of either kind.                        *)
Inv0 == (Mine => P0!Inv) /\ (~Mine => P0!Lib!Inv)
Inv1 == (Mine => P1!Inv) /\ (~Mine => P1!Lib!Inv)

-----------------------------------------------------------------------------
(* What P0 and P1 say of their queues is said of these.                    *)

LEMMA SameInv0 == Progress0!Inv <=> P0!Inv
BY DEF Progress0!Inv, Progress0!TypeInv, Progress0!QueueTypeOK, Progress0!ProducerTypeOK,
       Progress0!ConsumerTypeOK, Progress0!Steps, Progress0!Slots, Progress0!Indices,
       Progress0!LogsInv, Progress0!ProducerInv, Progress0!ConsumerInv, Progress0!SlotsInv,
       Progress0!SlotOf,
       P0!Inv, P0!TypeInv, P0!QueueTypeOK, P0!ProducerTypeOK, P0!ConsumerTypeOK, P0!Steps,
       P0!Slots, P0!Indices, P0!LogsInv, P0!ProducerInv, P0!ConsumerInv, P0!SlotsInv, P0!SlotOf

LEMMA SameInv1 == Progress1!Inv <=> P1!Inv
BY DEF Progress1!Inv, Progress1!TypeInv, Progress1!QueueTypeOK, Progress1!ProducerTypeOK,
       Progress1!ConsumerTypeOK, Progress1!Steps, Progress1!Slots, Progress1!Indices,
       Progress1!LogsInv, Progress1!ProducerInv, Progress1!ConsumerInv, Progress1!SlotsInv,
       Progress1!SlotOf,
       P1!Inv, P1!TypeInv, P1!QueueTypeOK, P1!ProducerTypeOK, P1!ConsumerTypeOK, P1!Steps,
       P1!Slots, P1!Indices, P1!LogsInv, P1!ProducerInv, P1!ConsumerInv, P1!SlotsInv, P1!SlotOf

LEMMA SameLibraryInv ==
  /\ LibProgress0!Inv <=> P0!Lib!Inv
  /\ LibProgress1!Inv <=> P1!Lib!Inv
BY DEF LibProgress0!Inv, LibProgress0!TypeInv, LibProgress0!Taken,
       LibProgress1!Inv, LibProgress1!TypeInv, LibProgress1!Taken,
       P0!Lib!Inv, P0!Lib!TypeInv, P0!Lib!Taken, P1!Lib!Inv, P1!Lib!TypeInv, P1!Lib!Taken

LEMMA QueuesInvIs ==
  /\ QueuesInv <=> Inv0 /\ Inv1
  /\ QueuesInv' <=> Inv0' /\ Inv1'
<1>1. QueuesInv <=> Inv0 /\ Inv1
  BY SameInv0, SameInv1, SameLibraryInv DEF QueuesInv, Inv0, Inv1
<1> QED
  BY <1>1, PTL

-----------------------------------------------------------------------------
(* The steps of SpscQueue and of the wrappers on q0.                        *)
LEMMA SameInit0 ==
  /\ Q0!QueueInit <=> P0!QueueInit
  /\ Q0!ProducerInit <=> P0!ProducerInit
  /\ Q0!ConsumerInit <=> P0!ConsumerInit
  /\ L0!WrapperInit <=> P0!Lib!WrapperInit
BY DEF Q0!QueueInit, Q0!ProducerInit, Q0!ConsumerInit, Q0!Slots,
       L0!WrapperInit, L0!Library!Init,
       P0!QueueInit, P0!ProducerInit, P0!ConsumerInit, P0!Slots,
       P0!Lib!WrapperInit, P0!Lib!Library!Init

LEMMA SamePush0 ==
  /\ \A item : Q0!PushCall(item) <=> P0!PushCall(item)
  /\ Q0!PushReload \/ Q0!PushFull <=>
       \E seen \in P0!Visible(q0.head, push0.seen), next \in {"write", "idle"} :
         P0!LoadHead(seen, next)
  /\ Q0!PushWrite <=> P0!PushWrite
  /\ Q0!PushPublish <=> P0!PushPublish
<1>1. \A seen, next : Q0!LoadHead(seen, next) <=> P0!LoadHead(seen, next)
  BY DEF Q0!LoadHead, Q0!LooksFull, Q0!Distance, Q0!Acquired, Q0!HeadLoadOrder,
         P0!LoadHead, P0!LooksFull, P0!Distance, P0!Acquired, P0!HeadLoadOrder
<1>2. \A log, seen : Q0!Visible(log, seen) = P0!Visible(log, seen)
  BY DEF Q0!Visible, P0!Visible
<1>3. Q0!PushReload \/ Q0!PushFull <=>
        \E seen \in P0!Visible(q0.head, push0.seen), next \in {"write", "idle"} :
          P0!LoadHead(seen, next)
  BY <1>1, <1>2 DEF Q0!PushReload, Q0!PushFull
<1>4. \A item : Q0!PushCall(item) <=> P0!PushCall(item)
  BY DEF Q0!PushCall, Q0!Latest, Q0!LooksFull, Q0!Distance,
         P0!PushCall, P0!Latest, P0!LooksFull, P0!Distance
<1>5. /\ Q0!PushWrite <=> P0!PushWrite
      /\ Q0!PushPublish <=> P0!PushPublish
  BY DEF Q0!PushWrite, Q0!PushPublish, Q0!SlotOf, Q0!Succ, Q0!Released, Q0!TailStoreOrder,
         P0!PushWrite, P0!PushPublish, P0!SlotOf, P0!Succ, P0!Released, P0!TailStoreOrder
<1> QED
  BY <1>3, <1>4, <1>5

LEMMA SamePop0 ==
  /\ Q0!PopCall <=> P0!PopCall
  /\ Q0!PopReload \/ Q0!PopEmpty <=>
       \E seen \in P0!Visible(q0.tail, pop0.seen), next \in {"read", "idle"} :
         P0!LoadTail(seen, next)
  /\ Q0!PopRead <=> P0!PopRead
  /\ Q0!PopPublish <=> P0!PopPublish
<1>1. \A seen, next : Q0!LoadTail(seen, next) <=> P0!LoadTail(seen, next)
  BY DEF Q0!LoadTail, Q0!LooksEmpty, Q0!Acquired, Q0!TailLoadOrder,
         P0!LoadTail, P0!LooksEmpty, P0!Acquired, P0!TailLoadOrder
<1>2. \A log, seen : Q0!Visible(log, seen) = P0!Visible(log, seen)
  BY DEF Q0!Visible, P0!Visible
<1>3. Q0!PopReload \/ Q0!PopEmpty <=>
        \E seen \in P0!Visible(q0.tail, pop0.seen), next \in {"read", "idle"} :
          P0!LoadTail(seen, next)
  BY <1>1, <1>2 DEF Q0!PopReload, Q0!PopEmpty
<1>4. /\ Q0!PopCall <=> P0!PopCall
      /\ Q0!PopRead <=> P0!PopRead
      /\ Q0!PopPublish <=> P0!PopPublish
  BY DEF Q0!PopCall, Q0!PopRead, Q0!PopPublish, Q0!Latest, Q0!LooksEmpty, Q0!SlotOf, Q0!Succ,
         Q0!Released, Q0!HeadStoreOrder,
         P0!PopCall, P0!PopRead, P0!PopPublish, P0!Latest, P0!LooksEmpty, P0!SlotOf, P0!Succ,
         P0!Released, P0!HeadStoreOrder
<1> QED
  BY <1>3, <1>4

LEMMA SameLibrary0 ==
  /\ \A item : L0!Write(item) <=> P0!Lib!Write(item)
  /\ L0!FrontPtr <=> P0!Lib!FrontPtr
  /\ L0!CopyOut <=> P0!Lib!CopyOut
  /\ L0!PopFront <=> P0!Lib!PopFront
  /\ L0!Dequeue <=> P0!Lib!Dequeue
  /\ L0!Return <=> P0!Lib!Return
BY DEF L0!Write, L0!FrontPtr, L0!CopyOut, L0!PopFront, L0!Dequeue, L0!Return,
       L0!Library!Push, L0!Library!Pop,
       P0!Lib!Write, P0!Lib!FrontPtr, P0!Lib!CopyOut, P0!Lib!PopFront, P0!Lib!Dequeue,
       P0!Lib!Return, P0!Lib!Library!Push, P0!Lib!Library!Pop

-----------------------------------------------------------------------------
(* Every step on q0 keeps its invariant, whatever the target.              *)

LEMMA UnchangedInv0 ==
  ASSUME Inv0, UNCHANGED <<target, vars0, PushCount0, PopCount0, Items0>>
  PROVE  Inv0'
<1>1. UNCHANGED <<target, q0, push0, pop0, PushCount0, PopCount0, Items0>>
  BY DEF vars0
<1>2. CASE Mine
  BY <1>1, <1>2, P0!UnchangedInv, CapacityAssumption DEF Inv0, Mine
<1>3. CASE ~Mine
  BY <1>1, <1>3, P0!LibraryUnchangedInv, CapacityAssumption DEF Inv0, Mine
<1> QED
  BY <1>2, <1>3

LEMMA Pushing0Inv ==
  ASSUME Inv0, Items0[PushCount0] \in Nat, Pushing0(Items0[PushCount0]),
         UNCHANGED <<target, PushCount0, PopCount0, Items0>>
  PROVE  Inv0'
<1>1. P0!Inv /\ UNCHANGED pop0 /\ Mine /\ Mine'
  BY DEF Pushing0, Inv0, Mine
<1>2. CASE Q0!PushCall(Items0[PushCount0])
  BY <1>1, <1>2, SamePush0, P0!PushCallInv, CapacityAssumption DEF Inv0
<1>3. CASE Q0!PushReload \/ Q0!PushFull
  BY <1>1, <1>3, SamePush0, P0!LoadHeadInv, CapacityAssumption DEF Inv0
<1>4. CASE Q0!PushWrite
  BY <1>1, <1>4, SamePush0, P0!PushWriteInv, CapacityAssumption DEF Inv0
<1> QED
  BY <1>2, <1>3, <1>4 DEF Pushing0

LEMMA Pushed0Inv ==
  ASSUME Inv0, Items0[PushCount0] \in Nat, Pushed0(Items0[PushCount0]),
         PushCount0' = PushCount0 + 1, UNCHANGED <<target, PopCount0, Items0>>
  PROVE  Inv0'
<1>1. UNCHANGED pop0
  BY DEF Pushed0
<1>2. CASE Mine
  <2>1. P0!PushPublish
    BY <1>2, SamePush0 DEF Pushed0
  <2> QED
    BY <1>1, <1>2, <2>1, P0!PushPublishInv, CapacityAssumption DEF Inv0, Mine
<1>3. CASE ~Mine
  <2>1. P0!Lib!Write(Items0[PushCount0])
    BY <1>3, SameLibrary0 DEF Pushed0
  <2> QED
    BY <1>1, <1>3, <2>1, P0!LibraryWriteInv, CapacityAssumption DEF Inv0, Mine
<1> QED
  BY <1>2, <1>3

LEMMA Popping0Inv ==
  ASSUME Inv0, Popping0, UNCHANGED <<target, PushCount0, PopCount0, Items0>>
  PROVE  Inv0'
<1>1. UNCHANGED push0
  BY DEF Popping0
<1>2. CASE Mine
  <2>1. P0!Inv /\ Mine'
    BY <1>2 DEF Inv0, Mine
  <2>2. Q0!PopCall \/ Q0!PopReload \/ Q0!PopEmpty \/ Q0!PopRead
    BY <1>2 DEF Popping0, Mine, PopsInPlace, PopsWhole
  <2>3. CASE Q0!PopCall
    BY <1>1, <2>1, <2>3, SamePop0, P0!PopCallInv, CapacityAssumption DEF Inv0
  <2>4. CASE Q0!PopReload \/ Q0!PopEmpty
    BY <1>1, <2>1, <2>4, SamePop0, P0!LoadTailInv, CapacityAssumption DEF Inv0
  <2>5. CASE Q0!PopRead
    BY <1>1, <2>1, <2>5, SamePop0, P0!PopReadInv, CapacityAssumption DEF Inv0
  <2> QED
    BY <2>2, <2>3, <2>4, <2>5
<1>3. CASE ~Mine
  <2>1. P0!Lib!Inv /\ ~Mine'
    BY <1>3 DEF Inv0, Mine
  <2>2. L0!FrontPtr \/ L0!CopyOut \/ L0!Dequeue
    BY <1>3 DEF Popping0
  <2>3. CASE L0!FrontPtr
    BY <2>1, <2>3, SameLibrary0, P0!FrontPtrInv, CapacityAssumption DEF Inv0
  <2>4. CASE L0!CopyOut
    BY <2>1, <2>4, SameLibrary0, P0!CopyOutInv, CapacityAssumption DEF Inv0
  <2>5. CASE L0!Dequeue
    BY <2>1, <2>5, SameLibrary0, P0!DequeueInv, CapacityAssumption DEF Inv0
  <2> QED
    BY <2>2, <2>3, <2>4, <2>5
<1> QED
  BY <1>2, <1>3

LEMMA Popped0Inv ==
  ASSUME Inv0, Popped0, PopCount0' = PopCount0 + 1, UNCHANGED <<target, PushCount0, Items0>>
  PROVE  Inv0'
<1>1. UNCHANGED push0
  BY DEF Popped0
<1>2. CASE Mine
  <2>1. P0!Inv /\ Mine'
    BY <1>2 DEF Inv0, Mine
  <2>2. P0!PopPublish
    BY <1>2, SamePop0 DEF Popped0, Mine, PopsInPlace, PopsWhole
  <2> QED
    BY <1>1, <2>1, <2>2, P0!PopPublishInv, CapacityAssumption DEF Inv0
<1>3. CASE ~Mine
  <2>1. P0!Lib!Inv /\ ~Mine'
    BY <1>3 DEF Inv0, Mine
  <2>2. CASE P0!Lib!PopFront
    BY <2>1, <2>2, P0!PopFrontInv, CapacityAssumption DEF Inv0
  <2>3. CASE P0!Lib!Return
    BY <2>1, <2>3, P0!ReturnInv, CapacityAssumption DEF Inv0
  <2> QED
    BY <1>3, <2>2, <2>3, SameLibrary0 DEF Popped0
<1> QED
  BY <1>2, <1>3

(* What the invariant of q0 says to its users: how many items there are,   *)
(* and what try_pop is about to return, or has returned.                   *)
LEMMA Held0 ==
  ASSUME Inv0
  PROVE  /\ PushCount0 \in Nat /\ PopCount0 \in Nat /\ PopCount0 <= PushCount0
         /\ Holds(q0, pop0) <=> PopCount0 # PushCount0
         /\ pop0.pc \in {"publish", "return"} =>
              PopCount0 < PushCount0 /\ pop0.out = Items0[PopCount0]
<1>1. CASE Mine
  <2>1. P0!Inv
    BY <1>1 DEF Inv0
  <2>2. pop0.pc # "return"
    BY <2>1 DEF P0!Inv, P0!TypeInv, P0!ConsumerTypeOK, P0!Steps
  <2>3. Holds(q0, pop0) <=> P0!Latest(q0.tail).index # P0!Latest(q0.head).index
    BY <1>1 DEF Holds, Q0!Latest, P0!Latest
  <2> QED
    BY <2>1, <2>2, <2>3, P0!ItemsHeld, CapacityAssumption
<1>2. CASE ~Mine
  BY <1>2, P0!LibraryItemsHeld, CapacityAssumption DEF Inv0, Holds
<1> QED
  BY <1>1, <1>2

(* The end of a call: try_pop leaves what it popped, and is over.          *)
LEMMA Popped0Leaves ==
  ASSUME Inv0, Popped0
  PROVE  /\ pop0.pc \in {"publish", "return"}
         /\ pop0'.pc = "idle"
         /\ pop0'.out = pop0.out
<1>1. /\ pop0.pc \in {"publish", "return"}
      /\ pop0' = [pop0 EXCEPT !.pc = "idle"]
  BY DEF Popped0, Q0!PopPublish, L0!PopFront, L0!Return
<1>2. CASE Mine
  BY <1>1, <1>2 DEF Inv0, P0!Inv, P0!TypeInv, P0!ConsumerTypeOK
<1>3. CASE ~Mine
  BY <1>1, <1>3 DEF Inv0, P0!Lib!Inv, P0!Lib!TypeInv
<1> QED
  BY <1>2, <1>3

-----------------------------------------------------------------------------
(* The steps of SpscQueue and of the wrappers on q1.                        *)
LEMMA SameInit1 ==
  /\ Q1!QueueInit <=> P1!QueueInit
  /\ Q1!ProducerInit <=> P1!ProducerInit
  /\ Q1!ConsumerInit <=> P1!ConsumerInit
  /\ L1!WrapperInit <=> P1!Lib!WrapperInit
BY DEF Q1!QueueInit, Q1!ProducerInit, Q1!ConsumerInit, Q1!Slots,
       L1!WrapperInit, L1!Library!Init,
       P1!QueueInit, P1!ProducerInit, P1!ConsumerInit, P1!Slots,
       P1!Lib!WrapperInit, P1!Lib!Library!Init

LEMMA SamePush1 ==
  /\ \A item : Q1!PushCall(item) <=> P1!PushCall(item)
  /\ Q1!PushReload \/ Q1!PushFull <=>
       \E seen \in P1!Visible(q1.head, push1.seen), next \in {"write", "idle"} :
         P1!LoadHead(seen, next)
  /\ Q1!PushWrite <=> P1!PushWrite
  /\ Q1!PushPublish <=> P1!PushPublish
<1>1. \A seen, next : Q1!LoadHead(seen, next) <=> P1!LoadHead(seen, next)
  BY DEF Q1!LoadHead, Q1!LooksFull, Q1!Distance, Q1!Acquired, Q1!HeadLoadOrder,
         P1!LoadHead, P1!LooksFull, P1!Distance, P1!Acquired, P1!HeadLoadOrder
<1>2. \A log, seen : Q1!Visible(log, seen) = P1!Visible(log, seen)
  BY DEF Q1!Visible, P1!Visible
<1>3. Q1!PushReload \/ Q1!PushFull <=>
        \E seen \in P1!Visible(q1.head, push1.seen), next \in {"write", "idle"} :
          P1!LoadHead(seen, next)
  BY <1>1, <1>2 DEF Q1!PushReload, Q1!PushFull
<1>4. \A item : Q1!PushCall(item) <=> P1!PushCall(item)
  BY DEF Q1!PushCall, Q1!Latest, Q1!LooksFull, Q1!Distance,
         P1!PushCall, P1!Latest, P1!LooksFull, P1!Distance
<1>5. /\ Q1!PushWrite <=> P1!PushWrite
      /\ Q1!PushPublish <=> P1!PushPublish
  BY DEF Q1!PushWrite, Q1!PushPublish, Q1!SlotOf, Q1!Succ, Q1!Released, Q1!TailStoreOrder,
         P1!PushWrite, P1!PushPublish, P1!SlotOf, P1!Succ, P1!Released, P1!TailStoreOrder
<1> QED
  BY <1>3, <1>4, <1>5

LEMMA SamePop1 ==
  /\ Q1!PopCall <=> P1!PopCall
  /\ Q1!PopReload \/ Q1!PopEmpty <=>
       \E seen \in P1!Visible(q1.tail, pop1.seen), next \in {"read", "idle"} :
         P1!LoadTail(seen, next)
  /\ Q1!PopRead <=> P1!PopRead
  /\ Q1!PopPublish <=> P1!PopPublish
<1>1. \A seen, next : Q1!LoadTail(seen, next) <=> P1!LoadTail(seen, next)
  BY DEF Q1!LoadTail, Q1!LooksEmpty, Q1!Acquired, Q1!TailLoadOrder,
         P1!LoadTail, P1!LooksEmpty, P1!Acquired, P1!TailLoadOrder
<1>2. \A log, seen : Q1!Visible(log, seen) = P1!Visible(log, seen)
  BY DEF Q1!Visible, P1!Visible
<1>3. Q1!PopReload \/ Q1!PopEmpty <=>
        \E seen \in P1!Visible(q1.tail, pop1.seen), next \in {"read", "idle"} :
          P1!LoadTail(seen, next)
  BY <1>1, <1>2 DEF Q1!PopReload, Q1!PopEmpty
<1>4. /\ Q1!PopCall <=> P1!PopCall
      /\ Q1!PopRead <=> P1!PopRead
      /\ Q1!PopPublish <=> P1!PopPublish
  BY DEF Q1!PopCall, Q1!PopRead, Q1!PopPublish, Q1!Latest, Q1!LooksEmpty, Q1!SlotOf, Q1!Succ,
         Q1!Released, Q1!HeadStoreOrder,
         P1!PopCall, P1!PopRead, P1!PopPublish, P1!Latest, P1!LooksEmpty, P1!SlotOf, P1!Succ,
         P1!Released, P1!HeadStoreOrder
<1> QED
  BY <1>3, <1>4

LEMMA SameLibrary1 ==
  /\ \A item : L1!Write(item) <=> P1!Lib!Write(item)
  /\ L1!FrontPtr <=> P1!Lib!FrontPtr
  /\ L1!CopyOut <=> P1!Lib!CopyOut
  /\ L1!PopFront <=> P1!Lib!PopFront
  /\ L1!Dequeue <=> P1!Lib!Dequeue
  /\ L1!Return <=> P1!Lib!Return
BY DEF L1!Write, L1!FrontPtr, L1!CopyOut, L1!PopFront, L1!Dequeue, L1!Return,
       L1!Library!Push, L1!Library!Pop,
       P1!Lib!Write, P1!Lib!FrontPtr, P1!Lib!CopyOut, P1!Lib!PopFront, P1!Lib!Dequeue,
       P1!Lib!Return, P1!Lib!Library!Push, P1!Lib!Library!Pop

-----------------------------------------------------------------------------
(* Every step on q1 keeps its invariant, whatever the target.              *)

LEMMA UnchangedInv1 ==
  ASSUME Inv1, UNCHANGED <<target, vars1, PushCount1, PopCount1, Items1>>
  PROVE  Inv1'
<1>1. UNCHANGED <<target, q1, push1, pop1, PushCount1, PopCount1, Items1>>
  BY DEF vars1
<1>2. CASE Mine
  BY <1>1, <1>2, P1!UnchangedInv, CapacityAssumption DEF Inv1, Mine
<1>3. CASE ~Mine
  BY <1>1, <1>3, P1!LibraryUnchangedInv, CapacityAssumption DEF Inv1, Mine
<1> QED
  BY <1>2, <1>3

LEMMA Pushing1Inv ==
  ASSUME Inv1, Items1[PushCount1] \in Nat, Pushing1(Items1[PushCount1]),
         UNCHANGED <<target, PushCount1, PopCount1, Items1>>
  PROVE  Inv1'
<1>1. P1!Inv /\ UNCHANGED pop1 /\ Mine /\ Mine'
  BY DEF Pushing1, Inv1, Mine
<1>2. CASE Q1!PushCall(Items1[PushCount1])
  BY <1>1, <1>2, SamePush1, P1!PushCallInv, CapacityAssumption DEF Inv1
<1>3. CASE Q1!PushReload \/ Q1!PushFull
  BY <1>1, <1>3, SamePush1, P1!LoadHeadInv, CapacityAssumption DEF Inv1
<1>4. CASE Q1!PushWrite
  BY <1>1, <1>4, SamePush1, P1!PushWriteInv, CapacityAssumption DEF Inv1
<1> QED
  BY <1>2, <1>3, <1>4 DEF Pushing1

LEMMA Pushed1Inv ==
  ASSUME Inv1, Items1[PushCount1] \in Nat, Pushed1(Items1[PushCount1]),
         PushCount1' = PushCount1 + 1, UNCHANGED <<target, PopCount1, Items1>>
  PROVE  Inv1'
<1>1. UNCHANGED pop1
  BY DEF Pushed1
<1>2. CASE Mine
  <2>1. P1!PushPublish
    BY <1>2, SamePush1 DEF Pushed1
  <2> QED
    BY <1>1, <1>2, <2>1, P1!PushPublishInv, CapacityAssumption DEF Inv1, Mine
<1>3. CASE ~Mine
  <2>1. P1!Lib!Write(Items1[PushCount1])
    BY <1>3, SameLibrary1 DEF Pushed1
  <2> QED
    BY <1>1, <1>3, <2>1, P1!LibraryWriteInv, CapacityAssumption DEF Inv1, Mine
<1> QED
  BY <1>2, <1>3

LEMMA Popping1Inv ==
  ASSUME Inv1, Popping1, UNCHANGED <<target, PushCount1, PopCount1, Items1>>
  PROVE  Inv1'
<1>1. UNCHANGED push1
  BY DEF Popping1
<1>2. CASE Mine
  <2>1. P1!Inv /\ Mine'
    BY <1>2 DEF Inv1, Mine
  <2>2. Q1!PopCall \/ Q1!PopReload \/ Q1!PopEmpty \/ Q1!PopRead
    BY <1>2 DEF Popping1, Mine, PopsInPlace, PopsWhole
  <2>3. CASE Q1!PopCall
    BY <1>1, <2>1, <2>3, SamePop1, P1!PopCallInv, CapacityAssumption DEF Inv1
  <2>4. CASE Q1!PopReload \/ Q1!PopEmpty
    BY <1>1, <2>1, <2>4, SamePop1, P1!LoadTailInv, CapacityAssumption DEF Inv1
  <2>5. CASE Q1!PopRead
    BY <1>1, <2>1, <2>5, SamePop1, P1!PopReadInv, CapacityAssumption DEF Inv1
  <2> QED
    BY <2>2, <2>3, <2>4, <2>5
<1>3. CASE ~Mine
  <2>1. P1!Lib!Inv /\ ~Mine'
    BY <1>3 DEF Inv1, Mine
  <2>2. L1!FrontPtr \/ L1!CopyOut \/ L1!Dequeue
    BY <1>3 DEF Popping1
  <2>3. CASE L1!FrontPtr
    BY <2>1, <2>3, SameLibrary1, P1!FrontPtrInv, CapacityAssumption DEF Inv1
  <2>4. CASE L1!CopyOut
    BY <2>1, <2>4, SameLibrary1, P1!CopyOutInv, CapacityAssumption DEF Inv1
  <2>5. CASE L1!Dequeue
    BY <2>1, <2>5, SameLibrary1, P1!DequeueInv, CapacityAssumption DEF Inv1
  <2> QED
    BY <2>2, <2>3, <2>4, <2>5
<1> QED
  BY <1>2, <1>3

LEMMA Popped1Inv ==
  ASSUME Inv1, Popped1, PopCount1' = PopCount1 + 1, UNCHANGED <<target, PushCount1, Items1>>
  PROVE  Inv1'
<1>1. UNCHANGED push1
  BY DEF Popped1
<1>2. CASE Mine
  <2>1. P1!Inv /\ Mine'
    BY <1>2 DEF Inv1, Mine
  <2>2. P1!PopPublish
    BY <1>2, SamePop1 DEF Popped1, Mine, PopsInPlace, PopsWhole
  <2> QED
    BY <1>1, <2>1, <2>2, P1!PopPublishInv, CapacityAssumption DEF Inv1
<1>3. CASE ~Mine
  <2>1. P1!Lib!Inv /\ ~Mine'
    BY <1>3 DEF Inv1, Mine
  <2>2. CASE P1!Lib!PopFront
    BY <2>1, <2>2, P1!PopFrontInv, CapacityAssumption DEF Inv1
  <2>3. CASE P1!Lib!Return
    BY <2>1, <2>3, P1!ReturnInv, CapacityAssumption DEF Inv1
  <2> QED
    BY <1>3, <2>2, <2>3, SameLibrary1 DEF Popped1
<1> QED
  BY <1>2, <1>3

(* What the invariant of q1 says to its users: how many items there are,   *)
(* and what try_pop is about to return, or has returned.                   *)
LEMMA Held1 ==
  ASSUME Inv1
  PROVE  /\ PushCount1 \in Nat /\ PopCount1 \in Nat /\ PopCount1 <= PushCount1
         /\ Holds(q1, pop1) <=> PopCount1 # PushCount1
         /\ pop1.pc \in {"publish", "return"} =>
              PopCount1 < PushCount1 /\ pop1.out = Items1[PopCount1]
<1>1. CASE Mine
  <2>1. P1!Inv
    BY <1>1 DEF Inv1
  <2>2. pop1.pc # "return"
    BY <2>1 DEF P1!Inv, P1!TypeInv, P1!ConsumerTypeOK, P1!Steps
  <2>3. Holds(q1, pop1) <=> P1!Latest(q1.tail).index # P1!Latest(q1.head).index
    BY <1>1 DEF Holds, Q0!Latest, P1!Latest
  <2> QED
    BY <2>1, <2>2, <2>3, P1!ItemsHeld, CapacityAssumption
<1>2. CASE ~Mine
  BY <1>2, P1!LibraryItemsHeld, CapacityAssumption DEF Inv1, Holds
<1> QED
  BY <1>1, <1>2

(* The end of a call: try_pop leaves what it popped, and is over.          *)
LEMMA Popped1Leaves ==
  ASSUME Inv1, Popped1
  PROVE  /\ pop1.pc \in {"publish", "return"}
         /\ pop1'.pc = "idle"
         /\ pop1'.out = pop1.out
<1>1. /\ pop1.pc \in {"publish", "return"}
      /\ pop1' = [pop1 EXCEPT !.pc = "idle"]
  BY DEF Popped1, Q1!PopPublish, L1!PopFront, L1!Return
<1>2. CASE Mine
  BY <1>1, <1>2 DEF Inv1, P1!Inv, P1!TypeInv, P1!ConsumerTypeOK
<1>3. CASE ~Mine
  BY <1>1, <1>3 DEF Inv1, P1!Lib!Inv, P1!Lib!TypeInv
<1> QED
  BY <1>2, <1>3

-----------------------------------------------------------------------------
(* The counters of the loops.                                              *)

Loops == [at : {"push0", "pop1", "pop0", "push1"}, i : Nat, b : Nat]
InBatch(loop) == test_case = 3 => loop.i < BatchSize

(* One round of a loop counts one, also from a batch to the next, and what *)
(* a loop pushes is its counter.                                           *)
LEMMA CountOfNext ==
  ASSUME NEW loop \in Loops, InBatch(loop)
  PROVE  /\ Count(loop) \in Nat
         /\ Items0[Count(loop)] = loop.i
         /\ NextItem(loop) \in Loops /\ InBatch(NextItem(loop))
         /\ NextItem(loop).at = loop.at
         /\ Count(NextItem(loop)) = Count(loop) + 1
         /\ test_case # 3 => NextItem(loop).i = loop.i + 1
         /\ test_case = 3 =>
              NextItem(loop).b = IF loop.i + 1 = BatchSize THEN loop.b + 1 ELSE loop.b
<1>1. loop.i \in Nat /\ loop.b \in Nat /\ BatchSize \in Nat \ {0}
  BY HeadToHeadAssumption DEF Loops
<1>2. CASE test_case # 3
  <2>1. NextItem(loop) = [loop EXCEPT !.i = @ + 1]
    BY <1>2 DEF NextItem
  <2>2. /\ NextItem(loop) \in Loops /\ NextItem(loop).at = loop.at
        /\ NextItem(loop).i = loop.i + 1
    BY <2>1 DEF Loops
  <2> QED
    BY <1>1, <1>2, <2>2 DEF Count, InBatch, Items0
<1>3. CASE test_case = 3
  <2> DEFINE batches == loop.b * BatchSize
  <2>1. /\ batches \in Nat /\ (loop.b + 1) * BatchSize = batches + BatchSize
        /\ BatchSize * loop.b = batches
    BY <1>1
  <2>2. Count(loop) = batches + loop.i
    BY <1>3 DEF Count
  <2>3. (BatchSize * loop.b + loop.i) % BatchSize = loop.i
    <3>1. loop.i \in 0 .. BatchSize - 1 /\ loop.b \in Int
      BY <1>1, <1>3 DEF InBatch
    <3> QED
      BY <1>1, <3>1, P0!RemainderIs, CapacityAssumption
  <2> HIDE DEF batches
  <2>4. Items0[Count(loop)] = loop.i
    BY <1>1, <1>3, <2>1, <2>2, <2>3 DEF Items0
  <2>5. CASE loop.i + 1 = BatchSize
    <3>1. NextItem(loop) = [loop EXCEPT !.i = 0, !.b = @ + 1]
      BY <1>3, <2>5 DEF NextItem
    <3>2. /\ NextItem(loop) \in Loops /\ NextItem(loop).at = loop.at
          /\ NextItem(loop).i = 0 /\ NextItem(loop).b = loop.b + 1
      <4>1. NextItem(loop) = [at |-> loop.at, i |-> 0, b |-> loop.b + 1]
        BY <3>1 DEF Loops
      <4>2. loop.b + 1 \in Nat /\ loop.at \in {"push0", "pop1", "pop0", "push1"}
        BY <1>1 DEF Loops
      <4> QED
        BY <4>1, <4>2 DEF Loops
    <3>3. Count(NextItem(loop)) = batches + BatchSize
      BY <1>1, <1>3, <2>1, <3>2 DEF Count
    <3> QED
      BY <1>1, <1>3, <2>1, <2>2, <2>4, <2>5, <3>2, <3>3 DEF InBatch
  <2>6. CASE loop.i + 1 # BatchSize
    <3>1. NextItem(loop) = [loop EXCEPT !.i = @ + 1]
      BY <1>3, <2>6 DEF NextItem
    <3>2. /\ NextItem(loop) \in Loops /\ NextItem(loop).at = loop.at
          /\ NextItem(loop).i = loop.i + 1 /\ NextItem(loop).b = loop.b
      BY <3>1 DEF Loops
    <3>3. Count(NextItem(loop)) = batches + (loop.i + 1)
      BY <1>3, <3>2 DEF Count, batches
    <3> QED
      BY <1>1, <1>3, <2>1, <2>2, <2>4, <2>6, <3>2, <3>3 DEF InBatch
  <2> QED
    BY <2>5, <2>6
<1> QED
  BY <1>2, <1>3

(* The loops, as the invariant bounds them.                                *)
LEMMA LoopFacts ==
  ASSUME Inv
  PROVE  /\ first \in Loops /\ InBatch(first)
         /\ second \in Loops /\ InBatch(second)
         /\ first.at = "push0" \/ (first.at = "pop1" /\ test_case = 2)
         /\ second.at = "pop0" \/ (second.at = "push1" /\ test_case = 2)
         /\ Inv0 /\ Inv1
BY QueuesInvIs DEF Inv, LoopsInv, Loops, InBatch

(* The counts after a step, which never changes the test case.             *)
LEMMA CountsNext ==
  ASSUME UNCHANGED test_case
  PROVE  /\ PushCount0' = IF first'.at = "pop1" THEN Count(first') + 1 ELSE Count(first')
         /\ PopCount0' = IF second'.at = "push1" THEN Count(second') + 1 ELSE Count(second')
         /\ PushCount1' = IF test_case = 2 THEN second'.i ELSE 0
         /\ PopCount1' = IF test_case = 2 THEN first'.i ELSE 0
         /\ Items0' = Items0 /\ Items1' = Items1
BY DEF PushCount0, PopCount0, PushCount1, PopCount1, Items0, Items1, Count

LEMMA LoopAt ==
  ASSUME NEW loop \in Loops, NEW S, loop.at \in S
  PROVE  loop \in [at : S, i : Nat, b : Nat]
BY DEF Loops

-----------------------------------------------------------------------------
LEMMA InitInv == Init => Inv
<1> SUFFICES ASSUME Init
             PROVE  Inv
  OBVIOUS
<1>1. /\ first = [at |-> "push0", i |-> 0, b |-> 0]
      /\ second = [at |-> "pop0", i |-> 0, b |-> 0]
      /\ times = 0 /\ BatchSize \in Nat \ {0} /\ Batches \in Nat
  BY HeadToHeadAssumption DEF Init
<1>2. PushCount0 = 0 /\ PopCount0 = 0 /\ PushCount1 = 0 /\ PopCount1 = 0
  BY <1>1 DEF PushCount0, PopCount0, PushCount1, PopCount1, Count
<1>3. Inv0
  <2>1. Mine => P0!Inv
    BY <1>2, SameInit0, P0!InitInv, CapacityAssumption DEF Init
  <2>2. ~Mine => P0!Lib!Inv
    BY <1>2, SameInit0, P0!LibraryInitInv, CapacityAssumption DEF Init
  <2> QED
    BY <2>1, <2>2 DEF Inv0
<1>4. Inv1
  <2>1. Mine => P1!Inv
    BY <1>2, SameInit1, P1!InitInv, CapacityAssumption DEF Init
  <2>2. ~Mine => P1!Lib!Inv
    BY <1>2, SameInit1, P1!LibraryInitInv, CapacityAssumption DEF Init
  <2> QED
    BY <2>1, <2>2 DEF Inv1
<1>5. LoopsInv
  BY <1>1 DEF LoopsInv
<1>6. CallsInv
  <2>1. pop1.pc = "idle"
    BY DEF Init, Q1!ConsumerInit, L1!WrapperInit
  <2> QED
    BY <1>1, <2>1 DEF CallsInv
<1> QED
  BY <1>3, <1>4, <1>5, <1>6, QueuesInvIs DEF Inv

(* producer_thread, producer_req and producer_burst.                       *)
LEMMA FirstPushesInv ==
  ASSUME Inv, FirstPushes, UNCHANGED <<target, test_case>>
  PROVE  Inv'
<1>1. first.at = "push0" /\ UNCHANGED <<vars1, second, times>>
  BY DEF FirstPushes
<1>2. /\ first \in Loops /\ InBatch(first) /\ second \in Loops
      /\ Inv0 /\ Inv1
  BY LoopFacts
<1>3. /\ PushCount0 = Count(first) /\ Count(first) \in Nat
      /\ Items0[PushCount0] = first.i /\ first.i \in Nat
  BY <1>1, <1>2, CountOfNext DEF PushCount0, Loops
<1>4. UNCHANGED <<Items0, Items1, PopCount0, pop1>>
  BY <1>1, CountsNext DEF PopCount0, vars1
<1>5. CASE Pushing0(first.i) /\ UNCHANGED first
  <2>1. UNCHANGED <<PushCount0, PushCount1, PopCount1>>
    BY <1>1, <1>5, CountsNext DEF PushCount0, PushCount1, PopCount1
  <2>2. Inv0' /\ UNCHANGED pop0
    BY <1>2, <1>3, <1>4, <1>5, <2>1, Pushing0Inv DEF Pushing0
  <2>3. Inv1'
    BY <1>1, <1>2, <1>4, <2>1, UnchangedInv1
  <2>4. LoopsInv' /\ CallsInv'
    BY <1>1, <1>4, <1>5, <2>2 DEF Inv, LoopsInv, CallsInv
  <2> QED
    BY <2>2, <2>3, <2>4, QueuesInvIs DEF Inv
<1>6. CASE Pushed0(first.i) /\ first' = AfterPush(first)
  <2>1. /\ first' \in Loops /\ InBatch(first')
        /\ first'.at \in {"push0", "pop1"}
        /\ test_case # 2 => first'.at = "push0"
        /\ test_case = 2 => first'.i = first.i
        /\ PushCount0' = PushCount0 + 1
    <3>1. CASE test_case = 2
      <4>1. first' = [at |-> "pop1", i |-> first.i, b |-> first.b]
        BY <1>2, <1>6, <3>1 DEF AfterPush, Loops
      <4>2. first' \in Loops /\ InBatch(first') /\ Count(first') = Count(first)
        BY <1>2, <3>1, <4>1 DEF Loops, InBatch, Count
      <4> QED
        BY <1>3, <3>1, <4>1, <4>2, CountsNext
    <3>2. CASE test_case # 2
      <4>1. first' = NextItem(first)
        BY <1>6, <3>2 DEF AfterPush
      <4> QED
        BY <1>1, <1>2, <1>3, <3>2, <4>1, CountOfNext, CountsNext
    <3> QED
      BY <3>1, <3>2
  <2>2. UNCHANGED <<PushCount1, PopCount1>>
    BY <1>1, <2>1, CountsNext DEF PushCount1, PopCount1
  <2>3. Inv0' /\ UNCHANGED pop0
    BY <1>2, <1>3, <1>4, <1>6, <2>1, Pushed0Inv DEF Pushed0
  <2>4. Inv1'
    BY <1>1, <1>2, <1>4, <2>2, UnchangedInv1
  <2>5. CallsInv'
    BY <1>1, <1>4, <2>3 DEF Inv, CallsInv
  <2>6. LoopsInv'
    <3>1. first' \in [at : {"push0", "pop1"}, i : Nat, b : Nat]
      BY <2>1, LoopAt
    <3> QED
      BY <1>1, <2>1, <3>1 DEF Inv, LoopsInv, InBatch
  <2> QED
    BY <2>3, <2>4, <2>5, <2>6, QueuesInvIs DEF Inv
<1> QED
  BY <1>5, <1>6 DEF FirstPushes

(* producer_req waits for the echo.                                        *)
LEMMA FirstPopsEchoInv ==
  ASSUME Inv, FirstPopsEcho, UNCHANGED <<target, test_case>>
  PROVE  Inv'
<1>1. first.at = "pop1" /\ UNCHANGED <<vars0, second, times>>
  BY DEF FirstPopsEcho
<1>2. /\ first \in Loops /\ InBatch(first) /\ second \in Loops
      /\ Inv0 /\ Inv1 /\ test_case = 2
  BY <1>1, LoopFacts
<1>3. UNCHANGED <<Items0, Items1, PopCount0, PushCount1, pop0>>
  BY <1>1, CountsNext DEF PopCount0, PushCount1, vars0
<1>4. CASE Popping1 /\ UNCHANGED first
  <2>1. UNCHANGED <<PushCount0, PopCount1>>
    BY <1>1, <1>4, CountsNext DEF PushCount0, PopCount1
  <2>2. Inv0'
    BY <1>1, <1>2, <1>3, <2>1, UnchangedInv0
  <2>3. Inv1'
    BY <1>2, <1>3, <1>4, <2>1, Popping1Inv
  <2>4. LoopsInv' /\ CallsInv'
    BY <1>1, <1>3, <1>4 DEF Inv, LoopsInv, CallsInv
  <2> QED
    BY <2>2, <2>3, <2>4, QueuesInvIs DEF Inv
<1>5. CASE Popped1 /\ first' = [NextItem(first) EXCEPT !.at = "push0"]
  <2>1. first' = [at |-> "push0", i |-> first.i + 1, b |-> first.b] /\ first.i \in Nat
    <3>1. NextItem(first) = [first EXCEPT !.i = @ + 1]
      BY <1>2 DEF NextItem
    <3>2. first' = [[first EXCEPT !.i = @ + 1] EXCEPT !.at = "push0"]
      BY <1>5, <3>1
    <3> QED
      BY <1>2, <3>2 DEF Loops
  <2>2. first' \in Loops
    BY <1>2, <2>1 DEF Loops
  <2>3. PushCount0' = PushCount0 /\ PopCount1' = PopCount1 + 1
    BY <1>1, <1>2, <2>1, CountsNext DEF PushCount0, PopCount1, Count
  <2>4. Inv0'
    BY <1>1, <1>2, <1>3, <2>3, UnchangedInv0
  <2>5. Inv1' /\ pop1'.pc = "idle"
    BY <1>2, <1>3, <1>5, <2>3, Popped1Inv, Popped1Leaves
  <2>6. CallsInv'
    BY <1>1, <1>3, <2>5 DEF Inv, CallsInv
  <2>7. LoopsInv'
    <3>1. first' \in [at : {"push0", "pop1"}, i : Nat, b : Nat]
      BY <2>1, <2>2, LoopAt
    <3> QED
      BY <1>1, <1>2, <3>1 DEF Inv, LoopsInv
  <2> QED
    BY <2>4, <2>5, <2>6, <2>7, QueuesInvIs DEF Inv
<1> QED
  BY <1>4, <1>5 DEF FirstPopsEcho

(* consumer_thread, consumer_resp and consumer_burst.                      *)
LEMMA SecondPopsInv ==
  ASSUME Inv, SecondPops, UNCHANGED <<target, test_case>>
  PROVE  Inv'
<1>1. second.at = "pop0" /\ More(second) /\ UNCHANGED <<vars1, first>>
  BY DEF SecondPops
<1>2. /\ first \in Loops /\ second \in Loops /\ InBatch(second)
      /\ Inv0 /\ Inv1
  BY LoopFacts
<1>3. /\ PopCount0 = Count(second) /\ Count(second) \in Nat
      /\ Items0[PopCount0] = second.i
  BY <1>1, <1>2, CountOfNext DEF PopCount0
<1>4. UNCHANGED <<Items0, Items1, PushCount0, PopCount1, pop1>>
  BY <1>1, CountsNext DEF PushCount0, PopCount1, vars1
<1>5. CASE Popping0 /\ UNCHANGED <<second, times>>
  <2>1. UNCHANGED <<PopCount0, PushCount1>>
    BY <1>1, <1>5, CountsNext DEF PopCount0, PushCount1
  <2>2. Inv0'
    BY <1>2, <1>4, <1>5, <2>1, Popping0Inv
  <2>3. Inv1'
    BY <1>1, <1>2, <1>4, <2>1, UnchangedInv1
  <2>4. LoopsInv' /\ CallsInv'
    BY <1>1, <1>4, <1>5 DEF Inv, LoopsInv, CallsInv
  <2> QED
    BY <2>2, <2>3, <2>4, QueuesInvIs DEF Inv
<1>6. CASE /\ Popped0
           /\ IF test_case = 2
              THEN second' = [second EXCEPT !.at = "push1"] /\ UNCHANGED times
              ELSE second' = NextItem(second) /\ CountTimes
  <2>1. /\ second' \in Loops /\ InBatch(second')
        /\ second'.at \in {"pop0", "push1"}
        /\ test_case # 2 => second'.at = "pop0"
        /\ test_case = 2 => second'.i = second.i
        /\ PopCount0' = PopCount0 + 1
    <3>1. CASE test_case = 2
      <4>1. second' = [at |-> "push1", i |-> second.i, b |-> second.b]
        BY <1>2, <1>6, <3>1 DEF Loops
      <4>2. second' \in Loops /\ InBatch(second') /\ Count(second') = Count(second)
        BY <1>2, <3>1, <4>1 DEF Loops, InBatch, Count
      <4> QED
        BY <1>3, <3>1, <4>1, <4>2, CountsNext
    <3>2. CASE test_case # 2
      <4>1. second' = NextItem(second)
        BY <1>6, <3>2
      <4> QED
        BY <1>1, <1>2, <1>3, <3>2, <4>1, CountOfNext, CountsNext
    <3> QED
      BY <3>1, <3>2
  <2>2. UNCHANGED PushCount1
    BY <1>1, <2>1, CountsNext DEF PushCount1
  <2>3. Inv0' /\ pop0'.pc = "idle" /\ pop0'.out = second.i
    <3>1. Inv0' /\ pop0'.pc = "idle" /\ pop0'.out = pop0.out
      BY <1>2, <1>4, <1>6, <2>1, Popped0Inv, Popped0Leaves
    <3>2. pop0.out = Items0[PopCount0]
      BY <1>2, <1>6, Popped0Leaves, Held0
    <3> QED
      BY <1>3, <3>1, <3>2
  <2>4. Inv1'
    BY <1>1, <1>2, <1>4, <2>2, UnchangedInv1
  <2>5. CallsInv'
    <3>1. second'.at = "push1" => second'.i = second.i
      BY <2>1
    <3> QED
      BY <1>1, <1>4, <2>3, <3>1 DEF Inv, CallsInv
  <2>6. LoopsInv'
    <3>1. second' \in [at : {"pop0", "push1"}, i : Nat, b : Nat]
      BY <2>1, LoopAt
    <3>2. test_case = 3 => times' = second'.b /\ times' <= Batches
      <4> SUFFICES ASSUME test_case = 3
                   PROVE  times' = second'.b /\ times' <= Batches
        OBVIOUS
      <4>1. times = second.b /\ second.b < Batches /\ second.b \in Nat /\ Batches \in Nat
        BY <1>1, <1>2, HeadToHeadAssumption DEF Inv, LoopsInv, More, Loops
      <4>2. second'.b = IF second.i + 1 = BatchSize THEN second.b + 1 ELSE second.b
        BY <1>2, <1>6, CountOfNext
      <4>3. times' = IF second.i + 1 = BatchSize THEN times + 1 ELSE times
        BY <1>6 DEF CountTimes
      <4> QED
        BY <4>1, <4>2, <4>3
    <3> QED
      BY <1>1, <2>1, <3>1, <3>2 DEF Inv, LoopsInv, InBatch
  <2> QED
    BY <2>3, <2>4, <2>5, <2>6, QueuesInvIs DEF Inv
<1> QED
  BY <1>5, <1>6 DEF SecondPops

(* consumer_resp sends the request back.                                   *)
LEMMA SecondEchoesInv ==
  ASSUME Inv, SecondEchoes, UNCHANGED <<target, test_case>>
  PROVE  Inv'
<1>1. second.at = "push1" /\ UNCHANGED <<vars0, first, times>>
  BY DEF SecondEchoes
<1>2. /\ first \in Loops /\ second \in Loops
      /\ Inv0 /\ Inv1 /\ test_case = 2
  BY <1>1, LoopFacts
<1>3. UNCHANGED <<Items0, Items1, PushCount0, PopCount1, pop0>>
  BY <1>1, CountsNext DEF PushCount0, PopCount1, vars0
<1>4. /\ PushCount1 = second.i /\ second.i \in Nat
      /\ pop0.out = second.i /\ Items1[PushCount1] = second.i
  BY <1>1, <1>2 DEF PushCount1, Loops, Inv, CallsInv, Items1
<1>5. CASE Pushing1(pop0.out) /\ UNCHANGED second
  <2>1. UNCHANGED <<PopCount0, PushCount1>>
    BY <1>1, <1>5, CountsNext DEF PopCount0, PushCount1
  <2>2. Inv0'
    BY <1>1, <1>2, <1>3, <2>1, UnchangedInv0
  <2>3. Inv1' /\ UNCHANGED pop1
    BY <1>2, <1>3, <1>4, <1>5, <2>1, Pushing1Inv DEF Pushing1
  <2>4. LoopsInv' /\ CallsInv'
    BY <1>1, <1>3, <1>5, <2>3 DEF Inv, LoopsInv, CallsInv
  <2> QED
    BY <2>2, <2>3, <2>4, QueuesInvIs DEF Inv
<1>6. CASE Pushed1(pop0.out) /\ second' = [NextItem(second) EXCEPT !.at = "pop0"]
  <2>1. second' = [at |-> "pop0", i |-> second.i + 1, b |-> second.b]
    <3>1. NextItem(second) = [second EXCEPT !.i = @ + 1]
      BY <1>2 DEF NextItem
    <3>2. second' = [[second EXCEPT !.i = @ + 1] EXCEPT !.at = "pop0"]
      BY <1>6, <3>1
    <3> QED
      BY <1>2, <3>2 DEF Loops
  <2>2. second' \in Loops
    BY <1>2, <1>4, <2>1 DEF Loops
  <2>3. PopCount0' = PopCount0 /\ PushCount1' = PushCount1 + 1
    BY <1>1, <1>2, <2>1, CountsNext DEF PopCount0, PushCount1, Count
  <2>4. Inv0'
    BY <1>1, <1>2, <1>3, <2>3, UnchangedInv0
  <2>5. Inv1' /\ UNCHANGED pop1
    BY <1>2, <1>3, <1>4, <1>6, <2>3, Pushed1Inv DEF Pushed1
  <2>6. CallsInv'
    BY <1>1, <2>1, <2>5 DEF Inv, CallsInv
  <2>7. LoopsInv'
    <3>1. second' \in [at : {"pop0", "push1"}, i : Nat, b : Nat]
      BY <2>1, <2>2, LoopAt
    <3> QED
      BY <1>1, <1>2, <3>1 DEF Inv, LoopsInv
  <2> QED
    BY <2>4, <2>5, <2>6, <2>7, QueuesInvIs DEF Inv
<1> QED
  BY <1>5, <1>6 DEF SecondEchoes

LEMMA NextInv == Inv /\ [Next]_vars => Inv'
<1> SUFFICES ASSUME Inv, [Next]_vars
             PROVE  Inv'
  OBVIOUS
<1>1. CASE First
  BY <1>1, FirstPushesInv, FirstPopsEchoInv DEF First
<1>2. CASE Second
  BY <1>2, SecondPopsInv, SecondEchoesInv DEF Second
<1>3. CASE UNCHANGED vars
  <2>1. UNCHANGED <<target, test_case, vars0, vars1, first, second, times>>
    BY <1>3 DEF vars
  <2>2. UNCHANGED <<PushCount0, PopCount0, PushCount1, PopCount1, Items0, Items1>>
    BY <2>1, CountsNext DEF PushCount0, PopCount0, PushCount1, PopCount1
  <2>3. Inv0' /\ Inv1'
    BY <2>1, <2>2, LoopFacts, UnchangedInv0, UnchangedInv1
  <2>4. LoopsInv' /\ CallsInv'
    BY <2>1 DEF Inv, LoopsInv, CallsInv, vars0, vars1
  <2> QED
    BY <2>3, <2>4, QueuesInvIs DEF Inv
<1> QED
  BY <1>1, <1>2, <1>3 DEF Next, Joined

-----------------------------------------------------------------------------
(* Whatever the target and the test case, the loops' counters say what     *)
(* each queue holds and what each thread knows of the other's progress.    *)
THEOREM Invariance == Safety => []Inv
<1> QED
  BY InitInv, NextInv, PTL DEF Safety

(* Every pop returns the item its loop is at: the assertion of line 98     *)
(* never fails, each echo is that of the last request, and no batch runs   *)
(* into the next.                                                          *)
THEOREM EveryPopMatches == Safety => []ItemsMatch
<1>1. Inv => ItemsMatch
  <2> SUFFICES ASSUME Inv
               PROVE  ItemsMatch
    OBVIOUS
  <2>1. ASSUME pop0.pc \in {"publish", "return"}
        PROVE  pop0.out = second.i
    <3>1. second.at = "pop0"
      BY <2>1, LoopFacts DEF Inv, CallsInv
    <3>2. PopCount0 = Count(second) /\ Items0[Count(second)] = second.i
      BY <3>1, LoopFacts, CountOfNext DEF PopCount0
    <3> QED
      BY <2>1, <3>2, LoopFacts, Held0
  <2>2. ASSUME pop1.pc \in {"publish", "return"}
        PROVE  pop1.out = first.i
    <3>1. test_case = 2
      BY <2>2, LoopFacts DEF Inv, CallsInv
    <3>2. PopCount1 = first.i /\ first.i \in Nat
      BY <3>1, LoopFacts DEF PopCount1, Loops
    <3>3. Items1[PopCount1] = first.i
      BY <3>2 DEF Items1
    <3> QED
      BY <2>2, <3>3, LoopFacts, Held1
  <2> QED
    BY <2>1, <2>2 DEF ItemsMatch
<1> QED
  BY <1>1, Invariance, PTL

(* Neither SpscQueue is raced for, although the same two threads use both  *)
(* with their roles exchanged (lines 108 to 129).                          *)
THEOREM NoDataRace == Safety => []DataRaceFree
<1>1. Inv => DataRaceFree
  <2> SUFFICES ASSUME Inv, Mine
               PROVE  Q0!DataRaceFree /\ Q1!DataRaceFree
    BY DEF DataRaceFree
  <2>1. P0!Inv /\ P1!Inv
    BY LoopFacts DEF Inv0, Inv1
  <2>2. P0!DataRaceFree
    BY <2>1, P0!InvDataRaceFree, CapacityAssumption
  <2>3. P1!DataRaceFree
    BY <2>1, P1!InvDataRaceFree, CapacityAssumption
  <2> QED
    BY <2>2, <2>3
    DEF Q0!DataRaceFree, Q0!SlotOf, Q1!DataRaceFree, Q1!SlotOf,
        P0!DataRaceFree, P0!SlotOf, P1!DataRaceFree, P1!SlotOf
<1> QED
  BY <1>1, Invariance, PTL

(* When both threads of test case 3 have ended, consumer_burst has timed   *)
(* every batch, once (lines 150 to 158 and 185).                           *)
THEOREM EveryBatchIsTimed == Safety => [](Done /\ test_case = 3 => times = Batches)
<1>1. Inv => (Done /\ test_case = 3 => times = Batches)
  <2> SUFFICES ASSUME Inv, Done, test_case = 3
               PROVE  times = Batches
    OBVIOUS
  <2>1. second.b \in Nat /\ Batches \in Nat /\ ~(second.b < Batches)
    BY LoopFacts, HeadToHeadAssumption DEF Done, More, Loops
  <2>2. times = second.b /\ times <= Batches
    BY DEF Inv, LoopsInv
  <2> QED
    BY <2>1, <2>2
<1> QED
  BY <1>1, Invariance, PTL

-----------------------------------------------------------------------------
(* Test case 2 as a game.                                                  *)

(* The loops' counters are at most one apart, and they and the threads'    *)
(* places in their loops tell where the message is.                        *)
Where ==
  IF test_case # 2 THEN "home"
  ELSE IF PopCount0 # PushCount0 THEN "request"
  ELSE IF PopCount1 # PushCount1 THEN "response"
  ELSE IF second.at = "push1" THEN "away"
  ELSE "home"

LEMMA BallIsWhere == Inv => Ball = Where
<1> SUFFICES ASSUME Inv
             PROVE  Ball = Where
  OBVIOUS
<1>1. /\ Holds(q0, pop0) <=> PopCount0 # PushCount0
      /\ Holds(q1, pop1) <=> PopCount1 # PushCount1
  BY LoopFacts, Held0, Held1
<1> QED
  BY <1>1 DEF Ball, Where

LEMMA Trips ==
  ASSUME Inv, test_case = 2
  PROVE  /\ first.i \in Nat /\ second.i \in Nat
         /\ PushCount0 = IF first.at = "pop1" THEN first.i + 1 ELSE first.i
         /\ PopCount0 = IF second.at = "push1" THEN second.i + 1 ELSE second.i
         /\ PushCount1 = second.i /\ PopCount1 = first.i
         /\ PopCount0 <= PushCount0 /\ first.i <= second.i
         /\ first.at \in {"push0", "pop1"} /\ second.at \in {"pop0", "push1"}
<1>1. /\ first.i \in Nat /\ second.i \in Nat
      /\ first.at \in {"push0", "pop1"} /\ second.at \in {"pop0", "push1"}
  BY LoopFacts DEF Loops
<1>2. PopCount0 <= PushCount0 /\ PopCount1 <= PushCount1
  BY LoopFacts, Held0, Held1
<1>3. PushCount1 = second.i /\ PopCount1 = first.i
  BY DEF PushCount1, PopCount1
<1> QED
  BY <1>1, <1>2, <1>3 DEF PushCount0, PopCount0, Count

(* Where the message is, from the two loops alone.                         *)
Turns ==
  /\ first.at = "push0" => Where = "home" /\ second.at = "pop0" /\ second.i = first.i
  /\ first.at = "pop1" /\ second.at = "push1" => Where = "away" /\ second.i = first.i
  /\ first.at = "pop1" /\ second.at = "pop0" /\ second.i = first.i => Where = "request"
  /\ first.at = "pop1" /\ second.at = "pop0" /\ second.i # first.i =>
       Where = "response" /\ second.i = first.i + 1

LEMMA WhereIs == Inv => (test_case = 2 => Turns)
BY Trips DEF Where, Turns

(* What a step of the loops does to their counters in test case 2.         *)
LEMMA StepOfLoops ==
  ASSUME Inv, [Next]_vars, test_case = 2
  PROVE  \/ first' = first /\ second' = second
         \/ /\ first.at = "push0" /\ first.i < Iterations
            /\ first'.at = "pop1" /\ first'.i = first.i /\ second' = second
         \/ /\ first.at = "pop1" /\ first'.at = "push0"
            /\ first'.i = first.i + 1 /\ second' = second
            /\ PopCount1 < PushCount1
         \/ /\ second.at = "pop0" /\ second'.at = "push1"
            /\ second'.i = second.i /\ first' = first
            /\ PopCount0 < PushCount0
         \/ /\ second.at = "push1" /\ second'.at = "pop0"
            /\ second'.i = second.i + 1 /\ first' = first
<1>1. /\ first \in Loops /\ second \in Loops /\ Inv0 /\ Inv1
  BY LoopFacts
<1>2. ASSUME NEW loop \in Loops, NEW at
      PROVE  /\ [NextItem(loop) EXCEPT !.at = at].at = at
             /\ [NextItem(loop) EXCEPT !.at = at].i = loop.i + 1
             /\ [loop EXCEPT !.at = at].at = at
             /\ [loop EXCEPT !.at = at].i = loop.i
  BY DEF NextItem, Loops
<1>3. CASE FirstPushes
  <2>1. first.at = "push0" /\ More(first) /\ second' = second
    BY <1>3 DEF FirstPushes
  <2>2. first' = first \/ first' = [first EXCEPT !.at = "pop1"]
    BY <1>3 DEF FirstPushes, AfterPush
  <2>3. first.i < Iterations
    BY <2>1 DEF More
  <2>4. CASE first' = first
    BY <2>1, <2>4
  <2>5. CASE first' = [first EXCEPT !.at = "pop1"]
    <3>1. first'.at = "pop1" /\ first'.i = first.i
      BY <1>1, <1>2, <2>5
    <3> QED
      BY <2>1, <2>3, <3>1
  <2> QED
    BY <2>2, <2>4, <2>5
<1>4. CASE FirstPopsEcho
  <2>1. first.at = "pop1" /\ second' = second
    BY <1>4 DEF FirstPopsEcho
  <2>2. \/ first' = first
        \/ Popped1 /\ first' = [NextItem(first) EXCEPT !.at = "push0"]
    BY <1>4 DEF FirstPopsEcho
  <2>3. CASE first' = first
    BY <2>1, <2>3
  <2>4. CASE Popped1 /\ first' = [NextItem(first) EXCEPT !.at = "push0"]
    <3>1. first'.at = "push0" /\ first'.i = first.i + 1
      BY <1>1, <1>2, <2>4
    <3>2. PopCount1 < PushCount1
      BY <1>1, <2>4, Popped1Leaves, Held1
    <3> QED
      BY <2>1, <3>1, <3>2
  <2> QED
    BY <2>2, <2>3, <2>4
<1>5. CASE SecondPops
  <2>1. second.at = "pop0" /\ first' = first
    BY <1>5 DEF SecondPops
  <2>2. \/ second' = second
        \/ Popped0 /\ second' = [second EXCEPT !.at = "push1"]
    BY <1>5 DEF SecondPops
  <2>3. CASE second' = second
    BY <2>1, <2>3
  <2>4. CASE Popped0 /\ second' = [second EXCEPT !.at = "push1"]
    <3>1. second'.at = "push1" /\ second'.i = second.i
      BY <1>1, <1>2, <2>4
    <3>2. PopCount0 < PushCount0
      BY <1>1, <2>4, Popped0Leaves, Held0
    <3> QED
      BY <2>1, <3>1, <3>2
  <2> QED
    BY <2>2, <2>3, <2>4
<1>6. CASE SecondEchoes
  <2>1. second.at = "push1" /\ first' = first
    BY <1>6 DEF SecondEchoes
  <2>2. second' = second \/ second' = [NextItem(second) EXCEPT !.at = "pop0"]
    BY <1>6 DEF SecondEchoes
  <2>3. CASE second' = second
    BY <2>1, <2>3
  <2>4. CASE second' = [NextItem(second) EXCEPT !.at = "pop0"]
    <3>1. second'.at = "pop0" /\ second'.i = second.i + 1
      BY <1>1, <1>2, <2>4
    <3> QED
      BY <2>1, <3>1
  <2> QED
    BY <2>2, <2>3, <2>4
<1>7. CASE UNCHANGED vars
  BY <1>7 DEF vars
<1> QED
  BY <1>3, <1>4, <1>5, <1>6, <1>7 DEF Next, First, Second, Joined

(* In test case 2 the two loops and the two queues play the game of module *)
(* RoundTrips, for every target: one message is in both queues together,   *)
(* it makes Iterations round trips at most, and producer_req sends a       *)
(* request only when the echo of the one before has been popped (lines 108 *)
(* to 115 and 122 to 129).                                                 *)
THEOREM MessagePlaysRoundTrips == Safety => Game!Safety
<1> USE HeadToHeadAssumption
<1>1. Init => Game!Init
  <2> SUFFICES ASSUME Init
               PROVE  Game!Init
    OBVIOUS
  <2>1. Inv
    BY InitInv
  <2>2. first.at = "push0" /\ first.i = 0
    BY DEF Init
  <2>3. Ball = "home"
    BY <2>1, <2>2, BallIsWhere, WhereIs DEF Turns, Where
  <2> QED
    BY <2>2, <2>3 DEF Game!Init
<1>2. (Inv => (test_case = 2 => Turns)) /\ (Inv => Ball = Where)
  BY WhereIs, BallIsWhere
<1>3. (Inv => (test_case = 2 => Turns))' /\ (Inv => Ball = Where)'
  BY <1>2, PTL
<1>4. Inv /\ Inv' /\ [Next]_vars => [Game!Next]_(Game!vars)
  <2> SUFFICES ASSUME Inv, Inv', [Next]_vars
               PROVE  [Game!Next]_(Game!vars)
    OBVIOUS
  <2>1. test_case' = test_case
    BY DEF Next, First, Second, Joined, vars
  <2>2. Ball = Where /\ Ball' = Where'
    BY <1>2, <1>3
  <2>3. CASE test_case # 2
    BY <2>1, <2>2, <2>3 DEF Where, Game!vars
  <2>4. CASE test_case = 2
    <3>1. Turns /\ Turns'
      BY <1>2, <1>3, <2>1, <2>4
    <3>2. /\ first.i \in Nat /\ second.i \in Nat
          /\ first.at \in {"push0", "pop1"} /\ second.at \in {"pop0", "push1"}
      BY <2>4, Trips
    <3>3. CASE first' = first /\ second' = second
      <4>1. Where' = Where
        BY <2>1, <3>3 DEF Where, PushCount0, PushCount1, PopCount0, PopCount1, Count
      <4> QED
        BY <2>1, <2>2, <3>3, <4>1 DEF Game!vars
    <3>4. CASE /\ first.at = "push0" /\ first.i < Iterations
               /\ first'.at = "pop1" /\ first'.i = first.i /\ second' = second
      <4>1. Where = "home" /\ Where' = "request"
        BY <3>1, <3>4 DEF Turns
      <4> QED
        BY <2>1, <2>2, <2>4, <3>4, <4>1 DEF Game!Next, Game!Send, Game!Move
    <3>5. CASE /\ first.at = "pop1" /\ first'.at = "push0"
               /\ first'.i = first.i + 1 /\ second' = second
               /\ PopCount1 < PushCount1
      <4>1. second.i # first.i
        BY <2>4, <3>2, <3>5 DEF PopCount1, PushCount1
      <4>2. Where = "response" /\ Where' = "home"
        BY <3>1, <3>2, <3>5, <4>1 DEF Turns
      <4> QED
        BY <2>1, <2>2, <2>4, <3>5, <4>2 DEF Game!Next, Game!Return, Game!Move
    <3>6. CASE /\ second.at = "pop0" /\ second'.at = "push1"
               /\ second'.i = second.i /\ first' = first
               /\ PopCount0 < PushCount0
      <4>1. first.at = "pop1" /\ second.i = first.i
        <5>1. first'.at = "pop1"
          BY <3>1, <3>2, <3>6 DEF Turns
        <5> QED
          BY <3>1, <3>6, <5>1 DEF Turns
      <4>2. Where = "request" /\ Where' = "away"
        BY <3>1, <3>6, <4>1 DEF Turns
      <4> QED
        BY <2>1, <2>2, <2>4, <3>6, <4>2 DEF Game!Next, Game!Receive, Game!Move
    <3>7. CASE /\ second.at = "push1" /\ second'.at = "pop0"
               /\ second'.i = second.i + 1 /\ first' = first
      <4>1. first.at = "pop1"
        BY <3>1, <3>2, <3>7 DEF Turns
      <4>2. Where = "away" /\ second.i = first.i
        BY <3>1, <3>7, <4>1 DEF Turns
      <4>3. Where' = "response"
        BY <3>1, <3>2, <3>7, <4>1, <4>2 DEF Turns
      <4> QED
        BY <2>1, <2>2, <2>4, <3>7, <4>2, <4>3 DEF Game!Next, Game!Answer, Game!Move
    <3> QED
      BY <2>4, <3>3, <3>4, <3>5, <3>6, <3>7, StepOfLoops
  <2> QED
    BY <2>3, <2>4
<1> QED
  BY <1>1, <1>4, Invariance, PTL DEF Safety, Game!Safety

=============================================================================
