---------------------------- MODULE QueueProofs ----------------------------
(***************************************************************************)
(* Lemmas about one queue, whoever uses it, for every Capacity and every   *)
(* index width: arithmetic of wrapped counters; for SpscQueue, one lemma   *)
(* per step of try_push and try_pop for the invariant of SpscProgress, and *)
(* what follows from it; for the libraries' queues, the same for the       *)
(* invariant of LibraryProgress.                                           *)
(***************************************************************************)
EXTENDS SpscProgress, SequenceTheorems, TLAPS

(* A multiple of m that is not zero is at least m away from it.            *)
LEMMA ProductBound ==
  ASSUME NEW m \in Nat \ {0}, NEW k \in Int, k >= 1
  PROVE  m * k >= m
BY SMT

(* The quotient and remainder of a division are the only pair of their     *)
(* kind.                                                                   *)
LEMMA RemainderUnique ==
  ASSUME NEW m \in Nat \ {0}, NEW q \in Int, NEW r \in 0 .. m - 1,
         NEW q2 \in Int, NEW r2 \in 0 .. m - 1, m * q + r = m * q2 + r2
  PROVE  r = r2
<1>1. m * (q - q2) = r2 - r /\ m * (q2 - q) = r - r2
  BY SMT
<1>2. CASE q - q2 >= 1
  BY <1>1, <1>2, ProductBound
<1>3. CASE q2 - q >= 1
  BY <1>1, <1>3, ProductBound
<1>4. CASE q = q2
  BY <1>1, <1>4
<1> QED
  BY <1>2, <1>3, <1>4

(* Every number is a quotient and a remainder.                             *)
LEMMA DivisionTheorem ==
  \A m \in Nat \ {0}, a \in Int :
    /\ a % m \in 0 .. m - 1
    /\ \E q \in Int : a = m * q + (a % m)
<1> SUFFICES ASSUME NEW m \in Nat \ {0}, NEW a \in Int
             PROVE  /\ a % m \in 0 .. m - 1
                    /\ \E q \in Int : a = m * q + (a % m)
  OBVIOUS
<1>1. a % m \in 0 .. m - 1
  BY SMT
<1>2. a = m * (a \div m) + (a % m) /\ a \div m \in Int
  BY SMT
<1> QED
  BY <1>1, <1>2

(* A number that differs from r by a multiple of m has remainder r.        *)
LEMMA RemainderIs ==
  ASSUME NEW m \in Nat \ {0}, NEW q \in Int, NEW r \in 0 .. m - 1
  PROVE  (m * q + r) % m = r
<1> DEFINE a == m * q + r
<1>1. a \in Int
  BY SMT
<1>2. PICK q2 \in Int : a = m * q2 + (a % m)
  BY <1>1, DivisionTheorem
<1>3. a % m \in 0 .. m - 1
  BY <1>1, DivisionTheorem
<1> HIDE DEF a
<1>4. a = m * q + r
  BY DEF a
<1>5. a % m = r
  BY <1>2, <1>3, <1>4, RemainderUnique
<1> QED
  BY <1>5 DEF a

(* Wrapping a counter once or twice is the same, when the small modulus    *)
(* divides the large one: the slot of a wrapped index is the slot of the   *)
(* counter it stands for.                                                  *)
LEMMA RemainderOfRemainder ==
  ASSUME NEW c \in Nat \ {0}, NEW laps \in Nat \ {0}, NEW a \in Nat
  PROVE  (a % (c * laps)) % c = a % c
<1> DEFINE m == c * laps
<1>1. m \in Nat \ {0} /\ a \in Int
  BY ProductBound, SMT
<1> HIDE DEF m
<1>2. PICK q \in Int : a = m * q + (a % m)
  BY <1>1, DivisionTheorem, Zenon
<1>3. PICK p \in Int : a = c * p + (a % c)
  BY <1>1, DivisionTheorem, Zenon
<1>4. a % c \in 0 .. c - 1 /\ a % m \in 0 .. m - 1
  BY <1>1, DivisionTheorem, Zenon
<1> DEFINE k == p - laps * q
<1>5. k \in Int
  BY SMT
<1>6. a % m = c * k + (a % c)
  <2>1. m * q = c * (laps * q)
    BY SMT DEF m
  <2>2. laps * q \in Int
    BY SMT
  <2> DEFINE lq == laps * q
             am == a % m
             ac == a % c
  <2>3. lq \in Int /\ am \in Int /\ ac \in Int
    BY <1>4, <2>2, <1>1, SMT
  <2>4. a = c * lq + am /\ a = c * p + ac
    BY <1>2, <1>3, <2>1
  <2> HIDE DEF lq, am, ac
  <2>5. am = c * (p - lq) + ac
    BY <2>3, <2>4, SMT
  <2> QED
    BY <2>5 DEF lq, am, ac
<1> HIDE DEF k
<1>7. (c * k + (a % c)) % c = a % c
  BY <1>4, <1>5, RemainderIs
<1>8. (a % m) % c = a % c
  BY <1>6, <1>7
<1> QED
  BY <1>8 DEF m

(* Incrementing a wrapped counter.                                         *)
LEMMA WrappedSuccessor ==
  ASSUME NEW m \in Nat \ {0}, NEW a \in Nat
  PROVE  ((a % m) + 1) % m = (a + 1) % m
<1>0. a \in Int /\ a + 1 \in Int
  OBVIOUS
<1>1. PICK q \in Int : a = m * q + (a % m)
  BY <1>0, DivisionTheorem, Zenon
<1>2. PICK p \in Int : a + 1 = m * p + ((a + 1) % m)
  BY <1>0, DivisionTheorem, Zenon
<1>3. (a + 1) % m \in 0 .. m - 1 /\ a % m \in 0 .. m - 1
  BY <1>0, DivisionTheorem, Zenon
<1> DEFINE k == p - q
           r == (a + 1) % m
<1>4. (a % m) + 1 = m * k + r /\ k \in Int
  BY <1>1, <1>2, <1>3, SMT
<1> HIDE DEF k, r
<1>5. r \in 0 .. m - 1
  BY <1>3 DEF r
<1>6. (m * k + r) % m = r
  BY <1>4, <1>5, RemainderIs
<1> QED
  BY <1>4, <1>6 DEF r

(* The distance of two wrapped counters is their distance, when that is    *)
(* below the modulus.                                                      *)
LEMMA WrappedDistance ==
  \A m \in Nat \ {0}, a \in Nat, b \in Nat :
    b <= a /\ a - b < m => ((a % m) - (b % m)) % m = a - b
<1> SUFFICES ASSUME NEW m \in Nat \ {0}, NEW a \in Nat, NEW b \in Nat,
                    b <= a, a - b < m
             PROVE  ((a % m) - (b % m)) % m = a - b
  OBVIOUS
<1>0. a \in Int /\ b \in Int
  OBVIOUS
<1>1. PICK q \in Int : a = m * q + (a % m)
  BY <1>0, DivisionTheorem, Zenon
<1>2. PICK p \in Int : b = m * p + (b % m)
  BY <1>0, DivisionTheorem, Zenon
<1>3. b % m \in 0 .. m - 1 /\ a % m \in 0 .. m - 1
  BY <1>0, DivisionTheorem, Zenon
<1> DEFINE k == p - q
           r == a - b
           am == a % m
           bm == b % m
<1>4. am \in Int /\ bm \in Int /\ a = m * q + am /\ b = m * p + bm
  BY <1>1, <1>2, <1>3
<1> HIDE DEF am, bm
<1>5. am - bm = m * k + r /\ k \in Int
  BY <1>4, SMT
<1>6. r \in 0 .. m - 1
  OBVIOUS
<1> HIDE DEF k, r
<1>7. (m * k + r) % m = r
  BY <1>5, <1>6, RemainderIs
<1> QED
  BY <1>5, <1>7 DEF r, am, bm

(* Counters less than a lap apart have different remainders.               *)
LEMMA WrappedDistinct ==
  \A m \in Nat \ {0}, a \in Nat, b \in Nat :
    b < a /\ a - b < m => a % m # b % m
<1> SUFFICES ASSUME NEW m \in Nat \ {0}, NEW a \in Nat, NEW b \in Nat,
                    b < a, a - b < m, a % m = b % m
             PROVE  FALSE
  OBVIOUS
<1>0. b <= a
  OBVIOUS
<1>1. ((a % m) - (b % m)) % m = a - b
  BY <1>0, WrappedDistance, Zenon
<1>2. a % m \in 0 .. m - 1
  BY DivisionTheorem
<1>3. (a % m) - (b % m) = m * 0 + 0
  BY <1>2
<1>4. (m * 0 + 0) % m = 0
  BY RemainderIs
<1> QED
  BY <1>1, <1>3, <1>4

(* A counter below the modulus is its own remainder.                       *)
LEMMA SmallRemainder ==
  ASSUME NEW m \in Nat \ {0}, NEW a \in 0 .. m - 1
  PROVE  a % m = a
<1>1. (m * 0 + a) % m = a
  BY RemainderIs
<1> QED
  BY <1>1

(* Only the remainder of a term counts in the remainder of a sum.          *)
LEMMA RemainderOfSum ==
  \A m \in Nat \ {0}, a \in Nat, b \in Nat, j \in Nat :
    a % m = b % m => (a + j) % m = (b + j) % m
<1> SUFFICES ASSUME NEW m \in Nat \ {0}, NEW a \in Nat, NEW b \in Nat, NEW j \in Nat,
                    a % m = b % m
             PROVE  (a + j) % m = (b + j) % m
  OBVIOUS
<1>0. a \in Int /\ b \in Int /\ b + j \in Int
  OBVIOUS
<1>1. PICK q \in Int : a = m * q + (a % m)
  BY <1>0, DivisionTheorem, Zenon
<1>2. PICK p \in Int : b = m * p + (b % m)
  BY <1>0, DivisionTheorem, Zenon
<1>3. PICK n \in Int : b + j = m * n + ((b + j) % m)
  BY <1>0, DivisionTheorem, Zenon
<1>4. a % m \in 0 .. m - 1 /\ (b + j) % m \in 0 .. m - 1
  BY <1>0, DivisionTheorem, Zenon
<1> DEFINE am == a % m
           r == (b + j) % m
           k == q - p + n
<1>5. /\ am \in Int /\ r \in 0 .. m - 1
      /\ a = m * q + am /\ b = m * p + am /\ b + j = m * n + r
  BY <1>1, <1>2, <1>3, <1>4
<1> HIDE DEF am, r
<1>6. a + j = m * k + r /\ k \in Int
  BY <1>5, SMT
<1> HIDE DEF k
<1>7. (m * k + r) % m = r
  BY <1>5, <1>6, RemainderIs
<1> QED
  BY <1>6, <1>7 DEF r
-----------------------------------------------------------------------------
(* CapacityAssumption, in the form the proofs use.                         *)
LEMMA Laps == \E laps \in Nat \ {0} : IndexMod = Capacity * laps
BY CapacityAssumption

LEMMA Moduli ==
  /\ Capacity \in Nat \ {0}
  /\ IndexMod \in Nat \ {0}
  /\ Capacity < IndexMod
<1>1. PICK laps \in 2 .. IndexMod : IndexMod = Capacity * laps
  BY CapacityAssumption
<1>2. Capacity \in Nat \ {0} /\ IndexMod \in Nat
  BY CapacityAssumption
<1>3. Capacity * (laps - 1) >= Capacity
  BY <1>2, ProductBound
<1>4. Capacity * laps = Capacity * (laps - 1) + Capacity
  BY <1>2, SMT
<1>5. IndexMod >= Capacity + Capacity
  BY <1>1, <1>2, <1>3, <1>4
<1> QED
  BY <1>2, <1>5

(* The slot of an index is the slot of the counter it stands for.          *)
LEMMA SlotOfIndex ==
  \A k \in Nat : SlotOf(k % IndexMod) = SlotOf(k) /\ SlotOf(k) \in Slots
<1> SUFFICES ASSUME NEW k \in Nat
             PROVE  SlotOf(k % IndexMod) = SlotOf(k) /\ SlotOf(k) \in Slots
  OBVIOUS
<1>1. PICK laps \in Nat \ {0} : IndexMod = Capacity * laps
  BY Laps
<1>2. Capacity \in Nat \ {0} /\ k \in Int
  BY Moduli
<1>3. (k % (Capacity * laps)) % Capacity = k % Capacity
  BY <1>2, RemainderOfRemainder
<1>4. k % Capacity \in 0 .. Capacity - 1
  BY <1>2, DivisionTheorem, Zenon
<1> QED
  BY <1>1, <1>3, <1>4 DEF SlotOf, Slots

LEMMA IndexOfCounter == \A k \in Nat : k % IndexMod \in Indices
<1> SUFFICES ASSUME NEW k \in Nat
             PROVE  k % IndexMod \in Indices
  OBVIOUS
<1>1. k \in Int /\ IndexMod \in Nat \ {0}
  BY Moduli
<1> QED
  BY <1>1, DivisionTheorem, Zenon DEF Indices

(* Indices that stand for counters at most Capacity apart.                 *)
LEMMA DistanceOfCounters ==
  \A a, b \in Nat :
    b <= a /\ a - b <= Capacity => Distance(a % IndexMod, b % IndexMod) = a - b
<1> SUFFICES ASSUME NEW a \in Nat, NEW b \in Nat, b <= a, a - b <= Capacity
             PROVE  Distance(a % IndexMod, b % IndexMod) = a - b
  OBVIOUS
<1>1. a - b < IndexMod /\ IndexMod \in Nat \ {0}
  BY Moduli
<1> QED
  BY <1>1, WrappedDistance, Zenon DEF Distance

LEMMA EqualIndices ==
  \A a, b \in Nat :
    b <= a /\ a - b <= Capacity => (b % IndexMod = a % IndexMod <=> a = b)
<1> SUFFICES ASSUME NEW a \in Nat, NEW b \in Nat, b < a, a - b <= Capacity
             PROVE  a % IndexMod # b % IndexMod
  OBVIOUS
<1>1. a - b < IndexMod /\ IndexMod \in Nat \ {0}
  BY Moduli
<1> QED
  BY <1>1, WrappedDistinct, Zenon

(* Counters less than Capacity apart use different slots.                  *)
LEMMA DistinctSlots ==
  \A a, b \in Nat : b < a /\ a - b < Capacity => SlotOf(a) # SlotOf(b)
BY Moduli, WrappedDistinct, Zenon DEF SlotOf

-----------------------------------------------------------------------------
(* What the threads know of each other's progress is in order: pops the    *)
(* producer knows of, pops, pushes the consumer knows of, pushes.          *)
LEMMA Order ==
  ASSUME Inv
  PROVE  /\ producer.seen \in Nat /\ consumer.seen \in Nat
         /\ producer.reads_known \in Nat /\ consumer.writes_known \in Nat
         /\ pushed \in Nat /\ popped \in Nat
         /\ producer.seen - 1 \in producer.reads_known .. popped
         /\ popped <= consumer.writes_known
         /\ consumer.seen - 1 \in consumer.writes_known .. pushed
         /\ pushed - producer.reads_known <= Capacity
         /\ producer.writes \in {pushed, pushed + 1}
         /\ consumer.reads \in {popped, popped + 1}
BY DEF Inv, TypeInv, ProducerTypeOK, ConsumerTypeOK, ProducerInv, ConsumerInv

(* What the two indices hold.                                              *)
LEMMA LatestIndices ==
  ASSUME Inv
  PROVE  /\ Latest(queue.tail).index = pushed % IndexMod
         /\ Latest(queue.head).index = popped % IndexMod
<1>1. pushed \in 0 .. pushed /\ popped \in 0 .. popped
  BY Order
<1>2. queue.tail[pushed + 1] = [index |-> pushed % IndexMod, accesses |-> pushed]
  BY <1>1, Order DEF Inv, LogsInv
<1>3. queue.head[popped + 1] = [index |-> popped % IndexMod, accesses |-> popped]
  BY <1>1, Order DEF Inv, LogsInv
<1> QED
  BY <1>2, <1>3 DEF Inv, LogsInv, Latest

(* Any message the producer may load says how many pops precede it, and    *)
(* "full" means what it says of that message.                              *)
LEMMA VisibleHead ==
  ASSUME Inv, NEW seen \in Visible(queue.head, producer.seen)
  PROVE  /\ seen \in Nat
         /\ seen \in producer.seen .. popped + 1
         /\ seen - 1 \in Nat
         /\ queue.head[seen] = [index |-> (seen - 1) % IndexMod, accesses |-> seen - 1]
         /\ LooksFull(pushed % IndexMod, (seen - 1) % IndexMod)
              <=> pushed - (seen - 1) = Capacity
<1>1. seen \in producer.seen .. popped + 1 /\ seen - 1 \in 0 .. popped
  BY Order DEF Inv, LogsInv, Visible
<1>2. queue.head[(seen - 1) + 1] = [index |-> (seen - 1) % IndexMod, accesses |-> seen - 1]
  BY <1>1 DEF Inv, LogsInv
<1>3. queue.head[seen] = [index |-> (seen - 1) % IndexMod, accesses |-> seen - 1]
  BY <1>1, <1>2, Order
<1>4. /\ seen - 1 \in Nat /\ pushed \in Nat
      /\ seen - 1 <= pushed /\ pushed - (seen - 1) <= Capacity
  BY <1>1, Order, Moduli
<1>5. Distance(pushed % IndexMod, (seen - 1) % IndexMod) = pushed - (seen - 1)
  BY <1>4, DistanceOfCounters, Zenon
<1> QED
  BY <1>1, <1>3, <1>4, <1>5 DEF LooksFull

LEMMA VisibleTail ==
  ASSUME Inv, NEW seen \in Visible(queue.tail, consumer.seen)
  PROVE  /\ seen \in Nat
         /\ seen \in consumer.seen .. pushed + 1
         /\ seen - 1 \in Nat
         /\ queue.tail[seen] = [index |-> (seen - 1) % IndexMod, accesses |-> seen - 1]
         /\ LooksEmpty(popped % IndexMod, (seen - 1) % IndexMod)
              <=> seen - 1 = popped
<1>1. seen \in consumer.seen .. pushed + 1 /\ seen - 1 \in 0 .. pushed
  BY Order DEF Inv, LogsInv, Visible
<1>2. queue.tail[(seen - 1) + 1] = [index |-> (seen - 1) % IndexMod, accesses |-> seen - 1]
  BY <1>1 DEF Inv, LogsInv
<1>3. queue.tail[seen] = [index |-> (seen - 1) % IndexMod, accesses |-> seen - 1]
  BY <1>1, <1>2, Order
<1>4. /\ seen - 1 \in Nat /\ popped \in Nat
      /\ popped <= seen - 1 /\ (seen - 1) - popped <= Capacity
  BY <1>1, Order, Moduli
<1>5. popped % IndexMod = (seen - 1) % IndexMod <=> seen - 1 = popped
  BY <1>4, EqualIndices, Zenon
<1> QED
  BY <1>1, <1>3, <1>4, <1>5 DEF LooksEmpty

-----------------------------------------------------------------------------
LEMMA InitInv ==
  ASSUME QueueInit, ProducerInit, ConsumerInit, pushed = 0, popped = 0
  PROVE  Inv
<1> USE DEF QueueInit, ProducerInit, ConsumerInit
<1>1. 0 % IndexMod = 0 /\ 0 \in Indices /\ 0 \in Nat
  BY Moduli, SmallRemainder DEF Indices
<1>2. TypeInv
  BY <1>1
  DEF TypeInv, QueueTypeOK, ProducerTypeOK, ConsumerTypeOK, Steps
<1>3. LogsInv
  BY <1>1 DEF LogsInv
<1>4. ProducerInv /\ ConsumerInv
  BY <1>1, Moduli DEF ProducerInv, ConsumerInv
<1>5. SlotsInv
  BY DEF SlotsInv
<1> QED
  BY <1>2, <1>3, <1>4, <1>5 DEF Inv

LEMMA UnchangedInv ==
  ASSUME Inv, UNCHANGED <<queue, producer, consumer, pushed, popped, items>>
  PROVE  Inv'
BY DEF Inv, TypeInv, QueueTypeOK, ProducerTypeOK, ConsumerTypeOK, LogsInv, ProducerInv,
       ConsumerInv, SlotsInv

-----------------------------------------------------------------------------
(* One lemma per step of the producer's thread.                            *)

LEMMA PushCallInv ==
  ASSUME Inv, items[pushed] \in Value, PushCall(items[pushed]),
         UNCHANGED <<consumer, pushed, popped, items>>
  PROVE  Inv'
<1> DEFINE t == pushed % IndexMod
<1>1. Latest(queue.tail).index = t /\ t \in Indices
  BY LatestIndices, Order, IndexOfCounter
<1>2. /\ producer.pc = "idle"
      /\ producer' = [producer EXCEPT
           !.t = t, !.item = items[pushed],
           !.pc = IF LooksFull(t, producer.head_cache) THEN "reload" ELSE "write"]
      /\ UNCHANGED <<queue, consumer, pushed, popped, items>>
  BY <1>1 DEF PushCall
<1>3. LooksFull(t, producer.head_cache) <=> pushed - producer.reads_known = Capacity
  <2>1. /\ pushed \in Nat /\ producer.reads_known \in Nat
        /\ producer.reads_known <= pushed /\ pushed - producer.reads_known <= Capacity
    BY Order
  <2>2. Distance(t, producer.reads_known % IndexMod) = pushed - producer.reads_known
    BY <2>1, DistanceOfCounters, Zenon
  <2> QED
    BY <2>2 DEF LooksFull, Inv, ProducerInv
<1> HIDE DEF t
<1>4. TypeInv'
  BY <1>1, <1>2 DEF Inv, TypeInv, QueueTypeOK, ProducerTypeOK, ConsumerTypeOK, Steps
<1>5. LogsInv' /\ ConsumerInv'
  BY <1>2 DEF Inv, LogsInv, ConsumerInv
<1>6. SlotsInv'
  BY <1>2 DEF Inv, TypeInv, ProducerTypeOK, SlotsInv
<1>7. ProducerInv'
  <2>1. /\ producer'.seen = producer.seen /\ producer'.head_cache = producer.head_cache
        /\ producer'.reads_known = producer.reads_known
        /\ producer'.writes = producer.writes
        /\ producer'.t = t /\ producer'.item = items[pushed]
        /\ producer'.pc \in {"reload", "write"}
        /\ producer'.pc = "write" => pushed - producer.reads_known # Capacity
    BY <1>2, <1>3 DEF Inv, TypeInv, ProducerTypeOK
  <2>2. pushed' = pushed /\ popped' = popped /\ items' = items
    BY <1>2
  <2>3. /\ producer.pc = "idle" /\ producer.seen \in 1 .. popped + 1
        /\ producer.reads_known \in 0 .. producer.seen - 1
        /\ producer.head_cache = producer.reads_known % IndexMod
        /\ producer.writes = pushed
    BY <1>2, Order DEF Inv, ProducerInv
  <2>4. pushed - producer'.reads_known <= Capacity
    BY <2>1, <2>3, Order
  <2>5. producer'.pc = "write" => pushed - producer'.reads_known < Capacity
    BY <2>1, <2>3, <2>4, Order, Moduli
  <2> QED
    BY <2>1, <2>2, <2>3, <2>4, <2>5, Order DEF ProducerInv, t
<1> QED
  BY <1>4, <1>5, <1>6, <1>7 DEF Inv

(* Both outcomes of the reload of head_.                                   *)
LEMMA LoadHeadInv ==
  ASSUME Inv, NEW seen \in Visible(queue.head, producer.seen), NEW next \in {"write", "idle"},
         LoadHead(seen, next), UNCHANGED <<consumer, pushed, popped, items>>
  PROVE  Inv'
<1>1. /\ seen \in Nat
      /\ seen \in producer.seen .. popped + 1 /\ seen - 1 \in Nat
      /\ queue.head[seen].index = (seen - 1) % IndexMod
      /\ queue.head[seen].accesses = seen - 1
      /\ LooksFull(pushed % IndexMod, (seen - 1) % IndexMod)
           <=> pushed - (seen - 1) = Capacity
  <2>1. queue.head[seen] = [index |-> (seen - 1) % IndexMod, accesses |-> seen - 1]
    BY VisibleHead
  <2> QED
    BY <2>1, VisibleHead
<1>2. /\ producer.t = pushed % IndexMod /\ producer.reads_known \in 0 .. producer.seen - 1
      /\ producer.pc = "reload"
  BY DEF LoadHead, Inv, ProducerInv
<1>3. Acquired(HeadLoadOrder, producer.reads_known, queue.head[seen].accesses) = seen - 1
  BY <1>1, <1>2, Order DEF Acquired, HeadLoadOrder
<1>4. /\ producer' = [producer EXCEPT !.head_cache = (seen - 1) % IndexMod, !.seen = seen,
                                      !.reads_known = seen - 1, !.pc = next]
      /\ next = "write" => pushed - (seen - 1) # Capacity
      /\ UNCHANGED <<queue, consumer, pushed, popped, items>>
  BY <1>1, <1>2, <1>3 DEF LoadHead
<1>5. (seen - 1) % IndexMod \in Indices
  BY <1>1, IndexOfCounter
<1>6. TypeInv'
  BY <1>1, <1>4, <1>5 DEF Inv, TypeInv, QueueTypeOK, ProducerTypeOK, ConsumerTypeOK, Steps
<1>7. LogsInv' /\ ConsumerInv'
  BY <1>4 DEF Inv, LogsInv, ConsumerInv
<1>8. SlotsInv'
  BY <1>4 DEF Inv, TypeInv, ProducerTypeOK, SlotsInv
<1>9. ProducerInv'
  <2>1. /\ producer'.seen = seen /\ producer'.head_cache = (seen - 1) % IndexMod
        /\ producer'.reads_known = seen - 1
        /\ producer'.writes = producer.writes
        /\ producer'.t = producer.t /\ producer'.item = producer.item
        /\ producer'.pc = next
    BY <1>4 DEF Inv, TypeInv, ProducerTypeOK
  <2> QED
    BY <1>1, <1>2, <1>4, <2>1, Order, Moduli DEF Inv, ProducerInv
<1> QED
  BY <1>6, <1>7, <1>8, <1>9 DEF Inv

(* The slot the producer writes holds no item that is still to be read.    *)
LEMMA PushWriteInv ==
  ASSUME Inv, PushWrite, UNCHANGED <<consumer, pushed, popped, items>>
  PROVE  Inv'
<1> DEFINE slot == SlotOf(pushed)
<1>1. SlotOf(producer.t) = slot /\ slot \in Slots
  BY Order, SlotOfIndex DEF PushWrite, Inv, ProducerInv
<1>2. producer.pc = "write" /\ producer.item = items[pushed] /\ producer.writes = pushed
  BY Order DEF PushWrite, Inv, ProducerInv
<1>3. /\ producer' = [producer EXCEPT !.pc = "publish", !.writes = pushed + 1]
      /\ queue' = [queue EXCEPT !.buf[slot].value = producer.item,
                                !.buf[slot].written = pushed + 1]
      /\ UNCHANGED <<consumer, pushed, popped, items>>
  BY <1>1, <1>2 DEF PushWrite
<1>4. producer.item \in Value \union {Indeterminate}
  BY DEF Inv, TypeInv, ProducerTypeOK
<1> HIDE DEF slot
<1>5. /\ queue'.tail = queue.tail /\ queue'.head = queue.head
      /\ queue'.buf[slot].value = producer.item
      /\ queue'.buf[slot].written = pushed + 1
      /\ \A s \in Slots : queue'.buf[s].read = queue.buf[s].read
      /\ \A s \in Slots \ {slot} : queue'.buf[s] = queue.buf[s]
  BY <1>1, <1>3 DEF Inv, TypeInv, QueueTypeOK
<1>6. TypeInv'
  <2> DEFINE Cell == [value : Value \union {Indeterminate}, written : Nat, read : Nat]
             cell == [queue.buf[slot] EXCEPT !.value = producer.item, !.written = pushed + 1]
  <2>1. queue.buf \in [Slots -> Cell] /\ pushed + 1 \in Nat
    BY Order DEF Inv, TypeInv, QueueTypeOK
  <2>2. cell \in Cell
    BY <1>1, <1>4, <2>1
  <2>3. queue'.buf = [queue.buf EXCEPT ![slot] = cell]
    BY <1>1, <1>3, <2>1 DEF Inv, TypeInv, QueueTypeOK
  <2>4. queue'.buf \in [Slots -> Cell]
    <3> HIDE DEF cell, Cell
    <3> QED
      BY <2>1, <2>2, <2>3
  <2>5. queue' = [queue EXCEPT !.buf = queue'.buf]
    BY <1>3 DEF Inv, TypeInv, QueueTypeOK
  <2>6. QueueTypeOK(Value)'
    BY <2>4, <2>5 DEF Inv, TypeInv, QueueTypeOK
  <2>7. ProducerTypeOK(Value)'
    BY <1>3, <2>1 DEF Inv, TypeInv, ProducerTypeOK, Steps
  <2> QED
    BY <1>3, <2>6, <2>7 DEF Inv, TypeInv, ConsumerTypeOK
<1>7. LogsInv' /\ ConsumerInv'
  BY <1>3, <1>5 DEF Inv, LogsInv, ConsumerInv
<1>8. producer'.pc = "publish" /\ producer'.writes = pushed + 1
  BY <1>3 DEF Inv, TypeInv, ProducerTypeOK
<1>9. ProducerInv'
  BY <1>2, <1>3, <1>8 DEF Inv, TypeInv, ProducerTypeOK, ProducerInv
<1>10. SlotsInv'
  <2>1. ASSUME NEW i \in popped .. pushed
        PROVE  /\ queue'.buf[SlotOf(i)].value = items[i]
               /\ queue'.buf[SlotOf(i)].written = i + 1
    <3>1. CASE i = pushed
      BY <1>2, <1>5, <3>1 DEF slot
    <3>2. CASE i # pushed
      <4>1. /\ i \in Nat /\ pushed \in Nat /\ i < pushed
            /\ pushed - i < Capacity
        <5>1. pushed - producer.reads_known < Capacity
          BY <1>2 DEF Inv, ProducerInv
        <5> QED
          BY <3>2, <5>1, Order, Moduli
      <4>2. SlotOf(i) \in Slots \ {slot}
        BY <4>1, DistinctSlots, SlotOfIndex, Zenon DEF slot
      <4>3. i \in popped .. producer.writes - 1
        BY <1>2, <4>1, Order
      <4> QED
        BY <1>5, <4>2, <4>3 DEF Inv, SlotsInv
    <3> QED
      BY <3>1, <3>2
  <2>2. ASSUME NEW s \in Slots, queue'.buf[s].read > 0
        PROVE  queue'.buf[s].read <= consumer'.reads /\ SlotOf(queue'.buf[s].read - 1) = s
    BY <1>3, <1>5, <2>2 DEF Inv, SlotsInv
  <2>3. pushed = producer'.writes - 1 /\ popped' = popped
    BY <1>3, <1>8, Order
  <2> QED
    BY <2>1, <2>2, <2>3 DEF SlotsInv, SlotOf, Slots
<1> QED
  BY <1>6, <1>7, <1>9, <1>10 DEF Inv

LEMMA PushPublishInv ==
  ASSUME Inv, PushPublish, pushed' = pushed + 1, UNCHANGED <<consumer, popped, items>>
  PROVE  Inv'
<1>1. /\ producer.pc = "publish" /\ producer.writes = pushed + 1
      /\ producer.t = pushed % IndexMod
      /\ pushed - producer.reads_known < Capacity
  BY DEF PushPublish, Inv, ProducerInv
<1>2. Succ(producer.t) = (pushed + 1) % IndexMod
  BY <1>1, Order, Moduli, WrappedSuccessor DEF Succ
<1> DEFINE message == [index |-> (pushed + 1) % IndexMod, accesses |-> pushed + 1]
<1>3. /\ queue' = [queue EXCEPT !.tail = Append(@, message)]
      /\ producer' = [producer EXCEPT !.pc = "idle"]
      /\ pushed' = pushed + 1
      /\ UNCHANGED <<consumer, popped, items>>
  BY <1>1, <1>2 DEF PushPublish, Released, TailStoreOrder
<1>4. message \in [index : Indices, accesses : Nat]
  BY Order, IndexOfCounter
<1> HIDE DEF message
<1>5. TypeInv'
  <2>1. QueueTypeOK(Value)'
    <3> DEFINE Message == [index : Indices, accesses : Nat]
    <3>1. queue.tail \in Seq(Message)
      BY DEF Inv, TypeInv, QueueTypeOK
    <3>2. Append(queue.tail, message) \in Seq(Message)
      <4> HIDE DEF Message
      <4> QED
        BY <1>4, <3>1 DEF Message
    <3> QED
      BY <1>3, <3>2 DEF Inv, TypeInv, QueueTypeOK
  <2>2. ProducerTypeOK(Value)'
    BY <1>3 DEF Inv, TypeInv, ProducerTypeOK, Steps
  <2> QED
    BY <1>1, <1>3, <2>1, <2>2, Order DEF Inv, TypeInv, ConsumerTypeOK
<1>6. LogsInv'
  <2>1. /\ queue.tail \in Seq([index : Indices, accesses : Nat])
        /\ queue'.tail = Append(queue.tail, message)
        /\ queue'.head = queue.head
    BY <1>3 DEF Inv, TypeInv, QueueTypeOK
  <2>2. Len(queue'.tail) = pushed + 2 /\ queue'.tail[pushed + 2] = message
    <3>1. Len(queue.tail) = pushed + 1
      BY DEF Inv, LogsInv
    <3>2. /\ Len(Append(queue.tail, message)) = Len(queue.tail) + 1
          /\ Append(queue.tail, message)[Len(queue.tail) + 1] = message
      BY <2>1
    <3>3. (pushed + 1) + 1 = pushed + 2
      BY Order
    <3> QED
      BY <2>1, <3>1, <3>2, <3>3
  <2>3. ASSUME NEW k \in 0 .. pushed
        PROVE  queue'.tail[k + 1] = [index |-> k % IndexMod, accesses |-> k]
    <3>1. queue.tail[k + 1] = [index |-> k % IndexMod, accesses |-> k]
      BY DEF Inv, LogsInv
    <3>2. k + 1 \in 1 .. Len(queue.tail)
      BY Order DEF Inv, LogsInv
    <3> QED
      BY <1>4, <2>1, <3>1, <3>2
  <2>4. ASSUME NEW k \in 0 .. pushed + 1
        PROVE  queue'.tail[k + 1] = [index |-> k % IndexMod, accesses |-> k]
    <3>1. CASE k = pushed + 1
      BY <2>2, <3>1, Order DEF message
    <3>2. CASE k # pushed + 1
      BY <2>3, <3>2, Order
    <3> QED
      BY <3>1, <3>2
  <2>5. /\ pushed' = pushed + 1 /\ popped' = popped
        /\ Len(queue'.tail) = pushed' + 1
    BY <1>3, <2>2, Order
  <2> QED
    BY <2>1, <2>4, <2>5 DEF Inv, LogsInv
<1>7. ProducerInv'
  <2>1. /\ producer'.seen = producer.seen /\ producer'.head_cache = producer.head_cache
        /\ producer'.reads_known = producer.reads_known
        /\ producer'.writes = producer.writes
        /\ producer'.pc = "idle"
    BY <1>3 DEF Inv, TypeInv, ProducerTypeOK
  <2> QED
    BY <1>1, <1>3, <2>1, Order, Moduli DEF Inv, ProducerInv
<1>8. ConsumerInv'
  BY <1>3, Order DEF Inv, ConsumerInv
<1>9. SlotsInv'
  BY <1>3 DEF Inv, TypeInv, QueueTypeOK, ProducerTypeOK, SlotsInv
<1> QED
  BY <1>5, <1>6, <1>7, <1>8, <1>9 DEF Inv

-----------------------------------------------------------------------------
(* One lemma per step of the consumer's thread.                            *)

LEMMA PopCallInv ==
  ASSUME Inv, PopCall, UNCHANGED <<producer, pushed, popped, items>>
  PROVE  Inv'
<1> DEFINE h == popped % IndexMod
<1>1. Latest(queue.head).index = h /\ h \in Indices
  BY LatestIndices, Order, IndexOfCounter
<1>2. /\ consumer.pc = "idle"
      /\ consumer' = [consumer EXCEPT
           !.h = h,
           !.pc = IF LooksEmpty(h, consumer.tail_cache) THEN "reload" ELSE "read"]
      /\ UNCHANGED <<queue, producer, pushed, popped, items>>
  BY <1>1 DEF PopCall
<1>3. LooksEmpty(h, consumer.tail_cache) <=> consumer.writes_known = popped
  <2>1. /\ popped \in Nat /\ consumer.writes_known \in Nat
        /\ popped <= consumer.writes_known /\ consumer.writes_known - popped <= Capacity
    BY Order, Moduli
  <2>2. h = consumer.writes_known % IndexMod <=> consumer.writes_known = popped
    BY <2>1, EqualIndices, Zenon
  <2> QED
    BY <2>2 DEF LooksEmpty, Inv, ConsumerInv
<1> HIDE DEF h
<1>4. TypeInv'
  BY <1>1, <1>2 DEF Inv, TypeInv, QueueTypeOK, ProducerTypeOK, ConsumerTypeOK, Steps
<1>5. LogsInv' /\ ProducerInv'
  BY <1>2 DEF Inv, LogsInv, ProducerInv
<1>6. SlotsInv'
  BY <1>2 DEF Inv, TypeInv, ConsumerTypeOK, SlotsInv
<1>7. ConsumerInv'
  <2>1. /\ consumer'.seen = consumer.seen /\ consumer'.tail_cache = consumer.tail_cache
        /\ consumer'.writes_known = consumer.writes_known
        /\ consumer'.reads = consumer.reads
        /\ consumer'.h = h
        /\ consumer'.pc \in {"reload", "read"}
        /\ consumer'.pc = "read" => consumer.writes_known # popped
    BY <1>2, <1>3 DEF Inv, TypeInv, ConsumerTypeOK
  <2> QED
    BY <1>2, <2>1, Order DEF Inv, ConsumerInv, h
<1> QED
  BY <1>4, <1>5, <1>6, <1>7 DEF Inv

(* Both outcomes of the reload of tail_.                                   *)
LEMMA LoadTailInv ==
  ASSUME Inv, NEW seen \in Visible(queue.tail, consumer.seen), NEW next \in {"read", "idle"},
         LoadTail(seen, next), UNCHANGED <<producer, pushed, popped, items>>
  PROVE  Inv'
<1>1. /\ seen \in Nat
      /\ seen \in consumer.seen .. pushed + 1 /\ seen - 1 \in Nat
      /\ queue.tail[seen].index = (seen - 1) % IndexMod
      /\ queue.tail[seen].accesses = seen - 1
      /\ LooksEmpty(popped % IndexMod, (seen - 1) % IndexMod) <=> seen - 1 = popped
  <2>1. queue.tail[seen] = [index |-> (seen - 1) % IndexMod, accesses |-> seen - 1]
    BY VisibleTail
  <2> QED
    BY <2>1, VisibleTail
<1>2. /\ consumer.h = popped % IndexMod /\ consumer.writes_known \in 0 .. consumer.seen - 1
      /\ consumer.pc = "reload"
  BY DEF LoadTail, Inv, ConsumerInv
<1>3. Acquired(TailLoadOrder, consumer.writes_known, queue.tail[seen].accesses) = seen - 1
  BY <1>1, <1>2, Order DEF Acquired, TailLoadOrder
<1>4. /\ consumer' = [consumer EXCEPT !.tail_cache = (seen - 1) % IndexMod, !.seen = seen,
                                      !.writes_known = seen - 1, !.pc = next]
      /\ next = "read" => seen - 1 # popped
      /\ UNCHANGED <<queue, producer, pushed, popped, items>>
  BY <1>1, <1>2, <1>3 DEF LoadTail
<1>5. (seen - 1) % IndexMod \in Indices
  BY <1>1, IndexOfCounter
<1>6. TypeInv'
  BY <1>1, <1>4, <1>5 DEF Inv, TypeInv, QueueTypeOK, ProducerTypeOK, ConsumerTypeOK, Steps
<1>7. LogsInv' /\ ProducerInv'
  BY <1>4 DEF Inv, LogsInv, ProducerInv
<1>8. SlotsInv'
  BY <1>4 DEF Inv, TypeInv, ConsumerTypeOK, SlotsInv
<1>9. ConsumerInv'
  <2>1. /\ consumer'.seen = seen /\ consumer'.tail_cache = (seen - 1) % IndexMod
        /\ consumer'.writes_known = seen - 1
        /\ consumer'.reads = consumer.reads
        /\ consumer'.h = consumer.h
        /\ consumer'.pc = next
    BY <1>4 DEF Inv, TypeInv, ConsumerTypeOK
  <2> QED
    BY <1>1, <1>2, <1>4, <2>1, Order DEF Inv, ConsumerInv
<1> QED
  BY <1>6, <1>7, <1>8, <1>9 DEF Inv

(* The consumer reads the item its counter stands for.                     *)
LEMMA PopReadInv ==
  ASSUME Inv, PopRead, UNCHANGED <<producer, pushed, popped, items>>
  PROVE  Inv'
<1> DEFINE slot == SlotOf(popped)
<1>1. SlotOf(consumer.h) = slot /\ slot \in Slots
  BY Order, SlotOfIndex DEF PopRead, Inv, ConsumerInv
<1>2. consumer.pc = "read" /\ consumer.reads = popped /\ popped < consumer.writes_known
  BY Order DEF PopRead, Inv, ConsumerInv
<1>3. queue.buf[slot].value = items[popped]
  <2>1. popped \in popped .. producer.writes - 1
    BY <1>2, Order
  <2> QED
    BY <2>1 DEF Inv, SlotsInv
<1>4. /\ consumer' = [consumer EXCEPT !.pc = "publish", !.out = items[popped],
                                      !.reads = popped + 1]
      /\ queue' = [queue EXCEPT !.buf[slot].read = popped + 1]
      /\ UNCHANGED <<producer, pushed, popped, items>>
  BY <1>1, <1>2, <1>3 DEF PopRead
<1>5. items[popped] \in Value \union {Indeterminate}
  BY <1>1, <1>3 DEF Inv, TypeInv, QueueTypeOK
<1> HIDE DEF slot
<1>6. /\ queue'.tail = queue.tail /\ queue'.head = queue.head
      /\ queue'.buf[slot].read = popped + 1
      /\ \A s \in Slots : /\ queue'.buf[s].value = queue.buf[s].value
                          /\ queue'.buf[s].written = queue.buf[s].written
      /\ \A s \in Slots \ {slot} : queue'.buf[s] = queue.buf[s]
  BY <1>1, <1>4 DEF Inv, TypeInv, QueueTypeOK
<1>7. TypeInv'
  <2> DEFINE Cell == [value : Value \union {Indeterminate}, written : Nat, read : Nat]
             cell == [queue.buf[slot] EXCEPT !.read = popped + 1]
  <2>1. queue.buf \in [Slots -> Cell] /\ popped + 1 \in Nat
    BY Order DEF Inv, TypeInv, QueueTypeOK
  <2>2. cell \in Cell
    BY <1>1, <2>1
  <2>3. queue'.buf = [queue.buf EXCEPT ![slot] = cell]
    BY <1>1, <1>4, <2>1 DEF Inv, TypeInv, QueueTypeOK
  <2>4. queue'.buf \in [Slots -> Cell]
    <3> HIDE DEF cell, Cell
    <3> QED
      BY <2>1, <2>2, <2>3
  <2>5. queue' = [queue EXCEPT !.buf = queue'.buf]
    BY <1>4 DEF Inv, TypeInv, QueueTypeOK
  <2>6. QueueTypeOK(Value)'
    BY <2>4, <2>5 DEF Inv, TypeInv, QueueTypeOK
  <2>7. ConsumerTypeOK(Value)'
    BY <1>4, <1>5, <2>1 DEF Inv, TypeInv, ConsumerTypeOK, Steps
  <2> QED
    BY <1>4, <2>6, <2>7 DEF Inv, TypeInv, ProducerTypeOK
<1>8. LogsInv' /\ ProducerInv'
  BY <1>4, <1>6 DEF Inv, LogsInv, ProducerInv
<1>9. consumer'.pc = "publish" /\ consumer'.reads = popped + 1
  BY <1>4 DEF Inv, TypeInv, ConsumerTypeOK
<1>10. ConsumerInv'
  BY <1>2, <1>4, <1>9 DEF Inv, TypeInv, ConsumerTypeOK, ConsumerInv
<1>11. SlotsInv'
  <2>1. ASSUME NEW i \in popped .. producer.writes - 1
        PROVE  /\ queue'.buf[SlotOf(i)].value = items[i]
               /\ queue'.buf[SlotOf(i)].written = i + 1
    <3>1. SlotOf(i) \in Slots
      BY Order, SlotOfIndex
    <3> QED
      BY <1>6, <3>1 DEF Inv, SlotsInv
  <2>2. ASSUME NEW s \in Slots, queue'.buf[s].read > 0
        PROVE  queue'.buf[s].read <= consumer'.reads /\ SlotOf(queue'.buf[s].read - 1) = s
    <3>1. CASE s = slot
      <4>1. (popped + 1) - 1 = popped
        BY Order
      <4> QED
        BY <1>6, <1>9, <3>1, <4>1, Order DEF slot
    <3>2. CASE s # slot
      <4>1. queue'.buf[s] = queue.buf[s]
        BY <1>6, <3>2
      <4>2. queue.buf[s].read <= consumer.reads /\ SlotOf(queue.buf[s].read - 1) = s
        BY <2>2, <4>1 DEF Inv, SlotsInv
      <4>3. queue.buf[s].read \in Nat
        BY DEF Inv, TypeInv, QueueTypeOK
      <4> QED
        BY <1>2, <1>9, <4>1, <4>2, <4>3, Order
    <3> QED
      BY <3>1, <3>2
  <2> QED
    BY <1>4, <2>1, <2>2 DEF SlotsInv, SlotOf, Slots
<1> QED
  BY <1>7, <1>8, <1>10, <1>11 DEF Inv

LEMMA PopPublishInv ==
  ASSUME Inv, PopPublish, popped' = popped + 1, UNCHANGED <<producer, pushed, items>>
  PROVE  Inv'
<1>1. /\ consumer.pc = "publish" /\ consumer.reads = popped + 1
      /\ consumer.h = popped % IndexMod
      /\ popped < consumer.writes_known
  BY DEF PopPublish, Inv, ConsumerInv
<1>2. Succ(consumer.h) = (popped + 1) % IndexMod
  BY <1>1, Order, Moduli, WrappedSuccessor DEF Succ
<1> DEFINE message == [index |-> (popped + 1) % IndexMod, accesses |-> popped + 1]
<1>3. /\ queue' = [queue EXCEPT !.head = Append(@, message)]
      /\ consumer' = [consumer EXCEPT !.pc = "idle"]
      /\ popped' = popped + 1
      /\ UNCHANGED <<producer, pushed, items>>
  BY <1>1, <1>2 DEF PopPublish, Released, HeadStoreOrder
<1>4. message \in [index : Indices, accesses : Nat]
  BY Order, IndexOfCounter
<1> HIDE DEF message
<1>5. TypeInv'
  <2>1. QueueTypeOK(Value)'
    <3> DEFINE Message == [index : Indices, accesses : Nat]
    <3>1. queue.head \in Seq(Message)
      BY DEF Inv, TypeInv, QueueTypeOK
    <3>2. Append(queue.head, message) \in Seq(Message)
      <4> HIDE DEF Message
      <4> QED
        BY <1>4, <3>1 DEF Message
    <3> QED
      BY <1>3, <3>2 DEF Inv, TypeInv, QueueTypeOK
  <2>2. ConsumerTypeOK(Value)'
    BY <1>3 DEF Inv, TypeInv, ConsumerTypeOK, Steps
  <2> QED
    BY <1>1, <1>3, <2>1, <2>2, Order DEF Inv, TypeInv, ProducerTypeOK
<1>6. LogsInv'
  <2>1. /\ queue.head \in Seq([index : Indices, accesses : Nat])
        /\ queue'.head = Append(queue.head, message)
        /\ queue'.tail = queue.tail
    BY <1>3 DEF Inv, TypeInv, QueueTypeOK
  <2>2. Len(queue'.head) = popped + 2 /\ queue'.head[popped + 2] = message
    <3>1. Len(queue.head) = popped + 1
      BY DEF Inv, LogsInv
    <3>2. /\ Len(Append(queue.head, message)) = Len(queue.head) + 1
          /\ Append(queue.head, message)[Len(queue.head) + 1] = message
      BY <2>1
    <3>3. (popped + 1) + 1 = popped + 2
      BY Order
    <3> QED
      BY <2>1, <3>1, <3>2, <3>3
  <2>3. ASSUME NEW k \in 0 .. popped
        PROVE  queue'.head[k + 1] = [index |-> k % IndexMod, accesses |-> k]
    <3>1. queue.head[k + 1] = [index |-> k % IndexMod, accesses |-> k]
      BY DEF Inv, LogsInv
    <3>2. k + 1 \in 1 .. Len(queue.head)
      BY Order DEF Inv, LogsInv
    <3> QED
      BY <1>4, <2>1, <3>1, <3>2
  <2>4. ASSUME NEW k \in 0 .. popped + 1
        PROVE  queue'.head[k + 1] = [index |-> k % IndexMod, accesses |-> k]
    <3>1. CASE k = popped + 1
      BY <2>2, <3>1, Order DEF message
    <3>2. CASE k # popped + 1
      BY <2>3, <3>2, Order
    <3> QED
      BY <3>1, <3>2
  <2>5. /\ popped' = popped + 1 /\ pushed' = pushed
        /\ Len(queue'.head) = popped' + 1
    BY <1>3, <2>2, Order
  <2> QED
    BY <2>1, <2>4, <2>5 DEF Inv, LogsInv
<1>7. ProducerInv'
  BY <1>3, Order DEF Inv, ProducerInv
<1>8. ConsumerInv'
  <2>1. /\ consumer'.seen = consumer.seen /\ consumer'.tail_cache = consumer.tail_cache
        /\ consumer'.writes_known = consumer.writes_known
        /\ consumer'.reads = consumer.reads
        /\ consumer'.pc = "idle"
    BY <1>3 DEF Inv, TypeInv, ConsumerTypeOK
  <2> QED
    BY <1>1, <1>3, <2>1, Order DEF Inv, ConsumerInv
<1>9. SlotsInv'
  <2>1. /\ queue'.buf = queue.buf /\ consumer'.reads = consumer.reads
        /\ popped' = popped + 1 /\ producer' = producer
    BY <1>3 DEF Inv, TypeInv, QueueTypeOK, ConsumerTypeOK
  <2>2. \A i \in popped + 1 .. producer.writes - 1 : i \in popped .. producer.writes - 1
    BY Order
  <2> QED
    BY <2>1, <2>2 DEF Inv, SlotsInv
<1> QED
  BY <1>5, <1>6, <1>7, <1>8, <1>9 DEF Inv

-----------------------------------------------------------------------------
(* The distance of the producer's own index from any value of head_ it may *)
(* load, and likewise for the consumer.                                    *)
LEMMA DistanceSeenByProducer ==
  ASSUME Inv, NEW seen \in Visible(queue.head, producer.seen)
  PROVE  /\ Distance(Latest(queue.tail).index, queue.head[seen].index) = pushed - (seen - 1)
         /\ pushed - (seen - 1) <= Capacity
<1>1. /\ seen \in producer.seen .. popped + 1 /\ seen - 1 \in Nat
      /\ queue.head[seen].index = (seen - 1) % IndexMod
  <2>1. queue.head[seen] = [index |-> (seen - 1) % IndexMod, accesses |-> seen - 1]
    BY VisibleHead
  <2> QED
    BY <2>1, VisibleHead
<1>2. /\ pushed \in Nat /\ seen - 1 <= pushed
      /\ pushed - (seen - 1) <= Capacity
  <2>1. producer.seen - 1 <= seen - 1 /\ seen - 1 <= popped
    BY <1>1, Order
  <2> QED
    BY <1>1, <2>1, Order, Moduli
<1>3. Distance(pushed % IndexMod, (seen - 1) % IndexMod) = pushed - (seen - 1)
  BY <1>1, <1>2, DistanceOfCounters, Zenon
<1> QED
  BY <1>1, <1>2, <1>3, LatestIndices

LEMMA DistanceSeenByConsumer ==
  ASSUME Inv, NEW seen \in Visible(queue.tail, consumer.seen)
  PROVE  /\ Distance(queue.tail[seen].index, Latest(queue.head).index) = (seen - 1) - popped
         /\ popped <= seen - 1
<1>1. /\ seen \in consumer.seen .. pushed + 1 /\ seen - 1 \in Nat
      /\ queue.tail[seen].index = (seen - 1) % IndexMod
  <2>1. queue.tail[seen] = [index |-> (seen - 1) % IndexMod, accesses |-> seen - 1]
    BY VisibleTail
  <2> QED
    BY <2>1, VisibleTail
<1>2. /\ popped \in Nat /\ popped <= seen - 1
      /\ (seen - 1) - popped <= Capacity
  BY <1>1, Order, Moduli
<1>3. Distance((seen - 1) % IndexMod, popped % IndexMod) = (seen - 1) - popped
  BY <1>1, <1>2, DistanceOfCounters, Zenon
<1> QED
  BY <1>1, <1>2, <1>3, LatestIndices

(* A load of the other index that is not cached: all it leaves behind is   *)
(* that older values can no longer be loaded.                              *)
LEMMA SeenHeadInv ==
  ASSUME Inv, NEW seen \in Visible(queue.head, producer.seen),
         producer' = [producer EXCEPT !.seen = seen],
         UNCHANGED <<queue, consumer, pushed, popped, items>>
  PROVE  Inv'
<1>1. seen \in Nat /\ seen \in producer.seen .. popped + 1
  BY VisibleHead
<1>2. TypeInv'
  BY <1>1 DEF Inv, TypeInv, QueueTypeOK, ProducerTypeOK, ConsumerTypeOK
<1>3. LogsInv' /\ ConsumerInv'
  BY DEF Inv, LogsInv, ConsumerInv
<1>4. /\ producer'.seen = seen
      /\ producer'.pc = producer.pc /\ producer'.t = producer.t
      /\ producer'.item = producer.item /\ producer'.head_cache = producer.head_cache
      /\ producer'.writes = producer.writes
      /\ producer'.reads_known = producer.reads_known
  BY DEF Inv, TypeInv, ProducerTypeOK
<1>5. SlotsInv'
  BY <1>4 DEF Inv, SlotsInv
<1>6. ProducerInv'
  <2>1. seen \in 1 .. popped + 1 /\ producer.reads_known \in 0 .. seen - 1
    BY <1>1, Order DEF Inv, ProducerInv
  <2> QED
    BY <1>4, <2>1 DEF Inv, ProducerInv
<1> QED
  BY <1>2, <1>3, <1>5, <1>6 DEF Inv

LEMMA SeenTailInv ==
  ASSUME Inv, NEW seen \in Visible(queue.tail, consumer.seen),
         consumer' = [consumer EXCEPT !.seen = seen],
         UNCHANGED <<queue, producer, pushed, popped, items>>
  PROVE  Inv'
<1>1. seen \in Nat /\ seen \in consumer.seen .. pushed + 1
  BY VisibleTail
<1>2. TypeInv'
  BY <1>1 DEF Inv, TypeInv, QueueTypeOK, ProducerTypeOK, ConsumerTypeOK
<1>3. LogsInv' /\ ProducerInv'
  BY DEF Inv, LogsInv, ProducerInv
<1>4. /\ consumer'.seen = seen
      /\ consumer'.pc = consumer.pc /\ consumer'.h = consumer.h
      /\ consumer'.out = consumer.out /\ consumer'.tail_cache = consumer.tail_cache
      /\ consumer'.reads = consumer.reads
      /\ consumer'.writes_known = consumer.writes_known
  BY DEF Inv, TypeInv, ConsumerTypeOK
<1>5. SlotsInv'
  BY <1>4 DEF Inv, SlotsInv
<1>6. ConsumerInv'
  <2>1. seen \in 1 .. pushed + 1 /\ consumer.writes_known \in 0 .. seen - 1
    BY <1>1, Order DEF Inv, ConsumerInv
  <2> QED
    BY <1>4, <2>1 DEF Inv, ConsumerInv
<1> QED
  BY <1>2, <1>3, <1>5, <1>6 DEF Inv

-----------------------------------------------------------------------------
(* No slot is written while its last read, nor read while its last write,  *)
(* is not ordered before: the accesses of lines 41 and 55 never race.      *)
LEMMA InvDataRaceFree == Inv => DataRaceFree
<1> SUFFICES ASSUME Inv
             PROVE  DataRaceFree
  OBVIOUS
<1>1. ASSUME producer.pc = "write"
      PROVE  queue.buf[SlotOf(producer.t)].read <= producer.reads_known
  <2> DEFINE slot == SlotOf(pushed)
             last == queue.buf[slot].read
  <2>1. SlotOf(producer.t) = slot /\ slot \in Slots
    BY <1>1, Order, SlotOfIndex DEF Inv, ProducerInv
  <2>2. pushed - producer.reads_known < Capacity
    BY <1>1 DEF Inv, ProducerInv
  <2>3. last \in Nat
    BY <2>1 DEF Inv, TypeInv, QueueTypeOK
  <2>4. consumer.reads <= pushed
    BY Order DEF Inv, ConsumerInv
  <2> SUFFICES ASSUME last > producer.reads_known
               PROVE  FALSE
    BY <2>1, <2>2, <2>3, Order
  <2>5. last <= consumer.reads /\ SlotOf(last - 1) = slot
    BY <2>1, <2>2, <2>3, Order DEF Inv, SlotsInv
  <2> HIDE DEF last, slot
  <2>6. /\ last - 1 \in Nat /\ last - 1 < pushed
        /\ pushed - (last - 1) < Capacity
    BY <2>2, <2>3, <2>4, <2>5, Order, Moduli
  <2>7. SlotOf(last - 1) # slot
    BY <2>6, Order, DistinctSlots DEF slot
  <2> QED
    BY <2>5, <2>7
<1>2. ASSUME consumer.pc = "read"
      PROVE  queue.buf[SlotOf(consumer.h)].written <= consumer.writes_known
  <2>1. SlotOf(consumer.h) = SlotOf(popped)
    BY <1>2, Order, SlotOfIndex DEF Inv, ConsumerInv
  <2>2. popped < consumer.writes_known
    BY <1>2 DEF Inv, ConsumerInv
  <2>3. popped \in popped .. producer.writes - 1
    BY <2>2, Order
  <2>4. queue.buf[SlotOf(popped)].written = popped + 1
    BY <2>3 DEF Inv, SlotsInv
  <2> QED
    BY <2>1, <2>2, <2>4, Order
<1> QED
  BY <1>1, <1>2 DEF DataRaceFree

(* A stale cache never makes the producer overwrite nor the consumer read  *)
(* ahead (comment of SpscQueue.h, lines 75 to 79), at any index width.     *)
LEMMA InvStaleCache == Inv => StaleCacheIsSafe
<1> SUFFICES ASSUME Inv
             PROVE  StaleCacheIsSafe
  OBVIOUS
<1> DEFINE pops_known == producer.reads_known
           pushes_known == consumer.writes_known
<1>1. /\ producer.head_cache = pops_known % IndexMod
      /\ consumer.tail_cache = pushes_known % IndexMod
  BY DEF Inv, ProducerInv, ConsumerInv
<1>2. /\ pops_known \in Nat /\ pushes_known \in Nat
      /\ pushed \in Nat /\ popped \in Nat
      /\ pops_known <= popped /\ popped <= pushes_known /\ pushes_known <= pushed
      /\ pushed - pops_known <= Capacity
  BY Order
<1> HIDE DEF pops_known, pushes_known
<1>3. /\ pops_known <= pushed /\ popped <= pushed
      /\ pushed - popped <= Capacity /\ pushes_known - popped <= Capacity
  BY <1>2, Moduli
<1>4. Distance(pushed % IndexMod, pops_known % IndexMod) = pushed - pops_known
  BY <1>2, <1>3, DistanceOfCounters, Zenon
<1>5. Distance(pushed % IndexMod, popped % IndexMod) = pushed - popped
  BY <1>2, <1>3, DistanceOfCounters, Zenon
<1>6. Distance(pushes_known % IndexMod, popped % IndexMod) = pushes_known - popped
  BY <1>2, <1>3, DistanceOfCounters, Zenon
<1>7. /\ pushed - pops_known \in (pushed - popped) .. Capacity
      /\ pushes_known - popped \in 0 .. (pushed - popped)
  BY <1>2, <1>3, Moduli
<1> QED
  BY <1>1, <1>4, <1>5, <1>6, <1>7, LatestIndices DEF StaleCacheIsSafe

-----------------------------------------------------------------------------
(* The slot of an index that runs past the last one.                       *)
LEMMA SlotOfSum ==
  \A a, j \in Nat : SlotOf((a % IndexMod) + j) = SlotOf(a + j)
<1> SUFFICES ASSUME NEW a \in Nat, NEW j \in Nat
             PROVE  SlotOf((a % IndexMod) + j) = SlotOf(a + j)
  OBVIOUS
<1>1. PICK laps \in Nat \ {0} : IndexMod = Capacity * laps
  BY Laps
<1>2. Capacity \in Nat \ {0}
  BY Moduli
<1>3. (a % (Capacity * laps)) % Capacity = a % Capacity
  BY <1>2, RemainderOfRemainder
<1>4. a % IndexMod \in Nat
  BY IndexOfCounter, Moduli DEF Indices
<1>5. (a % IndexMod) % Capacity = a % Capacity
  BY <1>1, <1>3
<1> DEFINE w == a % IndexMod
<1>6. w \in Nat /\ w % Capacity = a % Capacity
  BY <1>4, <1>5
<1> HIDE DEF w
<1>7. (w + j) % Capacity = (a + j) % Capacity
  BY <1>2, <1>6, RemainderOfSum, Zenon
<1> QED
  BY <1>7 DEF SlotOf, w

(* The a-th to the b-1-st of the values f, in order, with what appending   *)
(* the next one and taking off the first do.                               *)
Segment(f, a, b) == [i \in 1 .. b - a |-> f[a + i - 1]]
ValuesOf(f) == {f[k] : k \in Nat}

LEMMA SegmentLen ==
  ASSUME NEW f, NEW a \in Nat, NEW b \in Nat, a <= b
  PROVE  /\ Segment(f, a, b) \in Seq(ValuesOf(f))
         /\ Len(Segment(f, a, b)) = b - a
         /\ DOMAIN Segment(f, a, b) = 1 .. b - a
         /\ Segment(f, a, b) = <<>> <=> a = b
<1> DEFINE s == Segment(f, a, b)
<1>1. ASSUME NEW i \in 1 .. b - a
      PROVE  f[a + i - 1] \in ValuesOf(f)
  <2>1. a + i - 1 \in Nat
    OBVIOUS
  <2> QED
    BY <2>1 DEF ValuesOf
<1> HIDE DEF ValuesOf
<1>2. s \in [1 .. b - a -> ValuesOf(f)] /\ b - a \in Nat
  BY <1>1 DEF Segment
<1> HIDE DEF s
<1>3. s \in Seq(ValuesOf(f)) /\ DOMAIN s = 1 .. b - a
  BY <1>2
<1>4. Len(s) = b - a
  BY <1>2, <1>3
<1>5. s = <<>> <=> b - a = 0
  BY <1>3, <1>4, EmptySeq
<1> QED
  BY <1>3, <1>4, <1>5 DEF s

LEMMA SegmentAppend ==
  ASSUME NEW f, NEW a \in Nat, NEW b \in Nat, a <= b
  PROVE  Append(Segment(f, a, b), f[b]) = Segment(f, a, b + 1)
BY DEF Segment

LEMMA SegmentTail ==
  ASSUME NEW f, NEW a \in Nat, NEW b \in Nat, a < b
  PROVE  /\ Segment(f, a, b) # <<>>
         /\ Head(Segment(f, a, b)) = f[a]
         /\ Tail(Segment(f, a, b)) = Segment(f, a + 1, b)
<1> DEFINE s == Segment(f, a, b)
<1>1. s \in Seq(ValuesOf(f)) /\ Len(s) = b - a /\ s # <<>>
  <2>1. a <= b /\ a # b
    OBVIOUS
  <2> HIDE DEF s, ValuesOf
  <2> QED
    BY <2>1, SegmentLen DEF s
<1>2. \A i \in 1 .. b - a : s[i] = f[a + i - 1]
  BY DEF Segment
<1>3. 1 \in 1 .. b - a /\ a + 1 - 1 = a
  OBVIOUS
<1> HIDE DEF s, ValuesOf
<1>4. Head(s) = f[a]
  BY <1>1, <1>2, <1>3
<1>5. Tail(s) \in Seq(ValuesOf(f)) /\ Len(Tail(s)) = b - (a + 1)
  BY <1>1
<1>6. ASSUME NEW i \in 1 .. b - (a + 1)
      PROVE  Tail(s)[i] = f[(a + 1) + i - 1]
  <2>1. i + 1 \in 1 .. b - a /\ Tail(s)[i] = s[i + 1]
    BY <1>1
  <2>2. s[i + 1] = f[a + (i + 1) - 1]
    BY <1>2, <2>1
  <2>3. i \in Int
    OBVIOUS
  <2>4. a + (i + 1) - 1 = (a + 1) + i - 1
    BY <2>3
  <2> QED
    BY <2>1, <2>2, <2>4
<1>7. Tail(s) = [i \in 1 .. Len(Tail(s)) |-> Tail(s)[i]]
  BY <1>5, LenProperties
<1>8. Tail(s) = [i \in 1 .. b - (a + 1) |-> f[(a + 1) + i - 1]]
  BY <1>5, <1>6, <1>7
<1> QED
  BY <1>1, <1>4, <1>8 DEF s, Segment

(* The queue holds what was pushed and not yet popped, in order.           *)
LEMMA InvContents ==
  ASSUME Inv
  PROVE  Contents = Segment(items, popped, pushed)
<1> DEFINE head == popped % IndexMod
<1>1. Distance(pushed % IndexMod, head) = pushed - popped
  <2>1. /\ pushed \in Nat /\ popped \in Nat
        /\ popped <= pushed /\ pushed - popped <= Capacity
    BY Order, Moduli
  <2> QED
    BY <2>1, DistanceOfCounters, Zenon
<1>2. ASSUME NEW i \in 1 .. pushed - popped
      PROVE  queue.buf[SlotOf(head + i - 1)].value = items[popped + i - 1]
  <2>1. i - 1 \in Nat /\ popped \in Nat /\ head \in Nat
    BY Order, IndexOfCounter, Moduli DEF Indices
  <2>2. SlotOf(head + (i - 1)) = SlotOf(popped + (i - 1))
    BY <2>1, SlotOfSum, Zenon
  <2> HIDE DEF head
  <2>3. head + (i - 1) = head + i - 1 /\ popped + (i - 1) = popped + i - 1
    BY <2>1
  <2>4. popped + i - 1 \in popped .. producer.writes - 1
    BY <2>1, Order
  <2> QED
    BY <2>2, <2>3, <2>4 DEF Inv, SlotsInv
<1> HIDE DEF head
<1> QED
  BY <1>1, <1>2, LatestIndices DEF Contents, head, Segment

(* How many items there are, and what the consumer is about to return.     *)
LEMMA ItemsHeld ==
  ASSUME Inv
  PROVE  /\ pushed \in Nat /\ popped \in Nat
         /\ popped <= pushed /\ pushed - popped <= Capacity
         /\ Latest(queue.tail).index = Latest(queue.head).index <=> popped = pushed
         /\ producer.pc = "publish" => pushed - popped < Capacity
         /\ consumer.pc = "publish" => popped < pushed /\ consumer.out = items[popped]
<1>1. /\ pushed \in Nat /\ popped \in Nat
      /\ popped <= pushed /\ pushed - popped <= Capacity
  BY Order, Moduli
<1>2. popped % IndexMod = pushed % IndexMod <=> pushed = popped
  BY <1>1, EqualIndices, Zenon
<1>3. producer.pc = "publish" => pushed - producer.reads_known < Capacity
  BY DEF Inv, ProducerInv
<1>4. consumer.pc = "publish" => popped < consumer.writes_known /\ consumer.out = items[popped]
  BY DEF Inv, ConsumerInv
<1> QED
  BY <1>1, <1>2, <1>3, <1>4, LatestIndices, Order, Moduli

-----------------------------------------------------------------------------
(* The libraries' queues: one lemma per step of the wrappers.              *)

Lib == INSTANCE LibraryProgress

LEMMA LibraryInitInv ==
  ASSUME Lib!WrapperInit, pushed = 0, popped = 0
  PROVE  Lib!Inv
<1>1. queue = <<>> /\ consumer = [pc |-> "idle", out |-> Indeterminate]
  BY DEF Lib!WrapperInit, Lib!Library!Init
<1>2. Lib!Taken = 0 /\ consumer.pc = "idle"
  BY <1>1 DEF Lib!Taken
<1>3. queue \in Seq(Nat) /\ Len(queue) = 0
  BY <1>1
<1>4. Lib!TypeInv
  BY <1>1, <1>3 DEF Lib!TypeInv
<1> QED
  BY <1>2, <1>3, <1>4 DEF Lib!Inv

(* How many items there are, and what try_pop is about to return.          *)
LEMMA LibraryItemsHeld ==
  ASSUME Lib!Inv
  PROVE  /\ pushed \in Nat /\ popped \in Nat /\ popped <= pushed
         /\ queue # <<>> \/ consumer.pc = "return" <=> popped # pushed
         /\ consumer.pc \in {"publish", "return"} =>
              popped < pushed /\ consumer.out = items[popped]
<1>1. /\ Len(queue) \in Nat /\ Len(queue) = pushed - Lib!Taken
      /\ pushed \in Nat /\ popped \in Nat
      /\ queue = <<>> <=> Len(queue) = 0
  BY EmptySeq DEF Lib!Inv, Lib!TypeInv
<1>2. CASE consumer.pc = "return"
  BY <1>1, <1>2 DEF Lib!Inv, Lib!Taken
<1>3. CASE consumer.pc # "return"
  BY <1>1, <1>3 DEF Lib!Inv, Lib!Taken
<1> QED
  BY <1>2, <1>3

LEMMA LibraryWriteInv ==
  ASSUME Lib!Inv, items[pushed] \in Nat, Lib!Write(items[pushed]),
         pushed' = pushed + 1, UNCHANGED <<consumer, popped, items>>
  PROVE  Lib!Inv'
<1>1. queue \in Seq(Nat) /\ queue' = Append(queue, items[pushed]) /\ pushed \in Nat
  BY DEF Lib!Write, Lib!Library!Push, Lib!Inv, Lib!TypeInv
<1>2. /\ queue' \in Seq(Nat) /\ queue' # <<>> /\ Len(queue') = Len(queue) + 1
      /\ \A k \in 1 .. Len(queue) : queue'[k] = queue[k]
      /\ queue'[Len(queue) + 1] = items[pushed]
  BY <1>1
<1>3. Len(queue) = pushed - Lib!Taken /\ Lib!Taken' = Lib!Taken
      /\ Lib!Taken \in Nat
  BY DEF Lib!Inv, Lib!TypeInv, Lib!Taken
<1>4. ASSUME NEW k \in 1 .. Len(queue')
      PROVE  queue'[k] = items'[Lib!Taken' + k - 1]
  <2>1. CASE k = Len(queue) + 1
    <3>1. Lib!Taken + k - 1 = pushed
      BY <1>1, <1>3, <2>1
    <3> QED
      BY <1>2, <1>3, <2>1, <3>1
  <2>2. CASE k \in 1 .. Len(queue)
    BY <1>2, <1>3, <2>2 DEF Lib!Inv
  <2> QED
    BY <1>1, <1>2, <2>1, <2>2
<1> QED
  BY <1>1, <1>2, <1>3, <1>4 DEF Lib!Inv, Lib!TypeInv

(* rigtorp and folly: the front is copied before it is popped.             *)
LEMMA FrontPtrInv ==
  ASSUME Lib!Inv, Lib!FrontPtr, UNCHANGED <<pushed, popped, items>>
  PROVE  Lib!Inv'
BY DEF Lib!FrontPtr, Lib!Inv, Lib!TypeInv, Lib!Taken

LEMMA CopyOutInv ==
  ASSUME Lib!Inv, Lib!CopyOut, UNCHANGED <<pushed, popped, items>>
  PROVE  Lib!Inv'
<1>1. /\ consumer.pc = "copy" /\ queue' = queue /\ queue # <<>> /\ queue \in Seq(Nat)
      /\ consumer' = [consumer EXCEPT !.pc = "publish", !.out = Head(queue)]
  BY DEF Lib!CopyOut, Lib!Inv, Lib!TypeInv
<1>2. Head(queue) = queue[1] /\ Head(queue) \in Nat /\ 1 \in 1 .. Len(queue)
  BY <1>1
<1>3. Lib!Taken = popped /\ popped \in Nat
  BY <1>1 DEF Lib!Taken, Lib!Inv, Lib!TypeInv
<1>4. popped + 1 - 1 = popped
  BY <1>3
<1>5. Head(queue) = items[popped]
  BY <1>2, <1>3, <1>4 DEF Lib!Inv
<1>6. consumer'.pc = "publish" /\ consumer'.out = Head(queue) /\ Lib!Taken' = popped
  BY <1>1 DEF Lib!Taken, Lib!Inv, Lib!TypeInv
<1>7. Lib!TypeInv'
  BY <1>1, <1>2 DEF Lib!Inv, Lib!TypeInv
<1> QED
  BY <1>1, <1>3, <1>5, <1>6, <1>7 DEF Lib!Inv

(* What is left when the first item has been taken off.                    *)
LEMMA TakenOff ==
  ASSUME Lib!Inv, queue # <<>>, queue' = Tail(queue), Lib!Taken' = Lib!Taken + 1,
         UNCHANGED <<pushed, items>>
  PROVE  /\ queue' \in Seq(Nat)
         /\ Len(queue') = pushed' - Lib!Taken'
         /\ \A k \in 1 .. Len(queue') : queue'[k] = items'[Lib!Taken' + k - 1]
<1>1. /\ queue \in Seq(Nat) /\ Len(queue) = pushed - Lib!Taken
      /\ pushed \in Nat /\ Lib!Taken \in Nat
  BY DEF Lib!Inv, Lib!TypeInv, Lib!Taken
<1>2. /\ queue' \in Seq(Nat) /\ Len(queue') = Len(queue) - 1
      /\ \A k \in 1 .. Len(queue') : queue'[k] = queue[k + 1] /\ k + 1 \in 1 .. Len(queue)
  BY <1>1
<1>3. ASSUME NEW k \in 1 .. Len(queue')
      PROVE  queue'[k] = items[Lib!Taken + 1 + k - 1]
  <2>1. queue'[k] = items[Lib!Taken + (k + 1) - 1]
    BY <1>2 DEF Lib!Inv
  <2>2. Lib!Taken + (k + 1) - 1 = Lib!Taken + 1 + k - 1
    BY <1>1
  <2> QED
    BY <2>1, <2>2
<1> QED
  BY <1>1, <1>2, <1>3

LEMMA PopFrontInv ==
  ASSUME Lib!Inv, Lib!PopFront, popped' = popped + 1, UNCHANGED <<pushed, items>>
  PROVE  Lib!Inv'
<1>1. /\ consumer.pc = "publish" /\ queue # <<>> /\ queue' = Tail(queue)
      /\ consumer' = [consumer EXCEPT !.pc = "idle"]
  BY DEF Lib!PopFront, Lib!Library!Pop
<1>2. consumer'.pc = "idle" /\ Lib!Taken' = popped + 1 /\ Lib!Taken = popped
  BY <1>1 DEF Lib!Inv, Lib!TypeInv, Lib!Taken
<1> QED
  BY <1>1, <1>2, TakenOff DEF Lib!Inv, Lib!TypeInv

(* moodycamel and boost: the item is taken off before try_pop returns.     *)
LEMMA DequeueInv ==
  ASSUME Lib!Inv, Lib!Dequeue, UNCHANGED <<pushed, popped, items>>
  PROVE  Lib!Inv'
<1>1. /\ consumer.pc = "idle" /\ queue # <<>> /\ queue' = Tail(queue)
      /\ consumer' = [pc |-> "return", out |-> Head(queue)]
  BY DEF Lib!Dequeue, Lib!Library!Pop
<1>2. queue \in Seq(Nat) /\ popped \in Nat
  BY DEF Lib!Inv, Lib!TypeInv
<1>3. Head(queue) = queue[1] /\ Head(queue) \in Nat /\ 1 \in 1 .. Len(queue)
  BY <1>1, <1>2
<1>4. Lib!Taken = popped /\ Lib!Taken' = popped + 1 /\ popped + 1 - 1 = popped
  BY <1>1, <1>2 DEF Lib!Taken
<1>5. Head(queue) = items[popped]
  BY <1>3, <1>4 DEF Lib!Inv
<1> QED
  BY <1>1, <1>3, <1>4, <1>5, TakenOff DEF Lib!Inv, Lib!TypeInv

LEMMA ReturnInv ==
  ASSUME Lib!Inv, Lib!Return, popped' = popped + 1, UNCHANGED <<pushed, items>>
  PROVE  Lib!Inv'
<1>1. Lib!Taken = popped + 1 /\ Lib!Taken' = popped + 1
  BY DEF Lib!Return, Lib!Inv, Lib!TypeInv, Lib!Taken
<1> QED
  BY <1>1 DEF Lib!Return, Lib!Inv, Lib!TypeInv

LEMMA LibraryUnchangedInv ==
  ASSUME Lib!Inv, UNCHANGED <<queue, consumer, pushed, popped, items>>
  PROVE  Lib!Inv'
BY DEF Lib!Inv, Lib!TypeInv, Lib!Taken
=============================================================================
