--------------------------- MODULE BenchMainProofs ---------------------------
(***************************************************************************)
(* Proofs about the benchmark mains, for any number of threads,            *)
(* increments, runs and arguments.  First the four ways of counting of     *)
(* module CounterBench, one call of which is: Starts, then steps of Next.  *)
(***************************************************************************)
EXTENDS BenchMain, FiniteSetTheorems, SequenceTheorems, TLAPS

Phase == {"loop", "load", "store", "unlock"}

Worker == [pc : Phase, n : 0 .. IncrementCount, loaded : Nat, known : Nat, last : Nat]

CounterType ==
  /\ variant \in 0 .. 4
  /\ counter \in [Thread -> Nat]
  /\ mutex \in [holder : Thread \union {Nobody}, accesses : Nat]
  /\ accesses \in Nat
  /\ worker \in [Thread -> Worker]
  /\ main \in [joined : 0 .. Threads, sum : Nat, pc : {"idle", "join", "returned"}]
  /\ main.pc = "join" => variant \in 1 .. 4

(* Who is between lock and unlock holds the mutex and knows all accesses;  *)
(* a free mutex passes that knowledge on.                                  *)
MutexInv ==
  /\ \A t \in Thread :
       /\ worker[t].known <= accesses
       /\ worker[t].pc # "loop" =>
            /\ variant = 1 /\ worker[t].n < IncrementCount
            /\ mutex.holder = t /\ worker[t].known = accesses
  /\ mutex.holder = Nobody => mutex.accesses = accesses

(* The increments of thread t that are in the counter.                     *)
Counts(t) == worker[t].n + (IF worker[t].pc = "unlock" THEN 1 ELSE 0)

(* All increments in the counter, one element each: their number is a      *)
(* cardinality, so that no sum over the threads is needed.                 *)
Counted == {c \in Thread \X (1 .. IncrementCount) : c[2] <= Counts(c[1])}

(* The common counter has every increment once, though each was a load and *)
(* a store.                                                                *)
SharedInv ==
  variant \in {1, 2} =>
    /\ counter[0] = Cardinality(Counted)
    /\ \A t \in Thread : worker[t].pc = "store" => worker[t].loaded = counter[0]

(* The last increment of the common atomic was some thread's.              *)
LastInv ==
  variant = 2 =>
    /\ \A t \in Thread : worker[t].last <= counter[0]
    /\ \E t \in Thread : worker[t].last = counter[0]

ShardInv ==
  variant \in {3, 4} =>
    \A t \in Thread : counter[t] = worker[t].n /\ worker[t].last = worker[t].n

JoinInv ==
  main.pc = "join" =>
    /\ \A t \in Thread : t < main.joined => Finished(t)
    /\ variant \in {3, 4} => main.sum = main.joined * IncrementCount

CounterInv ==
  /\ CounterType /\ MutexInv /\ SharedInv /\ LastInv /\ ShardInv /\ JoinInv
  /\ ReportsTotal

-----------------------------------------------------------------------------
(* Facts about the constants, and about the two sets that are counted.     *)

LEMMA Increments ==
  /\ Threads \in Nat \ {0} /\ IncrementCount \in Nat
  /\ 0 \in Thread /\ Nobody \notin Thread
BY CounterAssumption DEF IncrementCount, Thread, Nobody

LEMMA OneMore == \A a, b \in Nat : (a + 1) * b = a * b + b
OBVIOUS

LEMMA TotalIsSum == Threads * IncrementCount = Total
BY CounterAssumption DEF IncrementCount

LEMMA CountedIsFinite == IsFiniteSet(Counted) /\ Cardinality(Counted) \in Nat
<1>1. IsFiniteSet(Thread) /\ IsFiniteSet(1 .. IncrementCount)
  BY Increments, FS_Interval DEF Thread
<1>2. IsFiniteSet(Thread \X (1 .. IncrementCount))
  BY <1>1, FS_Product
<1>3. Counted \in SUBSET (Thread \X (1 .. IncrementCount))
  BY DEF Counted
<1>4. IsFiniteSet(Counted)
  BY <1>2, <1>3, FS_Subset
<1> QED
  BY <1>4, FS_CardinalityType

(* One more increment counted is one more element.                         *)
LEMMA CountedGrows ==
  ASSUME CounterType, NEW t \in Thread, Counts(t) < IncrementCount,
         CounterType', Counts(t)' = Counts(t) + 1,
         \A u \in Thread \ {t} : Counts(u)' = Counts(u)
  PROVE  Cardinality(Counted') = Cardinality(Counted) + 1
<1> DEFINE c == <<t, Counts(t) + 1>>
<1>1. \A u \in Thread : Counts(u) \in Nat
  BY Increments DEF Counts, CounterType, Worker
<1>2. c \in Thread \X (1 .. IncrementCount) /\ c \notin Counted
  BY <1>1, Increments DEF Counted
<1>3. ASSUME NEW d \in Thread \X (1 .. IncrementCount)
      PROVE  d[2] <= Counts(d[1])' <=> d[2] <= Counts(d[1]) \/ d = c
  <2>1. PICK u \in Thread, k \in 1 .. IncrementCount : d = <<u, k>>
    OBVIOUS
  <2>2. CASE u = t
    BY <1>1, <2>1, <2>2, Increments
  <2>3. CASE u # t
    BY <1>1, <2>1, <2>3, Increments
  <2> QED
    BY <2>2, <2>3
<1>4. Counted' = Counted \union {c}
  BY <1>2, <1>3 DEF Counted
<1> QED
  BY <1>2, <1>4, CountedIsFinite, FS_AddElement

LEMMA CountedSame ==
  ASSUME \A u \in Thread : Counts(u)' = Counts(u)
  PROVE  Counted' = Counted
BY DEF Counted

(* When all threads are finished all increments are counted.               *)
LEMMA CountedAll ==
  ASSUME CounterType, \A t \in Thread : Finished(t)
  PROVE  Cardinality(Counted) = Total
<1>1. \A t \in Thread : Counts(t) = IncrementCount
  BY Increments DEF Finished, Counts
<1>2. Counted = Thread \X (1 .. IncrementCount)
  BY <1>1, Increments DEF Counted
<1>3. IsFiniteSet(Thread) /\ Cardinality(Thread) = Threads
  BY Increments, FS_Interval DEF Thread
<1>4. IsFiniteSet(1 .. IncrementCount) /\ Cardinality(1 .. IncrementCount) = IncrementCount
  BY Increments, FS_Interval
<1>5. Cardinality(Counted) = Threads * IncrementCount
  BY <1>2, <1>3, <1>4, FS_Product
<1> QED
  BY <1>5, TotalIsSum

(* The greatest element of a set, when one is known.                       *)
LEMMA MaxIs ==
  ASSUME NEW S \in SUBSET Nat, NEW m \in S, \A x \in S : x <= m
  PROVE  Max(S) = m
<1>1. \A y \in S : m >= y
  OBVIOUS
<1>2. \A x \in S : (\A y \in S : x >= y) => x = m
  <2> SUFFICES ASSUME NEW x \in S, \A y \in S : x >= y
               PROVE  x = m
    OBVIOUS
  <2> QED
    OBVIOUS
<1>3. Max(S) \in S /\ \A y \in S : Max(S) >= y
  BY <1>1 DEF Max
<1> QED
  BY <1>2, <1>3
-----------------------------------------------------------------------------
(* The steps of a call.                                                    *)

LEMMA StartsInv ==
  ASSUME CounterInv, NEW v \in 1 .. 4, Starts(v)
  PROVE  CounterInv'
<1> USE Increments DEF CounterInv, Starts, NoCounts, FreeMutex, NewWorkers
<1>1. CounterType'
  BY DEF CounterType, Worker, Phase
<1>2. MutexInv' /\ ShardInv' /\ ReportsTotal'
  BY DEF MutexInv, ShardInv, ReportsTotal
<1>3. LastInv' /\ JoinInv'
  BY DEF LastInv, JoinInv, Thread
<1>4. SharedInv'
  <2>1. \A t \in Thread : Counts(t)' = 0
    BY DEF Counts
  <2>2. Counted' = {}
    BY <2>1 DEF Counted
  <2>3. Cardinality(Counted') = 0
    BY <2>2, FS_EmptySet
  <2> QED
    BY <2>3 DEF SharedInv
<1> QED
  BY <1>1, <1>2, <1>3, <1>4

LEMMA LockInv ==
  ASSUME CounterInv, main.pc = "join", NEW t \in Thread, Lock(t)
  PROVE  CounterInv'
<1> USE DEF CounterInv
<1>1. mutex.holder = Nobody /\ mutex.accesses = accesses
  BY DEF Lock, MayLock, MutexInv
<1>2. Acquired("acquire", worker[t].known, mutex.accesses) = accesses
  BY <1>1 DEF CounterType, Worker, MutexInv, Acquired
<1>3. /\ worker' = [worker EXCEPT ![t].pc = "load", ![t].known = accesses]
      /\ worker[t].pc = "loop" /\ worker[t].n < IncrementCount /\ variant = 1
      /\ mutex' = [mutex EXCEPT !.holder = t]
      /\ UNCHANGED <<variant, counter, accesses, main>>
  BY <1>2 DEF Lock
<1>4. CounterType'
  BY <1>3 DEF CounterType, Worker, Phase
<1>5. MutexInv'
  BY <1>1, <1>3, Increments DEF CounterType, Worker, MutexInv
<1>6. SharedInv'
  <2>1. \A u \in Thread : Counts(u)' = Counts(u)
    BY <1>3 DEF CounterType, Worker, Counts
  <2>2. Counted' = Counted
    BY <2>1, CountedSame
  <2> QED
    BY <1>3, <2>2 DEF CounterType, Worker, SharedInv
<1>7. LastInv' /\ ShardInv' /\ ReportsTotal'
  BY <1>3 DEF CounterType, Worker, LastInv, ShardInv, ReportsTotal
<1>8. JoinInv'
  BY <1>3, Increments DEF CounterType, Worker, JoinInv, Finished
<1> QED
  BY <1>4, <1>5, <1>6, <1>7, <1>8

LEMMA LoadInv ==
  ASSUME CounterInv, main.pc = "join", NEW t \in Thread, Load(t)
  PROVE  CounterInv'
<1> USE DEF CounterInv
<1>1. /\ variant = 1 /\ mutex.holder = t
      /\ \A u \in Thread \ {t} : worker[u].pc = "loop"
  BY DEF Load, MutexInv
<1>2. CounterType'
  <2>1. /\ worker \in [Thread -> Worker] /\ counter \in [Thread -> Nat]
        /\ counter[0] \in Nat /\ worker[t].loaded + 1 \in Nat /\ accesses + 1 \in Nat
    BY Increments DEF CounterType, Worker
  <2>2. worker' = [worker EXCEPT ![t].pc = "store", ![t].loaded = counter[0],
                                    ![t].known = accesses + 1]
    BY DEF Load
  <2>3. worker' \in [Thread -> Worker]
    BY <2>1, <2>2 DEF Worker, Phase
  <2>4. counter' \in [Thread -> Nat]
    BY <2>1 DEF Load
  <2> QED
    BY <2>1, <2>3, <2>4 DEF Load, CounterType
<1>3. MutexInv'
  BY <1>1, Increments DEF Load, CounterType, Worker, MutexInv
<1>4. SharedInv'
  <2>1. \A u \in Thread : Counts(u)' = Counts(u)
    BY DEF Load, CounterType, Worker, Counts
  <2>2. Counted' = Counted
    BY <2>1, CountedSame
  <2> QED
    BY <2>2 DEF Load, CounterType, Worker, SharedInv
<1>5. LastInv' /\ ShardInv' /\ ReportsTotal'
  BY <1>1 DEF Load, CounterType, Worker, LastInv, ShardInv, ReportsTotal
<1>6. JoinInv'
  BY Increments DEF Load, CounterType, Worker, JoinInv, Finished
<1> QED
  BY <1>2, <1>3, <1>4, <1>5, <1>6

(* The one increment the store adds is counted from now on.                *)
LEMMA StoreInv ==
  ASSUME CounterInv, main.pc = "join", NEW t \in Thread, Store(t)
  PROVE  CounterInv'
<1> USE DEF CounterInv
<1>1. /\ variant = 1 /\ mutex.holder = t /\ worker[t].n < IncrementCount
      /\ \A u \in Thread \ {t} : worker[u].pc = "loop"
  BY DEF Store, MutexInv
<1>2. CounterType'
  <2>1. /\ worker \in [Thread -> Worker] /\ counter \in [Thread -> Nat]
        /\ counter[0] \in Nat /\ worker[t].loaded + 1 \in Nat /\ accesses + 1 \in Nat
    BY Increments DEF CounterType, Worker
  <2>2. worker' = [worker EXCEPT ![t].pc = "unlock", ![t].known = accesses + 1]
    BY DEF Store
  <2>3. worker' \in [Thread -> Worker]
    BY <2>1, <2>2 DEF Worker, Phase
  <2>4. counter' \in [Thread -> Nat]
    BY <2>1 DEF Store
  <2> QED
    BY <2>1, <2>3, <2>4 DEF Store, CounterType
<1>3. MutexInv'
  BY <1>1, Increments DEF Store, CounterType, Worker, MutexInv
<1>4. SharedInv'
  <2>1. Counts(t) = worker[t].n /\ Counts(t)' = Counts(t) + 1
    BY <1>2 DEF Store, CounterType, Worker, Counts
  <2>2. \A u \in Thread \ {t} : Counts(u)' = Counts(u)
    BY DEF Store, CounterType, Worker, Counts
  <2>3. Cardinality(Counted') = Cardinality(Counted) + 1
    BY <1>1, <1>2, <2>1, <2>2, CountedGrows
  <2>4. counter'[0] = counter[0] + 1
    BY <1>1, Increments DEF Store, CounterType, Worker, SharedInv
  <2>5. \A u \in Thread : worker'[u].pc # "store"
    BY <1>1 DEF Store, CounterType, Worker
  <2> QED
    BY <1>1, <2>3, <2>4, <2>5 DEF SharedInv
<1>5. LastInv' /\ ShardInv' /\ ReportsTotal'
  BY <1>1 DEF Store, CounterType, Worker, LastInv, ShardInv, ReportsTotal
<1>6. JoinInv'
  BY <1>1, Increments DEF Store, CounterType, Worker, JoinInv, Finished
<1> QED
  BY <1>2, <1>3, <1>4, <1>5, <1>6

LEMMA UnlockInv ==
  ASSUME CounterInv, main.pc = "join", NEW t \in Thread, Unlock(t)
  PROVE  CounterInv'
<1> USE DEF CounterInv
<1>1. /\ variant = 1 /\ mutex.holder = t /\ worker[t].n < IncrementCount
      /\ worker[t].known = accesses
      /\ \A u \in Thread \ {t} : worker[u].pc = "loop"
  BY DEF Unlock, MutexInv
<1>2. CounterType'
  BY <1>1, Increments DEF Unlock, CounterType, Worker, Phase, Released
<1>3. MutexInv'
  BY <1>1, Increments DEF Unlock, CounterType, Worker, MutexInv, Released
<1>4. SharedInv'
  <2>1. \A u \in Thread : Counts(u)' = Counts(u)
    BY Increments DEF Unlock, CounterType, Worker, Counts
  <2>2. Counted' = Counted
    BY <2>1, CountedSame
  <2> QED
    BY <2>2 DEF Unlock, CounterType, Worker, SharedInv
<1>5. LastInv' /\ ShardInv' /\ ReportsTotal'
  BY <1>1 DEF Unlock, CounterType, Worker, LastInv, ShardInv, ReportsTotal
<1>6. JoinInv'
  BY <1>1, Increments DEF Unlock, CounterType, Worker, JoinInv, Finished
<1> QED
  BY <1>2, <1>3, <1>4, <1>5, <1>6

LEMMA FetchAddInv ==
  ASSUME CounterInv, main.pc = "join", NEW t \in Thread, FetchAdd(t)
  PROVE  CounterInv'
<1> USE DEF CounterInv
<1>1. variant \in 2 .. 4 /\ Shard(t) \in Thread /\ \A u \in Thread : worker[u].pc = "loop"
  BY Increments DEF FetchAdd, CounterType, Worker, MutexInv, Shard
<1>2. CounterType'
  <2>1. PICK k \in Thread : k = Shard(t)
    BY <1>1
  <2>2. PICK last \in Nat : last = counter[k] + 1
    BY <2>1 DEF CounterType
  <2>3. worker \in [Thread -> Worker] /\ worker[t].n + 1 \in 0 .. IncrementCount
    BY Increments DEF FetchAdd, CounterType, Worker
  <2>4. worker' = [worker EXCEPT ![t].n = @ + 1, ![t].last = last]
    BY <2>1, <2>2 DEF FetchAdd
  <2>5. worker' \in [Thread -> Worker]
    BY <2>3, <2>4 DEF Worker
  <2>6. counter' = [counter EXCEPT ![k] = last]
    BY <2>1, <2>2 DEF FetchAdd
  <2>7. counter' \in [Thread -> Nat]
    BY <2>2, <2>6 DEF CounterType
  <2> QED
    BY <1>1, <2>5, <2>7 DEF FetchAdd, CounterType
<1>3. MutexInv'
  BY <1>1 DEF FetchAdd, CounterType, Worker, MutexInv
<1>4. SharedInv'
  <2>1. Counts(t) = worker[t].n /\ Counts(t)' = Counts(t) + 1
    BY <1>1, Increments DEF FetchAdd, CounterType, Worker, Counts
  <2>2. \A u \in Thread \ {t} : Counts(u)' = Counts(u)
    BY DEF FetchAdd, CounterType, Worker, Counts
  <2>3. Cardinality(Counted') = Cardinality(Counted) + 1
    BY <1>2, <2>1, <2>2, CountedGrows DEF FetchAdd
  <2>4. variant = 2 => counter'[0] = counter[0] + 1
    BY Increments DEF FetchAdd, CounterType, Worker, Shard
  <2>5. variant' \in {1, 2} => variant = 2
    BY DEF FetchAdd
  <2>6. \A u \in Thread : worker'[u].pc # "store"
    BY <1>1 DEF FetchAdd, CounterType, Worker
  <2> QED
    BY <2>3, <2>4, <2>5, <2>6 DEF SharedInv
<1>5. LastInv'
  BY Increments DEF FetchAdd, CounterType, Worker, LastInv, Shard
<1>6. ShardInv'
  BY DEF FetchAdd, CounterType, Worker, ShardInv, Shard
<1>7. JoinInv' /\ ReportsTotal'
  BY Increments DEF FetchAdd, CounterType, Worker, JoinInv, Finished, ReportsTotal
<1> QED
  BY <1>2, <1>3, <1>4, <1>5, <1>6, <1>7
(* The thread just joined was the only one to write the shard: what is     *)
(* loaded is its last value.                                               *)
LEMMA ShardLoaded ==
  ASSUME CounterInv, variant \in {3, 4}, NEW j \in Thread, Finished(j)
  PROVE  Loaded(j, j + 1) = {IncrementCount}
<1>1. worker[j].last = IncrementCount /\ counter[j] = IncrementCount
  BY DEF CounterInv, ShardInv, Finished
<1>2. {u \in Thread : u < j + 1 /\ Shard(u) = j} = {j}
  BY DEF Shard, Thread
<1>3. {worker[t].last : t \in {u \in Thread : u < j + 1 /\ Shard(u) = j}} = {IncrementCount}
  BY <1>1, <1>2
<1>4. Max({IncrementCount}) = IncrementCount
  BY Increments, MaxIs
<1>5. Loaded(j, j + 1) = IncrementCount .. IncrementCount
  BY <1>1, <1>3, <1>4 DEF Loaded
<1> QED
  BY <1>5, Increments

(* Whoever made the last increment of the common atomic has been joined.   *)
LEMMA CommonLoaded ==
  ASSUME CounterInv, variant = 2
  PROVE  Loaded(0, Threads) = {counter[0]}
<1> DEFINE known == {worker[t].last : t \in {u \in Thread : u < Threads /\ Shard(u) = 0}}
<1>1. known = {worker[t].last : t \in Thread}
  BY Increments DEF Shard, Thread
<1>2. counter[0] \in Nat /\ counter[0] \in known /\ \A x \in known : x <= counter[0]
  BY <1>1, Increments DEF CounterInv, CounterType, LastInv
<1>3. known \in SUBSET Nat
  BY <1>1 DEF CounterInv, CounterType, Worker
<1> HIDE DEF known
<1>4. Max(known) = counter[0]
  BY <1>2, <1>3, MaxIs
<1>5. Loaded(0, Threads) = counter[0] .. counter[0]
  BY <1>2, <1>4 DEF Loaded, known
<1> QED
  BY <1>2, <1>5

LEMMA JoinStepInv ==
  ASSUME CounterInv, Join
  PROVE  CounterInv'
<1> DEFINE j == main.joined
<1>1. j \in Thread /\ j + 1 \in 0 .. Threads /\ Finished(j) /\ main.pc = "join"
  BY Increments DEF Join, CounterInv, CounterType, Thread
<1>2. PICK value \in IF variant \in {3, 4} THEN Loaded(j, j + 1) ELSE {0} :
        main' = [main EXCEPT !.joined = @ + 1, !.sum = @ + value]
  BY DEF Join, JoinedBeforeLoad
<1>3. value = IF variant \in {3, 4} THEN IncrementCount ELSE 0
  BY <1>1, <1>2, ShardLoaded
<1>4. UNCHANGED <<variant, counter, mutex, accesses, worker>>
  BY DEF Join
<1>5. CounterType'
  <2>1. main.sum + value \in Nat
    BY <1>3, Increments DEF CounterInv, CounterType
  <2>2. main' \in [joined : 0 .. Threads, sum : Nat, pc : {"idle", "join", "returned"}]
    BY <1>1, <1>2, <2>1 DEF CounterInv, CounterType
  <2> QED
    BY <1>2, <1>4, <2>2 DEF CounterInv, CounterType
<1>6. MutexInv' /\ LastInv' /\ ShardInv'
  BY <1>4 DEF CounterInv, MutexInv, LastInv, ShardInv
<1>7. SharedInv'
  BY <1>4 DEF CounterInv, SharedInv, Counted, Counts
<1>8. ReportsTotal'
  BY <1>1, <1>2 DEF CounterInv, CounterType, ReportsTotal
<1>9. JoinInv'
  <2>1. main'.joined = j + 1 /\ main'.sum = main.sum + value
    BY <1>2 DEF CounterInv, CounterType
  <2>2. \A t \in Thread : t < j + 1 => Finished(t)
    BY <1>1 DEF CounterInv, JoinInv, Thread
  <2>3. variant \in {3, 4} => main'.sum = j * IncrementCount + IncrementCount
    BY <1>1, <1>3, <2>1 DEF CounterInv, JoinInv
  <2>4. (j + 1) * IncrementCount = j * IncrementCount + IncrementCount
    BY <1>1, Increments, OneMore DEF Thread
  <2> QED
    BY <1>4, <2>1, <2>2, <2>3, <2>4 DEF JoinInv, Finished
<1> QED
  BY <1>5, <1>6, <1>7, <1>8, <1>9 DEF CounterInv

LEMMA ReturnInv ==
  ASSUME CounterInv, Return
  PROVE  CounterInv'
<1>1. main.pc = "join" /\ main.joined = Threads /\ variant \in 1 .. 4
  BY DEF Return, CounterInv, CounterType
<1>2. \A t \in Thread : Finished(t)
  BY <1>1, Increments DEF CounterInv, JoinInv, Thread
<1>3. PICK value \in CASE variant = 1 -> {counter[0]}
                       [] variant = 2 -> Loaded(0, Threads)
                       [] OTHER -> {main.sum} :
        main' = [main EXCEPT !.pc = "returned", !.sum = value]
  BY <1>1 DEF Return
<1>4. value = Total
  <2>1. CASE variant \in {1, 2}
    <3>1. value = counter[0]
      BY <1>3, <2>1, CommonLoaded
    <3>2. counter[0] = Cardinality(Counted)
      BY <2>1 DEF CounterInv, SharedInv
    <3> QED
      BY <1>2, <3>1, <3>2, CountedAll DEF CounterInv
  <2>2. CASE variant \in {3, 4}
    <3>1. value = Threads * IncrementCount
      BY <1>1, <1>3, <2>2 DEF CounterInv, JoinInv
    <3> QED
      BY <3>1, TotalIsSum
  <2> QED
    BY <1>1, <2>1, <2>2
<1>5. /\ main' = [main EXCEPT !.pc = "returned", !.sum = Total]
      /\ UNCHANGED <<variant, counter, mutex, accesses, worker>>
  BY <1>3, <1>4 DEF Return
<1>6. CounterType' /\ ReportsTotal' /\ JoinInv'
  BY <1>5, CounterAssumption DEF CounterInv, CounterType, ReportsTotal, JoinInv
<1>7. MutexInv' /\ LastInv' /\ ShardInv'
  BY <1>5 DEF CounterInv, MutexInv, LastInv, ShardInv
<1>8. SharedInv'
  BY <1>5 DEF CounterInv, SharedInv, Counted, Counts
<1> QED
  BY <1>6, <1>7, <1>8 DEF CounterInv

LEMMA CallInv ==
  ASSUME CounterInv, Next
  PROVE  CounterInv'
<1>1. main.pc = "join"
  BY DEF Next
<1>2. ASSUME NEW t \in Thread, ThreadStep(t)
      PROVE  CounterInv'
  BY <1>1, <1>2, LockInv, LoadInv, StoreInv, UnlockInv, FetchAddInv DEF ThreadStep
<1> QED
  BY <1>2, JoinStepInv, ReturnInv DEF Next

LEMMA CounterSame ==
  ASSUME CounterInv, UNCHANGED vars
  PROVE  CounterInv'
BY DEF vars, CounterInv, CounterType, MutexInv, SharedInv, LastInv, ShardInv, JoinInv,
       ReportsTotal, Counted, Counts, Finished

LEMMA MeasureCallInv ==
  ASSUME CounterInv, MeasureCall
  PROVE  CounterInv'
<1>1. /\ main' = [main EXCEPT !.pc = "idle"]
      /\ UNCHANGED <<variant, counter, mutex, accesses, worker>>
  BY DEF MeasureCall
<1>2. CounterType' /\ ReportsTotal' /\ JoinInv'
  BY <1>1 DEF CounterInv, CounterType, ReportsTotal, JoinInv
<1>3. MutexInv' /\ LastInv' /\ ShardInv'
  BY <1>1 DEF CounterInv, MutexInv, LastInv, ShardInv
<1>4. SharedInv'
  BY <1>1 DEF CounterInv, SharedInv, Counted, Counts
<1> QED
  BY <1>2, <1>3, <1>4 DEF CounterInv
-----------------------------------------------------------------------------
(* The mains: which variants are run.                                      *)

Plan == Selected(args.mode, args.printed)

BenchType ==
  /\ program \in {"counter_bench", "spsc_bench", "pingpong_bench"}
  /\ argument \in Arguments \union {NoArgument}
  /\ status \in {"parsing", "running", "exited", "threw"}
  /\ todo \in Seq(0 .. 4) /\ ran \in Seq(0 .. 4)
  /\ program = "counter_bench" => todo \in Seq(1 .. 4)

(* What has been run and what is left is always the plan.                  *)
PlanInv ==
  /\ status = "parsing" => todo = <<>> /\ ran = <<>>
  /\ status \in {"running", "exited"} =>
       args = Parsed(argument, Defaults) /\ ran \o todo = Plan
  /\ status = "exited" => todo = <<>>

ReportInv ==
  report # NoReport =>
    /\ status \in {"running", "exited"} /\ ran # <<>>
    /\ args.printed => report.figures # <<>>
    /\ ~args.printed => report.figures = <<>>
    /\ program = "pingpong_bench" /\ args.printed =>
         report.figures.layout = IF args.mode = 1 THEN 1 ELSE 2

BenchInv == CounterInv /\ BenchType /\ PlanInv /\ ReportInv

LEMMA MovedAcross ==
  ASSUME NEW S, NEW a \in Seq(S), NEW b \in Seq(S), b # <<>>
  PROVE  /\ Head(b) \in S /\ Tail(b) \in Seq(S)
         /\ Append(a, Head(b)) \in Seq(S) /\ Append(a, Head(b)) # <<>>
         /\ Append(a, Head(b)) \o Tail(b) = a \o b
OBVIOUS

(* The plan has variants of the program only, and one in pingpong_bench.   *)
LEMMA PlanType ==
  ASSUME NEW mode, NEW printed, program \in {"counter_bench", "spsc_bench", "pingpong_bench"}
  PROVE  /\ Selected(mode, printed) \in Seq(0 .. 4)
         /\ program = "counter_bench" => Selected(mode, printed) \in Seq(1 .. 4)
         /\ program = "pingpong_bench" => Len(Selected(mode, printed)) = 1
<1> DEFINE Wanted(all) == IF mode = 0 THEN all
                          ELSE IF mode \in 1 .. Len(all) THEN <<mode>> ELSE <<>>
<1>1. Wanted(<<1, 2, 3, 4>>) \in Seq(1 .. 4) /\ Wanted(<<1, 2>>) \in Seq(1 .. 4)
  <2>1. <<1, 2, 3, 4>> \in Seq(1 .. 4) /\ <<1, 2>> \in Seq(1 .. 4) /\ <<>> \in Seq(1 .. 4)
    OBVIOUS
  <2>2. Len(<<1, 2, 3, 4>>) = 4 /\ Len(<<1, 2>>) = 2
    OBVIOUS
  <2>3. \A v \in 1 .. 4 : <<v>> \in Seq(1 .. 4)
    OBVIOUS
  <2>4. mode \in 1 .. 2 => mode \in 1 .. 4
    OBVIOUS
  <2> QED
    BY <2>1, <2>2, <2>3, <2>4
<1>2. Wanted(<<1, 2, 3, 4>>) \in Seq(0 .. 4) /\ Wanted(<<1, 2>>) \in Seq(0 .. 4)
  BY <1>1
<1> HIDE DEF Wanted
<1>3. CASE program = "counter_bench"
  BY <1>1, <1>2, <1>3 DEF Selected, Wanted
<1>4. CASE program = "spsc_bench"
  <2>1. Selected(mode, printed) =
          (IF mode = 0 /\ printed THEN <<0>> ELSE <<>>) \o Wanted(<<1, 2>>)
    BY <1>4 DEF Selected, Wanted
  <2>2. <<0>> \in Seq(0 .. 4) /\ <<>> \in Seq(0 .. 4)
    OBVIOUS
  <2>3. Selected(mode, printed) \in Seq(0 .. 4)
    BY <1>2, <2>1, <2>2, ConcatProperties
  <2> QED
    BY <1>4, <2>3
<1>5. CASE program = "pingpong_bench"
  <2>1. Selected(mode, printed) = IF mode = 2 THEN <<2>> ELSE <<1>>
    BY <1>5 DEF Selected
  <2>2. /\ <<1>> \in Seq(0 .. 4) /\ <<2>> \in Seq(0 .. 4)
        /\ Len(<<1>>) = 1 /\ Len(<<2>>) = 1
    OBVIOUS
  <2> QED
    BY <1>5, <2>1, <2>2
<1> QED
  BY <1>3, <1>4, <1>5

LEMMA BenchInitInv == BenchInit => BenchInv
<1> SUFFICES ASSUME BenchInit
             PROVE  BenchInv
  OBVIOUS
<1>1. CounterType /\ MutexInv /\ LastInv /\ ShardInv /\ JoinInv /\ ReportsTotal
  BY Increments
  DEF BenchInit, Init, NoCounts, FreeMutex, NewWorkers, CounterType, Worker, Phase, MutexInv,
      LastInv, ShardInv, JoinInv, ReportsTotal
<1>2. SharedInv
  BY DEF BenchInit, Init, SharedInv
<1>3. BenchType /\ PlanInv /\ ReportInv
  BY DEF BenchInit, BenchType, PlanInv, ReportInv
<1> QED
  BY <1>1, <1>2, <1>3 DEF BenchInv, CounterInv

LEMMA ParseInv == BenchInv /\ Parse => BenchInv'
<1> SUFFICES ASSUME BenchInv, Parse
             PROVE  BenchInv'
  OBVIOUS
<1>1. CounterInv'
  BY CounterSame DEF BenchInv, Parse
<1>2. /\ status = "parsing" /\ status' = "running" /\ ran = <<>> /\ report = NoReport
      /\ args' = Parsed(argument, Defaults) /\ todo' = Selected(args'.mode, args'.printed)
      /\ UNCHANGED <<program, argument, ran, report>>
  BY DEF Parse, BenchInv, PlanInv, ReportInv
<1>3. /\ todo' \in Seq(0 .. 4)
      /\ program = "counter_bench" => todo' \in Seq(1 .. 4)
  BY <1>2, PlanType DEF BenchInv, BenchType
<1>4. BenchType'
  BY <1>2, <1>3 DEF BenchInv, BenchType
<1>5. Plan' = todo' /\ Defaults' = Defaults
  BY <1>2 DEF Plan, Selected, Defaults
<1>6. PlanInv'
  BY <1>2, <1>3, <1>5 DEF PlanInv
<1>7. ReportInv'
  BY <1>2 DEF ReportInv, NoReport
<1> QED
  BY <1>1, <1>4, <1>6, <1>7 DEF BenchInv

LEMMA RunTestsInv == BenchInv /\ RunTests => BenchInv'
<1> SUFFICES ASSUME BenchInv, RunTests
             PROVE  BenchInv'
  OBVIOUS
<1>1. CounterInv'
  BY CounterSame DEF BenchInv, RunTests
<1>2. /\ status = "running" /\ todo # <<>>
      /\ ran' = Append(ran, Head(todo)) /\ todo' = Tail(todo)
      /\ UNCHANGED <<program, argument, status, args, report>>
  BY DEF RunTests, BenchInv, BenchType
<1>3. /\ ran' \in Seq(0 .. 4) /\ todo' \in Seq(0 .. 4)
      /\ ran' # <<>> /\ ran' \o todo' = ran \o todo
  BY <1>2, MovedAcross DEF BenchInv, BenchType
<1>4. program = "counter_bench" => todo' \in Seq(1 .. 4)
  BY <1>2 DEF BenchInv, BenchType
<1>5. BenchType'
  BY <1>2, <1>3, <1>4 DEF BenchInv, BenchType
<1>6. PlanInv' /\ ReportInv'
  BY <1>2, <1>3 DEF BenchInv, PlanInv, Plan, Selected, Defaults, ReportInv, NoReport
<1> QED
  BY <1>1, <1>5, <1>6 DEF BenchInv

LEMMA FiguresAreShown == Figures # <<>> /\ (program = "pingpong_bench" =>
                           Figures.layout = IF args.mode = 1 THEN 1 ELSE 2)
<1>1. CASE program = "counter_bench"
  BY <1>1 DEF Figures, CounterFigures
<1>2. CASE program = "spsc_bench"
  BY <1>2 DEF Figures, QueueFigures
<1>3. CASE program \notin {"counter_bench", "spsc_bench"}
  BY <1>3 DEF Figures, RoundTripFigures
<1> QED
  BY <1>1, <1>2, <1>3

LEMMA ReportStepInv == BenchInv /\ Report => BenchInv'
<1> SUFFICES ASSUME BenchInv, Report
             PROVE  BenchInv'
  OBVIOUS
<1>1. CounterInv'
  BY CounterSame DEF BenchInv, Report
<1>2. /\ status = "running" /\ todo # <<>>
      /\ ran' = Append(ran, Head(todo)) /\ todo' = Tail(todo)
      /\ UNCHANGED <<program, argument, status, args>>
  BY DEF Report
<1>3. /\ ran' \in Seq(0 .. 4) /\ todo' \in Seq(0 .. 4)
      /\ ran' # <<>> /\ ran' \o todo' = ran \o todo
  BY <1>2, MovedAcross DEF BenchInv, BenchType
<1>4. program = "counter_bench" => todo' \in Seq(1 .. 4)
  BY <1>2 DEF BenchInv, BenchType
<1>5. BenchType'
  BY <1>2, <1>3, <1>4 DEF BenchInv, BenchType
<1>6. PlanInv'
  BY <1>2, <1>3 DEF BenchInv, PlanInv, Plan, Selected, Defaults
<1>7. report'.figures = IF args.printed THEN Figures ELSE <<>>
  BY DEF Report
<1>8. ReportInv'
  BY <1>2, <1>3, <1>7, FiguresAreShown DEF ReportInv
<1> QED
  BY <1>1, <1>5, <1>6, <1>8 DEF BenchInv

(* Steps that leave the plan and the report alone.                         *)
LEMMA MainSame ==
  ASSUME BenchInv, CounterInv',
         UNCHANGED <<program, argument, status, args, todo, ran, report>>
  PROVE  BenchInv'
BY DEF BenchInv, BenchType, PlanInv, Plan, Selected, Defaults, ReportInv, NoReport

LEMMA CallVariantInv == BenchInv /\ CallVariant => BenchInv'
<1> SUFFICES ASSUME BenchInv, CallVariant
             PROVE  BenchInv'
  OBVIOUS
<1>1. Head(todo) \in 1 .. 4
  BY MovedAcross DEF CallVariant, AnotherRun, BenchInv, BenchType
<1>2. CounterInv'
  BY <1>1, StartsInv DEF CallVariant, BenchInv
<1> QED
  BY <1>2, MainSame DEF CallVariant, benchVars

LEMMA BenchNextInv == BenchInv /\ [BenchNext]_allVars => BenchInv'
<1> SUFFICES ASSUME BenchInv, [BenchNext]_allVars
             PROVE  BenchInv'
  OBVIOUS
<1>1. CASE ParseThrows
  BY <1>1, CounterSame
  DEF ParseThrows, BenchInv, BenchType, PlanInv, ReportInv, NoReport
<1>2. CASE Parse
  BY <1>2, ParseInv
<1>3. CASE RunTests
  BY <1>3, RunTestsInv
<1>4. CASE CallVariant
  BY <1>4, CallVariantInv
<1>5. CASE VariantRuns
  BY <1>5, CallInv, MainSame DEF VariantRuns, benchVars, BenchInv
<1>6. CASE MeasureCall
  BY <1>6, MeasureCallInv, MainSame DEF MeasureCall, Measured, BenchInv
<1>7. CASE MeasureQueue
  BY <1>7, CounterSame, MainSame DEF MeasureQueue, Measured, BenchInv
<1>8. CASE MeasureRoundTrips
  BY <1>8, CounterSame, MainSame DEF MeasureRoundTrips, Measured, BenchInv
<1>9. CASE Report
  BY <1>9, ReportStepInv
<1>10. CASE Exit
  BY <1>10, CounterSame
  DEF Exit, BenchInv, BenchType, PlanInv, Plan, Selected, Defaults, ReportInv, NoReport
<1>11. CASE UNCHANGED allVars
  BY <1>11, CounterSame, MainSame DEF allVars, benchVars, BenchInv
<1> QED
  BY <1>1, <1>2, <1>3, <1>4, <1>5, <1>6, <1>7, <1>8, <1>9, <1>10, <1>11 DEF BenchNext, Ended

(* Every state of the three programs satisfies the invariant, whatever     *)
(* argument main is given and however many runs it makes.                  *)
THEOREM Invariance == BenchSpec => []BenchInv
BY BenchInitInv, BenchNextInv, PTL DEF BenchSpec

(* The variant functions return TOTAL_INCREMENTS, in all runs.             *)
THEOREM TotalsAreReported == BenchSpec => []ReportsTotal
<1>1. BenchInv => ReportsTotal
  BY DEF BenchInv, CounterInv
<1> QED
  BY <1>1, Invariance, PTL

(* The plain counter is never raced for.                                   *)
THEOREM NoDataRace == BenchSpec => []DataRaceFree
<1>1. BenchInv => DataRaceFree
  BY DEF BenchInv, CounterInv, MutexInv, DataRaceFree
<1> QED
  BY <1>1, Invariance, PTL

LEMMA Concatenated == <<0>> \o <<1, 2>> = <<0, 1, 2>>
<1>1. /\ <<0>> \in Seq(0 .. 2) /\ <<1, 2>> \in Seq(0 .. 2) /\ <<0, 1, 2>> \in Seq(0 .. 2)
      /\ Len(<<0>>) = 1 /\ Len(<<1, 2>>) = 2 /\ Len(<<0, 1, 2>>) = 3
  OBVIOUS
<1>2. /\ <<0>> \o <<1, 2>> \in Seq(0 .. 2) /\ Len(<<0>> \o <<1, 2>>) = 3
      /\ \A k \in 1 .. 3 :
           (<<0>> \o <<1, 2>>)[k] = IF k <= 1 THEN <<0>>[k] ELSE <<1, 2>>[k - 1]
  BY <1>1, ConcatProperties
<1>3. \A k \in 1 .. 3 : (<<0>> \o <<1, 2>>)[k] = <<0, 1, 2>>[k]
  BY <1>2
<1> QED
  BY <1>1, <1>2, <1>3, SeqEqual

(* The plan is what the usage comments say of the argument.                *)
LEMMA PlanIsDocumented ==
  ASSUME BenchInv, Documented, args = Parsed(argument, Defaults)
  PROVE  Plan = IF argument # NoArgument THEN <<argument.number>>
                ELSE CASE program = "counter_bench" -> <<1, 2, 3, 4>>
                       [] program = "spsc_bench" -> <<0, 1, 2>>
                       [] OTHER -> <<1>>
<1>1. CASE argument # NoArgument
  <2>1. /\ args.mode = argument.number
        /\ argument.number \in 1 .. (IF program = "counter_bench" THEN 4 ELSE 2)
    BY <1>1 DEF Parsed, Documented
  <2>2. CASE program = "counter_bench"
    <3>1. Len(<<1, 2, 3, 4>>) = 4
      OBVIOUS
    <3>2. args.mode # 0 /\ args.mode \in 1 .. Len(<<1, 2, 3, 4>>)
      BY <2>1, <2>2, <3>1
    <3>3. Plan = <<args.mode>>
      BY <2>2, <3>2 DEF Plan, Selected
    <3> QED
      BY <1>1, <2>1, <3>3
  <2>3. CASE program = "spsc_bench"
    <3>1. Len(<<1, 2>>) = 2 /\ <<>> \o <<argument.number>> = <<argument.number>>
      BY <2>1, <2>3
    <3>2. args.mode # 0 /\ args.mode \in 1 .. Len(<<1, 2>>)
      BY <2>1, <2>3, <3>1
    <3>3. Plan = <<>> \o <<args.mode>>
      BY <2>3, <3>2 DEF Plan, Selected
    <3> QED
      BY <1>1, <2>1, <3>1, <3>3
  <2>4. CASE program = "pingpong_bench"
    BY <1>1, <2>1, <2>4 DEF Plan, Selected
  <2> QED
    BY <2>2, <2>3, <2>4 DEF BenchInv, BenchType
<1>2. CASE argument = NoArgument
  <2>1. args = Defaults
    BY <1>2 DEF Parsed
  <2>2. CASE program = "counter_bench"
    BY <1>2, <2>1, <2>2 DEF Defaults, Plan, Selected
  <2>3. CASE program = "spsc_bench"
    BY <1>2, <2>1, <2>3, Concatenated DEF Defaults, Plan, Selected
  <2>4. CASE program = "pingpong_bench"
    BY <1>2, <2>1, <2>4 DEF Defaults, Plan, Selected
  <2> QED
    BY <2>2, <2>3, <2>4 DEF BenchInv, BenchType
<1> QED
  BY <1>1, <1>2

LEMMA InvUsage == BenchInv => UsageHolds
<1> SUFFICES ASSUME BenchInv, Documented
             PROVE  UsageHolds
  BY DEF UsageHolds
<1>1. ASSUME status = "exited"
      PROVE  ran = IF argument # NoArgument THEN <<argument.number>>
                   ELSE CASE program = "counter_bench" -> <<1, 2, 3, 4>>
                          [] program = "spsc_bench" -> <<0, 1, 2>>
                          [] OTHER -> <<1>>
  <2>1. args = Parsed(argument, Defaults) /\ ran \o <<>> = Plan
    BY <1>1 DEF BenchInv, PlanInv
  <2>2. ran = Plan
    BY <2>1, ConcatEmptySeq DEF BenchInv, BenchType
  <2> QED
    BY <2>1, <2>2, PlanIsDocumented
<1>2. ASSUME report # NoReport
      PROVE  (report.figures # <<>>) = (argument = NoArgument \/ argument.suffix)
  <2>1. /\ args = Parsed(argument, Defaults)
        /\ args.printed => report.figures # <<>>
        /\ ~args.printed => report.figures = <<>>
    BY <1>2 DEF BenchInv, PlanInv, ReportInv
  <2>2. CASE argument = NoArgument
    BY <2>1, <2>2 DEF Parsed, Defaults
  <2>3. CASE argument # NoArgument
    <3>1. argument.suffix \in BOOLEAN /\ args.printed = argument.suffix
      BY <2>1, <2>3, BenchAssumption DEF Parsed, BenchInv, BenchType
    <3> QED
      BY <2>1, <2>3, <3>1
  <2> QED
    BY <2>2, <2>3
<1>3. ASSUME program = "pingpong_bench", report.figures # <<>>
      PROVE  <<report.figures.layout>> = ran
  <2>1. report # NoReport
    BY <1>3 DEF NoReport
  <2>2. /\ args = Parsed(argument, Defaults) /\ ran \o todo = Plan /\ ran # <<>>
        /\ report.figures.layout = IF args.mode = 1 THEN 1 ELSE 2
    BY <1>3, <2>1 DEF BenchInv, PlanInv, ReportInv
  <2>3. Len(Plan) = 1
    BY <1>3, PlanType DEF Plan
  <2>4. ran = Plan
    <3>1. Len(ran) + Len(todo) = 1 /\ Len(ran) \in Nat \ {0} /\ Len(todo) \in Nat
      BY <2>2, <2>3, ConcatProperties, EmptySeq DEF BenchInv, BenchType
    <3>2. todo = <<>>
      BY <3>1 DEF BenchInv, BenchType
    <3> QED
      BY <2>2, <3>2, ConcatEmptySeq DEF BenchInv, BenchType
  <2>5. args.mode \in 1 .. 2
    BY <1>3, <2>2 DEF Parsed, Defaults, Documented
  <2>6. Plan = IF args.mode = 2 THEN <<2>> ELSE <<1>>
    BY <1>3 DEF Plan, Selected
  <2> QED
    BY <2>2, <2>4, <2>5, <2>6
<1> QED
  BY <1>1, <1>2, <1>3 DEF UsageHolds

(* A documented argument runs the variants the usage comments say, in      *)
(* order, and shows the figures they say under the layout they say.        *)
THEOREM UsageIsFollowed == BenchSpec => []UsageHolds
BY InvUsage, Invariance, PTL
=============================================================================
