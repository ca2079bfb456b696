---------------------------- MODULE CounterBench ----------------------------
(***************************************************************************)
(* bench/counter_bench.cpp: the four ways of counting to Total with a pool *)
(* of threads.  Module BenchMain calls them one after the other:           *)
(*   1  a plain counter under a std::mutex                                 *)
(*   2  one atomic, relaxed fetch_add by all threads                       *)
(*   3, 4  one atomic per thread; the layouts differ in addresses only.    *)
(*                                                                         *)
(* A relaxed load by main may be stale: it returns some value the atomic   *)
(* has had since the last increment by a thread main has joined.  In the   *)
(* plain counter, `accesses` and `known` count accesses as in CasSpinlock. *)
(*                                                                         *)
(* (Faulty... : coding errors, see module SpscQueue.)                      *)
(***************************************************************************)
EXTENDS Naturals, FiniteSets, FiniteSetsExt, MemoryOrder

CONSTANTS
  Threads,  \* NUM_THREADS
  Total     \* TOTAL_INCREMENTS

ASSUME CounterAssumption ==
  Threads \in Nat \ {0} /\ Total \in Nat /\ Total % Threads = 0

VARIABLES
  variant,
  counter,  \* counter[k]: the plain counter (k = 0), or the k-th atomic
  mutex,    \* who holds it, and the accesses its last unlock released
  accesses, \* accesses to the plain counter
  worker,   \* each thread's locals
  main      \* the variant function: threads joined, the sum, what it returns

vars == <<variant, counter, mutex, accesses, worker, main>>

Thread == 0 .. Threads - 1
Nobody == Threads

IncrementCount == Total \div Threads

NoCounts == [k \in Thread |-> 0]
FreeMutex == [holder |-> Nobody, accesses |-> 0]
NewWorkers ==
  [t \in Thread |-> [pc |-> "loop", n |-> 0, loaded |-> 0, known |-> 0, last |-> 0]]

Init ==
  /\ variant = 0
  /\ counter = NoCounts /\ mutex = FreeMutex /\ accesses = 0
  /\ worker = NewWorkers
  /\ main = [joined |-> 0, sum |-> 0, pc |-> "idle"]

(* The function of variant v is called: all its state is local.            *)
Starts(v) ==
  /\ main.pc = "idle"
  /\ variant' = v
  /\ counter' = NoCounts /\ mutex' = FreeMutex /\ accesses' = 0
  /\ worker' = NewWorkers
  /\ main' = [joined |-> 0, sum |-> 0, pc |-> "join"]

(* The counter a thread is given.                                          *)
Shard(t) == IF variant \in {3, 4} THEN t ELSE 0

-----------------------------------------------------------------------------
(* increment_counter_mutex.                                                *)

FaultyMayLock == TRUE
MayLock == mutex.holder = Nobody

Lock(t) ==
  /\ variant = 1
  /\ worker[t].pc = "loop" /\ worker[t].n < IncrementCount
  /\ MayLock
  /\ mutex' = [mutex EXCEPT !.holder = t]
  /\ worker' = [worker EXCEPT ![t].pc = "load",
                              ![t].known = Acquired("acquire", @, mutex.accesses)]
  /\ UNCHANGED <<variant, counter, accesses, main>>

Load(t) ==
  /\ worker[t].pc = "load"
  /\ accesses' = accesses + 1
  /\ worker' = [worker EXCEPT ![t].pc = "store", ![t].loaded = counter[0],
                              ![t].known = accesses + 1]
  /\ UNCHANGED <<variant, counter, mutex, main>>

Store(t) ==
  /\ worker[t].pc = "store"
  /\ counter' = [counter EXCEPT ![0] = worker[t].loaded + 1]
  /\ accesses' = accesses + 1
  /\ worker' = [worker EXCEPT ![t].pc = "unlock", ![t].known = accesses + 1]
  /\ UNCHANGED <<variant, mutex, main>>

(* The guard's destructor.                                                 *)
Unlock(t) ==
  /\ worker[t].pc = "unlock"
  /\ mutex' = [holder |-> Nobody, accesses |-> Released("release", worker[t].known)]
  /\ worker' = [worker EXCEPT ![t].pc = "loop", ![t].n = @ + 1]
  /\ UNCHANGED <<variant, counter, accesses, main>>

(* increment_counter_atomic.                                               *)
FetchAdd(t) ==
  /\ variant # 1
  /\ worker[t].n < IncrementCount
  /\ counter' = [counter EXCEPT ![Shard(t)] = @ + 1]
  /\ worker' = [worker EXCEPT ![t].n = @ + 1, ![t].last = counter[Shard(t)] + 1]
  /\ UNCHANGED <<variant, mutex, accesses, main>>

-----------------------------------------------------------------------------
(* The variant function, on the main thread.                               *)

Finished(t) == worker[t].pc = "loop" /\ worker[t].n = IncrementCount

(* What a load of counter k may return to main.                            *)
Loaded(k, joined) ==
  LET known == {worker[t].last : t \in {u \in Thread : u < joined /\ Shard(u) = k}}
  IN (IF known = {} THEN 0 ELSE Max(known)) .. counter[k]

(* A shard is added as soon as its own thread is joined.                   *)
FaultyJoinedBeforeLoad == main.joined
JoinedBeforeLoad == main.joined + 1

Join ==
  /\ main.pc = "join" /\ main.joined < Threads
  /\ Finished(main.joined)
  /\ \E value \in IF variant \in {3, 4} THEN Loaded(main.joined, JoinedBeforeLoad) ELSE {0} :
       main' = [main EXCEPT !.joined = @ + 1, !.sum = @ + value]
  /\ UNCHANGED <<variant, counter, mutex, accesses, worker>>

Return ==
  /\ main.pc = "join" /\ main.joined = Threads
  /\ \E value \in CASE variant = 1 -> {counter[0]}
                    [] variant = 2 -> Loaded(0, main.joined)
                    [] OTHER -> {main.sum} :
       main' = [main EXCEPT !.pc = "returned", !.sum = value]
  /\ UNCHANGED <<variant, counter, mutex, accesses, worker>>

ThreadStep(t) == Lock(t) \/ Load(t) \/ Store(t) \/ Unlock(t) \/ FetchAdd(t)

Next == main.pc = "join" /\ ((\E t \in Thread : ThreadStep(t)) \/ Join \/ Return)

-----------------------------------------------------------------------------
(* Line 43: the value run_and_report compares with TOTAL_INCREMENTS is     *)
(* TOTAL_INCREMENTS, in every variant, although the atomics are relaxed    *)
(* and the shards are added one by one while other threads still count.    *)
ReportsTotal == main.pc = "returned" => main.sum = Total

(* The plain counter of variant 1 is only accessed by a thread that knows  *)
(* all accesses before.                                                    *)
DataRaceFree ==
  \A t \in Thread : worker[t].pc \in {"load", "store"} => worker[t].known = accesses
=============================================================================
