# A verification development of MarketDataPipeline

TLA+ modules of the repository's concurrent components, TLC configurations that
check them on small instances, and TLAPS proofs for every value of the
constants. Paths below are relative to the repository root (`src/` here).

Contents: [the system](#the-system) ·
[modules](#modules-and-what-they-model) ·
[memory model](#how-the-c-memory-model-appears) ·
[runs](#runs) · [fairness](#fairness) · [proofs](#proofs) ·
[findings](#findings) · [what is left out](#what-is-left-out) ·
[plan](#plan)

## The system

The repository is the groundwork of a market-data pipeline: one finished
component, a lock-free single-producer single-consumer queue, and around it the
benchmarks and experiments that test it and the primitives it uses. The feed
handler, order book and pipeline it is meant to serve are not written yet.

| Component | Source | State | Operations |
|---|---|---|---|
| SPSC queue | `spsc/SpscQueue.h` | ring `buf_`, free-running atomics `head_`, `tail_`, each side's private copy `head_cache_`, `tail_cache_` of the other's index | `try_push`, `try_pop`, `size`, `empty`, the constructor's `static_assert` |
| queue tests and throughput benchmark | `bench/spsc_bench.cpp` | two threads' loop counters over one queue; the best run so far | `test_concurrency`, `size_test`, `run_benchmark`, `main` |
| head-to-head benchmark | `bench/spsc_head_to_head.cpp` | two queues of one of five targets, two threads, per-case loop counters, the samples | three test cases: stream, echo, bursts; a wrapper around each target's queue |
| ping-pong benchmark | `bench/pingpong_bench.cpp` | an atomic flag, a plain counter, samples | `sender_thread`, `receiver_thread`, `main` |
| counter benchmark | `bench/counter_bench.cpp` | a plain counter with a mutex, or one or several atomics | four variants, join and sum; `run_and_report`, `main` |
| CAS spinlock | `experiments/cas_spinlock.cpp` | an atomic flag, a plain counter, per-thread results | lock, unlock, `increment_counter`, `main`'s join and merge |
| ABA demonstration | `experiments/broken_aba.cpp` | an atomic head pointer, three nodes with plain `next` | `push`, `pop_normal`, `pop_vulnerable` |
| owning pointers | `experiments/unique_ptr.cpp`, `experiments/move_semantics.cpp` | heap blocks and the objects that own them | construction, destruction, copy, move, release, reset |
| head-to-head driver | `scripts/spsc_queue_head_to_head/spsc_head_to_head.sh` | a raw CSV file, a CSV of medians | the measuring loop, `emit_csv_rows`, `compute_medians` |
| helpers | `bench/bench_utils.h` | none | affinity, time stamps, argument parsing |
| plots, notes, MPMC design note, CI, stubs | `scripts/…/plot_results.py`, `notes/`, `feed/`, `lob/`, `pipeline/` | none | none that keep state |

**How they interact.** Two threads share a queue through four memory locations
only: each owns one index, and reads the other's when its private copy says the
queue is full (or empty). The benchmark loops turn the queue's `false` into a
retry. The head-to-head echo case composes two queues in opposite directions
between the same two threads. The driver script runs the head-to-head binary
many times and folds what the runs print. The experiments are stand-alone
programs; they repeat, in small, the idioms the queue relies on.

**What is hard.** Nearly all of it is interleaving under a weak memory model:
loads may be stale, a plain slot (or counter) is protected by nothing but one
release store and one acquire load, and x86 hides the missing ones from every
test. The indices are unsigned and overflow after 2^64 operations, which no test
reaches. Waiting is by spinning, so a lost message is a silent hang. Three places
meet failure: an allocation that throws in a copy assignment, a
measurement that fails in the driver, and a counter that perf does not have.
The benchmarks' mains are sequential, but what they print is kept from many
runs, and nothing tests that it belongs together. Nothing is persisted and there is no
network: crashes, restarts and lost messages do not occur. `PROJECT.json` lists each
hazard at its line, with the properties that watch it.

**What makes each component correct.**

- *Queue*: items come out once each and in order; no slot is read while written;
  a call is refused only by a full (empty) queue; this holds across index wrap;
  stale copies err on the safe side only; a thread that retries gets through.
- *Head-to-head*: no cross-queue deadlock; each echo answers its own request;
  batches stay aligned.
- *Ping-pong, spinlock, counter*: the plain counter is never raced for, no
  increment is missed or doubled, everybody terminates.
- *Mains*: the variants an argument selects are the documented ones, and each figure
  printed is of the runs it is said to be of; a report is made when every sample is in.
- *ABA demonstration*: it is *meant* to go wrong, in one announced way and no
  other; the pops that are not meant to go wrong do not, and the retries end.
- *Owning pointers*: a block has exactly one owner, or is freed.
- *Driver*: a row of the result is the median of what was measured.

## Modules and what they model

```
MemoryOrder ──┬── SpscQueue ── SpscProgress ── QueueProofs
              │      ├── SpscTransfer (+ SpscProgress) ── SpscSize ── SpscTransferProofs
              │      └── HeadToHead (two INSTANCEs of SpscQueue and of SpscProgress, and of
              │             │        LibraryQueue and LibraryProgress) ── HeadToHeadProofs
              │             └── LibraryQueue ── LibraryProgress ── QueueProofs
              ├── PingPong ── PingPongProofs
              ├── CasSpinlock ── CasSpinlockMain (+ Percentiles) ── CasSpinlockProofs
              ├── CounterBench ── BenchMain (+ BenchUtils, Percentiles) ──┬── MC_BenchMain
              │                                                           └── BenchMainProofs
              └── LockFreeStack ── LockFreeStackProofs
abstract:  BoundedFifo  (implemented by SpscTransfer, assumed by LibraryQueue)
           RoundTrips   (implemented by PingPong, and by HeadToHead test case 2)
alone:     SpscSequential, HeapOwnership ── HeapOwnershipProofs, MedianCsv ── MC_MedianCsv
```

| Module | Models | State and actions against the code |
|---|---|---|
| `MemoryOrder` | what C++ memory orders carry | see the next section |
| `SpscQueue` | `try_push`, `try_pop` | `queue` = `buf_`, `head_`, `tail_`; `producer`/`consumer` = the locals of the call under way, the cached index and the thread's clock. `PushCall` loads `tail_`, which only this thread writes, and decides on `head_cache_` (lines 33, 34); the reload of line 36 is `PushReload` when it finds room and `PushFull` when it does not and the call returns false; `PushWrite` is line 41, `PushPublish` lines 42 and 43. `PopCall`, `PopReload`, `PopEmpty`, `PopRead`, `PopPublish` are `try_pop` in the same way |
| `SpscTransfer` | `test_concurrency`, the benchmark loops, head-to-head case 1 | `p_expected`, `c_expected` are the loops' counters; a call begins, steps and returns, and a refused call is made again |
| `SpscSize` | `size()` during a transfer | both owners call it between their own calls; a third thread makes its two loads one by one, in either order. `empty()` has no action: it is `size() == 0` of the same two loads |
| `SpscSequential` | single-threaded use, `size_test`, the `static_assert` | one step per call; indices are `Width`-bit words, the mask is the bitwise `&` of the code, and the run explores *every* `Capacity` the assertion admits |
| `HeadToHead` | the three test cases, for the five targets | for "mine", `Q0`, `Q1` are instances of `SpscQueue`, for the others `L0`, `L1` of `LibraryQueue`; `first`, `second` are the threads called producer and consumer |
| `LibraryQueue` | the wrappers of lines 36 to 74 | the library's queue is a `BoundedFifo`; rigtorp's and folly's `try_pop` is `FrontPtr`, `CopyOut`, `PopFront`, moodycamel's and boost's is `Dequeue`, `Return` |
| `SpscProgress`, `LibraryProgress` | what stays true of one queue, used by anybody | no code of their own: `pushed` and `popped` count the calls that returned true, `items` says what is pushed; `Inv` relates them to the queue and the locals of the calls under way |
| `PingPong` | `pingpong_bench.cpp` | one action per load, store or access to the counter; `flag` is a modification order |
| `CasSpinlock` | `cas_spinlock.cpp` | one action per lock attempt, check, load and store of the counter, and unlock of either exit; the sample is pushed by an action of its own (`PushSample`), after the unlock |
| `CasSpinlockMain` | `main` of `cas_spinlock.cpp` | joins the threads of `CasSpinlock`, merges their samples, reads percentiles, returns |
| `CounterBench` | the variants of `counter_bench.cpp` | `Starts(v)` is the call of one of the four functions; `worker` are its pool, `main` joins and sums |
| `BenchMain` | `main` of `counter_bench.cpp`, `spsc_bench.cpp`, `pingpong_bench.cpp` | parses an argument, selects the variants (`todo`), runs each several times, keeps what the code keeps (`best`), prints (`report`). A run of `counter_bench` is all of `CounterBench`; one of the other two is a step that leaves what their threads leave |
| `BenchUtils`, `Percentiles` | `parse_bench_args`; the `percentile` each program has a copy of | operators |
| `LockFreeStack` | `broken_aba.cpp` | `t1` runs `pop_vulnerable`, `t2` its two pops and push; one action per load, `next` access and exchange |
| `HeapOwnership` | `unique_ptr.cpp`, `move_semantics.cpp` | one action per member function and per access to an array, called in any order; an allocation may throw, and the variable it leaves is used and destroyed like any other. Undefined behaviour is recorded in `fault` and ends the run |
| `MedianCsv` | `spsc_head_to_head.sh` | `raw` is `RAW_CSV`, `csv` is `CSV_OUT`; a measurement appends its counters and what is derived of them, or fails and ends the loop, or ends it half way through its rows |
| `BoundedFifo` | abstract: a bounded queue | push and pop of one sequence |
| `RoundTrips` | abstract: a ball game | serve, return, catch; a count of trips |

`PROJECT.json` maps each definition to its lines. Operators called `Faulty…` are
coding errors (a relaxed order, an off-by-one, a missing reset). Nothing uses
them: substituted for the definition that follows, each makes a property of a
run fail, which is how we know that the properties depend on the code.

## How the C++ memory model appears

An atomic is its *modification order*, a sequence of messages. A load returns
any message that is not older than the last one the thread has seen (coherence),
so staleness is a free choice of the model, not a delay. Plain memory carries
*stamps*: a thread counts its own accesses, a release store publishes the count,
an acquire load that reads it adopts it, and an access is race-free when the
other side's last conflicting access is within the adopted count. With two
threads, or with accesses totally ordered by a lock, that count is exactly the
happens-before relation. `DataRaceFree` therefore states what the C++ standard
demands, and a `relaxed` where the code says `acquire` or `release` breaks it.

What this leaves out. A relaxed load may in the model be stale even where
another, unrelated, synchronisation would forbid it: in `HeadToHead` the two
queues keep separate clocks, so a thread may load one queue staler than what it
learnt through the other allows. That only adds behaviours, so what holds here
holds of the program. No out-of-thin-air or load-buffering outcomes are
modelled: every program here has at most one relaxed atomic per decision, and
none depends on a relaxed load of a value not yet written. Sleeps in
`broken_aba.cpp` order nothing.

## Runs

| Run | Instance | Shows |
|---|---|---|
| `spsc_transfer` | 4 slots, 3-bit indices, 18 items | `InOrder`: every item arrives once, in order. `DataRaceFree`: no slot is accessed by both sides unordered. `StaleCacheIsSafe`: what each side believes errs towards refusing. `AllTransferred`: both threads finish. `ImplementsFifo`: the ring implements `BoundedFifo`, its progress included. `Inv` is the inductive invariant of the proofs |
| `spsc_sequential` | 3-bit indices, two items | for each capacity 0, 1, 2, 4: `size()` is exact across every wrap, each stored item is in a slot of its own, and calls are refused exactly when they should be |
| `spsc_size_owners` | 2 slots, 2-bit indices, 5 items | on its owners' threads `size()` is in range (`OwnersSizeInRange`) and room it reports stays until used (`RoomIsKept`) |
| `spsc_size_observer` | 2 slots, 3-bit indices, 4 items | **violation**: on a third thread `size()` can be out of range |
| `cas_spinlock` | 3 threads, 4 trips | mutual exclusion, race freedom of the counter, each thread leaves by the exit its state calls for (`ExitIsExact`), the per-thread results add up to the counter (`TripsAddUp`), everybody joins; `ReportIsComplete`: main's report counts every trip, although a sample is pushed when the lock is free again (while it is pending, the counter may be complete, the lock free and the sample missing), and its percentiles read within the samples |
| `pingpong` | 30 rounds | the receiver never misses an increment, no race, and the benchmark implements `RoundTrips` |
| `head_to_head` | 5 targets, 2 slots, 2-bit indices, 8 items / 4×2 | `ItemsMatch`: every pop returns the item its loop is at, echoes included. `DataRaceFree`: no slot of either queue is raced for. `AllJoin`: all three cases terminate with the right number of samples. `PlaysRoundTrips`: case 2 implements `RoundTrips`. `Inv` is the inductive invariant of the proofs |
| `lock_free_stack` | the program's three nodes | no null is followed, popped nodes stay out of the stack except by the announced ABA, ABA's outcome is the one the program prints, and both threads end (`AllReturn`) |
| `heap_ownership` | 4 blocks, 2 + 2 variables, sizes 0 and 2 | `OwnersPartitionHeap`: no leak in any order of calls, throwing allocations included, and until a copy assignment has thrown exactly one owner for each block. `FaultNeedsThrow`: nothing but such a throw leads to a double delete or to an access outside an array |
| `heap_ownership_throws` | the same, size 2 | **violation**: after a copy assignment that throws, the destructor deletes the array a second time |
| `bench_mains` | 3 threads, 6 increments, 4 variants; 2 runs, 4 items, 3 durations; 10 arguments | `ReportsTotal`, `DataRaceFree`: every run of every counter variant returns the exact total although the atomics are relaxed, and the mutex orders the plain counter. `FiguresAreOfBestRun`: the fastest time, throughput and percentiles printed are those of one and the same run of this variant, and `counter_bench`'s average is over all its runs. `UsageHolds`: an argument runs and prints what the usage comments say |
| `median_csv` | test cases 1 and 3, 3 and 2 repeats, 3 cycle counts, missing counters | each row is the median of what was measured, whether or not a failure ended the loop |

**Why the bounds are enough.**

- *Queue.* The behaviour depends on the distance of the indices and on how stale
  the caches are, and both are bounded by `Capacity`. Eighteen items over four slots
  and eight index values wrap the slots four times and the indices twice, so each
  combination of distance, staleness and position relative to the wrap occurs;
  the proofs then cover every `Capacity`, `IndexMod` and `N`. `IndexMod` must hold
  at least two laps (`CapacityAssumption`): a 64-bit `size_t` and any capacity
  that fits in memory satisfies it. `SpscSequential` has a closed state space:
  its only bound is the word width.
- *`HeadToHead`.* Eight items over two slots fill, empty and wrap each queue.
- *`BenchMain`.* Two runs are enough for a better, a worse and an equal second one; durations
  2 and 3 give the same truncated throughput. Four items give three differences, and
  positions of the median and of p99 that differ. The arguments are each kind there is: a
  variant, all, one that does not exist, no number; with and without the suffix; none.
- *`CasSpinlock`, `CounterBench`.* Three threads is the first number where two
  contend while a third is elsewhere; four trips leave some threads stopped early
  and let one make every trip.
- *`LockFreeStack`* is the program itself, not an instance of it.
- *`HeapOwnership`.* Ownership moves between at most two variables in a call; four
  blocks run out and are reused, so a dangling address meets the block's next owner too. Sizes
  0 and 2 differ in whether an access is possible.
- *`MedianCsv`.* Three repeats and two, interrupted anywhere, give odd and even counts; three
  cycle counts tie, precede and follow each other, and so do the derived rows. Each target
  and queue size repeats the same loop body, so one of each is enough.

## Fairness

- `SpscTransfer`, `HeadToHead`, `PingPong`: weak fairness of each thread (the
  operating system schedules both), and strong fairness of a load that returns the
  *latest* message. The second is C++'s [intro.progress] that a store becomes visible
  in a finite time: a thread that loads again and again does not read an old value
  for ever. Nothing more is assumed; in particular not that a push ever finds room.
- `CasSpinlock`: weak fairness of each thread that is not trying to lock (the push of its
  sample included), and of *some*
  thread's successful exchange: a weak compare-and-swap may fail spuriously, but not
  for ever for everybody. No thread is promised the lock, so the run shows that all
  join without assuming a fair lock.
- `BoundedFifo`, `RoundTrips`: weak fairness of `Pop`, and of the next step of the
  game. That the implementations meet it is part of `ImplementsFifo` and
  `PlaysRoundTrips`.
- `LockFreeStack`: weak fairness of both threads; strong fairness of a failing exchange that
  sees the latest head, and of an exchange that finds what it expects (a weak one may
  fail spuriously, but not for ever). That the retry then expects the right value is the code's
  part, and what `AllReturn` checks.
- The remaining modules assume none and claim no liveness. The state graph of `BenchMain`
  has no cycle but its final states' self-loops, so with the deadlock check every behaviour that
  does not stop ends in `Ended`.

Deadlock is checked in all runs: a module that terminates has a `Joined` (or
`Written`) step, enabled only when the program has really ended.

## Proofs

TLAPS checks the following for every value of the constants that the assumptions
admit. The assumptions say what the code's constants and types say:
`CapacityAssumption` (two laps fit in the index), `TransferAssumption`, `HeadToHeadAssumption`
(counts are naturals, a batch is not empty, an indeterminate value is no integer),
`SpinlockAssumption`, `RoundsAssumption` (counts are naturals, the pool is
finite), `CounterAssumption` (the threads share the increments evenly, as 4 share 10000000),
`BenchAssumption`, `HeapAssumption` (`Null` is no block and no number) and
`StackAssumption` (three nodes and `nullptr` are four addresses).

| Theorem | Says |
|---|---|
| `SpscTransferProofs!Invariance` | `Inv` is an invariant of the transfer |
| `…!TypeCorrect`, `ItemsInOrder`, `NoDataRace`, `StaleCacheErrsSafe` | the run's safety properties, from `Inv` |
| `…!RingImplementsFifo` | each step of the transfer is a step of `BoundedFifo` or a stutter |
| `…!SizeInvariance`, `SizeDisturbsNothing` | all of that still holds while three threads call `size()` |
| `…!OwnersAreToldTheirSide`, `RoomIsKeptForTheOwner` | what `size()` is good for on the two threads that own an index |
| `HeadToHeadProofs!Invariance`, `EveryPopMatches`, `NoDataRace` | the three test cases' safety properties, for the five targets and any counts |
| `…!EveryBatchIsTimed` | when test case 3 ends, each batch has been timed once |
| `…!MessagePlaysRoundTrips` | each step of test case 2 is a step of `RoundTrips` or a stutter, for every target |
| `CasSpinlockProofs!Invariance`, `TypeCorrect`, `LockExcludes`, `NoDataRace`, `CounterComplete` | the spinlock's safety properties, for any finite set of threads |
| `…!MainRunsThePool`, `MainReadsWhatIsFinal` | the program with its `main` implements the pool, so the theorems above hold of it; and what `main` merges, prints and returns no longer changes |
| `PingPongProofs!Invariance`, `NoDataRace`, `NoIncrementMissed` | the ping-pong's safety properties, for any number of rounds |
| `…!FlagImplementsRoundTrips` | each step of the benchmark is a step of `RoundTrips` or a stutter |
| `HeapOwnershipProofs!Invariance`, `BlocksHaveOneOwner`, `OnlyThrowsDoHarm` | the two properties of the owning pointers' run, for any variables, blocks and sizes, allocations that throw and what follows them included |
| `BenchMainProofs!Invariance`, `TotalsAreReported`, `NoDataRace` | the counters' properties, for any threads, increments and runs, in all variants |
| `…!UsageIsFollowed` | the usage comments, for any set of arguments |
| `LockFreeStackProofs!Invariance`, `NoNullFollowed`, `DamageIsAsAnnounced`, `PoppedNodesStayOut` | the three safety properties of the stack |

Each inductive invariant was checked with TLC on the constants of its component's run
before it was proved; that of the queue, the head-to-head, the spinlock and the ping-pong is a property of the run.

**The queue.** `InOrder` and `DataRaceFree` are not inductive: they say nothing of
what stands in the slots, or of what a stale load may return. What is missing is true
of a queue whoever uses it, so `SpscProgress` states it for any counts `pushed` and
`popped` of completed calls and any sequence `items` of what is pushed; `SpscTransfer`
takes its loop counters and the identity for them. Its `Inv` adds

- `LogsInv`: the k-th message of each index is k - 1 wrapped, and carries the release of
  exactly the accesses made before it;
- `ProducerInv`, `ConsumerInv`: at each point of a call, where the locals, the
  cache, the position last seen and the clock stand relative to the counters;
- `SlotsInv`: the slot of each item still in the queue holds it, with the stamp of its write,
  and each slot carries the stamp of its last read.

They meet in one chain of inequalities over unwrapped counters,

    reads_known <= popped <= writes_known <= pushed <= reads_known + Capacity

where `reads_known` is what the producer knows of the consumer's reads and its cache
counts, and `writes_known` what the consumer knows of the producer's writes,
from which a push overwrites only what is known to be read, and a pop reads only
what is known to be written. The first lemmas of `QueueProofs` carry the chain over to the
wrapped indices: equality and difference of two of them are those of the counters because
two laps fit in `IndexMod`, and two counters less than a lap apart share no slot.
The others show for each step of `try_push` and `try_pop` that it keeps the invariant when
its user counts the step that returns true and no other, and that the item a pop returns is
`items[popped]`. The proofs about a program are then about its loops.

**`size()`.** A thread that calls `size()` sees a later value of the other's index
than the one it caches, and knows no more accesses for it, since the load is relaxed.
`Inv` therefore ties the cache to `reads_known` and only bounds it by the position
last seen, so that it is an invariant with and without the calls. `SizeInv`
adds one fact for each owner: what it was told is at least (the producer), or at
most (the consumer), what the position it has seen since amounts to. Because
positions seen never go back, the answer errs on one side of the truth from then
on, and a reload at least as new cannot find the queue full (or empty).

**The head-to-head.** The calls that have returned are functions of the loops' counters:
`PushCount0` to `PopCount1`, in test case 3 `b * BatchSize + i`, where a queue carries
`k % BatchSize` as its k-th item. `QueuesInv` is the invariant of `SpscProgress` (of
`LibraryProgress`, for a library's queue) for both queues with those counts; `LoopsInv`
keeps the counters within a batch and ties the samples to the batches popped; `CallsInv`
says that a thread that is not popping a queue has no call in progress on it, and that what
`consumer_resp` sends back is the request it popped. The echo of test case 2 is the step
where both queues meet: an item popped from `q0` and pushed into `q1` must be the one
`q1`'s count calls for, and is, because `second.i` counts both. A queue counts as holding
the message exactly when its counts differ (`Held0`, `Held1`), so the two loops' counters and
places alone tell where it is (`Turns`), and each step that changes them is one move
of the game.

**The spinlock.** `LockInv` (the flag is up exactly while one thread is critical),
`KnownInv` (the holder, or else the last release, knows every access) and `CountInv`
(the holder's loaded value is the counter).

**The ping-pong.** One of three phases holds: `SendersTurn`, `RequestUp`,
`ResponseDown`; each fixes both threads' positions, the count of accesses and what
the flag's last message carries, whatever older message a spinning load may
return.

**Its `main`.** Every step of `MainSpec` is a step of `Spec` or leaves the pool's
variables alone. What `main` has joined is done, a done thread takes no step, and
`main` merges when it has joined all: so it reads nothing that can still change.

**The owning pointers.** `OwnersPartitionHeap` counts the owners of each block, and a
count is not inductive by itself. `Inv` says the same without counting. What exists is
owned (`NothingLeaks`), always: a copy assignment that throws has deleted what its variable
owned. Until one throws, `Sound` holds: what is owned exists (`NothingDangles`), two owners of
one block are one owner (`NothingShared`), a Buffer's size is the length of its array, and
there has been no fault, because a deletion of a block that exists is none, nor is an
access below the length. The count of one follows, for the owners of a block are a
singleton or none. After a throw the proofs claim `NothingLeaks` and no more:
`heap_ownership_throws` shows that the rest fails.

**The counters.** That the total is exact would be a sum over the threads, which needs
an induction; instead `Counted` is the *set* of the increments made, one pair
for each thread and number, and the common counter is its cardinality. Each increment
adds one element, and when all threads are finished the set is a product, of
`Threads * IncrementCount` elements. `MutexInv` is the spinlock's argument with
a mutex in place of the flag; `LastInv` says that the greatest value a `fetch_add` returned is
the counter; `JoinInv` that a sharded sum is one share for each thread joined.

**The mains.** `PlanInv`: the variants run so far and those to come are
the plan, which the argument fixed at the start. `UsageHolds` follows by cases
on the argument, from the plan when nothing is left to run.

**The stack.** Until `t2` pushes A back, `PopsInv` holds: `head` has gone down the list
A, B, C one node for each pop of either thread, so a loaded position says which node was seen,
and an exchange that finds that node has found that position: without the push there is no ABA.
After the push `PushedInv` leaves four cases: `t1` had popped already; it has not yet, or failed;
it popped A again with A's new next; or with the old one, and then B is on top.
The last is the damage that line 67 announces.

**What the proofs found.** `BenchMain` and `HeadToHead` had `CASE` expressions
with overlapping guards. TLC takes the first arm that holds; the language leaves
the value open, and so did the prover. They are `IF`s now.

**Only model-checked.** Liveness, and the fairness half of the refinements, are
outside what TLAPS proves, as is `ENABLED`. Four properties depend on what a fold
or a sort computes, which needs an induction the installed provers cannot apply:
`TripsAddUp` and `ReportIsComplete` (sums over the threads), `FiguresAreOfBestRun`
and `RowsAreMedians` (percentiles and medians of sorted samples).
`SpscSequential` uses bitwise operators, which a module with a theorem cannot reach.

## Findings

1. **`size()` on a third thread** (`spsc/SpscQueue.h:61`, run `spsc_size_observer`).
   The two loads are of no single moment. A whole run of pushes and pops between them
   makes the difference exceed `Capacity`, or wrap below zero to a number near 2^64. The
   comment on line 60 says "Approximate under concurrency - fine for stats"; a
   statistic near 2^64 is not an approximation. On the two threads that own an index it
   cannot happen (`spsc_size_owners`).
2. **A copy assignment that throws** (`experiments/move_semantics.cpp:48`, run
   `heap_ownership_throws`). The old array is deleted (line 46) and the new size set (line 47)
   before the new array is asked for. When that allocation throws, the Buffer lives on
   with the address of the deleted array, and its destructor (line 30), which C++ runs
   whatever happens, deletes it again. Line 41 promises to "handle old data removal", line 3
   says "rule of 5" and `README.md:29` "Rule of 5 buffer struct". `experiments/unique_ptr.cpp` allocates nothing in an
   assignment and has no such path (`FaultNeedsThrow`).

Remarks that are not findings of a run:

- `counter_bench.cpp:57` prints `elapsed_ns_min`, the time of the fastest run, under the
  heading "Total time spent running". The time of all runs is printed only as an average (line 59).
  `CounterFigures` has the figure as the code has it, and `FiguresAreOfBestRun` says of it what
  is true: it is one run's time.
- The driver's measuring loop is the left side of `| tee` under `set -e` without `pipefail`
  (`spsc_head_to_head.sh:3`, lines 103 to 142). A run of perf or of the benchmark that fails ends the loop, and
  the script goes on to the medians (line 144) of what was measured so far, although line 17
  says `REPEATS` of each. `RowsAreMedians` is therefore about what was measured. The
  script's exit status is then that of `plot_results.py` (line 153).
- The `static_assert` on line 29 of the queue admits `Capacity` 0, a queue that is full and
  empty at once (explored by `spsc_sequential`: it refuses everything).
- `README.md:28` says that the ABA "fires deterministically", but the sleeps of
  `broken_aba.cpp` order nothing, and the exchange may fail, with its own message (line 70).
- The usage text of `bench/spsc_head_to_head.cpp` (line 242) lists a queue size of 2048 that
  `main` refuses. An unknown target or test case prints a message and `main` returns 0.
- The assertions of `spsc_bench.cpp:79` and `spsc_head_to_head.cpp:98` are compiled out of
  Release, the default build type (`CMakeLists.txt:17`): `test_concurrency` then prints
  "passed … in order" (line 88) without having compared anything.
- `counter_bench` runs nothing for a mode that is none of 0 to 4, and returns 0;
  `pingpong_bench` runs the packed layout for a mode other than 2, but labels it "separate
  cache lines" unless it is 1 (line 115). The usage comments promise nothing for these, and
  `UsageHolds` is about the documented arguments.
- perf's "<not supported>" enters `RAW_CSV` as `<not` and the medians as 0. As a string it
  passes the guards of lines 57 to 59: a missing `LLC-load-misses` reads as a miss rate of 0,
  and missing cycles or instructions divide by 0, which ends gawk and with it the loop
  (`EmitFails`), and prints `inf` in mawk.

## What is left out

- The exit code of `pingpong_bench`'s `main` (line 158), and of the driver: its last
  command is `plot_results.py`, which is not modelled.
- The rounding of positions. `Percentiles` takes an exact product where the programs truncate
  one of doubles (`spsc_bench.cpp:117`, `pingpong_bench.cpp:84`, `cas_spinlock.cpp:73`): no
  property shows what a product just below a whole number would do.
- The contents of the arrays of `move_semantics.cpp`; self-assignment, which changes nothing.
- The rest of `bench_utils.h`: affinity, time stamps, core frequencies, a pause hint. The
  clocks of `BenchMain` are arbitrary durations.
- Of the percentiles printed, p50 and p99 stand for all: the function is the same. Conversion
  to ns and averages divide by a constant.
- `main` of the head-to-head benchmark: the parsing and the messages for unknown arguments; and
  test case 3's percentiles.
- The other targets' queues: their code is not in the repository. `LibraryQueue` assumes
  each to be a bounded FIFO; how their slots are synchronised is theirs to show.
- In the driver, the report's headings, the elapsed time, and mawk's `inf`.
- Cache-line padding and layouts: they change addresses and speed, not behaviour.
- The MPMC design note: no implementation to translate. `plot_results.py`: reads a file,
  draws it. `feed/`, `lob/`, `pipeline/`: stubs.

External, modelled from how the code uses it: the C++ memory model (`MemoryOrder`), and
the library operations it is applied to.

## Plan

Done, in this order: `SpscQueue` and `SpscTransfer` with `BoundedFifo`; their proofs;
`SpscSequential` and `SpscSize`; `CasSpinlock` and its proofs; `RoundTrips`,
`PingPong` and its proofs; `HeadToHead`; `LockFreeStack`; `HeapOwnership`; `CounterBench`;
`MedianCsv`; then the programs around them: `BenchMain` with `BenchUtils` and `Percentiles`,
`CasSpinlockMain`, the targets of `HeadToHead` with `LibraryQueue`, liveness of
`LockFreeStack`, and the rows and repeats of `MedianCsv`.

Then more proofs: `HeapOwnership`, `CounterBench` and `BenchMain`, `LockFreeStack`,
`SpscSize`, and the `main` of `cas_spinlock.cpp`.

Last, `HeadToHead`: the invariant of one queue restated for any counts and any items
(`SpscProgress`, `LibraryProgress`), its lemmas in `QueueProofs`, from which `SpscTransfer`
was proved again, and the three test cases, with the safety half of the refinement.

Left, all of it beyond the installed provers (see "Only model-checked"): the sums of
`TripsAddUp` and `ReportIsComplete`, the percentiles and medians, `SpscSequential`'s words
as bits, and liveness.
