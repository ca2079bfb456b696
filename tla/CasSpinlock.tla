----------------------------- MODULE CasSpinlock -----------------------------
(***************************************************************************)
(* experiments/cas_spinlock.cpp: worker threads that take a lock made of   *)
(* one std::atomic<bool> and a weak compare-and-swap, count one trip each  *)
(* and release it, until the shared counter reaches NUM_ROUND_TRIPS.       *)
(*                                                                         *)
(* A successful compare-and-swap reads the last store into flag, so flag   *)
(* is its last value and what that store released; a failed one may also   *)
(* have failed spuriously.  `accesses` counts the accesses to the plain    *)
(* counter by all threads, and `known` how many of them happen before a    *)
(* thread's next step.                                                     *)
(*                                                                         *)
(* (Faulty... : coding errors, see module SpscQueue.)                      *)
(***************************************************************************)
EXTENDS Naturals, FiniteSets, Functions, MemoryOrder

CONSTANTS
  Thread,     \* the NUM_THREADS threads of the pool
  RoundTrips  \* NUM_ROUND_TRIPS

ASSUME SpinlockAssumption == RoundTrips \in Nat \ {0} /\ IsFiniteSet(Thread)

VARIABLES
  flag,          \* [held : what is stored, accesses : what the store released]
  counter,       \* the shared counter, a plain integer
  accesses,      \* accesses made to it so far
  acquisitions,  \* acquisitions[thread_id]
  samples,       \* size of samples[thread_id]
  worker         \* each thread's locals

vars == <<flag, counter, accesses, acquisitions, samples, worker>>

Init ==
  /\ flag = [held |-> FALSE, accesses |-> 0]
  /\ counter = 0
  /\ accesses = 0
  /\ acquisitions = [t \in Thread |-> 0]
  /\ samples = [t \in Thread |-> 0]
  /\ worker = [t \in Thread |->
                 [pc |-> "lock", n |-> 0, expected |-> FALSE, loaded |-> 0, known |-> 0]]

(* The loop of increment_counter: another trip, or the end.                *)
LoopHead(n) == IF n < RoundTrips THEN "lock" ELSE "done"

-----------------------------------------------------------------------------
(* cas_counter_lock.                                                       *)

LockOrder == "acquire"
FaultyUnlockRelaxed == "relaxed"
UnlockOrder == "release"

LockSucceeds(t) ==
  /\ worker[t].pc = "lock"
  /\ flag.held = worker[t].expected
  /\ flag' = [held |-> TRUE, accesses |-> 0]
  /\ worker' = [worker EXCEPT
       ![t].pc = "check",
       ![t].known = Acquired(LockOrder, @, flag.accesses)]
  /\ UNCHANGED <<counter, accesses, acquisitions, samples>>

(* The exchange failed and left the value it saw in `expected`, which the  *)
(* body of the loop resets.                                                *)
FaultyExpectedNotReset(seen) == seen
ExpectedAfter(seen) == FALSE

LockFails(t) ==
  /\ worker[t].pc = "lock"
  /\ \E seen \in {flag.held, worker[t].expected} :
       worker' = [worker EXCEPT ![t].expected = ExpectedAfter(seen)]
  /\ UNCHANGED <<flag, counter, accesses, acquisitions, samples>>

-----------------------------------------------------------------------------
(* The critical section: the counter is loaded for the test, loaded again  *)
(* and stored.                                                             *)

AccessCounter == accesses' = accesses + 1

FaultyNoStop(t) == "load"
AfterCheck(t) == IF counter = RoundTrips THEN "unlock_break" ELSE "load"

Check(t) ==
  /\ worker[t].pc = "check"
  /\ AccessCounter
  /\ worker' = [worker EXCEPT ![t].pc = AfterCheck(t), ![t].known = accesses + 1]
  /\ UNCHANGED <<flag, counter, acquisitions, samples>>

Load(t) ==
  /\ worker[t].pc = "load"
  /\ acquisitions' = [acquisitions EXCEPT ![t] = @ + 1]
  /\ AccessCounter
  /\ worker' = [worker EXCEPT ![t].pc = "store", ![t].loaded = counter,
                              ![t].known = accesses + 1]
  /\ UNCHANGED <<flag, counter, samples>>

Store(t) ==
  /\ worker[t].pc = "store"
  /\ counter' = worker[t].loaded + 1
  /\ AccessCounter
  /\ worker' = [worker EXCEPT ![t].pc = "unlock", ![t].known = accesses + 1]
  /\ UNCHANGED <<flag, acquisitions, samples>>

-----------------------------------------------------------------------------
(* cas_counter_unlock, on both ways out of the critical section.           *)

ReleaseFlag(t) == flag' = [held |-> FALSE,
                           accesses |-> Released(UnlockOrder, worker[t].known)]

Unlock(t) ==
  /\ worker[t].pc = "unlock"
  /\ ReleaseFlag(t)
  /\ worker' = [worker EXCEPT ![t].pc = "sample"]
  /\ UNCHANGED <<counter, accesses, acquisitions, samples>>

(* The lock is free: the trip is timed and its sample pushed while others  *)
(* may be anywhere, and the loop goes on with the next trip.               *)
PushSample(t) ==
  /\ worker[t].pc = "sample"
  /\ samples' = [samples EXCEPT ![t] = @ + 1]
  /\ worker' = [worker EXCEPT ![t].pc = LoopHead(worker[t].n + 1), ![t].n = @ + 1,
                              ![t].expected = FALSE]
  /\ UNCHANGED <<flag, counter, accesses, acquisitions>>

FaultyBreakKeepsLock(t) ==
  /\ worker[t].pc = "unlock_break"
  /\ worker' = [worker EXCEPT ![t].pc = "done"]
  /\ UNCHANGED <<flag, counter, accesses, acquisitions, samples>>

UnlockBreak(t) ==
  /\ worker[t].pc = "unlock_break"
  /\ ReleaseFlag(t)
  /\ worker' = [worker EXCEPT ![t].pc = "done"]
  /\ UNCHANGED <<counter, accesses, acquisitions, samples>>

(* Every step but an exchange.                                             *)
ThreadStep(t) ==
  Check(t) \/ Load(t) \/ Store(t) \/ Unlock(t) \/ UnlockBreak(t) \/ PushSample(t)

AllDone == \A t \in Thread : worker[t].pc = "done"

(* main has joined the pool.                                               *)
Joined == AllDone /\ UNCHANGED vars

Next ==
  \/ \E t \in Thread : LockSucceeds(t) \/ LockFails(t) \/ ThreadStep(t)
  \/ Joined

Safety == Init /\ [][Next]_vars

(* The scheduler runs the holder and a thread that has a sample to push,   *)
(* and a flag that stays free is taken by one of the threads that spin on  *)
(* it.  Which one is not promised: the lock has no queue, and a weak       *)
(* exchange may fail for no reason.                                        *)
Spec ==
  /\ Safety
  /\ \A t \in Thread : WF_vars(ThreadStep(t))
  /\ WF_vars(\E t \in Thread : LockSucceeds(t))

-----------------------------------------------------------------------------
Critical == {"check", "load", "store", "unlock", "unlock_break"}

(* The types of the globals of lines 26 to 30 and of the loop's locals.    *)
TypeOK ==
  /\ flag \in [held : BOOLEAN, accesses : Nat]
  /\ counter \in 0 .. RoundTrips
  /\ accesses \in Nat
  /\ acquisitions \in [Thread -> 0 .. RoundTrips]
  /\ samples \in [Thread -> 0 .. RoundTrips]
  /\ worker \in [Thread -> [pc : Critical \union {"lock", "sample", "done"},
                            n : 0 .. RoundTrips, expected : BOOLEAN,
                            loaded : 0 .. RoundTrips, known : Nat]]

Holders == {t \in Thread : worker[t].pc \in Critical}

(* One thread at a time is between cas_counter_lock and                    *)
(* cas_counter_unlock.                                                     *)
MutualExclusion == \A t, u \in Holders : t = u

(* Every access to the plain counter happens after all the accesses before *)
(* it: the exchange's acquire (line 36) reads what the store's release     *)
(* (line 48) published.                                                    *)
DataRaceFree ==
  \A t \in Thread : worker[t].pc \in {"check", "load", "store"} => worker[t].known = accesses

(* A thread that has left its loop, early or after NUM_ROUND_TRIPS trips   *)
(* of its own, leaves the counter complete: main returns 0 (line 111),     *)
(* whichever thread made the trips.                                        *)
ExitIsExact == \A t \in Thread : worker[t].pc = "done" => counter = RoundTrips

(* Every trip is counted once: the acquisition counts that main prints     *)
(* (line 108) add up to the counter, but for the trip of a thread between  *)
(* lines 59 and 60, and each has its sample, but for the trip of a thread  *)
(* that has not come to line 64, with the lock or after its release.       *)
TripsAddUp ==
  LET adding == {t \in Thread : worker[t].pc = "store"}
      unsampled == {t \in Thread : worker[t].pc \in {"store", "unlock", "sample"}}
  IN /\ FoldFunction(+, 0, acquisitions) = counter + Cardinality(adding)
     /\ \A t \in Thread :
          samples[t] = acquisitions[t] - (IF t \in unsampled THEN 1 ELSE 0)

(* All threads finish (the join of line 90).                               *)
AllJoin == <>AllDone

-----------------------------------------------------------------------------
(* The inductive invariant.                                                *)

(* t has counted the trip it is on.                                        *)
Stored(t) == worker[t].pc \in {"store", "unlock", "sample"}

(* The flag is held exactly while one thread is in the critical section,   *)
(* and no thread carries a stale `expected` into its next exchange.        *)
LockInv ==
  /\ MutualExclusion
  /\ flag.held <=> Holders # {}
  /\ \A t \in Thread : worker[t].expected = FALSE

(* The holder, or the free flag, knows all accesses to the counter.        *)
KnownInv ==
  /\ flag.held = FALSE => flag.accesses = accesses
  /\ \A t \in Thread : worker[t].known <= accesses
  /\ \A t \in Holders : worker[t].known = accesses

(* What the holder has read of the counter is still true, and no thread    *)
(* has made more trips than the counter shows.                             *)
CountInv ==
  \A t \in Thread :
    /\ worker[t].pc \in {"load", "store"} => counter < RoundTrips
    /\ worker[t].pc = "store" => worker[t].loaded = counter
    /\ worker[t].pc \in {"unlock_break", "done"} => counter = RoundTrips
    /\ worker[t].pc # "done" => worker[t].n < RoundTrips
    /\ samples[t] = worker[t].n
    /\ acquisitions[t] = worker[t].n + (IF Stored(t) THEN 1 ELSE 0)
    /\ acquisitions[t] <= counter + (IF worker[t].pc = "store" THEN 1 ELSE 0)

(* One holder at a time, which alone knows the counter and keeps it exact. *)
Inv == TypeOK /\ LockInv /\ KnownInv /\ CountInv
=============================================================================
