-------------------------- MODULE CasSpinlockProofs --------------------------
(***************************************************************************)
(* Proofs about the compare-and-swap spinlock, for any number of threads   *)
(* and round trips: mutual exclusion, an unraced counter, and a counter    *)
(* that is complete as soon as one thread leaves its loop; and that the    *)
(* program around the threads runs them as their specification says, and   *)
(* merges nothing before they have all ended.                              *)
(***************************************************************************)
EXTENDS CasSpinlockMain, TLAPS

LEMMA TripsAreNat == RoundTrips \in Nat \ {0}
BY SpinlockAssumption

LEMMA InitInv == Init => Inv
<1> SUFFICES ASSUME Init
             PROVE  Inv
  OBVIOUS
<1>1. TypeOK
  BY TripsAreNat DEF Init, TypeOK, Critical
<1>2. Holders = {}
  BY DEF Init, Holders, Critical
<1>3. LockInv
  BY <1>2 DEF Init, LockInv, MutualExclusion
<1>4. KnownInv
  BY <1>2 DEF Init, KnownInv
<1>5. CountInv
  BY TripsAreNat DEF Init, CountInv, Stored
<1> QED
  BY <1>1, <1>3, <1>4, <1>5 DEF Inv

(* A thread that takes the lock finds nobody in the critical section.      *)
LEMMA LockSucceedsInv ==
  ASSUME Inv, NEW t \in Thread, LockSucceeds(t)
  PROVE  Inv'
<1>1. flag.held = FALSE /\ Holders = {} /\ flag.accesses = accesses
  BY DEF LockSucceeds, Inv, LockInv, KnownInv
<1>2. Acquired(LockOrder, worker[t].known, flag.accesses) = accesses
  BY <1>1 DEF Inv, TypeOK, KnownInv, Acquired, LockOrder
<1>3. /\ worker' = [worker EXCEPT ![t].pc = "check", ![t].known = accesses]
      /\ flag' = [held |-> TRUE, accesses |-> 0]
      /\ UNCHANGED <<counter, accesses, acquisitions, samples>>
  BY <1>2 DEF LockSucceeds
<1>4. TypeOK'
  BY <1>3 DEF Inv, TypeOK, Critical
<1>5. Holders' = {t}
  BY <1>1, <1>3 DEF Inv, TypeOK, Holders, Critical
<1>6. LockInv'
  BY <1>3, <1>5 DEF Inv, TypeOK, LockInv, MutualExclusion
<1>7. KnownInv'
  BY <1>3, <1>5 DEF Inv, TypeOK, KnownInv
<1>8. CountInv'
  BY <1>3 DEF LockSucceeds, Inv, TypeOK, CountInv, Stored
<1> QED
  BY <1>4, <1>6, <1>7, <1>8 DEF Inv

LEMMA LockFailsInv ==
  ASSUME Inv, NEW t \in Thread, LockFails(t)
  PROVE  Inv'
<1>1. /\ worker' = [worker EXCEPT ![t].expected = FALSE]
      /\ UNCHANGED <<flag, counter, accesses, acquisitions, samples>>
  BY DEF LockFails, ExpectedAfter
<1>2. worker' = worker
  BY <1>1 DEF Inv, TypeOK, LockInv
<1> QED
  BY <1>1, <1>2
  DEF Inv, TypeOK, LockInv, KnownInv, CountInv, MutualExclusion, Holders, Stored

-----------------------------------------------------------------------------
(* The holder is alone, and knows every access.                            *)
LEMMA HolderAlone ==
  ASSUME Inv, NEW t \in Thread, worker[t].pc \in Critical
  PROVE  /\ Holders = {t}
         /\ flag.held = TRUE
         /\ worker[t].known = accesses
         /\ \A u \in Thread \ {t} : worker[u].pc \in {"lock", "sample", "done"}
<1>1. t \in Holders
  BY DEF Holders
<1>2. Holders = {t} /\ worker[t].known = accesses
  BY <1>1 DEF Inv, LockInv, MutualExclusion, KnownInv, Holders
<1>3. flag.held = TRUE
  BY <1>1 DEF Inv, TypeOK, LockInv
<1>4. ASSUME NEW u \in Thread \ {t}
      PROVE  worker[u].pc \in {"lock", "sample", "done"}
  BY <1>2 DEF Inv, TypeOK, Holders
<1> QED
  BY <1>2, <1>3, <1>4

(* What any step of the holder that keeps the lock leaves true.            *)
LEMMA HolderKeepsLock ==
  ASSUME Inv, NEW t \in Thread, worker[t].pc \in Critical,
         worker'[t].pc \in Critical,
         worker'[t].expected = FALSE, worker'[t].known = accesses + 1,
         \A u \in Thread \ {t} : worker'[u] = worker[u],
         accesses' = accesses + 1, flag' = flag
  PROVE  LockInv' /\ KnownInv'
<1>1. /\ Holders = {t} /\ flag.held = TRUE
      /\ \A u \in Thread \ {t} : worker[u].pc \in {"lock", "sample", "done"}
  BY HolderAlone
<1>2. Holders' = {t}
  BY <1>1 DEF Holders, Critical
<1>3. LockInv'
  BY <1>1, <1>2 DEF Inv, LockInv, MutualExclusion
<1>4. \A u \in Thread : worker'[u].known <= accesses'
  BY DEF Inv, TypeOK, KnownInv
<1> QED
  BY <1>1, <1>2, <1>3, <1>4 DEF Inv, KnownInv

LEMMA CheckInv ==
  ASSUME Inv, NEW t \in Thread, Check(t)
  PROVE  Inv'
<1>1. /\ worker[t].pc = "check"
      /\ worker' = [worker EXCEPT ![t].pc = AfterCheck(t), ![t].known = accesses + 1]
      /\ accesses' = accesses + 1
      /\ UNCHANGED <<flag, counter, acquisitions, samples>>
  BY DEF Check, AccessCounter
<1>2. /\ AfterCheck(t) \in {"unlock_break", "load"}
      /\ AfterCheck(t) = "unlock_break" <=> counter = RoundTrips
  BY DEF AfterCheck
<1>3. /\ worker'[t].pc = AfterCheck(t) /\ worker'[t].known = accesses + 1
      /\ worker'[t].n = worker[t].n /\ worker'[t].expected = FALSE
      /\ \A u \in Thread \ {t} : worker'[u] = worker[u]
  BY <1>1 DEF Inv, TypeOK, LockInv
<1>4. TypeOK'
  <2>1. accesses + 1 \in Nat
    BY DEF Inv, TypeOK
  <2>2. worker' \in [Thread -> [pc : Critical \union {"lock", "sample", "done"},
                               n : 0 .. RoundTrips, expected : BOOLEAN, loaded : 0 .. RoundTrips, known : Nat]]
    BY <1>1, <1>2, <2>1 DEF Inv, TypeOK, Critical
  <2> QED
    BY <1>1, <2>1, <2>2 DEF Inv, TypeOK
<1>5. LockInv' /\ KnownInv'
  BY <1>1, <1>2, <1>3, HolderKeepsLock DEF Critical
<1>6. CountInv'
  BY <1>1, <1>2, <1>3, TripsAreNat DEF Inv, TypeOK, CountInv, Stored
<1> QED
  BY <1>4, <1>5, <1>6 DEF Inv

LEMMA LoadInv ==
  ASSUME Inv, NEW t \in Thread, Load(t)
  PROVE  Inv'
<1>1. /\ worker[t].pc = "load"
      /\ worker' = [worker EXCEPT ![t].pc = "store", ![t].loaded = counter,
                                  ![t].known = accesses + 1]
      /\ acquisitions' = [acquisitions EXCEPT ![t] = @ + 1]
      /\ accesses' = accesses + 1
      /\ UNCHANGED <<flag, counter, samples>>
  BY DEF Load, AccessCounter
<1>2. /\ worker'[t].pc = "store" /\ worker'[t].known = accesses + 1
      /\ worker'[t].loaded = counter
      /\ worker'[t].n = worker[t].n /\ worker'[t].expected = FALSE
      /\ \A u \in Thread \ {t} : worker'[u] = worker[u]
  BY <1>1 DEF Inv, TypeOK, LockInv
<1>3. /\ acquisitions[t] = worker[t].n /\ worker[t].n < RoundTrips
      /\ acquisitions'[t] = worker[t].n + 1
      /\ \A u \in Thread \ {t} : acquisitions'[u] = acquisitions[u]
  BY <1>1 DEF Inv, TypeOK, CountInv, Stored
<1>4. TypeOK'
  <2>1. accesses + 1 \in Nat /\ worker[t].n + 1 \in 0 .. RoundTrips
    BY <1>3, TripsAreNat DEF Inv, TypeOK
  <2> DEFINE Locals == [pc : Critical \union {"lock", "sample", "done"}, n : 0 .. RoundTrips,
                        expected : BOOLEAN, loaded : 0 .. RoundTrips, known : Nat]
             locals == [worker[t] EXCEPT !.pc = "store", !.loaded = counter,
                                         !.known = accesses + 1]
  <2>2. worker' \in [Thread -> Locals]
    <3>1. worker \in [Thread -> Locals] /\ counter \in 0 .. RoundTrips
      BY DEF Inv, TypeOK
    <3>2. locals \in Locals
      BY <2>1, <3>1 DEF Critical
    <3>3. worker' = [worker EXCEPT ![t] = locals]
      BY <1>1, <3>1
    <3> HIDE DEF Locals, locals
    <3> QED
      BY <3>1, <3>2, <3>3
  <2>3. acquisitions' \in [Thread -> 0 .. RoundTrips]
    BY <1>1, <1>3, <2>1 DEF Inv, TypeOK
  <2> QED
    BY <1>1, <2>1, <2>2, <2>3 DEF Inv, TypeOK
<1>5. LockInv' /\ KnownInv'
  BY <1>1, <1>2, HolderKeepsLock DEF Critical
<1>6. CountInv'
  BY <1>1, <1>2, <1>3, TripsAreNat DEF Inv, TypeOK, CountInv, Stored
<1> QED
  BY <1>4, <1>5, <1>6 DEF Inv

(* No other thread has stopped or read the counter while this one adds.    *)
LEMMA StoreInv ==
  ASSUME Inv, NEW t \in Thread, Store(t)
  PROVE  Inv'
<1>1. /\ worker[t].pc = "store"
      /\ worker' = [worker EXCEPT ![t].pc = "unlock", ![t].known = accesses + 1]
      /\ accesses' = accesses + 1
      /\ UNCHANGED <<flag, acquisitions, samples>>
  BY DEF Store, AccessCounter
<1>2. counter' = counter + 1 /\ counter < RoundTrips
  BY <1>1 DEF Store, Inv, CountInv
<1>3. /\ worker'[t].pc = "unlock" /\ worker'[t].known = accesses + 1
      /\ worker'[t].n = worker[t].n /\ worker'[t].expected = FALSE
      /\ \A u \in Thread \ {t} : worker'[u] = worker[u]
  BY <1>1 DEF Inv, TypeOK, LockInv
<1>4. TypeOK'
  <2>1. accesses + 1 \in Nat /\ counter' \in 0 .. RoundTrips
    BY <1>2, TripsAreNat DEF Inv, TypeOK
  <2>2. worker' \in [Thread -> [pc : Critical \union {"lock", "sample", "done"},
                               n : 0 .. RoundTrips, expected : BOOLEAN, loaded : 0 .. RoundTrips, known : Nat]]
    BY <1>1, <2>1 DEF Inv, TypeOK, Critical
  <2> QED
    BY <1>1, <2>1, <2>2 DEF Inv, TypeOK
<1>5. LockInv' /\ KnownInv'
  BY <1>1, <1>3, HolderKeepsLock DEF Critical
<1>6. \A u \in Thread \ {t} : worker[u].pc \in {"lock", "sample"}
  <2>1. counter # RoundTrips
    BY <1>2, TripsAreNat DEF Inv, TypeOK
  <2>2. \A u \in Thread : worker[u].pc # "done"
    BY <2>1 DEF Inv, CountInv
  <2>3. \A u \in Thread \ {t} : worker[u].pc \in {"lock", "sample", "done"}
    BY <1>1, HolderAlone DEF Critical
  <2> QED
    BY <2>2, <2>3
<1>7. CountInv'
  BY <1>1, <1>2, <1>3, <1>6, TripsAreNat DEF Inv, TypeOK, CountInv, Stored
<1> QED
  BY <1>4, <1>5, <1>7 DEF Inv

(* What both ways of releasing the lock leave true.                        *)
LEMMA ReleaseKeepsLock ==
  ASSUME Inv, NEW t \in Thread, worker[t].pc \in Critical, ReleaseFlag(t),
         worker'[t].pc \in {"sample", "done"},
         worker'[t].expected = FALSE, worker'[t].known = worker[t].known,
         \A u \in Thread \ {t} : worker'[u] = worker[u],
         accesses' = accesses
  PROVE  LockInv' /\ KnownInv'
<1>1. /\ worker[t].known = accesses
      /\ \A u \in Thread \ {t} : worker[u].pc \in {"lock", "sample", "done"}
  BY HolderAlone
<1>2. Holders' = {}
  BY <1>1 DEF Holders, Critical
<1>3. flag' = [held |-> FALSE, accesses |-> accesses]
  BY <1>1 DEF ReleaseFlag, Released, UnlockOrder
<1>4. LockInv'
  BY <1>2, <1>3 DEF Inv, LockInv, MutualExclusion
<1>5. KnownInv'
  BY <1>2, <1>3 DEF Inv, KnownInv
<1> QED
  BY <1>4, <1>5

LEMMA UnlockInv ==
  ASSUME Inv, NEW t \in Thread, Unlock(t)
  PROVE  Inv'
<1>1. /\ worker[t].pc = "unlock" /\ ReleaseFlag(t)
      /\ worker' = [worker EXCEPT ![t].pc = "sample"]
      /\ UNCHANGED <<counter, accesses, acquisitions, samples>>
  BY DEF Unlock
<1>2. /\ worker'[t].pc = "sample" /\ worker'[t].n = worker[t].n
      /\ worker'[t].known = worker[t].known /\ worker'[t].expected = FALSE
      /\ \A u \in Thread \ {t} : worker'[u] = worker[u]
  BY <1>1 DEF Inv, TypeOK, LockInv
<1>3. TypeOK'
  <2>1. flag' \in [held : BOOLEAN, accesses : Nat]
    BY <1>1 DEF ReleaseFlag, Released, UnlockOrder, Inv, TypeOK
  <2> QED
    BY <1>1, <2>1 DEF Inv, TypeOK, Critical
<1>4. LockInv' /\ KnownInv'
  BY <1>1, <1>2, ReleaseKeepsLock DEF Critical
<1>5. CountInv'
  BY <1>1, <1>2 DEF Inv, TypeOK, CountInv, Stored
<1> QED
  BY <1>3, <1>4, <1>5 DEF Inv

(* The thread has counted n + 1 trips of its own, so if that is all there  *)
(* are the counter is complete.                                            *)
LEMMA PushSampleInv ==
  ASSUME Inv, NEW t \in Thread, PushSample(t)
  PROVE  Inv'
<1>1. /\ worker[t].pc = "sample"
      /\ worker' = [worker EXCEPT ![t].pc = LoopHead(worker[t].n + 1), ![t].n = @ + 1,
                                  ![t].expected = FALSE]
      /\ samples' = [samples EXCEPT ![t] = @ + 1]
      /\ UNCHANGED <<flag, counter, accesses, acquisitions>>
  BY DEF PushSample
<1>2. /\ LoopHead(worker[t].n + 1) \in {"lock", "done"}
      /\ worker[t].n + 1 \in 0 .. RoundTrips
      /\ LoopHead(worker[t].n + 1) # "done" => worker[t].n + 1 < RoundTrips
      /\ LoopHead(worker[t].n + 1) = "done" => worker[t].n + 1 = RoundTrips
  BY <1>1, TripsAreNat DEF LoopHead, Inv, TypeOK, CountInv
<1>3. /\ worker'[t].pc = LoopHead(worker[t].n + 1) /\ worker'[t].n = worker[t].n + 1
      /\ worker'[t].known = worker[t].known /\ worker'[t].expected = FALSE
      /\ \A u \in Thread \ {t} : worker'[u] = worker[u]
  BY <1>1 DEF Inv, TypeOK
<1>4. /\ samples[t] = worker[t].n /\ samples'[t] = worker[t].n + 1
      /\ \A u \in Thread \ {t} : samples'[u] = samples[u]
      /\ acquisitions[t] = worker[t].n + 1 /\ acquisitions[t] <= counter
  BY <1>1, TripsAreNat DEF Inv, TypeOK, CountInv, Stored
<1>5. TypeOK'
  BY <1>1, <1>2, <1>4 DEF Inv, TypeOK, Critical
<1>6. Holders' = Holders
  BY <1>1, <1>2, <1>3 DEF Holders, Critical
<1>7. LockInv' /\ KnownInv'
  BY <1>1, <1>3, <1>6 DEF Inv, TypeOK, LockInv, KnownInv, MutualExclusion, Holders
<1>8. LoopHead(worker[t].n + 1) = "done" => counter = RoundTrips
  BY <1>2, <1>4, TripsAreNat DEF Inv, TypeOK
<1>9. CountInv'
  BY <1>1, <1>2, <1>3, <1>4, <1>8, TripsAreNat DEF Inv, TypeOK, CountInv, Stored
<1> QED
  BY <1>5, <1>7, <1>9 DEF Inv

LEMMA UnlockBreakInv ==
  ASSUME Inv, NEW t \in Thread, UnlockBreak(t)
  PROVE  Inv'
<1>1. /\ worker[t].pc = "unlock_break" /\ ReleaseFlag(t)
      /\ worker' = [worker EXCEPT ![t].pc = "done"]
      /\ UNCHANGED <<counter, accesses, acquisitions, samples>>
  BY DEF UnlockBreak
<1>2. /\ worker'[t].pc = "done" /\ worker'[t].n = worker[t].n
      /\ worker'[t].known = worker[t].known /\ worker'[t].expected = FALSE
      /\ \A u \in Thread \ {t} : worker'[u] = worker[u]
  BY <1>1 DEF Inv, TypeOK, LockInv
<1>3. TypeOK'
  <2>1. flag' \in [held : BOOLEAN, accesses : Nat]
    BY <1>1 DEF ReleaseFlag, Released, UnlockOrder, Inv, TypeOK
  <2> QED
    BY <1>1, <2>1 DEF Inv, TypeOK, Critical
<1>4. LockInv' /\ KnownInv'
  BY <1>1, <1>2, ReleaseKeepsLock DEF Critical
<1>5. CountInv'
  BY <1>1, <1>2 DEF Inv, TypeOK, CountInv, Stored
<1> QED
  BY <1>3, <1>4, <1>5 DEF Inv

-----------------------------------------------------------------------------
LEMMA NextInv == Inv /\ [Next]_vars => Inv'
<1> SUFFICES ASSUME Inv, [Next]_vars
             PROVE  Inv'
  OBVIOUS
<1>1. ASSUME NEW t \in Thread, LockSucceeds(t) \/ LockFails(t) \/ ThreadStep(t)
      PROVE  Inv'
  BY <1>1, LockSucceedsInv, LockFailsInv, CheckInv, LoadInv, StoreInv, UnlockInv,
     UnlockBreakInv, PushSampleInv
  DEF ThreadStep
<1>2. CASE UNCHANGED vars
  BY <1>2
  DEF vars, Inv, TypeOK, LockInv, KnownInv, CountInv, MutualExclusion, Holders, Stored
<1> QED
  BY <1>1, <1>2 DEF Next, Joined

(* Every state of the pool satisfies the invariant, whichever exchanges    *)
(* fail and however the threads interleave (lines 33 to 66).               *)
THEOREM Invariance == Safety => []Inv
<1> QED
  BY InitInv, NextInv, PTL DEF Safety

(* The globals and the threads' locals keep their types.                   *)
THEOREM TypeCorrect == Safety => []TypeOK
<1>1. Inv => TypeOK
  BY DEF Inv
<1> QED
  BY <1>1, Invariance, PTL

(* The exchange of line 35 and the store of line 48 make a lock.           *)
THEOREM LockExcludes == Safety => []MutualExclusion
<1>1. Inv => MutualExclusion
  BY DEF Inv, LockInv
<1> QED
  BY <1>1, Invariance, PTL

(* The plain counter is never raced (lines 55 to 60).                      *)
THEOREM NoDataRace == Safety => []DataRaceFree
<1>1. Inv => DataRaceFree
  BY DEF Inv, KnownInv, DataRaceFree, Holders, Critical
<1> QED
  BY <1>1, Invariance, PTL

(* A thread that has left its loop leaves the counter complete, so main    *)
(* returns 0 (line 111).                                                   *)
THEOREM CounterComplete == Safety => []ExitIsExact
<1>1. Inv => ExitIsExact
  BY DEF Inv, CountInv, ExitIsExact
<1> QED
  BY <1>1, Invariance, PTL

-----------------------------------------------------------------------------
(* main, around the threads.                                               *)

LEMMA MainStepIsPoolStep == [MainNext]_mainVars => [Next]_vars
BY DEF MainNext, mainVars, PoolRuns, JoinThread, Merge, ReportAndReturn, Returned, Next

(* The program is a run of its pool: every step of main leaves the         *)
(* threads' state alone (lines 86 to 111), so what is proved of the pool   *)
(* holds of the whole program.                                             *)
THEOREM MainRunsThePool == MainSpec => Safety
<1>1. MainInit => Init
  BY DEF MainInit
<1> QED
  BY <1>1, MainStepIsPoolStep, PTL DEF MainSpec, Safety

(* What main has joined has ended, and it merges when it has joined all.   *)
MainInv ==
  /\ DOMAIN main = {"pc", "joined", "merged", "read", "result"}
  /\ main.joined \subseteq {t \in Thread : worker[t].pc = "done"}
  /\ main.pc # "join" => main.joined = Thread

(* A thread that has ended takes no step.                                  *)
LEMMA DoneIsFinal ==
  ASSUME Inv, [Next]_vars, NEW t \in Thread, worker[t].pc = "done"
  PROVE  worker'[t].pc = "done"
<1>1. ASSUME NEW u \in Thread, LockSucceeds(u) \/ LockFails(u) \/ ThreadStep(u)
      PROVE  worker'[t].pc = "done"
  <2>1. CASE u = t
    BY <1>1, <2>1
    DEF LockSucceeds, LockFails, ThreadStep, Check, Load, Store, Unlock, UnlockBreak, PushSample
  <2>2. CASE u # t
    BY <1>1, <2>2
    DEF LockSucceeds, LockFails, ThreadStep, Check, Load, Store, Unlock, UnlockBreak,
        PushSample, Inv, TypeOK
  <2> QED
    BY <2>1, <2>2
<1>2. CASE UNCHANGED vars
  BY <1>2 DEF vars
<1> QED
  BY <1>1, <1>2 DEF Next, Joined

LEMMA MainInitInv == MainInit => MainInv
BY DEF MainInit, MainInv

LEMMA MainNextInv == Inv /\ MainInv /\ [MainNext]_mainVars => MainInv'
<1> SUFFICES ASSUME Inv, MainInv, [MainNext]_mainVars
             PROVE  MainInv'
  OBVIOUS
<1>1. \A t \in Thread : worker[t].pc = "done" => worker'[t].pc = "done"
  BY MainStepIsPoolStep, DoneIsFinal
<1>2. CASE UNCHANGED main
  BY <1>1, <1>2 DEF MainInv
<1>3. ASSUME NEW t \in Thread, JoinThread(t)
      PROVE  MainInv'
  BY <1>1, <1>3 DEF MainInv, JoinThread
<1>4. CASE Merge
  BY <1>1, <1>4 DEF MainInv, Merge, MayMerge
<1>5. CASE ReportAndReturn
  BY <1>1, <1>5 DEF MainInv, ReportAndReturn
<1> QED
  BY <1>2, <1>3, <1>4, <1>5 DEF MainNext, mainVars, PoolRuns, Returned

(* Once main has left its joins nothing it reads can change any more: no   *)
(* thread still has a sample to push (line 64) when the samples are        *)
(* merged, nor an access to the counter when the result is read.           *)
THEOREM MainReadsWhatIsFinal ==
  MainSpec => [][main.pc # "join" => UNCHANGED vars]_mainVars
<1>1. MainInv /\ [MainNext]_mainVars => [main.pc # "join" => UNCHANGED vars]_mainVars
  <2> SUFFICES ASSUME MainInv, MainNext, main.pc # "join"
               PROVE  UNCHANGED vars
    OBVIOUS
  <2>1. \A t \in Thread : worker[t].pc = "done"
    BY DEF MainInv
  <2>2. ~PoolRuns
    BY <2>1
    DEF PoolRuns, LockSucceeds, LockFails, ThreadStep, Check, Load, Store, Unlock, UnlockBreak,
        PushSample
  <2> QED
    BY <2>2 DEF MainNext, JoinThread, Merge, ReportAndReturn, Returned, mainVars
<1>2. MainSpec => []Inv
  BY MainRunsThePool, Invariance, PTL
<1>3. MainSpec => []MainInv
  BY <1>2, MainInitInv, MainNextInv, PTL DEF MainSpec
<1> QED
  BY <1>1, <1>3, PTL DEF MainSpec
=============================================================================
