--------------------------- MODULE CasSpinlockMain ---------------------------
(***************************************************************************)
(* The main of experiments/cas_spinlock.cpp around the threads of module   *)
(* CasSpinlock: it joins the pool, merges the threads' samples, reads      *)
(* percentiles of the merged samples and returns.  Of a sample only its    *)
(* existence is kept, and the order of the joins is left open.             *)
(*                                                                         *)
(* (Faulty... : coding errors, see module SpscQueue.)                      *)
(***************************************************************************)
EXTENDS CasSpinlock, Percentiles

VARIABLE main  \* threads joined, round_trip_samples.size(), indices read, result

mainVars == <<vars, main>>

MainInit ==
  /\ Init
  /\ main = [pc |-> "join", joined |-> {}, merged |-> 0, read |-> {}, result |-> -1]

PoolRuns ==
  /\ \E t \in Thread : LockSucceeds(t) \/ LockFails(t) \/ ThreadStep(t)
  /\ UNCHANGED main

FaultyMayMerge == counter = RoundTrips /\ ~flag.held
MayMerge == main.joined = Thread

JoinThread(t) ==
  /\ main.pc = "join" /\ t \notin main.joined
  /\ worker[t].pc = "done"
  /\ main' = [main EXCEPT !.joined = @ \union {t}]
  /\ UNCHANGED vars

Merge ==
  /\ main.pc = "join" /\ MayMerge
  /\ main' = [main EXCEPT !.pc = "report", !.merged = FoldFunction(+, 0, samples)]
  /\ UNCHANGED vars

Percentages == {<<1, 1000>>, <<10, 1000>>, <<250, 1000>>, p50, <<750, 1000>>, p99, <<999, 1000>>}

ReportAndReturn ==
  /\ main.pc = "report"
  /\ main' = [main EXCEPT !.pc = "returned",
                          !.read = {Rank(p, main.merged) : p \in Percentages},
                          !.result = IF counter = RoundTrips THEN 0 ELSE 1]
  /\ UNCHANGED vars

Returned == main.pc = "returned" /\ UNCHANGED mainVars

MainNext ==
  \/ PoolRuns
  \/ (\E t \in Thread : JoinThread(t)) \/ Merge \/ ReportAndReturn \/ Returned

(* The threads run as in CasSpinlock; main only waits for them.            *)
MainSpec ==
  /\ MainInit /\ [][MainNext]_mainVars
  /\ \A t \in Thread : WF_vars(ThreadStep(t))
  /\ WF_vars(\E t \in Thread : LockSucceeds(t))

-----------------------------------------------------------------------------
(* The report covers every trip: a sample is pushed after the lock has     *)
(* been released (lines 61 to 64), so the counter may be complete and the  *)
(* lock free while several threads still have a sample to push, and only   *)
(* the joins make the merged samples as many as the trips.  The            *)
(* percentiles are read within them (line 74), and main returns 0 (line    *)
(* 111).                                                                   *)
ReportIsComplete ==
  main.pc = "returned" =>
    /\ main.merged = RoundTrips
    /\ main.read \subseteq 0 .. main.merged - 1
    /\ main.result = 0
=============================================================================
