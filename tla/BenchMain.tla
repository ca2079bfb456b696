------------------------------ MODULE BenchMain ------------------------------
(***************************************************************************)
(* The mains of bench/counter_bench.cpp, bench/spsc_bench.cpp and          *)
(* bench/pingpong_bench.cpp: which variants the argument selects, how      *)
(* often each is run, what is kept of a run, and the figures printed.      *)
(*                                                                         *)
(* A run of counter_bench is a call of module CounterBench, threads        *)
(* included.  A run of the other two is one step that leaves what their    *)
(* threads leave: a time stamp for each item popped (module SpscTransfer   *)
(* shows that each is popped once), a sample for each round trip (module   *)
(* PingPong).  The clocks are arbitrary, but do not run backwards.         *)
(*                                                                         *)
(* (Faulty... : coding errors, see module SpscQueue.)                      *)
(***************************************************************************)
EXTENDS CounterBench, BenchUtils, Percentiles, SequencesExt

CONSTANTS
  Arguments,  \* the command lines tried, NoArgument apart
  Runs,       \* NUM_RUNS of counter_bench, BENCH_RUNS of spsc_bench
  Items,      \* BENCH_N of spsc_bench, NUM_ROUND_TRIPS of pingpong_bench
  Times,      \* durations of a run, and of a round trip
  Scale       \* BENCH_N * 1e9: throughput is Scale / duration, truncated

(* Below one item per second best_deltas would stay empty.                 *)
ASSUME BenchAssumption ==
  /\ Runs \in Nat \ {0} /\ Items \in Nat \ {0, 1}
  /\ Times \subseteq 1 .. Scale
  /\ \A tried \in Arguments : tried.suffix \in BOOLEAN

VARIABLES
  program, argument,
  status,  \* "parsing", "running"; then "exited" or "threw"
  args,    \* mode and printed
  todo,    \* variants selected and not yet run; 0 stands for spsc_bench's tests
  runs,    \* what the runs of the current variant measured, for the properties
  best,    \* what has been kept of them
  ran,     \* variants done, in order
  report   \* the last one: its runs, and the figures printed of them

benchVars == <<program, argument, status, args, todo, runs, best, ran, report>>
allVars == <<vars, benchVars>>

Defaults == [mode |-> IF program = "pingpong_bench" THEN 1 ELSE 0, printed |-> TRUE]

NothingKept ==
  CASE program = "counter_bench" -> [fastest |-> Scale + 1, elapsed |-> 0, sum |-> 0]
    [] program = "spsc_bench" -> [throughput |-> 0, deltas |-> <<>>]
    [] OTHER -> <<>>

NoReport == [runs |-> <<>>, figures |-> <<>>]

BenchInit ==
  /\ program \in {"counter_bench", "spsc_bench", "pingpong_bench"}
  /\ argument \in Arguments \union {NoArgument}
  /\ status = "parsing" /\ args = Defaults /\ todo = <<>>
  /\ Init
  /\ runs = <<>> /\ best = NothingKept /\ ran = <<>> /\ report = NoReport

-----------------------------------------------------------------------------
(* The argument, and the variants it selects.                              *)

Selected(mode, printed) ==
  LET Wanted(all) == IF mode = 0 THEN all
                     ELSE IF mode \in 1 .. Len(all) THEN <<mode>> ELSE <<>>
  IN CASE program = "counter_bench" -> Wanted(<<1, 2, 3, 4>>)
       [] program = "spsc_bench" ->
            (IF mode = 0 /\ printed THEN <<0>> ELSE <<>>) \o Wanted(<<1, 2>>)
       [] OTHER -> IF mode = 2 THEN <<2>> ELSE <<1>>

ParseThrows ==
  /\ status = "parsing" /\ Throws(argument)
  /\ status' = "threw"
  /\ UNCHANGED <<vars, program, argument, args, todo, runs, best, ran, report>>

Parse ==
  /\ status = "parsing" /\ ~Throws(argument)
  /\ status' = "running"
  /\ args' = Parsed(argument, Defaults)
  /\ todo' = Selected(args'.mode, args'.printed)
  /\ UNCHANGED <<vars, program, argument, runs, best, ran, report>>

(* spsc_bench's size_test and test_concurrency (modules SpscSequential and *)
(* SpscTransfer).                                                          *)
RunTests ==
  /\ status = "running" /\ todo # <<>> /\ Head(todo) = 0
  /\ todo' = Tail(todo)
  /\ ran' = Append(ran, 0)
  /\ UNCHANGED <<vars, program, argument, status, args, runs, best, report>>

-----------------------------------------------------------------------------
(* The runs of a variant.                                                  *)

AnotherRun ==
  /\ status = "running" /\ todo # <<>> /\ Head(todo) # 0
  /\ Len(runs) < IF program = "pingpong_bench" THEN 1 ELSE Runs

CallVariant ==
  /\ program = "counter_bench" /\ AnotherRun
  /\ Starts(Head(todo))
  /\ UNCHANGED benchVars

VariantRuns == Next /\ UNCHANGED benchVars

(* What is kept: run_and_report's ns_per_op_min and elapsed_ns_min of the  *)
(* fastest run and the sum for the average (all three as times of a run:   *)
(* an operation is that divided by a constant), run_benchmark's best       *)
(* throughput and its time stamps' differences.                            *)
FaultyKeep(run) ==
  CASE program = "counter_bench" ->
         [fastest |-> IF run.time < best.fastest THEN run.time ELSE best.fastest,
          elapsed |-> run.time, sum |-> best.sum + run.time]
    [] program = "spsc_bench" ->
         [throughput |-> IF run.throughput > best.throughput THEN run.throughput ELSE best.throughput,
          deltas |-> run.deltas]
    [] OTHER -> run

Keep(run) ==
  CASE program = "counter_bench" ->
         [fastest |-> IF run.time < best.fastest THEN run.time ELSE best.fastest,
          elapsed |-> IF run.time < best.fastest THEN run.time ELSE best.elapsed,
          sum |-> best.sum + run.time]
    [] program = "spsc_bench" -> IF run.throughput > best.throughput THEN run ELSE best
    [] OTHER -> run

Measured(run) ==
  /\ runs' = Append(runs, run)
  /\ best' = Keep(run)
  /\ UNCHANGED <<program, argument, status, args, todo, ran, report>>

MeasureCall ==
  /\ main.pc = "returned"
  /\ main' = [main EXCEPT !.pc = "idle"]
  /\ \E time \in Times : Measured([time |-> time, value |-> main.sum])
  /\ UNCHANGED <<variant, counter, mutex, accesses, worker>>

(* The k-th difference is between the time stamps of the items k and k+1.  *)
MeasureQueue ==
  /\ program = "spsc_bench" /\ AnotherRun
  /\ \E time \in Times, deltas \in [1 .. Items - 1 -> {0} \union Times] :
       /\ FoldSeq(+, 0, deltas) <= time
       /\ Measured([throughput |-> Scale \div time, deltas |-> deltas])
  /\ UNCHANGED vars

MeasureRoundTrips ==
  /\ program = "pingpong_bench" /\ AnotherRun
  /\ \E samples \in [1 .. Items -> Times] : Measured(samples)
  /\ UNCHANGED vars

-----------------------------------------------------------------------------
(* The report of a variant, and the end.                                   *)

(* "Total time spent running", which is elapsed_ns_min; BEST; AVERAGE, of  *)
(* which the sum is kept here and the number it is divided by.             *)
CounterFigures ==
  [spent |-> best.elapsed, best |-> best.fastest, sum |-> best.sum, divisor |-> Runs]

QueueFigures ==
  [throughput |-> best.throughput,
   p50 |-> Percentile(best.deltas, p50), p99 |-> Percentile(best.deltas, p99)]

RoundTripFigures ==
  [layout |-> IF args.mode = 1 THEN 1 ELSE 2,
   p50 |-> Percentile(best, p50), p99 |-> Percentile(best, p99)]

Figures ==
  CASE program = "counter_bench" -> CounterFigures
    [] program = "spsc_bench" -> QueueFigures
    [] OTHER -> RoundTripFigures

Report ==
  /\ status = "running" /\ todo # <<>> /\ runs # <<>> /\ ~AnotherRun
  /\ report' = [runs |-> runs, figures |-> IF args.printed THEN Figures ELSE <<>>]
  /\ ran' = Append(ran, Head(todo))
  /\ todo' = Tail(todo) /\ runs' = <<>> /\ best' = NothingKept
  /\ UNCHANGED <<vars, program, argument, status, args>>

Exit ==
  /\ status = "running" /\ todo = <<>>
  /\ status' = "exited"
  /\ UNCHANGED <<vars, program, argument, args, todo, runs, best, ran, report>>

Ended == status \in {"exited", "threw"} /\ UNCHANGED allVars

BenchNext ==
  \/ ParseThrows \/ Parse \/ RunTests
  \/ CallVariant \/ VariantRuns \/ MeasureCall
  \/ MeasureQueue \/ MeasureRoundTrips
  \/ Report \/ Exit \/ Ended

BenchSpec == BenchInit /\ [][BenchNext]_allVars

-----------------------------------------------------------------------------
(* The figures of a report are of the runs it is a report of, none of an   *)
(* earlier variant's.  In spsc_bench the percentiles are of the very run   *)
(* whose throughput, the greatest, is printed (lines 138 to 143).  In      *)
(* counter_bench BEST is the least time and AVERAGE is over all runs       *)
(* (lines 58 and 59); what line 57 prints as "Total time spent running"    *)
(* is the time of one run, the one BEST is of (lines 50 and 51).           *)
FiguresAreOfBestRun ==
  LET figures == report.figures
      measured == {report.runs[k] : k \in DOMAIN report.runs}
      PercentilesOf(samples) == /\ IsPercentile(figures.p50, samples, p50)
                                /\ IsPercentile(figures.p99, samples, p99)
  IN figures # <<>> =>
       CASE program = "counter_bench" ->
              /\ figures.best = Min({run.time : run \in measured})
              /\ figures.spent = figures.best
              /\ figures.sum = FoldSeq(LAMBDA run, sum : run.time + sum, 0, report.runs)
              /\ figures.divisor = Len(report.runs)
         [] program = "spsc_bench" ->
              /\ figures.throughput = Max({run.throughput : run \in measured})
              /\ \E run \in measured :
                   run.throughput = figures.throughput /\ PercentilesOf(run.deltas)
         [] OTHER -> PercentilesOf(report.runs[1])

(* The usage comments (counter_bench.cpp lines 7 to 12, spsc_bench.cpp     *)
(* lines 5 to 8, pingpong_bench.cpp lines 9 to 15): a number runs that     *)
(* variant only, no argument all of them (in pingpong_bench the first),    *)
(* with the correctness tests; the figures are shown with the suffix or no *)
(* argument, under the layout that was measured.                           *)
Documented ==
  argument = NoArgument \/
  argument.number \in 1 .. (IF program = "counter_bench" THEN 4 ELSE 2)

UsageHolds ==
  Documented =>
    /\ status = "exited" =>
         ran = IF argument # NoArgument THEN <<argument.number>>
               ELSE CASE program = "counter_bench" -> <<1, 2, 3, 4>>
                      [] program = "spsc_bench" -> <<0, 1, 2>>
                      [] OTHER -> <<1>>
    /\ report # NoReport =>
         (report.figures # <<>>) = (argument = NoArgument \/ argument.suffix)
    /\ program = "pingpong_bench" /\ report.figures # <<>> => <<report.figures.layout>> = ran
=============================================================================
