------------------------------ MODULE MedianCsv ------------------------------
(***************************************************************************)
(* scripts/spsc_queue_head_to_head/spsc_head_to_head.sh: every             *)
(* configuration is measured some number of times, emit_csv_rows appends   *)
(* each measurement's rows to RAW_CSV, and compute_medians collapses them  *)
(* into one row per configuration and metric.                              *)
(*                                                                         *)
(* The loop is the left side of a pipe into tee, under `set -e` without    *)
(* pipefail: a command that fails ends the loop, and the script goes on.   *)
(* perf prints "<not supported>" for a counter the machine does not have,  *)
(* and awk's "<not" reads as 0.  awk is one that ends at a division by     *)
(* zero, as gawk does; mawk prints inf.  "misses" stands for both miss     *)
(* counters, "ns" for the four percentiles; the row of the elapsed time,   *)
(* a counter that is always there, is left out.                            *)
(*                                                                         *)
(* (Faulty... : coding errors, see module SpscQueue.)                      *)
(***************************************************************************)
EXTENDS Integers, Sequences, FiniteSets, Functions, SequencesExt

CONSTANTS
  Configs,      \* test cases of the configurations, in the loop's order
  Repeats,      \* REPEATS
  RepeatsTC1,   \* REPEATS_TC1
  Values,       \* Values[metric]: what a measurement of it may print
  Unsupported,  \* what perf prints for a counter the machine does not have
  Scale         \* the fraction digits of %.6f: one is this many of its units

Counters == {"cycles", "instructions", "misses"}

ASSUME MedianAssumption ==
  /\ Configs \in Seq(1 .. 3)
  /\ Repeats \in Nat \ {0} /\ RepeatsTC1 \in Nat \ {0} /\ Scale \in Nat \ {0}
  /\ \A metric \in Counters \union {"ns"} : Values[metric] \subseteq Nat \ {0}
  /\ Unsupported \notin Int

VARIABLES
  raw,   \* rows of RAW_CSV after the header: [key, value], key: [config, metric]
  at,    \* configuration being measured
  run,   \* measurements of it made
  phase, \* "measuring", then "collapsing", then "written"
  csv    \* rows of CSV_OUT: [key, twice the median]

vars == <<raw, at, run, phase, csv>>

Init ==
  /\ raw = <<>> /\ csv = <<>>
  /\ at = 1 /\ run = 0
  /\ phase = "measuring"

repeats_for_tc(tc) == IF tc = 1 THEN RepeatsTC1 ELSE Repeats

-----------------------------------------------------------------------------
(* The measuring loop.                                                     *)

Row(metric, value) == <<[key |-> [config |-> at, metric |-> metric], value |-> value]>>

(* awk's `+ 0` and its operands of `/`.                                    *)
Number(printed) == IF printed = Unsupported THEN 0 ELSE printed

CounterRows(count) ==
  Row("cycles", count["cycles"]) \o Row("instructions", count["instructions"])
  \o Row("misses", count["misses"])

(* END's guards compare strings and let "<not" through, so a missing       *)
(* divisor ends awk before the row of its quotient, and with it the loop.  *)
Ipc(count) == Row("ipc", (Scale * Number(count["instructions"])) \div count["cycles"])
MissRate(count) ==
  Row("misses_per_kinstr",
      (1000 * Scale * Number(count["misses"])) \div count["instructions"])

(* The second awk finds percentiles in the output of test case 3 only.     *)
LatencyRows(ns) == IF Configs[at] = 3 THEN Row("ns", ns) ELSE <<>>

Printed(metric) == Values[metric] \union {Unsupported}

Counts ==
  [cycles : Printed("cycles"), instructions : Printed("instructions"),
   misses : Printed("misses")]

(* perf stat succeeded, and so does emit_csv_rows.                         *)
Measure ==
  /\ phase = "measuring" /\ at <= Len(Configs)
  /\ \E count \in Counts, ns \in Values["ns"] :
       /\ Unsupported \notin {count["cycles"], count["instructions"]}
       /\ raw' = raw \o CounterRows(count) \o Ipc(count) \o MissRate(count)
                     \o LatencyRows(ns)
  /\ IF run + 1 = repeats_for_tc(Configs[at]) THEN at' = at + 1 /\ run' = 0
                                              ELSE at' = at /\ run' = run + 1
  /\ UNCHANGED <<phase, csv>>

(* emit_csv_rows divides by a counter that is missing.                     *)
EmitFails ==
  /\ phase = "measuring" /\ at <= Len(Configs)
  /\ \E count \in Counts :
       /\ Unsupported \in {count["cycles"], count["instructions"]}
       /\ raw' = raw \o CounterRows(count)
                     \o (IF count["cycles"] = Unsupported THEN <<>> ELSE Ipc(count))
  /\ phase' = "collapsing"
  /\ UNCHANGED <<at, run, csv>>

(* perf stat, or the benchmark under it, failed.                           *)
MeasureFails ==
  /\ phase = "measuring" /\ at <= Len(Configs)
  /\ phase' = "collapsing"
  /\ UNCHANGED <<raw, at, run, csv>>

LoopEnds ==
  /\ phase = "measuring" /\ at > Len(Configs)
  /\ phase' = "collapsing"
  /\ UNCHANGED <<raw, at, run, csv>>

-----------------------------------------------------------------------------
(* compute_medians.                                                        *)

(* The values of a key, in the order of the rows.                          *)
Collected(key) ==
  LET rows == SelectSeq(raw, LAMBDA r : r.key = key)
  IN [i \in DOMAIN rows |-> Number(rows[i].value)]

(* One round of the insertion sort: the elements of v greater than x move  *)
(* up by one and x takes their place.                                      *)
FaultyInserted(v, x) == Append(v, x)
Inserted(v, x) ==
  SelectSeq(v, LAMBDA e : e <= x) \o <<x>> \o SelectSeq(v, LAMBDA e : e > x)

Sorted(v) == FoldLeft(Inserted, <<>>, v)

TwiceMedian(v) ==
  LET cnt == Len(v) IN
  IF cnt % 2 = 1 THEN 2 * v[(cnt + 1) \div 2] ELSE v[cnt \div 2] + v[cnt \div 2 + 1]

(* `order`: the keys by first appearance.                                  *)
Order ==
  LET Noted(keys, row) == IF Contains(keys, row.key) THEN keys ELSE Append(keys, row.key)
  IN FoldLeft(Noted, <<>>, raw)

Collapse ==
  /\ phase = "collapsing"
  /\ phase' = "written"
  /\ LET order == Order IN
       csv' = [i \in DOMAIN order |->
                 [key |-> order[i],
                  twice_median |-> TwiceMedian(Sorted(Collected(order[i])))]]
  /\ UNCHANGED <<raw, at, run>>

Written == phase = "written" /\ UNCHANGED vars

Next == Measure \/ EmitFails \/ MeasureFails \/ LoopEnds \/ Collapse \/ Written

Spec == Init /\ [][Next]_vars

-----------------------------------------------------------------------------
(* Comment of lines 17 and 18 and header of line 85: CSV_OUT has one row   *)
(* for each key that was measured, and its value splits the measured ones  *)
(* in two halves, for an odd and for an even number of runs, after a loop  *)
(* that a failure ended anywhere.  Of how many runs it is the median is    *)
(* not said: a failed loop leaves fewer than the repeats.  "<not" counts   *)
(* as the 0 that awk reads.                                                *)
RowsAreMedians ==
  phase = "written" =>
    /\ IsInjective([i \in DOMAIN csv |-> csv[i].key])
    /\ {csv[i].key : i \in DOMAIN csv} = {raw[i].key : i \in DOMAIN raw}
    /\ \A i \in DOMAIN csv :
         LET measured == Collected(csv[i].key)
             below == {k \in DOMAIN measured : 2 * measured[k] < csv[i].twice_median}
             above == {k \in DOMAIN measured : 2 * measured[k] > csv[i].twice_median}
         IN 2 * Cardinality(below) <= Len(measured) /\ 2 * Cardinality(above) <= Len(measured)
=============================================================================
