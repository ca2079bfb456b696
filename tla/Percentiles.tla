----------------------------- MODULE Percentiles -----------------------------
(***************************************************************************)
(* The percentile function that bench/spsc_bench.cpp, pingpong_bench.cpp   *)
(* and cas_spinlock.cpp each have a copy of.  A percentage is a pair, and  *)
(* the position is computed exactly, where the code truncates a product    *)
(* of doubles: for the programs' own percentages and sample counts the two *)
(* agree, and for others no property here shows where they do not.         *)
(***************************************************************************)
EXTENDS Integers, Sequences, TLC

p50 == <<50, 100>>
p99 == <<99, 100>>

Ascending(samples) == SortSeq(samples, LAMBDA x, y : x < y)

(* The position, from 0, that is read of n samples.                        *)
Rank(p, n) == IF p[1] >= p[2] THEN n - 1 ELSE (p[1] * n) \div p[2]

Percentile(samples, p) == Ascending(samples)[Rank(p, Len(samples)) + 1]

(* What a percentile should be: at most the fraction p of the samples are  *)
(* smaller, and more than that are not greater.                            *)
IsPercentile(value, samples, p) ==
  LET Count(Test(_)) == Len(SelectSeq(samples, Test))
  IN /\ p[2] * Count(LAMBDA x : x < value) <= p[1] * Len(samples)
     /\ p[2] * Count(LAMBDA x : x <= value) > p[1] * Len(samples)
=============================================================================
