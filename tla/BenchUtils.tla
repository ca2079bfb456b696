----------------------------- MODULE BenchUtils -----------------------------
(***************************************************************************)
(* parse_bench_args of bench/bench_utils.h, of which pingpong_bench.cpp    *)
(* has a copy of its own.  An argument is the number std::stoi finds in    *)
(* front of the suffix, or NotANumber, and whether the suffix "_printed"   *)
(* follows.                                                                *)
(*                                                                         *)
(* (Faulty... : coding errors, see module SpscQueue.)                      *)
(***************************************************************************)
CONSTANTS NoArgument, NotANumber

(* std::stoi throws, and nothing catches it.                               *)
Throws(argument) == argument # NoArgument /\ argument.number = NotANumber

(* `defaults` is what a program does when it is given no argument.         *)
FaultySuffixSilences(argument, defaults) ==
  IF argument = NoArgument THEN defaults
  ELSE [mode |-> argument.number, printed |-> ~argument.suffix]

Parsed(argument, defaults) ==
  IF argument = NoArgument THEN defaults
  ELSE [mode |-> argument.number, printed |-> argument.suffix]
=============================================================================
