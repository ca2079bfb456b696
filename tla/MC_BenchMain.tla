---------------------------- MODULE MC_BenchMain ----------------------------
(* A variant alone, one that does not exist and all of them, with and      *)
(* without the suffix, and an argument that is no number.                  *)
EXTENDS BenchMain

MCArguments == [number : {0, 1, 2, 5}, suffix : BOOLEAN]
                 \union {[number |-> NotANumber, suffix |-> TRUE]}
=============================================================================
