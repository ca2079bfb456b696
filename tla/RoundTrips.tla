----------------------------- MODULE RoundTrips -----------------------------
(***************************************************************************)
(* What two threads do for each other in bench/pingpong_bench.cpp and in   *)
(* test case 2 of bench/spsc_head_to_head.cpp: a ball goes there and back, *)
(* `rounds` times, and it is always in exactly one place.                  *)
(***************************************************************************)
EXTENDS Naturals

VARIABLES
  rounds,  \* round trips asked for
  trips,   \* round trips completed
  ball     \* where it is

vars == <<rounds, trips, ball>>

Init ==
  /\ rounds \in Nat
  /\ trips = 0
  /\ ball = "home"

Move(from, to) == ball = from /\ ball' = to

Send    == trips < rounds /\ Move("home", "request") /\ UNCHANGED <<rounds, trips>>
Receive == Move("request", "away") /\ UNCHANGED <<rounds, trips>>
Answer  == Move("away", "response") /\ UNCHANGED <<rounds, trips>>
Return  == Move("response", "home") /\ trips' = trips + 1 /\ UNCHANGED rounds

Next == Send \/ Receive \/ Answer \/ Return

Safety == Init /\ [][Next]_vars

(* The ball never stays: all the rounds are completed.                     *)
Spec == Safety /\ WF_vars(Next)
=============================================================================
