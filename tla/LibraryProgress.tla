-------------------------- MODULE LibraryProgress --------------------------
(***************************************************************************)
(* What is invariant of one of the queues of module LibraryQueue: as       *)
(* SpscProgress says it of an SpscQueue, but the wrapper's calls are all   *)
(* there is to know.                                                       *)
(***************************************************************************)
EXTENDS LibraryQueue

VARIABLES
  pushed,  \* calls of try_push that have returned true
  popped,  \* calls of try_pop that have returned true
  items    \* items[k] is what the k-th push pushes, counted from 0

(* Items taken off the queue: moodycamel and boost take one before try_pop *)
(* returns.                                                                *)
Taken == IF consumer.pc = "return" THEN popped + 1 ELSE popped

TypeInv ==
  /\ queue \in Seq(Nat)
  /\ consumer \in [pc : {"idle", "copy", "publish", "return"},
                   out : Nat \union {Indeterminate}]
  /\ pushed \in Nat
  /\ popped \in Nat

(* The queue holds what was pushed and not yet taken, in order; a pop in   *)
(* progress has a front to copy, and what it copied is the next item.      *)
Inv ==
  /\ TypeInv
  /\ Len(queue) = pushed - Taken
  /\ \A k \in 1 .. Len(queue) : queue[k] = items[Taken + k - 1]
  /\ consumer.pc \in {"copy", "publish"} => queue # <<>>
  /\ consumer.pc \in {"publish", "return"} => consumer.out = items[popped]
=============================================================================
