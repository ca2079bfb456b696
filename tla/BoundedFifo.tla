---------------------------- MODULE BoundedFifo ----------------------------
(***************************************************************************)
(* What spsc/SpscQueue.h promises its two threads: a first-in first-out    *)
(* queue of at most Capacity items.  A call that returns false changes     *)
(* nothing, so it is a stuttering step here.                               *)
(***************************************************************************)
EXTENDS Naturals, Sequences

CONSTANTS Capacity, Item

VARIABLE items

Init == items = <<>>

Push(item) ==
  /\ Len(items) < Capacity
  /\ items' = Append(items, item)

Pop ==
  /\ items # <<>>
  /\ items' = Tail(items)

Next == Pop \/ \E item \in Item : Push(item)

Safety == Init /\ [][Next]_items

(* A queue that holds an item is eventually drained of its oldest one.     *)
Spec == Safety /\ WF_items(Pop)
=============================================================================
