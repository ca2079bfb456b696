---------------------------- MODULE LibraryQueue ----------------------------
(***************************************************************************)
(* bench/spsc_head_to_head.cpp: the wrappers around the queues it compares *)
(* SpscQueue with.  The libraries are not in the repository; the wrappers  *)
(* use each one as a BoundedFifo, of the capacity q{N} gives it.  try_push *)
(* is one call of the library.  try_pop is one call too for moodycamel and *)
(* boost, but three for rigtorp and folly: a pointer to the front, the     *)
(* copy through it, and the pop.  A call that returns false is no step.    *)
(***************************************************************************)
EXTENDS Naturals, Sequences

CONSTANTS Capacity, Indeterminate  \* see SpscQueue

VARIABLES
  queue,    \* what the library's queue holds
  consumer  \* the popping thread: the call it is in, and v

Library == INSTANCE BoundedFifo WITH items <- queue, Item <- Nat

WrapperInit == Library!Init /\ consumer = [pc |-> "idle", out |-> Indeterminate]

Write(item) == Library!Push(item)

(* rigtorp and folly.                                                      *)

FrontPtr ==
  /\ consumer.pc = "idle" /\ queue # <<>>
  /\ consumer' = [consumer EXCEPT !.pc = "copy"]
  /\ UNCHANGED queue

CopyOut ==
  /\ consumer.pc = "copy"
  /\ consumer' = [consumer EXCEPT !.pc = "publish", !.out = Head(queue)]
  /\ UNCHANGED queue

PopFront ==
  /\ consumer.pc = "publish"
  /\ Library!Pop
  /\ consumer' = [consumer EXCEPT !.pc = "idle"]

(* moodycamel and boost: the library copies and pops, and returns true.    *)

Dequeue ==
  /\ consumer.pc = "idle"
  /\ Library!Pop
  /\ consumer' = [pc |-> "return", out |-> Head(queue)]

Return ==
  /\ consumer.pc = "return"
  /\ consumer' = [consumer EXCEPT !.pc = "idle"]
  /\ UNCHANGED queue
=============================================================================
