--------------------------- MODULE SpscSequential ---------------------------
(***************************************************************************)
(* spsc/SpscQueue.h called from one thread, as size_test of                *)
(* bench/spsc_bench.cpp does, on Width-bit indices with the code's own     *)
(* operators: unsigned subtraction and the mask `& (Capacity - 1)`.  Every *)
(* Capacity the static_assert admits is explored, through every wrap of    *)
(* the indices.  Each call is one step: there is no other thread.          *)
(* (Faulty... : see module SpscQueue.)                                     *)
(***************************************************************************)
EXTENDS Integers, Sequences, Bitwise

CONSTANTS
  Width,  \* bits of std::size_t
  Item    \* what is pushed

ASSUME WidthAssumption == Width \in Nat \ {0}

VARIABLES
  capacity,    \* the template argument Capacity
  buf,         \* buf_, by slot; a function with the stored slots only
  head, tail, head_cache, tail_cache,
  contents,    \* what a queue would hold: pushed and not yet popped
  result       \* what the last call returned or stored

vars == <<capacity, buf, head, tail, head_cache, tail_cache, contents, result>>

IndexMod == 2 ^ Width

FaultyMinusSaturates(x, y) == IF x < y THEN 0 ELSE x - y
Minus(x, y) == (x - y) % IndexMod
Plus(x, y) == (x + y) % IndexMod

(* static_assert, line 29.  It admits the powers of two, and 0.            *)
Admitted(c) == (c & Minus(c, 1)) = 0

SlotOf(index) == index & Minus(capacity, 1)

Init ==
  /\ capacity \in {c \in 0 .. IndexMod - 1 : Admitted(c)}
  /\ buf = <<>>
  /\ head = 0 /\ tail = 0 /\ head_cache = 0 /\ tail_cache = 0
  /\ contents = <<>>
  /\ result = "none"

(* The cached index, reloaded when it calls for it.                        *)
FaultyHeadNotReloaded == head_cache
FaultyHeadFromTail == IF Minus(tail, head_cache) = capacity THEN tail ELSE head_cache
HeadKnown == IF Minus(tail, head_cache) = capacity THEN head ELSE head_cache
TailKnown == IF head = tail_cache THEN tail ELSE tail_cache

Store(item) == [s \in DOMAIN buf \union {SlotOf(tail)} |->
                  IF s = SlotOf(tail) THEN item ELSE buf[s]]

TryPush(item) ==
  /\ head_cache' = HeadKnown
  /\ \/ /\ Minus(tail, HeadKnown) = capacity
        /\ result' = "full"
        /\ UNCHANGED <<buf, tail, contents>>
     \/ /\ Minus(tail, HeadKnown) # capacity
        /\ buf' = Store(item)
        /\ tail' = Plus(tail, 1)
        /\ contents' = Append(contents, item)
        /\ result' = "pushed"
  /\ UNCHANGED <<capacity, head, tail_cache>>

TryPop ==
  /\ tail_cache' = TailKnown
  /\ \/ /\ head = TailKnown
        /\ result' = "empty"
        /\ UNCHANGED <<head, contents>>
     \/ /\ head # TailKnown
        /\ result' = buf[SlotOf(head)]
        /\ head' = Plus(head, 1)
        /\ contents' = Tail(contents)
  /\ UNCHANGED <<capacity, buf, tail, head_cache>>

Size == Minus(tail, head)
Empty == head = tail

Next == TryPop \/ \E item \in Item : TryPush(item)

Spec == Init /\ [][Next]_vars

-----------------------------------------------------------------------------
(* Full and empty are told apart without a flag, however the indices have  *)
(* wrapped (SPSC_Paper_Design.md lines 22 to 26): size() and empty() are   *)
(* exact, and the queue holds at most Capacity items.                      *)
SizeIsExact ==
  /\ Size = Len(contents)
  /\ Size <= capacity
  /\ Empty <=> contents = <<>>

(* No two items in the queue share a slot, and each slot still holds its   *)
(* item: the mask is a remainder for every admitted Capacity.  (For        *)
(* Capacity 0 it says nothing: no item is ever in the queue.)              *)
SlotsHoldContents ==
  \A i \in 1 .. Len(contents) : buf[SlotOf(Plus(head, i - 1))] = contents[i]

(* size_test, lines 58 to 64: try_push refuses exactly when Capacity items *)
(* are in the queue, and try_pop exactly when none is.                     *)
RefusalsAreExact ==
  [][/\ result' = "full" => Len(contents) = capacity
     /\ result' = "empty" => contents = <<>>
     /\ result' = "pushed" => Len(contents) < capacity]_vars
=============================================================================
