--------------------------- MODULE HeapOwnership ---------------------------
(***************************************************************************)
(* experiments/unique_ptr.cpp and experiments/move_semantics.cpp: who owns *)
(* which heap block while a client calls the operations of UniquePtr and   *)
(* Buffer in any order the language allows.                                *)
(*                                                                         *)
(* A block is what one `new` returned: one object for a UniquePtr, an      *)
(* array of `size` ints for a Buffer; what the ints are is left out.  An   *)
(* allocation may throw: in a constructor or make_unique that changes      *)
(* nothing, as no variable comes to life; in a copy assignment see         *)
(* CopyAssignThrows.  The client deletes nothing itself.                   *)
(*                                                                         *)
(* Pointers are addresses, as in the program: one whose block was deleted  *)
(* keeps its value, and the block may be handed out again.  Deleting an    *)
(* address that is not in use, or accessing what is not in an array, is    *)
(* undefined behaviour: `fault` records it, and the run ends there.        *)
(*                                                                         *)
(* (Faulty... : coding errors, see module SpscQueue.)                      *)
(***************************************************************************)
EXTENDS Naturals, FiniteSets

CONSTANTS
  Block,   \* addresses the allocator hands out
  Unique,  \* UniquePtr variables of the client
  Buffer,  \* Buffer variables of the client
  Null,    \* nullptr
  Size     \* array sizes asked for

Object == Unique \union Buffer

ASSUME HeapAssumption ==
  /\ Unique \intersect Buffer = {}
  /\ Null \notin Block \union Nat
  /\ Size \subseteq Nat

VARIABLES
  heap,   \* heap[b]: length of the array in block b, Null when b is not in use
  ptr,    \* ptr[o]: UniquePtr's ptr, Buffer's data
  size,   \* size[b]: Buffer's size
  live,   \* the variables that have been constructed and not destroyed
  raw,    \* blocks the client owns through raw pointers
  threw,  \* history: the allocation of a copy assignment has thrown
  fault   \* the undefined behaviour that ended the run, or "none"

vars == <<heap, ptr, size, live, raw, threw, fault>>

Init ==
  /\ heap = [b \in Block |-> Null]
  /\ ptr = [o \in Object |-> Null]
  /\ size = [o \in Buffer |-> 0]
  /\ live = {} /\ raw = {}
  /\ threw = FALSE /\ fault = "none"

(* After undefined behaviour nothing more is said.                         *)
Running == fault = "none"

Unused(h) == {b \in Block : h[b] = Null}

(* delete of a null pointer does nothing.                                  *)
Deleted(h, p) == IF p = Null THEN h ELSE [h EXCEPT ![p] = Null]
DeleteFault(p) == IF p \in Unused(heap) THEN "double delete" ELSE "none"

(* The first n ints at p are read or written.                              *)
AccessFault(h, p, n) ==
  IF n > 0 /\ (p = Null \/ p \in Unused(h) \/ n > h[p]) THEN "bad access" ELSE "none"

(* A `new` in heap h for variable o: an array of n ints.                   *)
Allocates(o, h, n) ==
  \E b \in Unused(h) :
    /\ heap' = [h EXCEPT ![b] = n]
    /\ ptr' = [ptr EXCEPT ![o] = b]

-----------------------------------------------------------------------------
(* UniquePtr.                                                              *)

ClientNews ==
  /\ Running
  /\ \E b \in Unused(heap) : heap' = [heap EXCEPT ![b] = 1] /\ raw' = raw \union {b}
  /\ UNCHANGED <<ptr, size, live, threw, fault>>

Construct(u) ==
  /\ Running /\ u \notin live
  /\ \E p \in raw \union {Null} :
       ptr' = [ptr EXCEPT ![u] = p] /\ raw' = raw \ {p}
  /\ live' = live \union {u}
  /\ UNCHANGED <<heap, size, threw, fault>>

make_unique(u) ==
  /\ Running /\ u \notin live
  /\ Allocates(u, heap, 1)
  /\ live' = live \union {u}
  /\ UNCHANGED <<size, raw, threw, fault>>

release(u) ==
  /\ Running /\ u \in live
  /\ raw' = raw \union ({ptr[u]} \ {Null})
  /\ ptr' = [ptr EXCEPT ![u] = Null]
  /\ UNCHANGED <<heap, size, live, threw, fault>>

reset(u) ==
  /\ Running /\ u \in live
  /\ fault' = DeleteFault(ptr[u])
  /\ heap' = Deleted(heap, ptr[u])
  /\ \E p \in raw \union {Null} :
       ptr' = [ptr EXCEPT ![u] = p] /\ raw' = raw \ {p}
  /\ UNCHANGED <<size, live, threw>>

-----------------------------------------------------------------------------
(* Moves and destruction, which the two classes share but for size.        *)

SameClass(o, other) == o \in Unique <=> other \in Unique

SizeMoved(o, other) ==
  size' = IF o \in Unique THEN size ELSE [size EXCEPT ![o] = size[other], ![other] = 0]

FaultySourceKept(o, other) == [ptr EXCEPT ![o] = ptr[other]]
PtrMoved(o, other) == [ptr EXCEPT ![o] = ptr[other], ![other] = Null]

MoveConstruct(o, other) ==
  /\ Running /\ o \notin live /\ other \in live /\ SameClass(o, other)
  /\ ptr' = PtrMoved(o, other)
  /\ SizeMoved(o, other)
  /\ live' = live \union {o}
  /\ UNCHANGED <<heap, raw, threw, fault>>

(* Moving a variable to itself changes nothing.                            *)
MoveAssign(o, other) ==
  /\ Running /\ o \in live /\ other \in live \ {o} /\ SameClass(o, other)
  /\ fault' = DeleteFault(ptr[o])
  /\ heap' = Deleted(heap, ptr[o])
  /\ ptr' = PtrMoved(o, other)
  /\ SizeMoved(o, other)
  /\ UNCHANGED <<live, raw, threw>>

(* Whatever happened to it: on scope exit and when an exception unwinds.   *)
Destroy(o) ==
  /\ Running /\ o \in live
  /\ fault' = DeleteFault(ptr[o])
  /\ heap' = Deleted(heap, ptr[o])
  /\ ptr' = [ptr EXCEPT ![o] = Null]
  /\ size' = IF o \in Unique THEN size ELSE [size EXCEPT ![o] = 0]
  /\ live' = live \ {o}
  /\ UNCHANGED <<raw, threw>>

-----------------------------------------------------------------------------
(* Buffer.                                                                 *)

ConstructBuffer(o) ==
  /\ Running /\ o \notin live
  /\ \E n \in Size : Allocates(o, heap, n) /\ size' = [size EXCEPT ![o] = n]
  /\ live' = live \union {o}
  /\ UNCHANGED <<raw, threw, fault>>

(* std::copy reads size[other] ints at other's data.                       *)
CopyConstruct(o, other) ==
  /\ Running /\ o \notin live /\ other \in live
  /\ size' = [size EXCEPT ![o] = size[other]]
  /\ Allocates(o, heap, size[other])
  /\ fault' = AccessFault(heap', ptr[other], size[other])
  /\ live' = live \union {o}
  /\ UNCHANGED <<raw, threw>>

FaultySizeKept(o, other) == size
SizeCopied(o, other) == [size EXCEPT ![o] = size[other]]

(* The old array is gone before the new one is asked for.                  *)
CopyAssign(o, other) ==
  /\ Running /\ o \in live /\ other \in live \ {o}
  /\ size' = SizeCopied(o, other)
  /\ Allocates(o, Deleted(heap, ptr[o]), size[other])
  /\ fault' = IF DeleteFault(ptr[o]) # "none" THEN DeleteFault(ptr[o])
              ELSE AccessFault(heap', ptr[other], size[other])
  /\ UNCHANGED <<live, raw, threw>>

(* The exception leaves o alive, with the new size and the old address.    *)
CopyAssignThrows(o, other) ==
  /\ Running /\ o \in live /\ other \in live \ {o}
  /\ fault' = DeleteFault(ptr[o])
  /\ heap' = Deleted(heap, ptr[o])
  /\ size' = SizeCopied(o, other)
  /\ threw' = TRUE
  /\ UNCHANGED <<ptr, live, raw>>

(* The client reads or stores through data, below size.                    *)
Access(o) ==
  /\ Running /\ o \in live /\ size[o] > 0
  /\ fault' = AccessFault(heap, ptr[o], size[o])
  /\ UNCHANGED <<heap, ptr, size, live, raw, threw>>

-----------------------------------------------------------------------------
UniqueStep ==
  \/ ClientNews
  \/ \E u \in Unique : Construct(u) \/ make_unique(u) \/ release(u) \/ reset(u)

SharedStep ==
  \E o \in Object :
    \/ Destroy(o)
    \/ \E other \in Object : MoveConstruct(o, other) \/ MoveAssign(o, other)

BufferStep ==
  \E o \in Buffer :
    \/ ConstructBuffer(o) \/ Access(o)
    \/ \E other \in Buffer :
         CopyConstruct(o, other) \/ CopyAssign(o, other) \/ CopyAssignThrows(o, other)

Stopped == ~Running /\ UNCHANGED vars

Next == UniqueStep \/ SharedStep \/ BufferStep \/ Stopped

Spec == Init /\ [][Next]_vars

-----------------------------------------------------------------------------
Owners(b) == {o \in live : ptr[o] = b}
Allocated == Block \ Unused(heap)

(* After any sequence of calls every block in use has an owner: nothing    *)
(* leaks, not even when a copy assignment throws.  Until one throws, it    *)
(* has exactly one, and every owner owns a block that exists: copies are   *)
(* deep and moves leave nothing behind (the nulled source of unique_ptr    *)
(* .cpp line 55; move_semantics.cpp lines 46 to 49 and 66 to 70).          *)
OwnersPartitionHeap ==
  /\ \A b \in Allocated : b \in raw \/ Owners(b) # {}
  /\ ~threw =>
       /\ \A b \in Allocated :
            Cardinality(Owners(b)) + (IF b \in raw THEN 1 ELSE 0) = 1
       /\ \A o \in live : ptr[o] \in Allocated \union {Null}
       /\ raw \subseteq Allocated

(* The only way to delete a block twice or to leave an array is a copy     *)
(* assignment that throws (move_semantics.cpp line 48): moved-from, empty, *)
(* reassigned and reset variables can be copied, accessed below size (line *)
(* 37) and destroyed (line 30) in any order.                               *)
FaultNeedsThrow == fault # "none" => threw

(* The rule of five (move_semantics.cpp line 3, README.md line 29) and     *)
(* "handle old data removal" (line 41) promise that each array is deleted  *)
(* once, by whichever member function comes first.                         *)
NothingDeletedTwice == fault # "double delete"
=============================================================================
