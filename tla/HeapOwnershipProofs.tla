------------------------ MODULE HeapOwnershipProofs ------------------------
(***************************************************************************)
(* Proofs about the ownership of heap blocks, for any number of variables, *)
(* blocks and sizes, and any sequence of calls.                            *)
(***************************************************************************)
EXTENDS HeapOwnership, FiniteSetTheorems, TLAPS

TypeOK ==
  /\ heap \in [Block -> Nat \union {Null}]
  /\ ptr \in [Object -> Block \union {Null}]
  /\ size \in [Buffer -> Nat]
  /\ live \subseteq Object /\ raw \subseteq Block
  /\ threw \in BOOLEAN

(* What is in use is owned, by a variable or through a raw pointer.        *)
Owned(b) == b \in raw \/ \E o \in live : ptr[o] = b
NothingLeaks == \A b \in Block : heap[b] # Null => Owned(b)

(* What is owned is in use.                                                *)
NothingDangles ==
  /\ \A b \in raw : heap[b] # Null
  /\ \A o \in live : ptr[o] # Null => heap[ptr[o]] # Null

(* No two owners share a block.                                            *)
NothingShared ==
  /\ \A o \in live : ptr[o] \notin raw
  /\ \A o, other \in live : ptr[o] = ptr[other] => o = other \/ ptr[o] = Null

(* A Buffer's size is the length of its array, and an emptied one has no   *)
(* array (move_semantics.cpp lines 57 and 58).                             *)
SizeIsLength ==
  \A o \in live \intersect Buffer :
    size[o] = IF ptr[o] = Null THEN 0 ELSE heap[ptr[o]]

(* What a throwing copy assignment puts an end to.                         *)
Sound == NothingDangles /\ NothingShared /\ SizeIsLength /\ fault = "none"

Inv == TypeOK /\ NothingLeaks /\ (~threw => Sound)

LEMMA InitInv == Init => Inv
<1>1. Init => TypeOK
  <2> SUFFICES ASSUME Init
               PROVE  TypeOK
    OBVIOUS
  <2>1. heap \in [Block -> Nat \union {Null}] /\ ptr \in [Object -> Block \union {Null}]
    BY DEF Init
  <2>2. size \in [Buffer -> Nat] /\ live \subseteq Object /\ raw \subseteq Block
    BY DEF Init
  <2>3. threw \in BOOLEAN
    BY DEF Init
  <2> QED
    BY <2>1, <2>2, <2>3 DEF TypeOK
<1>2. Init => NothingLeaks
  BY DEF Init, NothingLeaks
<1>3. Init => Sound
  BY DEF Init, Sound, NothingDangles, NothingShared, SizeIsLength
<1> QED
  BY <1>1, <1>2, <1>3 DEF Inv

(* An address that is owned is in use, so deleting it is no fault.         *)
LEMMA OwnedDeletes ==
  ASSUME Inv, ~threw, NEW o \in live
  PROVE  DeleteFault(ptr[o]) = "none"
BY HeapAssumption DEF DeleteFault, Unused, Inv, TypeOK, Sound, NothingDangles, Object

-----------------------------------------------------------------------------
(* The UniquePtr operations.                                               *)

LEMMA ClientNewsInv == Inv /\ ClientNews => Inv'
BY HeapAssumption
DEF ClientNews, Inv, Sound, TypeOK, NothingDangles, NothingLeaks, NothingShared, SizeIsLength,
    Owned, Unused, Object

LEMMA ConstructInv ==
  ASSUME Inv, NEW u \in Unique, Construct(u)
  PROVE  Inv'
BY HeapAssumption
DEF Construct, Inv, Sound, TypeOK, NothingDangles, NothingLeaks, NothingShared, SizeIsLength,
    Owned, Object

LEMMA make_uniqueInv ==
  ASSUME Inv, NEW u \in Unique, make_unique(u)
  PROVE  Inv'
BY HeapAssumption
DEF make_unique, Inv, Sound, TypeOK, NothingDangles, NothingLeaks, NothingShared, SizeIsLength,
    Owned, Unused, Allocates, Object

LEMMA releaseInv ==
  ASSUME Inv, NEW u \in Unique, release(u)
  PROVE  Inv'
BY HeapAssumption
DEF release, Inv, Sound, TypeOK, NothingDangles, NothingLeaks, NothingShared, SizeIsLength,
    Owned, Object

LEMMA resetInv ==
  ASSUME Inv, NEW u \in Unique, reset(u)
  PROVE  Inv'
BY HeapAssumption, OwnedDeletes
DEF reset, Inv, Sound, TypeOK, NothingDangles, NothingLeaks, NothingShared, SizeIsLength,
    Owned, Object, Deleted

-----------------------------------------------------------------------------
(* Moves and destruction.                                                  *)

LEMMA MoveConstructInv ==
  ASSUME Inv, NEW o \in Object, NEW other \in Object, MoveConstruct(o, other)
  PROVE  Inv'
BY HeapAssumption
DEF MoveConstruct, Inv, Sound, TypeOK, NothingDangles, NothingLeaks, NothingShared,
    SizeIsLength, Owned, Object, SameClass, SizeMoved, PtrMoved

LEMMA MoveAssignInv ==
  ASSUME Inv, NEW o \in Object, NEW other \in Object, MoveAssign(o, other)
  PROVE  Inv'
<1>1. /\ o \in live /\ other \in live /\ o # other
      /\ heap' = Deleted(heap, ptr[o]) /\ fault' = DeleteFault(ptr[o])
      /\ ptr' = [ptr EXCEPT ![o] = ptr[other], ![other] = Null]
      /\ live' = live /\ raw' = raw /\ threw' = threw
  BY DEF MoveAssign, PtrMoved
<1>2. TypeOK'
  BY HeapAssumption
  DEF MoveAssign, PtrMoved, SizeMoved, SameClass, Inv, TypeOK, Deleted, Object
<1>3. NothingLeaks'
  BY <1>1, HeapAssumption
  DEF Inv, TypeOK, NothingLeaks, Owned, Object, Deleted
<1>4. ASSUME ~threw
      PROVE  Sound'
  <2>1. NothingDangles'
    BY <1>1, <1>4, HeapAssumption
    DEF Inv, Sound, TypeOK, NothingDangles, NothingShared, Object, Deleted
  <2>2. NothingShared'
    BY <1>1, <1>4, HeapAssumption DEF Inv, Sound, TypeOK, NothingShared, Object
  <2>3. SizeIsLength'
    <3> SUFFICES ASSUME NEW x \in live \intersect Buffer
                 PROVE  size'[x] = IF ptr'[x] = Null THEN 0 ELSE heap'[ptr'[x]]
      BY <1>1 DEF SizeIsLength
    <3> QED
      BY <1>1, <1>4, HeapAssumption
      DEF MoveAssign, SizeMoved, SameClass, Inv, Sound, TypeOK, NothingShared, SizeIsLength,
          Object, Deleted
  <2> QED
    BY <1>1, <1>4, <2>1, <2>2, <2>3, OwnedDeletes DEF Sound
<1> QED
  BY <1>1, <1>2, <1>3, <1>4 DEF Inv

LEMMA DestroyInv ==
  ASSUME Inv, NEW o \in Object, Destroy(o)
  PROVE  Inv'
BY HeapAssumption, OwnedDeletes
DEF Destroy, Inv, Sound, TypeOK, NothingDangles, NothingLeaks, NothingShared, SizeIsLength,
    Owned, Object, Deleted

-----------------------------------------------------------------------------
(* The Buffer operations.                                                  *)

LEMMA ConstructBufferInv ==
  ASSUME Inv, NEW o \in Buffer, ConstructBuffer(o)
  PROVE  Inv'
BY HeapAssumption
DEF ConstructBuffer, Inv, Sound, TypeOK, NothingDangles, NothingLeaks, NothingShared,
    SizeIsLength, Owned, Object, Allocates, Unused

(* An array whose length is the Buffer's size can be read to its end, in   *)
(* any heap that has it too.                                               *)
LEMMA ArrayReads ==
  ASSUME Inv, ~threw, NEW o \in live \intersect Buffer, NEW h,
         ptr[o] # Null => h[ptr[o]] = heap[ptr[o]]
  PROVE  AccessFault(h, ptr[o], size[o]) = "none"
BY HeapAssumption
DEF AccessFault, Unused, Inv, TypeOK, Sound, NothingDangles, SizeIsLength, Object

LEMMA CopyConstructInv ==
  ASSUME Inv, NEW o \in Buffer, NEW other \in Buffer, CopyConstruct(o, other)
  PROVE  Inv'
<1>1. PICK b \in Unused(heap) :
        heap' = [heap EXCEPT ![b] = size[other]] /\ ptr' = [ptr EXCEPT ![o] = b]
  BY DEF CopyConstruct, Allocates
<1>2. b \in Block /\ heap[b] = Null
  BY <1>1 DEF Unused
<1>3. TypeOK' /\ NothingLeaks'
  BY <1>1, <1>2, HeapAssumption DEF CopyConstruct, Inv, TypeOK, NothingLeaks, Owned, Object
<1>4. ASSUME ~threw
      PROVE  Sound'
  <2>1. NothingDangles' /\ NothingShared' /\ SizeIsLength'
    BY <1>1, <1>2, <1>4, HeapAssumption
    DEF CopyConstruct, Inv, Sound, TypeOK, NothingDangles, NothingShared, SizeIsLength, Object
  <2>2. ptr[other] # Null => heap'[ptr[other]] = heap[ptr[other]]
    BY <1>1, <1>2, <1>4 DEF CopyConstruct, Inv, Sound, TypeOK, NothingDangles, Object
  <2> QED
    BY <1>4, <2>1, <2>2, ArrayReads DEF CopyConstruct, Sound
<1> QED
  BY <1>3, <1>4 DEF CopyConstruct, Inv

LEMMA CopyAssignInv ==
  ASSUME Inv, NEW o \in Buffer, NEW other \in Buffer, CopyAssign(o, other)
  PROVE  Inv'
<1> DEFINE h == Deleted(heap, ptr[o])
<1>1. /\ o \in live /\ other \in live /\ o # other
      /\ size' = [size EXCEPT ![o] = size[other]]
      /\ live' = live /\ raw' = raw /\ threw' = threw
  BY DEF CopyAssign, SizeCopied
<1>2. h \in [Block -> Nat \union {Null}]
  BY DEF Inv, TypeOK, Deleted
<1>3. PICK b \in Unused(h) :
        heap' = [h EXCEPT ![b] = size[other]] /\ ptr' = [ptr EXCEPT ![o] = b]
  BY DEF CopyAssign, Allocates
<1>4. \A x \in Block : h[x] # Null => x # ptr[o] /\ h[x] = heap[x]
  BY HeapAssumption DEF Inv, TypeOK, Deleted
<1>5. \A x \in Block : x # ptr[o] => h[x] = heap[x]
  BY DEF Inv, TypeOK, Deleted
<1> HIDE DEF h
<1>6. b \in Block /\ h[b] = Null
  BY <1>3 DEF Unused
<1>7. TypeOK'
  BY <1>1, <1>2, <1>3, <1>6 DEF CopyAssign, Inv, TypeOK, Object
<1>8. NothingLeaks'
  <2>1. ptr'[o] = b /\ \A x \in live \ {o} : ptr'[x] = ptr[x]
    BY <1>1, <1>3 DEF Inv, TypeOK, Object
  <2>2. \A x \in Block \ {b} : heap'[x] # Null => x # ptr[o] /\ heap[x] # Null
    BY <1>2, <1>3, <1>4
  <2> QED
    BY <1>1, <2>1, <2>2 DEF Inv, TypeOK, NothingLeaks, Owned
<1>9. ASSUME ~threw
      PROVE  Sound'
  <2>1. \A x \in live \ {o} : ptr[x] # Null =>
          ptr[x] \in Block /\ h[ptr[x]] = heap[ptr[x]] /\ ptr[x] # b
    BY <1>1, <1>5, <1>6, <1>9, HeapAssumption
    DEF Inv, Sound, TypeOK, NothingShared, NothingDangles, Object
  <2>2. \A x \in raw : x \in Block /\ h[x] = heap[x] /\ x # b
    BY <1>1, <1>5, <1>6, <1>9
    DEF Inv, Sound, TypeOK, NothingShared, NothingDangles, Object
  <2>3. NothingDangles'
    BY <1>1, <1>2, <1>3, <1>6, <1>9, <2>1, <2>2, HeapAssumption
    DEF Inv, Sound, TypeOK, NothingDangles, Object
  <2>4. NothingShared'
    BY <1>1, <1>3, <1>6, <1>9, <2>1, <2>2, HeapAssumption
    DEF Inv, Sound, TypeOK, NothingShared, Object
  <2>5. SizeIsLength'
    BY <1>1, <1>2, <1>3, <1>6, <1>9, <2>1, HeapAssumption
    DEF Inv, Sound, TypeOK, SizeIsLength, Object
  <2>6. ptr[other] # Null => heap'[ptr[other]] = heap[ptr[other]]
    BY <1>1, <1>2, <1>3, <2>1
  <2> QED
    BY <1>1, <1>9, <2>3, <2>4, <2>5, <2>6, OwnedDeletes, ArrayReads DEF CopyAssign, Sound
<1> QED
  BY <1>1, <1>7, <1>8, <1>9 DEF Inv

(* The old block is in use no more, so it does not leak.                   *)
LEMMA CopyAssignThrowsInv ==
  ASSUME Inv, NEW o \in Buffer, NEW other \in Buffer, CopyAssignThrows(o, other)
  PROVE  Inv'
BY HeapAssumption
DEF CopyAssignThrows, Inv, TypeOK, NothingLeaks, Owned, Object, SizeCopied, Deleted

LEMMA AccessInv ==
  ASSUME Inv, NEW o \in Buffer, Access(o)
  PROVE  Inv'
<1>1. ~threw => fault' = "none"
  BY ArrayReads DEF Access
<1> QED
  BY <1>1
  DEF Access, Inv, Sound, TypeOK, NothingDangles, NothingLeaks, NothingShared, SizeIsLength,
      Owned

-----------------------------------------------------------------------------
LEMMA NextInv == Inv /\ [Next]_vars => Inv'
<1> SUFFICES ASSUME Inv, [Next]_vars
             PROVE  Inv'
  OBVIOUS
<1>1. CASE UniqueStep
  BY <1>1, ClientNewsInv, ConstructInv, make_uniqueInv, releaseInv, resetInv DEF UniqueStep
<1>2. CASE SharedStep
  BY <1>2, DestroyInv, MoveConstructInv, MoveAssignInv DEF SharedStep
<1>3. CASE BufferStep
  BY <1>3, ConstructBufferInv, AccessInv, CopyConstructInv, CopyAssignInv, CopyAssignThrowsInv
  DEF BufferStep
<1>4. CASE UNCHANGED vars
  BY <1>4
  DEF vars, Inv, Sound, TypeOK, NothingDangles, NothingLeaks, NothingShared, SizeIsLength, Owned
<1> QED
  BY <1>1, <1>2, <1>3, <1>4 DEF Next, Stopped

(* In every reachable state nothing leaks; and unless a copy assignment    *)
(* has thrown nothing dangles or is shared, and sizes are the arrays'.     *)
THEOREM Invariance == Spec => []Inv
BY InitInv, NextInv, PTL DEF Spec

(* One owner each, counted: the invariant in the words of the property.    *)
LEMMA InvOwners == Inv => OwnersPartitionHeap
<1> SUFFICES ASSUME Inv
             PROVE  OwnersPartitionHeap
  OBVIOUS
<1>1. ASSUME NEW b \in Allocated
      PROVE  b \in Block /\ heap[b] # Null /\ b # Null
  BY HeapAssumption DEF Allocated, Unused
<1>2. ASSUME NEW b \in Allocated
      PROVE  b \in raw \/ Owners(b) # {}
  BY <1>1 DEF Inv, NothingLeaks, Owned, Owners
<1>3. ASSUME ~threw, NEW b \in Allocated
      PROVE  Cardinality(Owners(b)) + (IF b \in raw THEN 1 ELSE 0) = 1
  <2>1. CASE b \in raw
    <3>1. Owners(b) = {}
      BY <1>3, <2>1 DEF Inv, Sound, NothingShared, Owners
    <3> QED
      BY <2>1, <3>1, FS_EmptySet
  <2>2. CASE b \notin raw
    <3>1. PICK o \in live : ptr[o] = b
      BY <1>2, <2>2 DEF Owners
    <3>2. Owners(b) = {o}
      BY <1>1, <1>3, <3>1 DEF Inv, Sound, NothingShared, Owners
    <3>3. Cardinality(Owners(b)) = 1
      BY <3>2, FS_Singleton
    <3> QED
      BY <2>2, <3>3
  <2> QED
    BY <2>1, <2>2
<1>4. ~threw => \A o \in live : ptr[o] \in Allocated \union {Null}
  BY DEF Inv, Sound, TypeOK, NothingDangles, Allocated, Unused
<1>5. ~threw => raw \subseteq Allocated
  BY DEF Inv, Sound, TypeOK, NothingDangles, Allocated, Unused
<1> QED
  BY <1>2, <1>3, <1>4, <1>5 DEF OwnersPartitionHeap

(* After any sequence of calls every block in use has an owner, and until  *)
(* a copy assignment throws it has exactly one and every owner a block     *)
(* that exists, whatever moves, copies, releases and destructions went     *)
(* before.                                                                 *)
THEOREM BlocksHaveOneOwner == Spec => []OwnersPartitionHeap
BY Invariance, InvOwners, PTL

(* No sequence of calls deletes a block twice or leaves an array, for any  *)
(* sizes, unless a copy assignment in it threw (move_semantics.cpp line    *)
(* 48): that is the only way to the double delete that TLC finds.          *)
THEOREM OnlyThrowsDoHarm == Spec => []FaultNeedsThrow
<1>1. Inv => FaultNeedsThrow
  BY DEF Inv, Sound, FaultNeedsThrow
<1> QED
  BY <1>1, Invariance, PTL
=============================================================================
