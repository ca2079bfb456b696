------------------------- MODULE LockFreeStackProofs -------------------------
(***************************************************************************)
(* Proofs about the stack with the ABA problem: an inductive invariant     *)
(* that says, before and after t2 pushes A back, which stores head has     *)
(* had, and from it that the damage is the one the program announces and   *)
(* no other.                                                               *)
(***************************************************************************)
EXTENDS LockFreeStack, FiniteSetTheorems, TLAPS

(* The stack main built, and what is below each of its nodes.              *)
List == <<A, B, C, Null>>

Outcome == {"none", "failed", "popped", "aba"}

(* What next[n] has held.                                                  *)
Written(n) == {next[n][k] : k \in DOMAIN next[n]}

Message == [node : Node \union {Null}, wrote : Nat \ {0}]

TypeOK ==
  /\ head \in Seq(Message) /\ Len(head) >= 1
  /\ next \in [Node -> Seq(Node \union {Null})]
  /\ t1 \in [pc : {"load", "next", "exchange", "done"}, old : Node \union {Null}, known : Nat,
             stale_next : Node \union {Null}, seen : Nat \ {0}, outcome : Outcome]
  /\ t2 \in [pc : {"load", "next", "exchange", "push", "commit", "done"}, call : 1 .. 3,
             old : Node \union {Null}, new : Node \union {Null}, seen : Nat \ {0},
             popped : SUBSET Node]

(* B and C keep their next; A's is written by t2's push only.              *)
NextInv ==
  /\ next[B] = <<C>> /\ next[C] = <<Null>> /\ Len(next[A]) >= 1

(* t1 has followed a pointer to a node, to something its next has held.    *)
T1Inv ==
  /\ t1.pc # "load" => t1.old \in Node /\ t1.known >= 1
  /\ t1.pc = "exchange" => t1.stale_next \in Written(t1.old)
  /\ t1.pc = "done" <=> t1.outcome # "none"
  /\ t1.outcome \in {"none", "failed"} => \A k \in 1 .. Len(head) : head[k].node # Null

(* The successful pops of each thread.                                     *)
Pops1 == IF t1.outcome = "popped" THEN 1 ELSE 0
Pops2 == IF t2.pc \in {"push", "commit"} THEN 2 ELSE t2.call - 1

(* Before A is pushed back head goes down the list, one node for each pop  *)
(* of either thread, and t2 works on the node it saw.                      *)
PopsInv ==
  /\ t1.outcome # "aba"
  /\ Len(head) = 1 + Pops1 + Pops2
  /\ \A k \in 1 .. Len(head) : head[k].node = List[k]
  /\ t2.popped \union (IF t1.outcome = "popped" THEN {t1.old} ELSE {}) =
       {List[k] : k \in 1 .. Len(head) - 1}
  /\ t2.seen \in 1 + Pops2 .. Len(head)
  /\ t2.pc \in {"load", "next", "exchange"} => t2.call \in {1, 2}
  /\ t2.pc \in {"next", "exchange"} => t2.old = List[t2.seen]
  /\ t2.pc = "exchange" => t2.new = List[t2.seen + 1]
  /\ t2.pc # "commit" => next[A] = <<B>>
  /\ t2.pc = "commit" =>
       /\ Latest(next[A]) = List[t2.seen]
       /\ t1.outcome # "popped" => Written(A) \subseteq {B, C}

(* After it: t1 popped too and only A is left; t1 has not popped; it has   *)
(* popped A again, in time; or with the next that A had at first.          *)
PushedInv ==
  /\ A \notin t2.popped
  /\ \/ t1.outcome = "popped" /\ Top = A /\ Latest(next[A]) = Null
     \/ /\ t2.popped = {B}
        /\ \/ /\ t1.outcome \in {"none", "failed"}
              /\ Top = A /\ Latest(next[A]) = C /\ Written(A) \subseteq {B, C}
           \/ t1.outcome = "popped" /\ Top = C /\ t1.old = A
           \/ t1.outcome = "aba" /\ Top = B /\ t1.old = A

Inv ==
  /\ TypeOK /\ NextInv /\ T1Inv
  /\ t2.pc # "done" => PopsInv
  /\ t2.pc = "done" => PushedInv

-----------------------------------------------------------------------------
LEMMA ThreeAtMost == ASSUME NEW x, NEW y, NEW z PROVE Cardinality({x, y, z}) # 4
<1>1. IsFiniteSet({x}) /\ Cardinality({x}) = 1
  BY FS_Singleton
<1>2. IsFiniteSet({x} \union {y}) /\ Cardinality({x} \union {y}) \in 1 .. 2
  BY <1>1, FS_AddElement
<1>3. Cardinality(({x} \union {y}) \union {z}) \in 1 .. 3
  BY <1>2, FS_AddElement
<1>4. ({x} \union {y}) \union {z} = {x, y, z}
  OBVIOUS
<1> QED
  BY <1>3, <1>4

(* The three nodes and nullptr are four addresses.                         *)
LEMMA Distinct == A # B /\ A # C /\ B # C /\ Null \notin Node
<1>1. Cardinality({A, B, C, Null}) = 4
  <2>1. Node \union {Null} = {A, B, C, Null}
    BY DEF Node
  <2> QED
    BY <2>1, StackAssumption
<1>2. A # B
  <2>1. A = B => {A, B, C, Null} = {B, C, Null}
    OBVIOUS
  <2> QED
    BY <1>1, <2>1, ThreeAtMost
<1>3. A # C
  <2>1. A = C => {A, B, C, Null} = {B, C, Null}
    OBVIOUS
  <2> QED
    BY <1>1, <2>1, ThreeAtMost
<1>4. B # C
  <2>1. B = C => {A, B, C, Null} = {A, C, Null}
    OBVIOUS
  <2> QED
    BY <1>1, <2>1, ThreeAtMost
<1>5. Null # A
  <2>1. Null = A => {A, B, C, Null} = {A, B, C}
    OBVIOUS
  <2> QED
    BY <1>1, <2>1, ThreeAtMost
<1>6. Null # B
  <2>1. Null = B => {A, B, C, Null} = {A, B, C}
    OBVIOUS
  <2> QED
    BY <1>1, <2>1, ThreeAtMost
<1>7. Null # C
  <2>1. Null = C => {A, B, C, Null} = {A, B, C}
    OBVIOUS
  <2> QED
    BY <1>1, <2>1, ThreeAtMost
<1> QED
  BY <1>2, <1>3, <1>4, <1>5, <1>6, <1>7 DEF Node

LEMMA Listed == List[1] = A /\ List[2] = B /\ List[3] = C /\ List[4] = Null
BY DEF List

LEMMA ListedOnce == \A i, j \in 1 .. 4 : List[i] = List[j] => i = j
BY Listed, Distinct DEF Node

LEMMA WrittenOnce ==
  ASSUME NEW n, NEW x, next[n] = <<x>>
  PROVE  Written(n) = {x} /\ Latest(next[n]) = x
BY DEF Written, Latest

LEMMA InitInv == Init => Inv
<1> SUFFICES ASSUME Init
             PROVE  Inv
  OBVIOUS
<1>1. next[A] = <<B>> /\ next[B] = <<C>> /\ next[C] = <<Null>>
  BY Distinct DEF Init, Node
<1>2. next \in [Node -> Seq(Node \union {Null})]
  <2>1. <<B>> \in Seq(Node \union {Null}) /\ <<C>> \in Seq(Node \union {Null})
        /\ <<Null>> \in Seq(Node \union {Null})
    BY DEF Node
  <2>2. \A n \in Node : next[n] \in Seq(Node \union {Null})
    BY <1>1, <2>1 DEF Node
  <2> QED
    BY <2>2 DEF Init
<1>3. TypeOK
  BY <1>2 DEF Init, TypeOK, Message, Node, Outcome
<1>4. NextInv /\ T1Inv
  BY <1>1, Distinct DEF Init, NextInv, T1Inv, Node
<1>5. PopsInv
  <2>1. Len(head) = 1 /\ head[1].node = A
    BY DEF Init
  <2>2. {List[k] : k \in 1 .. Len(head) - 1} = {}
    BY <2>1
  <2>3. \A k \in 1 .. Len(head) : head[k].node = List[k]
    BY <2>1, Listed
  <2>4. Pops1 = 0 /\ Pops2 = 0
    BY DEF Init, Pops1, Pops2
  <2> QED
    <3>1. t1.outcome = "none" /\ t2.popped = {} /\ t2.pc = "load" /\ t2.call = 1 /\ t2.seen = 1
      BY DEF Init
    <3>2. t2.popped \union (IF t1.outcome = "popped" THEN {t1.old} ELSE {}) = {}
      BY <3>1
    <3> QED
      BY <1>1, <2>1, <2>2, <2>3, <2>4, <3>1, <3>2 DEF PopsInv
<1> QED
  BY <1>3, <1>4, <1>5 DEF Init, Inv
-----------------------------------------------------------------------------
(* Steps of t1.                                                            *)

LEMMA VulnerableLoadsInv ==
  ASSUME Inv, VulnerableLoads
  PROVE  Inv'
<1>1. t1.pc = "load" /\ UNCHANGED <<head, next, t2>>
  BY DEF VulnerableLoads
<1>2. PICK seen \in t1.seen .. Len(head) :
        t1' = [t1 EXCEPT !.pc = "next", !.old = head[seen].node, !.seen = seen,
                         !.known = Acquired("acquire", @, head[seen].wrote)]
  BY DEF VulnerableLoads, Visible
<1>3. /\ seen \in 1 .. Len(head) /\ head[seen].node \in Node
      /\ head[seen].wrote \in Nat \ {0}
  <2>1. seen \in 1 .. Len(head) /\ seen \in Nat \ {0}
    BY DEF Inv, TypeOK
  <2>2. head[seen] \in Message
    BY <2>1 DEF Inv, TypeOK
  <2>3. head[seen].node # Null
    BY <1>1, <2>1 DEF Inv, TypeOK, T1Inv, Outcome
  <2> QED
    BY <2>1, <2>2, <2>3 DEF Message
<1>4. Acquired("acquire", t1.known, head[seen].wrote) \in Nat \ {0}
  BY <1>3 DEF Acquired, Inv, TypeOK
<1>5. TypeOK'
  <2>1. seen \in Nat \ {0}
    BY <1>3
  <2> QED
    BY <1>1, <1>2, <1>3, <1>4, <2>1 DEF Inv, TypeOK
<1>6. NextInv' /\ T1Inv'
  BY <1>1, <1>2, <1>3, <1>4 DEF Inv, TypeOK, NextInv, T1Inv
<1>7. t1.outcome' = t1.outcome /\ t1.outcome = "none"
  BY <1>1, <1>2 DEF Inv, TypeOK, T1Inv
<1>8. PopsInv => PopsInv'
  BY <1>1, <1>7 DEF PopsInv, Pops1, Pops2, Written
<1>9. PushedInv => PushedInv'
  BY <1>1, <1>7 DEF PushedInv, Top, Written
<1> QED
  BY <1>1, <1>5, <1>6, <1>8, <1>9 DEF Inv

LEMMA VulnerableReadsNextInv ==
  ASSUME Inv, VulnerableReadsNext
  PROVE  Inv'
<1>1. t1.pc = "next" /\ UNCHANGED <<head, next, t2>>
  BY DEF VulnerableReadsNext
<1>2. PICK k \in t1.known .. Len(next[t1.old]) :
        t1' = [t1 EXCEPT !.pc = "exchange", !.stale_next = next[t1.old][k]]
  BY DEF VulnerableReadsNext, Visible
<1>3. /\ t1.old \in Node
      /\ next[t1.old][k] \in Written(t1.old) /\ next[t1.old][k] \in Node \union {Null}
  BY <1>1 DEF Inv, TypeOK, T1Inv, Written
<1>4. TypeOK'
  BY <1>1, <1>2, <1>3 DEF Inv, TypeOK
<1>5. NextInv' /\ T1Inv'
  BY <1>1, <1>2, <1>3 DEF Inv, TypeOK, NextInv, T1Inv, Written
<1>6. t1.outcome' = t1.outcome /\ t1.outcome = "none"
  BY <1>1, <1>2 DEF Inv, TypeOK, T1Inv
<1>7. PopsInv => PopsInv'
  BY <1>1, <1>6 DEF PopsInv, Pops1, Pops2, Written
<1>8. PushedInv => PushedInv'
  BY <1>1, <1>6 DEF PushedInv, Top, Written
<1> QED
  BY <1>1, <1>4, <1>5, <1>7, <1>8 DEF Inv

LEMMA VulnerableFailsInv ==
  ASSUME Inv, VulnerableFails
  PROVE  Inv'
<1>1. /\ t1.pc = "exchange" /\ UNCHANGED <<head, next, t2>>
      /\ t1' = [t1 EXCEPT !.pc = "done", !.outcome = "failed"]
  BY DEF VulnerableFails
<1>2. t1.outcome = "none"
  BY <1>1 DEF Inv, TypeOK, T1Inv
<1>3. TypeOK'
  BY <1>1 DEF Inv, TypeOK, Outcome
<1>4. NextInv' /\ T1Inv'
  BY <1>1, <1>2 DEF Inv, TypeOK, NextInv, T1Inv
<1>5. t1.outcome' = "failed"
  BY <1>1 DEF Inv, TypeOK
<1>6. PopsInv => PopsInv'
  BY <1>1, <1>2, <1>5 DEF PopsInv, Pops1, Pops2, Written
<1>7. PushedInv => PushedInv'
  BY <1>1, <1>2, <1>5 DEF PushedInv, Top, Written
<1> QED
  BY <1>1, <1>3, <1>4, <1>6, <1>7 DEF Inv
(* The same invariant before the push, with what each phase of t2 fixes.   *)
LEMMA BeforePush ==
  ASSUME Inv, t2.pc # "done"
  PROVE  /\ PopsInv /\ Pops1 \in 0 .. 1 /\ Pops2 \in 0 .. 2
         /\ Len(head) = 1 + Pops1 + Pops2 /\ Len(head) \in 1 .. 4
         /\ t1.outcome # "popped" => Pops1 = 0
         /\ t2.seen \in 1 + Pops2 .. Len(head)
         /\ t2.pc \in {"push", "commit"} => Pops2 = 2
         /\ t2.pc \in {"load", "next", "exchange"} =>
              t2.call \in {1, 2} /\ Pops2 = t2.call - 1 /\ Len(head) \in 1 .. 3
         /\ t2.pc # "commit" => next[A] = <<B>>
<1>1. PopsInv
  BY DEF Inv
<1>2. /\ Pops1 \in 0 .. 1
      /\ t1.outcome # "popped" => Pops1 = 0
  BY DEF Pops1
<1>3. t2.pc \in {"load", "next", "exchange", "push", "commit"}
  BY DEF Inv, TypeOK
<1>4. /\ t2.pc \in {"push", "commit"} => Pops2 = 2
      /\ t2.pc \in {"load", "next", "exchange"} => Pops2 = t2.call - 1
  BY DEF Pops2
<1>5. /\ t2.pc \in {"load", "next", "exchange"} => t2.call \in {1, 2}
      /\ Len(head) = 1 + Pops1 + Pops2
      /\ t2.seen \in 1 + Pops2 .. Len(head)
      /\ t2.pc # "commit" => next[A] = <<B>>
  BY <1>1 DEF PopsInv
<1> QED
  BY <1>1, <1>2, <1>3, <1>4, <1>5

(* Before the push t1 pops the node t2 would pop next; after it, A: with   *)
(* C below it, or with B, which t2 has popped.                             *)
LEMMA VulnerableSucceedsInv ==
  ASSUME Inv, VulnerableSucceeds
  PROVE  Inv'
<1> DEFINE below == t1.stale_next
           message == [node |-> below, wrote |-> 1]
           outcome == IF below = Latest(next[t1.old]) THEN "popped" ELSE "aba"
<1>1. /\ t1.pc = "exchange" /\ Top = t1.old /\ UNCHANGED <<next, t2>>
      /\ head' = Append(head, message)
      /\ t1' = [t1 EXCEPT !.pc = "done", !.outcome = outcome]
  BY DEF VulnerableSucceeds, Matches, Exchange
<1>2. /\ t1.outcome = "none" /\ t1.old \in Node /\ below \in Written(t1.old)
      /\ below \in Node \union {Null}
  BY <1>1 DEF Inv, TypeOK, T1Inv
<1>3. /\ t1'.pc = "done" /\ t1'.outcome = outcome /\ outcome \in {"popped", "aba"}
      /\ t1'.old = t1.old
  BY <1>1 DEF Inv, TypeOK
<1>4. /\ Len(head') = Len(head) + 1 /\ Len(head) \in Nat \ {0}
      /\ \A k \in 1 .. Len(head) : head'[k] = head[k]
      /\ head'[Len(head) + 1].node = below
      /\ Top' = below /\ head' \in Seq(Message)
  <2>1. message \in Message
    BY <1>2 DEF Message
  <2> QED
    BY <1>1, <2>1 DEF Inv, TypeOK, Top, Latest
<1>5. TypeOK'
  <2>1. t1' \in [pc : {"load", "next", "exchange", "done"}, old : Node \union {Null}, known : Nat,
               stale_next : Node \union {Null}, seen : Nat \ {0}, outcome : Outcome]
    BY <1>1, <1>3 DEF Inv, TypeOK, Outcome
  <2> QED
    BY <1>1, <1>4, <2>1 DEF Inv, TypeOK
<1>6. NextInv' /\ T1Inv'
  BY <1>1, <1>2, <1>3 DEF Inv, TypeOK, NextInv, T1Inv
<1>7. ASSUME t2.pc # "done"
      PROVE  PopsInv'
  <2>1. /\ PopsInv /\ Pops2 \in 0 .. 2 /\ Len(head) = 1 + Pops2 /\ Len(head) \in 1 .. 3
        /\ Len(head) = 1 => next[A] = <<B>>
    BY <1>2, <1>7, BeforePush
  <2>2. t1.old = List[Len(head)]
    BY <1>1, <1>4, <2>1 DEF PopsInv, Top, Latest
  <2>3. below = List[Len(head) + 1] /\ outcome = "popped"
    <3>1. next[t1.old] = <<List[Len(head) + 1]>>
      <4>1. next[B] = <<C>> /\ next[C] = <<Null>>
        BY DEF Inv, NextInv
      <4>2. CASE Len(head) = 1
        <5>1. next[A] = <<B>>
          BY <2>1, <4>2
        <5>2. t1.old = A /\ List[Len(head) + 1] = B
          BY <2>2, <4>2, Listed
        <5> QED
          BY <5>1, <5>2
      <4>3. CASE Len(head) = 2
        BY <2>2, <4>1, <4>3, Listed
      <4>4. CASE Len(head) = 3
        BY <2>2, <4>1, <4>4, Listed
      <4> QED
        BY <2>1, <4>2, <4>3, <4>4
    <3> QED
      BY <1>2, <3>1, WrittenOnce
  <2>4. Pops1' = 1 /\ Pops1 = 0 /\ Pops2' = Pops2
    BY <1>1, <1>2, <1>3, <2>3 DEF Pops1, Pops2
  <2>5. Len(head') = 1 + Pops1' + Pops2'
    BY <1>4, <2>1, <2>4, <1>1 DEF PopsInv
  <2>6. \A k \in 1 .. Len(head') : head'[k].node = List[k]
    BY <1>4, <2>1, <2>3 DEF PopsInv
  <2>7. t2.popped \union {t1.old} = {List[k] : k \in 1 .. Len(head') - 1}
    <3>1. t2.popped = {List[k] : k \in 1 .. Len(head) - 1}
      BY <1>2, <2>1 DEF PopsInv
    <3>2. 1 .. Len(head') - 1 = (1 .. Len(head) - 1) \union {Len(head)}
      BY <1>4
    <3> QED
      BY <2>2, <3>1, <3>2
  <2> QED
    BY <1>1, <1>3, <1>4, <2>1, <2>3, <2>4, <2>5, <2>6, <2>7 DEF PopsInv
<1>8. ASSUME t2.pc = "done"
      PROVE  PushedInv'
  <2>1. /\ t2.popped = {B} /\ Top = A /\ Latest(next[A]) = C /\ Written(A) \subseteq {B, C}
        /\ t1.old = A
    BY <1>1, <1>2, <1>8 DEF Inv, PushedInv
  <2>2. (below = C /\ outcome = "popped") \/ (below = B /\ outcome = "aba")
    BY <1>2, <2>1, Distinct
  <2> QED
    BY <1>1, <1>3, <1>4, <2>1, <2>2, Distinct DEF PushedInv
<1> QED
  BY <1>1, <1>5, <1>6, <1>7, <1>8 DEF Inv
-----------------------------------------------------------------------------
(* Steps of t2.                                                            *)

(* What t2 may see is where the list's node of that position was on top;   *)
(* of the first three, no pop sees nullptr.                                *)
LEMMA T2Sees ==
  ASSUME Inv, t2.pc # "done", NEW seen \in Visible(head, t2.seen)
  PROVE  /\ seen \in 1 .. Len(head) /\ seen \in 1 + Pops2 .. Len(head) /\ seen \in 1 .. 4
         /\ head[seen].node = List[seen] /\ head[seen].node \in Node \union {Null}
         /\ t2.pc \in {"load", "next", "exchange"} => seen \in 1 .. 3
<1>1. seen \in 1 + Pops2 .. Len(head) /\ seen \in 1 .. Len(head) /\ seen \in 1 .. 4
  BY BeforePush DEF Visible
<1>2. head[seen].node = List[seen]
  BY <1>1, BeforePush DEF PopsInv
<1>3. head[seen] \in Message
  BY <1>1 DEF Inv, TypeOK
<1>4. t2.pc \in {"load", "next", "exchange"} => seen \in 1 .. 3
  BY <1>1, BeforePush
<1> QED
  BY <1>1, <1>2, <1>3, <1>4 DEF Message

LEMMA PopLoadsInv ==
  ASSUME Inv, PopLoads
  PROVE  Inv'
<1>1. t2.pc = "load" /\ UNCHANGED <<head, next, t1>>
  BY DEF PopLoads
<1>2. PICK seen \in Visible(head, t2.seen) :
        t2' = [t2 EXCEPT !.pc = "next", !.old = head[seen].node, !.seen = seen]
  BY DEF PopLoads
<1>3. /\ seen \in 1 + Pops2 .. Len(head) /\ seen \in Nat \ {0}
      /\ head[seen].node = List[seen] /\ head[seen].node \in Node \union {Null}
  BY <1>1, T2Sees
<1>4. TypeOK' /\ NextInv' /\ T1Inv'
  BY <1>1, <1>2, <1>3 DEF Inv, TypeOK, NextInv, T1Inv, Written
<1>5. /\ t2'.pc = "next" /\ t2'.call = t2.call /\ t2'.popped = t2.popped
      /\ t2'.old = List[seen] /\ t2'.seen = seen
  BY <1>2, <1>3 DEF Inv, TypeOK
<1>6. Pops1' = Pops1 /\ Pops2' = Pops2
  BY <1>1, <1>5 DEF Pops1, Pops2
<1>7. PopsInv'
  BY <1>1, <1>3, <1>5, <1>6 DEF Inv, PopsInv
<1> QED
  BY <1>4, <1>5, <1>7 DEF Inv

LEMMA PopReadsNextInv ==
  ASSUME Inv, PopReadsNext
  PROVE  Inv'
<1>1. t2.pc = "next" /\ UNCHANGED <<head, next, t1>>
  BY DEF PopReadsNext
<1>2. /\ PopsInv /\ t2.seen \in 1 .. 3 /\ t2.old = List[t2.seen]
      /\ next[A] = <<B>> /\ next[B] = <<C>> /\ next[C] = <<Null>>
  <2>1. PopsInv /\ t2.seen \in 1 .. 3 /\ next[A] = <<B>>
    BY <1>1, BeforePush
  <2>2. t2.old = List[t2.seen]
    BY <1>1, <2>1 DEF PopsInv
  <2> QED
    BY <2>1, <2>2 DEF Inv, NextInv
<1>3. t2.old \in Node /\ Latest(next[t2.old]) = List[t2.seen + 1]
  <2>1. Latest(next[A]) = B /\ Latest(next[B]) = C /\ Latest(next[C]) = Null
    BY <1>2, WrittenOnce
  <2>2. CASE t2.seen = 1
    BY <1>2, <2>1, <2>2, Listed DEF Node
  <2>3. CASE t2.seen = 2
    BY <1>2, <2>1, <2>3, Listed DEF Node
  <2>4. CASE t2.seen = 3
    BY <1>2, <2>1, <2>4, Listed DEF Node
  <2> QED
    BY <1>2, <2>2, <2>3, <2>4
<1>4. List[t2.seen + 1] \in Node \union {Null}
  BY <1>2, Listed DEF Node
<1>5. t2' = [t2 EXCEPT !.pc = "exchange", !.new = List[t2.seen + 1]]
  BY <1>3, Distinct DEF PopReadsNext
<1>6. TypeOK' /\ NextInv' /\ T1Inv'
  BY <1>1, <1>4, <1>5 DEF Inv, TypeOK, NextInv, T1Inv, Written
<1>7. /\ t2'.pc = "exchange" /\ t2'.call = t2.call /\ t2'.popped = t2.popped
      /\ t2'.old = t2.old /\ t2'.seen = t2.seen /\ t2'.new = List[t2.seen + 1]
  BY <1>5 DEF Inv, TypeOK
<1>8. Pops1' = Pops1 /\ Pops2' = Pops2
  BY <1>1, <1>7 DEF Pops1, Pops2
<1>9. PopsInv'
  BY <1>1, <1>2, <1>7, <1>8 DEF PopsInv
<1> QED
  BY <1>6, <1>7, <1>9 DEF Inv

(* The exchange succeeds only on the last store of head, one node down.    *)
LEMMA PopSucceedsInv ==
  ASSUME Inv, PopSucceeds
  PROVE  Inv'
<1> DEFINE message == [node |-> t2.new, wrote |-> 1]
<1>1. /\ t2.pc = "exchange" /\ UNCHANGED <<next, t1>> /\ Top = t2.old
      /\ head' = Append(head, message)
  BY DEF PopSucceeds, Matches, Exchange
<1>2. /\ PopsInv /\ t2.call \in {1, 2} /\ Pops2 = t2.call - 1 /\ Pops1 \in 0 .. 1
      /\ Len(head) \in 1 .. 3 /\ Len(head) = 1 + Pops1 + Pops2
      /\ t1.outcome # "popped" => Pops1 = 0
      /\ t2.seen \in 1 .. Len(head) /\ next[A] = <<B>>
  BY <1>1, BeforePush
<1>3. t2.old = List[t2.seen] /\ t2.new = List[t2.seen + 1] /\ t2.seen = Len(head)
  <2>1. Top = List[Len(head)] /\ t2.old = List[t2.seen] /\ t2.new = List[t2.seen + 1]
    BY <1>1, <1>2 DEF PopsInv, Top, Latest
  <2>2. t2.seen \in 1 .. 4 /\ Len(head) \in 1 .. 4
    BY <1>2
  <2> QED
    BY <1>1, <2>1, <2>2, ListedOnce
<1>4. t2.new \in Node \union {Null} /\ t2.old \in Node
  BY <1>2, <1>3, Listed DEF Node
<1>5. /\ Len(head') = Len(head) + 1 /\ head' \in Seq(Message)
      /\ \A k \in 1 .. Len(head) : head'[k] = head[k]
      /\ head'[Len(head) + 1].node = List[Len(head) + 1]
      /\ 1 .. Len(head') = (1 .. Len(head)) \union {Len(head) + 1}
      /\ 1 .. Len(head') - 1 = (1 .. Len(head) - 1) \union {Len(head)}
  <2>1. message \in Message /\ message.node = List[Len(head) + 1]
    BY <1>3, <1>4 DEF Message
  <2>2. head \in Seq(Message)
    BY DEF Inv, TypeOK
  <2> HIDE DEF message
  <2>3. /\ Len(head') = Len(head) + 1 /\ head' \in Seq(Message)
        /\ \A k \in 1 .. Len(head) : head'[k] = head[k]
        /\ head'[Len(head) + 1] = message
    BY <1>1, <2>1, <2>2
  <2>4. /\ 1 .. Len(head) + 1 = (1 .. Len(head)) \union {Len(head) + 1}
        /\ 1 .. Len(head) = (1 .. Len(head) - 1) \union {Len(head)}
    BY <1>2
  <2> QED
    BY <1>2, <2>1, <2>3, <2>4
<1>6. /\ t2'.pc = (IF t2.call = 2 THEN "push" ELSE "load") /\ t2'.call = t2.call + 1
      /\ t2'.popped = t2.popped \union {t2.old} /\ t2'.seen = Len(head) + 1
      /\ t2'.old = t2.old /\ t2'.new = t2.new
      /\ t2' \in [pc : {"load", "next", "exchange", "push", "commit", "done"}, call : 1 .. 3,
                  old : Node \union {Null}, new : Node \union {Null}, seen : Nat \ {0},
                  popped : SUBSET Node]
  <2>1. t2.call + 1 \in 1 .. 3 /\ Len(head) + 1 \in Nat \ {0}
    BY <1>2
  <2> QED
    BY <1>2, <1>4, <2>1 DEF PopSucceeds, AfterCall, Inv, TypeOK
<1>7. TypeOK' /\ NextInv'
  BY <1>1, <1>2, <1>5, <1>6 DEF Inv, TypeOK, NextInv
<1>8. T1Inv'
  <2>1. t1.outcome \in {"none", "failed"} => head'[Len(head) + 1].node # Null
    <3>1. t1.outcome \in {"none", "failed"} => Len(head) \in 1 .. 2
      BY <1>2
    <3> QED
      BY <1>5, <3>1, Listed, Distinct DEF Node
  <2> QED
    BY <1>1, <1>2, <1>5, <2>1 DEF Inv, T1Inv, Written
<1>9. Pops1' = Pops1 /\ Pops2' = Pops2 + 1
  BY <1>1, <1>2, <1>6 DEF Pops1, Pops2
<1>10. PopsInv'
  <2>1. \A k \in 1 .. Len(head') : head'[k].node = List[k]
    BY <1>2, <1>5 DEF PopsInv
  <2>2. t2'.popped \union (IF t1.outcome = "popped" THEN {t1.old} ELSE {}) =
          {List[k] : k \in 1 .. Len(head') - 1}
    <3>1. {List[k] : k \in 1 .. Len(head') - 1} =
            {List[k] : k \in 1 .. Len(head) - 1} \union {t2.old}
      BY <1>3, <1>5
    <3> QED
      BY <1>2, <1>6, <3>1 DEF PopsInv
  <2>3. next[A] = <<B>> /\ t2'.pc \notin {"next", "exchange", "commit"}
    BY <1>2, <1>6
  <2>4. Len(head') = 1 + Pops1' + Pops2' /\ t2'.seen \in 1 + Pops2' .. Len(head')
    <3>1. Len(head') = Len(head) + 1 /\ t2'.seen = Len(head) + 1
      BY <1>5, <1>6
    <3> QED
      BY <1>2, <1>9, <3>1
  <2>5. t2'.pc = "load" => t2'.call \in {1, 2}
    BY <1>2, <1>6
  <2> QED
    BY <1>1, <1>2, <2>1, <2>2, <2>3, <2>4, <2>5 DEF PopsInv
<1> QED
  BY <1>6, <1>7, <1>8, <1>10 DEF Inv
LEMMA PopFailsInv ==
  ASSUME Inv, PopFails
  PROVE  Inv'
<1>1. t2.pc = "exchange" /\ UNCHANGED <<head, next, t1>>
  BY DEF PopFails, PopSees
<1>2. PICK seen \in Visible(head, t2.seen) :
        t2' = [t2 EXCEPT !.pc = "next", !.old = head[seen].node, !.seen = seen]
  BY DEF PopFails, PopSees
<1>3. /\ seen \in 1 + Pops2 .. Len(head) /\ seen \in Nat \ {0}
      /\ head[seen].node = List[seen] /\ head[seen].node \in Node \union {Null}
  BY <1>1, T2Sees
<1>4. TypeOK' /\ NextInv' /\ T1Inv'
  BY <1>1, <1>2, <1>3 DEF Inv, TypeOK, NextInv, T1Inv, Written
<1>5. /\ t2'.pc = "next" /\ t2'.call = t2.call /\ t2'.popped = t2.popped
      /\ t2'.old = List[seen] /\ t2'.seen = seen
  BY <1>2, <1>3 DEF Inv, TypeOK
<1>6. Pops1' = Pops1 /\ Pops2' = Pops2
  BY <1>1, <1>5 DEF Pops1, Pops2
<1>7. PopsInv'
  <2>1. PopsInv /\ t2.call \in {1, 2}
    BY <1>1, BeforePush
  <2> QED
    BY <1>1, <1>3, <1>5, <1>6, <2>1 DEF PopsInv
<1> QED
  BY <1>4, <1>5, <1>7 DEF Inv

(* The push notes what it saw on top, C or, if t1 has popped, nullptr.     *)
LEMMA WriteNextInv ==
  ASSUME Inv, t2.pc \in {"push", "commit"}, NEW seen \in Visible(head, t2.seen), WriteNext(seen)
  PROVE  Inv'
<1> DEFINE top == head[seen].node
<1>1. /\ UNCHANGED <<head, t1>>
      /\ t2' = [t2 EXCEPT !.pc = "commit", !.seen = seen]
      /\ next' = IF Latest(next[A]) = top THEN next ELSE [next EXCEPT ![A] = Append(@, top)]
  BY DEF WriteNext
<1>2. /\ PopsInv /\ Pops2 = 2 /\ Pops1 \in 0 .. 1 /\ Len(head) \in 1 .. 4
      /\ Len(head) = 1 + Pops1 + Pops2
      /\ t1.outcome # "popped" => Pops1 = 0
      /\ t2.pc # "commit" => next[A] = <<B>>
  BY BeforePush
<1>3. /\ seen \in 3 .. Len(head) /\ seen \in Nat \ {0} /\ seen \in {3, 4}
      /\ top = List[seen] /\ top \in Node \union {Null}
  BY <1>2, T2Sees
<1>4. top \in {C, Null} /\ (t1.outcome # "popped" => top = C)
  BY <1>2, <1>3, Listed
<1> HIDE DEF top
<1>5. next[A] \in Seq(Node \union {Null}) /\ Len(next[A]) \in Nat \ {0} /\ A \in Node
  BY DEF Inv, TypeOK, NextInv, Node
<1>6. /\ next' \in [Node -> Seq(Node \union {Null})]
      /\ \A n \in Node \ {A} : next'[n] = next[n]
      /\ next'[A] = IF Latest(next[A]) = top THEN next[A] ELSE Append(next[A], top)
  BY <1>1, <1>3, <1>5 DEF Inv, TypeOK
<1>7. /\ Len(next'[A]) \in Nat \ {0} /\ Latest(next'[A]) = top
      /\ Written(A)' = Written(A) \union {top}
  <2>1. CASE Latest(next[A]) = top
    BY <1>5, <1>6, <2>1 DEF Latest, Written
  <2>2. CASE Latest(next[A]) # top
    <3>1. next'[A] = Append(next[A], top)
      BY <1>6, <2>2
    <3>2. DOMAIN next'[A] = DOMAIN next[A] \union {Len(next[A]) + 1}
      BY <1>3, <1>5, <3>1
    <3>3. /\ \A k \in DOMAIN next[A] : next'[A][k] = next[A][k]
          /\ next'[A][Len(next[A]) + 1] = top /\ Len(next'[A]) = Len(next[A]) + 1
      BY <1>3, <1>5, <3>1
    <3> QED
      BY <1>5, <3>2, <3>3 DEF Latest, Written
  <2> QED
    BY <2>1, <2>2
<1>8. \A n \in Node : Written(n) \subseteq Written(n)'
  <2>1. \A n \in Node \ {A} : Written(n)' = Written(n)
    BY <1>6 DEF Written
  <2> QED
    BY <1>7, <2>1
<1>9. TypeOK'
  BY <1>1, <1>3, <1>6 DEF Inv, TypeOK
<1>10. NextInv' /\ T1Inv'
  <2>1. next'[B] = <<C>> /\ next'[C] = <<Null>>
    BY <1>6, Distinct DEF Inv, NextInv, Node
  <2>2. NextInv'
    BY <1>7, <2>1 DEF NextInv
  <2>3. T1Inv'
    BY <1>1, <1>8 DEF Inv, TypeOK, T1Inv
  <2> QED
    BY <2>2, <2>3
<1>11. /\ t2'.pc = "commit" /\ t2'.popped = t2.popped /\ t2'.seen = seen
  BY <1>1, <1>3 DEF Inv, TypeOK
<1>12. Pops1' = Pops1 /\ Pops2' = 2
  BY <1>1, <1>11 DEF Pops1, Pops2
<1>13. PopsInv'
  <2>1. t1.outcome # "popped" => Written(A)' \subseteq {B, C}
    <3>1. t1.outcome # "popped" => Written(A) \subseteq {B, C}
      <4>1. CASE t2.pc = "commit"
        BY <1>2, <4>1 DEF PopsInv
      <4>2. CASE t2.pc # "commit"
        BY <1>2, <4>2, WrittenOnce
      <4> QED
        BY <4>1, <4>2
    <3> QED
      BY <1>4, <1>7, <3>1
  <2>2. Latest(next'[A]) = List[seen]
    BY <1>3, <1>7
  <2>3. seen \in 1 + Pops2' .. Len(head)
    BY <1>3, <1>12
  <2> QED
    BY <1>1, <1>2, <1>11, <1>12, <2>1, <2>2, <2>3 DEF PopsInv
<1> QED
  BY <1>9, <1>10, <1>11, <1>13 DEF Inv

(* A is pushed on what is on top: C, or nothing.                           *)
LEMMA PushSucceedsInv ==
  ASSUME Inv, PushSucceeds
  PROVE  Inv'
<1> DEFINE message == [node |-> A, wrote |-> Len(next[A])]
<1>1. /\ t2.pc = "commit" /\ UNCHANGED <<next, t1>> /\ Top = Latest(next[A])
      /\ head' = Append(head, message)
      /\ t2' = [t2 EXCEPT !.pc = "done", !.popped = @ \ {A}, !.seen = Len(head) + 1]
  BY DEF PushSucceeds, Matches
<1>2. /\ PopsInv /\ Pops1 \in 0 .. 1 /\ Len(head) = 3 + Pops1
      /\ t1.outcome # "popped" => Pops1 = 0
  BY <1>1, BeforePush
<1>3. /\ Len(head') = Len(head) + 1 /\ head' \in Seq(Message)
      /\ \A k \in 1 .. Len(head) : head'[k] = head[k]
      /\ head'[Len(head) + 1].node = A /\ Top' = A
  <2>1. message \in Message
    BY DEF Inv, TypeOK, NextInv, Message, Node
  <2> QED
    BY <1>1, <2>1 DEF Inv, TypeOK, Top, Latest
<1>4. /\ t2'.pc = "done" /\ t2'.popped = t2.popped \ {A}
      /\ t2' \in [pc : {"load", "next", "exchange", "push", "commit", "done"}, call : 1 .. 3,
                  old : Node \union {Null}, new : Node \union {Null}, seen : Nat \ {0},
                  popped : SUBSET Node]
  <2>1. Len(head) + 1 \in Nat \ {0}
    BY <1>2
  <2> QED
    BY <1>1, <2>1 DEF Inv, TypeOK
<1>5. TypeOK' /\ NextInv'
  BY <1>1, <1>3, <1>4 DEF Inv, TypeOK, NextInv
<1>6. T1Inv'
  <2>1. A # Null
    BY Distinct DEF Node
  <2>2. 1 .. Len(head') = (1 .. Len(head)) \union {Len(head) + 1}
    BY <1>2, <1>3
  <2> QED
    BY <1>1, <1>3, <2>1, <2>2 DEF Inv, T1Inv, Written
<1>7. PushedInv'
  <2>1. Top = List[Len(head)]
    BY <1>2 DEF PopsInv, Top, Latest
  <2>2. CASE t1.outcome = "popped"
    <3>1. Pops1 = 1
      BY <2>2 DEF Pops1
    <3>2. Latest(next[A]) = Null
      BY <1>1, <1>2, <2>1, <3>1, Listed
    <3> QED
      BY <1>1, <1>3, <1>4, <2>2, <3>2 DEF PushedInv
  <2>3. CASE t1.outcome # "popped"
    <3>1. Len(head) = 3 /\ Latest(next[A]) = C
      BY <1>1, <1>2, <2>1, <2>3, Listed
    <3>2. t2.popped = {A, B}
      <4>1. t2.popped = {List[k] : k \in 1 .. 2}
        BY <1>2, <2>3, <3>1 DEF PopsInv
      <4>2. 1 .. 2 = {1, 2}
        OBVIOUS
      <4> QED
        BY <4>1, <4>2, Listed
    <3>3. Written(A) \subseteq {B, C} /\ t1.outcome \in {"none", "failed"}
      BY <1>1, <1>2, <2>3 DEF PopsInv, Inv, TypeOK, Outcome
    <3>4. t2'.popped = {B} /\ A # B
      BY <1>4, <3>2, Distinct
    <3>5. Latest(next'[A]) = C /\ Written(A)' \subseteq {B, C}
      BY <1>1, <3>1, <3>3 DEF Written
    <3> QED
      BY <1>1, <1>3, <3>3, <3>4, <3>5 DEF PushedInv
  <2> QED
    BY <2>2, <2>3
<1> QED
  BY <1>4, <1>5, <1>6, <1>7 DEF Inv
-----------------------------------------------------------------------------
LEMMA SafetyNextInv == Inv /\ [Next]_vars => Inv'
<1> SUFFICES ASSUME Inv, [Next]_vars
             PROVE  Inv'
  OBVIOUS
<1>1. CASE Thread1
  BY <1>1, VulnerableLoadsInv, VulnerableReadsNextInv, VulnerableSucceedsInv, VulnerableFailsInv
  DEF Thread1
<1>2. CASE Thread2
  <2>1. CASE PopLoads \/ PopReadsNext \/ PopSucceeds \/ PopFails
    BY <2>1, PopLoadsInv, PopReadsNextInv, PopSucceedsInv, PopFailsInv
  <2>2. CASE PushLoads
    BY <2>2, WriteNextInv DEF PushLoads
  <2>3. CASE PushFails
    BY <2>3, WriteNextInv DEF PushFails, PushSees
  <2>4. CASE PushSucceeds
    BY <2>4, PushSucceedsInv
  <2> QED
    BY <1>2, <2>1, <2>2, <2>3, <2>4 DEF Thread2
<1>3. CASE UNCHANGED vars
  <2>1. UNCHANGED <<head, next, t1, t2>>
    BY <1>3 DEF vars
  <2>2. (TypeOK /\ NextInv /\ T1Inv)'
    BY <2>1 DEF Inv, TypeOK, NextInv, T1Inv, Written
  <2>3. PopsInv => PopsInv'
    BY <2>1 DEF PopsInv, Pops1, Pops2, Written
  <2>4. PushedInv => PushedInv'
    BY <2>1 DEF PushedInv, Written, Top
  <2> QED
    BY <2>1, <2>2, <2>3, <2>4 DEF Inv
<1> QED
  BY <1>1, <1>2, <1>3 DEF Next, Joined

(* The invariant, of the safety part of the specification.                 *)
THEOREM Invariance == Safety => []Inv
BY InitInv, SafetyNextInv, PTL DEF Safety

(* No thread follows nullptr and main finds a node on top.                 *)
THEOREM NoNullFollowed == Safety => []NoNullDereference
<1>1. Inv => NoNullDereference
  <2> SUFFICES ASSUME Inv
               PROVE  NoNullDereference
    OBVIOUS
  <2>1. t1.pc = "next" => t1.old # Null
    BY Distinct DEF Inv, T1Inv
  <2>2. ASSUME t2.pc = "exchange"
        PROVE  t2.old # Null
    <3>1. /\ PopsInv /\ t2.seen \in 1 + Pops2 .. Len(head)
          /\ Pops2 \in 0 .. 2 /\ Len(head) \in 1 .. 3
      BY <2>2, BeforePush
    <3>2. t2.old = List[t2.seen] /\ t2.seen \in 1 .. 3
      BY <2>2, <3>1 DEF PopsInv
    <3> QED
      BY <3>2, Listed, Distinct DEF Node
  <2>3. Done => Top # Null
    BY Distinct DEF Done, Inv, PushedInv, Node
  <2> QED
    BY <2>1, <2>2, <2>3 DEF NoNullDereference
<1> QED
  BY <1>1, Invariance, PTL

(* The damage of a late exchange is always the one line 67 announces.      *)
THEOREM DamageIsAsAnnounced == Safety => []AbaIsAsAnnounced
<1>1. Inv => AbaIsAsAnnounced
  <2> SUFFICES ASSUME Inv, t1.outcome = "aba"
               PROVE  t2.pc = "done" /\ t1.old = A /\ Top = B /\ B \in t2.popped
    BY DEF AbaIsAsAnnounced
  <2>1. t2.pc = "done"
    BY DEF Inv, PopsInv
  <2> QED
    BY <2>1 DEF Inv, PushedInv
<1> QED
  BY <1>1, Invariance, PTL

(* Without the ABA problem no popped node is on the stack, and the stack   *)
(* ends, whatever the two threads' order.                                  *)
LEMMA InvPopped == Inv => PoppedStayOut
<1> SUFFICES ASSUME Inv, t1.outcome # "aba"
             PROVE  Popped \intersect Chain = {} /\ Follow(Follow(Follow(Top))) = Null
  BY DEF PoppedStayOut
<1>1. Follow(Null) = Null /\ Follow(B) = C /\ Follow(C) = Null /\ Follow(A) = Latest(next[A])
  BY Distinct, WrittenOnce DEF Inv, NextInv, Follow, Node
<1>2. CASE t2.pc # "done"
  <2>1. /\ PopsInv /\ Len(head) \in 1 .. 4
        /\ Len(head) \in 1 .. 2 => t2.pc # "commit" /\ next[A] = <<B>>
    BY <1>2, BeforePush
  <2>2. Popped \subseteq {List[k] : k \in 1 .. Len(head) - 1}
    BY <1>2, <2>1 DEF Popped, PopsInv
  <2>3. Top = List[Len(head)]
    BY <2>1 DEF PopsInv, Top, Latest
  <2>4. Len(head) \in 1 .. 2 => Follow(A) = B
    BY <1>1, <2>1, WrittenOnce
  <2>5. /\ Chain \subseteq {List[k] : k \in Len(head) .. 3}
        /\ Follow(Follow(Follow(Top))) = Null
    <3>1. CASE Len(head) = 1
      <4>1. Top = A /\ Chain = {A, B, C} /\ Follow(Follow(Follow(Top))) = Null
        BY <1>1, <2>3, <2>4, <3>1, Listed, Distinct DEF Chain, Node
      <4>2. {A, B, C} \subseteq {List[k] : k \in 1 .. 3}
        BY Listed
      <4> QED
        BY <3>1, <4>1, <4>2
    <3>2. CASE Len(head) = 2
      <4>1. Top = B /\ Chain = {B, C} /\ Follow(Follow(Follow(Top))) = Null
        BY <1>1, <2>3, <3>2, Listed, Distinct DEF Chain, Node
      <4>2. B \in {List[k] : k \in 2 .. 3} /\ C \in {List[k] : k \in 2 .. 3}
        BY Listed
      <4> QED
        BY <3>2, <4>1, <4>2
    <3>3. CASE Len(head) = 3
      <4>1. Top = C /\ Chain = {C} /\ Follow(Follow(Follow(Top))) = Null
        BY <1>1, <2>3, <3>3, Listed, Distinct DEF Chain, Node
      <4>2. C \in {List[k] : k \in 3 .. 3}
        BY Listed
      <4> QED
        BY <3>3, <4>1, <4>2
    <3>4. CASE Len(head) = 4
      BY <1>1, <2>3, <3>4, Listed DEF Chain
    <3> QED
      BY <2>1, <3>1, <3>2, <3>3, <3>4
  <2>6. {List[k] : k \in 1 .. Len(head) - 1} \intersect {List[k] : k \in Len(head) .. 3} = {}
    BY <2>1, ListedOnce
  <2> QED
    BY <2>2, <2>5, <2>6
<1>3. CASE t2.pc = "done"
  <2>1. /\ A \notin Popped
        /\ \/ Top = A /\ Follow(A) = Null
           \/ /\ C \notin Popped
              /\ Top = C \/ (Top = A /\ Follow(A) = C)
    BY <1>1, <1>3, Distinct DEF Inv, PushedInv, Popped
  <2> QED
    BY <1>1, <2>1, Distinct DEF Chain
<1> QED
  BY <1>2, <1>3

(* A node that was popped stays off a stack that is still a list.          *)
THEOREM PoppedNodesStayOut == Safety => []PoppedStayOut
BY InvPopped, Invariance, PTL
=============================================================================
