--------------------------- MODULE LockFreeStack ---------------------------
(***************************************************************************)
(* experiments/broken_aba.cpp: a lock-free stack of three nodes, a thread  *)
(* t1 that pops with a long pause between reading old->next and the        *)
(* exchange, and a thread t2 that meanwhile pops twice and pushes node A   *)
(* back.                                                                   *)
(*                                                                         *)
(* The sleeps are lower bounds that order nothing, so every interleaving   *)
(* is allowed.  head is a modification order; `wrote` in a message is how  *)
(* many writes of its node's next happen before a load that acquires it.   *)
(* next is plain memory: t1 reads it unsynchronised with t2's push, and    *)
(* gets any write it does not know to be overwritten.                      *)
(*                                                                         *)
(* (Faulty... : coding errors, see module SpscQueue.)                      *)
(***************************************************************************)
EXTENDS Naturals, Sequences, FiniteSets, MemoryOrder

CONSTANTS A, B, C, Null  \* pool[0], pool[1], pool[2] and nullptr

Node == {A, B, C}

ASSUME StackAssumption == Cardinality(Node \union {Null}) = 4

VARIABLES
  head,  \* stores into head: [node, wrote]
  next,  \* next[n]: the writes of node n's next
  t1,    \* pop_vulnerable: its locals, and how its exchange ended
  t2     \* the three calls of t2: locals of the current one, nodes popped

vars == <<head, next, t1, t2>>

(* main has pushed C, B and A, and its threads know all of that.           *)
Init ==
  /\ head = <<[node |-> A, wrote |-> 1]>>
  /\ next = [n \in Node |-> CASE n = A -> <<B>> [] n = B -> <<C>> [] n = C -> <<Null>>]
  /\ t1 = [pc |-> "load", old |-> Null, known |-> 0, stale_next |-> Null, seen |-> 1,
           outcome |-> "none"]
  /\ t2 = [pc |-> "load", call |-> 1, old |-> Null, new |-> Null, seen |-> 1, popped |-> {}]

Top == Latest(head).node

(* head holds `old` no more, or the exchange replaces it.                  *)
FaultyMatches(old) == TRUE
Matches(old) == Top = old

(* A pop releases nothing of its own, but goes on releasing main's writes. *)
Exchange(new) == head' = Append(head, [node |-> new, wrote |-> 1])

-----------------------------------------------------------------------------
(* t1: pop_vulnerable.                                                     *)

VulnerableLoads ==
  /\ t1.pc = "load"
  /\ \E seen \in Visible(head, t1.seen) :
       t1' = [t1 EXCEPT !.pc = "next", !.old = head[seen].node, !.seen = seen,
                        !.known = Acquired("acquire", @, head[seen].wrote)]
  /\ UNCHANGED <<head, next, t2>>

VulnerableReadsNext ==
  /\ t1.pc = "next"
  /\ \E k \in Visible(next[t1.old], t1.known) :
       t1' = [t1 EXCEPT !.pc = "exchange", !.stale_next = next[t1.old][k]]
  /\ UNCHANGED <<head, next, t2>>

(* compare_exchange_strong compares the pointer only.                      *)
VulnerableSucceeds ==
  /\ t1.pc = "exchange"
  /\ Matches(t1.old)
  /\ Exchange(t1.stale_next)
  /\ t1' = [t1 EXCEPT !.pc = "done",
                      !.outcome = IF t1.stale_next = Latest(next[t1.old])
                                  THEN "popped" ELSE "aba"]
  /\ UNCHANGED <<next, t2>>

VulnerableFails ==
  /\ t1.pc = "exchange"
  /\ \E seen \in Visible(head, t1.seen) : head[seen].node # t1.old
  /\ t1' = [t1 EXCEPT !.pc = "done", !.outcome = "failed"]
  /\ UNCHANGED <<head, next, t2>>

-----------------------------------------------------------------------------
(* t2: pop_normal twice, then push of node A.                              *)

AfterCall(call) == [t2 EXCEPT !.call = call + 1, !.pc = IF call = 2 THEN "push" ELSE "load"]

PopLoads ==
  /\ t2.pc = "load"
  /\ \E seen \in Visible(head, t2.seen) :
       t2' = [t2 EXCEPT !.pc = "next", !.old = head[seen].node, !.seen = seen]
  /\ UNCHANGED <<head, next, t1>>

(* The loop's test, and the read of old->next for the exchange.            *)
PopReadsNext ==
  /\ t2.pc = "next"
  /\ t2' = IF t2.old = Null THEN AfterCall(t2.call)
           ELSE [t2 EXCEPT !.pc = "exchange", !.new = Latest(next[t2.old])]
  /\ UNCHANGED <<head, next, t1>>

PopSucceeds ==
  /\ t2.pc = "exchange"
  /\ Matches(t2.old)
  /\ Exchange(t2.new)
  /\ t2' = [AfterCall(t2.call) EXCEPT !.popped = @ \union {t2.old}, !.seen = Len(head) + 1]
  /\ UNCHANGED <<next, t1>>

(* A weak exchange may fail for no reason; `old` becomes what it saw.      *)
PopSees(seen) ==
  /\ t2.pc = "exchange"
  /\ t2' = [t2 EXCEPT !.pc = "next", !.old = head[seen].node, !.seen = seen]
  /\ UNCHANGED <<head, next, t1>>

PopFails == \E seen \in Visible(head, t2.seen) : PopSees(seen)

(* node->next is where push keeps the value it expects in head.            *)
WriteNext(seen) ==
  /\ next' = IF Latest(next[A]) = head[seen].node THEN next
             ELSE [next EXCEPT ![A] = Append(@, head[seen].node)]
  /\ t2' = [t2 EXCEPT !.pc = "commit", !.seen = seen]
  /\ UNCHANGED <<head, t1>>

PushLoads == t2.pc = "push" /\ \E seen \in Visible(head, t2.seen) : WriteNext(seen)

(* The failed exchange leaves what it saw in node->next.                   *)
FaultyExpectedKept(seen) == t2.pc = "commit" /\ UNCHANGED vars
PushSees(seen) == t2.pc = "commit" /\ WriteNext(seen)

PushFails == \E seen \in Visible(head, t2.seen) : PushSees(seen)

PushSucceeds ==
  /\ t2.pc = "commit"
  /\ Matches(Latest(next[A]))
  /\ head' = Append(head, [node |-> A, wrote |-> Len(next[A])])
  /\ t2' = [t2 EXCEPT !.pc = "done", !.popped = @ \ {A}, !.seen = Len(head) + 1]
  /\ UNCHANGED <<next, t1>>

-----------------------------------------------------------------------------
Thread1 == VulnerableLoads \/ VulnerableReadsNext \/ VulnerableSucceeds \/ VulnerableFails
Thread2 == \/ PopLoads \/ PopReadsNext \/ PopSucceeds \/ PopFails
           \/ PushLoads \/ PushFails \/ PushSucceeds

Done == t1.pc = "done" /\ t2.pc = "done"

(* main has joined both threads and prints what head points to.            *)
Joined == Done /\ UNCHANGED vars

Next == Thread1 \/ Thread2 \/ Joined

Safety == Init /\ [][Next]_vars

(* Both threads run; what an exchange sees is not stale for ever, and an   *)
(* exchange that finds what it expects does not fail for ever.             *)
Spec ==
  /\ Safety
  /\ WF_vars(Thread1) /\ WF_vars(Thread2)
  /\ SF_vars(PopSees(Len(head))) /\ SF_vars(PopSucceeds)
  /\ SF_vars(PushSees(Len(head))) /\ SF_vars(PushSucceeds)

-----------------------------------------------------------------------------
Follow(n) == IF n = Null THEN Null ELSE Latest(next[n])
Chain == {Top, Follow(Top), Follow(Follow(Top))} \ {Null}

(* No null pointer is followed, though pop_vulnerable (line 62) and main   *)
(* (line 105) do not test for one: two pops before t2's push, and t1's,    *)
(* never leave head empty where it is dereferenced.                        *)
NoNullDereference ==
  /\ t1.pc = "next" => t1.old # Null
  /\ t2.pc = "exchange" => t2.old # Null
  /\ Done => Top # Null

Popped ==
  t2.popped \union (IF t1.outcome = "popped" /\ ~(t1.old = A /\ t2.pc = "done")
                    THEN {t1.old} ELSE {})

(* A node that was popped and not pushed again is off the stack, and the   *)
(* stack is a list that ends, unless the ABA problem struck: a failing or  *)
(* a timely exchange in pop_vulnerable is harmless.                        *)
PoppedStayOut ==
  t1.outcome # "aba" => Popped \intersect Chain = {} /\ Follow(Follow(Follow(Top))) = Null

(* What the message of line 67 says happened: t1's exchange commits a next *)
(* that is no longer its node's only if t2 has pushed A back, and then it  *)
(* makes B, which t2 popped, the head again.                               *)
AbaIsAsAnnounced ==
  t1.outcome = "aba" =>
    /\ t2.pc = "done" /\ t1.old = A
    /\ Top = B /\ B \in t2.popped

(* Both threads end (lines 101 and 102): only the other thread's exchange  *)
(* can make one retry, in the loops of lines 36 and 49, and a retry starts *)
(* from what the failed exchange saw.                                      *)
AllReturn == <>Done
=============================================================================
