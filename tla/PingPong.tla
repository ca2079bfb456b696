------------------------------ MODULE PingPong ------------------------------
(***************************************************************************)
(* bench/pingpong_bench.cpp: sender_thread increments a plain counter and  *)
(* raises an atomic flag, receiver_thread reads the counter and lowers the *)
(* flag, Rounds times; each spins until it loads the value the other one   *)
(* stores.                                                                 *)
(*                                                                         *)
(* flag is the modification order of the atomic: a load may return any     *)
(* store that is not older than the last one the thread has seen.          *)
(* `accesses` counts the accesses to the counter, and `known` how many of  *)
(* them happen before a thread's next step.  The two layouts (Packed and   *)
(* Padded) differ in addresses only.                                       *)
(*                                                                         *)
(* (Faulty... : coding errors, see module SpscQueue.)                      *)
(***************************************************************************)
EXTENDS MemoryOrder

CONSTANT Rounds  \* NUM_ROUND_TRIPS

ASSUME RoundsAssumption == Rounds \in Nat

VARIABLES
  flag,      \* stores into flag: [value, accesses]
  counter,   \* the plain int
  accesses,  \* accesses made to it so far
  samples,   \* size of round_trip_samples
  sender, receiver

vars == <<flag, counter, accesses, samples, sender, receiver>>

Init ==
  /\ flag = <<[value |-> 0, accesses |-> 0]>>
  /\ counter = 0
  /\ accesses = 0
  /\ samples = 0
  /\ sender = [pc |-> "loop", idx |-> 0, seen |-> 1, known |-> 0]
  /\ receiver = [pc |-> "loop", idx |-> 0, seen |-> 1, known |-> 0, observed |-> 0]

(* A plain access to the counter.                                          *)
AccessCounter == accesses' = accesses + 1

StoreFlag(value, order, known) ==
  flag' = Append(flag, [value |-> value, accesses |-> Released(order, known)])

-----------------------------------------------------------------------------
(* sender_thread.                                                          *)

FaultyRequestRelaxed == "relaxed"
RequestStoreOrder == "release"
ResponseLoadOrder == "acquire"

Increment ==
  /\ sender.pc = "loop"
  /\ sender.idx < Rounds
  /\ counter' = counter + 1
  /\ AccessCounter
  /\ sender' = [sender EXCEPT !.pc = "store", !.known = accesses + 1]
  /\ UNCHANGED <<flag, samples, receiver>>

Request ==
  /\ sender.pc = "store"
  /\ StoreFlag(1, RequestStoreOrder, sender.known)
  /\ sender' = [sender EXCEPT !.pc = "wait", !.seen = Len(flag) + 1]
  /\ UNCHANGED <<counter, accesses, samples, receiver>>

FaultyAwaitAny(value) == TRUE
IsResponse(value) == value = 0

(* One load of the spin: the wait goes on, or the trip is over and timed.  *)
SenderLoads(seen) ==
  LET message == flag[seen]
      over == IsResponse(message.value)
  IN
  /\ sender.pc = "wait"
  /\ sender' = [sender EXCEPT
       !.seen = seen,
       !.known = Acquired(ResponseLoadOrder, @, message.accesses),
       !.pc = IF over THEN "loop" ELSE "wait",
       !.idx = IF over THEN @ + 1 ELSE @]
  /\ samples' = IF over THEN samples + 1 ELSE samples
  /\ UNCHANGED <<flag, counter, accesses, receiver>>

-----------------------------------------------------------------------------
(* receiver_thread.                                                        *)

RequestLoadOrder == "acquire"
ResponseStoreOrder == "release"

FaultyLoweredFlag == 1
LoweredFlag == 0

ReceiverLoads(seen) ==
  LET message == flag[seen] IN
  /\ receiver.pc = "loop"
  /\ receiver.idx < Rounds
  /\ receiver' = [receiver EXCEPT
       !.seen = seen,
       !.known = Acquired(RequestLoadOrder, @, message.accesses),
       !.pc = IF message.value = 1 THEN "read" ELSE "loop"]
  /\ UNCHANGED <<flag, counter, accesses, samples, sender>>

(* The empty asm statement takes the counter as a memory operand.          *)
ReadCounter ==
  /\ receiver.pc = "read"
  /\ AccessCounter
  /\ receiver' = [receiver EXCEPT !.pc = "store", !.observed = counter,
                                  !.known = accesses + 1]
  /\ UNCHANGED <<flag, counter, samples, sender>>

Respond ==
  /\ receiver.pc = "store"
  /\ StoreFlag(LoweredFlag, ResponseStoreOrder, receiver.known)
  /\ receiver' = [receiver EXCEPT !.pc = "loop", !.idx = @ + 1, !.seen = Len(flag) + 1]
  /\ UNCHANGED <<counter, accesses, samples, sender>>

-----------------------------------------------------------------------------
SenderThread ==
  \/ Increment
  \/ Request
  \/ \E seen \in Visible(flag, sender.seen) : SenderLoads(seen)

ReceiverThread ==
  \/ \E seen \in Visible(flag, receiver.seen) : ReceiverLoads(seen)
  \/ ReadCounter
  \/ Respond

Done == /\ sender.idx = Rounds /\ sender.pc = "loop"
        /\ receiver.idx = Rounds /\ receiver.pc = "loop"

(* main has joined both threads.                                           *)
Joined == Done /\ UNCHANGED vars

Next == SenderThread \/ ReceiverThread \/ Joined

Safety == Init /\ [][Next]_vars

(* The scheduler runs both threads, and a spinning thread eventually loads *)
(* the flag's latest value, as in SpscTransfer.                            *)
Spec ==
  /\ Safety
  /\ WF_vars(SenderThread) /\ SF_vars(SenderLoads(Len(flag)))
  /\ WF_vars(ReceiverThread) /\ SF_vars(ReceiverLoads(Len(flag)))

-----------------------------------------------------------------------------
(* The types of the shared state (lines 33 to 52) and of the locals.       *)
TypeOK ==
  /\ flag \in Seq([value : {0, 1}, accesses : Nat])
  /\ counter \in 0 .. Rounds
  /\ accesses \in Nat
  /\ samples \in 0 .. Rounds
  /\ sender \in [pc : {"loop", "store", "wait"}, idx : 0 .. Rounds, seen : Nat, known : Nat]
  /\ receiver \in [pc : {"loop", "read", "store"}, idx : 0 .. Rounds, seen : Nat,
                   known : Nat, observed : 0 .. Rounds]

(* The plain counter is never accessed by a thread that does not know all  *)
(* the accesses before: the release stores of lines 61 and 75 and the      *)
(* acquire loads of lines 62 and 73 order them, in both directions.        *)
DataRaceFree ==
  /\ sender.pc = "loop" /\ sender.idx < Rounds => sender.known = accesses
  /\ receiver.pc = "read" => receiver.known = accesses

(* The receiver reads, in its round idx, exactly the sender's increment of *)
(* that round: none is missed and none is seen twice, however stale the    *)
(* loads of the flag are.                                                  *)
ReceiverInStep == receiver.pc = "store" => receiver.observed = receiver.idx + 1

(* Where the ball is.                                                      *)
Ball ==
  CASE receiver.pc \in {"read", "store"} -> "away"
    [] receiver.pc = "loop" /\ sender.pc = "wait" ->
         IF Latest(flag).value = 1 THEN "request" ELSE "response"
    [] OTHER -> "home"

Game == INSTANCE RoundTrips WITH rounds <- Rounds, trips <- sender.idx, ball <- Ball

(* The flag hands the ball over and back, Rounds times, and neither thread *)
(* waits for ever for a value only the other one writes (lines 62, 73).    *)
PlaysRoundTrips == Game!Spec

-----------------------------------------------------------------------------
(* The inductive invariant.                                                *)

(* The sender's turn: it and the receiver have both seen the flag lowered, *)
(* and the sender knows every access to the counter.                       *)
SendersTurn ==
  /\ receiver.pc = "loop" /\ receiver.idx = sender.idx
  /\ Latest(flag).value = 0
  /\ sender.seen = Len(flag) /\ receiver.seen = Len(flag)
  /\ sender.known = accesses
  /\ counter = sender.idx + (IF sender.pc = "store" THEN 1 ELSE 0)

(* The flag is up, and the receiver, which may still see it down, gets the *)
(* sender's increment with it.                                             *)
RequestUp ==
  /\ receiver.idx = sender.idx
  /\ Latest(flag).value = 1
  /\ sender.seen = Len(flag)
  /\ receiver.pc = "loop" =>
       /\ receiver.seen = Len(flag) - 1 /\ flag[Len(flag) - 1].value = 0
       /\ Latest(flag).accesses = accesses
  /\ receiver.pc # "loop" => receiver.seen = Len(flag) /\ receiver.known = accesses
  /\ receiver.pc = "store" => receiver.observed = counter

(* The flag is down again, and the sender may still see it up.             *)
ResponseDown ==
  /\ receiver.pc = "loop" /\ receiver.idx = sender.idx + 1
  /\ Latest(flag).value = 0 /\ Latest(flag).accesses = accesses
  /\ receiver.seen = Len(flag)
  /\ sender.seen = Len(flag) - 1 /\ flag[Len(flag) - 1].value = 1

(* At each moment it is one thread's turn; a stale load of the flag can    *)
(* only be of the other thread's previous store, and only delays.          *)
Inv ==
  /\ TypeOK
  /\ sender.seen \in 1 .. Len(flag) /\ receiver.seen \in 1 .. Len(flag)
  /\ sender.known <= accesses /\ receiver.known <= accesses
  /\ \A k \in 1 .. Len(flag) : flag[k].accesses <= accesses
  /\ samples = sender.idx
  /\ sender.pc # "loop" => sender.idx < Rounds
  /\ sender.pc # "wait" => SendersTurn
  /\ sender.pc = "wait" => counter = sender.idx + 1 /\ (RequestUp \/ ResponseDown)
=============================================================================
