--------------------------- MODULE PingPongProofs ---------------------------
(***************************************************************************)
(* Proofs about the ping-pong benchmark, for any number of round trips:    *)
(* the counter is never raced for, the receiver misses no increment, and   *)
(* the flag plays the game of module RoundTrips.                           *)
(***************************************************************************)
EXTENDS PingPong, SequenceTheorems, TLAPS

LEMMA RoundsAreNat == Rounds \in Nat
BY RoundsAssumption

LEMMA InitInv == Init => Inv
BY RoundsAreNat DEF Init, Inv, TypeOK, SendersTurn, Latest

(* Appending a store keeps the earlier ones, and is the latest.            *)
LEMMA StoreAppends ==
  ASSUME Inv, NEW v \in {0, 1}, NEW o, NEW k \in Nat, k <= accesses, StoreFlag(v, o, k)
  PROVE  /\ flag' \in Seq([value : {0, 1}, accesses : Nat])
         /\ Len(flag') = Len(flag) + 1
         /\ Latest(flag)' = [value |-> v, accesses |-> Released(o, k)]
         /\ flag'[Len(flag)] = Latest(flag)
         /\ \A i \in 1 .. Len(flag') : flag'[i].accesses <= accesses
<1>1. /\ Len(flag) \in Nat \ {0} /\ flag \in Seq([value : {0, 1}, accesses : Nat])
      /\ accesses \in Nat
      /\ \A i \in 1 .. Len(flag) : flag[i].accesses <= accesses
  BY DEF Inv, TypeOK
<1>2. /\ [value |-> v, accesses |-> Released(o, k)] \in [value : {0, 1}, accesses : Nat]
      /\ Released(o, k) <= accesses
  BY <1>1 DEF Released
<1> QED
  BY <1>1, <1>2 DEF StoreFlag, Latest

LEMMA MessageTypes ==
  ASSUME Inv, NEW k \in 1 .. Len(flag)
  PROVE  /\ flag[k].value \in {0, 1} /\ flag[k].accesses \in Nat
         /\ flag[k].accesses <= accesses /\ accesses \in Nat
<1> DEFINE Message == [value : {0, 1}, accesses : Nat]
<1>1. flag \in Seq(Message) /\ accesses \in Nat /\ flag[k].accesses <= accesses
  BY DEF Inv, TypeOK
<1> HIDE DEF Message
<1>2. flag[k] \in Message
  BY <1>1, ElementOfSeq
<1> QED
  BY <1>1, <1>2 DEF Message

(* What a thread knows after a load is at most what there is to know.      *)
LEMMA LoadLearns ==
  ASSUME Inv, NEW known \in Nat, known <= accesses, NEW seen \in 1 .. Len(flag)
  PROVE  LET now == Acquired("acquire", known, flag[seen].accesses) IN
         /\ now \in Nat /\ now <= accesses
         /\ flag[seen].accesses = accesses => now = accesses
         /\ flag[seen].value \in {0, 1}
BY MessageTypes DEF Acquired

-----------------------------------------------------------------------------
(* The sender.                                                             *)

LEMMA IncrementInv == Inv /\ Increment => Inv'
<1> SUFFICES ASSUME Inv, Increment
             PROVE  Inv'
  OBVIOUS
<1>1. /\ sender.pc = "loop" /\ sender.idx < Rounds /\ SendersTurn
      /\ sender' = [sender EXCEPT !.pc = "store", !.known = accesses + 1]
      /\ counter' = counter + 1 /\ accesses' = accesses + 1
      /\ UNCHANGED <<flag, samples, receiver>>
  BY DEF Increment, AccessCounter, Inv
<1>2. /\ accesses \in Nat /\ accesses' \in Nat
      /\ sender.idx \in 0 .. Rounds /\ counter = sender.idx
  BY <1>1 DEF Inv, TypeOK, SendersTurn
<1>3. sender' = [pc |-> "store", idx |-> sender.idx, seen |-> sender.seen,
                    known |-> accesses + 1]
  BY <1>1 DEF Inv, TypeOK
<1>4. TypeOK'
  BY <1>1, <1>2, <1>3, RoundsAreNat DEF Inv, TypeOK
<1>5. SendersTurn'
  BY <1>1, <1>2, <1>3 DEF Inv, TypeOK, SendersTurn, Latest
<1>6. receiver.known <= accesses'
  BY <1>1, <1>2 DEF Inv, TypeOK
<1>7. \A k \in 1 .. Len(flag) : flag[k].accesses <= accesses'
  BY <1>1, <1>2, MessageTypes
<1> QED
  BY <1>1, <1>2, <1>3, <1>4, <1>5, <1>6, <1>7 DEF Inv

LEMMA RequestInv == Inv /\ Request => Inv'
<1> SUFFICES ASSUME Inv, Request
             PROVE  Inv'
  OBVIOUS
<1>1. /\ sender.pc = "store" /\ SendersTurn
      /\ sender' = [sender EXCEPT !.pc = "wait", !.seen = Len(flag) + 1]
      /\ StoreFlag(1, RequestStoreOrder, sender.known)
      /\ UNCHANGED <<counter, accesses, samples, receiver>>
  BY DEF Request, Inv
<1>2. /\ sender.known \in Nat /\ sender.known = accesses
      /\ sender' = [pc |-> "wait", idx |-> sender.idx, seen |-> Len(flag) + 1,
                    known |-> accesses]
  BY <1>1 DEF Inv, TypeOK, SendersTurn
<1>3. /\ flag' \in Seq([value : {0, 1}, accesses : Nat])
      /\ Len(flag') = Len(flag) + 1
      /\ Latest(flag)' = [value |-> 1, accesses |-> accesses]
      /\ flag'[Len(flag)] = Latest(flag)
      /\ \A i \in 1 .. Len(flag') : flag'[i].accesses <= accesses
  BY <1>1, <1>2, StoreAppends DEF Released, RequestStoreOrder, Inv
<1>4. TypeOK'
  BY <1>1, <1>2, <1>3 DEF Inv, TypeOK
<1>5. RequestUp'
  BY <1>1, <1>2, <1>3 DEF Inv, TypeOK, SendersTurn, RequestUp
<1> QED
  BY <1>1, <1>2, <1>3, <1>4, <1>5 DEF Inv, TypeOK, SendersTurn

(* A load of the sender's spin sees its own request, or the response.      *)
LEMMA SenderLoadsInv ==
  ASSUME Inv, NEW seen \in Visible(flag, sender.seen), SenderLoads(seen)
  PROVE  Inv'
<1> DEFINE known == Acquired("acquire", sender.known, flag[seen].accesses)
<1>1. /\ sender.pc = "wait" /\ sender.idx < Rounds /\ counter = sender.idx + 1
      /\ RequestUp \/ ResponseDown
      /\ UNCHANGED <<flag, counter, accesses, receiver>>
  BY DEF SenderLoads, Inv
<1>2. /\ known \in Nat /\ known <= accesses
      /\ flag[seen].accesses = accesses => known = accesses
      /\ flag[seen].value \in {0, 1}
      /\ seen \in 1 .. Len(flag) /\ sender.seen <= seen
  <2>1. seen \in 1 .. Len(flag) /\ sender.seen <= seen
    BY DEF Inv, TypeOK, Visible
  <2>2. sender.known \in Nat /\ sender.known <= accesses
    BY DEF Inv, TypeOK
  <2> QED
    BY <2>1, <2>2, LoadLearns
<1> HIDE DEF known
<1>0. /\ flag[sender.seen].value = 1
      /\ \/ sender.seen = Len(flag)
         \/ ResponseDown /\ sender.seen = Len(flag) - 1 /\ flag[Len(flag)].value = 0
  <2>1. CASE RequestUp
    BY <2>1 DEF RequestUp, Latest
  <2>2. CASE ResponseDown
    BY <2>2 DEF ResponseDown, Latest
  <2> QED
    BY <1>1, <2>1, <2>2
<1>3. CASE flag[seen].value = 1
  <2>1. seen = sender.seen
    <3>1. sender.seen = Len(flag) \/ (sender.seen = Len(flag) - 1 /\ seen # Len(flag))
      BY <1>0, <1>3
    <3>2. Len(flag) \in Nat /\ seen \in Int /\ sender.seen \in Int
      BY DEF Inv, TypeOK, Visible
    <3> QED
      BY <1>2, <3>1, <3>2
  <2>2. ~IsResponse(flag[seen].value)
    BY <1>3 DEF IsResponse
  <2>3. /\ sender' = [sender EXCEPT !.seen = seen, !.known = known, !.pc = "wait",
                                    !.idx = sender.idx]
        /\ samples' = samples
    BY <2>2 DEF SenderLoads, ResponseLoadOrder, known
  <2>4. sender' = [pc |-> "wait", idx |-> sender.idx, seen |-> seen, known |-> known]
    BY <2>3 DEF Inv, TypeOK
  <2> QED
    BY <1>1, <1>2, <2>1, <2>3, <2>4 DEF Inv, TypeOK, RequestUp, ResponseDown, Latest
<1>4. CASE flag[seen].value = 0
  <2>1. ResponseDown /\ seen = Len(flag)
    <3>1. seen # sender.seen
      BY <1>0, <1>4
    <3>2. Len(flag) \in Nat /\ seen \in Int /\ sender.seen \in Int
      BY DEF Inv, TypeOK, Visible
    <3> QED
      BY <1>0, <1>2, <3>1, <3>2
  <2>2. known = accesses
    BY <1>2, <2>1 DEF ResponseDown, Latest
  <2>3. /\ sender' = [pc |-> "loop", idx |-> sender.idx + 1, seen |-> seen, known |-> known]
        /\ samples' = samples + 1
    BY <1>1, <1>4 DEF SenderLoads, IsResponse, ResponseLoadOrder, known, Inv, TypeOK
  <2>4. TypeOK'
    BY <1>1, <1>2, <2>3, RoundsAreNat DEF Inv, TypeOK
  <2>5. SendersTurn'
    BY <1>1, <2>1, <2>2, <2>3 DEF Inv, TypeOK, SendersTurn, ResponseDown, Latest
  <2> QED
    BY <1>1, <1>2, <2>3, <2>4, <2>5 DEF Inv, TypeOK
<1> QED
  BY <1>2, <1>3, <1>4

-----------------------------------------------------------------------------
(* The receiver.                                                           *)

(* A load of the receiver's spin sees its own response, or the request.    *)
LEMMA ReceiverLoadsInv ==
  ASSUME Inv, NEW seen \in Visible(flag, receiver.seen), ReceiverLoads(seen)
  PROVE  Inv'
<1> DEFINE known == Acquired("acquire", receiver.known, flag[seen].accesses)
<1>1. /\ receiver.pc = "loop" /\ receiver.idx < Rounds
      /\ UNCHANGED <<flag, counter, accesses, samples, sender>>
  BY DEF ReceiverLoads
<1>2. /\ known \in Nat /\ known <= accesses
      /\ flag[seen].accesses = accesses => known = accesses
      /\ flag[seen].value \in {0, 1}
      /\ seen \in 1 .. Len(flag) /\ receiver.seen <= seen
  <2>1. seen \in 1 .. Len(flag) /\ receiver.seen <= seen
    BY DEF Inv, TypeOK, Visible
  <2>2. receiver.known \in Nat /\ receiver.known <= accesses
    BY DEF Inv, TypeOK
  <2> QED
    BY <2>1, <2>2, LoadLearns
<1> HIDE DEF known
<1>0. /\ flag[receiver.seen].value = 0
      /\ \/ receiver.seen = Len(flag)
         \/ sender.pc = "wait" /\ RequestUp /\ receiver.seen = Len(flag) - 1
  <2>1. CASE sender.pc # "wait"
    BY <2>1 DEF Inv, SendersTurn, Latest
  <2>2. CASE sender.pc = "wait" /\ RequestUp
    BY <1>1, <2>2 DEF RequestUp, Latest
  <2>3. CASE ResponseDown
    BY <2>3 DEF ResponseDown, Latest
  <2> QED
    BY <2>1, <2>2, <2>3 DEF Inv
<1>3. CASE flag[seen].value = 0
  <2>1. seen = receiver.seen
    <3>1. receiver.seen = Len(flag) \/ (receiver.seen = Len(flag) - 1 /\ seen # Len(flag))
      BY <1>0, <1>3 DEF RequestUp, Latest
    <3>2. Len(flag) \in Nat /\ seen \in Int /\ receiver.seen \in Int
      BY DEF Inv, TypeOK, Visible
    <3> QED
      BY <1>2, <3>1, <3>2
  <2>2. receiver' = [receiver EXCEPT !.seen = seen, !.known = known, !.pc = "loop"]
    BY <1>3 DEF ReceiverLoads, RequestLoadOrder, known
  <2>3. receiver' = [pc |-> "loop", idx |-> receiver.idx, seen |-> receiver.seen,
                     known |-> known, observed |-> receiver.observed]
    BY <2>1, <2>2 DEF Inv, TypeOK
  <2> QED
    BY <1>1, <1>2, <2>3
    DEF Inv, TypeOK, SendersTurn, RequestUp, ResponseDown, Latest
<1>4. CASE flag[seen].value = 1
  <2>1. /\ sender.pc = "wait" /\ RequestUp /\ seen = Len(flag)
    <3>1. seen # receiver.seen
      BY <1>0, <1>4
    <3>2. Len(flag) \in Nat /\ seen \in Int /\ receiver.seen \in Int
      BY DEF Inv, TypeOK, Visible
    <3> QED
      BY <1>0, <1>2, <3>1, <3>2
  <2>2. known = accesses
    BY <1>1, <1>2, <2>1 DEF RequestUp, Latest
  <2>3. receiver' = [pc |-> "read", idx |-> receiver.idx, seen |-> seen, known |-> known,
                     observed |-> receiver.observed]
    BY <1>1, <1>4 DEF ReceiverLoads, RequestLoadOrder, known, Inv, TypeOK
  <2>4. RequestUp'
    BY <1>1, <2>1, <2>2, <2>3 DEF RequestUp, Latest
  <2> QED
    BY <1>1, <1>2, <2>1, <2>3, <2>4 DEF Inv, TypeOK
<1> QED
  BY <1>2, <1>3, <1>4

LEMMA ReadCounterInv == Inv /\ ReadCounter => Inv'
<1> SUFFICES ASSUME Inv, ReadCounter
             PROVE  Inv'
  OBVIOUS
<1>1. /\ receiver.pc = "read" /\ sender.pc = "wait" /\ RequestUp
      /\ accesses' = accesses + 1 /\ accesses \in Nat
      /\ receiver' = [pc |-> "store", idx |-> receiver.idx, seen |-> receiver.seen,
                      known |-> accesses + 1, observed |-> counter]
      /\ UNCHANGED <<flag, counter, samples, sender>>
  BY DEF ReadCounter, AccessCounter, Inv, TypeOK, SendersTurn, ResponseDown
<1>2. TypeOK'
  BY <1>1 DEF Inv, TypeOK
<1>3. RequestUp'
  BY <1>1 DEF RequestUp, Latest
<1>4. sender.known <= accesses'
  BY <1>1 DEF Inv, TypeOK
<1>5. \A k \in 1 .. Len(flag) : flag[k].accesses <= accesses'
  BY <1>1, MessageTypes
<1> QED
  BY <1>1, <1>2, <1>3, <1>4, <1>5 DEF Inv

LEMMA RespondInv == Inv /\ Respond => Inv'
<1> SUFFICES ASSUME Inv, Respond
             PROVE  Inv'
  OBVIOUS
<1>1. /\ receiver.pc = "store" /\ sender.pc = "wait" /\ RequestUp
      /\ StoreFlag(0, ResponseStoreOrder, receiver.known)
      /\ receiver' = [pc |-> "loop", idx |-> receiver.idx + 1, seen |-> Len(flag) + 1,
                      known |-> receiver.known, observed |-> receiver.observed]
      /\ UNCHANGED <<counter, accesses, samples, sender>>
  BY DEF Respond, LoweredFlag, Inv, TypeOK, SendersTurn, ResponseDown
<1>2. receiver.known \in Nat /\ receiver.known = accesses
  BY <1>1 DEF Inv, TypeOK, RequestUp
<1>3. /\ flag' \in Seq([value : {0, 1}, accesses : Nat])
      /\ Len(flag') = Len(flag) + 1
      /\ Latest(flag)' = [value |-> 0, accesses |-> accesses]
      /\ flag'[Len(flag)] = Latest(flag)
      /\ \A i \in 1 .. Len(flag') : flag'[i].accesses <= accesses
  BY <1>1, <1>2, StoreAppends DEF Released, ResponseStoreOrder, Inv
<1>4. sender.idx < Rounds /\ receiver.idx = sender.idx
  BY <1>1 DEF Inv, RequestUp
<1>5. TypeOK'
  BY <1>1, <1>3, <1>4, RoundsAreNat DEF Inv, TypeOK
<1>6. ResponseDown'
  BY <1>1, <1>3, <1>4 DEF Inv, TypeOK, RequestUp, ResponseDown
<1>7. /\ sender.seen \in 1 .. Len(flag') /\ receiver'.seen \in 1 .. Len(flag')
      /\ sender.known <= accesses /\ receiver'.known <= accesses
  <2>1. sender.seen \in 1 .. Len(flag) /\ Len(flag) \in Nat
    BY DEF Inv, TypeOK
  <2>2. sender.known <= accesses /\ receiver.known <= accesses
    BY DEF Inv
  <2> QED
    BY <1>1, <1>3, <2>1, <2>2
<1>8. samples = sender.idx /\ counter = sender.idx + 1
  BY <1>1 DEF Inv
<1> QED
  BY <1>1, <1>3, <1>4, <1>5, <1>6, <1>7, <1>8 DEF Inv

-----------------------------------------------------------------------------
LEMMA NextInv == Inv /\ [Next]_vars => Inv'
<1> SUFFICES ASSUME Inv, [Next]_vars
             PROVE  Inv'
  OBVIOUS
<1>1. CASE Increment
  BY <1>1, IncrementInv
<1>2. CASE Request
  BY <1>2, RequestInv
<1>3. CASE \E seen \in Visible(flag, sender.seen) : SenderLoads(seen)
  BY <1>3, SenderLoadsInv
<1>4. CASE \E seen \in Visible(flag, receiver.seen) : ReceiverLoads(seen)
  BY <1>4, ReceiverLoadsInv
<1>5. CASE ReadCounter
  BY <1>5, ReadCounterInv
<1>6. CASE Respond
  BY <1>6, RespondInv
<1>7. CASE UNCHANGED vars
  BY <1>7 DEF vars, Inv, TypeOK, SendersTurn, RequestUp, ResponseDown, Latest
<1> QED
  BY <1>1, <1>2, <1>3, <1>4, <1>5, <1>6, <1>7
  DEF Next, SenderThread, ReceiverThread, Joined

(* The two threads take turns in every reachable state.                    *)
THEOREM Invariance == Spec => []Inv
<1>1. Init => Inv
  BY InitInv
<1>2. Inv /\ [Next]_vars => Inv'
  BY NextInv
<1> QED
  BY <1>1, <1>2, PTL DEF Spec, Safety

(* Each access to the plain counter happens after all the earlier ones.    *)
THEOREM NoDataRace == Spec => []DataRaceFree
<1>1. Inv => DataRaceFree
  BY DEF Inv, DataRaceFree, SendersTurn, RequestUp, ResponseDown
<1> QED
  BY <1>1, Invariance, PTL

(* The receiver's round idx reads the sender's increment of round idx.     *)
THEOREM NoIncrementMissed == Spec => []ReceiverInStep
<1>1. Inv => ReceiverInStep
  BY DEF Inv, TypeOK, ReceiverInStep, SendersTurn, RequestUp, ResponseDown
<1> QED
  BY <1>1, Invariance, PTL

-----------------------------------------------------------------------------
(* Refinement: the steps that move the ball.                               *)

LEMMA GameInit == Init => Game!Init
BY RoundsAreNat DEF Init, Game!Init, Ball

LEMMA GameStep == Inv /\ [Next]_vars => [Game!Next]_(Game!vars)
<1> SUFFICES ASSUME Inv, [Next]_vars
             PROVE  Game!Next \/ UNCHANGED Game!vars
  OBVIOUS
<1> USE DEF Game!vars, Game!Move, Ball
<1>1. CASE Increment
  <2>1. receiver.pc = "loop" /\ sender.pc # "wait"
    BY <1>1 DEF Increment, Inv, SendersTurn
  <2>2. sender'.pc # "wait" /\ sender'.idx = sender.idx /\ receiver' = receiver
    BY <1>1 DEF Increment, Inv, TypeOK
  <2> QED
    BY <2>1, <2>2
<1>2. CASE Request
  <2>1. /\ receiver.pc = "loop" /\ sender.pc = "store" /\ sender.idx < Rounds
        /\ sender.known \in Nat /\ sender.known <= accesses
    BY <1>2 DEF Request, Inv, TypeOK, SendersTurn
  <2>2. sender'.pc = "wait" /\ sender'.idx = sender.idx /\ receiver' = receiver
    BY <1>2 DEF Request, Inv, TypeOK
  <2>3. Latest(flag)'.value = 1
    BY <1>2, <2>1, StoreAppends DEF Request
  <2> QED
    BY <2>1, <2>2, <2>3 DEF Game!Next, Game!Send
<1>3. CASE \E seen \in Visible(flag, sender.seen) : SenderLoads(seen)
  <2>1. PICK seen \in Visible(flag, sender.seen) : SenderLoads(seen)
    BY <1>3
  <2>2. sender.pc = "wait" /\ receiver' = receiver /\ flag' = flag
    BY <2>1 DEF SenderLoads
  <2>3. CASE IsResponse(flag[seen].value)
    <3>1. ResponseDown
      BY <2>1, <2>2, <2>3
      DEF Inv, TypeOK, IsResponse, Visible, RequestUp, ResponseDown, Latest
    <3>2. sender'.pc = "loop" /\ sender'.idx = sender.idx + 1
      BY <2>1, <2>3 DEF SenderLoads, Inv, TypeOK
    <3> QED
      BY <2>2, <3>1, <3>2 DEF ResponseDown, Game!Next, Game!Return
  <2>4. CASE ~IsResponse(flag[seen].value)
    <3>1. sender'.pc = "wait" /\ sender'.idx = sender.idx
      BY <2>1, <2>4 DEF SenderLoads, Inv, TypeOK
    <3> QED
      BY <2>2, <3>1 DEF Latest
  <2> QED
    BY <2>3, <2>4
<1>4. CASE \E seen \in Visible(flag, receiver.seen) : ReceiverLoads(seen)
  <2>1. PICK seen \in Visible(flag, receiver.seen) : ReceiverLoads(seen)
    BY <1>4
  <2>2. receiver.pc = "loop" /\ sender' = sender /\ flag' = flag
    BY <2>1 DEF ReceiverLoads
  <2>3. CASE flag[seen].value = 1
    <3>1. sender.pc = "wait" /\ Latest(flag).value = 1
      BY <2>1, <2>2, <2>3
      DEF Inv, TypeOK, Visible, SendersTurn, RequestUp, ResponseDown, Latest
    <3>2. receiver'.pc = "read"
      BY <2>1, <2>3 DEF ReceiverLoads, Inv, TypeOK
    <3> QED
      BY <2>2, <3>1, <3>2 DEF Game!Next, Game!Receive
  <2>4. CASE flag[seen].value # 1
    <3>1. receiver'.pc = "loop"
      BY <2>1, <2>4 DEF ReceiverLoads, Inv, TypeOK
    <3> QED
      BY <2>2, <3>1 DEF Latest
  <2> QED
    BY <2>3, <2>4
<1>5. CASE ReadCounter
  <2>1. /\ receiver.pc = "read" /\ receiver'.pc = "store"
        /\ sender' = sender
    BY <1>5 DEF ReadCounter, Inv, TypeOK
  <2> QED
    BY <2>1
<1>6. CASE Respond
  <2>1. /\ receiver.pc = "store" /\ receiver'.pc = "loop" /\ sender' = sender
        /\ receiver.known \in Nat /\ receiver.known <= accesses
    BY <1>6 DEF Respond, Inv, TypeOK
  <2>2. sender.pc = "wait"
    BY <2>1 DEF Inv, SendersTurn
  <2>3. Latest(flag)'.value = 0
    BY <1>6, <2>1, StoreAppends DEF Respond, LoweredFlag
  <2> QED
    BY <2>1, <2>2, <2>3 DEF Game!Next, Game!Answer
<1>7. CASE UNCHANGED vars
  BY <1>7 DEF vars, Latest
<1> QED
  BY <1>1, <1>2, <1>3, <1>4, <1>5, <1>6, <1>7
  DEF Next, SenderThread, ReceiverThread, Joined

(* The benchmark implements the safety part of the game of round trips.    *)
THEOREM FlagImplementsRoundTrips == Spec => Game!Safety
<1>1. Init => Game!Init
  BY GameInit
<1>2. Inv /\ [Next]_vars => [Game!Next]_(Game!vars)
  BY GameStep
<1> QED
  BY <1>1, <1>2, Invariance, PTL DEF Spec, Safety, Game!Safety
=============================================================================
