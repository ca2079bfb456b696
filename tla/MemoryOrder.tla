---------------------------- MODULE MemoryOrder ----------------------------
(***************************************************************************)
(* What the C++20 memory orders carry from one thread to another, reduced  *)
(* to a count: "how many of the other thread's accesses happen before this *)
(* point".  An atomic location is a sequence of messages, its modification *)
(* order.  A load may return any message that is not older than one the    *)
(* thread has already seen (coherence); only a release store read by an    *)
(* acquire load adds a happens-before edge.                                *)
(***************************************************************************)
EXTENDS Naturals, Sequences

(* What a store of memory order o publishes of the storing thread's own    *)
(* count of accesses.                                                      *)
Released(o, own) == IF o = "release" THEN own ELSE 0

(* What a thread that knew `known` accesses of the other thread knows      *)
(* after a load of memory order o returns a message carrying `carried`.    *)
Acquired(o, known, carried) ==
  IF o = "acquire" /\ carried > known THEN carried ELSE known

(* The value a thread finds in an atomic only it writes.                   *)
Latest(log) == log[Len(log)]

(* The positions of `log` that a thread which last saw position `seen`     *)
(* may load from.                                                          *)
Visible(log, seen) == seen .. Len(log)
=============================================================================
