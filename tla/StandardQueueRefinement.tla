----------------------- MODULE StandardQueueRefinement -----------------------
(* StandardQueue implements LeasedQueue, for clients that zero the visibility
   timeout of in-flight messages only. *)
EXTENDS StandardQueue

(* A flag decides before a container does: a message deleted while a receiver
   held it may still enter `_inflight`, and is gone all the same. *)
Standing(m) ==
  CASE m \in deleted -> "gone"
    [] m \in inflight \ deleted -> "leased"
    [] m \in (Range(visible) \cup delayed \cup Held) \ (inflight \cup deleted) -> "queued"
    [] OTHER -> IF m \in acked \ Oversized THEN "gone" ELSE "unsent"

(* The receive that dead-letters a message is counted but completes nothing. *)
Attempts(m) == IF Exhausted(receiveCount[m]) THEN MaxReceiveCount ELSE receiveCount[m]

Promise == INSTANCE LeasedQueue WITH
  Limit <- MaxReceiveCount,
  standing <- [m \in Messages |-> Standing(m)],
  offered <- Held,
  attempts <- [m \in Messages |-> Attempts(m)]

(* The threads, locks and containers of StandardQueue keep the promise of a
   leased queue: a removed message never comes back, at most one receive holds a
   message, a leased one is not offered, and none is received beyond the limit. *)
KeepsPromise == Promise!Spec
=============================================================================
