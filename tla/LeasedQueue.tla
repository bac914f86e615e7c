----------------------------- MODULE LeasedQueue -----------------------------
(* What a standard queue promises its clients, without threads, clocks or the
   containers messages move through (services/sqs/models.py, StandardQueue).

   A sent message is queued until a receive leases it. Receiving is not atomic:
   the queue first offers the message to one receiver, then the receive takes
   effect. A lease may end, which queues the message again. A message that is
   deleted, purged, dead-lettered or too old is gone and never comes back: the
   most it can still do is complete a receive it had been offered to. *)
EXTENDS Naturals

CONSTANTS
  Messages,
  Limit       \* how often a message may be received; 0 is no limit

VARIABLES
  standing,   \* "unsent", "queued", "leased" or "gone"
  offered,    \* messages in the hands of a receive that has not taken effect
  attempts    \* completed receives of each message

vars == <<standing, offered, attempts>>

Init ==
  /\ standing = [m \in Messages |-> "unsent"]
  /\ offered = {}
  /\ attempts = [m \in Messages |-> 0]

Becomes(S, state) ==
  standing' = [m \in Messages |-> IF m \in S THEN state ELSE standing[m]]

Send(m) ==
  /\ standing[m] = "unsent"
  /\ Becomes({m}, "queued")
  /\ UNCHANGED <<offered, attempts>>

Offer(m) ==
  /\ standing[m] = "queued" /\ m \notin offered
  /\ offered' = offered \cup {m}
  /\ UNCHANGED <<standing, attempts>>

Receive(m) ==
  /\ m \in offered
  /\ Limit > 0 => attempts[m] < Limit
  /\ offered' = offered \ {m}
  /\ attempts' = [attempts EXCEPT ![m] = @ + 1]
  /\ \/ UNCHANGED standing
     \/ standing[m] = "queued" /\ Becomes({m}, "leased")

Withdraw(m) ==
  /\ m \in offered
  /\ offered' = offered \ {m}
  /\ Becomes({m}, "gone")
  /\ UNCHANGED attempts

EndLeases(S) ==
  /\ \A m \in S : standing[m] = "leased"
  /\ Becomes(S, "queued")
  /\ UNCHANGED <<offered, attempts>>

Remove(S) ==
  /\ \A m \in S : standing[m] \in {"queued", "leased"}
  /\ Becomes(S, "gone")
  /\ UNCHANGED <<offered, attempts>>

Next ==
  \/ \E m \in Messages : Send(m) \/ Offer(m) \/ Receive(m) \/ Withdraw(m)
  \/ \E S \in SUBSET Messages : EndLeases(S) \/ Remove(S)

Spec == Init /\ [][Next]_vars
=============================================================================
