---------------------------- MODULE StandardQueue ----------------------------
(* A standard SQS queue: services/sqs/models.py, class StandardQueue, driven by
   ReceiveMessage threads, client calls, the 1s background worker and the
   retention scanner.

   Every client call runs on the event loop and takes the queue's mutex, except
   ReceiveMessage, which runs in a thread (asyncio.to_thread) and takes a message
   off the thread-safe `_visible` queue BEFORE it takes the mutex. A receive of one
   message is therefore three steps here: Get* (the `_visible.get` and the two
   lock-free checks), the locked section, and the provider's look at the result.
   A call that receives several messages is several of these in a row.

   Time is abstract. A deadline is "future" until VisibilityExpires makes it
   "past"; a delay is over for the members of due; a message older than the
   retention period is in aged. The order of the `_inflight` dict is not kept:
   messages that expire together may be requeued in any order. *)
EXTENDS Naturals, Sequences, FiniteSets, Functions

CONSTANTS
  Messages,         \* SqsMessage objects ever sent to this queue
  Receivers,        \* threads running ReceiveMessage
  NoMessage,        \* what an idle receiver holds
  Oversized,        \* messages longer than MaximumMessageSize
  MaxReceiveCount,  \* the redrive policy's maxReceiveCount; 0 is no policy
  DeadLetter,       \* what deadLetterTargetArn names
  PoliteClients,    \* clients zero the timeout of in-flight messages only
  VisibleBound,     \* bound: a client zeroes a timeout only below this length
  ReceiveBound      \* bound: a message received this often is not taken again

ASSUME StandardQueueAssumption ==
  /\ NoMessage \notin Messages
  /\ Oversized \subseteq Messages
  /\ MaxReceiveCount \in Nat
  /\ DeadLetter \in {"queue", "missing", "untargeted"}
  /\ PoliteClients \in BOOLEAN
  /\ VisibleBound \in Nat
  /\ ReceiveBound \in Nat

VARIABLES
  visible,       \* _visible: a FIFO of messages, possibly with repetitions
  inflight,      \* _inflight
  delayed,       \* _delayed
  stored,        \* _all_messages
  receipts,      \* messages with a receipt in _receipts
  deleted,       \* messages whose deleted flag is set
  deadline,      \* visibility_deadline: "none", "future" or "past"
  receiveCount,  \* receive_count
  due,           \* messages whose delay is over
  aged,          \* messages older than the retention period
  acked,         \* messages SendMessage has answered for
  copies,        \* copies of the message put in the dead-letter queue
  phase,         \* where a receiver is: "idle", "taken" or "replying"
  hand           \* the message a receiver holds

queueVars == <<visible, inflight, delayed, stored, receipts>>
messageVars == <<deleted, deadline, receiveCount, copies>>
clockVars == <<due, aged>>
receiverVars == <<phase, hand>>
vars == <<queueVars, messageVars, clockVars, acked, receiverVars>>

TypeOK ==
  /\ visible \in Seq(Messages)
  /\ inflight \subseteq Messages
  /\ delayed \subseteq Messages
  /\ stored \subseteq Messages
  /\ receipts \subseteq Messages
  /\ deleted \subseteq Messages
  /\ deadline \in [Messages -> {"none", "future", "past"}]
  /\ receiveCount \in [Messages -> Nat]
  /\ due \subseteq Messages
  /\ aged \subseteq Messages
  /\ acked \subseteq Messages
  /\ copies \in [Messages -> Nat]
  /\ phase \in [Receivers -> {"idle", "taken", "replying"}]
  /\ hand \in [Receivers -> Messages \cup {NoMessage}]
  /\ \A r \in Receivers : phase[r] = "idle" <=> hand[r] = NoMessage

Init ==
  /\ visible = <<>>
  /\ inflight = {} /\ delayed = {} /\ stored = {} /\ receipts = {}
  /\ deleted = {} /\ due = {} /\ aged = {} /\ acked = {}
  /\ deadline = [m \in Messages |-> "none"]
  /\ receiveCount = [m \in Messages |-> 0]
  /\ copies = [m \in Messages |-> 0]
  /\ phase = [r \in Receivers |-> "idle"]
  /\ hand = [r \in Receivers |-> NoMessage]

-----------------------------------------------------------------------------
(* The passing of time. *)

VisibilityExpires(m) ==
  /\ deadline[m] = "future"
  /\ deadline' = [deadline EXCEPT ![m] = "past"]
  /\ UNCHANGED <<queueVars, deleted, receiveCount, copies, clockVars, acked, receiverVars>>

DelayElapses(m) ==
  /\ m \in delayed \ due
  /\ due' = due \cup {m}
  /\ UNCHANGED <<queueVars, messageVars, aged, acked, receiverVars>>

RetentionPasses(m) ==
  /\ m \in acked \ aged
  /\ aged' = aged \cup {m}
  /\ UNCHANGED <<queueVars, messageVars, due, acked, receiverVars>>

-----------------------------------------------------------------------------
(* SendMessage: StandardQueue.put under the mutex. The provider answers with a
   message id whether or not put kept the message. *)

Put(m, late) ==
  IF m \in Oversized
  THEN UNCHANGED <<visible, delayed, stored>>
  ELSE /\ stored' = stored \cup {m}
       /\ delayed' = IF late THEN delayed \cup {m} ELSE delayed
       /\ visible' = IF late THEN visible ELSE Append(visible, m)

Send(m, late) ==
  /\ m \notin acked
  /\ acked' = acked \cup {m}
  /\ Put(m, late)
  /\ UNCHANGED <<inflight, receipts, messageVars, clockVars, receiverVars>>

-----------------------------------------------------------------------------
(* ReceiveMessage, step 1, without the mutex: take the next visible message,
   skip it when its deleted flag is set, delete it when retention has passed. *)

(* The check of the deleted flag at line 277 and of the age at line 282. *)
Receivable_IgnoresDeleted(m) == m \notin aged
Receivable(m) == m \notin deleted /\ m \notin aged

GetDeleted(r) ==
  /\ phase[r] = "idle" /\ visible # <<>>
  /\ Head(visible) \in deleted
  /\ visible' = Tail(visible)
  /\ UNCHANGED <<inflight, delayed, stored, receipts, messageVars, clockVars, acked, receiverVars>>

GetAged(r) ==
  /\ phase[r] = "idle" /\ visible # <<>>
  /\ Head(visible) \in aged \ deleted
  /\ visible' = Tail(visible)
  /\ deleted' = deleted \cup {Head(visible)}
  /\ UNCHANGED <<inflight, delayed, stored, receipts, deadline, receiveCount, copies,
                 clockVars, acked, receiverVars>>

GetVisible(r) ==
  /\ phase[r] = "idle" /\ visible # <<>>
  /\ Receivable(Head(visible))
  /\ receiveCount[Head(visible)] < ReceiveBound
  /\ visible' = Tail(visible)
  /\ phase' = [phase EXCEPT ![r] = "taken"]
  /\ hand' = [hand EXCEPT ![r] = Head(visible)]
  /\ UNCHANGED <<inflight, delayed, stored, receipts, messageVars, clockVars, acked>>

Get(r) == GetDeleted(r) \/ GetAged(r) \/ GetVisible(r)

(* Step 2, under the mutex: count the receive, then dead-letter the message or
   hand it out. A visibility timeout of 0 leaves it visible. *)

Exhausted_AtLimit(n) == MaxReceiveCount > 0 /\ n >= MaxReceiveCount
Exhausted(n) == MaxReceiveCount > 0 /\ n > MaxReceiveCount

Release_KeepsMessage(r) ==
  /\ phase' = [phase EXCEPT ![r] = "idle"]
  /\ UNCHANGED hand
Release(r) ==
  /\ phase' = [phase EXCEPT ![r] = "idle"]
  /\ hand' = [hand EXCEPT ![r] = NoMessage]

CountReceive(m) == receiveCount' = [receiveCount EXCEPT ![m] = @ + 1]

CopyToDeadLetterQueue(m) ==
  copies' = IF DeadLetter = "queue" THEN [copies EXCEPT ![m] = @ + 1] ELSE copies

DeadLetterOnReceive(r) ==
  LET m == hand[r] IN
  /\ phase[r] = "taken"
  /\ CountReceive(m)
  /\ Exhausted(receiveCount[m] + 1)
  /\ CopyToDeadLetterQueue(m)
  /\ IF DeadLetter = "untargeted"
     THEN UNCHANGED <<deleted, stored>>
     ELSE deleted' = deleted \cup {m} /\ stored' = stored \ {m}
  /\ Release(r)
  /\ UNCHANGED <<visible, inflight, delayed, receipts, deadline, clockVars, acked>>

HandOut(r) ==
  LET m == hand[r] IN
  /\ phase[r] = "taken"
  /\ CountReceive(m)
  /\ ~Exhausted(receiveCount[m] + 1)
  /\ receipts' = receipts \cup {m}
  /\ phase' = [phase EXCEPT ![r] = "replying"]
  /\ UNCHANGED <<delayed, stored, deleted, copies, clockVars, acked, hand>>

DeliverHidden(r) ==
  /\ HandOut(r)
  /\ deadline' = [deadline EXCEPT ![hand[r]] = "future"]
  /\ inflight' = inflight \cup {hand[r]}
  /\ UNCHANGED visible

DeliverVisible(r) ==
  /\ HandOut(r)
  /\ deadline' = [deadline EXCEPT ![hand[r]] = "none"]
  /\ visible' = Append(visible, hand[r])
  /\ UNCHANGED inflight

Deliver(r) == DeadLetterOnReceive(r) \/ DeliverHidden(r) \/ DeliverVisible(r)

(* Step 3, in the provider and without the mutex: a message received more than
   maxReceiveCount times by now goes to the dead-letter queue, not the client. *)

Reply(r) ==
  LET m == hand[r] IN
  /\ phase[r] = "replying"
  /\ Release(r)
  /\ IF Exhausted(receiveCount[m])
     THEN CopyToDeadLetterQueue(m) /\ deleted' = deleted \cup {m}
     ELSE UNCHANGED <<copies, deleted>>
  /\ UNCHANGED <<queueVars, deadline, receiveCount, clockVars, acked>>

-----------------------------------------------------------------------------
(* DeleteMessage and ChangeMessageVisibility, by a receipt of message m the queue
   knows (a call with any other changes nothing). All receipts of a message do the
   same, and a delete drops them all. The model lets a client use a receipt from
   the moment the queue issues it. *)

DeleteMessage(m) ==
  /\ m \in receipts
  /\ deleted' = deleted \cup {m}
  /\ inflight' = inflight \ {m}
  /\ stored' = stored \ {m}
  /\ receipts' = receipts \ {m}
  /\ UNCHANGED <<visible, delayed, deadline, receiveCount, copies, clockVars, acked, receiverVars>>

ExtendVisibility(m) ==
  /\ m \in receipts
  /\ deadline' = [deadline EXCEPT ![m] = "future"]
  /\ UNCHANGED <<queueVars, deleted, receiveCount, copies, clockVars, acked, receiverVars>>

ZeroVisibility_StaysInflight(m) ==
  /\ m \in receipts
  /\ m \in inflight /\ Len(visible) < VisibleBound
  /\ deadline' = [deadline EXCEPT ![m] = "none"]
  /\ visible' = Append(visible, m)
  /\ UNCHANGED <<inflight, delayed, stored, receipts, deleted, receiveCount, copies, clockVars,
                 acked, receiverVars>>
ZeroVisibility(m) ==
  /\ m \in receipts
  /\ PoliteClients => m \in inflight
  /\ Len(visible) < VisibleBound
  /\ deadline' = [deadline EXCEPT ![m] = "none"]
  /\ inflight' = inflight \ {m}
  /\ visible' = Append(visible, m)
  /\ UNCHANGED <<delayed, stored, receipts, deleted, receiveCount, copies, clockVars, acked,
                 receiverVars>>

-----------------------------------------------------------------------------
(* The background worker: SqsStore.requeue_all, every second; the retention
   scanner, every minute; and PurgeQueue. *)

Orderings(S) == Bijection(1..Cardinality(S), S)

Reappear_Forgets(S) == UNCHANGED visible
Reappear(S) == \E order \in Orderings(S) : visible' = visible \o order

Expired_NoClock == {m \in inflight \ deleted : deadline[m] = "none"}
Expired == {m \in inflight \ deleted : deadline[m] # "future"}

RequeueInflight ==
  /\ Expired # {}
  /\ inflight' = inflight \ Expired
  /\ deadline' = [m \in Messages |-> IF m \in Expired THEN "none" ELSE deadline[m]]
  /\ Reappear(Expired)
  /\ UNCHANGED <<delayed, stored, receipts, deleted, receiveCount, copies, clockVars, acked,
                 receiverVars>>

Ready == (delayed \cap due) \ deleted

EnqueueDelayed ==
  /\ Ready # {}
  /\ delayed' = delayed \ Ready
  /\ Reappear(Ready)
  /\ UNCHANGED <<inflight, stored, receipts, messageVars, clockVars, acked, receiverVars>>

RetentionScan ==
  LET expired == aged \cap stored IN
  /\ expired # {}
  /\ stored' = stored \ expired
  /\ deleted' = deleted \cup expired
  /\ inflight' = inflight \ expired
  /\ delayed' = delayed \ expired
  /\ UNCHANGED <<visible, receipts, deadline, receiveCount, copies, clockVars, acked, receiverVars>>

Purge ==
  /\ visible' = <<>>
  /\ inflight' = {} /\ delayed' = {} /\ stored' = {} /\ receipts' = {}
  /\ UNCHANGED <<messageVars, clockVars, acked, receiverVars>>

-----------------------------------------------------------------------------
Tick == \E m \in Messages : VisibilityExpires(m) \/ DelayElapses(m) \/ RetentionPasses(m)

Client ==
  \/ \E m \in Messages, late \in BOOLEAN : Send(m, late)
  \/ \E m \in Messages : DeleteMessage(m) \/ ExtendVisibility(m) \/ ZeroVisibility(m)
  \/ Purge

Receive(r) == Get(r) \/ Deliver(r) \/ Reply(r)

Worker == RequeueInflight \/ EnqueueDelayed \/ RetentionScan

Next == Tick \/ Client \/ Worker \/ \E r \in Receivers : Receive(r)

Spec == Init /\ [][Next]_vars

(* Time passes, the worker thread loops for ever, and somebody keeps calling
   ReceiveMessage: each receiver thread finishes its call and makes another. *)
Fairness ==
  /\ \A m \in Messages : WF_vars(VisibilityExpires(m)) /\ WF_vars(DelayElapses(m))
  /\ WF_vars(RequeueInflight)
  /\ WF_vars(EnqueueDelayed)
  /\ \A r \in Receivers : WF_vars(Receive(r))

FairSpec == Spec /\ Fairness

-----------------------------------------------------------------------------
(* Safety. *)

(* Messages a receiver thread has taken and not yet put anywhere. *)
Held == {m \in Messages : \E r \in Receivers : phase[r] = "taken" /\ hand[r] = m}

(* A redrive policy without a target drops the message it should move. *)
Dropped == {m \in Messages : DeadLetter = "untargeted" /\ Exhausted(receiveCount[m])}

(* No message is lost: whatever the threads are doing, a message the queue still
   accounts for and nobody deleted can be found in `_visible`, `_inflight`,
   `_delayed` or the hands of a receiver that is about to hand it out. *)
NoLostMessage ==
  stored \ (deleted \cup Dropped) \subseteq Range(visible) \cup inflight \cup delayed \cup Held

(* A message is in one place at a time: never twice in `_visible`, never visible
   while its visibility timeout runs, never held by two receivers. This is what
   hides a received message from the other receivers. *)
OnePlace ==
  /\ IsInjective(visible)
  /\ inflight \cap delayed = {}
  /\ Range(visible) \cap (inflight \cup delayed) = {}
  /\ Held \cap (Range(visible) \cup inflight \cup delayed) = {}
  /\ \A r, s \in Receivers :
       phase[r] = "taken" /\ phase[s] = "taken" /\ hand[r] = hand[s] => r = s

(* A message is dead-lettered only after the queue counted more receives than
   the redrive policy allows, and is never handed out again by a later receive. *)
DeadLetteredLate ==
  \A m \in Messages : copies[m] > 0 => receiveCount[m] > MaxReceiveCount /\ m \in deleted

(* A deleted message no receiver holds is gone for good: no later receive,
   requeue, extension or redrive counts it or hands it out again. *)
NoRevival ==
  [][\A m \in Messages : m \in deleted \ Held =>
       /\ m \in deleted' \ Held'
       /\ receiveCount'[m] = receiveCount[m]]_vars

(* Moving a message to the dead-letter queue happens at most once. *)
DeadLetteredOnce == \A m \in Messages : copies[m] <= 1

-----------------------------------------------------------------------------
(* Liveness. *)

(* Every message that is kept is received some day, unless it is deleted, purged
   or outlives its retention period first. *)
EventuallyReceived ==
  \A m \in Messages :
    m \in stored \ deleted ~> receiveCount[m] > 0 \/ m \notin stored \/ m \in deleted

(* A message in flight that nobody deletes becomes visible again, once clients
   stop extending its visibility timeout. *)
EventuallyVisible ==
  (<>[][\A m \in Messages : ~ExtendVisibility(m)]_vars) =>
    \A m \in Messages : m \in inflight \ deleted ~> m \notin inflight \/ m \in deleted
=============================================================================
