------------------------------ MODULE FifoQueue ------------------------------
(* A FIFO SQS queue: services/sqs/models.py, class FifoQueue, with the parts of
   StandardQueue it inherits (change_visibility, purge) and the dead-lettering
   its provider does after a receive.

   Messages of one group are received in order and never two batches at a time.
   `_group_queue` is thread-safe and read before the mutex is taken, as `_visible`
   is in StandardQueue, so a receive is again several steps: GetGroup, the locked
   LockGroup that empties the group into the batch, more groups while there is
   room, and the provider's look at each message of the batch.

   Producers run in several threads (SNS, EventBridge, Lambda, Step Functions
   deliver here too): a message gets its `created` time when it is built and its
   sequence number when it is put, in two steps. Clocks are assumed fine enough
   for `created` times to differ. *)
EXTENDS Naturals, Sequences, FiniteSets, Functions

CONSTANTS
  Messages, Groups, DedupIds, Receivers,
  None,
  Group,            \* the message_group_id of each message
  DedupId,          \* the message_deduplication_id of each message
  MaxMessages,      \* max_messages of every receive
  MaxReceiveCount,  \* the redrive policy's maxReceiveCount; 0 is no policy
  Uses,             \* which of the hazardous operations happen (see below)
  ReceiveBound      \* bound: receive counts stop here, above any they are compared with

(* "overlap": two producers build and put messages in different orders;
   "stale": a message is deleted by a receipt after its visibility timeout;
   "zero": a visibility timeout is changed to 0; "retention": messages outlive the
   retention period; "purge": the queue is purged. *)
ASSUME FifoQueueAssumption ==
  /\ None \notin Messages \cup Groups
  /\ Group \in [Messages -> Groups]
  /\ DedupId \in [Messages -> DedupIds]
  /\ MaxMessages \in Nat \ {0}
  /\ MaxReceiveCount \in Nat
  /\ Uses \subseteq {"overlap", "stale", "zero", "retention", "purge"}
  /\ ReceiveBound \in Nat /\ ReceiveBound > MaxReceiveCount

VARIABLES
  created,         \* order in which messages were built; 0 is not yet
  horizon,         \* messages built up to here are past their retention
  sequence,        \* sequence_number; 0 is not put, or answered as a duplicate
  sent,            \* messages put has been called with
  heap,            \* messages in _message_groups, each in its own group
  stranded,        \* what change_visibility(0) puts in the inherited _visible
  inflight, stored, deleted, deadline, receiveCount, copies,
  receipts,        \* messages with a receipt in _receipts
  groupQueue,      \* _group_queue
  queuedGroups,    \* _queued_groups
  inflightGroups,  \* _inflight_groups
  dedupCache,      \* _dedup_cache: the message that holds a deduplication id
  phase,           \* of a receiver: "idle", "taken", "looping" or "replying"
  grip,            \* the group a receiver has taken off the group queue
  batch            \* the results of a receive, a list

messageVars == <<created, sequence, sent, deleted, deadline, receiveCount, copies>>
containerVars == <<heap, stranded, inflight, stored, receipts>>
groupVars == <<groupQueue, queuedGroups, inflightGroups>>
receiverVars == <<phase, grip, batch>>
vars == <<messageVars, horizon, containerVars, groupVars, dedupCache, receiverVars>>

TypeOK ==
  /\ created \in [Messages -> Nat]
  /\ horizon \in Nat
  /\ sequence \in [Messages -> Nat]
  /\ sent \cup heap \cup stranded \cup inflight \cup stored \cup deleted \cup receipts \subseteq Messages
  /\ deadline \in [Messages -> {"none", "future", "past"}]
  /\ receiveCount \in [Messages -> 0..ReceiveBound]
  /\ copies \in [Messages -> Nat]
  /\ groupQueue \in Seq(Groups)
  /\ queuedGroups \cup inflightGroups \subseteq Groups
  /\ dedupCache \in [DedupIds -> Messages \cup {None}]
  /\ phase \in [Receivers -> {"idle", "taken", "looping", "replying"}]
  /\ grip \in [Receivers -> Groups \cup {None}]
  /\ batch \in [Receivers -> Seq(Messages)]
  /\ \A r \in Receivers : /\ phase[r] = "taken" <=> grip[r] # None
                          /\ phase[r] = "idle" => batch[r] = <<>>

Init ==
  /\ created = [m \in Messages |-> 0]
  /\ horizon = 0
  /\ sequence = [m \in Messages |-> 0]
  /\ deadline = [m \in Messages |-> "none"]
  /\ receiveCount = [m \in Messages |-> 0]
  /\ copies = [m \in Messages |-> 0]
  /\ sent = {} /\ heap = {} /\ stranded = {} /\ inflight = {} /\ stored = {}
  /\ receipts = {} /\ deleted = {}
  /\ groupQueue = <<>> /\ queuedGroups = {} /\ inflightGroups = {}
  /\ dedupCache = [d \in DedupIds |-> None]
  /\ phase = [r \in Receivers |-> "idle"]
  /\ grip = [r \in Receivers |-> None]
  /\ batch = [r \in Receivers |-> <<>>]

Orderings(S) == Bijection(1..Cardinality(S), S)
OfGroup(S, g) == {m \in S : Group[m] = g}
Latest(f) == IF Messages = {} THEN 0 ELSE CHOOSE n \in Range(f) : \A k \in Range(f) : k <= n

-----------------------------------------------------------------------------
(* Time. *)

VisibilityExpires(m) ==
  /\ m \in inflight /\ deadline[m] = "future"
  /\ deadline' = [deadline EXCEPT ![m] = "past"]
  /\ UNCHANGED <<created, horizon, sequence, sent, deleted, receiveCount, copies, containerVars, groupVars,
                 dedupCache, receiverVars>>

RetentionPasses ==
  /\ "retention" \in Uses /\ horizon < Latest(created)
  /\ horizon' = horizon + 1
  /\ UNCHANGED <<messageVars, containerVars, groupVars, dedupCache, receiverVars>>

Aged == {m \in Messages : created[m] \in 1..horizon}

-----------------------------------------------------------------------------
(* SendMessage: SqsMessage(...) stamps `created`; put deduplicates, numbers the
   message, adds it to its group and queues the group unless it is queued or in
   flight already. *)

Build(m) ==
  /\ created[m] = 0
  /\ "overlap" \notin Uses => \A n \in Messages : created[n] > 0 => n \in sent
  /\ created' = [created EXCEPT ![m] = Latest(created) + 1]
  /\ UNCHANGED <<horizon, sequence, sent, deleted, deadline, receiveCount, copies, containerVars, groupVars,
                 dedupCache, receiverVars>>

(* Queue a group (put, delete_message and requeue_inflight_messages do it). *)
QueueGroups_WhileInflight(S, inFlight) ==
  LET new == S \ queuedGroups IN
  /\ queuedGroups' = queuedGroups \cup new
  /\ \E order \in Orderings(new) : groupQueue' = groupQueue \o order
  /\ inflightGroups' = inFlight
QueueGroups_Again(S, inFlight) ==
  LET new == S \ inFlight IN
  /\ queuedGroups' = queuedGroups \cup new
  /\ \E order \in Orderings(new) : groupQueue' = groupQueue \o order
  /\ inflightGroups' = inFlight
QueueGroups(S, inFlight) ==
  LET new == S \ (queuedGroups \cup inFlight) IN
  /\ queuedGroups' = queuedGroups \cup new
  /\ \E order \in Orderings(new) : groupQueue' = groupQueue \o order
  /\ inflightGroups' = inFlight

PutDuplicate(m) ==
  /\ created[m] > 0 /\ m \notin sent
  /\ dedupCache[DedupId[m]] # None
  /\ sent' = sent \cup {m}
  /\ UNCHANGED <<created, horizon, sequence, deleted, deadline, receiveCount, copies, containerVars,
                 groupVars, dedupCache, receiverVars>>

(* A cached id does not stand in the way once the 5 minutes of the deduplication
   interval are over: put drops old entries before it looks. *)
PutNew(m) ==
  /\ created[m] > 0 /\ m \notin sent
  /\ sent' = sent \cup {m}
  /\ dedupCache' = [dedupCache EXCEPT ![DedupId[m]] = m]
  /\ sequence' = [sequence EXCEPT ![m] = Latest(sequence) + 1]
  /\ heap' = heap \cup {m}
  /\ stored' = stored \cup {m}
  /\ QueueGroups({Group[m]}, inflightGroups)
  /\ UNCHANGED <<created, horizon, deleted, deadline, receiveCount, copies, stranded, inflight, receipts,
                 receiverVars>>
-----------------------------------------------------------------------------
(* ReceiveMessage, the lock-free step: take a group off the group queue. *)

GetGroup(r) ==
  /\ phase[r] \in {"idle", "looping"}
  /\ Len(batch[r]) < MaxMessages
  /\ groupQueue # <<>>
  /\ groupQueue' = Tail(groupQueue)
  /\ grip' = [grip EXCEPT ![r] = Head(groupQueue)]
  /\ phase' = [phase EXCEPT ![r] = "taken"]
  /\ UNCHANGED <<messageVars, horizon, containerVars, queuedGroups, inflightGroups, dedupCache,
                 batch>>

(* The locked step: pop the group's oldest messages, dropping deleted ones, until
   the batch is full or the group is empty. An empty group is just dropped; a
   group that held only deleted messages is marked in flight all the same. *)

Earliest_Reversed(S, n) == {m \in S : Cardinality({k \in S : created[k] > created[m]}) < n}
Earliest(S, n) == {m \in S : Cardinality({k \in S : created[k] < created[m]}) < n}

HandedOut(r) ==
  Earliest(OfGroup(heap, grip[r]) \ deleted, MaxMessages - Len(batch[r]))

OldestFirst(S) ==
  CHOOSE s \in Orderings(S) : \A i, j \in DOMAIN s : i < j => created[s[i]] < created[s[j]]

Popped_All(r) == OfGroup(heap, grip[r])
Popped(r) ==
  LET out == HandedOut(r) IN
  out \cup {m \in OfGroup(heap, grip[r]) \cap deleted :
              \/ Len(batch[r]) + Cardinality(out) < MaxMessages
              \/ \E n \in out : created[m] < created[n]}

EndLock_KeepsGroup(r) ==
  /\ queuedGroups' = queuedGroups \ {grip[r]}
  /\ phase' = [phase EXCEPT ![r] = "looping"]
  /\ UNCHANGED grip
EndLock(r) ==
  /\ queuedGroups' = queuedGroups \ {grip[r]}
  /\ grip' = [grip EXCEPT ![r] = None]
  /\ phase' = [phase EXCEPT ![r] = "looping"]

LockGroup(r) ==
  LET out == HandedOut(r) IN
  /\ phase[r] = "taken"
  /\ EndLock(r)
  /\ inflightGroups' =
       IF OfGroup(heap, grip[r]) = {} THEN inflightGroups ELSE inflightGroups \cup {grip[r]}
  /\ heap' = heap \ Popped(r)
  /\ inflight' = inflight \cup out
  /\ receiveCount' = [m \in Messages |->
       IF m \in out /\ receiveCount[m] < ReceiveBound THEN receiveCount[m] + 1 ELSE receiveCount[m]]
  /\ deadline' = [m \in Messages |-> IF m \in out THEN "future" ELSE deadline[m]]
  /\ receipts' = receipts \cup out
  /\ batch' = [batch EXCEPT ![r] = @ \o OldestFirst(out)]
  /\ UNCHANGED <<created, horizon, sequence, sent, deleted, copies, stranded, stored, groupQueue,
                 dedupCache>>

EndReceive(r) ==
  /\ phase[r] = "looping"
  /\ groupQueue = <<>> \/ Len(batch[r]) >= MaxMessages
  /\ phase' = [phase EXCEPT ![r] = IF batch[r] = <<>> THEN "idle" ELSE "replying"]
  /\ UNCHANGED <<messageVars, horizon, containerVars, groupVars, dedupCache, grip, batch>>

(* The provider's look at each message of the answer, without the mutex: one that
   was received too often is copied to the dead-letter queue and flagged. *)

Exhausted(n) == MaxReceiveCount > 0 /\ n > MaxReceiveCount

Reply(r) ==
  LET m == Head(batch[r]) IN
  /\ phase[r] = "replying"
  /\ batch' = [batch EXCEPT ![r] = Tail(@)]
  /\ phase' = [phase EXCEPT ![r] = IF Len(batch[r]) = 1 THEN "idle" ELSE @]
  /\ IF Exhausted(receiveCount[m])
     THEN /\ copies' = [copies EXCEPT ![m] = @ + 1]
          /\ deleted' = deleted \cup {m}
     ELSE UNCHANGED <<copies, deleted>>
  /\ UNCHANGED <<created, horizon, sequence, sent, deadline, receiveCount, containerVars, groupVars,
                 dedupCache, grip>>

-----------------------------------------------------------------------------
(* DeleteMessage and ChangeMessageVisibility, by a known receipt of message m. All
   receipts of a message do the same, and a delete drops them all. *)

DeleteMessage(m) ==
  LET g == Group[m] IN
  /\ m \in receipts
  /\ "stale" \in Uses \/ m \in inflight
  /\ deleted' = deleted \cup {m}
  /\ inflight' = inflight \ {m}
  /\ stored' = stored \ {m}
  /\ receipts' = receipts \ {m}
  /\ IF OfGroup(inflight', g) # {}
     THEN UNCHANGED groupVars
     ELSE QueueGroups(IF OfGroup(heap, g) # {} THEN {g} ELSE {}, inflightGroups \ {g})
  /\ UNCHANGED <<created, horizon, sequence, sent, deadline, receiveCount, copies, heap, stranded,
                 dedupCache, receiverVars>>

ExtendVisibility(m) ==
  /\ m \in receipts
  /\ deadline' = [deadline EXCEPT ![m] = "future"]
  /\ UNCHANGED <<created, horizon, sequence, sent, deleted, receiveCount, copies, containerVars,
                 groupVars, dedupCache, receiverVars>>

(* Inherited: the message goes to the inherited _visible, not to its group. *)
ZeroVisibility(m) ==
  /\ "zero" \in Uses
  /\ m \in receipts
  /\ deadline' = [deadline EXCEPT ![m] = "none"]
  /\ inflight' = inflight \ {m}
  /\ stranded' = stranded \cup {m}
  /\ UNCHANGED <<created, horizon, sequence, sent, deleted, receiveCount, copies, heap, stored,
                 receipts, groupVars, dedupCache, receiverVars>>

-----------------------------------------------------------------------------
(* The background worker, the retention scanner and the inherited purge. *)

Expired == {m \in inflight \ deleted : deadline[m] # "future"}

(* Groups none of whose messages stays in flight when the expired ones leave. *)
Freed_TooEarly == {g \in Groups : OfGroup(Expired, g) # {} /\ OfGroup(inflight, g) = {}}
Freed == {g \in Groups : OfGroup(Expired, g) # {} /\ OfGroup(inflight \ Expired, g) = {}}

RequeueInflight ==
  /\ Expired # {}
  /\ inflight' = inflight \ Expired
  /\ heap' = heap \cup Expired
  /\ deadline' = [m \in Messages |-> IF m \in Expired THEN "none" ELSE deadline[m]]
  /\ QueueGroups(Freed, inflightGroups \ Freed)
  /\ UNCHANGED <<created, horizon, sequence, sent, deleted, receiveCount, copies, stranded, stored,
                 receipts, dedupCache, receiverVars>>

RetentionScan ==
  /\ Aged \cap stored # {}
  /\ stored' = stored \ Aged
  /\ deleted' = deleted \cup (Aged \cap stored)
  /\ inflight' = inflight \ (Aged \cap stored)
  /\ UNCHANGED <<created, horizon, sequence, sent, deadline, receiveCount, copies, heap, stranded,
                 receipts, groupVars, dedupCache, receiverVars>>

(* purge knows nothing of groups, the group queue or the deduplication cache. *)
Purge ==
  /\ "purge" \in Uses
  /\ stranded' = {} /\ inflight' = {} /\ stored' = {} /\ receipts' = {}
  /\ UNCHANGED <<messageVars, horizon, heap, groupVars, dedupCache, receiverVars>>

-----------------------------------------------------------------------------
Tick ==
  \/ \E m \in Messages : VisibilityExpires(m)
  \/ RetentionPasses

Client ==
  \/ \E m \in Messages :
       \/ Build(m) \/ PutDuplicate(m) \/ PutNew(m)
       \/ DeleteMessage(m) \/ ExtendVisibility(m) \/ ZeroVisibility(m)
  \/ Purge

Receive(r) ==
  GetGroup(r) \/ LockGroup(r) \/ EndReceive(r) \/ Reply(r)

Worker == RequeueInflight \/ RetentionScan

Next == Tick \/ Client \/ Worker \/ \E r \in Receivers : Receive(r)

Spec == Init /\ [][Next]_vars

(* The worker thread loops for ever and receivers keep calling ReceiveMessage. *)
Fairness ==
  /\ \A m \in Messages : WF_vars(VisibilityExpires(m))
  /\ WF_vars(RequeueInflight)
  /\ \A r \in Receivers : WF_vars(Receive(r))

FairSpec == Spec /\ Fairness

-----------------------------------------------------------------------------
(* Safety. *)

(* A group is on the group queue or in one receiver's hands at most once, exactly
   while _queued_groups says so, and never while it is marked in flight; the
   groups of messages in flight are marked. A queued group has a message (so a
   receiver never finds the one it has taken empty). *)
GroupOnce ==
  /\ IsInjective(groupQueue)
  /\ \A r, s \in Receivers : grip[r] # None /\ grip[r] = grip[s] => r = s
  /\ \A r \in Receivers : grip[r] \notin Range(groupQueue)
  /\ queuedGroups = Range(groupQueue) \cup ({grip[r] : r \in Receivers} \ {None})
  /\ queuedGroups \cap inflightGroups = {}
  /\ queuedGroups \subseteq {Group[m] : m \in heap}
  /\ {Group[m] : m \in inflight} \subseteq inflightGroups

(* While a message of a group is in flight no other message of the group is
   handed out, except in the same batch. *)
GroupBlocked ==
  [][\A m \in inflight' \ inflight : OfGroup(inflight, Group[m]) = {}]_vars

(* A message is handed out only after every message of its group with a smaller
   sequence number that waits in the group, first receives and repeats alike. *)
InSequence ==
  [][\A m \in inflight' \ inflight : \A n \in (heap' \cup stranded') \ deleted :
       Group[n] = Group[m] => sequence[m] < sequence[n]]_vars

(* No group is stuck: when a message waits in a group, the group is queued, or a
   receiver is about to open it, or a message in flight will give it back when it
   is deleted or its visibility timeout ends. *)
NoStuckGroup ==
  \A m \in heap \ deleted :
    Group[m] \in queuedGroups \/ OfGroup(inflight \ deleted, Group[m]) # {}

(* No message is lost: a stored message nobody deleted waits in its group or is
   in flight. *)
NoLostMessage == stored \ deleted \subseteq heap \cup inflight

(* A group with a waiting message is served some day. *)
GroupServed ==
  \A g \in Groups : OfGroup(heap \ deleted, g) # {} ~> OfGroup(inflight, g) # {}
=============================================================================
