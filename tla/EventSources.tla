---------------------------- MODULE EventSources ----------------------------
(* Lambda event source mappings: services/lambda_/event_source.py polls a stream
   (Kinesis or DynamoDB: one shard, whose position all of its mappings share) and an
   SQS queue; services/lambda_/provider.py creates, updates and deletes mappings.

   One engine thread takes the mappings in turn and waits for every invocation;
   producers, other consumers of the queue, visibility timeouts and the API move
   meanwhile. The configuration of a mapping is read when its turn comes, and kept for
   the whole poll. Records are their numbers in the shard. An invocation fails at most
   MaxFailures times: nothing else ends the retries of a batch that always fails,
   MaximumRetryAttempts is not read. Positions live in memory only, and start from 0
   after a restart. *)
EXTENDS Naturals, Sequences, SequencesExt, FiniteSets

CONSTANTS
  StreamMappings, QueueMappings,
  Messages,
  MaxRecords, MaxFailures, \* bounds
  OneSource,  \* bound: if TRUE, a behaviour uses the stream or the queue, not both
  BatchSize,
  Wants,      \* the sets of records or messages a FilterCriteria may match
  Off         \* no mapping

ASSUME EventSourcesAssumption ==
  /\ MaxRecords \in Nat /\ MaxFailures \in Nat /\ OneSource \in BOOLEAN /\ BatchSize \in Nat \ {0}
  /\ Off \notin StreamMappings \cup QueueMappings
  /\ StreamMappings \cap QueueMappings = {}

VARIABLES
  state,      \* _esm_store: per mapping "none", "Enabled", "Disabled" or "deleted"
  config,     \* what its FilterCriteria match, BisectBatchOnFunctionError and
              \* ReportBatchItemFailures among its FunctionResponseTypes
  todo,       \* the mappings the engine has still to take in this turn
  poll,       \* the poll of one mapping
  put,        \* records in the shard
  position,   \* the position of the shard
  queue,      \* where a message of the queue is
  failures,
  done,       \* history: records and messages accepted by a function or filtered out
  unread      \* history: messages reported as failed where reports are not read

configVars == <<state, config>>
sourceVars == <<put, queue>>
history == <<done, unread>>
vars == <<configVars, todo, poll, sourceVars, position, failures, history>>

Mappings == StreamMappings \cup QueueMappings
Resting == [mapping |-> Off]
Configs(m) ==
  [wants : Wants, bisect : BOOLEAN, report : IF m \in QueueMappings THEN BOOLEAN ELSE {FALSE}]
Unset == [wants |-> {}, bisect |-> FALSE, report |-> FALSE]

Settings == [wants : Wants \cup {{}}, bisect : BOOLEAN, report : BOOLEAN]
Items == Nat \cup Messages
Poll == [mapping : Mappings, config : Settings, step : {"whole", "first", "second"},
         batch : Seq(Items), sent : Seq(Items)]

TypeOK ==
  /\ state \in [Mappings -> {"none", "Enabled", "Disabled", "deleted"}]
  /\ config \in [Mappings -> Settings]
  /\ todo \subseteq Mappings
  /\ poll \in {Resting} \cup Poll
  /\ put \in 0..MaxRecords /\ position \in 0..put
  /\ queue \in [Messages -> {"absent", "visible", "inflight", "deleted"}]
  /\ failures \in 0..MaxFailures
  /\ done \subseteq Items /\ unread \subseteq Messages

Init ==
  /\ state = [m \in Mappings |-> "none"] /\ config = [m \in Mappings |-> Unset]
  /\ todo = {} /\ poll = Resting
  /\ put = 0 /\ position = 0
  /\ queue = [q \in Messages |-> "absent"]
  /\ failures = 0 /\ done = {} /\ unread = {}

StreamUnused == put = 0 /\ \A m \in StreamMappings : state[m] = "none"
QueueUnused == \A q \in Messages, m \in QueueMappings : queue[q] = "absent" /\ state[m] = "none"
Bound == OneSource => StreamUnused' \/ QueueUnused'

----------------------------------------------------------------------------
(* The API, which may change a mapping during its poll; the engine reads State from
   the mapping as it is when its turn comes, deleted or not. *)
Configure(m, to) ==
  /\ state' = [state EXCEPT ![m] = to]
  /\ UNCHANGED <<todo, poll, sourceVars, position, failures, history>>

CreateMapping(m) ==
  /\ state[m] = "none"
  /\ Configure(m, "Enabled")
  /\ \E c \in Configs(m) : config' = [config EXCEPT ![m] = c]
  /\ Bound

UpdateMapping(m) ==
  /\ state[m] \in {"Enabled", "Disabled"}
  /\ \E to \in {"Enabled", "Disabled"} : Configure(m, to)
  /\ \E c \in Configs(m) : config' = [config EXCEPT ![m] = c]

DeleteMapping(m) ==
  /\ state[m] \in {"Enabled", "Disabled"}
  /\ Configure(m, "deleted")
  /\ UNCHANGED config

(* Producers, and what else receives from the queue. *)
PutRecord ==
  /\ put < MaxRecords
  /\ put' = put + 1
  /\ UNCHANGED <<configVars, todo, poll, queue, position, failures, history>>
  /\ Bound

MessageMoves(q, from, to) ==
  /\ queue[q] = from
  /\ queue' = [queue EXCEPT ![q] = to]
  /\ UNCHANGED <<configVars, todo, poll, put, position, failures, history>>

SendMessage(q) == MessageMoves(q, "absent", "visible") /\ Bound
OtherReceives(q) == MessageMoves(q, "visible", "inflight")
VisibilityExpires(q) == MessageMoves(q, "inflight", "visible")

----------------------------------------------------------------------------
Live == {m \in Mappings : state[m] \in {"Enabled", "Disabled"}}

(* A turn of the engine begins with a copy of the list of mappings. *)
Turn ==
  /\ todo = {} /\ poll = Resting
  /\ todo' = Live
  /\ UNCHANGED <<configVars, poll, sourceVars, position, failures, history>>

Take(m) == poll = Resting /\ m \in todo /\ todo' = todo \ {m}

Disabled(m) ==
  /\ Take(m) /\ state[m] = "Disabled"
  /\ UNCHANGED <<configVars, poll, sourceVars, position, failures, history>>

Start(m, batch, sent) ==
  poll' = [mapping |-> m, config |-> config[m], step |-> "whole", batch |-> batch, sent |-> sent]

(* The part of a batch that passes a filter, in order: its j-th member is the one that
   stands at the j-th of the places whose members pass. *)
Passes(batch, wants) == {i \in DOMAIN batch : batch[i] \in wants}
Passing(batch, wants) ==
  LET passes == Passes(batch, wants) IN
  [j \in 1..Cardinality(passes) |->
     batch[CHOOSE i \in passes : Cardinality({k \in passes : k <= i}) = j]]

(* As PastFiltered, staying before them. *)
PastFiltered_Stays(end) == position

(* The position after records that were all filtered out. *)
PastFiltered(end) == end

PollStream(m) ==
  /\ m \in StreamMappings /\ Take(m) /\ state[m] # "Disabled"
  /\ LET end == IF position + BatchSize < put THEN position + BatchSize ELSE put
         batch == [i \in 1..(end - position) |-> position + i]
         sent == Passing(batch, config[m].wants)
     IN IF batch = <<>> THEN UNCHANGED <<poll, position, done>>
        ELSE IF sent = <<>>
        THEN position' = PastFiltered(end) /\ done' = done \cup ToSet(batch) /\ UNCHANGED poll
        ELSE Start(m, batch, sent) /\ UNCHANGED <<position, done>>
  /\ UNCHANGED <<configVars, sourceVars, failures, unread>>

(* Any visible messages, in any order; those all filtered out are deleted. *)
PollQueue(m) ==
  /\ m \in QueueMappings /\ Take(m) /\ state[m] # "Disabled"
  /\ \E batch \in SetToAllKPermutations({q \in Messages : queue[q] = "visible"}) :
       LET sent == Passing(batch, config[m].wants) IN
       /\ Len(batch) <= BatchSize
       /\ batch = <<>> => \A q \in Messages : queue[q] # "visible"
       /\ IF batch = <<>> THEN UNCHANGED <<poll, queue, done>>
          ELSE IF sent = <<>>
          THEN /\ queue' = [q \in Messages |-> IF q \in ToSet(batch) THEN "deleted" ELSE queue[q]]
               /\ done' = done \cup ToSet(batch) /\ UNCHANGED poll
          ELSE /\ queue' = [q \in Messages |-> IF q \in ToSet(batch) THEN "inflight" ELSE queue[q]]
               /\ Start(m, batch, sent) /\ UNCHANGED done
  /\ UNCHANGED <<configVars, put, position, failures, unread>>

----------------------------------------------------------------------------
(* An invocation ends: what it was given, what it accepts. *)
Middle(s) == Len(s) \div 2
Given ==
  IF poll.step = "whole" THEN poll.sent
  ELSE IF poll.step = "first" THEN SubSeq(poll.sent, 1, Middle(poll.sent))
  ELSE SubSeq(poll.sent, Middle(poll.sent) + 1, Len(poll.sent))
Filtered == ToSet(poll.batch) \ poll.config.wants
Bisects == poll.step = "whole" /\ poll.config.bisect /\ Len(poll.sent) > 1

OfStream == poll # Resting /\ poll.mapping \in StreamMappings
OfQueue == poll # Resting /\ poll.mapping \in QueueMappings

(* As Reached, past the whole batch after its first half. *)
Reached_All(p) == Last(p.batch)

(* The position after a success: the middle of a halved batch is counted in the records
   that passed the filter, and looked up among all of them. *)
Reached(p) == IF p.step = "whole" THEN Last(p.batch) ELSE p.batch[Middle(p.sent)]

StreamSucceeds ==
  /\ OfStream
  /\ position' = Reached(poll)
  /\ done' = done \cup ToSet(Given) \cup Filtered
  /\ poll' = Resting
  /\ UNCHANGED <<configVars, todo, sourceVars, failures, unread>>

(* Only the first half of a failed batch is tried again at once. *)
StreamFails ==
  /\ OfStream /\ failures < MaxFailures
  /\ failures' = failures + 1
  /\ poll' = IF Bisects THEN [poll EXCEPT !.step = "first"] ELSE Resting
  /\ UNCHANGED <<configVars, todo, sourceVars, position, history>>

(* As Acknowledged, of a function whose report is not read. *)
Acknowledged_All(p, failed) == ToSet(p.batch)

(* The messages deleted after a success of the whole batch, those filtered out among
   them, or of a half of it. *)
Acknowledged(p, failed) ==
  IF p.step = "whole" THEN ToSet(p.batch) \ (IF p.config.report THEN failed ELSE {})
  ELSE ToSet(Given)

NextHalf == IF poll.step = "first" THEN [poll EXCEPT !.step = "second"] ELSE Resting

(* Messages are deleted by their receipts, whether still in flight or not. The items a
   function reports as failed are read after the whole batch only. *)
QueueSucceeds(failed) ==
  /\ OfQueue
  /\ failed \subseteq (IF poll.config.report THEN ToSet(Given) ELSE {})
  /\ queue' = [q \in Messages |-> IF q \in Acknowledged(poll, failed) THEN "deleted" ELSE queue[q]]
  /\ done' = done \cup (ToSet(Given) \ failed) \cup (IF poll.step = "whole" THEN Filtered ELSE {})
  /\ unread' = unread \cup (IF poll.step = "whole" THEN {} ELSE failed)
  /\ poll' = NextHalf
  /\ UNCHANGED <<configVars, todo, put, position, failures>>

QueueFails ==
  /\ OfQueue /\ failures < MaxFailures
  /\ failures' = failures + 1
  /\ poll' = IF Bisects THEN [poll EXCEPT !.step = "first"] ELSE NextHalf
  /\ UNCHANGED <<configVars, todo, sourceVars, position, history>>

Engine ==
  \/ Turn
  \/ \E m \in Mappings : Disabled(m) \/ PollStream(m) \/ PollQueue(m)
  \/ StreamSucceeds \/ StreamFails
  \/ \E failed \in SUBSET Messages : QueueSucceeds(failed)
  \/ QueueFails

Next ==
  \/ Engine
  \/ \E m \in Mappings : CreateMapping(m) \/ UpdateMapping(m) \/ DeleteMapping(m)
  \/ PutRecord
  \/ \E q \in Messages : SendMessage(q) \/ OtherReceives(q) \/ VisibilityExpires(q)

(* The engine thread runs, and its invocations end. *)
Fairness == WF_vars(Engine)

Spec == Init /\ [][Next]_vars /\ Fairness

----------------------------------------------------------------------------
(* The position of a shard passes no record that no function has accepted and no
   filter has rejected: whatever fails, is halved or filtered, and whichever mappings
   come and go on the stream. *)
NoneSkipped == 1..position \subseteq done

(* The engine deletes no message that was not accepted or filtered out, also when its
   receipt is old or half of the batch has failed, except those a function reports as
   failed in a half. *)
DeletedHandled == \A q \in Messages : queue[q] = "deleted" => q \in done \cup unread

(* A stream with a mapping that stays enabled is drained, whatever the other mappings do
   and however its configuration changes. *)
StreamDrained ==
  \A m \in StreamMappings : <>[](state[m] = "Enabled") => []<>(position = put)
=============================================================================
