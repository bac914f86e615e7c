----------------------------- MODULE Executions -----------------------------
(* Step Functions executions: services/stepfunctions/provider.py (start, stop and the
   background thread of an execution) and asl.py (a task that waits for a callback,
   its retries, and the answers of workers).

   _running_threads and the abort events are left out: nothing reads them, the ASL
   executor included, so StopExecution changes the record and the thread runs on.

   The state machine is one Task with waitForTaskCallback and a Retry of States.ALL.
   Each member of Runs is one StartExecution call and the thread it starts. The
   handlers of both servers, execution threads and workers interleave at every lock
   and, in the answers, at every assignment: send_task_success and send_task_failure
   fill in the token after they have let go of the lock. *)
EXTENDS Naturals, FiniteSets

CONSTANTS
  Runs, Names,
  MaxAnswers,   \* bound on SendTaskSuccess and SendTaskFailure requests at a time
  MaxAttempts,  \* of the Retry
  Uses,         \* "delete": DeleteStateMachine and CreateStateMachine; "express": that type
  Nobody        \* no run

ASSUME ExecutionsAssumption ==
  /\ MaxAttempts \in Nat /\ MaxAnswers \in Nat
  /\ Uses \subseteq {"delete", "express"}
  /\ Nobody \notin Runs

VARIABLES
  machine,    \* _state_machines: the type of the machine, or "none"
  execution,  \* _executions: per name whose record it is, and its status
  forgotten,  \* history: the runs whose record went with a deleted machine
  stage,      \* where a run is
  name,       \* its execution name
  found,      \* the type of the machine it has found
  attempt,    \* its attempts at the task so far
  last,       \* what its last attempt came to
  outcome,    \* what execute() returned or raised
  token,      \* token_info per run and attempt
  tokens,     \* _task_tokens: those registered
  answers     \* requests of workers that are filling in a token

recordVars == <<machine, execution, forgotten>>
runVars == <<stage, name, found, attempt, last, outcome>>
tokenVars == <<token, tokens, answers>>
vars == <<recordVars, runVars, tokenVars>>

Attempts == 1..(MaxAttempts + 1)
Tokens == Runs \X Attempts
Types == {"STANDARD"} \cup (IF "express" \in Uses THEN {"EXPRESS"} ELSE {})
NoRecord == [run |-> Nobody, status |-> "none"]
Blank == [result |-> FALSE, error |-> FALSE, status |-> "none", event |-> FALSE]

Waiting == {"waiting", "timedOut"}

TypeOK ==
  /\ machine \in {"none", "STANDARD", "EXPRESS"}
  /\ execution \in [Names -> {NoRecord} \cup [run : Runs, status : {"RUNNING", "SUCCEEDED", "FAILED", "ABORTED"}]]
  /\ forgotten \subseteq Runs
  /\ stage \in [Runs -> {"new", "found", "refused", "stored", "concluding", "over"} \cup Waiting]
  /\ name \in [Runs -> Names]
  /\ found \in [Runs -> {"none", "STANDARD", "EXPRESS"}]
  /\ attempt \in [Runs -> 0..(MaxAttempts + 1)]
  /\ last \in [Runs -> {"none", "success", "failure", "timeout"}]
  /\ outcome \in [Runs -> {"none", "SUCCEEDED", "FAILED"}]
  /\ token \in [Tokens -> [result : BOOLEAN, error : BOOLEAN, status : {"none", "SUCCESS", "FAILED"}, event : BOOLEAN]]
  /\ tokens \subseteq Tokens
  /\ answers \subseteq [kind : {"SUCCESS", "FAILED"}, of : Tokens, step : 1..2]

Init ==
  /\ machine \in Types
  /\ execution = [n \in Names |-> NoRecord]
  /\ forgotten = {}
  /\ stage = [r \in Runs |-> "new"]
  /\ name \in [Runs -> Names]
  /\ found = [r \in Runs |-> "none"]
  /\ attempt = [r \in Runs |-> 0]
  /\ last = [r \in Runs |-> "none"] /\ outcome = [r \in Runs |-> "none"]
  /\ token = [t \in Tokens |-> Blank] /\ tokens = {}
  /\ answers = {}

To(r, s) == stage' = [stage EXCEPT ![r] = s]
TokenOf(r) == <<r, attempt[r]>>

----------------------------------------------------------------------------
CreateStateMachine(type) ==
  /\ "delete" \in Uses /\ machine = "none"
  /\ machine' = type
  /\ UNCHANGED <<execution, forgotten, runVars, tokenVars>>

(* The records go with the machine; threads and their abort events stay. *)
DeleteStateMachine ==
  /\ "delete" \in Uses /\ machine # "none"
  /\ machine' = "none"
  /\ execution' = [n \in Names |-> NoRecord]
  /\ forgotten' = forgotten \cup ({execution[n].run : n \in Names} \ {Nobody})
  /\ UNCHANGED <<runVars, tokenVars>>

(* StartExecution finds the machine under the lock, and stores the execution under
   the lock taken again; a deletion may come in between. *)
StartLookup(r) ==
  /\ stage[r] = "new"
  /\ To(r, IF machine = "none" THEN "refused" ELSE "found")
  /\ found' = [found EXCEPT ![r] = machine]
  /\ UNCHANGED <<recordVars, name, attempt, last, outcome, tokenVars>>

(* As Duplicate, without the look at the stored executions. *)
Duplicate_Never(r) == FALSE

(* A STANDARD execution may not reuse the name of a stored one. *)
Duplicate(r) == execution[name[r]].run # Nobody /\ found[r] = "STANDARD"

StartRefused(r) ==
  /\ stage[r] = "found" /\ Duplicate(r)
  /\ To(r, "refused")
  /\ UNCHANGED <<recordVars, name, found, attempt, last, outcome, tokenVars>>

StartStore(r) ==
  /\ stage[r] = "found" /\ ~Duplicate(r)
  /\ To(r, "stored")
  /\ execution' = [execution EXCEPT ![name[r]] = [run |-> r, status |-> "RUNNING"]]
  /\ UNCHANGED <<machine, forgotten, name, found, attempt, last, outcome, tokenVars>>

StopExecution(n) ==
  /\ execution[n].run # Nobody
  /\ execution' = [execution EXCEPT ![n].status = "ABORTED"]
  /\ UNCHANGED <<machine, forgotten, runVars, tokenVars>>

----------------------------------------------------------------------------
(* The task: an attempt registers a token, hands it to the worker (errors of that are
   logged only) and waits; an answer may come before the wait begins. *)
Attempt(r) ==
  /\ attempt' = [attempt EXCEPT ![r] = @ + 1]
  /\ tokens' = tokens \cup {<<r, attempt[r] + 1>>}
  /\ To(r, "waiting")
  /\ UNCHANGED <<recordVars, name, found, last, outcome, token, answers>>

(* The thread starts. *)
Begin(r) == stage[r] = "stored" /\ Attempt(r)

(* As GiveUp, of a wait without a timeout. *)
GiveUp_Never(r) == FALSE

(* wait() returns at the timeout, or the heartbeat is overdue; an answer that comes
   before the token is removed is accepted and ignored. *)
GiveUp(r) ==
  /\ stage[r] = "waiting" /\ ~token[TokenOf(r)].event
  /\ To(r, "timedOut")
  /\ UNCHANGED <<recordVars, name, found, attempt, last, outcome, tokenVars>>

(* The wait is over: removes the token and then reads what the answers left in it, the
   last one that gave its status before that. *)
TaskEnds(r) ==
  /\ stage[r] = "timedOut" \/ (stage[r] = "waiting" /\ token[TokenOf(r)].event)
  /\ last' = [last EXCEPT ![r] =
       IF stage[r] = "timedOut" THEN "timeout"
       ELSE IF token[TokenOf(r)].status = "FAILED" THEN "failure" ELSE "success"]
  /\ tokens' = tokens \ {TokenOf(r)} /\ token' = [token EXCEPT ![TokenOf(r)] = Blank]
  /\ answers' = {a \in answers : a.of # TokenOf(r)}
  /\ To(r, "concluding")
  /\ UNCHANGED <<recordVars, name, found, attempt, outcome>>

(* _handle_error executes the state again while the Retry allows it. *)
Retry(r) ==
  /\ stage[r] = "concluding" /\ last[r] # "success" /\ attempt[r] <= MaxAttempts
  /\ Attempt(r)

(* The retried state returns its output and its next state, which execute() takes for
   the next state and the data: the output is no state, and the execution fails. *)
Result(r) == IF last[r] = "success" /\ attempt[r] = 1 THEN "SUCCEEDED" ELSE "FAILED"

(* As MayFinish, of a thread that overwrites an abort. *)
MayFinish_Always(n) == execution[n].run # Nobody

MayFinish(n) == execution[n].status = "RUNNING"

(* The thread finds the record by the name of the execution, whoever stored it. *)
Finish(r) ==
  /\ stage[r] = "concluding" /\ (last[r] = "success" \/ attempt[r] > MaxAttempts)
  /\ outcome' = [outcome EXCEPT ![r] = Result(r)]
  /\ execution' =
       IF MayFinish(name[r]) THEN [execution EXCEPT ![name[r]].status = Result(r)] ELSE execution
  /\ To(r, "over")
  /\ UNCHANGED <<machine, forgotten, name, found, attempt, last, tokenVars>>

----------------------------------------------------------------------------
(* As Written, of an answer that gives the status before the payload. *)
Written_StatusFirst(info, k, step) ==
  IF step = 1 THEN [info EXCEPT !.status = k]
  ELSE IF k = "SUCCESS" THEN [info EXCEPT !.result = TRUE] ELSE [info EXCEPT !.error = TRUE]

(* What an answer writes into token_info: the payload first, then the status. *)
Written(info, k, step) ==
  IF step = 2 THEN [info EXCEPT !.status = k]
  ELSE IF k = "SUCCESS" THEN [info EXCEPT !.result = TRUE] ELSE [info EXCEPT !.error = TRUE]

(* A worker answers: the token is looked up under the lock and filled in without it,
   the event last. Nobody reads what is written into a token that has been removed,
   so a late answer ends with it. *)
Answer(k, t) ==
  /\ t \in tokens /\ Cardinality(answers) < MaxAnswers
  /\ answers' = answers \cup {[kind |-> k, of |-> t, step |-> 1]}
  /\ token' = [token EXCEPT ![t] = Written(@, k, 1)]
  /\ UNCHANGED <<recordVars, runVars, tokens>>

Mark(a) ==
  /\ a.step = 1
  /\ answers' = (answers \ {a}) \cup {[a EXCEPT !.step = 2]}
  /\ token' = [token EXCEPT ![a.of] = Written(@, a.kind, 2)]
  /\ UNCHANGED <<recordVars, runVars, tokens>>

Signal(a) ==
  /\ a.step = 2
  /\ answers' = answers \ {a}
  /\ token' = [token EXCEPT ![a.of].event = TRUE]
  /\ UNCHANGED <<recordVars, runVars, tokens>>

Start(r) == StartLookup(r) \/ StartRefused(r) \/ StartStore(r)
Execute(r) == Begin(r) \/ GiveUp(r) \/ TaskEnds(r) \/ Retry(r) \/ Finish(r)
Work ==
  \/ \E k \in {"SUCCESS", "FAILED"}, t \in Tokens : Answer(k, t)
  \/ \E a \in answers : Mark(a) \/ Signal(a)

Next ==
  \/ \E r \in Runs : Start(r) \/ Execute(r)
  \/ Work
  \/ \E n \in Names : StopExecution(n)
  \/ DeleteStateMachine
  \/ \E type \in Types : CreateStateMachine(type)

(* Threads run, and waits for a callback time out. *)
Fairness == \A r \in Runs : WF_vars(Execute(r))

Spec == Init /\ [][Next]_vars /\ Fairness

----------------------------------------------------------------------------
(* A stored execution that succeeded or failed did what its own run did, although
   the thread that finishes it looks it up by name. A deleted machine and an EXPRESS
   one let a name be used again while an earlier thread of it still runs; that thread
   then finishes the later execution. *)
OutcomeOwn ==
  \A n \in Names :
    LET r == execution[n].run IN
    (/\ execution[n].status \in {"SUCCEEDED", "FAILED"}
     /\ \A q \in Runs : name[q] = n => found[q] # "EXPRESS" /\ q \notin forgotten)
    => outcome[r] = execution[n].status

(* An execution that has ended keeps its status, unless StopExecution comes later:
   a thread that ends late overwrites neither an abort nor the end of another run. *)
TerminalStable ==
  [][\A n \in Names :
       (execution'[n].run = execution[n].run /\ execution[n].status # "RUNNING")
       => execution'[n].status \in {execution[n].status, "ABORTED"}]_vars

(* What a task is about to return was filled in before the thread was woken, also when two
   workers answer one token at the same time, and no token outlives its attempt. *)
AnswerWhole ==
  /\ tokens = {TokenOf(r) : r \in {q \in Runs : stage[q] \in Waiting}}
  /\ \A t \in tokens : token[t].event =>
       \/ token[t].status = "SUCCESS" /\ token[t].result
       \/ token[t].status = "FAILED" /\ token[t].error

(* No execution stays RUNNING for ever, whatever its worker does and whoever deletes
   its machine or takes its name. *)
ExecutionEnds ==
  \A n \in Names, r \in Runs :
    LET running == execution[n] = [run |-> r, status |-> "RUNNING"] IN running ~> ~running

(* The error handling that asl.py announces: an execution whose last attempt at its
   task succeeds does not fail. *)
RetryCompletes == \A r \in Runs : outcome[r] = "FAILED" => last[r] # "success"
=============================================================================
