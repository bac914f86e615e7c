--------------------------- MODULE ExecutionsProofs ---------------------------
(* Theorems about Executions for any runs and names, any bound on answers and on
   attempts, and either use of the machines.

   TokenInv says what the threads and the workers may rely on between two of their
   steps: which tokens are registered, and what has been written into one when a
   worker is between its payload, its status and its event. RecordInv says where the
   record of a run that has been stored can have gone; with it the thread that looks
   its record up by name finds its own. *)
EXTENDS Executions, TLAPS

(* The stages before a run has a record, and after. *)
Early == {"new", "found", "refused"}
Stored == {"stored", "concluding", "over"} \cup Waiting

Whole(info) ==
  /\ info.status = "SUCCESS" => info.result
  /\ info.status = "FAILED" => info.error
  /\ info.event => info.status # "none"

AnswerInTime(a) ==
  /\ a.of \in tokens
  /\ a.kind = "SUCCESS" => token[a.of].result
  /\ a.kind = "FAILED" => token[a.of].error
  /\ a.step = 2 => token[a.of].status # "none"

TokenInv ==
  /\ TypeOK
  /\ tokens = {TokenOf(r) : r \in {q \in Runs : stage[q] \in Waiting}}
  /\ \A r \in Runs : stage[r] \in Early \cup {"stored"} <=> attempt[r] = 0
  /\ \A t \in Tokens \ tokens : token[t] = Blank
  /\ \A t \in Tokens : Whole(token[t])
  /\ \A a \in answers : AnswerInTime(a)

Kept(r) ==
  \/ execution[name[r]].run = r
  \/ r \in forgotten
  \/ \E q \in Runs : name[q] = name[r] /\ found[q] = "EXPRESS"

RecordInv ==
  /\ OutcomeOwn
  /\ \A r \in Runs : stage[r] = "new" => found[r] = "none"
  /\ \A r \in Runs : stage[r] = "found" => found[r] # "none"
  /\ \A r \in Runs : outcome[r] # "none" => stage[r] = "over"
  /\ \A n \in Names : execution[n].run # Nobody =>
       name[execution[n].run] = n /\ stage[execution[n].run] \in Stored
  /\ \A r \in Runs : stage[r] \in Stored => Kept(r)

-----------------------------------------------------------------------------
(* Tokens and stages. *)

(* The token of the attempt a run is at is one of Tokens. *)
LEMMA TokenTyped ==
  ASSUME TypeOK, NEW r \in Runs, attempt[r] # 0
  PROVE  TokenOf(r) \in Tokens
<1>1. attempt[r] \in 0..(MaxAttempts + 1) /\ MaxAttempts \in Nat
  BY ExecutionsAssumption DEF TypeOK
<1>2. attempt[r] \in 1..(MaxAttempts + 1)
  BY <1>1
<1> QED  BY <1>2 DEF TokenOf, Tokens, Attempts

(* A thread begins an attempt: the token it registers has never been used. *)
LEMMA AttemptKeeps ==
  ASSUME TokenInv, NEW r \in Runs, Begin(r) \/ Retry(r)
  PROVE  TokenInv'
<1> USE DEF TokenInv
<1>1. /\ attempt[r] \in 0..MaxAttempts /\ attempt[r] + 1 \in Attempts
      /\ stage[r] \notin Waiting
  <2>1. attempt[r] \in 0..(MaxAttempts + 1) /\ MaxAttempts \in Nat
    BY ExecutionsAssumption DEF TypeOK
  <2>2. CASE Begin(r)
    BY <2>1, <2>2 DEF Begin, Waiting, Attempts
  <2>3. CASE Retry(r)
    BY <2>1, <2>3 DEF Retry, Waiting, Attempts
  <2> QED  BY <2>2, <2>3
<1>2. /\ attempt' = [attempt EXCEPT ![r] = attempt[r] + 1]
      /\ tokens' = tokens \cup {<<r, attempt[r] + 1>>}
      /\ stage' = [stage EXCEPT ![r] = "waiting"]
      /\ UNCHANGED <<machine, execution, forgotten, name, found, last, outcome, token, answers>>
  BY DEF Begin, Retry, Attempt, To, recordVars
<1>3. TypeOK'
  <2>1. attempt' \in [Runs -> 0..(MaxAttempts + 1)]
    BY <1>1, <1>2, ExecutionsAssumption DEF TypeOK
  <2>2. tokens' \subseteq Tokens
    BY <1>1, <1>2 DEF TypeOK, Tokens
  <2>3. stage' \in [Runs -> {"new", "found", "refused", "stored", "concluding", "over"} \cup Waiting]
    BY <1>2 DEF TypeOK, Waiting
  <2> QED  BY <1>2, <2>1, <2>2, <2>3 DEF TypeOK
<1>4. tokens' = {TokenOf(q)' : q \in {p \in Runs : stage'[p] \in Waiting}}
  <2>1. \A q \in Runs : q # r => TokenOf(q)' = TokenOf(q) /\ stage'[q] = stage[q]
    BY <1>2 DEF TypeOK, TokenOf
  <2>2. TokenOf(r)' = <<r, attempt[r] + 1>> /\ stage'[r] \in Waiting
    BY <1>2 DEF TypeOK, TokenOf, Waiting
  <2> QED  BY <1>1, <1>2, <2>1, <2>2
<1>5. \A q \in Runs : stage'[q] \in Early \cup {"stored"} <=> attempt'[q] = 0
  BY <1>1, <1>2, ExecutionsAssumption DEF TypeOK, Early
<1>6. \A t \in Tokens \ tokens' : token'[t] = Blank
  BY <1>2
<1>7. \A a \in answers' : AnswerInTime(a)'
  BY <1>2 DEF AnswerInTime
<1> QED  BY <1>2, <1>3, <1>4, <1>5, <1>6, <1>7

(* The wait of an attempt ends: its token goes, and the answers that were filling it in. *)
LEMMA TaskEndsKeeps ==
  ASSUME TokenInv, NEW r \in Runs, TaskEnds(r)
  PROVE  TokenInv'
<1> USE DEF TokenInv
<1>1. stage[r] \in Waiting /\ attempt[r] # 0 /\ TokenOf(r) \in Tokens
  <2>1. stage[r] \in Waiting
    BY DEF TaskEnds, Waiting
  <2>2. stage[r] \notin Early \cup {"stored"}
    BY <2>1 DEF Waiting, Early
  <2> QED  BY <2>1, <2>2, TokenTyped
<1>2. /\ tokens' = tokens \ {TokenOf(r)}
      /\ token' = [token EXCEPT ![TokenOf(r)] = Blank]
      /\ answers' = {a \in answers : a.of # TokenOf(r)}
      /\ stage' = [stage EXCEPT ![r] = "concluding"]
      /\ UNCHANGED <<machine, execution, forgotten, name, found, attempt, outcome>>
  BY DEF TaskEnds, To, recordVars
<1>3. TypeOK'
  <2>1. last' \in [Runs -> {"none", "success", "failure", "timeout"}]
    BY DEF TaskEnds, TypeOK
  <2>2. token' \in [Tokens -> [result : BOOLEAN, error : BOOLEAN, status : {"none", "SUCCESS", "FAILED"}, event : BOOLEAN]]
    BY <1>1, <1>2 DEF TypeOK, Blank
  <2>3. stage' \in [Runs -> {"new", "found", "refused", "stored", "concluding", "over"} \cup Waiting]
    BY <1>2 DEF TypeOK, Waiting
  <2>4. tokens' \subseteq Tokens /\ answers' \subseteq answers
    BY <1>2 DEF TypeOK
  <2> QED  BY <1>2, <2>1, <2>2, <2>3, <2>4 DEF TypeOK
<1>4. tokens' = {TokenOf(q)' : q \in {p \in Runs : stage'[p] \in Waiting}}
  <2>1. \A q \in Runs : q # r => TokenOf(q)' = TokenOf(q) /\ stage'[q] = stage[q] /\ TokenOf(q) # TokenOf(r)
    BY <1>2 DEF TypeOK, TokenOf
  <2>2. stage'[r] \notin Waiting
    BY <1>2 DEF TypeOK, Waiting
  <2> QED  BY <1>1, <1>2, <2>1, <2>2
<1>5. \A q \in Runs : stage'[q] \in Early \cup {"stored"} <=> attempt'[q] = 0
  BY <1>1, <1>2 DEF TypeOK, Early
<1>6. \A t \in Tokens \ tokens' : token'[t] = Blank
  BY <1>1, <1>2 DEF TypeOK
<1>7. \A t \in Tokens : Whole(token'[t])
  BY <1>1, <1>2 DEF TypeOK, Whole, Blank
<1>8. \A a \in answers' : AnswerInTime(a)'
  <2> SUFFICES ASSUME NEW a \in answers' PROVE AnswerInTime(a)'
    OBVIOUS
  <2>1. a \in answers /\ a.of # TokenOf(r) /\ AnswerInTime(a)
    BY <1>2
  <2>2. a.of \in Tokens /\ token'[a.of] = token[a.of]
    BY <2>1, <1>2 DEF TypeOK, AnswerInTime
  <2> QED  BY <2>1, <2>2, <1>2 DEF AnswerInTime
<1> QED  BY <1>3, <1>4, <1>5, <1>6, <1>7, <1>8

(* What a worker writes leaves the token whole, as the payload comes before the status
   and the status before the event. *)
LEMMA WorkKeeps ==
  ASSUME TokenInv, Work
  PROVE  TokenInv'
<1> USE DEF TokenInv
<1> DEFINE Info == [result : BOOLEAN, error : BOOLEAN, status : {"none", "SUCCESS", "FAILED"}, event : BOOLEAN]
<1>1. ASSUME NEW t \in tokens,
             token' \in [Tokens -> Info], \A u \in Tokens \ {t} : token'[u] = token[u],
             Whole(token'[t]),
             token[t].result => token'[t].result, token[t].error => token'[t].error,
             token[t].status # "none" => token'[t].status # "none",
             UNCHANGED <<recordVars, runVars, tokens>>,
             answers' \subseteq [kind : {"SUCCESS", "FAILED"}, of : Tokens, step : 1..2],
             \A b \in answers' \ answers :
               /\ b.of = t
               /\ b.kind = "SUCCESS" => token'[t].result
               /\ b.kind = "FAILED" => token'[t].error
               /\ b.step = 2 => token'[t].status # "none"
      PROVE  TokenInv'
  <2>1. t \in Tokens
    BY <1>1 DEF TypeOK
  <2>2. TypeOK'
    <3>1. UNCHANGED <<machine, execution, forgotten, stage, name, found, attempt, last, outcome, tokens>>
      BY <1>1 DEF recordVars, runVars
    <3> QED  BY <3>1, <1>1 DEF TypeOK
  <2>3. tokens' = {TokenOf(q)' : q \in {p \in Runs : stage'[p] \in Waiting}}
    BY <1>1 DEF recordVars, runVars, TokenOf
  <2>4. \A q \in Runs : stage'[q] \in Early \cup {"stored"} <=> attempt'[q] = 0
    BY <1>1 DEF recordVars, runVars
  <2>5. \A u \in Tokens \ tokens' : token'[u] = Blank
    BY <1>1, <2>1
  <2>6. \A u \in Tokens : Whole(token'[u])
    BY <1>1, <2>1
  <2>7. \A b \in answers' : AnswerInTime(b)'
    <3> SUFFICES ASSUME NEW b \in answers' PROVE AnswerInTime(b)'
      OBVIOUS
    <3>1. CASE b \in answers
      BY <3>1, <1>1, <2>1 DEF AnswerInTime, TypeOK
    <3>2. CASE b \notin answers
      BY <3>2, <1>1, <2>1 DEF AnswerInTime
    <3> QED  BY <3>1, <3>2
  <2> QED  BY <2>2, <2>3, <2>4, <2>5, <2>6, <2>7
<1>2. ASSUME NEW k \in {"SUCCESS", "FAILED"}, NEW t \in Tokens, Answer(k, t)
      PROVE  TokenInv'
  <2> DEFINE b == [kind |-> k, of |-> t, step |-> 1]
             info == Written(token[t], k, 1)
  <2>1. token[t] \in Info /\ Whole(token[t]) /\ t \in tokens
    BY <1>2 DEF Answer, TypeOK
  <2>2. /\ info \in Info /\ Whole(info)
        /\ token[t].result => info.result
        /\ token[t].error => info.error
        /\ token[t].status # "none" => info.status # "none"
        /\ k = "SUCCESS" => info.result
        /\ k = "FAILED" => info.error
    <3>1. CASE k = "SUCCESS"
      <4>1. info = [token[t] EXCEPT !.result = TRUE]
        BY <3>1 DEF Written
      <4> QED  BY <2>1, <3>1, <4>1 DEF Whole
    <3>2. CASE k = "FAILED"
      <4>1. info = [token[t] EXCEPT !.error = TRUE]
        BY <3>2 DEF Written
      <4> QED  BY <2>1, <3>2, <4>1 DEF Whole
    <3> QED  BY <3>1, <3>2
  <2>3. token' = [token EXCEPT ![t] = info] /\ answers' = answers \cup {b}
        /\ UNCHANGED <<recordVars, runVars, tokens>>
    BY <1>2 DEF Answer
  <2>4. b \in [kind : {"SUCCESS", "FAILED"}, of : Tokens, step : 1..2]
    OBVIOUS
  <2>5. answers \cup {b} \subseteq [kind : {"SUCCESS", "FAILED"}, of : Tokens, step : 1..2]
    BY <2>4 DEF TypeOK
  <2>6. \A d \in (answers \cup {b}) \ answers : d.of = t /\ d.kind = k /\ d.step = 1
    OBVIOUS
  <2> HIDE DEF info, b
  <2>7. \A d \in (answers \cup {b}) \ answers :
          /\ d.of = t
          /\ d.kind = "SUCCESS" => info.result
          /\ d.kind = "FAILED" => info.error
          /\ d.step = 2 => info.status # "none"
    BY <2>2, <2>6
  <2>8. token'[t] = info /\ token' \in [Tokens -> Info] /\ \A u \in Tokens \ {t} : token'[u] = token[u]
    BY <2>2, <2>3 DEF TypeOK
  <2> QED  BY <1>1, <2>1, <2>2, <2>3, <2>5, <2>7, <2>8
<1>3. ASSUME NEW a \in answers, Mark(a)
      PROVE  TokenInv'
  <2> DEFINE b == [a EXCEPT !.step = 2]
             info == Written(token[a.of], a.kind, 2)
  <2>1. a \in [kind : {"SUCCESS", "FAILED"}, of : Tokens, step : 1..2] /\ AnswerInTime(a)
    BY DEF TypeOK
  <2>2. a.of \in tokens /\ token[a.of] \in Info /\ Whole(token[a.of])
    BY <2>1 DEF TypeOK, AnswerInTime
  <2>3. /\ info \in Info /\ Whole(info) /\ info.status # "none"
        /\ info.result = token[a.of].result /\ info.error = token[a.of].error
    BY <2>1, <2>2 DEF Written, Whole, AnswerInTime
  <2>4. token' = [token EXCEPT ![a.of] = info] /\ answers' = (answers \ {a}) \cup {b}
        /\ UNCHANGED <<recordVars, runVars, tokens>>
    BY <1>3 DEF Mark
  <2>5. b \in [kind : {"SUCCESS", "FAILED"}, of : Tokens, step : 1..2]
        /\ b.of = a.of /\ b.kind = a.kind
    BY <2>1
  <2>6. (answers \ {a}) \cup {b} \subseteq [kind : {"SUCCESS", "FAILED"}, of : Tokens, step : 1..2]
    BY <2>5 DEF TypeOK
  <2>7. a.kind = "SUCCESS" => info.result
    BY <2>1, <2>3 DEF AnswerInTime
  <2>8. a.kind = "FAILED" => info.error
    BY <2>1, <2>3 DEF AnswerInTime
  <2> HIDE DEF info, b
  <2>9. token'[a.of] = info /\ token' \in [Tokens -> Info]
        /\ \A u \in Tokens \ {a.of} : token'[u] = token[u]
    BY <2>1, <2>3, <2>4 DEF TypeOK
  <2> QED  BY <1>1, <2>2, <2>3, <2>4, <2>5, <2>6, <2>7, <2>8, <2>9
<1>4. ASSUME NEW a \in answers, Signal(a)
      PROVE  TokenInv'
  <2> DEFINE info == [token[a.of] EXCEPT !.event = TRUE]
  <2>1. a \in [kind : {"SUCCESS", "FAILED"}, of : Tokens, step : 1..2] /\ AnswerInTime(a) /\ a.step = 2
    BY <1>4 DEF TypeOK, Signal
  <2>2. a.of \in tokens /\ token[a.of] \in Info /\ Whole(token[a.of]) /\ token[a.of].status # "none"
    BY <2>1 DEF TypeOK, AnswerInTime
  <2>3. /\ info \in Info /\ Whole(info) /\ info.status = token[a.of].status
        /\ info.result = token[a.of].result /\ info.error = token[a.of].error
    BY <2>2 DEF Whole
  <2>4. token' = [token EXCEPT ![a.of] = info] /\ answers' = answers \ {a}
        /\ UNCHANGED <<recordVars, runVars, tokens>>
    BY <1>4 DEF Signal
  <2>5. answers \ {a} \subseteq [kind : {"SUCCESS", "FAILED"}, of : Tokens, step : 1..2]
    BY DEF TypeOK
  <2> HIDE DEF info
  <2>6. token'[a.of] = info /\ token' \in [Tokens -> Info]
        /\ \A u \in Tokens \ {a.of} : token'[u] = token[u]
    BY <2>1, <2>3, <2>4 DEF TypeOK
  <2>7. answers' \ answers = {}
    BY <2>4
  <2> QED  BY <1>1, <2>2, <2>3, <2>4, <2>5, <2>6, <2>7
<1> QED  BY <1>2, <1>3, <1>4 DEF Work

(* The steps that touch neither tokens nor attempts move a run between stages that
   wait or between stages that do not. *)
LEMMA StageKeeps ==
  ASSUME TokenInv, UNCHANGED <<attempt, tokenVars>>, TypeOK',
         \A r \in Runs : stage'[r] # stage[r] =>
           \/ stage[r] \in Early \cup {"stored"} /\ stage'[r] \in Early \cup {"stored"}
           \/ stage[r] \in Waiting /\ stage'[r] \in Waiting
           \/ stage[r] \in {"concluding", "over"} /\ stage'[r] \in {"concluding", "over"}
  PROVE  TokenInv'
<1>1. \A r \in Runs : /\ stage'[r] \in Waiting <=> stage[r] \in Waiting
                      /\ stage'[r] \in Early \cup {"stored"} <=> stage[r] \in Early \cup {"stored"}
  BY DEF Early, Waiting
<1>2. tokens' = {TokenOf(r)' : r \in {q \in Runs : stage'[q] \in Waiting}}
  BY <1>1 DEF TokenInv, TokenOf, tokenVars
<1> QED  BY <1>1, <1>2 DEF TokenInv, tokenVars, AnswerInTime

(* The requests and thread steps that leave the tokens alone keep the types. *)
LEMMA RecordTyped ==
  ASSUME TypeOK, NEW r \in Runs, Start(r) \/ GiveUp(r) \/ Finish(r)
  PROVE  TypeOK'
<1>1. CASE StartLookup(r) \/ StartRefused(r) \/ GiveUp(r)
  <2>1. stage' \in [Runs -> {"new", "found", "refused", "stored", "concluding", "over"} \cup Waiting]
    BY <1>1 DEF TypeOK, StartLookup, StartRefused, GiveUp, To, Waiting
  <2>2. found' \in [Runs -> {"none", "STANDARD", "EXPRESS"}]
    BY <1>1 DEF TypeOK, StartLookup, StartRefused, GiveUp
  <2> QED  BY <1>1, <2>1, <2>2
           DEF TypeOK, StartLookup, StartRefused, GiveUp, recordVars, runVars, tokenVars
<1>2. CASE StartStore(r)
  <2>1. stage' \in [Runs -> {"new", "found", "refused", "stored", "concluding", "over"} \cup Waiting]
    BY <1>2 DEF TypeOK, StartStore, To, Waiting
  <2>2. execution' \in [Names -> {NoRecord} \cup [run : Runs, status : {"RUNNING", "SUCCEEDED", "FAILED", "ABORTED"}]]
    BY <1>2 DEF TypeOK, StartStore
  <2> QED  BY <1>2, <2>1, <2>2 DEF TypeOK, StartStore, tokenVars
<1>3. CASE Finish(r)
  <2>1. stage' \in [Runs -> {"new", "found", "refused", "stored", "concluding", "over"} \cup Waiting]
    BY <1>3 DEF TypeOK, Finish, To, Waiting
  <2>2. Result(r) \in {"SUCCEEDED", "FAILED"}
    BY DEF Result
  <2>3. execution' \in [Names -> {NoRecord} \cup [run : Runs, status : {"RUNNING", "SUCCEEDED", "FAILED", "ABORTED"}]]
    <3>1. CASE MayFinish(name[r])
      <4>1. execution[name[r]] \in [run : Runs, status : {"RUNNING", "SUCCEEDED", "FAILED", "ABORTED"}]
        BY <3>1 DEF TypeOK, MayFinish, NoRecord
      <4>2. execution' = [execution EXCEPT ![name[r]].status = Result(r)]
        BY <1>3, <3>1 DEF Finish
      <4>3. [execution[name[r]] EXCEPT !.status = Result(r)]
              \in [run : Runs, status : {"RUNNING", "SUCCEEDED", "FAILED", "ABORTED"}]
        BY <4>1, <2>2
      <4> QED  BY <4>2, <4>3 DEF TypeOK
    <3>2. CASE ~MayFinish(name[r])
      BY <1>3, <3>2 DEF Finish, TypeOK
    <3> QED  BY <3>1, <3>2
  <2>4. outcome' \in [Runs -> {"none", "SUCCEEDED", "FAILED"}]
    BY <1>3, <2>2 DEF Finish, TypeOK
  <2> QED  BY <1>3, <2>1, <2>3, <2>4 DEF TypeOK, Finish, tokenVars
<1> QED  BY <1>1, <1>2, <1>3 DEF Start

(* StopExecution changes a record there is. *)
LEMMA StopTyped ==
  ASSUME TypeOK, NEW n \in Names, StopExecution(n)
  PROVE  TypeOK'
<1>1. execution[n] \in [run : Runs, status : {"RUNNING", "SUCCEEDED", "FAILED", "ABORTED"}]
  BY DEF TypeOK, StopExecution, NoRecord
<1>2. [execution[n] EXCEPT !.status = "ABORTED"]
        \in [run : Runs, status : {"RUNNING", "SUCCEEDED", "FAILED", "ABORTED"}]
  BY <1>1
<1>3. execution' \in [Names -> {NoRecord} \cup [run : Runs, status : {"RUNNING", "SUCCEEDED", "FAILED", "ABORTED"}]]
  BY <1>2 DEF StopExecution, TypeOK
<1> QED  BY <1>3 DEF StopExecution, TypeOK, runVars, tokenVars

LEMMA DeleteTyped ==
  ASSUME TypeOK, DeleteStateMachine
  PROVE  TypeOK'
<1>1. \A n \in Names : execution[n].run \in Runs \cup {Nobody}
  BY DEF TypeOK, NoRecord
<1>2. forgotten' \subseteq Runs
  BY <1>1 DEF DeleteStateMachine, TypeOK
<1> QED  BY <1>2 DEF DeleteStateMachine, TypeOK, runVars, tokenVars

LEMMA TokenStep ==
  ASSUME TokenInv, [Next]_vars
  PROVE  TokenInv'
<1>1. ASSUME NEW r \in Runs, Start(r) \/ GiveUp(r) \/ Finish(r)
      PROVE  TokenInv'
  <2>1. TypeOK'
    BY <1>1, RecordTyped DEF TokenInv
  <2>2. UNCHANGED <<attempt, tokenVars>>
    BY <1>1 DEF Start, StartLookup, StartRefused, StartStore, GiveUp, Finish, runVars, tokenVars
  <2>3. /\ \A q \in Runs \ {r} : stage'[q] = stage[q]
        /\ \/ stage[r] \in Early \cup {"stored"} /\ stage'[r] \in Early \cup {"stored"}
           \/ stage[r] \in Waiting /\ stage'[r] \in Waiting
           \/ stage[r] \in {"concluding", "over"} /\ stage'[r] \in {"concluding", "over"}
    BY <1>1 DEF Start, StartLookup, StartRefused, StartStore, GiveUp, Finish, To, TokenInv, TypeOK,
                Early, Waiting
  <2> QED  BY <2>1, <2>2, <2>3, StageKeeps
<1>2. ASSUME NEW n \in Names, StopExecution(n)
      PROVE  TokenInv'
  BY <1>2, StopTyped, StageKeeps DEF TokenInv, StopExecution, runVars
<1>3. CASE DeleteStateMachine
  BY <1>3, DeleteTyped, StageKeeps DEF TokenInv, DeleteStateMachine, runVars
<1>4. ASSUME NEW type \in Types, CreateStateMachine(type)
      PROVE  TokenInv'
  <2>1. TypeOK'
    BY <1>4 DEF TokenInv, TypeOK, CreateStateMachine, runVars, tokenVars, Types
  <2> QED  BY <1>4, <2>1, StageKeeps DEF CreateStateMachine, runVars
<1>5. CASE UNCHANGED vars
  <2>1. TypeOK'
    BY <1>5 DEF TokenInv, TypeOK, vars, recordVars, runVars, tokenVars
  <2> QED  BY <1>5, <2>1, StageKeeps DEF vars, runVars
<1> QED  BY <1>1, <1>2, <1>3, <1>4, <1>5, AttemptKeeps, TaskEndsKeeps, WorkKeeps DEF Next, Execute

LEMMA TokenInit ==
  ASSUME Init
  PROVE  TokenInv
<1>1. TypeOK
  BY ExecutionsAssumption DEF Init, TypeOK, Types, Tokens, Attempts, Blank, NoRecord
<1>2. tokens = {TokenOf(r) : r \in {q \in Runs : stage[q] \in Waiting}}
  BY DEF Init, Waiting
<1>3. \A t \in Tokens : Whole(token[t])
  BY DEF Init, Blank, Whole
<1> QED  BY <1>1, <1>2, <1>3 DEF Init, TokenInv, Early

(* The variables stay within their types: no attempt beyond the Retry's limit, no
   answer to a token that no attempt could have. *)
THEOREM TypeCorrect == Spec => []TypeOK
<1>1. TokenInv => TypeOK
  BY DEF TokenInv
<1> QED  BY TokenInit, TokenStep, <1>1, PTL DEF Spec

(* Workers fill in a token without the lock, several at a time, and still a thread that
   is woken finds a status with its payload; and no token outlives its attempt. *)
THEOREM Answered == Spec => []AnswerWhole
<1>1. TokenInv => AnswerWhole
  <2> SUFFICES ASSUME TokenInv, NEW t \in tokens, token[t].event
               PROVE  \/ token[t].status = "SUCCESS" /\ token[t].result
                      \/ token[t].status = "FAILED" /\ token[t].error
    BY DEF AnswerWhole, TokenInv
  <2>1. t \in Tokens /\ Whole(token[t])
    BY DEF TokenInv, TypeOK
  <2>2. token[t].status \in {"none", "SUCCESS", "FAILED"}
    BY <2>1 DEF TokenInv, TypeOK
  <2> QED  BY <2>1, <2>2 DEF Whole
<1> QED  BY TokenInit, TokenStep, <1>1, PTL DEF Spec

-----------------------------------------------------------------------------
(* Records and names. *)

(* Between storing its record and looking it up again a run only waits. *)
LEMMA WaitKeeps ==
  ASSUME RecordInv, TypeOK, UNCHANGED <<execution, forgotten, name, found, outcome>>,
         \A r \in Runs : stage'[r] # stage[r] =>
           stage[r] \in Stored \ {"over"} /\ stage'[r] \in Stored \ {"over"}
  PROVE  RecordInv'
<1>1. \A r \in Runs : /\ stage'[r] \in Stored <=> stage[r] \in Stored
                      /\ stage'[r] = "over" <=> stage[r] = "over"
                      /\ stage'[r] = "new" <=> stage[r] = "new"
                      /\ stage'[r] = "found" <=> stage[r] = "found"
  BY DEF Stored, Waiting
<1>2. \A n \in Names : execution[n].run # Nobody => execution[n].run \in Runs
  BY DEF TypeOK, NoRecord
<1>3. OutcomeOwn'
  BY DEF RecordInv, OutcomeOwn
<1>4. \A r \in Runs : Kept(r)' <=> Kept(r)
  BY DEF Kept
<1> QED  BY <1>1, <1>2, <1>3, <1>4 DEF RecordInv

(* A name whose runs are STANDARD and still in their machine has had one run. *)
LEMMA LookupKeeps ==
  ASSUME RecordInv, TypeOK, NEW r \in Runs, StartLookup(r) \/ StartRefused(r)
  PROVE  RecordInv'
<1>1. /\ UNCHANGED <<execution, forgotten, name, outcome>>
      /\ \A q \in Runs \ {r} : stage'[q] = stage[q] /\ found'[q] = found[q]
      /\ stage[r] \in {"new", "found"} /\ stage'[r] \in {"found", "refused"}
  BY DEF StartLookup, StartRefused, To, TypeOK, recordVars
<1>2. found[r] = "EXPRESS" => found'[r] = "EXPRESS"
  BY DEF StartLookup, StartRefused, RecordInv
<1>3. stage'[r] = "found" => found'[r] # "none"
  BY DEF StartLookup, StartRefused, RecordInv, To, TypeOK
<1>4. \A n \in Names : execution[n].run # Nobody => execution[n].run \in Runs
  BY DEF TypeOK, NoRecord
<1>5. OutcomeOwn'
  BY <1>1, <1>2 DEF RecordInv, OutcomeOwn
<1>6. \A q \in Runs : Kept(q) => Kept(q)'
  BY <1>1, <1>2 DEF Kept
<1>7. \A n \in Names : execution[n].run # Nobody => execution[n].run # r
  BY <1>1 DEF RecordInv, Stored, Waiting
<1>8. outcome[r] = "none"
  BY <1>1 DEF RecordInv
<1> QED  BY <1>1, <1>2, <1>3, <1>4, <1>5, <1>6, <1>7, <1>8 DEF RecordInv, Stored, Waiting

LEMMA StoreKeeps ==
  ASSUME RecordInv, TypeOK, NEW r \in Runs, StartStore(r)
  PROVE  RecordInv'
<1>1. /\ UNCHANGED <<forgotten, name, found, outcome>>
      /\ \A q \in Runs \ {r} : stage'[q] = stage[q]
      /\ stage[r] = "found" /\ stage'[r] = "stored" /\ ~Duplicate(r)
      /\ execution'[name[r]] = [run |-> r, status |-> "RUNNING"]
      /\ \A n \in Names \ {name[r]} : execution'[n] = execution[n]
      /\ name[r] \in Names
  BY DEF StartStore, To, TypeOK
<1>2. \A n \in Names : execution[n].run # Nobody => execution[n].run \in Runs
  BY DEF TypeOK, NoRecord
<1>3. OutcomeOwn'
  BY <1>1, <1>2 DEF RecordInv, OutcomeOwn
<1>4. \A q \in Runs : Kept(q) => Kept(q)'
  <2> SUFFICES ASSUME NEW q \in Runs, Kept(q), execution[name[q]].run = q, name[q] = name[r]
               PROVE  Kept(q)'
    BY <1>1 DEF Kept, TypeOK
  <2>1. found[r] = "EXPRESS"
    BY <1>1, ExecutionsAssumption DEF Duplicate, RecordInv, TypeOK
  <2> QED  BY <1>1, <2>1 DEF Kept
<1>5. Kept(r)'
  BY <1>1 DEF Kept
<1>6. \A n \in Names : execution'[n].run # Nobody =>
        name[execution'[n].run] = n /\ stage'[execution'[n].run] \in Stored
  <2> SUFFICES ASSUME NEW n \in Names, execution'[n].run # Nobody
               PROVE  name[execution'[n].run] = n /\ stage'[execution'[n].run] \in Stored
    OBVIOUS
  <2>1. CASE n = name[r]
    BY <2>1, <1>1 DEF Stored
  <2>2. CASE n # name[r]
    BY <2>2, <1>1, <1>2 DEF RecordInv, Stored
  <2> QED  BY <2>1, <2>2
<1>7. outcome[r] = "none"
  BY <1>1 DEF RecordInv
<1> QED  BY <1>1, <1>3, <1>4, <1>5, <1>6, <1>7 DEF RecordInv, Stored, Waiting

(* The thread that ends finds its own record, unless the name was used by an EXPRESS
   execution or its machine was deleted. *)
LEMMA FinishKeeps ==
  ASSUME RecordInv, TypeOK, NEW r \in Runs, Finish(r)
  PROVE  RecordInv'
<1>1. /\ UNCHANGED <<forgotten, name, found>>
      /\ \A q \in Runs \ {r} : stage'[q] = stage[q] /\ outcome'[q] = outcome[q]
      /\ stage[r] = "concluding" /\ stage'[r] = "over"
      /\ outcome[r] = "none" /\ outcome'[r] = Result(r)
      /\ name[r] \in Names
  BY DEF Finish, To, TypeOK, RecordInv
<1>2. \A n \in Names : /\ execution'[n].run = execution[n].run
                       /\ \/ execution'[n].status = execution[n].status
                          \/ n = name[r] /\ execution'[n].status = Result(r)
  <2>1. CASE MayFinish(name[r])
    <3>1. execution' = [execution EXCEPT ![name[r]].status = Result(r)]
      BY <2>1 DEF Finish
    <3>2. execution[name[r]] \in [run : Runs, status : {"RUNNING", "SUCCEEDED", "FAILED", "ABORTED"}]
      BY <1>1, <2>1 DEF TypeOK, MayFinish, NoRecord
    <3>3. \A n \in Names \ {name[r]} : execution'[n] = execution[n]
      BY <3>1 DEF TypeOK
    <3>4. execution'[name[r]] = [execution[name[r]] EXCEPT !.status = Result(r)]
      BY <3>1, <1>1 DEF TypeOK
    <3>5. execution'[name[r]].run = execution[name[r]].run /\ execution'[name[r]].status = Result(r)
      BY <3>2, <3>4
    <3> QED  BY <2>1, <3>3, <3>5
  <2>2. CASE ~MayFinish(name[r])
    <3>1. execution' = execution
      BY <2>2 DEF Finish
    <3> QED  BY <3>1
  <2> QED  BY <2>1, <2>2
<1>3. \A n \in Names : execution[n].run # Nobody => execution[n].run \in Runs
  BY DEF TypeOK, NoRecord
<1>4. OutcomeOwn'
  <2> SUFFICES ASSUME NEW n \in Names, execution'[n].status \in {"SUCCEEDED", "FAILED"},
                      \A q \in Runs : name[q] = n => found[q] # "EXPRESS" /\ q \notin forgotten
               PROVE  outcome'[execution[n].run] = execution'[n].status
    BY <1>1, <1>2 DEF OutcomeOwn
  <2>1. CASE execution'[n].status = execution[n].status
    <3>1. outcome[execution[n].run] = execution[n].status
      BY <2>1 DEF RecordInv, OutcomeOwn
    <3>2. execution[n].run # r
      BY <3>1, <2>1, <1>1
    <3>3. execution[n].run \in Runs
      BY <1>3, <2>1 DEF TypeOK, NoRecord
    <3> QED  BY <3>1, <3>2, <3>3, <2>1, <1>1
  <2>2. CASE n = name[r] /\ execution'[n].status = Result(r)
    <3>1. Kept(r)
      BY <1>1 DEF RecordInv, Stored
    <3>2. execution[n].run = r
      BY <3>1, <2>2 DEF Kept
    <3> QED  BY <3>2, <2>2, <1>1
  <2> QED  BY <2>1, <2>2, <1>2
<1>5. \A q \in Runs : Kept(q) => Kept(q)'
  BY <1>1, <1>2 DEF Kept, TypeOK
<1> QED  BY <1>1, <1>2, <1>3, <1>4, <1>5 DEF RecordInv, Stored, Waiting

LEMMA StopKeeps ==
  ASSUME RecordInv, TypeOK, NEW n \in Names, StopExecution(n)
  PROVE  RecordInv'
<1>1. execution[n] \in [run : Runs, status : {"RUNNING", "SUCCEEDED", "FAILED", "ABORTED"}]
  BY DEF TypeOK, StopExecution, NoRecord
<1>2. execution'[n] = [execution[n] EXCEPT !.status = "ABORTED"]
  BY DEF StopExecution, TypeOK
<1>3. /\ execution'[n].status = "ABORTED" /\ execution'[n].run = execution[n].run
      /\ \A m \in Names \ {n} : execution'[m] = execution[m]
      /\ UNCHANGED <<forgotten, runVars>>
  BY <1>1, <1>2 DEF StopExecution, TypeOK
<1>4. OutcomeOwn'
  BY <1>3 DEF RecordInv, OutcomeOwn, runVars
<1>5. \A q \in Runs : Kept(q) => Kept(q)'
  BY <1>3 DEF Kept, runVars, TypeOK
<1> QED  BY <1>3, <1>4, <1>5 DEF RecordInv, runVars

LEMMA DeleteKeeps ==
  ASSUME RecordInv, TypeOK, DeleteStateMachine
  PROVE  RecordInv'
<1>1. /\ \A n \in Names : execution'[n] = NoRecord
      /\ forgotten' = forgotten \cup ({execution[n].run : n \in Names} \ {Nobody})
      /\ UNCHANGED runVars
  BY DEF DeleteStateMachine
<1>2. OutcomeOwn'
  BY <1>1 DEF OutcomeOwn, NoRecord
<1>3. \A q \in Runs : Kept(q) => Kept(q)'
  <2> SUFFICES ASSUME NEW q \in Runs, execution[name[q]].run = q
               PROVE  q \in forgotten'
    BY <1>1 DEF Kept, runVars
  <2>1. name[q] \in Names /\ q # Nobody
    BY ExecutionsAssumption DEF TypeOK
  <2> QED  BY <1>1, <2>1
<1> QED  BY <1>1, <1>2, <1>3 DEF RecordInv, runVars, NoRecord

LEMMA RecordStep ==
  ASSUME TypeOK, RecordInv, [Next]_vars
  PROVE  RecordInv'
<1>1. ASSUME NEW r \in Runs, Begin(r) \/ GiveUp(r) \/ TaskEnds(r) \/ Retry(r)
      PROVE  RecordInv'
  <2>1. UNCHANGED <<execution, forgotten, name, found, outcome>>
    BY <1>1 DEF Begin, Retry, Attempt, GiveUp, TaskEnds, recordVars
  <2>2. /\ \A q \in Runs \ {r} : stage'[q] = stage[q]
        /\ stage[r] \in Stored \ {"over"} /\ stage'[r] \in Stored \ {"over"}
    BY <1>1 DEF Begin, Retry, Attempt, GiveUp, TaskEnds, To, TypeOK, Stored, Waiting
  <2> QED  BY <2>1, <2>2, WaitKeeps
<1>2. CASE Work
  <2>1. UNCHANGED <<execution, forgotten, runVars>>
    BY <1>2 DEF Work, Answer, Mark, Signal, recordVars
  <2> QED  BY <2>1, WaitKeeps DEF runVars
<1>3. ASSUME NEW type \in Types, CreateStateMachine(type)
      PROVE  RecordInv'
  BY <1>3, WaitKeeps DEF CreateStateMachine, runVars
<1>4. CASE UNCHANGED vars
  BY <1>4, WaitKeeps DEF vars, recordVars, runVars
<1> QED  BY <1>1, <1>2, <1>3, <1>4, LookupKeeps, StoreKeeps, FinishKeeps, StopKeeps, DeleteKeeps
         DEF Next, Start, Execute

LEMMA RecordInit ==
  ASSUME Init
  PROVE  RecordInv
<1>1. OutcomeOwn
  BY DEF Init, OutcomeOwn, NoRecord
<1> QED  BY <1>1 DEF Init, RecordInv, NoRecord, Stored, Waiting

(* A stored execution that succeeded or failed did what its own run did, although the
   thread that ends it knows it by its name only: for a name no EXPRESS execution has
   used and whose machine was not deleted meanwhile. *)
THEOREM OwnOutcome == Spec => []OutcomeOwn
<1>1. Init => TypeOK /\ RecordInv
  BY TokenInit, RecordInit DEF TokenInv
<1>2. RecordInv => OutcomeOwn
  BY DEF RecordInv
<1> QED  BY TypeCorrect, <1>1, RecordStep, <1>2, PTL DEF Spec

(* A status that is not RUNNING changes to ABORTED at most while the record is the same
   run's: neither a thread that ends late nor a StartExecution that has been overtaken
   brings an execution that was stopped back. *)
THEOREM StatusStable == Spec => TerminalStable
<1> DEFINE Stable ==
      \A n \in Names :
        (execution'[n].run = execution[n].run /\ execution[n].status # "RUNNING")
        => execution'[n].status \in {execution[n].status, "ABORTED"}
<1>1. ASSUME TypeOK, RecordInv, [Next]_vars
      PROVE  Stable
  <2> SUFFICES ASSUME NEW n \in Names, execution'[n].run = execution[n].run,
                      execution[n].status # "RUNNING"
               PROVE  execution'[n].status \in {execution[n].status, "ABORTED"}
    OBVIOUS
  <2>1. ASSUME NEW r \in Runs, StartStore(r)
        PROVE  execution'[n] = execution[n]
    <3>1. execution[n].run # r
      BY <1>1, <2>1, ExecutionsAssumption DEF StartStore, RecordInv, Stored, Waiting
    <3>2. n # name[r]
      BY <1>1, <3>1, <2>1 DEF StartStore, TypeOK
    <3> QED  BY <3>2, <2>1 DEF StartStore
  <2>2. ASSUME NEW r \in Runs, Finish(r)
        PROVE  execution'[n] = execution[n]
    BY <1>1, <2>2 DEF Finish, MayFinish, TypeOK
  <2>3. ASSUME NEW m \in Names, StopExecution(m)
        PROVE  execution'[n].status \in {execution[n].status, "ABORTED"}
    <3>1. CASE m = n
      <4>1. execution[n] \in [run : Runs, status : {"RUNNING", "SUCCEEDED", "FAILED", "ABORTED"}]
        BY <1>1, <2>3, <3>1 DEF TypeOK, StopExecution, NoRecord
      <4>2. execution'[n] = [execution[n] EXCEPT !.status = "ABORTED"]
        BY <1>1, <2>3, <3>1 DEF StopExecution, TypeOK
      <4> QED  BY <4>1, <4>2
    <3>2. CASE m # n
      BY <1>1, <2>3, <3>2 DEF StopExecution, TypeOK
    <3> QED  BY <3>1, <3>2
  <2>4. CASE DeleteStateMachine
    <3>1. execution'[n] = NoRecord
      BY <2>4 DEF DeleteStateMachine
    <3>2. execution[n] = NoRecord
      BY <1>1, <3>1, ExecutionsAssumption DEF TypeOK, NoRecord
    <3> QED  BY <3>1, <3>2
  <2>5. ASSUME NEW r \in Runs,
               StartLookup(r) \/ StartRefused(r) \/ Begin(r) \/ GiveUp(r) \/ TaskEnds(r) \/ Retry(r)
        PROVE  execution'[n] = execution[n]
    BY <2>5 DEF StartLookup, StartRefused, Begin, GiveUp, TaskEnds, Retry, Attempt, recordVars
  <2>6. CASE Work \/ UNCHANGED vars \/ \E type \in Types : CreateStateMachine(type)
    BY <2>6 DEF Work, Answer, Mark, Signal, CreateStateMachine, recordVars, vars
  <2> QED  BY <1>1, <2>1, <2>2, <2>3, <2>4, <2>5, <2>6 DEF Next, Start, Execute
<1>2. Init => TypeOK /\ RecordInv
  BY TokenInit, RecordInit DEF TokenInv
<1>3. TypeOK /\ RecordInv /\ [Next]_vars => [Stable]_vars
  BY <1>1
<1> HIDE DEF Stable
<1>4. Spec => [][Stable]_vars
  BY TypeCorrect, <1>2, RecordStep, <1>3, PTL DEF Spec
<1> QED  BY <1>4 DEF TerminalStable, Stable
=============================================================================
