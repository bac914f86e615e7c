-------------------------- MODULE LambdaConcurrency --------------------------
(* Admission of Lambda invocations: services/lambda_/limits.py, class
   ConcurrencyTracker, and services/lambda_/recursion.py, as Invoke requests
   (provider.py, _invoke) and the thread pool of services/lambda_/invoke.py use
   them.

   An invocation checks the recursion depth of its function, counts itself into
   that depth, takes a concurrency slot when it is a request, runs, and gives both
   back. The depth is read under one critical section and counted under another,
   and other threads run in between. An invocation is synchronous: its caller, if
   it has one, was running when it was made. A caller may end first, by its
   timeout. Each member of Invocations is one invocation, from start to end. *)
EXTENDS Naturals, FiniteSets, Functions

CONSTANTS
  Functions, Qualifiers, Invocations,
  Nobody,              \* the caller of an invocation a client makes
  AccountLimit,        \* get_concurrent_executions_limit()
  MinUnreserved,       \* get_minimum_unreserved_concurrency()
  MaxRecursionDepth,   \* MAX_RECURSION_DEPTH
  ReservedChoices,     \* what callers of set_reserved reserve
  ProvisionedChoices,  \* what PutProvisionedConcurrencyConfig provisions
  PromisedChoices,     \* what PutFunctionConcurrency reserves
  Settled              \* what changes only while no request runs

ASSUME LambdaConcurrencyAssumption ==
  /\ IsFiniteSet(Invocations) /\ Nobody \notin Invocations
  /\ IsFiniteSet(Functions)
  /\ AccountLimit \in Nat /\ MinUnreserved \in Nat
  /\ MaxRecursionDepth \in Nat \ {0}
  /\ ReservedChoices \subseteq Nat
  /\ ProvisionedChoices \subseteq Nat
  /\ PromisedChoices \subseteq Nat
  /\ Settled \subseteq {"reservations", "pools"}

VARIABLES
  functionCount,     \* _function_counts
  globalCount,       \* _global_count
  reserved,          \* _reserved, a function on the functions with a reservation
  provisioned,       \* _provisioned, of a function and a qualifier; 0 is none
  provisionedInUse,  \* _provisioned_in_use
  depth,             \* _recursion_depths
  promised,          \* the reservations the Moto backend stores and reports
  stage,             \* "new", "checked", "running", "refused", "throttled" or "done"
  target,            \* the function and the qualifier of an invocation
  chain,             \* it and the invocations that led to it, each the caller of the next
  kind,              \* "request" (_invoke) or "worker" (invoke.py)
  usedProvisioned    \* requests acquire() said are routed through the provisioned pool

trackerVars == <<functionCount, globalCount, reserved, provisioned, provisionedInUse>>
invocationVars == <<stage, target, chain, kind, usedProvisioned>>
vars == <<trackerVars, depth, promised, invocationVars>>

Keys == Functions \X Qualifiers
Fn(i) == target[i][1]

TypeOK ==
  /\ functionCount \in [Functions -> Nat]
  /\ globalCount \in Nat
  /\ DOMAIN reserved \subseteq Functions /\ Range(reserved) \subseteq ReservedChoices
  /\ provisioned \in [Keys -> ProvisionedChoices \cup {0}]
  /\ provisionedInUse \in [Keys -> Nat]
  /\ depth \in [Functions -> Nat]
  /\ DOMAIN promised \subseteq Functions /\ Range(promised) \subseteq PromisedChoices
  /\ stage \in [Invocations -> {"new", "checked", "running", "refused", "throttled", "done"}]
  /\ target \in [Invocations -> Keys]
  /\ chain \in [Invocations -> SUBSET Invocations]
  /\ kind \in [Invocations -> {"request", "worker"}]
  /\ usedProvisioned \subseteq Invocations

(* Requests in progress that hold a slot, and invocations that count in the depth. *)
Requests == {i \in Invocations : stage[i] = "running" /\ kind[i] = "request"}
RequestsOf(f) == {i \in Requests : Fn(i) = f}
RunningOf(f) == {i \in Invocations : stage[i] = "running" /\ Fn(i) = f}

Init ==
  /\ functionCount = [f \in Functions |-> 0]
  /\ globalCount = 0
  /\ reserved = <<>> /\ promised = <<>>
  /\ provisioned = [k \in Keys |-> 0]
  /\ provisionedInUse = [k \in Keys |-> 0]
  /\ depth = [f \in Functions |-> 0]
  /\ stage = [i \in Invocations |-> "new"]
  /\ target \in [Invocations -> Keys]
  /\ chain = [i \in Invocations |-> {}]
  /\ kind \in [Invocations -> {"request", "worker"}]
  /\ usedProvisioned = {}

-----------------------------------------------------------------------------
(* check_recursion. The function's RecursiveLoop setting is "Terminate". *)
TooDeep_Off(f) == depth[f] > MaxRecursionDepth
TooDeep(f) == depth[f] >= MaxRecursionDepth

Check(i, c) ==
  /\ stage[i] = "new"
  /\ c # Nobody => stage[c] = "running"
  /\ chain' = [chain EXCEPT ![i] = {i} \cup (IF c = Nobody THEN {} ELSE chain[c])]
  /\ stage' = [stage EXCEPT ![i] = IF TooDeep(Fn(i)) THEN "refused" ELSE "checked"]
  /\ UNCHANGED <<trackerVars, depth, promised, target, kind, usedProvisioned>>

IncrementDepth(f) == depth' = [depth EXCEPT ![f] = @ + 1]
DecrementDepth_Forgets(f) == depth' = [depth EXCEPT ![f] = 0]
DecrementDepth(f) == depth' = [depth EXCEPT ![f] = IF @ > 0 THEN @ - 1 ELSE @]

(* The pool thread: it takes no concurrency slot. *)
Begin(i) ==
  /\ stage[i] = "checked" /\ kind[i] = "worker"
  /\ IncrementDepth(Fn(i))
  /\ stage' = [stage EXCEPT ![i] = "running"]
  /\ UNCHANGED <<trackerVars, promised, target, chain, kind, usedProvisioned>>

-----------------------------------------------------------------------------
(* ConcurrencyTracker.acquire. *)

(* The sum of f over S: it is the number of units f gives to members of S. *)
Units(f, S) == UNION {{g} \X (1..f[g]) : g \in S}
Total(f, S) == Cardinality(Units(f, S))
TotalReserved == Total(reserved, DOMAIN reserved)

Unreserved == Functions \ DOMAIN reserved

Admissible_CountsAll(f) ==
  /\ globalCount < AccountLimit
  /\ IF f \in DOMAIN reserved THEN functionCount[f] < reserved[f] ELSE TRUE
Admissible(f) ==
  /\ globalCount < AccountLimit
  /\ IF f \in DOMAIN reserved
     THEN functionCount[f] < reserved[f]
     ELSE Total(functionCount, Unreserved) + TotalReserved < AccountLimit

HasProvisioned(k) == provisionedInUse[k] < provisioned[k]

Admit(i) ==
  LET k == target[i] IN
  /\ stage[i] = "checked" /\ kind[i] = "request"
  /\ Admissible(Fn(i))
  /\ IncrementDepth(Fn(i))
  /\ functionCount' = [functionCount EXCEPT ![Fn(i)] = @ + 1]
  /\ globalCount' = globalCount + 1
  /\ IF HasProvisioned(k)
     THEN /\ provisionedInUse' = [provisionedInUse EXCEPT ![k] = @ + 1]
          /\ usedProvisioned' = usedProvisioned \cup {i}
     ELSE UNCHANGED <<provisionedInUse, usedProvisioned>>
  /\ stage' = [stage EXCEPT ![i] = "running"]
  /\ UNCHANGED <<reserved, provisioned, promised, target, chain, kind>>

(* acquire raises outside the try whose finally gives the depth back. *)
Throttle(i) ==
  /\ stage[i] = "checked" /\ kind[i] = "request"
  /\ ~Admissible(Fn(i))
  /\ IncrementDepth(Fn(i))
  /\ stage' = [stage EXCEPT ![i] = "throttled"]
  /\ UNCHANGED <<trackerVars, promised, target, chain, kind, usedProvisioned>>

(* release does not know how the request was routed: it gives back a provisioned
   slot whenever one of its key is in use. *)
Release_FunctionOnly(i) ==
  LET k == target[i] IN
  /\ functionCount' = [functionCount EXCEPT ![Fn(i)] = IF @ > 0 THEN @ - 1 ELSE @]
  /\ UNCHANGED globalCount
  /\ provisionedInUse' = [provisionedInUse EXCEPT ![k] = IF @ > 0 THEN @ - 1 ELSE @]
Release_NoFloor(i) ==
  LET k == target[i] IN
  /\ functionCount' = [functionCount EXCEPT ![Fn(i)] = @ - 1]
  /\ globalCount' = globalCount - 1
  /\ provisionedInUse' = [provisionedInUse EXCEPT ![k] = @ - 1]
Release_KeepsSlot(i) ==
  /\ functionCount' = [functionCount EXCEPT ![Fn(i)] = IF @ > 0 THEN @ - 1 ELSE @]
  /\ globalCount' = IF functionCount[Fn(i)] > 0 /\ globalCount > 0 THEN globalCount - 1 ELSE globalCount
  /\ UNCHANGED provisionedInUse
Release(i) ==
  LET k == target[i] IN
  /\ functionCount' = [functionCount EXCEPT ![Fn(i)] = IF @ > 0 THEN @ - 1 ELSE @]
  /\ globalCount' = IF functionCount[Fn(i)] > 0 /\ globalCount > 0 THEN globalCount - 1 ELSE globalCount
  /\ provisionedInUse' = [provisionedInUse EXCEPT ![k] = IF @ > 0 THEN @ - 1 ELSE @]

End(i) ==
  /\ stage[i] = "running"
  /\ stage' = [stage EXCEPT ![i] = "done"]
  /\ DecrementDepth(Fn(i))
  /\ IF kind[i] = "request"
     THEN Release(i)
     ELSE UNCHANGED <<functionCount, globalCount, provisionedInUse>>
  /\ UNCHANGED <<reserved, provisioned, promised, target, chain, kind, usedProvisioned>>

-----------------------------------------------------------------------------
(* Configuration. *)

MayReserve(f, n) == Total(reserved, DOMAIN reserved \ {f}) + n + MinUnreserved <= AccountLimit

SetReserved(f, n) ==
  /\ "reservations" \in Settled => Requests = {}
  /\ MayReserve(f, n)
  /\ reserved' = [g \in DOMAIN reserved \cup {f} |-> IF g = f THEN n ELSE reserved[g]]
  /\ UNCHANGED <<functionCount, globalCount, provisioned, provisionedInUse, depth, promised,
                 invocationVars>>

DeleteReserved(f) ==
  /\ "reservations" \in Settled => Requests = {}
  /\ f \in DOMAIN reserved
  /\ reserved' = Restrict(reserved, DOMAIN reserved \ {f})
  /\ UNCHANGED <<functionCount, globalCount, provisioned, provisionedInUse, depth, promised,
                 invocationVars>>

PutProvisioned(k, n) ==
  /\ "pools" \in Settled => Requests = {}
  /\ provisioned' = [provisioned EXCEPT ![k] = n]
  /\ UNCHANGED <<functionCount, globalCount, reserved, provisionedInUse, depth, promised,
                 invocationVars>>

DeleteProvisioned(k) ==
  /\ "pools" \in Settled => Requests = {}
  /\ provisioned[k] > 0
  /\ provisioned' = [provisioned EXCEPT ![k] = 0]
  /\ provisionedInUse' = [provisionedInUse EXCEPT ![k] = 0]
  /\ UNCHANGED <<functionCount, globalCount, reserved, depth, promised, invocationVars>>

(* PutFunctionConcurrency tells the Moto backend only; the tracker never hears of it. *)
PutFunctionConcurrency(f, n) ==
  /\ promised' = [g \in DOMAIN promised \cup {f} |-> IF g = f THEN n ELSE promised[g]]
  /\ UNCHANGED <<trackerVars, depth, invocationVars>>

-----------------------------------------------------------------------------
Invocation(i) == Begin(i) \/ Admit(i) \/ Throttle(i) \/ End(i)

Configure ==
  \/ \E f \in Functions :
       \/ \E n \in ReservedChoices : SetReserved(f, n)
       \/ DeleteReserved(f)
       \/ \E n \in PromisedChoices : PutFunctionConcurrency(f, n)
  \/ \E k \in Keys :
       \/ \E n \in ProvisionedChoices : PutProvisioned(k, n)
       \/ DeleteProvisioned(k)

Next ==
  \/ \E i \in Invocations, c \in Invocations \cup {Nobody} : Check(i, c)
  \/ \E i \in Invocations : Invocation(i)
  \/ Configure

Spec == Init /\ [][Next]_vars

-----------------------------------------------------------------------------
(* The counters count: every function's and the account's number of concurrent
   executions is that of the requests in progress, and within the account limit,
   whatever was throttled, timed out or reconfigured on the way. *)
CountsAccurate ==
  /\ \A f \in Functions : functionCount[f] = Cardinality(RequestsOf(f))
  /\ globalCount = Cardinality(Requests)
  /\ globalCount <= AccountLimit

(* A reservation is a guarantee: a function that uses less than it has reserved is
   not throttled because others have used up the account, if the reservations
   were made while nothing ran. *)
ReservationGuaranteed ==
  \A f \in DOMAIN reserved : functionCount[f] < reserved[f] => globalCount < AccountLimit

(* The running invocations of i's function among those that led to i, and i. *)
Nested(i) == {a \in chain[i] : stage[a] = "running" /\ Fn(a) = Fn(i)}

(* Infinite loops are stopped: no function calls itself, directly or through
   others, in a chain of more than MAX_RECURSION_DEPTH running invocations. *)
NoDeepChain ==
  \A i \in Invocations :
    stage[i] = "running" => Cardinality(Nested(i)) <= MaxRecursionDepth

(* The depth never misses a running invocation, however checks and counts of
   different threads interleave. *)
DepthCovers == \A f \in Functions : depth[f] >= Cardinality(RunningOf(f))

(* Every invocation gives back the depth it took. *)
DepthReturned == \A f \in Functions : RunningOf(f) = {} => depth[f] = 0

(* No provisioned slot leaks: as many requests run as slots are in use, or more,
   whatever was throttled, released or deprovisioned in the meantime. *)
NoSlotLeaked ==
  \A k \in Keys :
    provisionedInUse[k] <= Cardinality({i \in Requests \cap usedProvisioned : target[i] = k})

(* Requests routed through a provisioned pool are never more than its capacity. *)
ProvisionedBounded ==
  [][\A k \in Keys :
       LET routed == {i \in usedProvisioned' : stage'[i] = "running" /\ target[i] = k} IN
       usedProvisioned' # usedProvisioned => Cardinality(routed) <= provisioned[k]]_vars

(* A request is admitted only while fewer than the reserved number run. *)
ReservationEnforced ==
  [][\A f \in DOMAIN promised : functionCount'[f] > functionCount[f] =>
       functionCount[f] < promised[f]]_vars
=============================================================================
