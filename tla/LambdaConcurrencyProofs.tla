----------------------- MODULE LambdaConcurrencyProofs -----------------------
(* Theorems about LambdaConcurrency for any functions, limits and reservations
   and any finite number of invocations.

   AccountInv says what each counter counts; it is inductive because only a
   request that has not been admitted takes a slot and only a running one gives
   its slots back. ReservedInv compares what is reserved with what is used, sum by
   sum. DepthInv builds on AccountInv: a chain of callers was running when its
   last member was checked, so the depth that check read covers the chain. *)
EXTENDS LambdaConcurrency, FiniteSetTheorems, TLAPS

Slots(k) == {i \in Requests \cap usedProvisioned : target[i] = k}

AccountInv ==
  /\ TypeOK
  /\ CountsAccurate
  /\ NoSlotLeaked
  /\ \A i \in usedProvisioned : stage[i] \in {"running", "done"}

DepthInv ==
  /\ DepthCovers
  /\ \A i \in Invocations : stage[i] = "new" => chain[i] = {}
  /\ \A i \in Invocations : \A a \in chain[i] \ {i} : stage[a] \in {"running", "done"}
  /\ \A i \in Invocations : stage[i] = "checked" => Cardinality(Nested(i)) < MaxRecursionDepth
  /\ NoDeepChain

-----------------------------------------------------------------------------
(* Counting sets of invocations. *)

LEMMA Counted ==
  ASSUME NEW S \in SUBSET Invocations
  PROVE  IsFiniteSet(S) /\ Cardinality(S) \in Nat
BY LambdaConcurrencyAssumption, FS_Subset, FS_CardinalityType

LEMMA CountedMore ==
  ASSUME NEW S \in SUBSET Invocations, NEW i \in Invocations \ S
  PROVE  Cardinality(S \cup {i}) = Cardinality(S) + 1
BY Counted, FS_AddElement

LEMMA CountedLess ==
  ASSUME NEW S \in SUBSET Invocations, NEW i \in S
  PROVE  Cardinality(S) > 0 /\ Cardinality(S \ {i}) = Cardinality(S) - 1
<1>1. Cardinality(S) \in Nat /\ IsFiniteSet(S)
  BY Counted
<1>2. Cardinality(S) # 0
  BY <1>1, FS_EmptySet
<1>3. Cardinality(S \ {i}) = Cardinality(S) - 1
  BY <1>1, FS_RemoveElement
<1> QED  BY <1>1, <1>2, <1>3

LEMMA CountedWithin ==
  ASSUME NEW S \in SUBSET Invocations, NEW T \in SUBSET S
  PROVE  Cardinality(T) <= Cardinality(S)
BY Counted, FS_Subset

-----------------------------------------------------------------------------
(* What the steps do to the sets the counters count. *)

LEMMA SameRequests ==
  ASSUME TypeOK, target' = target, kind' = kind, usedProvisioned' = usedProvisioned,
         \A i \in Invocations : kind[i] = "request" => (stage'[i] = "running" <=> stage[i] = "running")
  PROVE  Requests' = Requests /\ (\A f \in Functions : RequestsOf(f)' = RequestsOf(f))
         /\ (\A k \in Keys : Slots(k)' = Slots(k))
BY DEF Requests, RequestsOf, Slots, Fn

LEMMA AdmitTyped ==
  ASSUME TypeOK, NEW i \in Invocations, Admit(i)
  PROVE  TypeOK'
<1>1. target[i] \in Keys /\ Fn(i) \in Functions
  BY DEF TypeOK, Fn, Keys
<1>2. provisionedInUse' \in [Keys -> Nat] /\ usedProvisioned' \subseteq Invocations
  BY <1>1 DEF Admit, TypeOK
<1>3. /\ depth' \in [Functions -> Nat] /\ functionCount' \in [Functions -> Nat]
      /\ globalCount' \in Nat
  BY <1>1 DEF Admit, TypeOK, IncrementDepth
<1>4. stage' \in [Invocations -> {"new", "checked", "running", "refused", "throttled", "done"}]
  BY DEF Admit, TypeOK
<1> QED  BY <1>2, <1>3, <1>4 DEF Admit, TypeOK, Keys

LEMMA EndTyped ==
  ASSUME TypeOK, NEW i \in Invocations, End(i)
  PROVE  TypeOK'
<1>1. target[i] \in Keys /\ Fn(i) \in Functions
  BY DEF TypeOK, Fn, Keys
<1>2. depth' \in [Functions -> Nat]
  BY <1>1 DEF End, TypeOK, DecrementDepth
<1>3. /\ provisionedInUse' \in [Keys -> Nat] /\ functionCount' \in [Functions -> Nat]
      /\ globalCount' \in Nat
  <2>1. CASE kind[i] = "request"
    BY <2>1, <1>1 DEF End, TypeOK, Release
  <2>2. CASE kind[i] # "request"
    BY <2>2 DEF End, TypeOK
  <2> QED  BY <2>1, <2>2
<1>4. stage' \in [Invocations -> {"new", "checked", "running", "refused", "throttled", "done"}]
  BY DEF End, TypeOK
<1> QED  BY <1>2, <1>3, <1>4 DEF End, TypeOK, Keys

LEMMA ConfigureTyped ==
  ASSUME TypeOK, Configure
  PROVE  TypeOK'
<1>1. ASSUME NEW f \in Functions, NEW n \in ReservedChoices, SetReserved(f, n)
      PROVE  TypeOK'
  <2>1. DOMAIN reserved' \subseteq Functions /\ Range(reserved') \subseteq ReservedChoices
    BY <1>1 DEF SetReserved, TypeOK, Range
  <2> QED  BY <2>1, <1>1 DEF SetReserved, TypeOK, invocationVars, Keys
<1>2. ASSUME NEW f \in Functions, DeleteReserved(f)
      PROVE  TypeOK'
  <2>1. DOMAIN reserved' \subseteq Functions /\ Range(reserved') \subseteq ReservedChoices
    BY <1>2 DEF DeleteReserved, Restrict, TypeOK, Range
  <2> QED  BY <2>1, <1>2 DEF DeleteReserved, TypeOK, invocationVars, Keys
<1>3. ASSUME NEW f \in Functions, NEW n \in PromisedChoices, PutFunctionConcurrency(f, n)
      PROVE  TypeOK'
  <2>1. DOMAIN promised' \subseteq Functions /\ Range(promised') \subseteq PromisedChoices
    BY <1>3 DEF PutFunctionConcurrency, TypeOK, Range
  <2> QED  BY <2>1, <1>3 DEF PutFunctionConcurrency, TypeOK, invocationVars, trackerVars, Keys
<1>4. ASSUME NEW k \in Keys, NEW n \in ProvisionedChoices, PutProvisioned(k, n)
      PROVE  TypeOK'
  BY <1>4 DEF PutProvisioned, TypeOK, invocationVars, Keys
<1>5. ASSUME NEW k \in Keys, DeleteProvisioned(k)
      PROVE  TypeOK'
  BY <1>5 DEF DeleteProvisioned, TypeOK, invocationVars, Keys
<1> QED  BY <1>1, <1>2, <1>3, <1>4, <1>5 DEF Configure

LEMMA TypedStep ==
  ASSUME TypeOK, [Next]_vars
  PROVE  TypeOK'
<1>1. ASSUME NEW i \in Invocations, NEW c \in Invocations \cup {Nobody}, Check(i, c)
      PROVE  TypeOK'
  <2>1. chain' \in [Invocations -> SUBSET Invocations]
    BY <1>1, LambdaConcurrencyAssumption DEF Check, TypeOK
  <2> QED  BY <2>1, <1>1 DEF Check, TypeOK, trackerVars, Keys
<1>2. ASSUME NEW i \in Invocations, Begin(i) \/ Throttle(i)
      PROVE  TypeOK'
  <2>1. Fn(i) \in Functions
    BY DEF TypeOK, Fn, Keys
  <2> QED  BY <2>1, <1>2 DEF Begin, Throttle, IncrementDepth, TypeOK, trackerVars, Keys
<1>3. CASE UNCHANGED vars
  BY <1>3 DEF vars, trackerVars, invocationVars, TypeOK, Keys
<1> QED  BY <1>1, <1>2, <1>3, AdmitTyped, EndTyped, ConfigureTyped DEF Next, Invocation

-----------------------------------------------------------------------------
LEMMA AccountInit ==
  ASSUME Init
  PROVE  AccountInv
<1>1. TypeOK
  BY DEF Init, TypeOK, Keys, Range
<1>2. Requests = {} /\ (\A f \in Functions : RequestsOf(f) = {}) /\ (\A k \in Keys : Slots(k) = {})
  BY DEF Init, Requests, RequestsOf, Slots
<1>3. CountsAccurate
  <2>1. globalCount = 0 /\ \A f \in Functions : functionCount[f] = 0
    BY DEF Init
  <2>2. Cardinality(Requests) = 0 /\ \A f \in Functions : Cardinality(RequestsOf(f)) = 0
    BY <1>2, FS_EmptySet
  <2> QED  BY <2>1, <2>2, LambdaConcurrencyAssumption DEF CountsAccurate
<1>4. NoSlotLeaked
  BY <1>2, FS_EmptySet DEF Init, NoSlotLeaked, Slots
<1> QED  BY <1>1, <1>3, <1>4 DEF AccountInv, Init

(* A request that is admitted is counted once by every counter it belongs to. *)
LEMMA AdmitAccounts ==
  ASSUME AccountInv, NEW i \in Invocations, Admit(i)
  PROVE  AccountInv'
<1> DEFINE k == target[i]
<1>0. TypeOK /\ CountsAccurate /\ NoSlotLeaked /\ TypeOK'
  BY AdmitTyped DEF AccountInv
<1>1. k \in Keys /\ Fn(i) \in Functions
  BY <1>0 DEF TypeOK, Fn, Keys
<1>2. i \notin Requests /\ i \notin usedProvisioned
  BY DEF Admit, Requests, AccountInv
<1>3. Requests' = Requests \cup {i}
  BY <1>0 DEF Admit, Requests, TypeOK
<1>4. \A f \in Functions : RequestsOf(f)' = IF f = Fn(i) THEN RequestsOf(f) \cup {i} ELSE RequestsOf(f)
  BY <1>0, <1>3 DEF Admit, RequestsOf, Fn
<1>5. CountsAccurate'
  <2>1. Requests \subseteq Invocations /\ \A f \in Functions : RequestsOf(f) \subseteq Invocations \ {i}
    BY <1>2 DEF Requests, RequestsOf
  <2>2. globalCount' = Cardinality(Requests')
    BY <1>0, <1>2, <1>3, <2>1, CountedMore DEF Admit, CountsAccurate
  <2>3. globalCount' <= AccountLimit
    BY <1>0, LambdaConcurrencyAssumption DEF Admit, Admissible, TypeOK
  <2>4. Cardinality(RequestsOf(Fn(i)) \cup {i}) = Cardinality(RequestsOf(Fn(i))) + 1
    BY <1>1, <2>1, CountedMore
  <2>5. ASSUME NEW f \in Functions
        PROVE  functionCount'[f] = Cardinality(RequestsOf(f)')
    <3>1. functionCount[f] = Cardinality(RequestsOf(f))
      BY <1>0 DEF CountsAccurate
    <3>2. functionCount'[f] = IF f = Fn(i) THEN functionCount[f] + 1 ELSE functionCount[f]
      BY <1>0, <1>1 DEF Admit, TypeOK
    <3>3. CASE f = Fn(i)
      BY <1>4, <2>4, <3>1, <3>2, <3>3
    <3>4. CASE f # Fn(i)
      BY <1>4, <3>1, <3>2, <3>4
    <3> QED  BY <3>3, <3>4
  <2> QED  BY <2>2, <2>3, <2>5 DEF CountsAccurate
<1>6. NoSlotLeaked'
  <2>1. \A j \in Keys : Slots(j) \subseteq Invocations \ {i}
    BY <1>2 DEF Slots, Requests
  <2>2. CASE HasProvisioned(k)
    <3>1. \A j \in Keys : Slots(j)' = IF j = k THEN Slots(j) \cup {i} ELSE Slots(j)
      BY <1>0, <1>3, <1>2, <2>2 DEF Admit, Slots
    <3>2. Cardinality(Slots(k) \cup {i}) = Cardinality(Slots(k)) + 1 /\ Cardinality(Slots(k)) \in Nat
      BY <1>1, <2>1, CountedMore, Counted
    <3>3. ASSUME NEW j \in Keys
          PROVE  provisionedInUse'[j] <= Cardinality(Slots(j)')
      <4>1. provisionedInUse[j] <= Cardinality(Slots(j)) /\ provisionedInUse[j] \in Nat
        BY <1>0 DEF NoSlotLeaked, Slots, TypeOK
      <4>2. provisionedInUse'[j] = IF j = k THEN provisionedInUse[j] + 1 ELSE provisionedInUse[j]
        BY <1>0, <1>1, <2>2 DEF Admit, TypeOK
      <4>3. CASE j = k
        BY <3>1, <3>2, <4>1, <4>2, <4>3
      <4>4. CASE j # k
        BY <3>1, <4>1, <4>2, <4>4
      <4> QED  BY <4>3, <4>4
    <3> QED  BY <3>3 DEF NoSlotLeaked, Slots, Keys
  <2>3. CASE ~HasProvisioned(k)
    <3>1. \A j \in Keys : Slots(j)' = Slots(j)
      BY <1>0, <1>3, <1>2, <2>3 DEF Admit, Slots
    <3>2. \A j \in Keys : provisionedInUse'[j] <= Cardinality(Slots(j)')
      BY <1>0, <2>3, <3>1 DEF Admit, NoSlotLeaked, Slots
    <3> QED  BY <3>2 DEF NoSlotLeaked, Slots, Keys
  <2> QED  BY <2>2, <2>3
<1> QED  BY <1>0, <1>5, <1>6 DEF AccountInv, Admit, TypeOK

(* A request that ends was counted, so no counter is at zero and none stays. *)
LEMMA EndAccounts ==
  ASSUME AccountInv, NEW i \in Invocations, End(i), kind[i] = "request"
  PROVE  AccountInv'
<1> DEFINE k == target[i]
<1>0. TypeOK /\ CountsAccurate /\ NoSlotLeaked /\ TypeOK'
  BY EndTyped DEF AccountInv
<1>1. k \in Keys /\ Fn(i) \in Functions
  BY <1>0 DEF TypeOK, Fn, Keys
<1>2. i \in Requests /\ i \in RequestsOf(Fn(i)) /\ Requests \subseteq Invocations
      /\ RequestsOf(Fn(i)) \subseteq Invocations
  BY DEF End, Requests, RequestsOf
<1>3. Requests' = Requests \ {i}
  BY <1>0 DEF End, Requests, TypeOK
<1>4. \A f \in Functions : RequestsOf(f)' = IF f = Fn(i) THEN RequestsOf(f) \ {i} ELSE RequestsOf(f)
  BY <1>0, <1>3 DEF End, RequestsOf, Fn
<1>5. CountsAccurate'
  <2>1. /\ Cardinality(Requests) > 0 /\ Cardinality(Requests \ {i}) = Cardinality(Requests) - 1
        /\ Cardinality(RequestsOf(Fn(i))) > 0
        /\ Cardinality(RequestsOf(Fn(i)) \ {i}) = Cardinality(RequestsOf(Fn(i))) - 1
    BY <1>2, CountedLess
  <2>2. functionCount[Fn(i)] > 0 /\ globalCount > 0
    BY <1>0, <1>1, <2>1 DEF CountsAccurate
  <2>3. globalCount' = Cardinality(Requests') /\ globalCount' <= AccountLimit
    BY <1>0, <1>3, <2>1, <2>2, LambdaConcurrencyAssumption DEF End, Release, CountsAccurate, TypeOK
  <2>4. ASSUME NEW f \in Functions
        PROVE  functionCount'[f] = Cardinality(RequestsOf(f)')
    <3>1. functionCount[f] = Cardinality(RequestsOf(f))
      BY <1>0 DEF CountsAccurate
    <3>2. functionCount'[f] = IF f = Fn(i) THEN functionCount[f] - 1 ELSE functionCount[f]
      BY <1>0, <1>1, <2>2 DEF End, Release, TypeOK
    <3>3. CASE f = Fn(i)
      BY <1>4, <2>1, <3>1, <3>2, <3>3
    <3>4. CASE f # Fn(i)
      BY <1>4, <3>1, <3>2, <3>4
    <3> QED  BY <3>3, <3>4
  <2> QED  BY <2>3, <2>4 DEF CountsAccurate
<1>6. NoSlotLeaked'
  <2>1. \A j \in Keys : Slots(j)' = IF j = k THEN Slots(j) \ {i} ELSE Slots(j)
    BY <1>0, <1>3 DEF End, Slots
  <2>2. Slots(k) \subseteq Invocations
    BY DEF Slots, Requests
  <2>3. Cardinality(Slots(k)) \in Nat
    BY <2>2, Counted
  <2>4. Cardinality(Slots(k) \ {i}) >= Cardinality(Slots(k)) - 1 /\ Cardinality(Slots(k) \ {i}) >= 0
    <3>1. CASE i \in Slots(k)
      BY <3>1, <2>2, <2>3, CountedLess
    <3>2. CASE i \notin Slots(k)
      <4>1. Slots(k) \ {i} = Slots(k)
        BY <3>2
      <4> QED  BY <4>1, <2>3
    <3> QED  BY <3>1, <3>2
  <2>5. Cardinality(Slots(k) \ {i}) \in Nat
    <3>1. Slots(k) \ {i} \in SUBSET Invocations
      BY <2>2
    <3> QED  BY <3>1, Counted
  <2>6. ASSUME NEW j \in Keys
        PROVE  provisionedInUse'[j] <= Cardinality(Slots(j)')
    <3>1. provisionedInUse[j] <= Cardinality(Slots(j)) /\ provisionedInUse[j] \in Nat
      BY <1>0 DEF NoSlotLeaked, Slots, TypeOK
    <3>2. provisionedInUse'[j] = IF j = k /\ provisionedInUse[j] > 0
                                 THEN provisionedInUse[j] - 1 ELSE provisionedInUse[j]
      BY <1>0, <1>1 DEF End, Release, TypeOK
    <3>3. CASE j = k
      BY <2>1, <2>3, <2>4, <2>5, <3>1, <3>2, <3>3
    <3>4. CASE j # k
      BY <2>1, <3>1, <3>2, <3>4
    <3> QED  BY <3>3, <3>4
  <2> QED  BY <2>6 DEF NoSlotLeaked, Slots, Keys
<1> QED  BY <1>0, <1>5, <1>6 DEF AccountInv, End, TypeOK

(* Steps that admit and end no request leave the accounts as they are. *)
LEMMA QuietAccounts ==
  ASSUME AccountInv, TypeOK', Requests' = Requests, \A f \in Functions : RequestsOf(f)' = RequestsOf(f),
         \A k \in Keys : Slots(k)' = Slots(k), UNCHANGED <<functionCount, globalCount, usedProvisioned>>,
         \A k \in Keys : provisionedInUse'[k] = provisionedInUse[k] \/ provisionedInUse'[k] = 0,
         \A i \in usedProvisioned : stage[i] \in {"running", "done"} => stage'[i] \in {"running", "done"}
  PROVE  AccountInv'
<1>1. CountsAccurate'
  BY DEF AccountInv, CountsAccurate
<1>2. \A k \in Keys : Cardinality(Slots(k)) \in Nat
  BY Counted DEF Slots, Requests
<1>3. \A k \in Keys : provisionedInUse'[k] <= Cardinality(Slots(k)')
  BY <1>2 DEF AccountInv, NoSlotLeaked, Slots
<1>4. NoSlotLeaked'
  BY <1>3 DEF NoSlotLeaked, Slots, Keys
<1> QED  BY <1>1, <1>4 DEF AccountInv

LEMMA AccountStep ==
  ASSUME AccountInv, [Next]_vars
  PROVE  AccountInv'
<1>0. TypeOK /\ TypeOK'
  BY TypedStep DEF AccountInv
<1>1. ASSUME NEW i \in Invocations, NEW c \in Invocations \cup {Nobody}, Check(i, c)
      PROVE  AccountInv'
  <2>1. \A j \in Invocations : stage'[j] = "running" <=> stage[j] = "running"
    BY <1>0, <1>1 DEF Check, TypeOK
  <2>2. \A j \in Invocations : stage[j] \in {"running", "done"} => stage'[j] \in {"running", "done"}
    BY <1>0, <1>1 DEF Check, TypeOK
  <2> QED  BY <1>0, <1>1, <2>1, <2>2, SameRequests, QuietAccounts DEF Check, trackerVars, TypeOK
<1>2. ASSUME NEW i \in Invocations, Begin(i) \/ Throttle(i)
      PROVE  AccountInv'
  <2>1. \A j \in Invocations : kind[j] = "request" => (stage'[j] = "running" <=> stage[j] = "running")
    BY <1>0, <1>2 DEF Begin, Throttle, TypeOK
  <2>2. \A j \in Invocations : stage[j] \in {"running", "done"} => stage'[j] \in {"running", "done"}
    BY <1>0, <1>2 DEF Begin, Throttle, TypeOK
  <2>3. UNCHANGED <<functionCount, globalCount, provisionedInUse, usedProvisioned, target, kind>>
    BY <1>2 DEF Begin, Throttle, trackerVars
  <2> QED  BY <1>0, <2>1, <2>2, <2>3, SameRequests, QuietAccounts DEF TypeOK
<1>3. ASSUME NEW i \in Invocations, End(i), kind[i] # "request"
      PROVE  AccountInv'
  <2>1. \A j \in Invocations : kind[j] = "request" => (stage'[j] = "running" <=> stage[j] = "running")
    BY <1>0, <1>3 DEF End, TypeOK
  <2>2. \A j \in Invocations : stage[j] \in {"running", "done"} => stage'[j] \in {"running", "done"}
    BY <1>0, <1>3 DEF End, TypeOK
  <2>3. UNCHANGED <<functionCount, globalCount, provisionedInUse, usedProvisioned, target, kind>>
    BY <1>3 DEF End
  <2> QED  BY <1>0, <2>1, <2>2, <2>3, SameRequests, QuietAccounts DEF TypeOK
<1>4. CASE Configure \/ UNCHANGED vars
  <2>1. UNCHANGED <<functionCount, globalCount, invocationVars>>
    BY <1>4 DEF Configure, SetReserved, DeleteReserved, PutFunctionConcurrency, PutProvisioned,
                DeleteProvisioned, trackerVars, vars
  <2>2. \A k \in Keys : provisionedInUse'[k] = provisionedInUse[k] \/ provisionedInUse'[k] = 0
    BY <1>0, <1>4 DEF Configure, SetReserved, DeleteReserved, PutFunctionConcurrency, PutProvisioned,
                DeleteProvisioned, trackerVars, vars, TypeOK
  <2> QED  BY <1>0, <2>1, <2>2, SameRequests, QuietAccounts DEF invocationVars, TypeOK
<1> QED  BY <1>1, <1>2, <1>3, <1>4, AdmitAccounts, EndAccounts DEF Next, Invocation

LEMMA AccountInvariant == Spec => []AccountInv
<1>1. Init => AccountInv
  BY AccountInit
<1>2. AccountInv /\ [Next]_vars => AccountInv'
  BY AccountStep
<1> QED  BY <1>1, <1>2, PTL DEF Spec

(* Type correctness: every counter stays a natural number. *)
THEOREM TypeCorrect == Spec => []TypeOK
<1>1. AccountInv => TypeOK
  BY DEF AccountInv
<1> QED  BY <1>1, AccountInvariant, PTL

(* The tracker's counts are those of the requests in progress, and never exceed
   the account's limit. *)
THEOREM TrackerCounts == Spec => []CountsAccurate
<1>1. AccountInv => CountsAccurate
  BY DEF AccountInv
<1> QED  BY <1>1, AccountInvariant, PTL

(* No provisioned slot outlives the request it was given to. *)
THEOREM SlotsReturned == Spec => []NoSlotLeaked
<1>1. AccountInv => NoSlotLeaked
  BY DEF AccountInv
<1> QED  BY <1>1, AccountInvariant, PTL

-----------------------------------------------------------------------------
(* Reservations. *)

(* Sums are bounded by counting units: a sum over fewer functions, or of smaller
   numbers, is a set of fewer units. *)
LEMMA UnitsAre ==
  ASSUME NEW f, NEW S, NEW u
  PROVE  u \in Units(f, S) <=> \E g \in S : \E n \in 1..f[g] : u = <<g, n>>
BY DEF Units

LEMMA UnitsOfOne ==
  ASSUME NEW g, NEW n \in Nat
  PROVE  IsFiniteSet({g} \X (1..n)) /\ Cardinality({g} \X (1..n)) = n
<1>1. IsFiniteSet({g}) /\ Cardinality({g}) = 1
  BY FS_Singleton
<1>2. IsFiniteSet(1..n) /\ Cardinality(1..n) = n
  BY FS_Interval
<1>3. IsFiniteSet({g} \X (1..n)) /\ Cardinality({g} \X (1..n)) = Cardinality({g}) * Cardinality(1..n)
  BY <1>1, <1>2, FS_Product, Zenon
<1>4. 1 * n = n
  OBVIOUS
<1> QED  BY <1>1, <1>2, <1>3, <1>4, Zenon

LEMMA UnitsFinite ==
  ASSUME NEW S \in SUBSET Functions, NEW f, \A g \in S : f[g] \in Nat
  PROVE  IsFiniteSet(Units(f, S)) /\ Total(f, S) \in Nat
<1> DEFINE OfOne == [g \in S |-> {g} \X (1..f[g])]
           All == {{g} \X (1..f[g]) : g \in S}
<1>1. IsFiniteSet(S)
  BY LambdaConcurrencyAssumption, FS_Subset
<1>2. OfOne \in Surjection(S, All)
  BY DEF Surjection
<1>3. IsFiniteSet(All)
  BY <1>1, <1>2, FS_Surjection
<1>4. ASSUME NEW g \in S
      PROVE  IsFiniteSet({g} \X (1..f[g]))
  BY UnitsOfOne
<1>5. IsFiniteSet(UNION All)
  BY <1>3, <1>4, FS_UNION
<1> QED  BY <1>5, FS_CardinalityType DEF Units, Total

LEMMA TotalWithin ==
  ASSUME NEW S \in SUBSET Functions, NEW f, \A g \in S : f[g] \in Nat,
         NEW T, NEW h, Units(h, T) \subseteq Units(f, S)
  PROVE  Total(h, T) <= Total(f, S) /\ Total(h, T) \in Nat /\ Total(f, S) \in Nat
BY UnitsFinite, FS_Subset, FS_CardinalityType DEF Total

LEMMA TotalMore ==
  ASSUME NEW S \in SUBSET Functions, NEW f, \A g \in S : f[g] \in Nat,
         NEW T, NEW h, NEW u, Units(h, T) = Units(f, S) \cup {u}, u \notin Units(f, S)
  PROVE  Total(h, T) = Total(f, S) + 1 /\ Total(f, S) \in Nat
BY UnitsFinite, FS_AddElement DEF Total

LEMMA TotalLess ==
  ASSUME NEW S \in SUBSET Functions, NEW f, \A g \in S : f[g] \in Nat,
         NEW T, NEW h, NEW u, Units(h, T) = Units(f, S) \ {u}, u \in Units(f, S)
  PROVE  Total(h, T) = Total(f, S) - 1 /\ Total(f, S) \in Nat
BY UnitsFinite, FS_RemoveElement DEF Total

(* Reservations and what unreserved functions use fit into the account together,
   and no function uses more than it has reserved. *)
ReservedInv ==
  /\ \A f \in DOMAIN reserved : functionCount[f] <= reserved[f]
  /\ globalCount = Total(functionCount, Functions)
  /\ Total(functionCount, Unreserved) + TotalReserved <= AccountLimit

LEMMA ReservedSum ==
  ASSUME NEW r, DOMAIN r \subseteq Functions, Range(r) \subseteq ReservedChoices
  PROVE  (\A f \in DOMAIN r : r[f] \in Nat) /\ Total(r, DOMAIN r) \in Nat
<1>1. \A f \in DOMAIN r : r[f] \in Nat
  BY LambdaConcurrencyAssumption DEF Range
<1> QED  BY <1>1, UnitsFinite

LEMMA ReservedTyped ==
  ASSUME TypeOK
  PROVE  /\ DOMAIN reserved \in SUBSET Functions /\ Unreserved \in SUBSET Functions
         /\ \A f \in DOMAIN reserved : reserved[f] \in Nat
         /\ \A f \in Functions : functionCount[f] \in Nat
         /\ TotalReserved \in Nat /\ Total(functionCount, Unreserved) \in Nat
<1>1. /\ DOMAIN reserved \in SUBSET Functions /\ Unreserved \in SUBSET Functions
      /\ \A f \in DOMAIN reserved : reserved[f] \in Nat
      /\ \A f \in Functions : functionCount[f] \in Nat
  BY LambdaConcurrencyAssumption DEF TypeOK, Unreserved, Range
<1> QED  BY <1>1, UnitsFinite DEF TotalReserved

LEMMA ReservedInit ==
  ASSUME Init
  PROVE  ReservedInv
<1>1. DOMAIN reserved = {}
  BY DEF Init
<1>2. Units(functionCount, Functions) = {} /\ Units(functionCount, Unreserved) = {}
      /\ Units(reserved, DOMAIN reserved) = {}
  BY <1>1 DEF Units, Init, Unreserved
<1>3. TotalReserved = 0 /\ Total(functionCount, Functions) = 0 /\ Total(functionCount, Unreserved) = 0
  BY <1>2, FS_EmptySet DEF TotalReserved, Total
<1>4. globalCount = 0
  BY DEF Init
<1> QED  BY <1>1, <1>3, <1>4, LambdaConcurrencyAssumption DEF ReservedInv

(* A request that is admitted is one more unit of its function. *)
LEMMA AdmitReserved ==
  ASSUME TypeOK, ReservedInv, NEW i \in Invocations, Admit(i)
  PROVE  ReservedInv'
<1> PICK f \in Functions : f = Fn(i)
  BY DEF TypeOK, Fn, Keys
<1> DEFINE u == <<f, functionCount[f] + 1>>
<1>1. /\ functionCount' = [functionCount EXCEPT ![f] = @ + 1] /\ reserved' = reserved
      /\ globalCount' = globalCount + 1 /\ Admissible(f)
  BY DEF Admit
<1>2. /\ \A g \in Functions : functionCount[g] \in Nat
      /\ \A g \in Functions : functionCount'[g] = IF g = f THEN functionCount[g] + 1 ELSE functionCount[g]
  BY <1>1 DEF TypeOK
<1>3. u \notin Units(functionCount, Functions) /\ u \notin Units(functionCount, Unreserved)
  <2>1. \A n \in 1..functionCount[f] : n # functionCount[f] + 1
    BY <1>2
  <2> QED  BY <2>1, UnitsAre
<1>4. ASSUME NEW S \in SUBSET Functions, f \in S
      PROVE  Units(functionCount', S) = Units(functionCount, S) \cup {u}
  <2>1. 1..functionCount'[f] = 1..functionCount[f] \cup {functionCount[f] + 1}
    BY <1>2
  <2>2. \A g \in S \ {f} : functionCount'[g] = functionCount[g]
    BY <1>2
  <2>3. ASSUME NEW v
        PROVE  v \in Units(functionCount', S) <=> v \in Units(functionCount, S) \cup {u}
    BY <1>4, <2>1, <2>2, UnitsAre
  <2> QED  BY <2>3
<1>5. globalCount' = Total(functionCount', Functions)
  BY <1>1, <1>2, <1>3, <1>4, TotalMore DEF ReservedInv
<1>6. Unreserved' = Unreserved /\ TotalReserved' = TotalReserved
  BY <1>1 DEF Unreserved, TotalReserved
<1>7. CASE f \in DOMAIN reserved
  <2>1. functionCount[f] < reserved[f] /\ \A g \in DOMAIN reserved : reserved[g] \in Nat
    BY <1>1, <1>7, ReservedTyped DEF Admissible
  <2>2. \A g \in DOMAIN reserved' : functionCount'[g] <= reserved'[g]
    BY <1>1, <1>2, <2>1, ReservedTyped DEF ReservedInv
  <2>3. \A g \in Unreserved : functionCount'[g] = functionCount[g]
    BY <1>2, <1>7 DEF Unreserved
  <2>4. Units(functionCount', Unreserved) = Units(functionCount, Unreserved)
    BY <2>3 DEF Units
  <2> QED  BY <1>5, <1>6, <2>2, <2>4 DEF ReservedInv, Total
<1>8. CASE f \notin DOMAIN reserved
  <2>1. Total(functionCount, Unreserved) + TotalReserved < AccountLimit
    BY <1>1, <1>8 DEF Admissible
  <2>2. f \in Unreserved /\ Unreserved \in SUBSET Functions
    BY <1>8 DEF Unreserved
  <2>3. Total(functionCount', Unreserved) = Total(functionCount, Unreserved) + 1
    BY <1>2, <1>3, <1>4, <2>2, TotalMore
  <2>4. Total(functionCount', Unreserved) + TotalReserved <= AccountLimit
    BY <2>1, <2>3, ReservedTyped, LambdaConcurrencyAssumption
  <2>5. \A g \in DOMAIN reserved' : functionCount'[g] <= reserved'[g]
    BY <1>1, <1>2, <1>8, ReservedTyped DEF ReservedInv
  <2> QED  BY <1>5, <1>6, <2>4, <2>5 DEF ReservedInv
<1> QED  BY <1>7, <1>8

(* A request that ends is one unit less. *)
LEMMA EndReserved ==
  ASSUME AccountInv, ReservedInv, NEW i \in Invocations, End(i), kind[i] = "request"
  PROVE  ReservedInv'
<1> PICK f \in Functions : f = Fn(i)
  BY DEF AccountInv, TypeOK, Fn, Keys
<1>0. TypeOK /\ CountsAccurate
  BY DEF AccountInv
<1> DEFINE u == <<f, functionCount[f]>>
<1>1. functionCount[f] > 0 /\ globalCount > 0
  <2>1. i \in Requests /\ i \in RequestsOf(f) /\ Requests \in SUBSET Invocations
        /\ RequestsOf(f) \in SUBSET Invocations
    BY DEF End, Requests, RequestsOf
  <2>2. Cardinality(Requests) > 0 /\ Cardinality(RequestsOf(f)) > 0
    BY <2>1, CountedLess
  <2> QED  BY <1>0, <2>2 DEF CountsAccurate
<1>2. functionCount' = [functionCount EXCEPT ![f] = @ - 1] /\ reserved' = reserved
      /\ globalCount' = globalCount - 1
  BY <1>0, <1>1 DEF End, Release, TypeOK
<1>3. /\ \A g \in Functions : functionCount[g] \in Nat
      /\ \A g \in Functions : functionCount'[g] = IF g = f THEN functionCount[g] - 1 ELSE functionCount[g]
  BY <1>0, <1>2 DEF TypeOK
<1>4. Units(functionCount', Functions) = Units(functionCount, Functions) \ {u}
  <2>1. 1..functionCount'[f] = (1..functionCount[f]) \ {functionCount[f]}
    BY <1>1, <1>3
  <2>2. \A g \in Functions \ {f} : functionCount'[g] = functionCount[g]
    BY <1>3
  <2>3. ASSUME NEW v
        PROVE  v \in Units(functionCount', Functions) <=> v \in Units(functionCount, Functions) \ {u}
    BY <2>1, <2>2, UnitsAre
  <2> QED  BY <2>3
<1>5. u \in Units(functionCount, Functions)
  <2>1. functionCount[f] \in 1..functionCount[f]
    BY <1>1, <1>3
  <2> QED  BY <2>1, UnitsAre
<1>6. globalCount' = Total(functionCount', Functions)
  BY <1>2, <1>3, <1>4, <1>5, TotalLess DEF ReservedInv
<1>7. Unreserved' = Unreserved /\ TotalReserved' = TotalReserved
  BY <1>2 DEF Unreserved, TotalReserved
<1>8. Total(functionCount', Unreserved) <= Total(functionCount, Unreserved)
      /\ Total(functionCount', Unreserved) \in Nat /\ Total(functionCount, Unreserved) \in Nat
  <2>1. \A g \in Unreserved : 1..functionCount'[g] \subseteq 1..functionCount[g]
    BY <1>3 DEF Unreserved
  <2>2. Units(functionCount', Unreserved) \subseteq Units(functionCount, Unreserved)
    BY <2>1, UnitsAre
  <2> QED  BY <1>0, <2>2, ReservedTyped, TotalWithin
<1>9. Total(functionCount', Unreserved) + TotalReserved <= AccountLimit
  BY <1>0, <1>8, ReservedTyped, LambdaConcurrencyAssumption DEF ReservedInv
<1>10. \A g \in DOMAIN reserved' : functionCount'[g] <= reserved'[g]
  BY <1>0, <1>2, <1>3, ReservedTyped DEF ReservedInv
<1> QED  BY <1>6, <1>7, <1>9, <1>10 DEF ReservedInv

(* While no request runs every count is zero, so reservations need only fit among
   themselves. *)
LEMMA IdleReserved ==
  ASSUME AccountInv, ReservedInv, Requests = {}, TypeOK', UNCHANGED <<functionCount, globalCount>>,
         TotalReserved' <= AccountLimit
  PROVE  ReservedInv'
<1>1. \A f \in Functions : functionCount[f] = 0
  <2>1. \A f \in Functions : RequestsOf(f) = {}
    BY DEF RequestsOf
  <2> QED  BY <2>1, FS_EmptySet DEF AccountInv, CountsAccurate
<1>2. Units(functionCount', Unreserved') = {}
  <2>1. Unreserved' \subseteq Functions
    BY DEF Unreserved
  <2> QED  BY <1>1, <2>1 DEF Units
<1>3. Total(functionCount', Unreserved') = 0
  BY <1>2, FS_EmptySet DEF Total
<1>4. /\ \A f \in DOMAIN reserved' : reserved'[f] \in Nat /\ f \in Functions
      /\ TotalReserved' \in Nat
  BY ReservedSum DEF TypeOK, TotalReserved
<1>5. \A f \in DOMAIN reserved' : functionCount'[f] <= reserved'[f]
  BY <1>1, <1>4
<1> QED  BY <1>3, <1>4, <1>5 DEF ReservedInv

LEMMA SetReservedKeeps ==
  ASSUME "reservations" \in Settled, AccountInv, ReservedInv, TypeOK',
         NEW f \in Functions, NEW n \in ReservedChoices, SetReserved(f, n)
  PROVE  ReservedInv'
<1> DEFINE rest == DOMAIN reserved \ {f}
           new == {f} \X (1..n)
<1>1. Requests = {} /\ MayReserve(f, n) /\ UNCHANGED <<functionCount, globalCount>>
      /\ reserved' = [g \in DOMAIN reserved \cup {f} |-> IF g = f THEN n ELSE reserved[g]]
  BY DEF SetReserved
<1>2. n \in Nat /\ rest \in SUBSET Functions /\ \A g \in rest : reserved[g] \in Nat
  BY ReservedTyped, LambdaConcurrencyAssumption DEF AccountInv
<1>3. IsFiniteSet(Units(reserved, rest)) /\ Total(reserved, rest) \in Nat
  BY <1>2, UnitsFinite
<1>4. IsFiniteSet(new) /\ Cardinality(new) = n
  BY <1>2, UnitsOfOne
<1>5. Units(reserved', DOMAIN reserved') = Units(reserved, rest) \cup new
  <2>1. ASSUME NEW v
        PROVE  v \in Units(reserved', DOMAIN reserved') <=> v \in Units(reserved, rest) \cup new
    <3>1. DOMAIN reserved' = rest \cup {f} /\ reserved'[f] = n /\ \A g \in rest : reserved'[g] = reserved[g]
      BY <1>1
    <3> QED  BY <3>1, UnitsAre
  <2> QED  BY <2>1
<1>6. TotalReserved' <= Total(reserved, rest) + n
  <2>1. IsFiniteSet(Units(reserved, rest) \cap new)
        /\ Cardinality(Units(reserved, rest) \cap new) \in Nat
    <3>1. IsFiniteSet(Units(reserved, rest) \cap new)
      BY <1>4, FS_Subset
    <3> QED  BY <3>1, FS_CardinalityType
  <2>2. Cardinality(Units(reserved, rest) \cup new)
          = Cardinality(Units(reserved, rest)) + Cardinality(new)
            - Cardinality(Units(reserved, rest) \cap new)
    BY <1>3, <1>4, FS_Union
  <2>3. TotalReserved' = Cardinality(Units(reserved, rest) \cup new)
    BY <1>5 DEF TotalReserved, Total
  <2>4. Cardinality(Units(reserved, rest)) = Total(reserved, rest)
    BY DEF Total
  <2>5. TotalReserved' = Total(reserved, rest) + n - Cardinality(Units(reserved, rest) \cap new)
    BY <1>4, <2>2, <2>3, <2>4
  <2> HIDE DEF rest, new
  <2> QED  BY <1>2, <1>3, <2>1, <2>5
<1>7. TotalReserved' <= AccountLimit
  <2>1. TotalReserved' \in Nat
    BY ReservedSum DEF TypeOK, TotalReserved
  <2> QED  BY <1>1, <1>2, <1>3, <1>6, <2>1, LambdaConcurrencyAssumption DEF MayReserve
<1> QED  BY <1>1, <1>7, IdleReserved

LEMMA DeleteReservedKeeps ==
  ASSUME "reservations" \in Settled, AccountInv, ReservedInv, TypeOK',
         NEW f \in Functions, DeleteReserved(f)
  PROVE  ReservedInv'
<1>0. TypeOK
  BY DEF AccountInv
<1>1. Requests = {} /\ UNCHANGED <<functionCount, globalCount>>
      /\ DOMAIN reserved' = DOMAIN reserved \ {f} /\ \A g \in DOMAIN reserved \ {f} : reserved'[g] = reserved[g]
  BY DEF DeleteReserved, Restrict
<1>2. Units(reserved', DOMAIN reserved') \subseteq Units(reserved, DOMAIN reserved)
  BY <1>1 DEF Units
<1>3. TotalReserved' <= TotalReserved /\ TotalReserved' \in Nat
  BY <1>0, <1>2, ReservedTyped, TotalWithin DEF TotalReserved
<1>4. TotalReserved' <= AccountLimit
  BY <1>0, <1>3, ReservedTyped, LambdaConcurrencyAssumption DEF ReservedInv
<1> QED  BY <1>1, <1>4, IdleReserved

LEMMA ReservedStep ==
  ASSUME "reservations" \in Settled, AccountInv, TypeOK', ReservedInv, [Next]_vars
  PROVE  ReservedInv'
<1>0. TypeOK
  BY DEF AccountInv
<1>1. CASE UNCHANGED <<functionCount, globalCount, reserved>>
  BY <1>1 DEF ReservedInv, Unreserved, TotalReserved, Total, Units
<1>2. ASSUME NEW i \in Invocations, NEW c \in Invocations \cup {Nobody},
             Check(i, c) \/ Begin(i) \/ Throttle(i) \/ (End(i) /\ kind[i] # "request")
      PROVE  UNCHANGED <<functionCount, globalCount, reserved>>
  BY <1>2 DEF Check, Begin, Throttle, End, trackerVars
<1>3. CASE Configure
  <2>1. ASSUME NEW f \in Functions, NEW n \in PromisedChoices, PutFunctionConcurrency(f, n)
        PROVE  UNCHANGED <<functionCount, globalCount, reserved>>
    BY <2>1 DEF PutFunctionConcurrency, trackerVars
  <2>2. ASSUME NEW k \in Keys, DeleteProvisioned(k) \/ \E n \in ProvisionedChoices : PutProvisioned(k, n)
        PROVE  UNCHANGED <<functionCount, globalCount, reserved>>
    BY <2>2 DEF DeleteProvisioned, PutProvisioned
  <2> QED  BY <1>1, <1>3, <2>1, <2>2, SetReservedKeeps, DeleteReservedKeeps DEF Configure
<1>4. CASE UNCHANGED vars
  BY <1>1, <1>4 DEF vars, trackerVars
<1> QED  BY <1>0, <1>1, <1>2, <1>3, <1>4, AdmitReserved, EndReserved DEF Next, Invocation

(* A function with a reservation it does not use up leaves a unit that no request
   takes, so the account is not full. *)
LEMMA ReservedImplies ==
  ASSUME TypeOK, ReservedInv
  PROVE  ReservationGuaranteed
<1> SUFFICES ASSUME NEW f \in DOMAIN reserved, functionCount[f] < reserved[f]
             PROVE  globalCount < AccountLimit
  BY DEF ReservationGuaranteed
<1> DEFINE u == <<f, reserved[f]>>
           ofReserved == Units(functionCount, DOMAIN reserved)
           ofOthers == Units(functionCount, Unreserved)
           allReserved == Units(reserved, DOMAIN reserved)
<1>0. /\ DOMAIN reserved \in SUBSET Functions /\ Unreserved \in SUBSET Functions
      /\ \A g \in DOMAIN reserved : reserved[g] \in Nat
      /\ \A g \in Functions : functionCount[g] \in Nat
      /\ TotalReserved \in Nat /\ Total(functionCount, Unreserved) \in Nat
  BY ReservedTyped
<1>1. \A g \in DOMAIN reserved : 1..functionCount[g] \subseteq 1..reserved[g]
  BY <1>0 DEF ReservedInv
<1>2. ofReserved \subseteq allReserved \ {u}
  <2>1. reserved[f] \notin 1..functionCount[f]
    BY <1>0
  <2> QED  BY <1>1, <2>1, UnitsAre
<1>3. u \in allReserved
  <2>1. reserved[f] \in 1..reserved[f]
    BY <1>0
  <2> QED  BY <2>1, UnitsAre
<1>4. IsFiniteSet(allReserved) /\ IsFiniteSet(ofReserved) /\ IsFiniteSet(ofOthers)
  BY <1>0, UnitsFinite
<1>5. Cardinality(ofReserved) <= TotalReserved - 1 /\ Cardinality(ofReserved) \in Nat
  <2>1. IsFiniteSet(allReserved \ {u}) /\ Cardinality(allReserved \ {u}) = Cardinality(allReserved) - 1
    BY <1>3, <1>4, FS_RemoveElement
  <2>2. Cardinality(ofReserved) <= Cardinality(allReserved \ {u})
    BY <1>2, <2>1, FS_Subset
  <2> QED  BY <1>4, <2>1, <2>2, FS_CardinalityType DEF TotalReserved, Total
<1>6. Units(functionCount, Functions) = ofOthers \cup ofReserved
  <2>1. Functions = Unreserved \cup DOMAIN reserved
    BY <1>0 DEF Unreserved
  <2> QED  BY <2>1 DEF Units
<1>7. Cardinality(ofOthers \cup ofReserved) <= Cardinality(ofOthers) + Cardinality(ofReserved)
      /\ Cardinality(ofOthers \cup ofReserved) \in Nat
  <2>1. IsFiniteSet(ofOthers \cap ofReserved)
    BY <1>4, FS_Subset
  <2>2. Cardinality(ofOthers \cap ofReserved) \in Nat /\ Cardinality(ofOthers) \in Nat
        /\ Cardinality(ofReserved) \in Nat
    BY <1>4, <2>1, FS_CardinalityType
  <2>3. IsFiniteSet(ofOthers \cup ofReserved) /\ Cardinality(ofOthers \cup ofReserved)
          = Cardinality(ofOthers) + Cardinality(ofReserved) - Cardinality(ofOthers \cap ofReserved)
    BY <1>4, FS_Union
  <2>4. Cardinality(ofOthers \cup ofReserved) \in Nat
    BY <2>3, FS_CardinalityType
  <2> QED  BY <2>2, <2>3, <2>4
<1>8. globalCount = Cardinality(ofOthers \cup ofReserved)
  BY <1>6 DEF ReservedInv, Total
<1>9. Cardinality(ofOthers) = Total(functionCount, Unreserved)
  BY DEF Total
<1>10. Total(functionCount, Unreserved) + TotalReserved <= AccountLimit
  BY DEF ReservedInv
<1> QED  BY <1>0, <1>5, <1>7, <1>8, <1>9, <1>10, LambdaConcurrencyAssumption

(* A reservation is a guarantee: as long as reservations change only while no
   request runs, a function below its reservation always finds room in the
   account, however many functions share it. *)
THEOREM ReservationsHold ==
  ASSUME "reservations" \in Settled
  PROVE  Spec => []ReservationGuaranteed
<1>1. Init => ReservedInv
  BY ReservedInit
<1>2. AccountInv /\ TypeOK' /\ ReservedInv /\ [Next]_vars => ReservedInv'
  BY ReservedStep
<1>3. TypeOK /\ ReservedInv => ReservationGuaranteed
  BY ReservedImplies
<1> QED  BY <1>1, <1>2, <1>3, AccountInvariant, TypeCorrect, PTL DEF Spec

-----------------------------------------------------------------------------
(* The recursion depth. *)

LEMMA DepthInit ==
  ASSUME Init
  PROVE  DepthInv
<1>1. \A f \in Functions : RunningOf(f) = {} /\ depth[f] = 0
  BY DEF Init, RunningOf
<1>2. DepthCovers
  BY <1>1, FS_EmptySet DEF DepthCovers
<1> QED  BY <1>2 DEF Init, DepthInv, NoDeepChain

(* A step that starts and ends nothing: the depth may grow, and what is on a
   chain has still been running. *)
LEMMA ThrottleDepth ==
  ASSUME TypeOK, DepthInv, NEW i \in Invocations, Throttle(i)
  PROVE  DepthInv'
<1>1. \A j \in Invocations : (stage'[j] = "running" <=> stage[j] = "running")
        /\ (stage'[j] = "new" <=> stage[j] = "new") /\ (stage'[j] = "checked" => stage[j] = "checked")
        /\ (stage[j] \in {"running", "done"} => stage'[j] \in {"running", "done"})
  BY DEF Throttle, TypeOK
<1>2. chain' = chain /\ target' = target /\ \A j \in Invocations : chain[j] \subseteq Invocations
  BY DEF Throttle, TypeOK
<1>3. \A f \in Functions : RunningOf(f)' = RunningOf(f)
  BY <1>1, <1>2 DEF RunningOf, Fn
<1>4. \A f \in Functions : depth'[f] >= depth[f] /\ depth[f] \in Nat /\ depth'[f] \in Nat
  BY DEF Throttle, IncrementDepth, TypeOK, Keys, Fn
<1>5. \A f \in Functions : Cardinality(RunningOf(f)) \in Nat
  BY Counted DEF RunningOf
<1>6. DepthCovers'
  BY <1>3, <1>4, <1>5 DEF DepthInv, DepthCovers
<1>7. \A j \in Invocations : Nested(j)' = Nested(j)
  BY <1>1, <1>2 DEF Nested, Fn
<1> QED  BY <1>1, <1>2, <1>6, <1>7 DEF DepthInv, NoDeepChain

(* An invocation that starts after its check: its chain gains one member, itself. *)
LEMMA StartDepth ==
  ASSUME TypeOK, DepthInv, NEW i \in Invocations, Begin(i) \/ Admit(i)
  PROVE  DepthInv'
<1>1. stage[i] = "checked" /\ stage' = [stage EXCEPT ![i] = "running"]
      /\ chain' = chain /\ target' = target /\ depth' = [depth EXCEPT ![Fn(i)] = @ + 1]
  BY DEF Begin, Admit, IncrementDepth
<1>2. Fn(i) \in Functions /\ \A j \in Invocations : chain[j] \subseteq Invocations
  BY DEF TypeOK, Fn, Keys
<1>3. DepthCovers'
  <2>1. \A f \in Functions : RunningOf(f)' = IF f = Fn(i) THEN RunningOf(f) \cup {i} ELSE RunningOf(f)
    BY <1>1 DEF RunningOf, Fn, TypeOK
  <2>2. RunningOf(Fn(i)) \in SUBSET Invocations /\ i \in Invocations \ RunningOf(Fn(i))
    BY <1>1 DEF RunningOf
  <2>3. Cardinality(RunningOf(Fn(i)) \cup {i}) = Cardinality(RunningOf(Fn(i))) + 1
        /\ Cardinality(RunningOf(Fn(i))) \in Nat
    BY <2>2, CountedMore, Counted
  <2>4. ASSUME NEW f \in Functions
        PROVE  depth'[f] >= Cardinality(RunningOf(f)')
    <3>1. depth[f] >= Cardinality(RunningOf(f)) /\ depth[f] \in Nat
      BY DEF DepthInv, DepthCovers, TypeOK
    <3>2. depth'[f] = IF f = Fn(i) THEN depth[f] + 1 ELSE depth[f]
      BY <1>1, <1>2 DEF TypeOK
    <3>3. CASE f = Fn(i)
      <4>1. Cardinality(RunningOf(f)') = Cardinality(RunningOf(f)) + 1 /\ Cardinality(RunningOf(f)) \in Nat
        BY <2>1, <2>3, <3>3
      <4> QED  BY <4>1, <3>1, <3>2, <3>3
    <3>4. CASE f # Fn(i)
      BY <2>1, <3>1, <3>2, <3>4
    <3> QED  BY <3>3, <3>4
  <2> QED  BY <2>4 DEF DepthCovers
<1>4. ASSUME NEW j \in Invocations, j # i
      PROVE  Nested(j)' = Nested(j)
  <2>1. i \notin chain[j]
    BY <1>1, <1>4 DEF DepthInv
  <2> QED  BY <1>1, <1>2, <2>1 DEF Nested, Fn, TypeOK
<1>5. Cardinality(Nested(i)') <= MaxRecursionDepth
  <2>1. Nested(i)' \subseteq Nested(i) \cup {i} /\ Nested(i) \in SUBSET Invocations /\ i \notin Nested(i)
    BY <1>1, <1>2 DEF Nested, Fn, TypeOK
  <2>2. Cardinality(Nested(i)') <= Cardinality(Nested(i) \cup {i})
    <3>1. Nested(i) \cup {i} \in SUBSET Invocations /\ Nested(i)' \in SUBSET (Nested(i) \cup {i})
      BY <2>1
    <3> QED  BY <3>1, CountedWithin
  <2>3. Cardinality(Nested(i) \cup {i}) = Cardinality(Nested(i)) + 1 /\ Cardinality(Nested(i)) \in Nat
    BY <2>1, CountedMore, Counted
  <2>4. Cardinality(Nested(i)) < MaxRecursionDepth
    BY <1>1 DEF DepthInv
  <2>5. Cardinality(Nested(i)') \in Nat
    <3>1. Nested(i)' \in SUBSET Invocations
      BY <2>1
    <3> QED  BY <3>1, Counted
  <2> QED  BY <2>2, <2>3, <2>4, <2>5, LambdaConcurrencyAssumption
<1>6. NoDeepChain'
  BY <1>1, <1>4, <1>5 DEF DepthInv, NoDeepChain, TypeOK
<1>7. \A j \in Invocations : stage'[j] = "checked" => Cardinality(Nested(j)') < MaxRecursionDepth
  BY <1>1, <1>4 DEF DepthInv, TypeOK
<1>8. \A j \in Invocations : stage'[j] = "new" => chain'[j] = {}
  BY <1>1 DEF DepthInv, TypeOK
<1>9. \A j \in Invocations : \A a \in chain'[j] \ {j} : stage'[a] \in {"running", "done"}
  BY <1>1, <1>2 DEF DepthInv, TypeOK
<1> QED  BY <1>3, <1>6, <1>7, <1>8, <1>9 DEF DepthInv

(* An invocation that ends was in the depth, so the depth can be given back. *)
LEMMA EndDepth ==
  ASSUME TypeOK, DepthInv, NEW i \in Invocations, End(i)
  PROVE  DepthInv'
<1>1. stage[i] = "running" /\ stage' = [stage EXCEPT ![i] = "done"] /\ chain' = chain /\ target' = target
      /\ depth' = [depth EXCEPT ![Fn(i)] = IF @ > 0 THEN @ - 1 ELSE @]
  BY DEF End, DecrementDepth
<1>2. Fn(i) \in Functions /\ \A j \in Invocations : chain[j] \subseteq Invocations
  BY DEF TypeOK, Fn, Keys
<1>3. DepthCovers'
  <2>1. \A f \in Functions : RunningOf(f)' = IF f = Fn(i) THEN RunningOf(f) \ {i} ELSE RunningOf(f)
    BY <1>1 DEF RunningOf, Fn, TypeOK
  <2>2. RunningOf(Fn(i)) \in SUBSET Invocations /\ i \in RunningOf(Fn(i))
    BY <1>1 DEF RunningOf
  <2>3. /\ Cardinality(RunningOf(Fn(i)) \ {i}) = Cardinality(RunningOf(Fn(i))) - 1
        /\ Cardinality(RunningOf(Fn(i))) > 0 /\ Cardinality(RunningOf(Fn(i))) \in Nat
    BY <2>2, CountedLess, Counted
  <2>4. ASSUME NEW f \in Functions
        PROVE  depth'[f] >= Cardinality(RunningOf(f)')
    <3>1. depth[f] >= Cardinality(RunningOf(f)) /\ depth[f] \in Nat
      BY DEF DepthInv, DepthCovers, TypeOK
    <3>2. depth'[f] = IF f = Fn(i) /\ depth[f] > 0 THEN depth[f] - 1 ELSE depth[f]
      BY <1>1, <1>2 DEF TypeOK
    <3>3. CASE f = Fn(i)
      <4>1. /\ Cardinality(RunningOf(f)') = Cardinality(RunningOf(f)) - 1
            /\ Cardinality(RunningOf(f)) > 0 /\ Cardinality(RunningOf(f)) \in Nat
        BY <2>1, <2>3, <3>3
      <4> QED  BY <4>1, <3>1, <3>2, <3>3
    <3>4. CASE f # Fn(i)
      BY <2>1, <3>1, <3>2, <3>4
    <3> QED  BY <3>3, <3>4
  <2> QED  BY <2>4 DEF DepthCovers
<1>4. \A j \in Invocations : Cardinality(Nested(j)') <= Cardinality(Nested(j))
                             /\ Cardinality(Nested(j)') \in Nat /\ Cardinality(Nested(j)) \in Nat
  <2> TAKE j \in Invocations
  <2>1. Nested(j)' \in SUBSET Nested(j) /\ Nested(j) \in SUBSET Invocations
        /\ Nested(j)' \in SUBSET Invocations
    BY <1>1, <1>2 DEF Nested, Fn, TypeOK
  <2> QED  BY <2>1, CountedWithin, Counted
<1>5. \A j \in Invocations : (stage'[j] = "running" => stage[j] = "running")
        /\ (stage'[j] = "new" <=> stage[j] = "new") /\ (stage'[j] = "checked" <=> stage[j] = "checked")
        /\ (stage[j] \in {"running", "done"} => stage'[j] \in {"running", "done"})
  BY <1>1 DEF TypeOK
<1>6. NoDeepChain'
  BY <1>4, <1>5, LambdaConcurrencyAssumption DEF DepthInv, NoDeepChain
<1>7. \A j \in Invocations : stage'[j] = "checked" => Cardinality(Nested(j)') < MaxRecursionDepth
  BY <1>4, <1>5, LambdaConcurrencyAssumption DEF DepthInv
<1>8. \A j \in Invocations : stage'[j] = "new" => chain'[j] = {}
  BY <1>1, <1>5 DEF DepthInv
<1>9. \A j \in Invocations : \A a \in chain'[j] \ {j} : stage'[a] \in {"running", "done"}
  BY <1>1, <1>2, <1>5 DEF DepthInv
<1> QED  BY <1>3, <1>6, <1>7, <1>8, <1>9 DEF DepthInv

(* The check: everyone on the new chain has been running, and those of the same
   function who still are were all in the depth the check read. *)
LEMMA CheckDepth ==
  ASSUME TypeOK, DepthInv, NEW i \in Invocations, NEW c \in Invocations \cup {Nobody}, Check(i, c)
  PROVE  DepthInv'
<1>1. /\ stage[i] = "new" /\ (c # Nobody => stage[c] = "running")
      /\ chain' = [chain EXCEPT ![i] = {i} \cup (IF c = Nobody THEN {} ELSE chain[c])]
      /\ stage' = [stage EXCEPT ![i] = IF TooDeep(Fn(i)) THEN "refused" ELSE "checked"]
      /\ target' = target /\ depth' = depth
  BY DEF Check
<1>2. Fn(i) \in Functions /\ \A j \in Invocations : chain[j] \subseteq Invocations
  BY DEF TypeOK, Fn, Keys
<1>3. \A f \in Functions : RunningOf(f)' = RunningOf(f)
  BY <1>1 DEF RunningOf, Fn, TypeOK
<1>4. DepthCovers'
  BY <1>1, <1>3 DEF DepthInv, DepthCovers
<1>5. \A j \in Invocations \ {i} : Nested(j)' = Nested(j) /\ stage'[j] = stage[j] /\ chain'[j] = chain[j]
  BY <1>1, <1>2 DEF Nested, Fn, TypeOK
<1>6. stage'[i] \in {"refused", "checked"}
  BY <1>1 DEF TypeOK
<1>7. NoDeepChain'
  BY <1>5, <1>6 DEF DepthInv, NoDeepChain
<1>8. stage'[i] = "checked" => Cardinality(Nested(i)') < MaxRecursionDepth
  <2> SUFFICES ASSUME stage'[i] = "checked"
               PROVE  Cardinality(Nested(i)') < MaxRecursionDepth
    OBVIOUS
  <2>1. ~TooDeep(Fn(i))
    BY <1>1 DEF TypeOK
  <2>2. Nested(i)' \in SUBSET RunningOf(Fn(i)) /\ RunningOf(Fn(i)) \in SUBSET Invocations
        /\ Nested(i)' \in SUBSET Invocations
    <3>1. chain'[i] \subseteq Invocations
      BY <1>1, <1>2, LambdaConcurrencyAssumption DEF TypeOK
    <3> QED  BY <3>1, <1>1, <1>6 DEF Nested, RunningOf, Fn, TypeOK
  <2>3. Cardinality(Nested(i)') <= Cardinality(RunningOf(Fn(i)))
        /\ Cardinality(Nested(i)') \in Nat /\ Cardinality(RunningOf(Fn(i))) \in Nat
    BY <2>2, CountedWithin, Counted
  <2>4. Cardinality(RunningOf(Fn(i))) <= depth[Fn(i)] /\ depth[Fn(i)] \in Nat
    BY <1>2 DEF DepthInv, DepthCovers, TypeOK
  <2>5. depth[Fn(i)] < MaxRecursionDepth
    BY <2>1, <2>4, LambdaConcurrencyAssumption DEF TooDeep
  <2> QED  BY <2>3, <2>4, <2>5, LambdaConcurrencyAssumption
<1>9. \A j \in Invocations : stage'[j] = "checked" => Cardinality(Nested(j)') < MaxRecursionDepth
  BY <1>5, <1>8 DEF DepthInv
<1>10. \A j \in Invocations : stage'[j] = "new" => chain'[j] = {}
  BY <1>5, <1>6 DEF DepthInv
<1>11. \A j \in Invocations : \A a \in chain'[j] \ {j} : stage'[a] \in {"running", "done"}
  <2>1. ASSUME NEW a \in chain'[i] \ {i}
        PROVE  stage'[a] \in {"running", "done"}
    <3>1. c # Nobody /\ c \in Invocations /\ a \in chain[c]
      BY <2>1, <1>1 DEF TypeOK
    <3>2. stage[a] \in {"running", "done"} /\ a \in Invocations /\ a # i
      BY <3>1, <1>1, <1>2, <2>1 DEF DepthInv
    <3> QED  BY <3>2, <1>5
  <2>2. ASSUME NEW j \in Invocations \ {i}, NEW a \in chain'[j] \ {j}
        PROVE  stage'[a] \in {"running", "done"}
    <3>1. a \in chain[j] \ {j} /\ a \in Invocations /\ stage[a] \in {"running", "done"}
      BY <2>2, <1>2, <1>5 DEF DepthInv
    <3> QED  BY <3>1, <1>1, <1>5
  <2> QED  BY <2>1, <2>2
<1> QED  BY <1>4, <1>7, <1>9, <1>10, <1>11 DEF DepthInv

LEMMA DepthStep ==
  ASSUME TypeOK, DepthInv, [Next]_vars
  PROVE  DepthInv'
<1>1. CASE Configure \/ UNCHANGED vars
  <2>1. UNCHANGED <<depth, stage, chain, target>>
    BY <1>1 DEF Configure, SetReserved, DeleteReserved, PutFunctionConcurrency, PutProvisioned,
                DeleteProvisioned, invocationVars, vars
  <2>2. \A f \in Functions : RunningOf(f)' = RunningOf(f)
    BY <2>1 DEF RunningOf, Fn
  <2>3. \A j \in Invocations : Nested(j)' = Nested(j)
    BY <2>1 DEF Nested, Fn
  <2> QED  BY <2>1, <2>2, <2>3 DEF DepthInv, DepthCovers, NoDeepChain
<1> QED  BY <1>1, CheckDepth, StartDepth, ThrottleDepth, EndDepth DEF Next, Invocation

LEMMA DepthInvariant == Spec => []DepthInv
<1>1. Init => DepthInv
  BY DepthInit
<1>2. TypeOK /\ DepthInv /\ [Next]_vars => DepthInv'
  BY DepthStep
<1> QED  BY <1>1, <1>2, TypeCorrect, PTL DEF Spec

(* The depth counts at least the running invocations of a function, although it
   is read and counted under different critical sections. *)
THEOREM DepthIsCovered == Spec => []DepthCovers
<1>1. DepthInv => DepthCovers
  BY DEF DepthInv
<1> QED  BY <1>1, DepthInvariant, PTL

(* No chain of running invocations of one function is longer than the limit. *)
THEOREM ChainsAreBounded == Spec => []NoDeepChain
<1>1. DepthInv => NoDeepChain
  BY DEF DepthInv
<1> QED  BY <1>1, DepthInvariant, PTL
=============================================================================
