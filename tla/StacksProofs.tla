----------------------------- MODULE StacksProofs -----------------------------
(* Theorems about Stacks for any names, any finite set of resources, any templates
   and change sets, and any budget of stacks and failures.

   StacksInv says what holds of each stack by itself: beside what ListedLive promises,
   that it lists definitions of its own template only, as it is the template that protects
   the exports it mentions. What relates stacks, their imports and their names, is about
   steps: Changes is shown of every step from a state that satisfies StacksInv. *)
EXTENDS Stacks, SequenceTheorems, FiniteSetTheorems, WellFoundedInduction, TLAPS

Exists(s) == s.status # "DELETE_COMPLETE"

ListsLive(s) ==
  s.past = "sound" =>
    /\ s.resources \subseteq s.live
    /\ failures.deletion = 0 => s.live \subseteq s.resources

ListsOwn(s) == s.past # "created over" => s.resources \subseteq s.template.defs

Resolves(s) ==
  Exists(s) /\ s.template.spelled /\ s.past # "created over" => ImportsOf(s.resources) \subseteq exports

StacksInv ==
  /\ TypeOK
  /\ \A i \in DOMAIN stacks : ListsLive(stacks[i]) /\ ListsOwn(stacks[i])

(* What a step does to the imports of stack i, and whether it may come to exist. *)
ByNamesake(i) ==
  /\ i \in Undeleted(stacks'[i].name)
  /\ LET j == GetStack(stacks'[i].name)
     IN j # i /\ stacks'[j].status = "DELETE_COMPLETE"

StillResolves(i) ==
  Resolves(stacks[i])' \/ (i \in DOMAIN stacks /\ ~Resolves(stacks[i])) \/ ByNamesake(i)

Alone(n) == \A j \in DOMAIN stacks : ~(stacks[j].name = n /\ Exists(stacks[j]))
ByArn(i) == \E e \in changeSets \ changeSets' : e.stack = i

ComesRightly(i) ==
  Exists(stacks'[i]) /\ ~(i \in DOMAIN stacks /\ Exists(stacks[i])) => Alone(stacks'[i].name) \/ ByArn(i)

NamesStay == \A i \in DOMAIN stacks : i \in DOMAIN stacks' /\ stacks'[i].name = stacks[i].name

Changes == NamesStay /\ \A i \in DOMAIN stacks' : StillResolves(i) /\ ComesRightly(i)

-----------------------------------------------------------------------------
(* Which stack a name finds. *)

(* A set of numbers has a least. *)
LEMMA Least ==
  ASSUME NEW S \in SUBSET Nat, S # {}
  PROVE  Min(S) \in S
<1>1. PICK x \in S : \A y \in S : <<y, x>> \notin OpToRel(<, Nat)
  BY NatLessThanWellFounded, WFMin
<1>2. ASSUME NEW y \in S
      PROVE  ~(y < x)
  <2>1. <<y, x>> \notin OpToRel(<, Nat) /\ <<y, x>> \in Nat \X Nat
    BY <1>1
  <2> QED  BY <2>1 DEF OpToRel
<1>3. \A y \in S : x <= y
  BY <1>2
<1> QED  BY <1>3 DEF Min

(* A finite set of numbers has a greatest. The proof looks at a smallest set without. *)
LEMMA Greatest ==
  ASSUME NEW S \in SUBSET Nat, IsFiniteSet(S), S # {}
  PROVE  Max(S) \in S
<1> DEFINE Without == {A \in FiniteSubsetsOf(Nat) : A # {} /\ \A x \in A : \E y \in A : ~(x >= y)}
<1>1. Without = {}
  <2> SUFFICES ASSUME Without # {} PROVE FALSE
    OBVIOUS
  <2>1. PICK A \in Without : \A B \in Without : <<B, A>> \notin StrictSubsetOrdering(Nat)
    <3>1. Without \subseteq FiniteSubsetsOf(Nat)
      OBVIOUS
    <3> HIDE DEF Without
    <3> QED  BY <3>1, FS_StrictSubsetOrderingWellFounded, WFMin
  <2>2. A \subseteq Nat /\ IsFiniteSet(A)
    BY DEF FiniteSubsetsOf
  <2>3. PICK x \in A : TRUE
    OBVIOUS
  <2> DEFINE B == A \ {x}
  <2>4. B \in FiniteSubsetsOf(Nat) /\ <<B, A>> \in StrictSubsetOrdering(Nat)
    BY <2>2, <2>3, FS_RemoveElement DEF FiniteSubsetsOf, StrictSubsetOrdering
  <2>5. B = {} \/ \E m \in B : \A y \in B : m >= y
    BY <2>1, <2>4
  <2>6. CASE B = {}
    BY <2>2, <2>6
  <2>7. ASSUME NEW m \in B, \A y \in B : m >= y
        PROVE  FALSE
    <3>1. CASE m >= x
      BY <2>2, <2>7, <3>1
    <3>2. CASE ~(m >= x)
      BY <2>2, <2>7, <3>2
    <3> QED  BY <3>1, <3>2
  <2> QED  BY <2>5, <2>6, <2>7
<1>2. \E x \in S : \A y \in S : x >= y
  BY <1>1 DEF FiniteSubsetsOf
<1> QED  BY <1>2 DEF Max

(* A name finds a stack of the name, one that exists if any does. *)
LEMMA Found ==
  ASSUME StacksInv, NEW n \in Names
  PROVE  /\ GetStack(n) # 0 => GetStack(n) \in DOMAIN stacks /\ stacks[GetStack(n)].name = n
         /\ Alone(n) \/ (GetStack(n) # 0 /\ Exists(stacks[GetStack(n)]))
         /\ 0 \notin DOMAIN stacks
<1>1. DOMAIN stacks = 1..Len(stacks) /\ Len(stacks) \in Nat
  BY DEF StacksInv, TypeOK
<1>2. CASE Undeleted(n) # {}
  <2>1. Undeleted(n) \subseteq Nat
    BY <1>1 DEF Undeleted, Named
  <2>2. GetStack(n) \in Undeleted(n)
    BY <1>2, <2>1, Least DEF GetStack
  <2> QED  BY <1>1, <2>2 DEF Undeleted, Named, Exists
<1>3. CASE Undeleted(n) = {}
  <2>1. Alone(n)
    BY <1>3 DEF Alone, Undeleted, Named, Exists
  <2>2. Named(n) # {} => Max(Named(n)) \in Named(n)
    <3>1. Named(n) \subseteq 1..Len(stacks) /\ IsFiniteSet(1..Len(stacks))
      BY <1>1, FS_Interval DEF Named
    <3>2. IsFiniteSet(Named(n)) /\ Named(n) \subseteq Nat
      BY <1>1, <3>1, FS_Subset
    <3> QED  BY <3>2, Greatest
  <2> QED  BY <1>1, <1>3, <2>1, <2>2 DEF GetStack, Named
<1> QED  BY <1>2, <1>3

-----------------------------------------------------------------------------
(* Deployments. *)

LEMMA Counted ==
  ASSUME NEW bad \in SUBSET Resources
  PROVE  Cardinality(bad) \in Nat /\ (Cardinality(bad) = 0 => bad = {})
BY StacksAssumption, FS_Subset, FS_CardinalityType, FS_EmptySet

(* A step that deletes bad resources in vain, and may fail to deploy. *)
LEMMA FailTyped ==
  ASSUME TypeOK, NEW bad \in SUBSET Resources, NEW ok \in BOOLEAN, Fail(ok, bad)
  PROVE  /\ failures' \in [deployment : Nat, deletion : Nat] /\ Spent' <= Budget
         /\ failures'.deletion = 0 => failures.deletion = 0 /\ bad = {}
<1>1. failures.deployment \in Nat /\ failures.deletion \in Nat /\ Cardinality(bad) \in Nat
  BY Counted DEF TypeOK
<1> QED  BY <1>1, Counted DEF Fail

LEMMA OutcomeOf ==
  ASSUME NEW s, NEW t \in Templates, NEW o \in Outcomes(s, t)
  PROVE  /\ o.ok \in BOOLEAN
         /\ o.made \subseteq Missing(s, t) /\ ImportsOf(o.made) \subseteq exports
         /\ o.exported \subseteq t.exports
         /\ Missing(s, t) \subseteq t.defs /\ t.defs \subseteq Resources
<1>1. Missing(s, t) \subseteq t.defs /\ t.defs \subseteq Resources
  BY StacksAssumption DEF Missing
<1>2. ASSUME ImportsOf(Missing(s, t)) \subseteq exports,
             o = [ok |-> TRUE, made |-> Missing(s, t), exported |-> t.exports]
      PROVE  /\ o.ok \in BOOLEAN
             /\ o.made \subseteq Missing(s, t) /\ ImportsOf(o.made) \subseteq exports
             /\ o.exported \subseteq t.exports
  BY <1>2
<1>3. ASSUME NEW m \in SUBSET Missing(s, t), ImportsOf(m) \subseteq exports,
             o = [ok |-> FALSE, made |-> m, exported |-> {}]
      PROVE  /\ o.ok \in BOOLEAN
             /\ o.made \subseteq Missing(s, t) /\ ImportsOf(o.made) \subseteq exports
             /\ o.exported \subseteq t.exports
  BY <1>3
<1>4. ASSUME NEW e \in SUBSET t.exports, ImportsOf(Missing(s, t)) \subseteq exports,
             o = [ok |-> FALSE, made |-> Missing(s, t), exported |-> e]
      PROVE  /\ o.ok \in BOOLEAN
             /\ o.made \subseteq Missing(s, t) /\ ImportsOf(o.made) \subseteq exports
             /\ o.exported \subseteq t.exports
  BY <1>4
<1> QED  BY <1>1, <1>2, <1>3, <1>4 DEF Outcomes

(* What has been deployed of a template adds what was made to what a stack lists. *)
LEMMA DeployedStack ==
  ASSUME NEW s \in Stack, NEW t \in Templates, NEW o \in Outcomes(s, t)
  PROVE  /\ Deployed(s, t, o) \in Stack
         /\ Deployed(s, t, o).template = t
         /\ Deployed(s, t, o).resources = s.resources \cup o.made
         /\ Deployed(s, t, o).live = s.live \cup o.made
         /\ Deployed(s, t, o).name = s.name
         /\ Deployed(s, t, o).past = s.past
         /\ Deployed(s, t, o).status = s.status
<1>1. o.exported \subseteq ExportNames /\ o.made \subseteq Resources
  BY OutcomeOf DEF ExportNames
<1> QED  BY <1>1 DEF Deployed, Stack

LEMMA DeletedStack ==
  ASSUME NEW s \in Stack, NEW ds, NEW bad
  PROVE  /\ Deleted(s, ds, bad) \in Stack
         /\ Deleted(s, ds, bad) = [s EXCEPT !.live = s.live \ (ds \ bad)]
BY DEF Deleted, Stack

(* A rolled back stack is not sound, and not what it was created over. *)
LEMMA PastOf ==
  ASSUME NEW s \in Stack, NEW p \in {"undone", "restored"}
  PROVE  /\ Past(s, p) \in {"undone", "restored", "created over"}
         /\ s.past = "created over" => Past(s, p) = "created over"
         /\ s.past # "created over" => Past(s, p) # "created over"
BY DEF Past, Stack

LEMMA RolledBackStack ==
  ASSUME NEW s \in Stack, NEW bad \in SUBSET Resources
  PROVE  /\ RolledBack(s, bad) \in Stack
         /\ RolledBack(s, bad).name = s.name
         /\ RolledBack(s, bad).template = s.template
         /\ RolledBack(s, bad).resources = s.resources
         /\ RolledBack(s, bad).past \in {"undone", "restored", "created over"}
         /\ s.past = "created over" => RolledBack(s, bad).past = "created over"
         /\ s.past # "created over" => RolledBack(s, bad).past # "created over"
<1> DEFINE d == Deleted(s, s.resources, bad)
<1>1. d \in Stack /\ d.name = s.name /\ d.template = s.template /\ d.resources = s.resources
  <2>1. d \in Stack /\ d = [s EXCEPT !.live = s.live \ (s.resources \ bad)]
    BY DeletedStack
  <2> HIDE DEF d
  <2> QED  BY <2>1 DEF Stack
<1>2. RolledBack(s, bad) = [d EXCEPT !.status = "ROLLBACK_COMPLETE", !.past = Past(s, "undone")]
  BY DEF RolledBack
<1>3. /\ Past(s, "undone") \in {"undone", "restored", "created over"}
      /\ s.past = "created over" => Past(s, "undone") = "created over"
      /\ s.past # "created over" => Past(s, "undone") # "created over"
  BY PastOf
<1> HIDE DEF d
<1> QED  BY <1>1, <1>2, <1>3 DEF Stack, Statuses

-----------------------------------------------------------------------------
(* Steps that change one stack. *)

(* Nothing that holds of a stack is lost when exports are added and failures counted. *)
LEMMA OthersKeep ==
  ASSUME StacksInv, exports \subseteq exports', failures'.deletion = 0 => failures.deletion = 0,
         NEW j \in DOMAIN stacks, stacks'[j] = stacks[j]
  PROVE  ListsLive(stacks[j])' /\ ListsOwn(stacks[j])' /\ StillResolves(j) /\ ComesRightly(j)
BY DEF StacksInv, ListsLive, ListsOwn, StillResolves, Resolves, ComesRightly, Exists

LEMMA Replace ==
  ASSUME StacksInv, NEW i \in DOMAIN stacks,
         stacks' = [stacks EXCEPT ![i] = stacks'[i]], stacks'[i] \in Stack,
         stacks'[i].name = stacks[i].name,
         ListsLive(stacks[i])', ListsOwn(stacks[i])',
         Resolves(stacks[i]) => Resolves(stacks[i])',
         Exists(stacks[i]) \/ Alone(stacks[i].name) \/ ByArn(i),
         exports \subseteq exports', exports' \subseteq ExportNames, changeSets' \subseteq changeSets, made' = made,
         failures' \in [deployment : Nat, deletion : Nat], Spent' <= Budget,
         failures'.deletion = 0 => failures.deletion = 0
  PROVE  StacksInv' /\ Changes
<1>1. /\ stacks \in Seq(Stack) /\ stacks' \in Seq(Stack) /\ DOMAIN stacks' = DOMAIN stacks
      /\ Len(stacks') = Len(stacks)
      /\ \A j \in DOMAIN stacks \ {i} : stacks'[j] = stacks[j]
  <2>1. stacks \in Seq(Stack)
    BY DEF StacksInv, TypeOK
  <2> QED  BY <2>1, ExceptSeq
<1>2. StillResolves(i) /\ ComesRightly(i)
  BY DEF StillResolves, ComesRightly
<1>3. \A j \in DOMAIN stacks' :
        ListsLive(stacks[j])' /\ ListsOwn(stacks[j])' /\ StillResolves(j) /\ ComesRightly(j)
  BY <1>1, <1>2, OthersKeep
<1>4. TypeOK'
  BY <1>1 DEF StacksInv, TypeOK
<1>5. NamesStay
  BY <1>1 DEF NamesStay
<1> QED  BY <1>3, <1>4, <1>5 DEF StacksInv, Changes

LEMMA AppendOne ==
  ASSUME StacksInv, NEW s \in Stack, stacks' = Append(stacks, s),
         \A i \in DOMAIN stacks' : stacks'[i] = s /\ i \notin DOMAIN stacks =>
           ListsLive(stacks[i])' /\ ListsOwn(stacks[i])' /\ Resolves(stacks[i])',
         Alone(s.name),
         exports \subseteq exports', exports' \subseteq ExportNames,
         changeSets' \subseteq [set : ChangeSets, stack : 0..Len(stacks)], made' \in 0..MaxChangeSets,
         failures' \in [deployment : Nat, deletion : Nat], Spent' <= Budget,
         failures'.deletion = 0 => failures.deletion = 0
  PROVE  StacksInv' /\ Changes
<1>1. /\ stacks \in Seq(Stack) /\ stacks' \in Seq(Stack)
      /\ DOMAIN stacks' = DOMAIN stacks \cup {Len(stacks) + 1} /\ Len(stacks) + 1 \notin DOMAIN stacks
      /\ Len(stacks) \in Nat /\ Len(stacks') = Len(stacks) + 1
      /\ \A j \in DOMAIN stacks : stacks'[j] = stacks[j]
      /\ stacks'[Len(stacks) + 1] = s
  <2>1. stacks \in Seq(Stack)
    BY DEF StacksInv, TypeOK
  <2> QED  BY <2>1, AppendProperties
<1>2. ASSUME NEW j \in DOMAIN stacks', j \notin DOMAIN stacks
      PROVE  ListsLive(stacks[j])' /\ ListsOwn(stacks[j])' /\ StillResolves(j) /\ ComesRightly(j)
  BY <1>1, <1>2 DEF StillResolves, ComesRightly
<1>3. \A j \in DOMAIN stacks' :
        ListsLive(stacks[j])' /\ ListsOwn(stacks[j])' /\ StillResolves(j) /\ ComesRightly(j)
  BY <1>1, <1>2, OthersKeep
<1>4. TypeOK'
  <2>1. 0..Len(stacks) \subseteq 0..Len(stacks')
    BY <1>1
  <2>2. changeSets' \subseteq [set : ChangeSets, stack : 0..Len(stacks')]
    BY <2>1
  <2> QED  BY <1>1, <2>2 DEF TypeOK
<1>5. NamesStay
  BY <1>1 DEF NamesStay
<1> QED  BY <1>3, <1>4, <1>5 DEF StacksInv, Changes

(* The imports of two sets of resources. *)
LEMMA ImportsSplit ==
  ASSUME NEW A, NEW B, ImportsOf(A) \subseteq exports, ImportsOf(B) \subseteq exports
  PROVE  ImportsOf(A \cup B) \subseteq exports
BY DEF ImportsOf

(* What an outcome leaves in the store's other variables. *)
LEMMA OutcomeTyped ==
  ASSUME TypeOK, NEW s, NEW t \in Templates, NEW o \in Outcomes(s, t), exports' = exports \cup o.exported
  PROVE  exports \subseteq exports' /\ exports' \subseteq ExportNames
BY OutcomeOf DEF TypeOK, ExportNames

LEMMA CreateKeeps ==
  ASSUME StacksInv, NEW n \in Names, NEW t \in Templates, CreateStack(n, t)
  PROVE  StacksInv' /\ Changes
<1>1. PICK s \in Stack :
        /\ s = NewStack(n, t) /\ s.name = n /\ s.resources = {} /\ s.live = {}
        /\ s.past = "sound" /\ s.template = t
  <2>1. NewStack(n, t) \in Stack
    BY DEF NewStack, Stack, Statuses
  <2> QED  BY <2>1 DEF NewStack
<1>2. PICK o \in Outcomes(s, t) : \E bad \in Failing(IF o.ok THEN {} ELSE o.made) :
        /\ stacks' = Append(stacks, CreateEnd(Deployed(s, t, o), o, bad))
        /\ Fail(o.ok, bad)
        /\ exports' = exports \cup o.exported
  BY <1>1 DEF CreateStack
<1>3. /\ o.ok \in BOOLEAN /\ o.made \subseteq t.defs /\ ImportsOf(o.made) \subseteq exports
      /\ t.defs \subseteq Resources /\ exports \subseteq exports' /\ exports' \subseteq ExportNames
  BY <1>2, OutcomeOf, OutcomeTyped DEF StacksInv
<1>4. PICK bad \in Failing(IF o.ok THEN {} ELSE o.made) :
        stacks' = Append(stacks, CreateEnd(Deployed(s, t, o), o, bad)) /\ Fail(o.ok, bad)
  BY <1>2
<1>5. bad \subseteq Resources
  BY <1>3, <1>4 DEF Failing
<1>6. /\ failures' \in [deployment : Nat, deletion : Nat] /\ Spent' <= Budget
      /\ failures'.deletion = 0 => failures.deletion = 0
  BY <1>3, <1>4, <1>5, FailTyped DEF StacksInv
<1>7. PICK d \in Stack :
        /\ d = Deployed(s, t, o) /\ d.template = t /\ d.resources = o.made /\ d.live = o.made
        /\ d.name = n /\ d.past = "sound"
  <2>1. /\ Deployed(s, t, o) \in Stack /\ Deployed(s, t, o).template = t
        /\ Deployed(s, t, o).resources = s.resources \cup o.made
        /\ Deployed(s, t, o).live = s.live \cup o.made
        /\ Deployed(s, t, o).name = s.name /\ Deployed(s, t, o).past = s.past
    BY DeployedStack
  <2> QED  BY <1>1, <2>1
<1>8. PICK r \in Stack :
        /\ r = CreateEnd(d, o, bad) /\ r.name = n /\ r.template = t /\ r.resources = o.made
        /\ r.past # "created over"
        /\ r.past = "sound" => r.live = o.made
  <2>1. CASE o.ok
    <3>1. CreateEnd(d, o, bad) = [d EXCEPT !.status = "CREATE_COMPLETE"]
      BY <2>1 DEF CreateEnd, Complete
    <3>2. [d EXCEPT !.status = "CREATE_COMPLETE"] \in Stack
      BY DEF Stack, Statuses
    <3> QED  BY <3>1, <3>2, <1>7 DEF Stack
  <2>2. CASE ~o.ok
    <3>1. CreateEnd(d, o, bad) = RolledBack(d, bad)
      BY <2>2 DEF CreateEnd
    <3>2. /\ RolledBack(d, bad) \in Stack /\ RolledBack(d, bad).name = d.name
          /\ RolledBack(d, bad).template = d.template
          /\ RolledBack(d, bad).resources = d.resources
          /\ RolledBack(d, bad).past \in {"undone", "restored", "created over"}
          /\ d.past # "created over" => RolledBack(d, bad).past # "created over"
      BY <1>5, RolledBackStack
    <3> QED  BY <3>1, <3>2, <1>7
  <2> QED  BY <2>1, <2>2
<1>9. Alone(n)
  BY Found DEF CreateStack, Exists
<1>10. /\ stacks' = Append(stacks, r)
       /\ changeSets' \subseteq [set : ChangeSets, stack : 0..Len(stacks)] /\ made' \in 0..MaxChangeSets
  BY <1>4, <1>7, <1>8 DEF CreateStack, StacksInv, TypeOK
<1>11. ASSUME NEW i \in DOMAIN stacks', stacks'[i] = r
       PROVE  ListsLive(stacks[i])' /\ ListsOwn(stacks[i])' /\ Resolves(stacks[i])'
  BY <1>3, <1>8, <1>11 DEF ListsLive, ListsOwn, Resolves
<1> QED  BY <1>3, <1>6, <1>8, <1>9, <1>10, <1>11, AppendOne

LEMMA IsStack ==
  ASSUME StacksInv, NEW i \in DOMAIN stacks
  PROVE  stacks[i] \in Stack
BY DEF StacksInv, TypeOK

(* What a stack keeps listing through an update are definitions of both templates, so
   that the template it had protects what they import until the new one does. *)
LEMMA KeptResolve ==
  ASSUME StacksInv, NEW i \in DOMAIN stacks, Exists(stacks[i]), stacks[i].past # "created over",
         Resolves(stacks[i]), NEW t \in Templates, t.spelled, NEW A \in SUBSET stacks[i].resources, A \subseteq t.defs
  PROVE  ImportsOf(A) \subseteq exports
<1>1. stacks[i] \in Stack
  BY IsStack
<1>2. stacks[i].resources \subseteq stacks[i].template.defs /\ stacks[i].template \in Templates
  BY <1>1 DEF StacksInv, ListsOwn, Stack
<1>3. \A d \in A : Imports[d] # {} => stacks[i].template.spelled
  BY <1>2, StacksAssumption
<1>4. stacks[i].template.spelled => ImportsOf(stacks[i].resources) \subseteq exports
  BY DEF Resolves
<1>5. ASSUME NEW d \in A, NEW e \in Imports[d]
      PROVE  e \in exports
  <2>1. ImportsOf(stacks[i].resources) \subseteq exports
    BY <1>3, <1>4, <1>5
  <2>2. e \in ImportsOf(stacks[i].resources)
    BY DEF ImportsOf
  <2> QED  BY <2>1, <2>2
<1> QED  BY <1>5 DEF ImportsOf

(* An update keeps listing only definitions that are in the new template as well. *)
LEMMA UpdateBaseStack ==
  ASSUME NEW s \in Stack, NEW t \in Templates, NEW bad \in SUBSET Resources
  PROVE  /\ UpdateBase(s, t, bad) \in Stack
         /\ UpdateBase(s, t, bad).name = s.name
         /\ UpdateBase(s, t, bad).past = s.past
         /\ UpdateBase(s, t, bad).resources = s.resources \ Replaced(s, t)
         /\ UpdateBase(s, t, bad).live = s.live \ (Replaced(s, t) \ bad)
         /\ s.resources \subseteq s.template.defs => s.resources \ Replaced(s, t) \subseteq t.defs
<1>1. PICK b \in Stack :
        /\ b = Deleted(s, Replaced(s, t), bad)
        /\ b = [s EXCEPT !.live = s.live \ (Replaced(s, t) \ bad)]
  <2>1. /\ Deleted(s, Replaced(s, t), bad) \in Stack
        /\ Deleted(s, Replaced(s, t), bad) = [s EXCEPT !.live = s.live \ (Replaced(s, t) \ bad)]
    BY DeletedStack
  <2> QED  BY <2>1
<1>2. UpdateBase(s, t, bad) = [b EXCEPT !.resources = b.resources \ Replaced(s, t)]
  BY <1>1 DEF UpdateBase
<1>3. s.resources \subseteq s.template.defs => s.resources \ Replaced(s, t) \subseteq t.defs
  BY DEF Replaced
<1> QED  BY <1>1, <1>2, <1>3 DEF Stack

LEMMA RestoredStack ==
  ASSUME NEW old \in Stack, NEW s \in Stack, NEW bad \in SUBSET Resources
  PROVE  /\ Restored(old, s, bad) \in Stack
         /\ Restored(old, s, bad).name = old.name
         /\ Restored(old, s, bad).template = old.template
         /\ Restored(old, s, bad).resources = old.resources
         /\ Restored(old, s, bad).status = "UPDATE_ROLLBACK_COMPLETE"
         /\ Restored(old, s, bad).past # "sound"
         /\ old.past = "created over" => Restored(old, s, bad).past = "created over"
<1>1. Deleted(s, Added(old, s), bad).live \subseteq Resources
  BY DeletedStack DEF Stack
<1>2. /\ Past(old, "restored") \in {"undone", "restored", "created over"}
      /\ old.past = "created over" => Past(old, "restored") = "created over"
  BY PastOf
<1> QED  BY <1>1, <1>2 DEF Restored, Stack, Statuses

LEMMA UpdateKeeps ==
  ASSUME StacksInv, NEW i \in DOMAIN stacks, NEW t \in Templates, UpdateStack(i, t)
  PROVE  StacksInv' /\ Changes
<1>1. stacks[i] \in Stack /\ Exists(stacks[i])
  BY DEF StacksInv, TypeOK, UpdateStack, Exists
<1>2. PICK bad \in Failing(Replaced(stacks[i], t) \cap stacks[i].live) :
        \E o \in Outcomes(UpdateBase(stacks[i], t, bad), t) :
          LET d == Deployed(UpdateBase(stacks[i], t, bad), t, o) IN
          \E worse \in Failing(IF o.ok THEN {} ELSE Added(stacks[i], d)) :
            /\ stacks' = [stacks EXCEPT ![i] = IF o.ok THEN Complete(d, "UPDATE_COMPLETE")
                                                       ELSE Restored(stacks[i], d, worse)]
            /\ Fail(o.ok, bad \cup worse)
            /\ exports' = exports \cup o.exported
  BY DEF UpdateStack
<1>3. bad \subseteq Resources
  BY <1>1 DEF Failing, Stack
<1>4. PICK s \in Stack :
        /\ s = UpdateBase(stacks[i], t, bad)
        /\ s.name = stacks[i].name /\ s.past = stacks[i].past
        /\ s.resources = stacks[i].resources \ Replaced(stacks[i], t)
        /\ s.live = stacks[i].live \ (Replaced(stacks[i], t) \ bad)
        /\ stacks[i].resources \subseteq stacks[i].template.defs => s.resources \subseteq t.defs
  <2>1. /\ UpdateBase(stacks[i], t, bad) \in Stack
        /\ UpdateBase(stacks[i], t, bad).name = stacks[i].name
        /\ UpdateBase(stacks[i], t, bad).past = stacks[i].past
        /\ UpdateBase(stacks[i], t, bad).resources = stacks[i].resources \ Replaced(stacks[i], t)
        /\ UpdateBase(stacks[i], t, bad).live = stacks[i].live \ (Replaced(stacks[i], t) \ bad)
        /\ stacks[i].resources \subseteq stacks[i].template.defs
             => stacks[i].resources \ Replaced(stacks[i], t) \subseteq t.defs
    BY <1>1, <1>3, UpdateBaseStack
  <2> QED  BY <2>1
<1>5. PICK o \in Outcomes(s, t) :
        LET d == Deployed(s, t, o) IN
        \E worse \in Failing(IF o.ok THEN {} ELSE Added(stacks[i], d)) :
          /\ stacks' = [stacks EXCEPT ![i] = IF o.ok THEN Complete(d, "UPDATE_COMPLETE")
                                                     ELSE Restored(stacks[i], d, worse)]
          /\ Fail(o.ok, bad \cup worse)
          /\ exports' = exports \cup o.exported
  BY <1>2, <1>4
<1>6. /\ o.ok \in BOOLEAN /\ o.made \subseteq t.defs /\ ImportsOf(o.made) \subseteq exports
      /\ t.defs \subseteq Resources
  BY OutcomeOf
<1>7. PICK d \in Stack :
        /\ d = Deployed(s, t, o) /\ d.template = t /\ d.resources = s.resources \cup o.made
        /\ d.live = s.live \cup o.made /\ d.name = s.name /\ d.past = s.past
  <2>1. /\ Deployed(s, t, o) \in Stack /\ Deployed(s, t, o).template = t
        /\ Deployed(s, t, o).resources = s.resources \cup o.made
        /\ Deployed(s, t, o).live = s.live \cup o.made
        /\ Deployed(s, t, o).name = s.name /\ Deployed(s, t, o).past = s.past
    BY DeployedStack
  <2> QED  BY <2>1
<1>8. PICK worse \in Failing(IF o.ok THEN {} ELSE Added(stacks[i], d)) :
        /\ stacks' = [stacks EXCEPT ![i] = IF o.ok THEN Complete(d, "UPDATE_COMPLETE")
                                                   ELSE Restored(stacks[i], d, worse)]
        /\ Fail(o.ok, bad \cup worse)
        /\ exports' = exports \cup o.exported
  BY <1>5, <1>7
<1>9. worse \subseteq Resources
  <2>1. Added(stacks[i], d) \subseteq Resources
    BY DEF Added, Stack
  <2> QED  BY <2>1 DEF Failing
<1>10. exports \subseteq exports' /\ exports' \subseteq ExportNames
  BY <1>8, OutcomeTyped DEF StacksInv
<1>11. /\ failures' \in [deployment : Nat, deletion : Nat] /\ Spent' <= Budget
       /\ failures'.deletion = 0 => failures.deletion = 0 /\ bad = {}
  <2>1. bad \cup worse \subseteq Resources
    BY <1>3, <1>9
  <2>2. /\ failures' \in [deployment : Nat, deletion : Nat] /\ Spent' <= Budget
        /\ failures'.deletion = 0 => failures.deletion = 0 /\ bad \cup worse = {}
    BY <1>6, <1>8, <2>1, FailTyped DEF StacksInv
  <2> QED  BY <2>2
<1>12. /\ stacks'[i] = (IF o.ok THEN Complete(d, "UPDATE_COMPLETE") ELSE Restored(stacks[i], d, worse))
       /\ stacks' = [stacks EXCEPT ![i] = stacks'[i]]
  BY <1>8 DEF StacksInv, TypeOK
<1>13. changeSets' \subseteq changeSets /\ made' = made
  BY DEF UpdateStack
<1>14. CASE o.ok
  <2>1. stacks'[i] = [d EXCEPT !.status = "UPDATE_COMPLETE"]
    BY <1>12, <1>14 DEF Complete
  <2>2. /\ stacks'[i] \in Stack /\ stacks'[i].name = stacks[i].name /\ stacks'[i].template = t
        /\ stacks'[i].resources = s.resources \cup o.made /\ stacks'[i].live = s.live \cup o.made
        /\ stacks'[i].past = stacks[i].past
    BY <2>1, <1>4, <1>7 DEF Stack, Statuses
  <2>3. ListsLive(stacks[i]) /\ ListsOwn(stacks[i])
    BY DEF StacksInv
  <2>4. ListsLive(stacks[i])'
    BY <2>2, <2>3, <1>4, <1>11 DEF ListsLive
  <2>5. ListsOwn(stacks[i])'
    BY <2>2, <2>3, <1>4, <1>6 DEF ListsOwn
  <2>6. ASSUME t.spelled, stacks[i].past # "created over", Resolves(stacks[i])
        PROVE  ImportsOf(s.resources \cup o.made) \subseteq exports
    <3>1. s.resources \subseteq stacks[i].resources /\ s.resources \subseteq t.defs
      BY <2>3, <2>6, <1>4 DEF ListsOwn
    <3>2. ImportsOf(s.resources) \subseteq exports
      BY <3>1, <2>6, <1>1, KeptResolve
    <3> QED  BY <3>2, <1>6, ImportsSplit
  <2>7. Resolves(stacks[i]) => Resolves(stacks[i])'
    <3> SUFFICES ASSUME Resolves(stacks[i]) PROVE Resolves(stacks[i])'
      OBVIOUS
    <3>1. t.spelled /\ stacks[i].past # "created over" => ImportsOf(s.resources \cup o.made) \subseteq exports
      BY <2>6
    <3> QED  BY <2>2, <3>1, <1>10 DEF Resolves
  <2> QED  BY <2>2, <2>4, <2>5, <2>7, <1>1, <1>10, <1>11, <1>12, <1>13, Replace
<1>15. CASE ~o.ok
  <2>1. stacks'[i] = Restored(stacks[i], d, worse)
    BY <1>12, <1>15
  <2>2. /\ stacks'[i] \in Stack /\ stacks'[i].name = stacks[i].name
        /\ stacks'[i].template = stacks[i].template
        /\ stacks'[i].resources = stacks[i].resources /\ stacks'[i].past # "sound"
        /\ stacks[i].past = "created over" => stacks'[i].past = "created over"
    <3>1. PICK old \in Stack : old = stacks[i]
      BY <1>1
    <3>2. worse \in SUBSET Resources
      BY <1>9
    <3>3. /\ Restored(old, d, worse) \in Stack
          /\ Restored(old, d, worse).name = old.name
          /\ Restored(old, d, worse).template = old.template
          /\ Restored(old, d, worse).resources = old.resources
          /\ Restored(old, d, worse).status = "UPDATE_ROLLBACK_COMPLETE"
          /\ Restored(old, d, worse).past # "sound"
          /\ old.past = "created over" => Restored(old, d, worse).past = "created over"
      BY <3>2, RestoredStack
    <3> QED  BY <2>1, <3>1, <3>3
  <2>3. ListsOwn(stacks[i])
    BY DEF StacksInv
  <2>4. ListsLive(stacks[i])' /\ ListsOwn(stacks[i])'
    <3>1. ListsLive(stacks[i])'
      BY <2>2 DEF ListsLive
    <3>2. stacks'[i].past # "created over" => stacks[i].resources \subseteq stacks[i].template.defs
      BY <2>2, <2>3 DEF ListsOwn
    <3>3. ListsOwn(stacks[i])'
      BY <2>2, <3>2 DEF ListsOwn
    <3> QED  BY <3>1, <3>3
  <2>5. Resolves(stacks[i]) => Resolves(stacks[i])'
    <3> SUFFICES ASSUME Resolves(stacks[i]) PROVE Resolves(stacks[i])'
      OBVIOUS
    <3>1. Exists(stacks[i])
      BY <1>1
    <3>2. ASSUME stacks[i].template.spelled, stacks'[i].past # "created over"
          PROVE  ImportsOf(stacks[i].resources) \subseteq exports
      BY <2>2, <3>1, <3>2 DEF Resolves
    <3> QED  BY <2>2, <3>2, <1>10 DEF Resolves
  <2> QED  BY <2>2, <2>4, <2>5, <1>1, <1>10, <1>11, <1>12, <1>13, Replace
<1> QED  BY <1>6, <1>14, <1>15

-----------------------------------------------------------------------------
(* Deletion, the step that takes exports away: no stack that exists mentions them unless it
   has the name that was given, and what a stack lists is imported under names that its
   template mentions. *)
LEMMA UnusedResolve ==
  ASSUME StacksInv, NEW i \in DOMAIN stacks, NEW byName \in BOOLEAN, ~InUse(i, byName),
         NEW j \in DOMAIN stacks \ {i}, ~(byName /\ stacks[j].name = stacks[i].name),
         Exists(stacks[j]), Resolves(stacks[j]),
         stacks[j].template.spelled, stacks[j].past # "created over"
  PROVE  ImportsOf(stacks[j].resources) \subseteq exports \ stacks[i].exports
<1>1. Mentions(stacks[j].template) \cap stacks[i].exports = {}
  BY DEF InUse, Exists
<1>2. ImportsOf(stacks[j].resources) \subseteq exports
  BY DEF Resolves
<1>3. ImportsOf(stacks[j].resources) \subseteq ImportsOf(stacks[j].template.defs)
  <2>1. stacks[j].resources \subseteq stacks[j].template.defs
    BY DEF StacksInv, ListsOwn
  <2> QED  BY <2>1 DEF ImportsOf
<1>4. ImportsOf(stacks[j].template.defs) \subseteq Mentions(stacks[j].template)
  BY DEF Mentions
<1> QED  BY <1>1, <1>2, <1>3, <1>4

LEMMA DeleteKeeps ==
  ASSUME StacksInv, NEW i \in DOMAIN stacks, NEW byName \in BOOLEAN, DeleteStack(i, byName)
  PROVE  StacksInv' /\ Changes
<1>1. PICK s \in Stack : s = stacks[i]
  BY IsStack
<1>2. PICK bad \in Failing((s.resources \ Retained) \cap s.live) :
        /\ stacks' = [stacks EXCEPT ![i] =
             [Deleted(stacks[i], stacks[i].resources \ Retained, bad)
                EXCEPT !.status = "DELETE_COMPLETE", !.past = Past(stacks[i], "undone")]]
        /\ Fail(TRUE, bad)
  BY <1>1 DEF DeleteStack
<1>3. bad \subseteq Resources
  BY <1>1 DEF Failing, Stack
<1>4. PICK d \in Stack :
        /\ d = Deleted(s, s.resources \ Retained, bad)
        /\ d = [s EXCEPT !.live = s.live \ ((s.resources \ Retained) \ bad)]
  <2>1. /\ Deleted(s, s.resources \ Retained, bad) \in Stack
        /\ Deleted(s, s.resources \ Retained, bad)
             = [s EXCEPT !.live = s.live \ ((s.resources \ Retained) \ bad)]
    BY DeletedStack
  <2> QED  BY <2>1
<1>5. /\ Past(s, "undone") \in {"undone", "restored", "created over"}
      /\ s.past = "created over" => Past(s, "undone") = "created over"
      /\ s.past # "created over" => Past(s, "undone") # "created over"
  BY PastOf
<1>6. PICK r \in Stack :
        /\ r = [d EXCEPT !.status = "DELETE_COMPLETE", !.past = Past(s, "undone")]
        /\ r.name = s.name /\ r.resources = s.resources /\ r.template = s.template
        /\ ~Exists(r) /\ r.status = "DELETE_COMPLETE" /\ r.past # "sound"
        /\ s.past = "created over" => r.past = "created over"
  <2> DEFINE e == [d EXCEPT !.status = "DELETE_COMPLETE", !.past = Past(s, "undone")]
  <2>1. e \in Stack
    BY <1>5 DEF Stack, Statuses
  <2>2. e.status = "DELETE_COMPLETE" /\ e.past = Past(s, "undone")
    BY DEF Stack
  <2>3. e.name = s.name /\ e.resources = s.resources /\ e.template = s.template
    BY <1>4 DEF Stack
  <2>4. e = [d EXCEPT !.status = "DELETE_COMPLETE", !.past = Past(s, "undone")]
    OBVIOUS
  <2> HIDE DEF e
  <2> QED  BY <2>1, <2>2, <2>3, <2>4, <1>5 DEF Exists
<1>7. stacks \in Seq(Stack)
  BY DEF StacksInv, TypeOK
<1>8. stacks' = [stacks EXCEPT ![i] = r]
  BY <1>1, <1>2, <1>4, <1>6
<1>9. /\ stacks' \in Seq(Stack) /\ DOMAIN stacks' = DOMAIN stacks /\ stacks'[i] = r
      /\ Len(stacks') = Len(stacks)
      /\ \A j \in DOMAIN stacks \ {i} : stacks'[j] = stacks[j]
  BY <1>7, <1>8, ExceptSeq
<1>10. /\ failures' \in [deployment : Nat, deletion : Nat] /\ Spent' <= Budget
       /\ failures'.deletion = 0 => failures.deletion = 0
  BY <1>2, <1>3, FailTyped DEF StacksInv
<1>11. TypeOK'
  <2>1. exports' \subseteq ExportNames /\ changeSets' = changeSets /\ made' = made
    BY DEF DeleteStack, StacksInv, TypeOK
  <2> QED  BY <2>1, <1>9, <1>10 DEF TypeOK, StacksInv
<1>12. ASSUME NEW j \in DOMAIN stacks'
       PROVE  ListsLive(stacks[j])' /\ ListsOwn(stacks[j])' /\ StillResolves(j) /\ ComesRightly(j)
  <2>1. CASE j = i
    <3>1. ListsOwn(s)
      BY <1>1 DEF StacksInv
    <3>2. stacks'[j] = r
      BY <1>9, <2>1
    <3>3. ListsLive(stacks[j])'
      BY <3>2, <1>6 DEF ListsLive
    <3>4. ListsOwn(stacks[j])'
      BY <3>1, <3>2, <1>6 DEF ListsOwn
    <3>5. Resolves(stacks[j])'
      BY <3>2, <1>6 DEF Resolves, Exists
    <3>6. ComesRightly(j)
      BY <3>2, <1>6 DEF ComesRightly
    <3> QED  BY <3>3, <3>4, <3>5, <3>6 DEF StillResolves
  <2>2. CASE j # i
    <3>1. j \in DOMAIN stacks \ {i} /\ stacks'[j] = stacks[j]
      BY <1>9, <2>2
    <3>2. ListsLive(stacks[j]) /\ ListsOwn(stacks[j])
      BY <3>1 DEF StacksInv
    <3>3. ListsLive(stacks[j])'
      BY <3>1, <3>2, <1>10 DEF ListsLive
    <3>4. ListsOwn(stacks[j])'
      BY <3>1, <3>2 DEF ListsOwn
    <3>5. /\ byName => i = GetStack(stacks[i].name)
          /\ ~InUse(i, byName)
          /\ exports' = exports \ stacks[i].exports
      BY DEF DeleteStack
    <3>6. ASSUME Resolves(stacks[j]), ~Resolves(stacks[j])'
          PROVE  ByNamesake(j)
      <4>1. /\ Exists(stacks[j]) /\ stacks[j].template.spelled /\ stacks[j].past # "created over"
            /\ ~(ImportsOf(stacks[j].resources) \subseteq exports')
        BY <3>1, <3>6 DEF Resolves, Exists
      <4>2. byName /\ stacks[j].name = stacks[i].name
        BY <3>1, <3>5, <3>6, <4>1, UnusedResolve
      <4>3. i = GetStack(stacks'[j].name)
        BY <3>1, <3>5, <4>2
      <4>4. j \in Undeleted(stacks'[j].name)
        BY <3>1, <4>1 DEF Undeleted, Named, Exists
      <4> QED  BY <2>2, <4>3, <4>4, <1>6, <1>9 DEF ByNamesake
    <3>7. StillResolves(j)
      BY <3>1, <3>6 DEF StillResolves
    <3>8. ComesRightly(j)
      BY <3>1 DEF ComesRightly
    <3> QED  BY <3>3, <3>4, <3>7, <3>8
  <2> QED  BY <2>1, <2>2
<1>13. NamesStay
  BY <1>1, <1>6, <1>9 DEF NamesStay
<1> QED  BY <1>11, <1>12, <1>13 DEF StacksInv, Changes

-----------------------------------------------------------------------------
(* Change sets. *)

(* A step that changes no stack, and takes no export away. *)
LEMMA SameStacks ==
  ASSUME StacksInv, stacks' = stacks, exports' = exports, failures' = failures,
         changeSets' \subseteq [set : ChangeSets, stack : 0..Len(stacks)], made' \in 0..MaxChangeSets
  PROVE  StacksInv' /\ Changes
<1>1. TypeOK'
  BY DEF StacksInv, TypeOK, Spent
<1>2. \A j \in DOMAIN stacks' :
        ListsLive(stacks[j])' /\ ListsOwn(stacks[j])' /\ StillResolves(j) /\ ComesRightly(j)
  BY OthersKeep
<1>3. NamesStay
  BY DEF NamesStay
<1> QED  BY <1>1, <1>2, <1>3 DEF StacksInv, Changes

LEMMA CreateChangeSetKeeps ==
  ASSUME StacksInv, NEW c \in ChangeSets, NEW k \in {0} \cup DOMAIN stacks, CreateChangeSet(c, k)
  PROVE  StacksInv' /\ Changes
<1>1. /\ exports' = exports /\ failures' = failures
      /\ exports' \subseteq ExportNames /\ failures' \in [deployment : Nat, deletion : Nat]
      /\ made' \in 0..MaxChangeSets
  BY StacksAssumption DEF CreateChangeSet, StacksInv, TypeOK
<1> DEFINE Sets == [set : ChangeSets, stack : 0..Len(stacks)]
<1>2. changeSets' \subseteq Sets
  <2>1. k \in 0..Len(stacks)
    BY DEF StacksInv, TypeOK
  <2>2. [set |-> c, stack |-> k] \in Sets
    BY <2>1
  <2>3. changeSets \subseteq Sets /\ changeSets' = changeSets \cup {[set |-> c, stack |-> k]}
    BY DEF CreateChangeSet, StacksInv, TypeOK
  <2> QED  BY <2>2, <2>3
<1>3. CASE stacks' = stacks
  BY <1>1, <1>2, <1>3, SameStacks
<1>4. ASSUME stacks' # stacks
      PROVE  StacksInv' /\ Changes
  <2>1. /\ stacks' = Append(stacks, NewStack(c.name, c.template))
        /\ Named(c.name) = {} /\ Spent < Budget
    BY <1>4 DEF CreateChangeSet
  <2>2. c.name \in Names /\ c.template \in Templates
    BY StacksAssumption
  <2>3. PICK s \in Stack :
          /\ s = NewStack(c.name, c.template) /\ s.name = c.name /\ s.resources = {} /\ s.live = {}
    <3>1. NewStack(c.name, c.template) \in Stack
      BY <2>2 DEF NewStack, Stack, Statuses
    <3> QED  BY <3>1 DEF NewStack
  <2>4. Alone(s.name)
    BY <2>1, <2>3 DEF Alone, Named
  <2>5. Spent' <= Budget
    <3>1. Len(stacks') = Len(stacks) + 1 /\ Len(stacks) \in Nat
      BY <2>1, <2>3 DEF StacksInv, TypeOK
    <3>2. failures.deployment \in Nat /\ failures.deletion \in Nat /\ Budget \in Nat
      BY StacksAssumption DEF StacksInv, TypeOK
    <3> QED  BY <3>1, <3>2, <2>1, <1>1 DEF Spent
  <2>6. ASSUME NEW i \in DOMAIN stacks', stacks'[i] = s
        PROVE  ListsLive(stacks[i])' /\ ListsOwn(stacks[i])' /\ Resolves(stacks[i])'
    BY <2>3, <2>6 DEF ListsLive, ListsOwn, Resolves, ImportsOf
  <2>7. stacks' = Append(stacks, s)
    BY <2>1, <2>3
  <2> QED  BY <1>1, <1>2, <2>4, <2>5, <2>6, <2>7, AppendOne
<1> QED  BY <1>3, <1>4

LEMMA DeleteChangeSetKeeps ==
  ASSUME StacksInv, NEW e \in changeSets, DeleteChangeSet(e)
  PROVE  StacksInv' /\ Changes
<1>1. changeSets' \subseteq [set : ChangeSets, stack : 0..Len(stacks)] /\ made' \in 0..MaxChangeSets
  BY DEF DeleteChangeSet, StacksInv, TypeOK
<1> QED  BY <1>1, SameStacks DEF DeleteChangeSet

(* The stack that a change set finds exists, or is alone, or was named by its ARN. *)
LEMMA TargetOf ==
  ASSUME StacksInv, NEW e \in changeSets, ExecuteChangeSet(e)
  PROVE  /\ Target(e) \in DOMAIN stacks
         /\ Exists(stacks[Target(e)]) \/ Alone(stacks[Target(e)].name) \/ ByArn(Target(e))
<1>1. e.set \in ChangeSets /\ e.stack \in 0..Len(stacks) /\ DOMAIN stacks = 1..Len(stacks)
      /\ Len(stacks) \in Nat
  BY DEF StacksInv, TypeOK
<1>2. CASE e.stack # 0
  <2>1. Target(e) = e.stack
    BY <1>2 DEF Target
  <2>2. e \in changeSets \ changeSets'
    BY DEF ExecuteChangeSet
  <2> QED  BY <1>1, <1>2, <2>1, <2>2 DEF ByArn
<1>3. CASE e.stack = 0
  <2>1. Target(e) = GetStack(e.set.name) /\ Target(e) # 0 /\ e.set.name \in Names
    BY <1>1, <1>3, StacksAssumption DEF Target, ExecuteChangeSet
  <2> QED  BY <2>1, Found
<1> QED  BY <1>2, <1>3

(* Creating over a stack: unless it is marked so, it lists only what was made of the new
   template. *)
LEMMA ExecuteCreateKeeps ==
  ASSUME StacksInv, NEW i \in DOMAIN stacks,
         Exists(stacks[i]) \/ Alone(stacks[i].name) \/ ByArn(i),
         NEW t \in Templates, ExecuteCreate(i, t), changeSets' \subseteq changeSets, made' = made
  PROVE  StacksInv' /\ Changes
<1> DEFINE over == IF stacks[i].resources = {} THEN stacks[i]
                   ELSE [stacks[i] EXCEPT !.past = "created over"]
<1>1. stacks[i] \in Stack
  BY IsStack
<1>2. PICK s \in Stack :
        /\ s = over /\ s.name = stacks[i].name /\ s.live = stacks[i].live
        /\ s.past # "created over" => s.resources = {} /\ s.past = stacks[i].past
  <2>1. CASE stacks[i].resources = {}
    BY <1>1, <2>1
  <2>2. CASE stacks[i].resources # {}
    <3>1. over \in Stack
      BY <1>1, <2>2 DEF Stack
    <3>2. over.name = stacks[i].name /\ over.live = stacks[i].live /\ over.past = "created over"
      BY <1>1, <2>2 DEF Stack
    <3> HIDE DEF over
    <3> QED  BY <3>1, <3>2
  <2> QED  BY <2>1, <2>2
<1>3. PICK o \in Outcomes(s, t) :
        LET d == Deployed(s, t, o) IN
        \E bad \in Failing(IF o.ok THEN {} ELSE d.resources \cap d.live) :
          /\ stacks' = [stacks EXCEPT ![i] = CreateEnd(d, o, bad)]
          /\ Fail(o.ok, bad)
          /\ exports' = exports \cup o.exported
  BY <1>2 DEF ExecuteCreate
<1> HIDE DEF over
<1>4. /\ o.ok \in BOOLEAN /\ o.made \subseteq t.defs /\ ImportsOf(o.made) \subseteq exports
  BY OutcomeOf
<1>5. PICK d \in Stack :
        /\ d = Deployed(s, t, o) /\ d.template = t /\ d.resources = s.resources \cup o.made
        /\ d.live = s.live \cup o.made /\ d.name = s.name /\ d.past = s.past
  <2>1. /\ Deployed(s, t, o) \in Stack /\ Deployed(s, t, o).template = t
        /\ Deployed(s, t, o).resources = s.resources \cup o.made
        /\ Deployed(s, t, o).live = s.live \cup o.made
        /\ Deployed(s, t, o).name = s.name /\ Deployed(s, t, o).past = s.past
    BY DeployedStack
  <2> QED  BY <2>1
<1>6. PICK bad \in Failing(IF o.ok THEN {} ELSE d.resources \cap d.live) :
        /\ stacks' = [stacks EXCEPT ![i] = CreateEnd(d, o, bad)]
        /\ Fail(o.ok, bad)
        /\ exports' = exports \cup o.exported
  BY <1>3, <1>5
<1>7. bad \in SUBSET Resources
  <2>1. d.resources \subseteq Resources
    BY DEF Stack
  <2> QED  BY <2>1 DEF Failing
<1>8. exports \subseteq exports' /\ exports' \subseteq ExportNames
  BY <1>6, OutcomeTyped DEF StacksInv
<1>9. /\ failures' \in [deployment : Nat, deletion : Nat] /\ Spent' <= Budget
      /\ failures'.deletion = 0 => failures.deletion = 0
  BY <1>4, <1>6, <1>7, FailTyped DEF StacksInv
<1>10. PICK r \in Stack :
         /\ r = CreateEnd(d, o, bad) /\ r.name = d.name /\ r.template = d.template
         /\ r.resources = d.resources
         /\ r.past # "created over" => d.past # "created over"
         /\ r.past = "sound" => d.past = "sound" /\ r.live = d.live
  <2>1. CASE o.ok
    <3>1. CreateEnd(d, o, bad) = [d EXCEPT !.status = "CREATE_COMPLETE"]
      BY <2>1 DEF CreateEnd, Complete
    <3>2. [d EXCEPT !.status = "CREATE_COMPLETE"] \in Stack
      BY DEF Stack, Statuses
    <3> QED  BY <3>1, <3>2 DEF Stack
  <2>2. CASE ~o.ok
    <3>1. CreateEnd(d, o, bad) = RolledBack(d, bad)
      BY <2>2 DEF CreateEnd
    <3>2. /\ RolledBack(d, bad) \in Stack
          /\ RolledBack(d, bad).name = d.name
          /\ RolledBack(d, bad).template = d.template
          /\ RolledBack(d, bad).resources = d.resources
          /\ RolledBack(d, bad).past \in {"undone", "restored", "created over"}
          /\ d.past = "created over" => RolledBack(d, bad).past = "created over"
          /\ d.past # "created over" => RolledBack(d, bad).past # "created over"
      BY <1>7, RolledBackStack
    <3> QED  BY <3>1, <3>2
  <2> QED  BY <2>1, <2>2
<1>11. stacks' = [stacks EXCEPT ![i] = r] /\ stacks'[i] = r
  BY <1>6, <1>10 DEF StacksInv, TypeOK
<1>12. ListsLive(stacks[i])
  BY DEF StacksInv
<1>13. ListsLive(stacks[i])'
  <2>1. ASSUME r.past = "sound"
        PROVE  /\ r.resources = o.made /\ r.live = stacks[i].live \cup o.made
               /\ stacks[i].past = "sound" /\ stacks[i].resources = {}
    <3>1. s.past = "sound" /\ r.live = d.live
      BY <2>1, <1>5, <1>10
    <3>2. s.resources = {} /\ s.past = stacks[i].past
      BY <3>1, <1>2
    <3>3. stacks[i].resources = {}
      BY <1>1, <3>1, <1>2 DEF over, Stack
    <3> QED  BY <3>1, <3>2, <3>3, <1>2, <1>5, <1>10
  <2>2. ASSUME r.past = "sound", failures'.deletion = 0
        PROVE  r.live \subseteq r.resources
    BY <2>1, <2>2, <1>9, <1>12 DEF ListsLive
  <2> QED  BY <2>1, <2>2, <1>11 DEF ListsLive
<1>14. r.past # "created over" => r.resources = o.made
  BY <1>2, <1>5, <1>10
<1>15. ListsOwn(stacks[i])'
  BY <1>4, <1>5, <1>10, <1>11, <1>14 DEF ListsOwn
<1>16. Resolves(stacks[i])'
  BY <1>4, <1>8, <1>11, <1>14 DEF Resolves
<1>17. stacks' = [stacks EXCEPT ![i] = stacks'[i]] /\ stacks'[i] \in Stack /\ stacks'[i].name = stacks[i].name
  BY <1>2, <1>5, <1>10, <1>11
<1> QED  BY <1>8, <1>9, <1>13, <1>15, <1>16, <1>17, Replace

(* Updating through a change set: what is listed is what was made, also when it failed. *)
LEMMA ExecuteUpdateKeeps ==
  ASSUME StacksInv, NEW i \in DOMAIN stacks,
         Exists(stacks[i]) \/ Alone(stacks[i].name) \/ ByArn(i),
         NEW t \in Templates, ExecuteUpdate(i, t), changeSets' \subseteq changeSets, made' = made
  PROVE  StacksInv' /\ Changes
<1>1. PICK old \in Stack : old = stacks[i]
  BY IsStack
<1>2. PICK bad \in Failing(old.resources \cap old.live) :
        LET s == [Deleted(old, old.resources, bad) EXCEPT !.resources = {}] IN
        \E o \in Outcomes(s, t) :
          /\ stacks' = [stacks EXCEPT ![i] =
               Complete(Deployed(s, t, o), IF o.ok THEN "UPDATE_COMPLETE" ELSE "UPDATE_FAILED")]
          /\ Fail(o.ok, bad)
          /\ exports' = exports \cup o.exported
  BY <1>1 DEF ExecuteUpdate
<1>3. bad \in SUBSET Resources
  <2>1. old.resources \subseteq Resources
    BY DEF Stack
  <2> QED  BY <2>1 DEF Failing
<1>4. PICK s \in Stack :
        /\ s = [Deleted(old, old.resources, bad) EXCEPT !.resources = {}]
        /\ s.name = old.name /\ s.resources = {} /\ s.live = old.live \ (old.resources \ bad)
        /\ s.past = old.past
  <2>1. PICK d \in Stack :
          /\ d = Deleted(old, old.resources, bad)
          /\ d = [old EXCEPT !.live = old.live \ (old.resources \ bad)]
    <3>1. /\ Deleted(old, old.resources, bad) \in Stack
          /\ Deleted(old, old.resources, bad) = [old EXCEPT !.live = old.live \ (old.resources \ bad)]
      BY DeletedStack
    <3> QED  BY <3>1
  <2>2. /\ [d EXCEPT !.resources = {}] \in Stack
        /\ [d EXCEPT !.resources = {}].resources = {}
        /\ [d EXCEPT !.resources = {}].name = old.name
        /\ [d EXCEPT !.resources = {}].live = old.live \ (old.resources \ bad)
        /\ [d EXCEPT !.resources = {}].past = old.past
    BY <2>1 DEF Stack
  <2> QED  BY <2>1, <2>2
<1>5. PICK o \in Outcomes(s, t) :
        /\ stacks' = [stacks EXCEPT ![i] =
             Complete(Deployed(s, t, o), IF o.ok THEN "UPDATE_COMPLETE" ELSE "UPDATE_FAILED")]
        /\ Fail(o.ok, bad)
        /\ exports' = exports \cup o.exported
  BY <1>2, <1>4
<1>6. /\ o.ok \in BOOLEAN /\ o.made \subseteq t.defs /\ ImportsOf(o.made) \subseteq exports
  BY OutcomeOf
<1>7. PICK d \in Stack :
        /\ d = Deployed(s, t, o) /\ d.template = t /\ d.resources = s.resources \cup o.made
        /\ d.live = s.live \cup o.made /\ d.name = s.name /\ d.past = s.past
  <2>1. /\ Deployed(s, t, o) \in Stack /\ Deployed(s, t, o).template = t
        /\ Deployed(s, t, o).resources = s.resources \cup o.made
        /\ Deployed(s, t, o).live = s.live \cup o.made
        /\ Deployed(s, t, o).name = s.name /\ Deployed(s, t, o).past = s.past
    BY DeployedStack
  <2> QED  BY <2>1
<1>8. exports \subseteq exports' /\ exports' \subseteq ExportNames
  BY <1>5, OutcomeTyped DEF StacksInv
<1>9. /\ failures' \in [deployment : Nat, deletion : Nat] /\ Spent' <= Budget
      /\ failures'.deletion = 0 => failures.deletion = 0 /\ bad = {}
  BY <1>3, <1>5, <1>6, FailTyped DEF StacksInv
<1>10. PICK r \in Stack :
         /\ r = Complete(d, IF o.ok THEN "UPDATE_COMPLETE" ELSE "UPDATE_FAILED")
         /\ r.name = old.name /\ r.template = t /\ r.resources = o.made
         /\ r.live = (old.live \ (old.resources \ bad)) \cup o.made /\ r.past = old.past
  <2> DEFINE e == Complete(d, IF o.ok THEN "UPDATE_COMPLETE" ELSE "UPDATE_FAILED")
  <2>1. e \in Stack
    BY DEF Complete, Stack, Statuses
  <2>2. /\ e.name = old.name /\ e.template = t /\ e.resources = o.made
        /\ e.live = (old.live \ (old.resources \ bad)) \cup o.made /\ e.past = old.past
    BY <1>4, <1>7 DEF Complete, Stack
  <2>3. e = Complete(d, IF o.ok THEN "UPDATE_COMPLETE" ELSE "UPDATE_FAILED")
    OBVIOUS
  <2> HIDE DEF e
  <2> QED  BY <2>1, <2>2, <2>3
<1>11. stacks' = [stacks EXCEPT ![i] = stacks'[i]] /\ stacks'[i] = r
  BY <1>5, <1>7, <1>10 DEF StacksInv, TypeOK
<1>12. ListsLive(stacks[i])'
  <2>1. old.past = "sound" /\ failures.deletion = 0 => old.live \subseteq old.resources
    BY <1>1 DEF StacksInv, ListsLive
  <2>2. ASSUME r.past = "sound", failures'.deletion = 0
        PROVE  r.live \subseteq r.resources
    BY <2>1, <2>2, <1>9, <1>10
  <2> QED  BY <2>2, <1>10, <1>11 DEF ListsLive
<1>13. ListsOwn(stacks[i])'
  BY <1>6, <1>10, <1>11 DEF ListsOwn
<1>14. Resolves(stacks[i])'
  BY <1>6, <1>8, <1>10, <1>11 DEF Resolves
<1>15. stacks'[i] \in Stack /\ stacks'[i].name = stacks[i].name
  BY <1>1, <1>10, <1>11
<1> QED  BY <1>8, <1>9, <1>11, <1>12, <1>13, <1>14, <1>15, Replace

-----------------------------------------------------------------------------
LEMMA StacksInit == Init => StacksInv
<1> SUFFICES ASSUME Init PROVE StacksInv
  OBVIOUS
<1>1. stacks = <<>> /\ DOMAIN stacks = {} /\ Len(stacks) = 0
  BY DEF Init
<1>2. TypeOK
  BY <1>1, StacksAssumption DEF Init, TypeOK, Spent
<1> QED  BY <1>1, <1>2 DEF StacksInv

LEMMA StacksChange ==
  ASSUME StacksInv, [Next]_vars
  PROVE  StacksInv' /\ Changes
<1>1. CASE UNCHANGED vars
  <2>1. changeSets' \subseteq [set : ChangeSets, stack : 0..Len(stacks)] /\ made' \in 0..MaxChangeSets
    BY <1>1 DEF vars, StacksInv, TypeOK
  <2> QED  BY <2>1, <1>1, SameStacks DEF vars
<1>2. ASSUME NEW n \in Names, NEW t \in Templates, CreateStack(n, t)
      PROVE  StacksInv' /\ Changes
  BY <1>2, CreateKeeps
<1>3. ASSUME NEW i \in DOMAIN stacks, NEW t \in Templates, UpdateStack(i, t)
      PROVE  StacksInv' /\ Changes
  BY <1>3, UpdateKeeps
<1>4. ASSUME NEW i \in DOMAIN stacks, NEW byName \in BOOLEAN, DeleteStack(i, byName)
      PROVE  StacksInv' /\ Changes
  BY <1>4, DeleteKeeps
<1>5. ASSUME NEW c \in ChangeSets, NEW i \in {0} \cup DOMAIN stacks, CreateChangeSet(c, i)
      PROVE  StacksInv' /\ Changes
  BY <1>5, CreateChangeSetKeeps
<1>6. ASSUME NEW e \in changeSets, DeleteChangeSet(e)
      PROVE  StacksInv' /\ Changes
  BY <1>6, DeleteChangeSetKeeps
<1>7. ASSUME NEW e \in changeSets, ExecuteChangeSet(e)
      PROVE  StacksInv' /\ Changes
  <2>1. e.set.template \in Templates
    BY StacksAssumption DEF StacksInv, TypeOK
  <2>2. PICK i \in DOMAIN stacks :
          i = Target(e) /\ (Exists(stacks[i]) \/ Alone(stacks[i].name) \/ ByArn(i))
    BY <1>7, TargetOf
  <2>3. changeSets' \subseteq changeSets /\ made' = made
    BY <1>7 DEF ExecuteChangeSet
  <2>4. ExecuteCreate(i, e.set.template) \/ ExecuteUpdate(i, e.set.template)
    BY <1>7, <2>2 DEF ExecuteChangeSet
  <2> QED  BY <2>1, <2>2, <2>3, <2>4, ExecuteCreateKeeps, ExecuteUpdateKeeps
<1> QED  BY <1>1, <1>2, <1>3, <1>4, <1>5, <1>6, <1>7 DEF Next

(* StacksInv is inductive: it holds of every reachable state. *)
LEMMA StacksInvariant == Spec => []StacksInv
<1>1. StacksInv /\ [Next]_vars => StacksInv'
  BY StacksChange
<1> QED  BY <1>1, StacksInit, PTL DEF Spec

(* In every state the store holds stacks, exports and change sets of the templates, and
   no more stacks were created and steps failed than the budget allows. *)
THEOREM TypeCorrect == Spec => []TypeOK
<1>1. StacksInv => TypeOK
  BY DEF StacksInv
<1> QED  BY <1>1, StacksInvariant, PTL

(* While a stack of a name exists, no step brings another but the execution of a change set
   made for the ARN of that other. *)
THEOREM OnlyArnsRevive == Spec => SecondOnlyByArn
<1>1. ASSUME StacksInv, [Next]_vars, NEW n \in Names, NEW i \in Undeleted(n)' \ Undeleted(n),
             Undeleted(n) # {}
      PROVE  \E e \in changeSets \ changeSets' : e.stack = i
  <2>1. Changes
    BY <1>1, StacksChange
  <2>2. i \in DOMAIN stacks' /\ stacks'[i].name = n /\ Exists(stacks'[i])
    BY <1>1 DEF Undeleted, Named, Exists
  <2>3. ~(i \in DOMAIN stacks /\ Exists(stacks[i]))
    BY <1>1, <2>1, <2>2 DEF Changes, NamesStay, Undeleted, Named, Exists
  <2>4. ~Alone(n)
    BY <1>1 DEF Alone, Undeleted, Named, Exists
  <2> QED  BY <2>1, <2>2, <2>3, <2>4 DEF Changes, ComesRightly, ByArn
<1>2. StacksInv /\ [Next]_vars =>
        [\A n \in Names : \A i \in Undeleted(n)' \ Undeleted(n) :
           Undeleted(n) # {} => \E e \in changeSets \ changeSets' : e.stack = i]_vars
  BY <1>1
<1> QED  BY <1>2, StacksInvariant, PTL DEF Spec, SecondOnlyByArn

(* The resources that a stack lists exist, and are all of it that exist unless a deletion
   has failed, until it is rolled back, deleted or created over. *)
THEOREM ListedExist == Spec => []ListedLive
<1>1. StacksInv => ListedLive
  BY DEF StacksInv, ListsLive, ListedLive
<1> QED  BY <1>1, StacksInvariant, PTL

(* No step leaves a stack with an import that does not resolve, but the deletion by name of
   another stack of its name. *)
THEOREM ImportsKept == Spec => ImportsResolve
<1>1. ASSUME StacksInv, [Next]_vars, NEW i \in Unresolved' \ Unresolved
      PROVE  ByNamesake(i)
  <2>1. Changes
    BY <1>1, StacksChange
  <2>2. i \in DOMAIN stacks' /\ ~Resolves(stacks[i])'
    BY <1>1 DEF Unresolved, Resolves, Exists
  <2>3. i \in DOMAIN stacks => Resolves(stacks[i])
    BY <1>1 DEF Unresolved, Resolves, Exists
  <2> QED  BY <2>1, <2>2, <2>3 DEF Changes, StillResolves
<1>2. StacksInv /\ [Next]_vars =>
        [\A i \in Unresolved' \ Unresolved :
           /\ i \in Undeleted(stacks'[i].name)
           /\ LET j == GetStack(stacks'[i].name)
              IN j # i /\ stacks'[j].status = "DELETE_COMPLETE"]_vars
  BY <1>1 DEF ByNamesake
<1> QED  BY <1>2, StacksInvariant, PTL DEF Spec, ImportsResolve
=============================================================================
