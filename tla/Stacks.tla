------------------------------- MODULE Stacks -------------------------------
(* CloudFormation stacks: services/cloudformation/provider.py and the store and the
   deployment of engine.py, for one account and region.

   A handler does not await once it has read the request, so that each request to one
   server is one step (requests to the HTTP and the HTTPS server at the same time are
   left out): what it leaves behind when the deployment of a resource or of an output
   fails is the question. A resource stands for its definition in a template: a changed
   definition of the same logical id is another resource of the same Logical. Templates
   are well formed; parameters, conditions, references between resources and the values
   of outputs are abstracted, and the order in which resources are created is any.
   An update may repeat the template, with other parameters or tags. *)
EXTENDS Naturals, Sequences, FiniteSets, FiniteSetsExt

CONSTANTS
  Names,          \* stack names
  Resources, Logical, Imports, Retained, \* definitions, their logical ids, the exports
                  \* they import, and those whose DeletionPolicy is Retain
  Templates,      \* [defs, exports, spelled]: spelled if export names are written out,
                  \* as Fn::Sub is resolved at deployment only; a definition is the same
                  \* text in every template, and spells what it imports in all or none
  ChangeSets,     \* the change sets clients may create: [name, template, type], type
                  \* being "CREATE" or "UPDATE"
  Budget,         \* bound: stacks ever created and steps that fail, together
  MaxChangeSets   \* bound: change sets ever made

ASSUME StacksAssumption ==
  /\ Budget \in Nat /\ MaxChangeSets \in Nat /\ IsFiniteSet(Resources)
  /\ \A t \in Templates : t.defs \subseteq Resources /\ t.spelled \in BOOLEAN
  /\ \A t, u \in Templates : \A d \in t.defs \cap u.defs : Imports[d] # {} => t.spelled = u.spelled
  /\ \A c \in ChangeSets : c.name \in Names /\ c.template \in Templates

VARIABLES
  stacks,      \* CfnStore.stacks, in the order of their creation
  exports,     \* names in CfnStore.exports
  changeSets,  \* those of CfnStore.change_sets that are not executed: [set, stack], where
               \* stack is the one whose ARN was given for a name, or 0
  made,        \* how many change sets were ever made, for the bound
  failures     \* of deployments, and of deletions of a resource

vars == <<stacks, exports, changeSets, made, failures>>

Spent == Len(stacks) + failures.deployment + failures.deletion

Statuses == {"REVIEW_IN_PROGRESS", "CREATE_COMPLETE", "ROLLBACK_COMPLETE", "UPDATE_COMPLETE",
             "UPDATE_FAILED", "UPDATE_ROLLBACK_COMPLETE", "DELETE_COMPLETE"}
ExportNames == UNION {t.exports : t \in Templates}
Stack ==
  [name : Names, status : Statuses, template : Templates, resources : SUBSET Resources,
   exports : SUBSET ExportNames, live : SUBSET Resources,
   past : {"sound", "undone", "restored", "created over"}]

(* A stack's resources are those it lists, live those of its resources that exist.
   past is history: "undone" if a creation of it was rolled back or it was deleted,
   "restored" if one of its updates was rolled back before, "created over" if a change
   set has created it when it had resources. *)
TypeOK ==
  /\ stacks \in Seq(Stack)
  /\ exports \subseteq ExportNames
  /\ changeSets \subseteq [set : ChangeSets, stack : 0..Len(stacks)] /\ made \in 0..MaxChangeSets
  /\ failures \in [deployment : Nat, deletion : Nat] /\ Spent <= Budget

Init ==
  /\ stacks = <<>> /\ exports = {} /\ changeSets = {} /\ made = 0
  /\ failures = [deployment |-> 0, deletion |-> 0]

----------------------------------------------------------------------------
NewStack(n, t) ==
  [name |-> n, status |-> "REVIEW_IN_PROGRESS", template |-> t, resources |-> {},
   exports |-> {}, live |-> {}, past |-> "sound"]

Named(n) == {i \in DOMAIN stacks : stacks[i].name = n}
Undeleted(n) == {i \in Named(n) : stacks[i].status # "DELETE_COMPLETE"}

(* As GetStack, the first stack of the name even if deleted. *)
GetStack_First(n) == IF Named(n) # {} THEN Min(Named(n)) ELSE 0

(* get_stack by name: the stack that is not deleted, else the one deleted last. *)
GetStack(n) ==
  IF Undeleted(n) # {} THEN Min(Undeleted(n)) ELSE IF Named(n) # {} THEN Max(Named(n)) ELSE 0

ImportsOf(ds) == UNION {Imports[d] : d \in ds}

(* The deletion of resources, each of which may fail: failing is logged, and the
   stack goes on. bad are those that fail. *)
Deleted(s, ds, bad) == [s EXCEPT !.live = @ \ (ds \ bad)]

(* What _deploy_stack does with a template to a stack which lists resources already:
   it creates those whose logical id is not listed and registers the exports, unless
   one step fails. Imports are resolved in the exports there are before it begins. *)
Missing(s, t) == {d \in t.defs : \A o \in s.resources : Logical[o] # Logical[d]}

Outcomes(s, t) ==
  LET new == Missing(s, t)
      resolved == ImportsOf(new) \subseteq exports
      failed ==
        {[ok |-> FALSE, made |-> m, exported |-> {}] :
           m \in {n \in SUBSET new : ImportsOf(n) \subseteq exports}}
        \cup {[ok |-> FALSE, made |-> new, exported |-> e] :
                e \in IF resolved THEN SUBSET t.exports ELSE {}}
  IN (IF resolved THEN {[ok |-> TRUE, made |-> new, exported |-> t.exports]} ELSE {})
     \cup (IF Spent < Budget THEN failed ELSE {})

Deployed(s, t, o) ==
  [s EXCEPT !.template = t, !.resources = @ \cup o.made, !.live = @ \cup o.made,
            !.exports = @ \cup o.exported]

(* Which of the deletions of ds may fail within the bound. *)
Failing(ds) == {bad \in SUBSET ds : Spent + Cardinality(bad) <= Budget}

(* A step of the store in which bad deletions fail, and the deployment unless ok. *)
Fail(ok, bad) ==
  /\ failures' = [deployment |-> failures.deployment + (IF ok THEN 0 ELSE 1),
                  deletion |-> failures.deletion + Cardinality(bad)]
  /\ Spent' <= Budget

Past(s, p) == IF p # "created over" /\ s.past \in {"undone", "created over"} THEN s.past ELSE p

(* A deployment that fails is undone: the resources are deleted and stay listed,
   the exports stay. *)
RolledBack(s, bad) ==
  [Deleted(s, s.resources, bad) EXCEPT !.status = "ROLLBACK_COMPLETE", !.past = Past(s, "undone")]

Complete(s, status) == [s EXCEPT !.status = status]
CreateEnd(s, o, bad) == IF o.ok THEN Complete(s, "CREATE_COMPLETE") ELSE RolledBack(s, bad)

----------------------------------------------------------------------------
(* _create_stack: names written out in the template are checked before. *)
CreateStack(n, t) ==
  LET s == NewStack(n, t)
      i == GetStack(n)
  IN
  /\ Spent < Budget
  /\ i # 0 => stacks[i].status = "DELETE_COMPLETE"
  /\ t.spelled => t.exports \cap exports = {} /\ ImportsOf(t.defs) \subseteq exports
  /\ \E o \in Outcomes(s, t) : \E bad \in Failing(IF o.ok THEN {} ELSE o.made) :
       /\ stacks' = Append(stacks, CreateEnd(Deployed(s, t, o), o, bad))
       /\ Fail(o.ok, bad)
       /\ exports' = exports \cup o.exported
  /\ UNCHANGED <<changeSets, made>>

(* The old resources an update deletes: their definition in the stack's template is
   gone or changed, whether they are listed under that definition or an older one. *)
Replaced(s, t) ==
  {d \in s.resources : \E o \in s.template.defs : Logical[o] = Logical[d] /\ o \notin t.defs}

(* As UpdateBase, of replaced resources that stay listed. *)
UpdateBase_Lists(s, t, bad) == Deleted(s, Replaced(s, t), bad)

UpdateBase(s, t, bad) ==
  [Deleted(s, Replaced(s, t), bad) EXCEPT !.resources = @ \ Replaced(s, t)]

(* What an update that failed leaves: the stack as it was, listing resources that were
   deleted; new ones are deleted unless their logical id was listed before. *)
Added(old, s) == {d \in s.resources : \A o \in old.resources : Logical[o] # Logical[d]}
Restored(old, s, bad) ==
  [old EXCEPT !.live = Deleted(s, Added(old, s), bad).live,
              !.status = "UPDATE_ROLLBACK_COMPLETE", !.past = Past(old, "restored")]

UpdateStack(i, t) ==
  /\ stacks[i].status # "DELETE_COMPLETE"
  /\ \E bad \in Failing(Replaced(stacks[i], t) \cap stacks[i].live) :
       LET s == UpdateBase(stacks[i], t, bad) IN
       \E o \in Outcomes(s, t) :
         LET d == Deployed(s, t, o) IN
         \E worse \in Failing(IF o.ok THEN {} ELSE Added(stacks[i], d)) :
           /\ stacks' = [stacks EXCEPT ![i] = IF o.ok THEN Complete(d, "UPDATE_COMPLETE")
                                                      ELSE Restored(stacks[i], d, worse)]
           /\ Fail(o.ok, bad \cup worse)
           /\ exports' = exports \cup o.exported
  /\ UNCHANGED <<changeSets, made>>

(* Export names in the text of a template. *)
Mentions(t) == IF t.spelled THEN t.exports \cup ImportsOf(t.defs) ELSE {}

(* As InUse, of stacks which have not been updated. *)
InUse_Created(i, byName) ==
  \E j \in DOMAIN stacks :
    /\ ~(byName /\ stacks[j].name = stacks[i].name)
    /\ stacks[j].status = "CREATE_COMPLETE"
    /\ Mentions(stacks[j].template) \cap stacks[i].exports # {}

(* _check_import_references: another stack mentions an export of this one; under the
   stack's ARN the stack itself is another. *)
InUse(i, byName) ==
  \E j \in DOMAIN stacks :
    /\ ~(byName /\ stacks[j].name = stacks[i].name)
    /\ stacks[j].status # "DELETE_COMPLETE"
    /\ Mentions(stacks[j].template) \cap stacks[i].exports # {}

(* _delete_stack_action, of a deleted stack also: its resources and exports stay in its
   record. *)
DeleteStack(i, byName) ==
  /\ byName => i = GetStack(stacks[i].name)
  /\ ~InUse(i, byName)
  /\ \E bad \in Failing((stacks[i].resources \ Retained) \cap stacks[i].live) :
       /\ stacks' = [stacks EXCEPT ![i] =
            [Deleted(@, @.resources \ Retained, bad)
               EXCEPT !.status = "DELETE_COMPLETE", !.past = Past(stacks[i], "undone")]]
       /\ Fail(TRUE, bad)
  /\ exports' = exports \ stacks[i].exports
  /\ UNCHANGED <<changeSets, made>>

----------------------------------------------------------------------------
(* Change sets, of a stack's name or of its ARN, which is kept as it was given. One that
   creates a stack makes an empty stack of the name. *)
CreateChangeSet(c, i) ==
  /\ i # 0 => stacks[i].name = c.name
  /\ made < MaxChangeSets /\ made' = made + 1
  /\ changeSets' = changeSets \cup {[set |-> c, stack |-> i]}
  /\ IF i = 0 /\ Named(c.name) = {} /\ c.type = "CREATE"
     THEN Spent < Budget /\ stacks' = Append(stacks, NewStack(c.name, c.template))
     ELSE UNCHANGED stacks
  /\ UNCHANGED <<exports, failures>>

DeleteChangeSet(e) ==
  /\ changeSets' = changeSets \ {e}
  /\ UNCHANGED <<stacks, exports, made, failures>>

(* A change set of type CREATE creates over whatever stack it finds. *)
ExecuteCreate(i, t) ==
  LET s == IF stacks[i].resources = {} THEN stacks[i]
           ELSE [stacks[i] EXCEPT !.past = "created over"]
  IN \E o \in Outcomes(s, t) :
       LET d == Deployed(s, t, o) IN
       \E bad \in Failing(IF o.ok THEN {} ELSE d.resources \cap d.live) :
         /\ stacks' = [stacks EXCEPT ![i] = CreateEnd(d, o, bad)]
         /\ Fail(o.ok, bad)
         /\ exports' = exports \cup o.exported

(* One of type UPDATE deletes all resources first. *)
ExecuteUpdate(i, t) ==
  \E bad \in Failing(stacks[i].resources \cap stacks[i].live) :
    LET s == [Deleted(stacks[i], stacks[i].resources, bad) EXCEPT !.resources = {}] IN
    \E o \in Outcomes(s, t) :
      /\ stacks' = [stacks EXCEPT ![i] =
           Complete(Deployed(s, t, o), IF o.ok THEN "UPDATE_COMPLETE" ELSE "UPDATE_FAILED")]
      /\ Fail(o.ok, bad)
      /\ exports' = exports \cup o.exported

(* get_stack of what a change set was made for: an ARN finds its stack although it was
   deleted and there is another of its name. *)
Target(e) == IF e.stack # 0 THEN e.stack ELSE GetStack(e.set.name)

(* Whatever the status of the stack. Afterwards the change set is not executed again. *)
ExecuteChangeSet(e) ==
  /\ Target(e) # 0
  /\ IF e.set.type = "CREATE" THEN ExecuteCreate(Target(e), e.set.template)
                              ELSE ExecuteUpdate(Target(e), e.set.template)
  /\ changeSets' = changeSets \ {e}
  /\ UNCHANGED made

Next ==
  \/ \E n \in Names, t \in Templates : CreateStack(n, t)
  \/ \E i \in DOMAIN stacks, t \in Templates : UpdateStack(i, t)
  \/ \E i \in DOMAIN stacks, byName \in BOOLEAN : DeleteStack(i, byName)
  \/ \E c \in ChangeSets, i \in {0} \cup DOMAIN stacks : CreateChangeSet(c, i)
  \/ \E e \in changeSets : DeleteChangeSet(e) \/ ExecuteChangeSet(e)

Spec == Init /\ [][Next]_vars

----------------------------------------------------------------------------
(* Stacks that exist with an import that does not resolve, under a name that the template
   spells out. A stack over which a change set has created another template keeps
   resources its template does not mention, and is left out. *)
Unresolved ==
  {i \in DOMAIN stacks :
     /\ stacks[i].status # "DELETE_COMPLETE" /\ stacks[i].past # "created over"
     /\ stacks[i].template.spelled
     /\ ~(ImportsOf(stacks[i].resources) \subseteq exports)}

(* No step leaves a stack with an import that does not resolve: not when its exporter is
   updated, rolled back, deleted, replaced or brought back through a change set, nor when
   it is itself. The code lets one step do so, as _check_import_references passes over
   stacks of the name it is given: while two stacks have the name, deleting by name the
   one that the name finds takes its exports from the other. *)
ImportsResolve ==
  [][\A i \in Unresolved' \ Unresolved :
       /\ i \in Undeleted(stacks'[i].name)
       /\ LET j == GetStack(stacks'[i].name)
          IN j # i /\ stacks'[j].status = "DELETE_COMPLETE"]_vars

(* The resources a stack lists exist, and are all of it that exist unless a deletion has
   failed, until the stack is rolled back, deleted or created over: through updates and
   change sets, those that fail part way among them. *)
ListedLive ==
  \A i \in DOMAIN stacks :
    stacks[i].past = "sound"
      => /\ stacks[i].resources \subseteq stacks[i].live
         /\ failures.deletion = 0 => stacks[i].live \subseteq stacks[i].resources

(* While a stack of a name exists, one way only brings another: executing a change set that
   was made for the ARN of that other, deleted since. Creating stacks and change sets,
   and executing those made for a name, never does, whatever was deleted between. *)
SecondOnlyByArn ==
  [][\A n \in Names : \A i \in Undeleted(n)' \ Undeleted(n) :
       Undeleted(n) # {} => \E e \in changeSets \ changeSets' : e.stack = i]_vars

(* No two stacks of a name exist at a time: what get_stack takes for granted, and what
   such a change set breaks. *)
OneUndeleted == \A n \in Names : Cardinality(Undeleted(n)) <= 1

(* "Rollback: restore old state" (provider.py:777): the resources listed by a stack whose
   update was rolled back exist. *)
RollbackRestores ==
  \A i \in DOMAIN stacks :
    stacks[i].past = "restored" /\ stacks[i].status = "UPDATE_ROLLBACK_COMPLETE"
      => stacks[i].resources \subseteq stacks[i].live
=============================================================================
