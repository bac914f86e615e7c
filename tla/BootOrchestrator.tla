-------------------------- MODULE BootOrchestrator --------------------------
(* boot/orchestrator.py: components start in the order of their dependencies and
   stop in reverse, as the lifespans of the application (gateway/app.py) drive it.

   main.py runs the application in two servers, HTTP and HTTPS, each in a thread of
   its own and each with its own lifespan, over one orchestrator. A lifespan boots,
   serves and shuts down (a server whose port is taken shuts down at once); tests
   start it again. A step of the model is what a thread does between two calls of
   start(), health_check() or stop(), which are where time passes. *)
EXTENDS Naturals, FiniteSets, SequencesExt

CONSTANTS
  Components,
  Required,      \* components whose failure makes a boot fail
  Checked,       \* components with a health check
  Graphs,        \* the dependency graphs a run looks at
  Before(_, _),  \* the order of names
  Servers        \* lifespans

ASSUME BootAssumption ==
  /\ IsFiniteSet(Components)
  /\ Required \subseteq Components /\ Checked \subseteq Components
  /\ Graphs \subseteq [Components -> SUBSET Components]

VARIABLES
  dependsOn,   \* the graph; does not change
  order,       \* what _resolve_order returns for it, each time it is called
  status,      \* _status, ComponentState per component
  booted,      \* _booted
  bootResult,  \* success of _boot_result
  phase,       \* what a lifespan does
  place,       \* the component it has got to, an index into the order
  failed,      \* failed_components of its boot
  past         \* history: "overlap" when two boots ran together, "shutdown" when one ran

lifespanVars == <<phase, place, failed>>
vars == <<dependsOn, order, status, booted, bootResult, lifespanVars, past>>

Booting == {"booting", "starting", "checking"}
Stopping == {"stopping", "halting"}

TypeOK ==
  /\ dependsOn \in Graphs /\ order \in Seq(Components)
  /\ status \in [Components -> {"pending", "starting", "healthy", "failed", "stopped", "skipped"}]
  /\ booted \in BOOLEAN /\ bootResult \in BOOLEAN /\ past \subseteq {"overlap", "shutdown"}
  /\ phase \in [Servers -> {"new", "serving", "down"} \cup Booting \cup Stopping]
  /\ place \in [Servers -> 0..(Cardinality(Components) + 1)]
  /\ failed \in [Servers -> SUBSET Components]

(* As Ready, of an order of names that looks at one dependency at least. *)
Ready_SomeDependency(taken) ==
  {c \in Components \ taken : dependsOn[c] = {} \/ dependsOn[c] \cap taken # {}}

(* Kahn's algorithm with a sorted queue takes, again and again, the first name
   whose dependencies have all been taken, until there is none; on a cycle it takes
   only some. *)
Ready(taken) == {c \in Components \ taken : dependsOn[c] \subseteq taken}

IsOrder(o) ==
  /\ \A i \in DOMAIN o :
       LET ready == Ready({o[j] : j \in 1..(i - 1)})
       IN  o[i] \in ready /\ \A c \in ready \ {o[i]} : Before(o[i], c)
  /\ Ready(Range(o)) = {}

Resolvable == Len(order) = Cardinality(Components)

Init ==
  /\ dependsOn \in Graphs
  /\ order \in {o \in SeqOf(Components, Cardinality(Components)) : IsOrder(o)}
  /\ status = [c \in Components |-> "pending"]
  /\ booted = FALSE /\ bootResult = FALSE /\ past = {}
  /\ phase = [s \in Servers |-> "new"]
  /\ place = [s \in Servers |-> 0]
  /\ failed = [s \in Servers |-> {}]

Current(s) == order[place[s]]

(* Components this boot has brought up. *)
Up(s) == {order[i] : i \in 1..(place[s] - 1)} \ failed[s]

Enter(s, p) == phase' = [phase EXCEPT ![s] = p]
SetStatus(c, st) == status' = [status EXCEPT ![c] = st]

----------------------------------------------------------------------------
(* boot() returns the previous result when it has run before ... *)
BootAgain(s) ==
  /\ phase[s] \in {"new", "down"} /\ booted
  /\ Enter(s, "serving")
  /\ UNCHANGED <<dependsOn, order, status, booted, bootResult, place, failed, past>>

(* ... and gives up when the dependencies form a cycle; the application serves anyway. *)
BootUnresolvable(s) ==
  /\ phase[s] \in {"new", "down"} /\ ~booted /\ ~Resolvable
  /\ bootResult' = FALSE
  /\ Enter(s, "serving")
  /\ UNCHANGED <<dependsOn, order, status, booted, place, failed, past>>

BootBegin(s) ==
  /\ phase[s] \in {"new", "down"} /\ ~booted /\ Resolvable
  /\ Enter(s, "booting")
  /\ place' = [place EXCEPT ![s] = 1]
  /\ failed' = [failed EXCEPT ![s] = {}]
  /\ past' = past \cup {"overlap" : t \in {u \in Servers \ {s} : phase[u] \in Booting}}
  /\ UNCHANGED <<dependsOn, order, status, booted, bootResult>>

(* The component at hand is over, well or as a failure. *)
Proceed(s, bad) ==
  /\ place' = [place EXCEPT ![s] = @ + 1]
  /\ failed' = [failed EXCEPT ![s] = @ \cup bad]
  /\ Enter(s, "booting")
  /\ UNCHANGED <<dependsOn, order, booted, bootResult, past>>

(* As UnmetDeps, of a boot that sees failed components but not skipped ones. *)
UnmetDeps_FailedOnly(s) == {d \in dependsOn[Current(s)] : status[d] = "failed"}

UnmetDeps(s) == dependsOn[Current(s)] \cap failed[s]

AtComponent(s) == phase[s] = "booting" /\ place[s] \in DOMAIN order

Skip(s) ==
  /\ AtComponent(s) /\ UnmetDeps(s) # {}
  /\ SetStatus(Current(s), "skipped")
  /\ Proceed(s, {Current(s)})

Start(s) ==
  /\ AtComponent(s) /\ UnmetDeps(s) = {}
  /\ SetStatus(Current(s), "starting")
  /\ Enter(s, "starting")
  /\ UNCHANGED <<dependsOn, order, booted, bootResult, place, failed, past>>

Fail(s) ==
  /\ SetStatus(Current(s), "failed")
  /\ Proceed(s, {Current(s)})

Succeed(s) ==
  /\ SetStatus(Current(s), "healthy")
  /\ Proceed(s, {})

StartRaises(s) == phase[s] = "starting" /\ Fail(s)

(* Without a health check a component is healthy at once. *)
StartReturns(s) ==
  /\ phase[s] = "starting"
  /\ IF Current(s) \in Checked
     THEN /\ Enter(s, "checking")
          /\ UNCHANGED <<dependsOn, order, status, booted, bootResult, place, failed, past>>
     ELSE Succeed(s)

(* As HealthCheckTimesOut, of a poll without a deadline. *)
HealthCheckTimesOut_Never(s) == FALSE

HealthCheckPasses(s) == phase[s] = "checking" /\ Succeed(s)
HealthCheckTimesOut(s) == phase[s] = "checking" /\ Fail(s)

(* As Succeeded, of a boot that does not mind skipped components. *)
Succeeded_DespiteSkips(s) == \A c \in failed[s] \cap Required : status[c] = "skipped"

(* A required component that failed or was skipped makes the boot fail. *)
Succeeded(s) == failed[s] \cap Required = {}

BootEnd(s) ==
  /\ phase[s] = "booting" /\ place[s] > Len(order)
  /\ bootResult' = Succeeded(s)
  /\ booted' = TRUE
  /\ Enter(s, "serving")
  /\ UNCHANGED <<dependsOn, order, status, place, failed, past>>

----------------------------------------------------------------------------
(* The server stops: shutdown() does nothing when no boot has ended. *)
Close(s) ==
  /\ phase[s] = "serving"
  /\ Enter(s, IF booted THEN "stopping" ELSE "down")
  /\ place' = [place EXCEPT ![s] = IF booted THEN Len(order) ELSE 0]
  /\ past' = past \cup {"shutdown" : t \in {u \in {s} : booted}}
  /\ UNCHANGED <<dependsOn, order, status, booted, bootResult, failed>>

AtStop(s) == phase[s] = "stopping" /\ place[s] > 0
IsRunning(c) == status[c] \in {"healthy", "starting"}

StopPasses(s) ==
  /\ AtStop(s) /\ ~IsRunning(Current(s))
  /\ place' = [place EXCEPT ![s] = @ - 1]
  /\ UNCHANGED <<dependsOn, order, status, booted, bootResult, phase, failed, past>>

StopCalled(s) ==
  /\ AtStop(s) /\ IsRunning(Current(s))
  /\ Enter(s, "halting")
  /\ UNCHANGED <<dependsOn, order, status, booted, bootResult, place, failed, past>>

(* stop() returns or raises. *)
StopReturns(s) ==
  /\ phase[s] = "halting"
  /\ \E st \in {"stopped", "failed"} : SetStatus(Current(s), st)
  /\ place' = [place EXCEPT ![s] = @ - 1]
  /\ Enter(s, "stopping")
  /\ UNCHANGED <<dependsOn, order, booted, bootResult, failed, past>>

StopEnd(s) ==
  /\ phase[s] = "stopping" /\ place[s] = 0
  /\ Enter(s, "down")
  /\ UNCHANGED <<dependsOn, order, status, booted, bootResult, place, failed, past>>

Boot(s) ==
  \/ Skip(s) \/ Start(s) \/ StartRaises(s) \/ StartReturns(s)
  \/ HealthCheckTimesOut(s) \/ BootEnd(s)
Shutdown(s) == StopPasses(s) \/ StopCalled(s) \/ StopReturns(s) \/ StopEnd(s)

Next ==
  \E s \in Servers :
    \/ BootAgain(s) \/ BootUnresolvable(s) \/ BootBegin(s)
    \/ Boot(s) \/ HealthCheckPasses(s)
    \/ Close(s) \/ Shutdown(s)

(* start() and stop() return and the poll has a deadline; nothing says that a
   component ever becomes healthy. *)
Fairness == \A s \in Servers : WF_vars(Boot(s)) /\ WF_vars(Shutdown(s))

Spec == Init /\ [][Next]_vars /\ Fairness

----------------------------------------------------------------------------
(* A component is started or checked only when the same boot has brought up all it
   depends on, whatever the graph and whatever failed before; while boots do not
   overlap they are also still healthy then. Two boots over one orchestrator can
   mark a component failed that the other has relied upon. *)
DependenciesUp ==
  \A s \in Servers : phase[s] \in {"starting", "checking"} =>
    /\ dependsOn[Current(s)] \subseteq Up(s)
    /\ "overlap" \notin past => \A d \in dependsOn[Current(s)] : status[d] = "healthy"

(* When stop() of a component runs nothing that depends on it runs any more: the
   shutdown goes in reverse, also when two lifespans shut down together. *)
StopsDependentsFirst ==
  "overlap" \notin past =>
    \A s \in Servers : phase[s] = "halting" =>
      \A c \in Components : Current(s) \in dependsOn[c] => ~IsRunning(c)

(* Before any shutdown the result of a boot that ran alone is the truth: success means
   that every required component is healthy, and what was skipped was skipped for a
   dependency that failed or was skipped itself. *)
ResultHonest ==
  (booted /\ past = {}) =>
    /\ bootResult <=> \A c \in Required : status[c] = "healthy"
    /\ \A c \in Components :
         status[c] = "skipped" <=> \E d \in dependsOn[c] : status[d] \in {"failed", "skipped"}

(* A lifespan that boots gets to serve, and one that shuts down ends, although
   components hang in their health checks, start() and stop() raise, and another
   lifespan works on the same components. *)
LifespanMovesOn ==
  \A s \in Servers :
    /\ phase[s] \in Booting ~> phase[s] = "serving"
    /\ phase[s] \in Stopping ~> phase[s] = "down"

(* boot() can be called again after shutdown(), as its docstring says: a server that
   serves after a successful boot has its required components. *)
RestartRuns ==
  \A s \in Servers : (phase[s] = "serving" /\ booted /\ bootResult) =>
    \A c \in Required : status[c] = "healthy"
=============================================================================
