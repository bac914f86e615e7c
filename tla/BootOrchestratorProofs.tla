------------------------ MODULE BootOrchestratorProofs ------------------------
(* Theorems about BootOrchestrator for any finite set of components, any graphs, any
   order of names and any lifespans.

   WalkInv says how far a lifespan has got in the order, overlapping boots or not.
   AloneInv says what a boot that runs alone leaves in the statuses: what it has passed
   is healthy, failed or skipped, and a shutdown leaves nothing running behind it. That
   no boot is under way once one has ended, or beside another, is one of its parts. *)
EXTENDS BootOrchestrator, FiniteSetTheorems, TLAPS

Passed(s) == {order[i] : i \in 1..(place[s] - 1)}

WalkInv ==
  /\ TypeOK
  /\ IsOrder(order) /\ Len(order) <= Cardinality(Components)
  /\ \A s \in Servers : phase[s] \in Booting =>
       /\ Resolvable
       /\ place[s] \in 1..(Len(order) + 1)
       /\ failed[s] \subseteq Passed(s)
  /\ \A s \in Servers : phase[s] \in {"starting", "checking"} =>
       place[s] \in DOMAIN order /\ UnmetDeps(s) = {}
  /\ \A s \in Servers : phase[s] \in Stopping => place[s] \in 0..Len(order)
  /\ \A s \in Servers : phase[s] = "halting" => place[s] > 0

Dropped == {"failed", "skipped"}

(* What the boot of s has done to the component at index i. *)
Done(s, i) ==
  LET c == order[i] IN
  /\ status[c] \in {"healthy"} \cup Dropped
  /\ status[c] \in Dropped <=> c \in failed[s]
  /\ status[c] = "skipped" <=> dependsOn[c] \cap failed[s] # {}

Alone(s) ==
  /\ ~booted
  /\ \A t \in Servers \ {s} : phase[t] \notin Booting
  /\ \A i \in 1..(place[s] - 1) : Done(s, i)

AloneInv ==
  /\ \A s \in Servers : phase[s] \in Booting => Alone(s)
  /\ \A s \in Servers : phase[s] \in Stopping =>
       /\ booted /\ "shutdown" \in past
       /\ \A i \in (place[s] + 1)..Len(order) : ~IsRunning(order[i])
  /\ booted => Resolvable
  /\ "shutdown" \in past => booted
  /\ ResultHonest

BootInv == WalkInv /\ ("overlap" \notin past => AloneInv)

-----------------------------------------------------------------------------
(* The order. *)

(* Whatever a component depends on comes before it, and no component comes twice. *)
LEMMA Topological ==
  ASSUME TypeOK, IsOrder(order), NEW i \in DOMAIN order
  PROVE  /\ i \in 1..Len(order) /\ order[i] \in Components
         /\ dependsOn[order[i]] \subseteq {order[j] : j \in 1..(i - 1)}
         /\ order[i] \notin {order[j] : j \in 1..(i - 1)}
<1>1. order[i] \in Ready({order[j] : j \in 1..(i - 1)})
  BY DEF IsOrder
<1>2. i \in 1..Len(order) /\ order[i] \in Components
  BY DEF TypeOK
<1> QED  BY <1>1, <1>2 DEF Ready

LEMMA Distinct ==
  ASSUME TypeOK, IsOrder(order), NEW i \in DOMAIN order, NEW j \in DOMAIN order,
         order[i] = order[j]
  PROVE  i = j
<1>1. i \in Nat \ {0} /\ j \in Nat \ {0}
  BY DEF TypeOK
<1>2. ~(i < j)
  <2> SUFFICES ASSUME i < j PROVE FALSE
    OBVIOUS
  <2>1. i \in 1..(j - 1)
    BY <1>1
  <2>2. order[j] \notin {order[k] : k \in 1..(j - 1)}
    BY Topological
  <2> QED  BY <2>1, <2>2
<1>3. ~(j < i)
  <2> SUFFICES ASSUME j < i PROVE FALSE
    OBVIOUS
  <2>1. j \in 1..(i - 1)
    BY <1>1
  <2>2. order[i] \notin {order[k] : k \in 1..(i - 1)}
    BY Topological
  <2> QED  BY <2>1, <2>2
<1> QED  BY <1>1, <1>2, <1>3

(* An order that the dependencies allow to be complete has every component. *)
LEMMA Covers ==
  ASSUME TypeOK, IsOrder(order), Resolvable, NEW c \in Components
  PROVE  \E i \in 1..Len(order) : order[i] = c
<1>1. Len(order) \in Nat /\ DOMAIN order = 1..Len(order) /\ order \in [1..Len(order) -> Components]
  BY DEF TypeOK
<1>2. order \in Injection(1..Len(order), Components)
  BY <1>1, Distinct DEF Injection, IsInjective
<1>3. Cardinality(1..Len(order)) = Len(order)
  BY <1>1, FS_Interval
<1>4. order \in Surjection(1..Len(order), Components)
  BY <1>2, <1>3, BootAssumption, FS_Injection DEF Resolvable
<1> QED  BY <1>4 DEF Surjection

(* What a boot has passed it passed before the component at hand, on which nothing it
   has passed depends. *)
LEMMA Behind ==
  ASSUME WalkInv, NEW s \in Servers, place[s] \in DOMAIN order
  PROVE  /\ Current(s) \in Components /\ Current(s) \notin Passed(s)
         /\ dependsOn[Current(s)] \subseteq Passed(s)
         /\ \A i \in 1..(place[s] - 1) :
              /\ i \in DOMAIN order /\ order[i] # Current(s)
              /\ Current(s) \notin dependsOn[order[i]]
<1>1. /\ place[s] \in 1..Len(order) /\ Len(order) \in Nat /\ DOMAIN order = 1..Len(order)
      /\ Current(s) \in Components /\ Current(s) \notin Passed(s)
      /\ dependsOn[Current(s)] \subseteq Passed(s)
  BY Topological DEF WalkInv, TypeOK, Current, Passed
<1>2. ASSUME NEW i \in 1..(place[s] - 1)
      PROVE  /\ i \in DOMAIN order /\ order[i] # Current(s)
             /\ Current(s) \notin dependsOn[order[i]]
  <2>1. i \in DOMAIN order /\ order[i] # Current(s)
    BY <1>1 DEF Passed
  <2>2. \A j \in 1..(i - 1) : j \in 1..(place[s] - 1)
    BY <1>1
  <2>3. dependsOn[order[i]] \subseteq {order[j] : j \in 1..(i - 1)}
    BY <2>1, Topological DEF WalkInv
  <2> QED  BY <2>1, <2>2, <2>3, <1>1 DEF Passed
<1> QED  BY <1>1, <1>2

-----------------------------------------------------------------------------
(* How far a lifespan has got. *)

WalkOf(s) ==
  /\ phase[s] \in Booting =>
       /\ Resolvable
       /\ place[s] \in 1..(Len(order) + 1)
       /\ failed[s] \subseteq Passed(s)
  /\ phase[s] \in {"starting", "checking"} => place[s] \in DOMAIN order /\ UnmetDeps(s) = {}
  /\ phase[s] \in Stopping => place[s] \in 0..Len(order)
  /\ phase[s] = "halting" => place[s] > 0

(* A step of one lifespan leaves the others where they are. *)
LEMMA Moves ==
  ASSUME WalkInv, NEW s \in Servers, TypeOK', UNCHANGED <<dependsOn, order>>, WalkOf(s)',
         \A t \in Servers \ {s} :
           phase'[t] = phase[t] /\ place'[t] = place[t] /\ failed'[t] = failed[t]
  PROVE  WalkInv'
<1>1. \A t \in Servers \ {s} : WalkOf(t)'
  BY DEF WalkInv, WalkOf, Resolvable, Passed, UnmetDeps, Current
<1>2. IsOrder(order)' /\ Len(order') <= Cardinality(Components)
  BY DEF WalkInv, IsOrder, Ready
<1> QED  BY <1>1, <1>2 DEF WalkInv, WalkOf

LEMMA Lengths ==
  ASSUME WalkInv
  PROVE  /\ Len(order) \in Nat /\ Cardinality(Components) \in Nat
         /\ Len(order) <= Cardinality(Components) /\ DOMAIN order = 1..Len(order)
BY BootAssumption, FS_CardinalityType DEF WalkInv, TypeOK

(* The component at hand is over: the walk of a boot goes on behind it. *)
LEMMA ProceedWalks ==
  ASSUME WalkInv, NEW s \in Servers, phase[s] \in Booting, place[s] \in DOMAIN order,
         NEW bad \in {{}, {Current(s)}}, Proceed(s, bad),
         NEW st \in {"healthy", "failed", "skipped"}, SetStatus(Current(s), st)
  PROVE  WalkInv'
<1>1. /\ place[s] \in 1..Len(order) /\ Resolvable /\ failed[s] \subseteq Passed(s)
      /\ Current(s) \in Components
  BY Lengths, Behind DEF WalkInv
<1>2. /\ place'[s] = place[s] + 1 /\ phase'[s] = "booting"
      /\ failed'[s] = failed[s] \cup bad /\ UNCHANGED <<dependsOn, order, booted, bootResult, past>>
      /\ \A t \in Servers \ {s} :
           phase'[t] = phase[t] /\ place'[t] = place[t] /\ failed'[t] = failed[t]
  BY DEF Proceed, Enter, WalkInv, TypeOK
<1>3. TypeOK'
  <2>1. place' \in [Servers -> 0..(Cardinality(Components) + 1)]
    BY <1>1, Lengths DEF Proceed, WalkInv, TypeOK
  <2>2. failed' \in [Servers -> SUBSET Components]
    BY <1>1 DEF Proceed, WalkInv, TypeOK
  <2>3. phase' \in [Servers -> {"new", "serving", "down"} \cup Booting \cup Stopping]
    BY DEF Proceed, Enter, WalkInv, TypeOK, Booting
  <2>4. status' \in [Components -> {"pending", "starting", "healthy", "failed", "stopped", "skipped"}]
    BY <1>1 DEF SetStatus, WalkInv, TypeOK
  <2> QED  BY <1>2, <2>1, <2>2, <2>3, <2>4 DEF WalkInv, TypeOK
<1>4. Passed(s)' = Passed(s) \cup {Current(s)}
  <2>1. place'[s] - 1 = place[s]
    BY <1>1, <1>2, Lengths
  <2>2. 1..place[s] = 1..(place[s] - 1) \cup {place[s]}
    BY <1>1, Lengths
  <2>3. {order[i] : i \in 1..(place[s] - 1) \cup {place[s]}} = Passed(s) \cup {Current(s)}
    BY DEF Passed, Current
  <2> QED  BY <1>2, <2>1, <2>2, <2>3 DEF Passed
<1>5. WalkOf(s)'
  BY <1>1, <1>2, <1>4, Lengths DEF WalkOf, Resolvable, Booting, Stopping
<1> QED  BY <1>2, <1>3, <1>5, Moves

(* A lifespan changes its phase and nothing else that the walk looks at. *)
LEMMA EnterWalks ==
  ASSUME WalkInv, NEW s \in Servers, NEW p \in {"serving", "down"} \cup Booting \cup Stopping,
         Enter(s, p), UNCHANGED <<dependsOn, order, place, failed>>,
         booted' \in BOOLEAN, bootResult' \in BOOLEAN, past' \subseteq {"overlap", "shutdown"},
         status' \in [Components -> {"pending", "starting", "healthy", "failed", "stopped", "skipped"}],
         p \in Booting => phase[s] \in Booting,
         p \in {"starting", "checking"} => place[s] \in DOMAIN order /\ UnmetDeps(s) = {},
         p \in Stopping => phase[s] \in Stopping /\ place[s] > 0
  PROVE  WalkInv'
<1>1. phase'[s] = p /\ \A t \in Servers \ {s} : phase'[t] = phase[t]
  BY DEF Enter, WalkInv, TypeOK
<1>2. TypeOK'
  BY DEF Enter, WalkInv, TypeOK
<1>3. WalkOf(s)'
  BY <1>1 DEF WalkInv, WalkOf, Resolvable, Passed, UnmetDeps, Current, Stopping
<1> QED  BY <1>1, <1>2, <1>3, Moves

(* A lifespan begins to boot, begins to stop, or stops a component. *)
LEMMA PlaceWalks ==
  ASSUME WalkInv, NEW s \in Servers,
         phase' = [phase EXCEPT ![s] = phase'[s]], phase'[s] \in {"booting", "stopping", "down"},
         place' = [place EXCEPT ![s] = place'[s]], place'[s] \in Nat,
         failed' = [failed EXCEPT ![s] = failed'[s]], failed'[s] \subseteq failed[s],
         UNCHANGED <<dependsOn, order>>,
         booted' \in BOOLEAN, bootResult' \in BOOLEAN, past' \subseteq {"overlap", "shutdown"},
         status' \in [Components -> {"pending", "starting", "healthy", "failed", "stopped", "skipped"}],
         phase'[s] = "booting" => Resolvable /\ place'[s] = 1 /\ failed'[s] = {},
         phase'[s] # "booting" => place'[s] <= Len(order)
  PROVE  WalkInv'
<1>1. \A t \in Servers \ {s} :
        phase'[t] = phase[t] /\ place'[t] = place[t] /\ failed'[t] = failed[t]
  BY DEF WalkInv, TypeOK
<1>2. TypeOK'
  <2>1. place' \in [Servers -> 0..(Cardinality(Components) + 1)]
    BY Lengths DEF WalkInv, TypeOK
  <2>2. failed' \in [Servers -> SUBSET Components]
    BY DEF WalkInv, TypeOK
  <2>3. phase' \in [Servers -> {"new", "serving", "down"} \cup Booting \cup Stopping]
    BY DEF WalkInv, TypeOK, Booting, Stopping
  <2> QED  BY <2>1, <2>2, <2>3 DEF WalkInv, TypeOK
<1>3. WalkOf(s)'
  BY Lengths DEF WalkOf, Resolvable, Booting, Stopping
<1> QED  BY <1>1, <1>2, <1>3, Moves

(* What has to hold of the component at hand between the steps of its start. *)
LEMMA AtHand ==
  ASSUME WalkInv, NEW s \in Servers
  PROVE  /\ phase[s] \in {"starting", "checking", "halting"} => place[s] \in DOMAIN order
         /\ place[s] \in DOMAIN order => Current(s) \in Components
         /\ AtStop(s) => place[s] \in DOMAIN order
<1>1. place[s] \in DOMAIN order => Current(s) \in Components
  BY Behind
<1>2. phase[s] \in Stopping /\ place[s] > 0 => place[s] \in DOMAIN order
  BY Lengths DEF WalkInv
<1> QED  BY <1>1, <1>2 DEF WalkInv, Stopping, AtStop

LEMMA WalkStep ==
  ASSUME WalkInv, [Next]_vars
  PROVE  WalkInv'
<1> DEFINE Statuses == {"pending", "starting", "healthy", "failed", "stopped", "skipped"}
<1>t. /\ booted \in BOOLEAN /\ bootResult \in BOOLEAN /\ past \subseteq {"overlap", "shutdown"}
      /\ status \in [Components -> Statuses] /\ place \in [Servers -> Nat]
      /\ failed \in [Servers -> SUBSET Components]
  BY Lengths DEF WalkInv, TypeOK
<1>1. ASSUME NEW s \in Servers, BootAgain(s) \/ BootUnresolvable(s)
      PROVE  WalkInv'
  BY <1>1, <1>t, EnterWalks DEF BootAgain, BootUnresolvable, Booting, Stopping
<1>2. ASSUME NEW s \in Servers, BootBegin(s)
      PROVE  WalkInv'
  <2>1. past' \subseteq {"overlap", "shutdown"}
    BY <1>2, <1>t DEF BootBegin
  <2>2. /\ phase'[s] = "booting" /\ place'[s] = 1 /\ failed'[s] = {}
        /\ phase' = [phase EXCEPT ![s] = phase'[s]] /\ place' = [place EXCEPT ![s] = place'[s]]
        /\ failed' = [failed EXCEPT ![s] = failed'[s]]
        /\ UNCHANGED <<dependsOn, order, status, booted, bootResult>> /\ Resolvable
    BY <1>2, <1>t DEF BootBegin, Enter, WalkInv, TypeOK
  <2> QED  BY <1>t, <2>1, <2>2, PlaceWalks
<1>3. ASSUME NEW s \in Servers, Skip(s)
      PROVE  WalkInv'
  BY <1>3, ProceedWalks DEF Skip, AtComponent, Booting
<1>4. ASSUME NEW s \in Servers, Start(s)
      PROVE  WalkInv'
  <2>1. Current(s) \in Components
    BY <1>4, AtHand DEF Start, AtComponent
  <2>2. status' \in [Components -> Statuses]
    BY <1>4, <1>t, <2>1 DEF Start, SetStatus
  <2> QED  BY <1>4, <1>t, <2>2, EnterWalks DEF Start, AtComponent, Booting, Stopping
<1>5. ASSUME NEW s \in Servers, StartRaises(s) \/ HealthCheckTimesOut(s)
      PROVE  WalkInv'
  <2>1. phase[s] \in Booting /\ place[s] \in DOMAIN order /\ Fail(s)
    BY <1>5, AtHand DEF StartRaises, HealthCheckTimesOut, Booting
  <2> QED  BY <2>1, ProceedWalks DEF Fail
<1>6. ASSUME NEW s \in Servers, StartReturns(s) \/ HealthCheckPasses(s)
      PROVE  WalkInv'
  <2>1. CASE StartReturns(s) /\ Current(s) \in Checked
    <3>1. place[s] \in DOMAIN order /\ UnmetDeps(s) = {} /\ phase[s] \in Booting
      BY <2>1 DEF StartReturns, WalkInv, Booting
    <3> QED  BY <2>1, <3>1, <1>t, EnterWalks DEF StartReturns, Booting, Stopping
  <2>2. CASE Succeed(s) /\ phase[s] \in {"starting", "checking"}
    BY <2>2, ProceedWalks, AtHand DEF Succeed, Booting
  <2> QED  BY <1>6, <2>1, <2>2 DEF StartReturns, HealthCheckPasses
<1>7. ASSUME NEW s \in Servers, BootEnd(s)
      PROVE  WalkInv'
  <2>1. bootResult' \in BOOLEAN
    BY <1>7 DEF BootEnd, Succeeded
  <2> QED  BY <1>7, <1>t, <2>1, EnterWalks DEF BootEnd, Booting, Stopping
<1>8. ASSUME NEW s \in Servers, Close(s)
      PROVE  WalkInv'
  <2>1. past' \subseteq {"overlap", "shutdown"}
    BY <1>8, <1>t DEF Close
  <2>2. /\ phase'[s] \in {"stopping", "down"} /\ place'[s] \in {0, Len(order)}
        /\ failed'[s] = failed[s]
        /\ phase' = [phase EXCEPT ![s] = phase'[s]] /\ place' = [place EXCEPT ![s] = place'[s]]
        /\ failed' = [failed EXCEPT ![s] = failed'[s]]
        /\ UNCHANGED <<dependsOn, order, status, booted, bootResult>>
    BY <1>8, <1>t DEF Close, Enter, WalkInv, TypeOK
  <2> QED  BY <1>t, <2>1, <2>2, PlaceWalks, Lengths
<1>9. ASSUME NEW s \in Servers, StopPasses(s) \/ StopReturns(s)
      PROVE  WalkInv'
  <2>1. place[s] \in 1..Len(order) /\ Current(s) \in Components /\ Len(order) \in Nat
    BY <1>9, AtHand, Lengths DEF StopPasses, StopReturns
  <2>2. status' \in [Components -> Statuses]
    BY <1>9, <1>t, <2>1 DEF StopPasses, StopReturns, SetStatus
  <2>3. /\ phase'[s] = "stopping" /\ place'[s] = place[s] - 1 /\ failed'[s] = failed[s]
        /\ phase' = [phase EXCEPT ![s] = phase'[s]] /\ place' = [place EXCEPT ![s] = place'[s]]
        /\ failed' = [failed EXCEPT ![s] = failed'[s]]
        /\ UNCHANGED <<dependsOn, order, booted, bootResult, past>>
    BY <1>9, <1>t DEF StopPasses, StopReturns, AtStop, Enter, WalkInv, TypeOK
  <2>4. place'[s] \in Nat /\ place'[s] <= Len(order)
    BY <2>1, <2>3
  <2> QED  BY <1>t, <2>2, <2>3, <2>4, PlaceWalks
<1>10. ASSUME NEW s \in Servers, StopCalled(s) \/ StopEnd(s)
       PROVE  WalkInv'
  BY <1>10, <1>t, EnterWalks DEF StopCalled, StopEnd, AtStop, Booting, Stopping
<1>11. CASE UNCHANGED vars
  <2>1. UNCHANGED <<dependsOn, order, status, booted, bootResult, past, phase, place, failed>>
    BY <1>11 DEF vars, lifespanVars
  <2>2. TypeOK'
    BY <2>1 DEF WalkInv, TypeOK
  <2>3. IsOrder(order)'
    BY <2>1 DEF WalkInv, IsOrder, Ready
  <2>4. \A s \in Servers : WalkOf(s)'
    BY <2>1 DEF WalkInv, WalkOf, Resolvable, Passed, UnmetDeps, Current
  <2> QED  BY <2>1, <2>2, <2>3, <2>4 DEF WalkInv, WalkOf
<1> QED  BY <1>1, <1>2, <1>3, <1>4, <1>5, <1>6, <1>7, <1>8, <1>9, <1>10, <1>11
         DEF Next, Boot, Shutdown

LEMMA WalkInit ==
  ASSUME Init
  PROVE  WalkInv
<1>1. Cardinality(Components) \in Nat
  BY BootAssumption, FS_CardinalityType
<1>2. order \in Seq(Components) /\ Len(order) <= Cardinality(Components) /\ IsOrder(order)
  <2>1. PICK n \in 0..Cardinality(Components) : order \in [1..n -> Components]
    BY DEF Init, SeqOf
  <2>2. order \in Seq(Components) /\ Len(order) = n
    BY <1>1, <2>1
  <2> QED  BY <1>1, <2>1, <2>2 DEF Init
<1>3. TypeOK
  <2>1. place \in [Servers -> 0..(Cardinality(Components) + 1)]
    BY <1>1 DEF Init
  <2>2. failed \in [Servers -> SUBSET Components]
    BY DEF Init
  <2>3. phase \in [Servers -> {"new", "serving", "down"} \cup Booting \cup Stopping]
    BY DEF Init
  <2>4. status \in [Components -> {"pending", "starting", "healthy", "failed", "stopped", "skipped"}]
    BY DEF Init
  <2>5. dependsOn \in Graphs /\ booted \in BOOLEAN /\ bootResult \in BOOLEAN /\ past = {}
    BY DEF Init
  <2> QED  BY <1>2, <2>1, <2>2, <2>3, <2>4, <2>5 DEF TypeOK
<1>4. \A s \in Servers : phase[s] = "new"
  BY DEF Init
<1> QED  BY <1>2, <1>3, <1>4 DEF WalkInv, Booting, Stopping

-----------------------------------------------------------------------------
(* What the statuses say when no two boots overlap. *)

(* The component at hand is over: it joins what the boot has passed, and what it has
   passed before keeps its status, as none of it depends on that component. *)
LEMMA ProceedAlone ==
  ASSUME WalkInv, AloneInv, NEW s \in Servers, phase[s] \in Booting, place[s] \in DOMAIN order,
         NEW bad \in {{}, {Current(s)}}, Proceed(s, bad),
         NEW st \in {"healthy", "failed", "skipped"}, SetStatus(Current(s), st),
         st \in Dropped <=> bad # {},
         st = "skipped" <=> UnmetDeps(s) # {}
  PROVE  AloneInv'
<1>1. /\ place[s] \in 1..Len(order) /\ Len(order) \in Nat /\ failed[s] \subseteq Passed(s)
      /\ Current(s) \in Components /\ Current(s) \notin Passed(s)
      /\ dependsOn[Current(s)] \subseteq Passed(s)
      /\ \A i \in 1..(place[s] - 1) : order[i] # Current(s) /\ Current(s) \notin dependsOn[order[i]]
  BY Lengths, Behind DEF WalkInv
<1>2. /\ place'[s] = place[s] + 1 /\ phase'[s] = "booting" /\ failed'[s] = failed[s] \cup bad
      /\ UNCHANGED <<dependsOn, order, booted, bootResult, past>>
      /\ \A t \in Servers \ {s} :
           phase'[t] = phase[t] /\ place'[t] = place[t] /\ failed'[t] = failed[t]
      /\ status'[Current(s)] = st /\ \A c \in Components \ {Current(s)} : status'[c] = status[c]
  BY <1>1 DEF Proceed, Enter, SetStatus, WalkInv, TypeOK
<1>3. Alone(s)
  BY DEF AloneInv
<1>4. ASSUME NEW i \in 1..(place'[s] - 1)
      PROVE  Done(s, i)'
  <2>1. CASE i = place[s]
    <3>1. order[i] = Current(s) /\ Current(s) \notin failed[s] /\ Current(s) \notin dependsOn[Current(s)]
      BY <2>1, <1>1 DEF Current
    <3>2. dependsOn[Current(s)] \cap failed'[s] = UnmetDeps(s)
      BY <3>1, <1>2 DEF UnmetDeps
    <3> QED  BY <3>1, <3>2, <1>2 DEF Done, Dropped
  <2>2. CASE i # place[s]
    <3>1. i \in 1..(place[s] - 1) /\ i \in DOMAIN order /\ order[i] \in Components
      BY <2>2, <1>1, <1>2 DEF WalkInv, TypeOK
    <3>2. Done(s, i) /\ order[i] # Current(s) /\ Current(s) \notin dependsOn[order[i]]
      BY <3>1, <1>1, <1>3 DEF Alone
    <3> QED  BY <3>1, <3>2, <1>2 DEF Done, Dropped
  <2> QED  BY <2>1, <2>2
<1>5. Alone(s)'
  BY <1>2, <1>3, <1>4 DEF Alone
<1>6. ~booted' /\ \A t \in Servers : phase'[t] \in Booting => t = s
  BY <1>2, <1>3 DEF Alone
<1>7. \A t \in Servers : phase'[t] \notin Stopping
  BY <1>2, <1>3 DEF Alone, AloneInv, Stopping
<1> QED  BY <1>2, <1>5, <1>6, <1>7 DEF AloneInv, ResultHonest

(* A lifespan goes on in its boot. *)
LEMMA StartAlone ==
  ASSUME WalkInv, AloneInv, NEW s \in Servers, phase[s] \in Booting, place[s] \in DOMAIN order,
         NEW p \in Booting, Enter(s, p),
         UNCHANGED <<dependsOn, order, booted, bootResult, place, failed, past>>,
         \A c \in Components \ {Current(s)} : status'[c] = status[c]
  PROVE  AloneInv'
<1>1. /\ phase'[s] = p /\ \A t \in Servers \ {s} : phase'[t] = phase[t]
      /\ \A i \in 1..(place[s] - 1) : order[i] # Current(s) /\ i \in DOMAIN order
      /\ \A i \in DOMAIN order : order[i] \in Components
  BY Behind DEF Enter, WalkInv, TypeOK
<1>2. Alone(s)
  BY DEF AloneInv
<1>3. Alone(s)'
  BY <1>1, <1>2 DEF Alone, Done
<1>4. ~booted' /\ \A t \in Servers : phase'[t] \in Booting => t = s
  BY <1>1, <1>2 DEF Alone
<1>5. \A t \in Servers : phase'[t] \notin Stopping
  BY <1>1, <1>2 DEF Alone, AloneInv, Stopping, Booting
<1> QED  BY <1>3, <1>4, <1>5 DEF AloneInv, ResultHonest

(* A boot that ends has passed every component, so that its result is the truth. *)
LEMMA EndAlone ==
  ASSUME WalkInv, AloneInv, NEW s \in Servers, BootEnd(s)
  PROVE  AloneInv'
<1>1. /\ phase[s] \in Booting /\ Resolvable /\ place[s] = Len(order) + 1 /\ Len(order) \in Nat
      /\ failed[s] \subseteq Components
  <2>1. phase[s] \in Booting
    BY DEF BootEnd, Booting
  <2>2. place[s] \in 1..(Len(order) + 1) /\ place[s] > Len(order) /\ Resolvable
    BY <2>1 DEF WalkInv, BootEnd
  <2> QED  BY <2>1, <2>2, Lengths DEF WalkInv, TypeOK
<1>2. /\ phase'[s] = "serving" /\ \A t \in Servers \ {s} : phase'[t] = phase[t]
      /\ UNCHANGED <<dependsOn, order, status, place, failed, past>>
      /\ booted' /\ bootResult' = Succeeded(s)
  BY DEF BootEnd, Enter, WalkInv, TypeOK
<1>3. Alone(s)
  BY <1>1 DEF AloneInv
<1>4. \A t \in Servers : phase'[t] \notin Booting /\ phase'[t] \notin Stopping
  BY <1>2, <1>3 DEF Alone, AloneInv, Stopping, Booting
<1>5. \A c \in Components :
        /\ status[c] \in {"healthy"} \cup Dropped
        /\ status[c] \in Dropped <=> c \in failed[s]
        /\ status[c] = "skipped" <=> dependsOn[c] \cap failed[s] # {}
  <2> TAKE c \in Components
  <2>1. PICK i \in 1..Len(order) : order[i] = c
    BY <1>1, Covers DEF WalkInv
  <2>2. i \in 1..(place[s] - 1)
    BY <1>1
  <2> QED  BY <2>1, <2>2, <1>3 DEF Alone, Done
<1>6. ResultHonest'
  <2>1. bootResult' <=> \A c \in Required : status[c] = "healthy"
    BY <1>2, <1>5, BootAssumption DEF Succeeded, Dropped
  <2>2. \A c \in Components : dependsOn[c] \subseteq Components
    BY BootAssumption DEF WalkInv, TypeOK
  <2>3. \A c \in Components :
          status[c] = "skipped" <=> \E d \in dependsOn[c] : status[d] \in {"failed", "skipped"}
    BY <1>5, <2>2 DEF Dropped
  <2> QED  BY <1>2, <2>1, <2>3 DEF ResultHonest
<1> QED  BY <1>1, <1>2, <1>4, <1>6 DEF AloneInv, Resolvable

(* A boot that begins without overlapping another begins with nothing passed. *)
LEMMA BeginAlone ==
  ASSUME WalkInv, AloneInv, NEW s \in Servers, BootBegin(s), "overlap" \notin past'
  PROVE  AloneInv'
<1>1. /\ phase'[s] = "booting" /\ place'[s] = 1
      /\ \A t \in Servers \ {s} : phase'[t] = phase[t] /\ place'[t] = place[t]
      /\ UNCHANGED <<dependsOn, order, status, booted, bootResult>> /\ ~booted
  BY DEF BootBegin, Enter, WalkInv, TypeOK
<1>2. \A t \in Servers \ {s} : phase[t] \notin Booting
  BY DEF BootBegin
<1>3. past' \subseteq past
  BY <1>2 DEF BootBegin
<1>4. Alone(s)'
  BY <1>1, <1>2 DEF Alone
<1>5. \A t \in Servers : phase'[t] \notin Stopping /\ (phase'[t] \in Booting => t = s)
  BY <1>1, <1>2 DEF AloneInv, Stopping, Booting
<1> QED  BY <1>1, <1>3, <1>4, <1>5 DEF AloneInv, ResultHonest

(* Serving is neither booting nor stopping. *)
LEMMA ServeAlone ==
  ASSUME WalkInv, AloneInv, NEW s \in Servers, NEW p \in {"serving", "down"}, Enter(s, p),
         UNCHANGED <<dependsOn, order, status, booted, failed, past>>,
         booted => bootResult' = bootResult,
         \A t \in Servers \ {s} : place'[t] = place[t]
  PROVE  AloneInv'
<1>1. phase'[s] = p /\ \A t \in Servers \ {s} : phase'[t] = phase[t]
  BY DEF Enter, WalkInv, TypeOK
<1>2. phase'[s] \notin Booting /\ phase'[s] \notin Stopping
  BY <1>1 DEF Booting, Stopping
<1>3. \A t \in Servers : phase'[t] \in Booting => Alone(t)'
  BY <1>1, <1>2 DEF AloneInv, Alone, Done
<1>4. \A t \in Servers : phase'[t] \in Stopping =>
        /\ booted' /\ "shutdown" \in past'
        /\ \A i \in (place'[t] + 1)..Len(order') : ~IsRunning(order[i])'
  BY <1>1, <1>2 DEF AloneInv, IsRunning
<1>5. ResultHonest'
  BY DEF AloneInv, ResultHonest
<1> QED  BY <1>3, <1>4, <1>5 DEF AloneInv, Resolvable

(* Once a boot has ended statuses change by shutdowns only, and a shutdown passes
   a component when it is not running or has been stopped. *)
LEMMA StopAlone ==
  ASSUME WalkInv, AloneInv, NEW s \in Servers, booted, NEW p \in Stopping, Enter(s, p),
         UNCHANGED <<dependsOn, order, booted, bootResult, failed>>,
         \A t \in Servers \ {s} : place'[t] = place[t],
         past \subseteq past', "shutdown" \in past',
         \A c \in Components : IsRunning(c)' => IsRunning(c),
         \A i \in (place'[s] + 1)..Len(order) : ~IsRunning(order[i])'
  PROVE  AloneInv'
<1>1. phase'[s] = p /\ \A t \in Servers \ {s} : phase'[t] = phase[t]
  BY DEF Enter, WalkInv, TypeOK
<1>2. \A t \in Servers : phase'[t] \notin Booting
  BY <1>1 DEF AloneInv, Alone, Booting, Stopping
<1>3. \A t \in Servers \ {s} : phase'[t] \in Stopping =>
        \A i \in (place'[t] + 1)..Len(order') : ~IsRunning(order[i])'
  <2> SUFFICES ASSUME NEW t \in Servers \ {s}, phase[t] \in Stopping,
                      NEW i \in (place[t] + 1)..Len(order)
               PROVE  ~IsRunning(order[i])'
    BY <1>1 DEF IsRunning
  <2>1. place[t] \in 0..Len(order) /\ Len(order) \in Nat
    BY Lengths DEF WalkInv
  <2>2. i \in 1..Len(order)
    BY <2>1
  <2>3. order[i] \in Components
    BY <2>2, Lengths DEF WalkInv, TypeOK
  <2> QED  BY <2>3 DEF AloneInv
<1>4. ResultHonest'
  BY DEF ResultHonest
<1> QED  BY <1>1, <1>2, <1>3, <1>4 DEF AloneInv, Resolvable, IsRunning

LEMMA AloneStep ==
  ASSUME WalkInv, AloneInv, [Next]_vars, "overlap" \notin past'
  PROVE  AloneInv'
<1>1. ASSUME NEW s \in Servers, BootAgain(s) \/ BootUnresolvable(s) \/ StopEnd(s)
      PROVE  AloneInv'
  BY <1>1, ServeAlone DEF BootAgain, BootUnresolvable, StopEnd
<1>2. ASSUME NEW s \in Servers, BootBegin(s)
      PROVE  AloneInv'
  BY <1>2, BeginAlone
<1>3. ASSUME NEW s \in Servers, Skip(s)
      PROVE  AloneInv'
  BY <1>3, ProceedAlone DEF Skip, AtComponent, Booting, Dropped
<1>4. ASSUME NEW s \in Servers, Start(s)
      PROVE  AloneInv'
  <2>1. \A c \in Components \ {Current(s)} : status'[c] = status[c]
    BY <1>4 DEF Start, SetStatus, WalkInv, TypeOK
  <2> QED  BY <1>4, <2>1, StartAlone DEF Start, AtComponent, Booting
<1>5. ASSUME NEW s \in Servers, StartRaises(s) \/ HealthCheckTimesOut(s)
      PROVE  AloneInv'
  <2>1. phase[s] \in Booting /\ place[s] \in DOMAIN order /\ UnmetDeps(s) = {} /\ Fail(s)
    BY <1>5 DEF StartRaises, HealthCheckTimesOut, Booting, WalkInv
  <2> QED  BY <2>1, ProceedAlone DEF Fail, Dropped
<1>6. ASSUME NEW s \in Servers, StartReturns(s) \/ HealthCheckPasses(s)
      PROVE  AloneInv'
  <2>1. phase[s] \in Booting /\ place[s] \in DOMAIN order /\ UnmetDeps(s) = {}
    BY <1>6 DEF StartReturns, HealthCheckPasses, Booting, WalkInv
  <2>2. CASE StartReturns(s) /\ Current(s) \in Checked
    BY <2>1, <2>2, StartAlone DEF StartReturns, Booting
  <2>3. CASE Succeed(s)
    BY <2>1, <2>3, ProceedAlone DEF Succeed, Dropped
  <2> QED  BY <1>6, <2>2, <2>3 DEF StartReturns, HealthCheckPasses
<1>7. ASSUME NEW s \in Servers, BootEnd(s)
      PROVE  AloneInv'
  BY <1>7, EndAlone
<1>8. ASSUME NEW s \in Servers, Close(s)
      PROVE  AloneInv'
  <2>1. \A t \in Servers \ {s} : place'[t] = place[t]
    BY <1>8 DEF Close, WalkInv, TypeOK
  <2>2. CASE booted
    <3>1. place'[s] = Len(order) /\ Len(order) \in Nat
      BY <1>8, <2>2, Lengths DEF Close, WalkInv, TypeOK
    <3>2. \A i \in (place'[s] + 1)..Len(order) : ~IsRunning(order[i])'
      BY <3>1
    <3>3. Enter(s, "stopping") /\ past \subseteq past' /\ "shutdown" \in past'
      BY <1>8, <2>2 DEF Close
    <3>4. UNCHANGED <<dependsOn, order, status, booted, bootResult, failed>>
      BY <1>8 DEF Close
    <3> QED  BY <2>1, <2>2, <3>2, <3>3, <3>4, StopAlone DEF Stopping, IsRunning
  <2>3. CASE ~booted
    <3>1. Enter(s, "down") /\ past' = past
      BY <1>8, <2>3 DEF Close
    <3> QED  BY <1>8, <2>1, <3>1, ServeAlone DEF Close
  <2> QED  BY <2>2, <2>3
<1>9. ASSUME NEW s \in Servers, StopPasses(s) \/ StopCalled(s) \/ StopReturns(s)
      PROVE  AloneInv'
  <2>1. /\ phase[s] \in Stopping /\ booted /\ "shutdown" \in past
        /\ place[s] \in 1..Len(order) /\ Len(order) \in Nat /\ Current(s) \in Components
    BY <1>9, AtHand, Lengths
       DEF StopPasses, StopCalled, StopReturns, AtStop, Stopping, AloneInv
  <2>2. \A t \in Servers \ {s} : place'[t] = place[t]
    BY <1>9 DEF StopPasses, StopCalled, StopReturns, WalkInv, TypeOK
  <2>3. \A c \in Components : IsRunning(c)' => IsRunning(c)
    BY <1>9 DEF StopPasses, StopCalled, StopReturns, SetStatus, IsRunning, WalkInv, TypeOK
  <2>4. \A i \in (place[s] + 1)..Len(order) : ~IsRunning(order[i])' /\ ~IsRunning(order[i])
    <3> SUFFICES ASSUME NEW i \in (place[s] + 1)..Len(order)
                 PROVE  ~IsRunning(order[i])' /\ ~IsRunning(order[i])
      OBVIOUS
    <3>1. i \in 1..Len(order)
      BY <2>1
    <3>2. order[i] \in Components
      BY <3>1, Lengths DEF WalkInv, TypeOK
    <3>3. order' = order
      BY <1>9 DEF StopPasses, StopCalled, StopReturns
    <3> QED  BY <2>1, <2>3, <3>2, <3>3 DEF AloneInv, IsRunning
  <2>5. ~StopCalled(s) => /\ place'[s] = place[s] - 1
                          /\ status'[Current(s)] \notin {"healthy", "starting"}
    BY <1>9, <2>1 DEF StopPasses, StopReturns, SetStatus, IsRunning, Current, WalkInv, TypeOK
  <2>6. \A i \in (place'[s] + 1)..Len(order) : ~IsRunning(order[i])'
    <3>1. CASE StopCalled(s)
      <4>1. place'[s] = place[s]
        BY <3>1 DEF StopCalled
      <4> QED  BY <2>4, <4>1
    <3>2. CASE ~StopCalled(s)
      <4>1. order' = order
        BY <1>9 DEF StopPasses, StopCalled, StopReturns
      <4>2. ASSUME NEW i \in (place'[s] + 1)..Len(order), i \notin (place[s] + 1)..Len(order)
            PROVE  i = place[s]
        BY <2>1, <2>5, <3>2, <4>2
      <4> QED  BY <2>4, <2>5, <3>2, <4>1, <4>2 DEF IsRunning, Current
    <3> QED  BY <3>1, <3>2
  <2>7. \E p \in Stopping : Enter(s, p)
    BY <1>9 DEF StopPasses, StopCalled, StopReturns, AtStop, Enter, Stopping, WalkInv, TypeOK
  <2>8. UNCHANGED <<dependsOn, order, booted, bootResult, failed, past>>
    BY <1>9 DEF StopPasses, StopCalled, StopReturns
  <2> QED  BY <2>1, <2>2, <2>3, <2>6, <2>7, <2>8, StopAlone
<1>10. CASE UNCHANGED vars
  <2>1. UNCHANGED <<dependsOn, order, status, booted, bootResult, past, phase, place, failed>>
    BY <1>10 DEF vars, lifespanVars
  <2> QED  BY <2>1 DEF AloneInv, Alone, Done, IsRunning, ResultHonest, Resolvable
<1> QED  BY <1>1, <1>2, <1>3, <1>4, <1>5, <1>6, <1>7, <1>8, <1>9, <1>10
         DEF Next, Boot, Shutdown

LEMMA BootStep ==
  ASSUME BootInv, [Next]_vars
  PROVE  BootInv'
<1>1. past \subseteq past'
  BY DEF Next, Boot, Shutdown, BootAgain, BootUnresolvable, BootBegin, Skip, Start, StartRaises,
         StartReturns, HealthCheckTimesOut, HealthCheckPasses, Fail, Succeed, Proceed, BootEnd,
         Close, StopPasses, StopCalled, StopReturns, StopEnd, vars
<1> QED  BY <1>1, WalkStep, AloneStep DEF BootInv

LEMMA BootInit ==
  ASSUME Init
  PROVE  BootInv
<1>1. \A s \in Servers : phase[s] \notin Booting /\ phase[s] \notin Stopping
  BY DEF Init, Booting, Stopping
<1>2. ~booted /\ past = {}
  BY DEF Init
<1> QED  BY <1>1, <1>2, WalkInit DEF BootInv, AloneInv, ResultHonest

LEMMA BootInvariant == Spec => []BootInv
BY BootInit, BootStep, PTL DEF Spec

(* The variables stay within their types: a lifespan's place is at most one past the
   components. *)
THEOREM TypeCorrect == Spec => []TypeOK
<1>1. BootInv => TypeOK
  BY DEF BootInv, WalkInv
<1> QED  BY BootInvariant, <1>1, PTL

(* A component is started only when the same boot has brought up all it depends on,
   for every graph and however many boots run over the orchestrator; while they do not
   overlap these are also healthy. *)
THEOREM Dependencies == Spec => []DependenciesUp
<1>1. BootInv => DependenciesUp
  <2> SUFFICES ASSUME BootInv, NEW s \in Servers, phase[s] \in {"starting", "checking"}
               PROVE  /\ dependsOn[Current(s)] \subseteq Up(s)
                      /\ "overlap" \notin past => \A d \in dependsOn[Current(s)] : status[d] = "healthy"
    BY DEF DependenciesUp
  <2>1. phase[s] \in Booting /\ place[s] \in DOMAIN order /\ UnmetDeps(s) = {} /\ WalkInv
    BY DEF BootInv, WalkInv, Booting
  <2>2. dependsOn[Current(s)] \subseteq Passed(s)
    BY <2>1, Behind
  <2>3. dependsOn[Current(s)] \subseteq Up(s)
    BY <2>1, <2>2 DEF Up, Passed, UnmetDeps
  <2>4. ASSUME "overlap" \notin past, NEW d \in dependsOn[Current(s)]
        PROVE  status[d] = "healthy"
    <3>1. PICK i \in 1..(place[s] - 1) : order[i] = d
      BY <2>2 DEF Passed
    <3>2. d \notin failed[s]
      BY <2>3 DEF Up
    <3>3. Done(s, i)
      BY <2>1, <2>4 DEF BootInv, AloneInv, Alone
    <3> QED  BY <3>1, <3>2, <3>3 DEF Done
  <2> QED  BY <2>3, <2>4
<1> QED  BY BootInvariant, <1>1, PTL

(* stop() of a component runs only when nothing that depends on it runs, also when two
   lifespans shut down together. *)
THEOREM StoppedInReverse == Spec => []StopsDependentsFirst
<1>1. BootInv => StopsDependentsFirst
  <2> SUFFICES ASSUME BootInv, "overlap" \notin past, NEW s \in Servers, phase[s] = "halting",
                      NEW c \in Components, Current(s) \in dependsOn[c]
               PROVE  ~IsRunning(c)
    BY DEF StopsDependentsFirst
  <2>1. phase[s] \in Stopping /\ WalkInv /\ AloneInv
    BY DEF BootInv, Stopping
  <2>2. /\ Resolvable /\ place[s] \in 1..Len(order) /\ DOMAIN order = 1..Len(order)
        /\ Len(order) \in Nat
    BY <2>1, AtHand, Lengths DEF AloneInv
  <2>3. PICK i \in 1..Len(order) : order[i] = c
    BY <2>1, <2>2, Covers DEF WalkInv
  <2>4. PICK j \in 1..(i - 1) : order[j] = Current(s)
    BY <2>1, <2>2, <2>3, Topological DEF WalkInv
  <2>5. j \in DOMAIN order /\ j = place[s]
    BY <2>1, <2>2, <2>3, <2>4, Distinct DEF Current, WalkInv
  <2>6. i \in (place[s] + 1)..Len(order)
    BY <2>2, <2>3, <2>4, <2>5
  <2> QED  BY <2>1, <2>3, <2>6 DEF AloneInv
<1> QED  BY BootInvariant, <1>1, PTL

(* Before any shutdown the result of a boot that ran alone says whether every required
   component is healthy, and components are skipped for a dependency only. *)
THEOREM Honest == Spec => []ResultHonest
<1>1. BootInv => ResultHonest
  BY DEF BootInv, AloneInv, ResultHonest
<1> QED  BY BootInvariant, <1>1, PTL
=============================================================================
