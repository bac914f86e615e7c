------------------------- MODULE StandardQueueProofs -------------------------
(* Theorems about StandardQueue, for any number of messages, receivers and
   receives, whatever the redrive policy.

   The first part is what the queue's operations on `_visible` do to the set of
   messages in it; the second is type correctness; then come the safety of the
   queue and, last, the proof that it implements LeasedQueue. *)
EXTENDS StandardQueueRefinement, FiniteSetTheorems, SequenceTheorems, TLAPS

-----------------------------------------------------------------------------
(* The `_visible` queue as a set of messages. *)

(* Taking the head leaves the rest; the head may occur again in it. *)
LEMMA RangeTail ==
  ASSUME NEW S, NEW s \in Seq(S), s # <<>>
  PROVE  /\ Head(s) \in S
         /\ Tail(s) \in Seq(S)
         /\ Range(s) = {Head(s)} \cup Range(Tail(s))
<1>1. Len(s) \in Nat \ {0} /\ DOMAIN s = 1..Len(s) /\ Head(s) = s[1]
  BY EmptySeq, LenProperties
<1>2. /\ Head(s) \in S /\ Tail(s) \in Seq(S)
      /\ Len(Tail(s)) = Len(s) - 1 /\ DOMAIN Tail(s) = 1..Len(Tail(s))
      /\ \A i \in 1..Len(Tail(s)) : Tail(s)[i] = s[i + 1]
  BY HeadTailProperties, LenProperties
<1>3. Range(s) \subseteq {Head(s)} \cup Range(Tail(s))
  <2> SUFFICES ASSUME NEW i \in 1..Len(s)
               PROVE  s[i] = Head(s) \/ s[i] \in Range(Tail(s))
    BY <1>1 DEF Range
  <2>1. CASE i = 1
    BY <2>1, <1>1
  <2>2. CASE i # 1
    <3>1. i - 1 \in 1..Len(Tail(s)) /\ s[i] = Tail(s)[i - 1]
      BY <2>2, <1>1, <1>2
    <3> QED  BY <3>1, <1>2 DEF Range
  <2> QED  BY <2>1, <2>2
<1>4. {Head(s)} \cup Range(Tail(s)) \subseteq Range(s)
  <2>1. 1 \in 1..Len(s) /\ \A i \in 1..Len(Tail(s)) : i + 1 \in 1..Len(s)
    BY <1>1, <1>2
  <2> QED  BY <2>1, <1>1, <1>2 DEF Range
<1> QED  BY <1>2, <1>3, <1>4

(* Without repetitions, the head does not occur in the rest. *)
LEMMA InjectiveTail ==
  ASSUME NEW S, NEW s \in Seq(S), s # <<>>, IsInjective(s)
  PROVE  IsInjective(Tail(s)) /\ Head(s) \notin Range(Tail(s))
<1>1. Len(s) \in Nat \ {0} /\ DOMAIN s = 1..Len(s) /\ Head(s) = s[1]
  BY EmptySeq, LenProperties
<1>2. /\ Tail(s) \in Seq(S)
      /\ Len(Tail(s)) = Len(s) - 1 /\ DOMAIN Tail(s) = 1..Len(Tail(s))
      /\ \A i \in 1..Len(Tail(s)) : Tail(s)[i] = s[i + 1] /\ i + 1 \in 1..Len(s) /\ i + 1 # 1
  BY <1>1, HeadTailProperties, LenProperties
<1> QED  BY <1>1, <1>2 DEF Range, IsInjective

(* Putting a message at the end adds it. *)
LEMMA RangeAppend ==
  ASSUME NEW S, NEW s \in Seq(S), NEW x \in S
  PROVE  /\ Append(s, x) \in Seq(S)
         /\ Range(Append(s, x)) = Range(s) \cup {x}
         /\ IsInjective(s) /\ x \notin Range(s) => IsInjective(Append(s, x))
<1>1. Len(s) \in Nat /\ DOMAIN s = 1..Len(s)
  BY LenProperties
<1>2. /\ Append(s, x) \in Seq(S)
      /\ DOMAIN Append(s, x) = 1..(Len(s) + 1)
      /\ \A i \in 1..Len(s) : Append(s, x)[i] = s[i]
      /\ Append(s, x)[Len(s) + 1] = x
  BY AppendProperties, LenProperties
<1>3. 1..(Len(s) + 1) = 1..Len(s) \cup {Len(s) + 1}
  BY <1>1
<1> QED  BY <1>1, <1>2, <1>3 DEF Range, IsInjective

(* So does putting several, and messages that were not there stay single. *)
LEMMA RangeConcat ==
  ASSUME NEW S, NEW s \in Seq(S), NEW t \in Seq(S)
  PROVE  /\ s \o t \in Seq(S)
         /\ Range(s \o t) = Range(s) \cup Range(t)
         /\ IsInjective(s) /\ IsInjective(t) /\ Range(s) \cap Range(t) = {}
              => IsInjective(s \o t)
<1>1. /\ Len(s) \in Nat /\ DOMAIN s = 1..Len(s)
      /\ Len(t) \in Nat /\ DOMAIN t = 1..Len(t)
  BY LenProperties
<1>2. /\ s \o t \in Seq(S)
      /\ DOMAIN (s \o t) = 1..(Len(s) + Len(t))
      /\ \A i \in 1..(Len(s) + Len(t)) :
           (s \o t)[i] = IF i <= Len(s) THEN s[i] ELSE t[i - Len(s)]
  BY ConcatProperties, LenProperties
<1>3. \A i \in 1..Len(s) : i \in 1..(Len(s) + Len(t)) /\ (s \o t)[i] = s[i]
  BY <1>1, <1>2
<1>4. \A i \in 1..Len(t) : /\ Len(s) + i \in 1..(Len(s) + Len(t))
                           /\ (s \o t)[Len(s) + i] = t[i]
  BY <1>1, <1>2
<1>5. \A i \in 1..(Len(s) + Len(t)) :
        \/ i \in 1..Len(s) /\ (s \o t)[i] = s[i]
        \/ i - Len(s) \in 1..Len(t) /\ (s \o t)[i] = t[i - Len(s)]
  BY <1>1, <1>2
<1>6. Range(s \o t) = Range(s) \cup Range(t)
  BY <1>1, <1>2, <1>3, <1>4, <1>5 DEF Range
<1>7. ASSUME IsInjective(s), IsInjective(t), Range(s) \cap Range(t) = {}
      PROVE  IsInjective(s \o t)
  <2> SUFFICES ASSUME NEW i \in 1..(Len(s) + Len(t)), NEW j \in 1..(Len(s) + Len(t)),
                      (s \o t)[i] = (s \o t)[j]
               PROVE  i = j
    BY <1>2 DEF IsInjective
  <2>1. CASE i \in 1..Len(s) /\ j \in 1..Len(s)
    BY <2>1, <1>1, <1>3, <1>7 DEF IsInjective
  <2>2. CASE i - Len(s) \in 1..Len(t) /\ j - Len(s) \in 1..Len(t)
    BY <2>2, <1>1, <1>2, <1>7 DEF IsInjective
  <2>3. \A k \in 1..Len(s), l \in 1..Len(t) : s[k] # t[l]
    BY <1>1, <1>7 DEF Range
  <2> QED  BY <2>1, <2>2, <2>3, <1>1, <1>5
<1> QED  BY <1>2, <1>6, <1>7

(* The worker puts every message of a finite set back, in some order. *)
LEMMA ReappearAdds ==
  ASSUME NEW S, NEW T, IsFiniteSet(T), T \subseteq S, NEW order \in Orderings(T)
  PROVE  order \in Seq(S) /\ Range(order) = T /\ IsInjective(order)
<1>1. Cardinality(T) \in Nat
  BY FS_CardinalityType
<1>2. order \in [1..Cardinality(T) -> S] /\ order \in [1..Cardinality(T) -> T]
  BY DEF Orderings, Bijection, Injection, Surjection
<1>3. order \in Seq(S)
  BY <1>1, <1>2, SeqDef
<1>4. IsInjective(order) /\ \A x \in T : \E i \in 1..Cardinality(T) : order[i] = x
  BY DEF Orderings, Bijection, Injection, Surjection
<1> QED  BY <1>2, <1>3, <1>4 DEF Range

-----------------------------------------------------------------------------
(* Type correctness. The worker can put `_inflight` and `_delayed` back into
   `_visible` because both are finite. *)

TypedInv == TypeOK /\ IsFiniteSet(inflight) /\ IsFiniteSet(delayed)

(* A receiver between two of its steps holds a message. *)
LEMMA HandTyped ==
  ASSUME TypeOK, NEW r \in Receivers, phase[r] # "idle"
  PROVE  hand[r] \in Messages
BY DEF TypeOK

(* What releasing a receiver, and counting and copying a message, preserve. *)
LEMMA ReleaseTyped ==
  ASSUME TypeOK, NEW r \in Receivers, Release(r)
  PROVE  /\ phase' \in [Receivers -> {"idle", "taken", "replying"}]
         /\ hand' \in [Receivers -> Messages \cup {NoMessage}]
         /\ \A s \in Receivers : phase'[s] = "idle" <=> hand'[s] = NoMessage
BY DEF TypeOK, Release

LEMMA CountTyped ==
  ASSUME TypeOK, NEW m \in Messages, CountReceive(m)
  PROVE  receiveCount' \in [Messages -> Nat]
BY DEF TypeOK, CountReceive

LEMMA CopyTyped ==
  ASSUME TypeOK, NEW m \in Messages, CopyToDeadLetterQueue(m)
  PROVE  copies' \in [Messages -> Nat]
BY DEF TypeOK, CopyToDeadLetterQueue

(* What Append and the worker do to `_visible`. *)
LEMMA VisibleAppended ==
  ASSUME TypeOK, NEW m \in Messages, visible' = Append(visible, m)
  PROVE  /\ visible' \in Seq(Messages)
         /\ Range(visible') = Range(visible) \cup {m}
         /\ IsInjective(visible) /\ m \notin Range(visible) => IsInjective(visible')
<1>1. visible \in Seq(Messages)
  BY DEF TypeOK
<1> QED  BY <1>1, RangeAppend

LEMMA Reappeared ==
  ASSUME TypeOK, NEW T, IsFiniteSet(T), T \subseteq Messages, Reappear(T)
  PROVE  /\ visible' \in Seq(Messages)
         /\ Range(visible') = Range(visible) \cup T
         /\ IsInjective(visible) /\ Range(visible) \cap T = {} => IsInjective(visible')
<1>1. PICK order \in Orderings(T) : visible' = visible \o order
  BY DEF Reappear
<1>2. order \in Seq(Messages) /\ Range(order) = T /\ IsInjective(order)
  BY ReappearAdds
<1>3. visible \in Seq(Messages)
  BY DEF TypeOK
<1> HIDE DEF Orderings
<1> QED  BY <1>1, <1>2, <1>3, RangeConcat

(* What the worker puts back. *)
LEMMA PutBack ==
  ASSUME TypedInv
  PROVE  /\ IsFiniteSet(Expired) /\ Expired \subseteq Messages
         /\ IsFiniteSet(Ready) /\ Ready \subseteq Messages
BY FS_Subset DEF TypedInv, TypeOK, Expired, Ready

(* Every step of the queue keeps its variables in their types. *)
LEMMA TypedStep ==
  ASSUME TypedInv, [Next]_vars
  PROVE  TypedInv'
<1> USE DEF TypedInv, queueVars, messageVars, clockVars, receiverVars
<1>1. ASSUME NEW m \in Messages, VisibilityExpires(m) PROVE TypedInv'
  BY <1>1 DEF VisibilityExpires, TypeOK
<1>2. ASSUME NEW m \in Messages, DelayElapses(m) PROVE TypedInv'
  BY <1>2 DEF DelayElapses, TypeOK
<1>3. ASSUME NEW m \in Messages, RetentionPasses(m) PROVE TypedInv'
  BY <1>3 DEF RetentionPasses, TypeOK
<1>4. ASSUME NEW m \in Messages, NEW late \in BOOLEAN, Send(m, late) PROVE TypedInv'
  <2>1. visible' \in Seq(Messages) /\ delayed' \subseteq Messages /\ stored' \subseteq Messages
    <3>1. visible' \in Seq(Messages)
      <4>1. CASE visible' = Append(visible, m)
        BY <4>1, VisibleAppended
      <4> QED  BY <4>1, <1>4 DEF Send, Put, TypeOK
    <3> QED  BY <3>1, <1>4 DEF Send, Put, TypeOK
  <2>2. IsFiniteSet(delayed')
    BY <1>4, FS_AddElement DEF Send, Put
  <2> QED  BY <2>1, <2>2, <1>4 DEF Send, TypeOK
<1>5. ASSUME NEW r \in Receivers, GetDeleted(r) PROVE TypedInv'
  BY <1>5, RangeTail DEF GetDeleted, TypeOK
<1>6. ASSUME NEW r \in Receivers, GetAged(r) PROVE TypedInv'
  BY <1>6, RangeTail DEF GetAged, TypeOK
<1>7. ASSUME NEW r \in Receivers, GetVisible(r) PROVE TypedInv'
  <2>1. Head(visible) \in Messages /\ Tail(visible) \in Seq(Messages)
    BY <1>7, RangeTail DEF GetVisible, TypeOK
  <2> QED  BY <2>1, <1>7, StandardQueueAssumption DEF GetVisible, TypeOK
<1>8. ASSUME NEW r \in Receivers, DeadLetterOnReceive(r) PROVE TypedInv'
  <2>1. hand[r] \in Messages
    BY <1>8, HandTyped DEF DeadLetterOnReceive
  <2>2. deleted' \subseteq Messages /\ stored' \subseteq Messages
    BY <2>1, <1>8 DEF DeadLetterOnReceive, TypeOK
  <2> QED  BY <2>1, <2>2, <1>8, ReleaseTyped, CountTyped, CopyTyped
             DEF DeadLetterOnReceive, TypeOK
<1>9. ASSUME NEW r \in Receivers, DeliverHidden(r) PROVE TypedInv'
  <2>1. hand[r] \in Messages
    BY <1>9, HandTyped DEF DeliverHidden, HandOut
  <2>2. IsFiniteSet(inflight')
    BY <1>9, FS_AddElement DEF DeliverHidden
  <2> QED  BY <2>1, <2>2, <1>9, CountTyped DEF DeliverHidden, HandOut, TypeOK
<1>10. ASSUME NEW r \in Receivers, DeliverVisible(r) PROVE TypedInv'
  <2>1. hand[r] \in Messages
    BY <1>10, HandTyped DEF DeliverVisible, HandOut
  <2>2. visible' \in Seq(Messages)
    BY <2>1, <1>10, VisibleAppended DEF DeliverVisible
  <2> QED  BY <2>1, <2>2, <1>10, CountTyped DEF DeliverVisible, HandOut, TypeOK
<1>11. ASSUME NEW r \in Receivers, Reply(r) PROVE TypedInv'
  <2>1. hand[r] \in Messages
    BY <1>11, HandTyped DEF Reply
  <2> QED  BY <2>1, <1>11, ReleaseTyped, CopyTyped DEF Reply, TypeOK
<1>12. ASSUME NEW m \in Messages, DeleteMessage(m) PROVE TypedInv'
  BY <1>12, FS_Subset DEF DeleteMessage, TypeOK
<1>13. ASSUME NEW m \in Messages, ExtendVisibility(m) PROVE TypedInv'
  BY <1>13 DEF ExtendVisibility, TypeOK
<1>14. ASSUME NEW m \in Messages, ZeroVisibility(m) PROVE TypedInv'
  <2>1. visible' \in Seq(Messages) /\ IsFiniteSet(inflight')
    BY <1>14, VisibleAppended, FS_Subset DEF ZeroVisibility
  <2> QED  BY <2>1, <1>14 DEF ZeroVisibility, TypeOK
<1>15. ASSUME RequeueInflight PROVE TypedInv'
  <2>1. IsFiniteSet(inflight')
    BY <1>15, FS_Subset DEF RequeueInflight
  <2>2. visible' \in Seq(Messages)
    BY <1>15, PutBack, Reappeared DEF RequeueInflight
  <2> QED  BY <2>1, <2>2, <1>15 DEF RequeueInflight, TypeOK
<1>16. ASSUME EnqueueDelayed PROVE TypedInv'
  <2>1. IsFiniteSet(delayed')
    BY <1>16, FS_Subset DEF EnqueueDelayed
  <2>2. visible' \in Seq(Messages)
    BY <1>16, PutBack, Reappeared DEF EnqueueDelayed
  <2> QED  BY <2>1, <2>2, <1>16 DEF EnqueueDelayed, TypeOK
<1>17. ASSUME RetentionScan PROVE TypedInv'
  BY <1>17, FS_Subset DEF RetentionScan, TypeOK
<1>18. ASSUME Purge PROVE TypedInv'
  BY <1>18, EmptySeq, FS_EmptySet DEF Purge, TypeOK
<1>19. ASSUME UNCHANGED vars PROVE TypedInv'
  BY <1>19 DEF vars, TypeOK
<1> QED
  BY <1>1, <1>2, <1>3, <1>4, <1>5, <1>6, <1>7, <1>8, <1>9, <1>10, <1>11, <1>12, <1>13,
     <1>14, <1>15, <1>16, <1>17, <1>18, <1>19
     DEF Next, Tick, Client, Worker, Receive, Get, Deliver

LEMMA TypedInvariant == Spec => []TypedInv
<1>1. Init => TypedInv
  BY EmptySeq, FS_EmptySet DEF Init, TypedInv, TypeOK
<1>2. TypedInv /\ [Next]_vars => TypedInv'
  BY TypedStep
<1> QED  BY <1>1, <1>2, PTL DEF Spec

(* Every variable of the queue keeps its type, and a receiver holds a message
   exactly between its steps, whatever the clients, threads and clocks do. *)
THEOREM TypeCorrect == Spec => []TypeOK
<1>1. TypedInv => TypeOK
  BY DEF TypedInv
<1> QED  BY <1>1, TypedInvariant, PTL

-----------------------------------------------------------------------------
(* No message is lost. NoLostMessage is inductive once the types are known: the
   proof follows each message from one place to the next. *)

(* Who is counted too often stays so. *)
LEMMA ExhaustedStays ==
  ASSUME NEW n \in Nat, Exhausted(n)
  PROVE  Exhausted(n + 1)
BY StandardQueueAssumption DEF Exhausted

(* Releasing receiver r, or moving it on, frees at most its own message. *)
LEMMA HeldAfter ==
  ASSUME TypeOK, NEW r \in Receivers, NEW m \in Messages, m \in Held, m # hand[r],
         \A s \in Receivers \ {r} : phase'[s] = phase[s] /\ hand'[s] = hand[s]
  PROVE  m \in Held'
BY DEF Held

Somewhere == Range(visible) \cup inflight \cup delayed \cup Held

(* No step makes the queue forget a message it still accounts for. *)
LEMMA NoLostMessageStep ==
  ASSUME TypedInv, NoLostMessage, [Next]_vars
  PROVE  NoLostMessage'
<1> USE DEF TypedInv, queueVars, messageVars, clockVars, receiverVars
<1> TypedInv'
  BY TypedStep
<1> SUFFICES ASSUME NEW m \in Messages, m \in stored', m \notin deleted', m \notin Dropped'
             PROVE  m \in Somewhere'
  BY DEF NoLostMessage, TypeOK, Somewhere
<1>0. ASSUME UNCHANGED <<receiveCount, stored, deleted>>
      PROVE  m \in Somewhere
  BY <1>0 DEF NoLostMessage, Somewhere, Dropped
<1>1. ASSUME NEW x \in Messages, VisibilityExpires(x) \/ DelayElapses(x) \/ RetentionPasses(x)
      PROVE  m \in Somewhere'
  BY <1>1, <1>0 DEF VisibilityExpires, DelayElapses, RetentionPasses, Somewhere, Held
<1>2. ASSUME NEW x \in Messages, NEW late \in BOOLEAN, Send(x, late)
      PROVE  m \in Somewhere'
  <2>1. Range(visible) \subseteq Range(visible') /\ Held' = Held
    BY <1>2, VisibleAppended DEF Send, Put, Held
  <2>2. CASE m \in stored
    BY <2>1, <2>2, <1>2 DEF Send, Put, NoLostMessage, Somewhere, Dropped
  <2>3. CASE m \notin stored
    <3>1. m = x /\ (m \in delayed' \/ visible' = Append(visible, m))
      BY <2>3, <1>2 DEF Send, Put
    <3> QED  BY <3>1, VisibleAppended DEF Somewhere
  <2> QED  BY <2>2, <2>3
<1>3. ASSUME NEW r \in Receivers, Get(r)
      PROVE  m \in Somewhere'
  <2>1. /\ visible # <<>> /\ phase[r] = "idle" /\ visible' = Tail(visible)
        /\ UNCHANGED <<inflight, delayed, stored, receiveCount>> /\ deleted \subseteq deleted'
    BY <1>3 DEF Get, GetDeleted, GetAged, GetVisible
  <2>2. m \in Somewhere /\ Range(visible) = {Head(visible)} \cup Range(visible')
    BY <2>1, RangeTail DEF NoLostMessage, Somewhere, Dropped, TypeOK
  <2>3. Held \subseteq Held'
    BY <1>3 DEF Get, GetDeleted, GetAged, GetVisible, Held, TypeOK
  <2>4. m = Head(visible) => m \in Held'
    BY <1>3, <2>2 DEF Get, GetDeleted, GetAged, GetVisible, Held, TypeOK
  <2> QED  BY <2>1, <2>2, <2>3, <2>4 DEF Somewhere
<1>4. ASSUME NEW r \in Receivers, DeadLetterOnReceive(r)
      PROVE  m \in Somewhere'
  <2>1. hand[r] \in Messages
    BY <1>4, HandTyped DEF DeadLetterOnReceive
  <2>2. m # hand[r]
    BY <2>1, <1>4 DEF DeadLetterOnReceive, CountReceive, Dropped, TypeOK
  <2>3. m \in Somewhere
    BY <2>1, <2>2, <1>4
       DEF DeadLetterOnReceive, CountReceive, NoLostMessage, Somewhere, Dropped, TypeOK
  <2>4. m \in Held => m \in Held'
    BY <2>2, <1>4, HeldAfter DEF DeadLetterOnReceive, Release, TypeOK
  <2> QED  BY <2>3, <2>4, <1>4 DEF DeadLetterOnReceive, Somewhere
<1>5. ASSUME NEW r \in Receivers, DeliverHidden(r) \/ DeliverVisible(r)
      PROVE  m \in Somewhere'
  <2>1. HandOut(r) /\ hand[r] \in Messages
    BY <1>5, HandTyped DEF DeliverHidden, DeliverVisible, HandOut
  <2>2. hand[r] \in inflight' \cup Range(visible') /\ inflight \subseteq inflight'
        /\ Range(visible) \subseteq Range(visible')
    BY <1>5, <2>1, VisibleAppended DEF DeliverHidden, DeliverVisible
  <2>3. m \notin Dropped
    BY <2>1, ExhaustedStays DEF HandOut, CountReceive, Dropped, TypeOK
  <2>4. m \in Somewhere
    BY <2>1, <2>3 DEF HandOut, NoLostMessage, Somewhere
  <2>5. m \in Held /\ m # hand[r] => m \in Held'
    BY <2>1, HeldAfter DEF HandOut, TypeOK
  <2> QED  BY <2>1, <2>2, <2>4, <2>5 DEF HandOut, Somewhere
<1>6. ASSUME NEW r \in Receivers, Reply(r)
      PROVE  m \in Somewhere'
  <2>1. m \in Somewhere
    BY <1>6 DEF Reply, NoLostMessage, Somewhere, Dropped
  <2>2. Held' = Held
    BY <1>6 DEF Reply, Release, Held, TypeOK
  <2> QED  BY <2>1, <2>2, <1>6 DEF Reply, Somewhere
<1>7. ASSUME NEW x \in Messages, DeleteMessage(x)
      PROVE  m \in Somewhere'
  BY <1>7 DEF DeleteMessage, NoLostMessage, Somewhere, Dropped, Held
<1>8. ASSUME NEW x \in Messages, ExtendVisibility(x)
      PROVE  m \in Somewhere'
  BY <1>8, <1>0 DEF ExtendVisibility, Somewhere, Held
<1>9. ASSUME NEW x \in Messages, ZeroVisibility(x)
      PROVE  m \in Somewhere'
  <2>1. Range(visible') = Range(visible) \cup {x}
    BY <1>9, VisibleAppended DEF ZeroVisibility
  <2> QED  BY <2>1, <1>9, <1>0 DEF ZeroVisibility, Somewhere, Held
<1>10. ASSUME RequeueInflight
       PROVE  m \in Somewhere'
  <2>1. Range(visible') = Range(visible) \cup Expired
    BY <1>10, PutBack, Reappeared DEF RequeueInflight
  <2> QED  BY <2>1, <1>10, <1>0 DEF RequeueInflight, Somewhere, Held
<1>11. ASSUME EnqueueDelayed
       PROVE  m \in Somewhere'
  <2>1. Range(visible') = Range(visible) \cup Ready
    BY <1>11, PutBack, Reappeared DEF EnqueueDelayed
  <2> QED  BY <2>1, <1>11, <1>0 DEF EnqueueDelayed, Somewhere, Held
<1>12. ASSUME RetentionScan
       PROVE  m \in Somewhere'
  BY <1>12 DEF RetentionScan, NoLostMessage, Somewhere, Dropped, Held
<1>13. ASSUME Purge
       PROVE  m \in Somewhere'
  BY <1>13 DEF Purge
<1>14. ASSUME UNCHANGED vars
       PROVE  m \in Somewhere'
  BY <1>14, <1>0 DEF vars, Somewhere, Held
<1> QED
  BY <1>1, <1>2, <1>3, <1>4, <1>5, <1>6, <1>7, <1>8, <1>9, <1>10, <1>11, <1>12, <1>13, <1>14
     DEF Next, Tick, Client, Worker, Receive, Get, Deliver

(* A message that put kept and nobody deleted, purged, dead-lettered or found too
   old is in `_visible`, in `_inflight`, in `_delayed` or in the hands of a thread
   that will put it back: the race between ReceiveMessage, which takes a message
   off `_visible` without the mutex, and every other call loses none. *)
THEOREM NothingLost == Spec => []NoLostMessage
<1>1. Init => NoLostMessage
  BY DEF Init, NoLostMessage
<1>2. TypedInv /\ NoLostMessage /\ [Next]_vars => NoLostMessage'
  BY NoLostMessageStep
<1> QED  BY <1>1, <1>2, TypedInvariant, PTL DEF Spec

-----------------------------------------------------------------------------
(* A message is in one place at a time, when clients zero the visibility timeout
   of in-flight messages only. OnePlace is not inductive alone: Send appends a
   message without looking, so the queue must never hold one not yet sent. *)

OneInv == TypedInv /\ Somewhere \subseteq acked /\ OnePlace

(* The receiver that hands a message out, or drops it, was its only holder. *)
LEMMA HeldRemoved ==
  ASSUME TypeOK, OnePlace, NEW r \in Receivers, phase[r] = "taken", phase'[r] # "taken",
         \A s \in Receivers \ {r} : phase'[s] = phase[s] /\ hand'[s] = hand[s]
  PROVE  /\ Held' = Held \ {hand[r]}
         /\ hand[r] \in Held
         /\ \A s, t \in Receivers :
              phase'[s] = "taken" /\ phase'[t] = "taken" /\ hand'[s] = hand'[t] => s = t
<1>1. \A s, t \in Receivers :
        phase[s] = "taken" /\ phase[t] = "taken" /\ hand[s] = hand[t] => s = t
  BY DEF OnePlace
<1>2. hand[r] \in Held
  BY DEF Held, TypeOK
<1>3. Held' = Held \ {hand[r]}
  <2>1. ASSUME NEW m \in Messages
        PROVE  m \in Held' <=> m \in Held /\ m # hand[r]
    BY <1>1 DEF Held
  <2> QED  BY <2>1 DEF Held
<1> QED  BY <1>1, <1>2, <1>3

(* No step puts a message in a second place. *)
LEMMA OnePlaceStep ==
  ASSUME PoliteClients, OneInv, [Next]_vars
  PROVE  OneInv'
<1> USE DEF OneInv, TypedInv, queueVars, messageVars, clockVars, receiverVars
<1> TypedInv'
  BY TypedStep
<1> SUFFICES Somewhere' \subseteq acked' /\ OnePlace'
  OBVIOUS
<1> DEFINE Goal == Somewhere' \subseteq acked' /\ OnePlace'
<1>0. ASSUME UNCHANGED <<phase, hand>>
      PROVE  /\ Held' = Held
             /\ \A r, s \in Receivers :
                  phase'[r] = "taken" /\ phase'[s] = "taken" /\ hand'[r] = hand'[s] => r = s
  BY <1>0 DEF Held, OnePlace
<1>1. ASSUME NEW x \in Messages, VisibilityExpires(x) \/ DelayElapses(x) \/ RetentionPasses(x)
      PROVE  Goal
  BY <1>1, <1>0 DEF VisibilityExpires, DelayElapses, RetentionPasses, Somewhere, OnePlace
<1>2. ASSUME NEW x \in Messages, NEW late \in BOOLEAN, Send(x, late)
      PROVE  Goal
  <2>1. x \notin Somewhere
    BY <1>2 DEF Send
  <2>2. CASE visible' = visible
    BY <2>1, <2>2, <1>2, <1>0 DEF Send, Put, Somewhere, OnePlace
  <2>3. CASE visible' = Append(visible, x) /\ delayed' = delayed
    <3>1. Range(visible') = Range(visible) \cup {x} /\ IsInjective(visible')
      BY <2>1, <2>3, VisibleAppended DEF OnePlace, Somewhere
    <3> QED  BY <3>1, <2>1, <2>3, <1>2, <1>0 DEF Send, Somewhere, OnePlace
  <2> QED  BY <2>2, <2>3, <1>2 DEF Send, Put
<1>3. ASSUME NEW r \in Receivers, Get(r)
      PROVE  Goal
  <2>1. /\ visible # <<>> /\ phase[r] = "idle" /\ visible' = Tail(visible)
        /\ UNCHANGED <<inflight, delayed, acked>>
    BY <1>3 DEF Get, GetDeleted, GetAged, GetVisible
  <2>2. /\ Range(visible) = {Head(visible)} \cup Range(visible')
        /\ IsInjective(visible') /\ Head(visible) \notin Range(visible')
    <3>1. visible \in Seq(Messages) /\ IsInjective(visible)
      BY DEF TypeOK, OnePlace
    <3> QED  BY <3>1, <2>1, RangeTail, InjectiveTail
  <2>3. CASE UNCHANGED <<phase, hand>>
    BY <2>1, <2>2, <2>3, <1>0 DEF Somewhere, OnePlace
  <2>4. CASE GetVisible(r)
    <3>1. Held' = Held \cup {Head(visible)}
      BY <2>2, <2>4, <2>1 DEF GetVisible, Held, TypeOK, Somewhere
    <3>2. Head(visible) \notin Held
      BY <2>2 DEF OnePlace
    <3>3. \A s, t \in Receivers :
            phase'[s] = "taken" /\ phase'[t] = "taken" /\ hand'[s] = hand'[t] => s = t
      BY <3>2, <2>4, <2>1 DEF GetVisible, Held, OnePlace, TypeOK
    <3> QED  BY <3>1, <3>2, <3>3, <2>1, <2>2 DEF Somewhere, OnePlace
  <2> QED  BY <2>3, <2>4, <1>3 DEF Get, GetDeleted, GetAged
<1>4. ASSUME NEW r \in Receivers, DeadLetterOnReceive(r)
      PROVE  Goal
  <2>1. /\ Held' = Held \ {hand[r]}
        /\ \A s, t \in Receivers :
             phase'[s] = "taken" /\ phase'[t] = "taken" /\ hand'[s] = hand'[t] => s = t
    BY <1>4, HeldRemoved DEF DeadLetterOnReceive, Release, TypeOK
  <2> QED  BY <2>1, <1>4 DEF DeadLetterOnReceive, Somewhere, OnePlace
<1>5. ASSUME NEW r \in Receivers, HandOut(r), DeliverHidden(r) \/ DeliverVisible(r)
      PROVE  Goal
  <2>1. /\ Held' = Held \ {hand[r]} /\ hand[r] \in Held
        /\ \A s, t \in Receivers :
             phase'[s] = "taken" /\ phase'[t] = "taken" /\ hand'[s] = hand'[t] => s = t
    BY <1>5, HeldRemoved DEF HandOut, TypeOK
  <2>2. hand[r] \in acked /\ hand[r] \notin Range(visible) \cup inflight \cup delayed
    BY <2>1 DEF Somewhere, OnePlace
  <2>3. CASE DeliverHidden(r)
    BY <2>1, <2>2, <2>3 DEF DeliverHidden, HandOut, Somewhere, OnePlace
  <2>4. CASE DeliverVisible(r)
    <3>1. Range(visible') = Range(visible) \cup {hand[r]} /\ IsInjective(visible')
      <4>1. hand[r] \in Messages
        BY <2>1 DEF Held
      <4>2. visible' = Append(visible, hand[r])
        BY <2>4 DEF DeliverVisible
      <4> QED  BY <4>1, <4>2, <2>2, VisibleAppended DEF OnePlace
    <3> QED  BY <3>1, <2>1, <2>2, <2>4 DEF DeliverVisible, HandOut, Somewhere, OnePlace
  <2> QED  BY <2>3, <2>4, <1>5
<1>6. ASSUME NEW r \in Receivers, Reply(r)
      PROVE  Goal
  <2>1. /\ Held' = Held
        /\ \A s \in Receivers : phase'[s] = "taken" => phase[s] = "taken" /\ hand'[s] = hand[s]
    BY <1>6 DEF Reply, Release, Held, TypeOK
  <2> QED  BY <2>1, <1>6 DEF Reply, Somewhere, OnePlace
<1>7. ASSUME NEW x \in Messages, DeleteMessage(x)
      PROVE  Goal
  BY <1>7, <1>0 DEF DeleteMessage, Somewhere, OnePlace
<1>8. ASSUME NEW x \in Messages, ExtendVisibility(x)
      PROVE  Goal
  BY <1>8, <1>0 DEF ExtendVisibility, Somewhere, OnePlace
<1>9. ASSUME NEW x \in Messages, ZeroVisibility(x)
      PROVE  Goal
  <2>1. x \in inflight
    BY <1>9 DEF ZeroVisibility
  <2>2. Range(visible') = Range(visible) \cup {x} /\ IsInjective(visible')
    BY <2>1, <1>9, VisibleAppended DEF ZeroVisibility, OnePlace
  <2> QED  BY <2>1, <2>2, <1>9, <1>0 DEF ZeroVisibility, Somewhere, OnePlace
<1>10. ASSUME RequeueInflight
       PROVE  Goal
  <2>1. Expired \subseteq inflight
    BY DEF Expired
  <2>2. Range(visible') = Range(visible) \cup Expired /\ IsInjective(visible')
    BY <2>1, <1>10, PutBack, Reappeared DEF RequeueInflight, OnePlace
  <2> QED  BY <2>1, <2>2, <1>10, <1>0 DEF RequeueInflight, Somewhere, OnePlace
<1>11. ASSUME EnqueueDelayed
       PROVE  Goal
  <2>1. Ready \subseteq delayed
    BY DEF Ready
  <2>2. Range(visible') = Range(visible) \cup Ready /\ IsInjective(visible')
    BY <2>1, <1>11, PutBack, Reappeared DEF EnqueueDelayed, OnePlace
  <2> QED  BY <2>1, <2>2, <1>11, <1>0 DEF EnqueueDelayed, Somewhere, OnePlace
<1>12. ASSUME RetentionScan
       PROVE  Goal
  BY <1>12, <1>0 DEF RetentionScan, Somewhere, OnePlace
<1>13. ASSUME Purge
       PROVE  Goal
  <2>1. Range(visible') = {} /\ IsInjective(visible')
    BY <1>13 DEF Purge, Range, IsInjective
  <2> QED  BY <2>1, <1>13, <1>0 DEF Purge, Somewhere, OnePlace
<1>14. ASSUME UNCHANGED vars
       PROVE  Goal
  BY <1>14, <1>0 DEF vars, Somewhere, OnePlace
<1> QED
  BY <1>1, <1>2, <1>3, <1>4, <1>5, <1>6, <1>7, <1>8, <1>9, <1>10, <1>11, <1>12, <1>13, <1>14
     DEF Next, Tick, Client, Worker, Receive, Deliver, DeliverHidden, DeliverVisible

(* With clients that zero the visibility timeout of in-flight messages only, a
   message is never twice in `_visible`, never there while it is in flight or
   delayed, and never held by two receivers: a received message stays hidden. *)
THEOREM NeverTwice == ASSUME PoliteClients PROVE Spec => []OnePlace
<1>1. Init => OneInv
  <2>1. Init => TypedInv
    BY EmptySeq, FS_EmptySet DEF Init, TypedInv, TypeOK
  <2>2. Init => Range(visible) = {} /\ IsInjective(visible) /\ Held = {}
    BY DEF Init, Range, IsInjective, Held
  <2> QED  BY <2>1, <2>2 DEF Init, OneInv, OnePlace, Somewhere
<1>2. OneInv /\ [Next]_vars => OneInv'
  BY OnePlaceStep
<1>3. OneInv => OnePlace
  BY DEF OneInv
<1> QED  BY <1>1, <1>2, <1>3, PTL DEF Spec

-----------------------------------------------------------------------------
(* What a deleted message can still do: nothing. *)

(* A message some receiver does not hold can neither be taken, because its flag
   is set, nor be counted, because only holders count. *)
LEMMA NoRevivalStep ==
  ASSUME TypeOK, [Next]_vars, NEW m \in Messages, m \in deleted, m \notin Held
  PROVE  m \in deleted' /\ m \notin Held' /\ receiveCount'[m] = receiveCount[m]
<1> USE DEF queueVars, messageVars, clockVars, receiverVars
<1>1. CASE Tick
  BY <1>1 DEF Tick, VisibilityExpires, DelayElapses, RetentionPasses, Held
<1>2. CASE Client
  BY <1>2 DEF Client, Send, DeleteMessage, ExtendVisibility, ZeroVisibility, Purge, Held
<1>3. CASE Worker
  BY <1>3 DEF Worker, RequeueInflight, EnqueueDelayed, RetentionScan, Held
<1>4. ASSUME NEW r \in Receivers, Get(r)
      PROVE  m \in deleted' /\ m \notin Held' /\ receiveCount'[m] = receiveCount[m]
  BY <1>4 DEF Get, GetDeleted, GetAged, GetVisible, Receivable, Held, TypeOK
<1>5. ASSUME NEW r \in Receivers, Deliver(r)
      PROVE  m \in deleted' /\ m \notin Held' /\ receiveCount'[m] = receiveCount[m]
  <2>1. phase[r] = "taken" /\ m # hand[r]
    BY <1>5 DEF Deliver, DeadLetterOnReceive, DeliverHidden, DeliverVisible, HandOut, Held
  <2>2. CountReceive(hand[r]) /\ deleted \subseteq deleted'
    BY <1>5 DEF Deliver, DeadLetterOnReceive, DeliverHidden, DeliverVisible, HandOut
  <2>3. phase'[r] # "taken" /\ \A s \in Receivers \ {r} : phase'[s] = phase[s] /\ hand'[s] = hand[s]
    BY <1>5 DEF Deliver, DeadLetterOnReceive, DeliverHidden, DeliverVisible, HandOut, Release, TypeOK
  <2> QED  BY <2>1, <2>2, <2>3 DEF CountReceive, Held, TypeOK
<1>6. ASSUME NEW r \in Receivers, Reply(r)
      PROVE  m \in deleted' /\ m \notin Held' /\ receiveCount'[m] = receiveCount[m]
  BY <1>6 DEF Reply, Release, Held, TypeOK
<1>7. CASE UNCHANGED vars
  BY <1>7 DEF vars, Held
<1> QED  BY <1>1, <1>2, <1>3, <1>4, <1>5, <1>6, <1>7 DEF Next, Receive

(* A message whose deleted flag is set and that no receiver holds keeps the flag,
   is never taken by a receiver and never counted again: not by a receive, not by
   the worker, not by a late ChangeMessageVisibility, for impolite clients too. *)
THEOREM DeletedForGood == Spec => NoRevival
<1>1. TypeOK /\ [Next]_vars =>
        [\A m \in Messages : m \in deleted \ Held =>
           /\ m \in deleted' \ Held'
           /\ receiveCount'[m] = receiveCount[m]]_vars
  BY NoRevivalStep
<1> QED  BY <1>1, TypeCorrect, PTL DEF Spec, NoRevival

-----------------------------------------------------------------------------
(* Dead-lettering. *)

(* No step copies a message to the dead-letter queue early or leaves it here. *)
LEMMA DeadLetteredLateStep ==
  ASSUME TypeOK, DeadLetteredLate, [Next]_vars
  PROVE  DeadLetteredLate'
<1> USE DEF queueVars, messageVars, clockVars, receiverVars
<1> SUFFICES ASSUME NEW m \in Messages, copies'[m] > 0
             PROVE  receiveCount'[m] > MaxReceiveCount /\ m \in deleted'
  BY DEF DeadLetteredLate
<1>0. ASSUME deleted \subseteq deleted', UNCHANGED copies, receiveCount' = receiveCount
      PROVE  receiveCount'[m] > MaxReceiveCount /\ m \in deleted'
  BY <1>0 DEF DeadLetteredLate
<1>1. CASE Tick
  BY <1>1, <1>0 DEF Tick, VisibilityExpires, DelayElapses, RetentionPasses
<1>2. CASE Client
  BY <1>2, <1>0 DEF Client, Send, DeleteMessage, ExtendVisibility, ZeroVisibility, Purge
<1>3. CASE Worker
  BY <1>3, <1>0 DEF Worker, RequeueInflight, EnqueueDelayed, RetentionScan
<1>4. ASSUME NEW r \in Receivers, Get(r)
      PROVE  receiveCount'[m] > MaxReceiveCount /\ m \in deleted'
  BY <1>4, <1>0 DEF Get, GetDeleted, GetAged, GetVisible
<1>5. ASSUME NEW r \in Receivers, DeadLetterOnReceive(r)
      PROVE  receiveCount'[m] > MaxReceiveCount /\ m \in deleted'
  <2>1. CASE m = hand[r]
    BY <2>1, <1>5, StandardQueueAssumption
       DEF DeadLetterOnReceive, CountReceive, CopyToDeadLetterQueue, Exhausted,
           DeadLetteredLate, TypeOK
  <2>2. CASE m # hand[r]
    BY <2>2, <1>5
       DEF DeadLetterOnReceive, CountReceive, CopyToDeadLetterQueue, DeadLetteredLate, TypeOK
  <2> QED  BY <2>1, <2>2
<1>6. ASSUME NEW r \in Receivers, HandOut(r)
      PROVE  receiveCount'[m] > MaxReceiveCount /\ m \in deleted'
  BY <1>6, StandardQueueAssumption DEF HandOut, CountReceive, DeadLetteredLate, TypeOK
<1>7. ASSUME NEW r \in Receivers, Reply(r)
      PROVE  receiveCount'[m] > MaxReceiveCount /\ m \in deleted'
  BY <1>7, StandardQueueAssumption
     DEF Reply, Exhausted, CopyToDeadLetterQueue, DeadLetteredLate, TypeOK
<1>8. CASE UNCHANGED vars
  BY <1>8, <1>0 DEF vars
<1> QED
  BY <1>1, <1>2, <1>3, <1>4, <1>5, <1>6, <1>7, <1>8
     DEF Next, Receive, Deliver, DeliverHidden, DeliverVisible

(* A message is copied to the dead-letter queue only once the queue has counted
   more receives than maxReceiveCount, and its deleted flag is then set, wherever
   in the queue's containers the message still is. *)
THEOREM DeadLetteredInTime == Spec => []DeadLetteredLate
<1>1. Init => DeadLetteredLate
  BY DEF Init, DeadLetteredLate
<1>2. TypeOK /\ DeadLetteredLate /\ [Next]_vars => DeadLetteredLate'
  BY DeadLetteredLateStep
<1> QED  BY <1>1, <1>2, TypeCorrect, PTL DEF Spec
-----------------------------------------------------------------------------
(* StandardQueue implements LeasedQueue. What the queue remembers, holds or has
   marked was sent and was not too long, so a message of which nothing is known
   is one the promise calls "unsent". *)

Sent == acked \ Oversized

KnownInv ==
  /\ OneInv
  /\ Somewhere \cup stored \cup receipts \cup deleted \subseteq Sent
  /\ \A r \in Receivers : phase[r] # "idle" => hand[r] \in Sent

(* Only Send lets the queue know of a message. *)
LEMMA KnownStep ==
  ASSUME PoliteClients, KnownInv, [Next]_vars
  PROVE  KnownInv'
<1> USE DEF KnownInv, queueVars, messageVars, clockVars, receiverVars
<1> DEFINE Goal == /\ Somewhere' \cup stored' \cup receipts' \cup deleted' \subseteq Sent'
                   /\ \A r \in Receivers : phase'[r] # "idle" => hand'[r] \in Sent'
<1> OneInv' /\ TypeOK
  BY OnePlaceStep DEF OneInv, TypedInv
<1> SUFFICES Goal
  OBVIOUS
<1>0. ASSUME UNCHANGED <<phase, hand>> PROVE Held' = Held
  BY <1>0 DEF Held
<1>1. ASSUME NEW x \in Messages, VisibilityExpires(x) \/ DelayElapses(x) \/ RetentionPasses(x)
      PROVE  Goal
  BY <1>1, <1>0 DEF VisibilityExpires, DelayElapses, RetentionPasses, Somewhere, Sent
<1>2. ASSUME NEW x \in Messages, NEW late \in BOOLEAN, Send(x, late)
      PROVE  Goal
  <2>1. Sent' = IF x \in Oversized THEN Sent ELSE Sent \cup {x}
    BY <1>2 DEF Send, Sent
  <2>2. Range(visible') \subseteq IF x \in Oversized THEN Range(visible) ELSE Range(visible) \cup {x}
    <3>1. CASE visible' = Append(visible, x)
      BY <3>1, VisibleAppended, <1>2 DEF Send, Put
    <3> QED  BY <3>1, <1>2 DEF Send, Put
  <2> QED  BY <2>1, <2>2, <1>2, <1>0 DEF Send, Put, Somewhere
<1>3. ASSUME NEW r \in Receivers, Get(r)
      PROVE  Goal
  <2>1. /\ visible # <<>> /\ visible' = Tail(visible)
        /\ UNCHANGED <<inflight, delayed, stored, receipts, acked>>
        /\ deleted' \subseteq deleted \cup {Head(visible)}
    BY <1>3 DEF Get, GetDeleted, GetAged, GetVisible
  <2>2. Range(visible) = {Head(visible)} \cup Range(visible')
    BY <2>1, RangeTail DEF TypeOK
  <2>3. Head(visible) \in Sent /\ Sent' = Sent
    BY <2>1, <2>2 DEF Somewhere, Sent
  <2>4. /\ Held' \subseteq Held \cup {Head(visible)}
        /\ \A s \in Receivers : phase'[s] # "idle" =>
             (phase[s] # "idle" /\ hand'[s] = hand[s]) \/ hand'[s] = Head(visible)
    BY <1>3 DEF Get, GetDeleted, GetAged, GetVisible, Held, TypeOK
  <2> QED  BY <2>1, <2>2, <2>3, <2>4 DEF Somewhere
<1>4. ASSUME NEW r \in Receivers, Deliver(r) \/ Reply(r)
      PROVE  Goal
  <2>1. /\ phase[r] # "idle" /\ UNCHANGED <<delayed, acked>>
        /\ stored' \subseteq stored /\ receipts' \subseteq receipts \cup {hand[r]}
        /\ deleted' \subseteq deleted \cup {hand[r]} /\ inflight' \subseteq inflight \cup {hand[r]}
        /\ visible' \in {visible, Append(visible, hand[r])}
    BY <1>4 DEF Deliver, DeadLetterOnReceive, DeliverHidden, DeliverVisible, HandOut, Reply
  <2>2. hand[r] \in Sent /\ hand[r] \in Messages /\ Sent' = Sent
    BY <2>1, HandTyped DEF Sent
  <2>3. Range(visible') \subseteq Range(visible) \cup {hand[r]}
    BY <2>1, <2>2, VisibleAppended
  <2>4. /\ Held' \subseteq Held
        /\ \A s \in Receivers : phase'[s] # "idle" => phase[s] # "idle" /\ hand'[s] = hand[s]
    BY <1>4 DEF Deliver, DeadLetterOnReceive, DeliverHidden, DeliverVisible, HandOut, Reply,
                Release, Held, TypeOK
  <2> QED  BY <2>1, <2>2, <2>3, <2>4 DEF Somewhere
<1>5. ASSUME NEW x \in Messages, DeleteMessage(x) \/ ExtendVisibility(x)
      PROVE  Goal
  BY <1>5, <1>0 DEF DeleteMessage, ExtendVisibility, Somewhere, Sent
<1>6. ASSUME NEW x \in Messages, ZeroVisibility(x)
      PROVE  Goal
  <2>1. Range(visible') = Range(visible) \cup {x}
    BY <1>6, VisibleAppended DEF ZeroVisibility
  <2> QED  BY <2>1, <1>6, <1>0 DEF ZeroVisibility, Somewhere, Sent
<1>7. CASE RequeueInflight
  <2>1. Range(visible') = Range(visible) \cup Expired /\ Expired \subseteq inflight
    BY <1>7, PutBack, Reappeared DEF RequeueInflight, OneInv, Expired
  <2> QED  BY <2>1, <1>7, <1>0 DEF RequeueInflight, Somewhere, Sent
<1>8. CASE EnqueueDelayed
  <2>1. Range(visible') = Range(visible) \cup Ready /\ Ready \subseteq delayed
    BY <1>8, PutBack, Reappeared DEF EnqueueDelayed, OneInv, Ready
  <2> QED  BY <2>1, <1>8, <1>0 DEF EnqueueDelayed, Somewhere, Sent
<1>9. CASE RetentionScan
  BY <1>9, <1>0 DEF RetentionScan, Somewhere, Sent
<1>10. CASE Purge
  <2>1. Range(visible') = {}
    BY <1>10 DEF Purge, Range
  <2> QED  BY <2>1, <1>10, <1>0 DEF Purge, Somewhere, Sent
<1>11. CASE UNCHANGED vars
  BY <1>11, <1>0 DEF vars, Somewhere, Sent
<1> HIDE DEF Goal
<1> QED
  BY <1>1, <1>2, <1>3, <1>4, <1>5, <1>6, <1>7, <1>8, <1>9, <1>10, <1>11
     DEF Next, Tick, Client, Worker, Receive

(* What a message's containers and flags say of it, before a step and after. *)
LEMMA StandingNow ==
  ASSUME KnownInv, NEW m \in Messages
  PROVE  /\ m \in deleted => Standing(m) = "gone"
         /\ m \notin deleted /\ m \in inflight => Standing(m) = "leased"
         /\ m \notin deleted \cup inflight /\ m \in Somewhere => Standing(m) = "queued"
         /\ m \notin Somewhere /\ m \in Sent => Standing(m) = "gone"
         /\ m \notin Sent => Standing(m) = "unsent"
BY DEF Standing, Somewhere, Sent, KnownInv

LEMMA StandingThen ==
  ASSUME KnownInv', NEW m \in Messages
  PROVE  /\ m \in deleted' => Standing(m)' = "gone"
         /\ m \notin deleted' /\ m \in inflight' => Standing(m)' = "leased"
         /\ m \notin deleted' \cup inflight' /\ m \in Somewhere' => Standing(m)' = "queued"
         /\ m \notin Somewhere' /\ m \in Sent' => Standing(m)' = "gone"
         /\ m \notin Sent' => Standing(m)' = "unsent"
BY DEF Standing, Somewhere, Sent, KnownInv

Unmoved(m) ==
  /\ m \in deleted' <=> m \in deleted
  /\ m \in inflight' <=> m \in inflight
  /\ m \in Somewhere' <=> m \in Somewhere
  /\ m \in Sent' <=> m \in Sent

LEMMA StandingKept ==
  ASSUME KnownInv, KnownInv', NEW m \in Messages, Unmoved(m)
  PROVE  Standing(m)' = Standing(m)
<1>1. m \in deleted \/ m \in inflight \/ m \in Somewhere \/ m \in Sent \/ m \notin Sent
  OBVIOUS
<1> QED  BY StandingNow, StandingThen DEF Unmoved

(* The steps of the promise, recognised by what they do to every message. *)
LEMMA Stutters ==
  ASSUME \A m \in Messages : Standing(m)' = Standing(m) /\ Attempts(m)' = Attempts(m),
         Held' = Held
  PROVE  UNCHANGED Promise!vars
BY DEF Promise!vars

LEMMA Removes ==
  ASSUME NEW S \in SUBSET Messages,
         \A m \in S : Standing(m) \in {"queued", "leased"},
         \A m \in Messages : Standing(m)' = IF m \in S THEN "gone" ELSE Standing(m),
         \A m \in Messages : Attempts(m)' = Attempts(m),
         Held' = Held
  PROVE  Promise!Next
<1>1. Promise!Remove(S)
  BY DEF Promise!Remove, Promise!Becomes
<1> QED  BY <1>1 DEF Promise!Next

(* A step that moves nothing but into deletion, or out of every place. *)
LEMMA Forgets ==
  ASSUME KnownInv, KnownInv', Held' = Held, receiveCount' = receiveCount, acked' = acked,
         \A m \in Messages : \/ Unmoved(m)
                             \/ m \in Sent /\ (m \in deleted' \/ m \notin Somewhere')
  PROVE  Promise!Next
<1> DEFINE S == {m \in Messages : Standing(m) \in {"queued", "leased"} /\ Standing(m)' = "gone"}
<1>1. Sent' = Sent
  BY DEF Sent
<1>2. \A m \in Messages : Standing(m)' = IF m \in S THEN "gone" ELSE Standing(m)
  <2> SUFFICES ASSUME NEW m \in Messages, Standing(m)' # Standing(m)
               PROVE  Standing(m)' = "gone" /\ Standing(m) \in {"queued", "leased"}
    OBVIOUS
  <2>1. m \in Sent /\ (m \in deleted' \/ m \notin Somewhere')
    BY StandingKept
  <2>2. Standing(m)' = "gone"
    BY <2>1, <1>1, StandingThen
  <2>3. Standing(m) \in {"gone", "leased", "queued"}
    BY <2>1, StandingNow
  <2> QED  BY <2>2, <2>3
<1>3. \A m \in Messages : Attempts(m)' = Attempts(m)
  BY DEF Attempts, Exhausted
<1>4. S \in SUBSET Messages /\ \A m \in S : Standing(m) \in {"queued", "leased"}
  OBVIOUS
<1> HIDE DEF S
<1> QED  BY <1>2, <1>3, <1>4, Removes

(* A step that moves no message from one standing to another. *)
LEMMA Idles ==
  ASSUME KnownInv, KnownInv', Held' = Held, receiveCount' = receiveCount,
         \A m \in Messages : Unmoved(m)
  PROVE  UNCHANGED Promise!vars
<1>1. \A m \in Messages : Standing(m)' = Standing(m)
  BY StandingKept
<1>2. \A m \in Messages : Attempts(m)' = Attempts(m)
  BY DEF Attempts, Exhausted
<1> QED  BY <1>1, <1>2, Stutters

(* A step that makes leased messages visible again. *)
LEMMA Requeues ==
  ASSUME KnownInv, KnownInv', Held' = Held, receiveCount' = receiveCount,
         NEW S \in SUBSET Messages, S \subseteq inflight \ deleted,
         S \subseteq Somewhere' \ (inflight' \cup deleted'),
         \A m \in Messages \ S : Unmoved(m)
  PROVE  Promise!Next
<1>1. \A m \in S : Standing(m) = "leased"
  BY StandingNow
<1>2. \A m \in Messages : Standing(m)' = IF m \in S THEN "queued" ELSE Standing(m)
  BY StandingKept, StandingThen
<1>3. \A m \in Messages : Attempts(m)' = Attempts(m)
  BY DEF Attempts, Exhausted
<1>4. Promise!EndLeases(S)
  BY <1>1, <1>2, <1>3 DEF Promise!EndLeases, Promise!Becomes
<1> QED  BY <1>4 DEF Promise!Next

(* Every step of the queue is a step of the promise, or changes nothing in it. *)
LEMMA PromiseStep ==
  ASSUME PoliteClients, KnownInv, [Next]_vars
  PROVE  Promise!Next \/ UNCHANGED Promise!vars
<1> USE DEF queueVars, messageVars, clockVars, receiverVars
<1> DEFINE Goal == Promise!Next \/ UNCHANGED Promise!vars
<1> /\ KnownInv' /\ TypedInv /\ TypeOK /\ OnePlace
    /\ stored \cup receipts \cup deleted \cup Somewhere \subseteq Sent
  BY KnownStep DEF KnownInv, OneInv, TypedInv
<1>0. ASSUME UNCHANGED <<phase, hand>> PROVE Held' = Held
  BY <1>0 DEF Held
<1>1. ASSUME NEW x \in Messages, \/ VisibilityExpires(x) \/ DelayElapses(x)
                                 \/ RetentionPasses(x) \/ ExtendVisibility(x)
      PROVE  Goal
  <2>1. Held' = Held /\ receiveCount' = receiveCount /\ \A m \in Messages : Unmoved(m)
    BY <1>1, <1>0 DEF VisibilityExpires, DelayElapses, RetentionPasses, ExtendVisibility,
                      Unmoved, Somewhere, Sent
  <2> QED  BY <2>1, Idles
<1>2. ASSUME NEW x \in Messages, NEW late \in BOOLEAN, Send(x, late)
      PROVE  Goal
  <2>1. Held' = Held /\ receiveCount' = receiveCount /\ x \notin Sent
    BY <1>2, <1>0 DEF Send, Sent
  <2>2. Range(visible') = IF x \in Oversized \/ late THEN Range(visible) ELSE Range(visible) \cup {x}
    BY VisibleAppended, <1>2 DEF Send, Put
  <2>3. \A m \in Messages \ {x} : Unmoved(m)
    BY <2>1, <2>2, <1>2 DEF Send, Put, Unmoved, Somewhere, Sent
  <2>4. CASE x \in Oversized
    <3>1. Unmoved(x)
      BY <2>1, <2>2, <2>4, <1>2 DEF Send, Put, Unmoved, Somewhere, Sent
    <3> QED  BY <2>1, <2>3, <3>1, Idles
  <2>5. CASE x \notin Oversized
    <3>1. x \in Somewhere' /\ x \notin deleted' \cup inflight'
      BY <2>1, <2>2, <2>5, <1>2 DEF Send, Put, Somewhere
    <3>2. Standing(x) = "unsent" /\ Standing(x)' = "queued"
      BY <2>1, <3>1, StandingNow, StandingThen
    <3>3. \A m \in Messages \ {x} : Standing(m)' = Standing(m)
      BY <2>3, StandingKept
    <3>4. \A m \in Messages : Attempts(m)' = Attempts(m)
      BY <2>1 DEF Attempts, Exhausted
    <3>5. Promise!Send(x)
      BY <2>1, <3>2, <3>3, <3>4 DEF Promise!Send, Promise!Becomes
    <3> QED  BY <3>5 DEF Promise!Next
  <2> QED  BY <2>4, <2>5
<1>3. ASSUME NEW r \in Receivers, Get(r)
      PROVE  Goal
  <2>1. /\ visible # <<>> /\ phase[r] = "idle" /\ visible' = Tail(visible)
        /\ UNCHANGED <<inflight, delayed, receiveCount, acked>>
    BY <1>3 DEF Get, GetDeleted, GetAged, GetVisible
  <2> DEFINE h == Head(visible)
  <2>2. h \in Messages /\ Range(visible) = {h} \cup Range(visible') /\ h \notin Range(visible')
    <3>1. visible \in Seq(Messages) /\ IsInjective(visible)
      BY DEF TypeOK, OnePlace
    <3> QED  BY <3>1, <2>1, RangeTail, InjectiveTail
  <2>3. h \in Sent /\ h \in Somewhere /\ h \notin inflight \cup delayed \cup Held
    BY <2>2 DEF OnePlace, Somewhere
  <2> HIDE DEF h
  <2>4. CASE GetDeleted(r) \/ GetAged(r)
    <3>1. Held' = Held /\ h \in deleted'
      BY <2>4, <1>0 DEF GetDeleted, GetAged, h
    <3>2. \A m \in Messages \ {h} : Unmoved(m)
      BY <2>1, <2>2, <2>4, <3>1 DEF GetDeleted, GetAged, h, Unmoved, Somewhere, Sent
    <3> QED  BY <2>1, <2>3, <3>1, <3>2, Forgets
  <2>5. CASE GetVisible(r)
    <3>1. Held' = Held \cup {h} /\ h \notin deleted /\ deleted' = deleted
      BY <2>1, <2>2, <2>5 DEF GetVisible, Receivable, Held, h, TypeOK
    <3>2. \A m \in Messages : Unmoved(m)
      BY <2>1, <2>2, <3>1 DEF Unmoved, Somewhere, Sent
    <3>3. Standing(h) = "queued"
      BY <2>2, <2>3, <3>1, StandingNow
    <3>4. \A m \in Messages : Standing(m)' = Standing(m) /\ Attempts(m)' = Attempts(m)
      BY <2>1, <3>2, StandingKept DEF Attempts, Exhausted
    <3>5. Promise!Offer(h)
      BY <2>2, <2>3, <3>1, <3>3, <3>4 DEF Promise!Offer
    <3> QED  BY <2>2, <3>5 DEF Promise!Next
  <2> QED  BY <2>4, <2>5, <1>3 DEF Get
<1>4. ASSUME NEW r \in Receivers, Deliver(r)
      PROVE  Goal
  <2>0. PICK h \in Messages : h = hand[r]
    BY <1>4, HandTyped DEF Deliver, DeadLetterOnReceive, DeliverHidden, DeliverVisible, HandOut
  <2>1. /\ phase[r] = "taken" /\ CountReceive(h)
        /\ UNCHANGED <<delayed, acked>>
    BY <1>4, <2>0 DEF Deliver, DeadLetterOnReceive, DeliverHidden, DeliverVisible, HandOut
  <2>2. Held' = Held \ {h} /\ h \in Held
    BY <1>4, <2>0, HeldRemoved
       DEF Deliver, DeadLetterOnReceive, DeliverHidden, DeliverVisible, HandOut, Release, TypeOK
  <2>3. /\ h \in Messages /\ h \in Somewhere /\ h \in Sent /\ Sent' = Sent
        /\ h \notin Range(visible) \cup inflight \cup delayed
    BY <2>1, <2>2 DEF Held, Somewhere, OnePlace, Sent
  <2>4. receiveCount' = [receiveCount EXCEPT ![h] = @ + 1] /\ receiveCount \in [Messages -> Nat]
    BY <2>1 DEF CountReceive, TypeOK
  <2>5. CASE DeadLetterOnReceive(r)
    <3>1. Exhausted(receiveCount[h] + 1) /\ UNCHANGED <<visible, inflight>>
      BY <2>0, <2>5 DEF DeadLetterOnReceive
    <3>2. h \in deleted' \/ h \notin Somewhere'
      BY <2>0, <2>2, <2>3, <2>5, <3>1 DEF DeadLetterOnReceive, Somewhere
    <3>3. Standing(h)' = "gone"
      BY <2>3, <3>2, StandingThen
    <3>4. \A m \in Messages \ {h} : Unmoved(m)
      <4>1. \A m \in Messages \ {h} : m \in deleted' <=> m \in deleted
        BY <2>0, <2>5 DEF DeadLetterOnReceive
      <4> QED  BY <4>1, <2>1, <2>2, <2>3, <3>1 DEF Unmoved, Somewhere
    <3>5. \A m \in Messages \ {h} : Standing(m)' = Standing(m)
      BY <3>4, StandingKept
    <3>6. \A m \in Messages : Attempts(m)' = Attempts(m)
      <4>1. Attempts(h) = MaxReceiveCount /\ Attempts(h)' = MaxReceiveCount
        BY <2>3, <2>4, <3>1, StandardQueueAssumption DEF Attempts, Exhausted
      <4> QED  BY <4>1, <2>4 DEF Attempts, Exhausted
    <3>7. Promise!Withdraw(h)
      BY <2>2, <3>3, <3>5, <3>6 DEF Promise!Withdraw, Promise!Becomes
    <3> QED  BY <2>3, <3>7 DEF Promise!Next
  <2>6. CASE DeliverHidden(r) \/ DeliverVisible(r)
    <3>1. ~Exhausted(receiveCount[h] + 1) /\ deleted' = deleted
      BY <2>0, <2>6 DEF DeliverHidden, DeliverVisible, HandOut
    <3>2. /\ MaxReceiveCount > 0 => Attempts(h) < MaxReceiveCount
          /\ Attempts(h)' = Attempts(h) + 1
          /\ \A m \in Messages \ {h} : Attempts(m)' = Attempts(m)
      BY <2>3, <2>4, <3>1, StandardQueueAssumption DEF Attempts, Exhausted
    <3>3. /\ \/ inflight' = inflight \cup {h} /\ visible' = visible
             \/ inflight' = inflight /\ Range(visible') = Range(visible) \cup {h}
      <4>1. CASE DeliverHidden(r)
        BY <2>0, <4>1 DEF DeliverHidden
      <4>2. CASE DeliverVisible(r)
        BY <2>0, <4>2, <2>3, VisibleAppended DEF DeliverVisible
      <4> QED  BY <2>6, <4>1, <4>2
    <3>4. \A m \in Messages \ {h} : Unmoved(m)
      BY <2>1, <2>2, <2>3, <3>1, <3>3 DEF Unmoved, Somewhere
    <3>5. \A m \in Messages \ {h} : Standing(m)' = Standing(m)
      BY <3>4, StandingKept
    <3>6. \/ Standing(h)' = Standing(h)
          \/ Standing(h) = "queued" /\ Standing(h)' = "leased"
      <4>1. CASE h \in deleted
        BY <4>1, <3>1, <2>3, StandingNow, StandingThen
      <4>2. CASE h \notin deleted
        <5>1. Standing(h) = "queued" /\ h \in Somewhere'
          BY <4>2, <2>3, <3>3, StandingNow DEF Somewhere
        <5>2. Standing(h)' \in {"queued", "leased"}
          BY <4>2, <5>1, <3>1, <2>3, StandingThen
        <5> QED  BY <5>1, <5>2
      <4> QED  BY <4>1, <4>2
    <3>7. Promise!Receive(h)
      <4>1. [m \in Messages |-> Attempts(m)]'
              = [[m \in Messages |-> Attempts(m)] EXCEPT ![h] = @ + 1]
        BY <2>3, <3>2
      <4>2. \/ UNCHANGED [m \in Messages |-> Standing(m)]
            \/ Standing(h) = "queued" /\ Promise!Becomes({h}, "leased")
        BY <2>3, <3>5, <3>6 DEF Promise!Becomes
      <4> QED  BY <4>1, <4>2, <2>2, <2>3, <3>2 DEF Promise!Receive
    <3> QED  BY <2>3, <3>7 DEF Promise!Next
  <2> QED  BY <2>5, <2>6, <1>4 DEF Deliver
<1>5. ASSUME NEW r \in Receivers, Reply(r)
      PROVE  Goal
  <2>1. Held' = Held /\ hand[r] \in Sent
    BY <1>5 DEF Reply, Release, Held, TypeOK, KnownInv
  <2>2. /\ UNCHANGED <<visible, inflight, delayed, receiveCount, acked>>
        /\ deleted' = deleted \/ deleted' = deleted \cup {hand[r]}
    BY <1>5 DEF Reply
  <2>3. \A m \in Messages : Unmoved(m) \/ (m \in Sent /\ m \in deleted')
    <3> SUFFICES ASSUME NEW m \in Messages, ~Unmoved(m)
                 PROVE  m \in Sent /\ m \in deleted'
      OBVIOUS
    <3>1. Somewhere' = Somewhere /\ Sent' = Sent
      BY <2>1, <2>2 DEF Somewhere, Sent
    <3> QED  BY <2>1, <2>2, <3>1 DEF Unmoved
  <2> QED  BY <2>1, <2>2, <2>3, Forgets
<1>6. ASSUME NEW x \in Messages, DeleteMessage(x)
      PROVE  Goal
  <2>1. Held' = Held /\ x \in Sent /\ x \in deleted'
    BY <1>6, <1>0 DEF DeleteMessage
  <2>2. \A m \in Messages \ {x} : Unmoved(m)
    BY <2>1, <1>6 DEF DeleteMessage, Unmoved, Somewhere, Sent
  <2> QED  BY <2>1, <2>2, <1>6, Forgets DEF DeleteMessage
<1>7. ASSUME NEW x \in Messages, ZeroVisibility(x)
      PROVE  Goal
  <2>1. /\ Held' = Held /\ x \in inflight /\ inflight' = inflight \ {x}
        /\ UNCHANGED <<delayed, deleted, receiveCount, acked>>
    BY <1>7, <1>0 DEF ZeroVisibility
  <2>2. Range(visible') = Range(visible) \cup {x}
    BY <1>7, VisibleAppended DEF ZeroVisibility
  <2>3. \A m \in Messages \ {x} : Unmoved(m)
    BY <2>1, <2>2 DEF Unmoved, Somewhere, Sent
  <2>4. CASE x \in deleted
    <3>1. x \in Sent /\ x \in deleted'
      BY <2>1, <2>4
    <3> QED  BY <2>1, <2>3, <3>1, Forgets
  <2>5. CASE x \notin deleted
    <3>1. {x} \subseteq inflight \ deleted /\ {x} \subseteq Somewhere' \ (inflight' \cup deleted')
      BY <2>1, <2>2, <2>5 DEF Somewhere
    <3>2. {x} \in SUBSET Messages
      OBVIOUS
    <3> QED  BY <2>1, <2>3, <3>1, <3>2, Requeues
  <2> QED  BY <2>4, <2>5
<1>8. CASE RequeueInflight
  <2>1. Range(visible') = Range(visible) \cup Expired /\ Expired \subseteq Messages
    BY <1>8, PutBack, Reappeared DEF RequeueInflight
  <2>2. /\ Held' = Held /\ inflight' = inflight \ Expired /\ Expired \subseteq inflight \ deleted
        /\ UNCHANGED <<delayed, deleted, receiveCount, acked>>
    BY <1>8, <1>0 DEF RequeueInflight, Expired
  <2>3. \A m \in Messages \ Expired : Unmoved(m)
    BY <2>1, <2>2 DEF Unmoved, Somewhere, Sent
  <2>4. Expired \subseteq Somewhere' \ (inflight' \cup deleted')
    BY <2>1, <2>2 DEF Somewhere
  <2> QED  BY <2>1, <2>2, <2>3, <2>4, Requeues
<1>9. CASE EnqueueDelayed
  <2>1. Range(visible') = Range(visible) \cup Ready /\ Ready \subseteq delayed
    BY <1>9, PutBack, Reappeared DEF EnqueueDelayed, Ready
  <2>2. /\ Held' = Held /\ delayed' = delayed \ Ready
        /\ UNCHANGED <<inflight, deleted, receiveCount, acked>>
    BY <1>9, <1>0 DEF EnqueueDelayed
  <2>3. \A m \in Messages : Unmoved(m)
    BY <2>1, <2>2 DEF Unmoved, Somewhere, Sent
  <2> QED  BY <2>2, <2>3, Idles
<1>10. CASE RetentionScan
  <2>1. /\ Held' = Held /\ deleted' = deleted \cup (aged \cap stored)
        /\ inflight' = inflight \ (aged \cap stored) /\ delayed' = delayed \ (aged \cap stored)
        /\ UNCHANGED <<visible, receiveCount, acked>>
    BY <1>10, <1>0 DEF RetentionScan
  <2>2. \A m \in Messages : Unmoved(m) \/ (m \in Sent /\ m \in deleted')
    <3> SUFFICES ASSUME NEW m \in Messages, ~Unmoved(m)
                 PROVE  m \in Sent /\ m \in deleted'
      OBVIOUS
    <3> QED  BY <2>1 DEF Unmoved, Somewhere, Sent
  <2> QED  BY <2>1, <2>2, Forgets
<1>11. CASE Purge
  <2>1. /\ Held' = Held /\ inflight' = {} /\ delayed' = {} /\ Range(visible') = {}
        /\ UNCHANGED <<deleted, receiveCount, acked>>
    BY <1>11, <1>0 DEF Purge, Range
  <2>2. Held \cap inflight = {}
    BY DEF OnePlace
  <2>3. \A m \in Messages : Unmoved(m) \/ (m \in Sent /\ m \notin Somewhere')
    <3>1. Somewhere' = Held
      BY <2>1 DEF Somewhere
    <3> SUFFICES ASSUME NEW m \in Messages, ~Unmoved(m)
                 PROVE  m \in Sent /\ m \notin Somewhere'
      OBVIOUS
    <3> QED  BY <2>1, <2>2, <3>1 DEF Unmoved, Somewhere, Sent
  <2> QED  BY <2>1, <2>3, Forgets
<1>12. CASE UNCHANGED vars
  <2>1. Held' = Held /\ receiveCount' = receiveCount /\ \A m \in Messages : Unmoved(m)
    BY <1>12, <1>0 DEF vars, Unmoved, Somewhere, Sent
  <2> QED  BY <2>1, Idles
<1> HIDE DEF Goal
<1> QED
  BY <1>1, <1>2, <1>3, <1>4, <1>5, <1>6, <1>7, <1>8, <1>9, <1>10, <1>11, <1>12
     DEF Next, Tick, Client, Worker, Receive, Goal

(* The queue, with its threads, its locks and the containers a message moves
   through, implements the leased queue of LeasedQueue, for any number of messages
   and receivers and whatever the redrive policy, when clients zero the visibility
   timeout of in-flight messages only: a message that is deleted, purged,
   dead-lettered or too old never comes back, one receive at a time is offered a
   message, no leased message is offered, and none is received beyond the limit. *)
THEOREM PromiseKept == ASSUME PoliteClients PROVE Spec => KeepsPromise
<1>1. Init => KnownInv
  <2>1. Init => TypedInv
    BY EmptySeq, FS_EmptySet DEF Init, TypedInv, TypeOK
  <2>2. Init => Range(visible) = {} /\ IsInjective(visible) /\ Held = {}
    BY DEF Init, Range, IsInjective, Held
  <2> QED  BY <2>1, <2>2 DEF Init, KnownInv, OneInv, OnePlace, Somewhere, Sent
<1>2. KnownInv /\ [Next]_vars => KnownInv'
  BY KnownStep
<1>3. Init => Promise!Init
  <2> SUFFICES ASSUME Init PROVE Promise!Init
    OBVIOUS
  <2>1. Held = {}
    BY DEF Init, Held
  <2>2. \A m \in Messages : Standing(m) = "unsent"
    BY <1>1, StandingNow DEF Init, Sent
  <2>3. \A m \in Messages : Attempts(m) = 0
    BY StandardQueueAssumption DEF Init, Attempts, Exhausted
  <2> QED  BY <2>1, <2>2, <2>3 DEF Promise!Init
<1>4. KnownInv /\ [Next]_vars => [Promise!Next]_(Promise!vars)
  BY PromiseStep
<1> QED  BY <1>1, <1>2, <1>3, <1>4, PTL DEF Spec, KeepsPromise, Promise!Spec
=============================================================================
