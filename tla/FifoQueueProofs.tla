---------------------------- MODULE FifoQueueProofs ----------------------------
(* Theorems about FifoQueue, for any number of messages, groups and receivers, any
   batch size and redrive policy, and whichever of the hazardous operations happen:
   where a theorem is about some of them only, it says so.

   The first two parts are what the model's operators on sequences and on the times of
   messages do; then come type correctness, the groups, and the messages. *)
EXTENDS FifoQueue, FiniteSetTheorems, SequenceTheorems, WellFoundedInduction, TLAPS

-----------------------------------------------------------------------------
(* Sequences without repetitions. *)

(* Taking the head leaves the rest, in which it does not occur again. *)
LEMMA RangeTail ==
  ASSUME NEW S, NEW s \in Seq(S), s # <<>>
  PROVE  /\ Head(s) \in S /\ Tail(s) \in Seq(S)
         /\ Range(s) = {Head(s)} \cup Range(Tail(s))
         /\ IsInjective(s) => IsInjective(Tail(s)) /\ Head(s) \notin Range(Tail(s))
<1>1. Len(s) \in Nat \ {0} /\ DOMAIN s = 1..Len(s) /\ Head(s) = s[1]
  BY EmptySeq, LenProperties
<1>2. /\ Head(s) \in S /\ Tail(s) \in Seq(S)
      /\ Len(Tail(s)) = Len(s) - 1 /\ DOMAIN Tail(s) = 1..Len(Tail(s))
      /\ \A i \in 1..Len(Tail(s)) : Tail(s)[i] = s[i + 1] /\ i + 1 \in 1..Len(s) /\ i + 1 # 1
  BY <1>1, HeadTailProperties, LenProperties
<1>3. Range(s) \subseteq {Head(s)} \cup Range(Tail(s))
  <2> SUFFICES ASSUME NEW i \in 1..Len(s)
               PROVE  s[i] = Head(s) \/ s[i] \in Range(Tail(s))
    BY <1>1 DEF Range
  <2>1. CASE i = 1
    BY <2>1, <1>1
  <2>2. CASE i # 1
    <3>1. i - 1 \in 1..Len(Tail(s)) /\ s[i] = Tail(s)[i - 1]
      BY <2>2, <1>1, <1>2
    <3> QED  BY <3>1, <1>2 DEF Range
  <2> QED  BY <2>1, <2>2
<1>4. {Head(s)} \cup Range(Tail(s)) \subseteq Range(s)
  <2>1. 1 \in 1..Len(s)
    BY <1>1
  <2> QED  BY <2>1, <1>1, <1>2 DEF Range
<1>5. IsInjective(s) => IsInjective(Tail(s)) /\ Head(s) \notin Range(Tail(s))
  <2>1. 1 \in 1..Len(s)
    BY <1>1
  <2> QED  BY <2>1, <1>1, <1>2 DEF Range, IsInjective
<1> QED  BY <1>2, <1>3, <1>4, <1>5

(* Putting several at the end adds them, and those that were not there stay single. *)
LEMMA RangeConcat ==
  ASSUME NEW S, NEW s \in Seq(S), NEW t \in Seq(S)
  PROVE  /\ s \o t \in Seq(S)
         /\ Range(s \o t) = Range(s) \cup Range(t)
         /\ IsInjective(s) /\ IsInjective(t) /\ Range(s) \cap Range(t) = {}
              => IsInjective(s \o t)
<1>1. /\ Len(s) \in Nat /\ DOMAIN s = 1..Len(s)
      /\ Len(t) \in Nat /\ DOMAIN t = 1..Len(t)
  BY LenProperties
<1>2. /\ s \o t \in Seq(S)
      /\ DOMAIN (s \o t) = 1..(Len(s) + Len(t))
      /\ \A i \in 1..(Len(s) + Len(t)) :
           (s \o t)[i] = IF i <= Len(s) THEN s[i] ELSE t[i - Len(s)]
  BY ConcatProperties, LenProperties
<1>3. \A i \in 1..Len(s) : i \in 1..(Len(s) + Len(t)) /\ (s \o t)[i] = s[i]
  BY <1>1, <1>2
<1>4. \A i \in 1..Len(t) : /\ Len(s) + i \in 1..(Len(s) + Len(t))
                           /\ (s \o t)[Len(s) + i] = t[i]
  BY <1>1, <1>2
<1>5. \A i \in 1..(Len(s) + Len(t)) :
        \/ i \in 1..Len(s) /\ (s \o t)[i] = s[i]
        \/ i - Len(s) \in 1..Len(t) /\ (s \o t)[i] = t[i - Len(s)]
  BY <1>1, <1>2
<1>6. Range(s \o t) = Range(s) \cup Range(t)
  BY <1>1, <1>2, <1>3, <1>4, <1>5 DEF Range
<1>7. ASSUME IsInjective(s), IsInjective(t), Range(s) \cap Range(t) = {}
      PROVE  IsInjective(s \o t)
  <2> SUFFICES ASSUME NEW i \in 1..(Len(s) + Len(t)), NEW j \in 1..(Len(s) + Len(t)),
                      (s \o t)[i] = (s \o t)[j]
               PROVE  i = j
    BY <1>2 DEF IsInjective
  <2>1. CASE i \in 1..Len(s) /\ j \in 1..Len(s)
    BY <2>1, <1>1, <1>3, <1>7 DEF IsInjective
  <2>2. CASE i - Len(s) \in 1..Len(t) /\ j - Len(s) \in 1..Len(t)
    BY <2>2, <1>1, <1>2, <1>7 DEF IsInjective
  <2>3. \A k \in 1..Len(s), l \in 1..Len(t) : s[k] # t[l]
    BY <1>1, <1>7 DEF Range
  <2> QED  BY <2>1, <2>2, <2>3, <1>1, <1>5
<1> QED  BY <1>2, <1>6, <1>7

(* An ordering of a finite set lists each of its elements once. *)
LEMMA OrderingOf ==
  ASSUME NEW S, NEW T, IsFiniteSet(T), T \subseteq S, NEW order \in Orderings(T)
  PROVE  order \in Seq(S) /\ Range(order) = T /\ IsInjective(order)
<1>1. Cardinality(T) \in Nat
  BY FS_CardinalityType
<1>2. order \in [1..Cardinality(T) -> S] /\ order \in [1..Cardinality(T) -> T]
  BY DEF Orderings, Bijection, Injection, Surjection
<1>3. order \in Seq(S)
  BY <1>1, <1>2, SeqDef
<1>4. IsInjective(order) /\ \A x \in T : \E i \in 1..Cardinality(T) : order[i] = x
  BY DEF Orderings, Bijection, Injection, Surjection
<1> QED  BY <1>2, <1>3, <1>4 DEF Range

-----------------------------------------------------------------------------
(* Finite sets: what grows to the latest, and messages from the oldest to the latest. *)

(* A finite set of numbers has a greatest. The proof looks at a smallest set without. *)
LEMMA Greatest ==
  ASSUME NEW S \in SUBSET Nat, IsFiniteSet(S), S # {}
  PROVE  \E x \in S : \A y \in S : x >= y
<1> DEFINE Without == {A \in FiniteSubsetsOf(Nat) : A # {} /\ \A x \in A : \E y \in A : ~(x >= y)}
<1>1. Without = {}
  <2> SUFFICES ASSUME Without # {} PROVE FALSE
    OBVIOUS
  <2>1. PICK A \in Without : \A B \in Without : <<B, A>> \notin StrictSubsetOrdering(Nat)
    <3>1. Without \subseteq FiniteSubsetsOf(Nat)
      OBVIOUS
    <3> HIDE DEF Without
    <3> QED  BY <3>1, FS_StrictSubsetOrderingWellFounded, WFMin
  <2>2. A \subseteq Nat /\ IsFiniteSet(A)
    BY DEF FiniteSubsetsOf
  <2>3. PICK x \in A : TRUE
    OBVIOUS
  <2> DEFINE B == A \ {x}
  <2>4. B \in FiniteSubsetsOf(Nat) /\ <<B, A>> \in StrictSubsetOrdering(Nat)
    BY <2>2, <2>3, FS_RemoveElement DEF FiniteSubsetsOf, StrictSubsetOrdering
  <2>5. B = {} \/ \E m \in B : \A y \in B : m >= y
    BY <2>1, <2>4
  <2>6. CASE B = {}
    BY <2>2, <2>6
  <2>7. ASSUME NEW m \in B, \A y \in B : m >= y
        PROVE  FALSE
    <3>1. CASE m >= x
      BY <2>2, <2>7, <3>1
    <3>2. CASE ~(m >= x)
      BY <2>2, <2>7, <3>2
    <3> QED  BY <3>1, <3>2
  <2> QED  BY <2>5, <2>6, <2>7
<1> QED  BY <1>1 DEF FiniteSubsetsOf

(* The image of a finite set is finite. *)
LEMMA FiniteImage ==
  ASSUME NEW S, IsFiniteSet(S), NEW f
  PROVE  IsFiniteSet({f[x] : x \in S})
<1> DEFINE T == {f[x] : x \in S}
           g == [x \in S |-> f[x]]
<1>1. g \in Surjection(S, T)
  BY DEF Surjection
<1> HIDE DEF g, T
<1>2. IsFiniteSet(T)
  BY <1>1, FS_Surjection
<1> QED  BY <1>2 DEF T

Numbered(f) == {m \in Messages : f[m] > 0}

(* Latest is the greatest number given, as long as finitely many were. *)
LEMMA LatestOf ==
  ASSUME NEW f \in [Messages -> Nat], IsFiniteSet(Numbered(f)), Messages # {}
  PROVE  Latest(f) \in Nat /\ \A m \in Messages : f[m] <= Latest(f)
<1>1. IsFiniteSet({f[m] : m \in Numbered(f)} \cup {0})
  <2> DEFINE T == {f[m] : m \in Numbered(f)}
  <2>1. IsFiniteSet(T)
    BY FiniteImage
  <2> HIDE DEF T
  <2>2. IsFiniteSet(T \cup {0})
    BY <2>1, FS_AddElement
  <2> QED  BY <2>2 DEF T
<1>2. Range(f) \subseteq {f[m] : m \in Numbered(f)} \cup {0} /\ Range(f) # {} /\ Range(f) \subseteq Nat
  BY DEF Range, Numbered
<1>3. IsFiniteSet(Range(f))
  BY <1>1, <1>2, FS_Subset
<1>4. \E n \in Range(f) : \A k \in Range(f) : n >= k
  BY <1>2, <1>3, Greatest
<1>5. \E n \in Range(f) : \A k \in Range(f) : k <= n
  BY <1>2, <1>4
<1>6. Latest(f) \in Range(f) /\ \A k \in Range(f) : k <= Latest(f)
  BY <1>5 DEF Latest
<1> QED  BY <1>2, <1>6 DEF Range

InAge(s) == \A i, j \in DOMAIN s : i < j => created[s[i]] < created[s[j]]

(* A finite set of messages built at different times can be put in order of age. *)
LEMMA OldestFirstOf ==
  ASSUME created \in [Messages -> Nat], NEW S \in SUBSET Messages, IsFiniteSet(S),
         \A m, n \in S : created[m] = created[n] => m = n
  PROVE  OldestFirst(S) \in Orderings(S) /\ InAge(OldestFirst(S))
<1> DEFINE Without == {A \in FiniteSubsetsOf(S) : \A s \in Orderings(A) : ~InAge(s)}
<1>1. Without = {}
  <2> SUFFICES ASSUME Without # {} PROVE FALSE
    OBVIOUS
  <2>1. PICK A \in Without : \A B \in Without : <<B, A>> \notin StrictSubsetOrdering(S)
    <3>1. Without \subseteq FiniteSubsetsOf(S)
      OBVIOUS
    <3> HIDE DEF Without
    <3> QED  BY <3>1, FS_StrictSubsetOrderingWellFounded, WFMin
  <2>2. A \subseteq S /\ IsFiniteSet(A)
    BY DEF FiniteSubsetsOf
  <2>3. CASE A = {}
    <3> DEFINE e == [i \in 1..0 |-> i]
    <3>1. Cardinality(A) = 0 /\ 1..0 = {}
      BY <2>3, FS_EmptySet
    <3>2. DOMAIN e = {} /\ e \in [1..0 -> A]
      BY <2>3, <3>1
    <3>3. e \in Orderings(A) /\ InAge(e)
      BY <2>3, <3>1, <3>2 DEF Orderings, Bijection, Injection, Surjection, IsInjective, InAge
    <3> QED  BY <3>3
  <2>4. CASE A # {}
    <3>1. PICK x \in A : \A y \in A : created[y] <= created[x]
      <4> DEFINE T == {created[y] : y \in A}
      <4>1. T \subseteq Nat /\ T # {} /\ IsFiniteSet(T)
        BY <2>2, <2>4, FiniteImage
      <4>2. PICK n \in T : \A k \in T : n >= k
        BY <4>1, Greatest
      <4>3. PICK x \in A : n = created[x]
        BY <4>2
      <4>4. \A y \in A : created[y] <= created[x]
        BY <4>1, <4>2, <4>3
      <4> QED  BY <4>4
    <3> DEFINE B == A \ {x}
               n == Cardinality(B)
    <3>2. /\ B \in FiniteSubsetsOf(S) /\ <<B, A>> \in StrictSubsetOrdering(S)
          /\ n \in Nat /\ Cardinality(A) = n + 1 /\ IsFiniteSet(B)
      <4>1. IsFiniteSet(B) /\ Cardinality(B) = Cardinality(A) - 1
        BY <2>2, FS_RemoveElement
      <4>2. Cardinality(B) \in Nat /\ Cardinality(A) \in Nat
        BY <2>2, <4>1, FS_CardinalityType
      <4>3. B \in FiniteSubsetsOf(S) /\ <<B, A>> \in StrictSubsetOrdering(S)
        BY <2>2, <4>1 DEF FiniteSubsetsOf, StrictSubsetOrdering
      <4> QED  BY <4>1, <4>2, <4>3
    <3>3. PICK s \in Orderings(B) : InAge(s)
      BY <2>1, <3>2
    <3>4. /\ s \in [1..n -> B] /\ \A i, j \in 1..n : s[i] = s[j] => i = j
          /\ \A y \in B : \E i \in 1..n : s[i] = y
          /\ \A i, j \in 1..n : i < j => created[s[i]] < created[s[j]]
      BY <3>3 DEF Orderings, Bijection, Injection, Surjection, IsInjective, InAge
    <3> DEFINE t == [i \in 1..(n + 1) |-> IF i = n + 1 THEN x ELSE s[i]]
    <3> HIDE DEF n
    <3>5. /\ DOMAIN t = 1..(n + 1) /\ n + 1 \in 1..(n + 1) /\ t[n + 1] = x
          /\ \A i \in 1..(n + 1) : i # n + 1 => i \in 1..n /\ t[i] = s[i] /\ t[i] \in B
          /\ \A i \in 1..n : i \in 1..(n + 1) /\ i # n + 1
      BY <3>2, <3>4
    <3> HIDE DEF t
    <3>6. t \in [1..(n + 1) -> A]
      <4>1. \A i \in 1..(n + 1) : t[i] \in A
        BY <3>5
      <4>2. t = [i \in 1..(n + 1) |-> t[i]]
        BY DEF t
      <4> QED  BY <4>1, <4>2
    <3>7. \A y \in A : \E i \in 1..(n + 1) : t[i] = y
      BY <3>4, <3>5
    <3>8. \A i, j \in 1..(n + 1) : t[i] = t[j] => i = j
      BY <3>4, <3>5
    <3>9. ASSUME NEW i \in 1..(n + 1), NEW j \in 1..(n + 1), i < j
          PROVE  created[t[i]] < created[t[j]]
      <4>1. i # n + 1 /\ i \in Int /\ j \in Int
        BY <3>2, <3>9
      <4>2. CASE j = n + 1
        <5>1. t[i] \in B /\ t[j] = x
          BY <3>5, <4>1, <4>2
        <5>2. created[t[i]] <= created[x] /\ created[t[i]] # created[x]
          BY <2>2, <3>1, <5>1
        <5>3. created[t[i]] \in Nat /\ created[x] \in Nat
          BY <2>2, <5>1
        <5> QED  BY <5>1, <5>2, <5>3
      <4>3. CASE j # n + 1
        BY <3>4, <3>5, <3>9, <4>1, <4>3
      <4> QED  BY <4>2, <4>3
    <3>10. t \in Orderings(A)
      BY <3>2, <3>5, <3>6, <3>7, <3>8 DEF Orderings, Bijection, Injection, Surjection, IsInjective
    <3>11. InAge(t)
      BY <3>5, <3>9 DEF InAge
    <3> QED  BY <3>10, <3>11
  <2> QED  BY <2>3, <2>4
<1>2. \E s \in Orderings(S) : InAge(s)
  BY <1>1 DEF FiniteSubsetsOf
<1> QED  BY <1>2 DEF OldestFirst, InAge

-----------------------------------------------------------------------------
(* Type correctness. A batch and the group queue stay sequences because only finitely
   many messages have been built, and no two at a time. *)

Known == heap \cup stranded \cup inflight \cup stored \cup deleted \cup receipts

TypedInv ==
  /\ TypeOK
  /\ IsFiniteSet(Numbered(created))
  /\ \A m, n \in Numbered(created) : created[m] = created[n] => m = n
  /\ sent \subseteq Numbered(created) /\ Numbered(sequence) \subseteq sent
  /\ Known \subseteq sent
  /\ \A r \in Receivers : Range(batch[r]) \subseteq sent /\ (phase[r] = "replying" => batch[r] # <<>>)

(* Sets of messages that were sent are finite. *)
LEMMA SentFinite ==
  ASSUME TypedInv, NEW S, S \subseteq sent
  PROVE  IsFiniteSet(S) /\ S \in SUBSET Messages /\ \A m, n \in S : created[m] = created[n] => m = n
<1>1. S \subseteq Numbered(created)
  BY DEF TypedInv
<1> QED  BY <1>1, FS_Subset DEF TypedInv, Numbered

(* Groups are added to the group queue, if they are neither queued nor in flight. *)
LEMMA QueuedGroups ==
  ASSUME TypeOK, NEW S \in SUBSET Groups, IsFiniteSet(S), NEW F \in SUBSET Groups, QueueGroups(S, F)
  PROVE  /\ groupQueue' \in Seq(Groups)
         /\ Range(groupQueue') = Range(groupQueue) \cup (S \ (queuedGroups \cup F))
         /\ queuedGroups' = queuedGroups \cup (S \ F) /\ inflightGroups' = F
         /\ IsInjective(groupQueue) /\ Range(groupQueue) \subseteq queuedGroups
              => IsInjective(groupQueue')
<1> DEFINE new == S \ (queuedGroups \cup F)
<1>1. new \subseteq Groups /\ IsFiniteSet(new)
  BY FS_Subset
<1>2. queuedGroups' = queuedGroups \cup new /\ inflightGroups' = F
  BY DEF QueueGroups
<1>3. PICK order \in Orderings(new) : groupQueue' = groupQueue \o order
  BY DEF QueueGroups
<1>4. new \cap queuedGroups = {} /\ queuedGroups \cup new = queuedGroups \cup (S \ F)
  OBVIOUS
<1> HIDE DEF new
<1>5. order \in Seq(Groups) /\ Range(order) = new /\ IsInjective(order)
  BY <1>1, OrderingOf
<1>6. groupQueue \in Seq(Groups)
  BY DEF TypeOK
<1>7. /\ groupQueue \o order \in Seq(Groups)
      /\ Range(groupQueue \o order) = Range(groupQueue) \cup Range(order)
      /\ IsInjective(groupQueue) /\ IsInjective(order) /\ Range(groupQueue) \cap Range(order) = {}
           => IsInjective(groupQueue \o order)
  BY <1>5, <1>6, RangeConcat
<1> QED  BY <1>2, <1>3, <1>4, <1>5, <1>7 DEF new

LEMMA FreedFinite ==
  ASSUME TypedInv
  PROVE  Freed \in SUBSET Groups /\ IsFiniteSet(Freed)
<1>1. Expired \subseteq sent
  BY DEF TypedInv, Known, Expired
<1>2. IsFiniteSet({Group[m] : m \in Expired})
  BY <1>1, SentFinite, FiniteImage
<1>3. Freed \subseteq {Group[m] : m \in Expired}
  BY DEF Freed, OfGroup
<1> QED  BY <1>2, <1>3, FS_Subset DEF Freed

(* What a receive hands out. *)
LEMMA HandedOutOf ==
  ASSUME TypedInv, NEW r \in Receivers
  PROVE  /\ HandedOut(r) \subseteq OfGroup(heap, grip[r]) \ deleted
         /\ HandedOut(r) \subseteq sent
         /\ OldestFirst(HandedOut(r)) \in Seq(Messages)
         /\ Range(OldestFirst(HandedOut(r))) = HandedOut(r)
<1>1. HandedOut(r) \subseteq OfGroup(heap, grip[r]) \ deleted /\ OfGroup(heap, grip[r]) \subseteq heap
  BY DEF HandedOut, Earliest, OfGroup
<1>2. HandedOut(r) \subseteq sent
  BY <1>1 DEF TypedInv, Known
<1>3. IsFiniteSet(HandedOut(r)) /\ HandedOut(r) \in SUBSET Messages
      /\ \A m, n \in HandedOut(r) : created[m] = created[n] => m = n
  BY <1>2, SentFinite
<1>4. OldestFirst(HandedOut(r)) \in Orderings(HandedOut(r))
  BY <1>3, OldestFirstOf DEF TypedInv, TypeOK
<1> QED  BY <1>1, <1>2, <1>3, <1>4, OrderingOf

LEMMA BuildTyped ==
  ASSUME TypedInv, NEW m \in Messages, Build(m)
  PROVE  TypedInv'
<1>1. created \in [Messages -> Nat] /\ IsFiniteSet(Numbered(created))
  BY DEF TypedInv, TypeOK
<1>2. PICK l \in Nat : l = Latest(created) /\ \A n \in Messages : created[n] <= l
  BY <1>1, LatestOf
<1>3. created[m] = 0 /\ created' = [created EXCEPT ![m] = l + 1]
  BY <1>2 DEF Build
<1>4. created' \in [Messages -> Nat] /\ Numbered(created') = Numbered(created) \cup {m}
  BY <1>1, <1>3 DEF Numbered
<1>5. IsFiniteSet(Numbered(created'))
  BY <1>1, <1>4, FS_AddElement
<1>6. \A k, n \in Numbered(created') : created'[k] = created'[n] => k = n
  <2>1. \A n \in Messages \ {m} : created'[n] = created[n] /\ created'[n] # l + 1 /\ created[n] \in Nat
    BY <1>1, <1>2, <1>3
  <2>2. created'[m] = l + 1
    BY <1>1, <1>3
  <2>3. \A k, n \in Numbered(created) : created[k] = created[n] => k = n
    BY DEF TypedInv
  <2> QED  BY <2>1, <2>2, <2>3 DEF Numbered
<1>7. TypeOK'
  BY <1>4 DEF Build, TypedInv, TypeOK, containerVars, groupVars, receiverVars
<1> QED
  BY <1>4, <1>5, <1>6, <1>7 DEF Build, TypedInv, Known, containerVars, groupVars, receiverVars

LEMMA PutTyped ==
  ASSUME TypedInv, NEW m \in Messages, PutNew(m)
  PROVE  TypedInv'
<1>1. sequence \in [Messages -> Nat] /\ IsFiniteSet(Numbered(sequence))
  BY SentFinite DEF TypedInv, TypeOK
<1>2. PICK l \in Nat : l = Latest(sequence)
  BY <1>1, LatestOf
<1>3. sequence' \in [Messages -> Nat] /\ Numbered(sequence') \subseteq Numbered(sequence) \cup {m}
  BY <1>1, <1>2 DEF PutNew, Numbered
<1>4. Group[m] \in Groups /\ DedupId[m] \in DedupIds
  BY FifoQueueAssumption
<1>5. inflightGroups \in SUBSET Groups /\ queuedGroups \in SUBSET Groups /\ TypeOK
  BY DEF TypedInv, TypeOK
<1>6. groupQueue' \in Seq(Groups) /\ queuedGroups' \subseteq Groups /\ inflightGroups' \subseteq Groups
  <2>1. {Group[m]} \in SUBSET Groups /\ IsFiniteSet({Group[m]}) /\ QueueGroups({Group[m]}, inflightGroups)
    BY <1>4, FS_Singleton DEF PutNew
  <2> QED  BY <1>5, <2>1, QueuedGroups
<1>7. dedupCache' \in [DedupIds -> Messages \cup {None}]
  BY <1>4 DEF PutNew, TypedInv, TypeOK
<1>8. TypeOK'
  BY <1>3, <1>6, <1>7 DEF PutNew, TypedInv, TypeOK, receiverVars
<1>9. m \in Numbered(created)
  BY DEF PutNew, Numbered
<1> QED  BY <1>3, <1>8, <1>9 DEF PutNew, TypedInv, Known, receiverVars

LEMMA GetTyped ==
  ASSUME TypedInv, NEW r \in Receivers, GetGroup(r)
  PROVE  TypedInv'
<1>1. Head(groupQueue) \in Groups /\ Tail(groupQueue) \in Seq(Groups)
  BY RangeTail DEF GetGroup, TypedInv, TypeOK
<1>2. TypeOK'
  <2>1. grip' \in [Receivers -> Groups \cup {None}] /\ Head(groupQueue) # None
    BY <1>1, FifoQueueAssumption DEF GetGroup, TypedInv, TypeOK
  <2>2. \A q \in Receivers : /\ phase'[q] = "taken" <=> grip'[q] # None
                             /\ phase'[q] = "idle" => batch'[q] = <<>>
    BY <2>1 DEF GetGroup, TypedInv, TypeOK
  <2> QED  BY <1>1, <2>1, <2>2 DEF GetGroup, TypedInv, TypeOK, messageVars, containerVars
<1>3. \A q \in Receivers : Range(batch'[q]) \subseteq sent' /\ (phase'[q] = "replying" => batch'[q] # <<>>)
  BY DEF GetGroup, TypedInv, TypeOK, messageVars
<1> QED  BY <1>2, <1>3 DEF GetGroup, TypedInv, Known, messageVars, containerVars

LEMMA LockTyped ==
  ASSUME TypedInv, NEW r \in Receivers, LockGroup(r)
  PROVE  TypedInv'
<1> DEFINE out == HandedOut(r)
<1>1. /\ out \subseteq sent /\ out \subseteq Messages
      /\ OldestFirst(out) \in Seq(Messages) /\ Range(OldestFirst(out)) = out
  BY HandedOutOf, SentFinite
<1>2. batch[r] \in Seq(Messages) /\ batch \in [Receivers -> Seq(Messages)] /\ grip[r] \in Groups
  BY FifoQueueAssumption DEF LockGroup, TypedInv, TypeOK
<1>3. batch[r] \o OldestFirst(out) \in Seq(Messages)
      /\ Range(batch[r] \o OldestFirst(out)) = Range(batch[r]) \cup out
  BY <1>1, <1>2, RangeConcat
<1>4. /\ inflight' = inflight \cup out /\ receipts' = receipts \cup out /\ heap' \subseteq heap
      /\ batch' = [batch EXCEPT ![r] = batch[r] \o OldestFirst(out)]
      /\ phase' = [phase EXCEPT ![r] = "looping"] /\ grip' = [grip EXCEPT ![r] = None]
      /\ queuedGroups' \subseteq queuedGroups /\ inflightGroups' \subseteq inflightGroups \cup {grip[r]}
  BY DEF LockGroup, EndLock
<1> HIDE DEF out
<1>5. receiveCount' \in [Messages -> 0..ReceiveBound]
  BY FifoQueueAssumption DEF LockGroup, TypedInv, TypeOK
<1>6. deadline' \in [Messages -> {"none", "future", "past"}]
  BY DEF LockGroup, TypedInv, TypeOK
<1>7. \A q \in Receivers : /\ phase'[q] = "taken" <=> grip'[q] # None
                           /\ phase'[q] = "idle" => batch'[q] = <<>>
  BY <1>4 DEF TypedInv, TypeOK
<1>8. TypeOK'
  <2>1. grip' \in [Receivers -> Groups \cup {None}]
    BY <1>4 DEF TypedInv, TypeOK
  <2>2. phase' \in [Receivers -> {"idle", "taken", "looping", "replying"}]
    BY <1>4 DEF TypedInv, TypeOK
  <2>3. batch' \in [Receivers -> Seq(Messages)]
    BY <1>2, <1>3, <1>4
  <2>4. queuedGroups' \cup inflightGroups' \subseteq Groups
    BY <1>2, <1>4 DEF TypedInv, TypeOK
  <2>5. (sent \cup heap \cup stranded \cup inflight \cup stored \cup deleted \cup receipts)' \subseteq Messages
    BY <1>1, <1>4 DEF LockGroup, TypedInv, TypeOK
  <2> QED  BY <2>1, <2>2, <2>3, <2>4, <2>5, <1>5, <1>6, <1>7 DEF LockGroup, TypedInv, TypeOK
<1>9. \A q \in Receivers : Range(batch'[q]) \subseteq sent' /\ (phase'[q] = "replying" => batch'[q] # <<>>)
  <2>1. sent' = sent
    BY DEF LockGroup
  <2> TAKE q \in Receivers
  <2>2. CASE q = r
    BY <2>1, <2>2, <1>1, <1>2, <1>3, <1>4 DEF TypedInv, TypeOK
  <2>3. CASE q # r
    BY <2>1, <2>3, <1>2, <1>4 DEF TypedInv, TypeOK
  <2> QED  BY <2>2, <2>3
<1> QED  BY <1>1, <1>4, <1>8, <1>9 DEF LockGroup, TypedInv, Known

LEMMA ReplyTyped ==
  ASSUME TypedInv, NEW r \in Receivers, Reply(r)
  PROVE  TypedInv'
<1>1. batch[r] \in Seq(Messages) /\ batch[r] # <<>> /\ Range(batch[r]) \subseteq sent
  BY DEF Reply, TypedInv, TypeOK
<1>2. /\ Head(batch[r]) \in sent /\ Head(batch[r]) \in Messages /\ Tail(batch[r]) \in Seq(Messages)
      /\ Range(Tail(batch[r])) \subseteq sent
  BY <1>1, RangeTail
<1>3. Tail(batch[r]) = <<>> <=> Len(batch[r]) = 1
  <2>1. Len(batch[r]) \in Nat \ {0} /\ Len(Tail(batch[r])) = Len(batch[r]) - 1
    BY <1>1, EmptySeq, HeadTailProperties
  <2>2. Tail(batch[r]) # <<>> => Len(Tail(batch[r])) \in Nat \ {0}
    BY <1>2, EmptySeq
  <2>3. Tail(batch[r]) = <<>> => Len(Tail(batch[r])) = 0
    BY EmptySeq
  <2> QED  BY <2>1, <2>2, <2>3
<1>4. /\ batch' = [batch EXCEPT ![r] = Tail(batch[r])]
      /\ phase' = [phase EXCEPT ![r] = IF Len(batch[r]) = 1 THEN "idle" ELSE "replying"]
      /\ phase[r] = "replying" /\ grip' = grip /\ sent' = sent
      /\ copies' = copies \/ copies' = [copies EXCEPT ![Head(batch[r])] = copies[Head(batch[r])] + 1]
      /\ deleted' \subseteq deleted \cup {Head(batch[r])}
  BY DEF Reply
<1>5. \A q \in Receivers : /\ phase'[q] = "taken" <=> grip'[q] # None
                           /\ phase'[q] = "idle" => batch'[q] = <<>>
                           /\ phase'[q] = "replying" => batch'[q] # <<>>
                           /\ Range(batch'[q]) \subseteq sent'
  <2> TAKE q \in Receivers
  <2>1. CASE q = r
    BY <2>1, <1>2, <1>3, <1>4 DEF TypedInv, TypeOK
  <2>2. CASE q # r
    BY <2>2, <1>4 DEF TypedInv, TypeOK
  <2> QED  BY <2>1, <2>2
<1>6. copies' \in [Messages -> Nat]
  <2>1. copies \in [Messages -> Nat] /\ copies[Head(batch[r])] + 1 \in Nat
    BY <1>2 DEF TypedInv, TypeOK
  <2> QED  BY <2>1, <1>4
<1>7. phase' \in [Receivers -> {"idle", "taken", "looping", "replying"}]
      /\ batch' \in [Receivers -> Seq(Messages)]
  BY <1>2, <1>4 DEF TypedInv, TypeOK
<1>8. TypeOK'
  BY <1>2, <1>4, <1>5, <1>6, <1>7 DEF Reply, TypedInv, TypeOK, containerVars, groupVars
<1> QED  BY <1>2, <1>4, <1>5, <1>8 DEF Reply, TypedInv, Known, containerVars, groupVars

LEMMA EndTyped ==
  ASSUME TypedInv, NEW r \in Receivers, EndReceive(r)
  PROVE  TypedInv'
<1>1. \A q \in Receivers : /\ phase'[q] = "taken" <=> grip'[q] # None
                           /\ phase'[q] = "idle" => batch'[q] = <<>>
                           /\ phase'[q] = "replying" => batch'[q] # <<>>
  BY DEF EndReceive, TypedInv, TypeOK
<1>2. phase' \in [Receivers -> {"idle", "taken", "looping", "replying"}]
  BY DEF EndReceive, TypedInv, TypeOK
<1>3. TypeOK'
  BY <1>1, <1>2 DEF EndReceive, TypedInv, TypeOK, messageVars, containerVars, groupVars
<1> QED  BY <1>1, <1>3 DEF EndReceive, TypedInv, Known, messageVars, containerVars, groupVars

LEMMA DeleteTyped ==
  ASSUME TypedInv, NEW m \in Messages, DeleteMessage(m)
  PROVE  TypedInv'
<1>1. m \in sent
  BY DEF DeleteMessage, TypedInv, Known
<1>2. Group[m] \in Groups /\ TypeOK /\ inflightGroups \ {Group[m]} \in SUBSET Groups
  BY FifoQueueAssumption DEF TypedInv, TypeOK
<1>3. groupQueue' \in Seq(Groups) /\ queuedGroups' \cup inflightGroups' \subseteq Groups
  <2>1. CASE UNCHANGED groupVars
    BY <2>1 DEF TypedInv, TypeOK, groupVars
  <2>2. ASSUME NEW S \in {{}, {Group[m]}}, QueueGroups(S, inflightGroups \ {Group[m]})
        PROVE  groupQueue' \in Seq(Groups) /\ queuedGroups' \cup inflightGroups' \subseteq Groups
    <3>1. S \in SUBSET Groups /\ IsFiniteSet(S) /\ queuedGroups \subseteq Groups
      <4>1. S = {} \/ S = {Group[m]}
        OBVIOUS
      <4>2. IsFiniteSet({}) /\ IsFiniteSet({Group[m]})
        BY FS_EmptySet, FS_Singleton
      <4> QED  BY <4>1, <4>2, <1>2 DEF TypeOK
    <3> QED  BY <3>1, <2>2, <1>2, QueuedGroups
  <2> QED  BY <2>1, <2>2 DEF DeleteMessage
<1>4. TypeOK'
  BY <1>1, <1>3 DEF DeleteMessage, TypedInv, TypeOK, receiverVars
<1> QED  BY <1>1, <1>4 DEF DeleteMessage, TypedInv, Known, receiverVars

LEMMA RequeueTyped ==
  ASSUME TypedInv, RequeueInflight
  PROVE  TypedInv'
<1>1. Expired \subseteq inflight
  BY DEF Expired
<1>2. /\ Freed \in SUBSET Groups /\ IsFiniteSet(Freed) /\ TypeOK
      /\ inflightGroups \ Freed \in SUBSET Groups /\ queuedGroups \subseteq Groups
  BY FreedFinite DEF TypedInv, TypeOK
<1>3. QueueGroups(Freed, inflightGroups \ Freed)
  BY DEF RequeueInflight
<1>4. groupQueue' \in Seq(Groups) /\ queuedGroups' \cup inflightGroups' \subseteq Groups
  BY <1>2, <1>3, QueuedGroups
<1>5. deadline' \in [Messages -> {"none", "future", "past"}]
  BY DEF RequeueInflight, TypedInv, TypeOK
<1>6. TypeOK'
  BY <1>1, <1>4, <1>5 DEF RequeueInflight, TypedInv, TypeOK, receiverVars
<1> QED  BY <1>1, <1>6 DEF RequeueInflight, TypedInv, Known, receiverVars

(* The other steps. *)
LEMMA OthersTyped ==
  ASSUME TypedInv,
         \/ \E m \in Messages : \/ VisibilityExpires(m) \/ PutDuplicate(m)
                                \/ ExtendVisibility(m) \/ ZeroVisibility(m)
         \/ RetentionPasses \/ RetentionScan \/ Purge \/ UNCHANGED vars
  PROVE  TypedInv'
<1> USE DEF TypedInv, Known, messageVars, containerVars, groupVars, receiverVars
<1>1. ASSUME NEW m \in Messages, VisibilityExpires(m) PROVE TypedInv'
  BY <1>1 DEF VisibilityExpires, TypeOK
<1>2. ASSUME NEW m \in Messages, PutDuplicate(m) PROVE TypedInv'
  BY <1>2 DEF PutDuplicate, TypeOK, Numbered
<1>3. ASSUME NEW m \in Messages, ExtendVisibility(m) PROVE TypedInv'
  BY <1>3 DEF ExtendVisibility, TypeOK
<1>4. ASSUME NEW m \in Messages, ZeroVisibility(m) PROVE TypedInv'
  <2>1. m \in sent /\ deadline' \in [Messages -> {"none", "future", "past"}]
    BY <1>4 DEF ZeroVisibility, TypeOK
  <2>2. TypeOK'
    BY <2>1, <1>4 DEF ZeroVisibility, TypeOK
  <2> QED  BY <2>1, <2>2, <1>4 DEF ZeroVisibility
<1>5. ASSUME RetentionPasses PROVE TypedInv'
  BY <1>5 DEF RetentionPasses, TypeOK
<1>6. ASSUME RetentionScan PROVE TypedInv'
  BY <1>6 DEF RetentionScan, TypeOK
<1>7. ASSUME Purge PROVE TypedInv'
  BY <1>7 DEF Purge, TypeOK
<1>8. ASSUME UNCHANGED vars PROVE TypedInv'
  BY <1>8 DEF vars, TypeOK
<1> QED  BY <1>1, <1>2, <1>3, <1>4, <1>5, <1>6, <1>7, <1>8

LEMMA TypedStep == TypedInv /\ [Next]_vars => TypedInv'
<1> SUFFICES ASSUME TypedInv, [Next]_vars PROVE TypedInv'
  OBVIOUS
<1>1. ASSUME NEW m \in Messages, Build(m) \/ PutNew(m) \/ DeleteMessage(m) PROVE TypedInv'
  BY <1>1, BuildTyped, PutTyped, DeleteTyped
<1>2. ASSUME NEW r \in Receivers, Receive(r) PROVE TypedInv'
  BY <1>2, GetTyped, LockTyped, EndTyped, ReplyTyped DEF Receive
<1> QED  BY <1>1, <1>2, RequeueTyped, OthersTyped DEF Next, Tick, Client, Worker

LEMMA TypedInit == Init => TypedInv
<1> SUFFICES ASSUME Init PROVE TypedInv
  OBVIOUS
<1>1. TypeOK
  BY FifoQueueAssumption, EmptySeq DEF Init, TypeOK
<1>2. Numbered(created) = {} /\ Numbered(sequence) = {} /\ \A r \in Receivers : Range(batch[r]) = {}
  BY DEF Init, Numbered, Range
<1> QED  BY <1>1, <1>2, FS_EmptySet DEF Init, TypedInv, Known

LEMMA TypedInvariant == Spec => []TypedInv
BY TypedInit, TypedStep, PTL DEF Spec

(* Every variable of the queue keeps its type, and a receiver holds a group exactly
   between taking it and opening it, whatever the clients, threads and clocks do. *)
THEOREM TypeCorrect == Spec => []TypeOK
<1>1. TypedInv => TypeOK
  BY DEF TypedInv
<1> QED  BY <1>1, TypedInvariant, PTL

-----------------------------------------------------------------------------
(* The groups. GroupOnce is inductive once the types are known. *)

GroupInv == TypedInv /\ GroupOnce

LEMMA GroupsUntouched ==
  ASSUME GroupOnce, UNCHANGED <<groupQueue, queuedGroups, inflightGroups, grip>>,
         heap \subseteq heap', inflight' \subseteq inflight
  PROVE  GroupOnce'
BY DEF GroupOnce

(* Groups that are queued have a message and none in flight any more. *)
LEMMA GroupsQueued ==
  ASSUME GroupInv, NEW S \in SUBSET Groups, IsFiniteSet(S), NEW F \in SUBSET inflightGroups,
         QueueGroups(S, F), grip' = grip, heap \subseteq heap',
         S \ F \subseteq {Group[m] : m \in heap'}, {Group[m] : m \in inflight'} \subseteq F
  PROVE  GroupOnce'
<1>1. TypeOK /\ F \in SUBSET Groups
  BY DEF GroupInv, TypedInv, TypeOK
<1>2. IsInjective(groupQueue) /\ Range(groupQueue) \subseteq queuedGroups
  BY DEF GroupInv, GroupOnce
<1>3. /\ Range(groupQueue') = Range(groupQueue) \cup (S \ (queuedGroups \cup F))
      /\ queuedGroups' = queuedGroups \cup (S \ F) /\ inflightGroups' = F
      /\ IsInjective(groupQueue')
  BY <1>1, <1>2, QueuedGroups
<1>4. \A r \in Receivers : grip'[r] \notin Range(groupQueue')
  <2> TAKE r \in Receivers
  <2>1. CASE grip[r] = None
    <3>1. None \notin Groups /\ grip[r] \notin Range(groupQueue)
      BY FifoQueueAssumption DEF GroupInv, GroupOnce
    <3> QED  BY <1>3, <2>1, <3>1
  <2>2. CASE grip[r] # None
    <3>1. grip[r] \in queuedGroups /\ grip[r] \notin Range(groupQueue)
      BY <2>2 DEF GroupInv, GroupOnce
    <3> QED  BY <1>3, <3>1
  <2> QED  BY <2>1, <2>2
<1>5. \A r, s \in Receivers : grip'[r] # None /\ grip'[r] = grip'[s] => r = s
  BY DEF GroupInv, GroupOnce
<1>6. queuedGroups' = Range(groupQueue') \cup ({grip'[r] : r \in Receivers} \ {None})
  <2>1. queuedGroups = Range(groupQueue) \cup ({grip[r] : r \in Receivers} \ {None})
    BY DEF GroupInv, GroupOnce
  <2> QED  BY <2>1, <1>3
<1>7. queuedGroups' \cap inflightGroups' = {}
  BY <1>3 DEF GroupInv, GroupOnce
<1>8. queuedGroups' \subseteq {Group[m] : m \in heap'}
  BY <1>3 DEF GroupInv, GroupOnce
<1> QED  BY <1>3, <1>4, <1>5, <1>6, <1>7, <1>8 DEF GroupOnce

LEMMA GetOnce ==
  ASSUME GroupInv, NEW r \in Receivers, GetGroup(r)
  PROVE  GroupOnce'
<1>1. groupQueue \in Seq(Groups) /\ groupQueue # <<>> /\ grip[r] = None
      /\ grip \in [Receivers -> Groups \cup {None}]
  BY DEF GetGroup, GroupInv, TypedInv, TypeOK
<1>2. PICK g \in Groups : g = Head(groupQueue)
  BY <1>1, RangeTail
<1>3. /\ Range(groupQueue) = {g} \cup Range(groupQueue')
      /\ IsInjective(groupQueue') /\ g \notin Range(groupQueue')
  <2>1. IsInjective(groupQueue) /\ groupQueue' = Tail(groupQueue)
    BY DEF GetGroup, GroupInv, GroupOnce
  <2> QED  BY <2>1, <1>1, <1>2, RangeTail
<1>4. /\ grip' = [grip EXCEPT ![r] = g] /\ grip'[r] = g
      /\ \A q \in Receivers \ {r} : grip'[q] = grip[q]
  BY <1>1, <1>2 DEF GetGroup
<1>5. g # None
  BY <1>2, FifoQueueAssumption
<1>6. \A q \in Receivers : grip[q] \notin Range(groupQueue)
  BY DEF GroupInv, GroupOnce
<1>7. \A q, s \in Receivers : grip'[q] # None /\ grip'[q] = grip'[s] => q = s
  <2>1. \A q, s \in Receivers : grip[q] # None /\ grip[q] = grip[s] => q = s
    BY DEF GroupInv, GroupOnce
  <2> QED  BY <2>1, <1>3, <1>4, <1>6
<1>8. \A q \in Receivers : grip'[q] \notin Range(groupQueue')
  BY <1>3, <1>4, <1>6
<1>9. queuedGroups' = Range(groupQueue') \cup ({grip'[q] : q \in Receivers} \ {None})
  <2>1. queuedGroups = Range(groupQueue) \cup ({grip[q] : q \in Receivers} \ {None})
        /\ queuedGroups' = queuedGroups
    BY DEF GetGroup, GroupInv, GroupOnce
  <2>2. {grip'[q] : q \in Receivers} \ {None} = {g} \cup ({grip[q] : q \in Receivers} \ {None})
    BY <1>1, <1>4, <1>5
  <2> QED  BY <2>1, <2>2, <1>3
<1> QED  BY <1>3, <1>7, <1>8, <1>9 DEF GetGroup, GroupInv, GroupOnce, containerVars

LEMMA LockOnce ==
  ASSUME GroupInv, NEW r \in Receivers, LockGroup(r)
  PROVE  GroupOnce'
<1>1. grip[r] \in Groups /\ grip[r] # None /\ grip \in [Receivers -> Groups \cup {None}]
  BY FifoQueueAssumption DEF LockGroup, GroupInv, TypedInv, TypeOK
<1>2. PICK g \in Groups : g = grip[r]
  BY <1>1
<1>3. /\ grip' = [grip EXCEPT ![r] = None] /\ queuedGroups' = queuedGroups \ {g}
      /\ groupQueue' = groupQueue /\ heap' = heap \ Popped(r) /\ inflight' = inflight \cup HandedOut(r)
      /\ inflightGroups' = IF OfGroup(heap, g) = {} THEN inflightGroups ELSE inflightGroups \cup {g}
  BY <1>2 DEF LockGroup, EndLock
<1>4. Popped(r) \subseteq OfGroup(heap, g) /\ HandedOut(r) \subseteq OfGroup(heap, g)
  BY <1>2 DEF Popped, HandedOut, Earliest, OfGroup
<1>5. grip'[r] = None /\ \A q \in Receivers \ {r} : grip'[q] = grip[q] /\ grip[q] # g
  BY <1>1, <1>2, <1>3 DEF GroupInv, GroupOnce
<1>6. g \notin Range(groupQueue) /\ None \notin Range(groupQueue)
  BY <1>1, <1>2, FifoQueueAssumption, RangeOfSeq DEF GroupInv, GroupOnce, TypedInv, TypeOK
<1>7. \A q, s \in Receivers : grip'[q] # None /\ grip'[q] = grip'[s] => q = s
  BY <1>5 DEF GroupInv, GroupOnce
<1>8. \A q \in Receivers : grip'[q] \notin Range(groupQueue')
  BY <1>3, <1>5, <1>6 DEF GroupInv, GroupOnce
<1>9. queuedGroups' = Range(groupQueue') \cup ({grip'[q] : q \in Receivers} \ {None})
  <2>1. queuedGroups = Range(groupQueue) \cup ({grip[q] : q \in Receivers} \ {None})
    BY DEF GroupInv, GroupOnce
  <2>2. {grip'[q] : q \in Receivers} \ {None} = ({grip[q] : q \in Receivers} \ {None}) \ {g}
    BY <1>2, <1>5
  <2> QED  BY <2>1, <2>2, <1>3, <1>6
<1>10. queuedGroups' \cap inflightGroups' = {}
  BY <1>3 DEF GroupInv, GroupOnce
<1>11. queuedGroups' \subseteq {Group[m] : m \in heap'}
  <2>1. \A m \in heap : Group[m] # g => m \in heap'
    BY <1>3, <1>4 DEF OfGroup
  <2> QED  BY <2>1, <1>3 DEF GroupInv, GroupOnce
<1>12. {Group[m] : m \in inflight'} \subseteq inflightGroups'
  BY <1>3, <1>4 DEF GroupInv, GroupOnce, OfGroup
<1> QED  BY <1>3, <1>7, <1>8, <1>9, <1>10, <1>11, <1>12 DEF GroupInv, GroupOnce

LEMMA PutOnce ==
  ASSUME GroupInv, NEW m \in Messages, PutNew(m)
  PROVE  GroupOnce'
<1>1. {Group[m]} \in SUBSET Groups /\ IsFiniteSet({Group[m]})
  <2>1. Group[m] \in Groups
    BY FifoQueueAssumption
  <2> QED  BY <2>1, FS_Singleton
<1>2. /\ QueueGroups({Group[m]}, inflightGroups) /\ grip' = grip /\ heap' = heap \cup {m}
      /\ inflight' = inflight
  BY DEF PutNew, receiverVars
<1>3. {Group[n] : n \in inflight} \subseteq inflightGroups
  BY DEF GroupInv, GroupOnce
<1>4. {Group[m]} \ inflightGroups \subseteq {Group[n] : n \in heap'}
  BY <1>2
<1> QED  BY <1>1, <1>2, <1>3, <1>4, GroupsQueued

LEMMA DeleteOnce ==
  ASSUME GroupInv, NEW m \in Messages, DeleteMessage(m)
  PROVE  GroupOnce'
<1>1. grip' = grip /\ heap' = heap /\ inflight' = inflight \ {m}
  BY DEF DeleteMessage, receiverVars
<1>2. CASE UNCHANGED groupVars
  BY <1>1, <1>2, GroupsUntouched DEF GroupInv, groupVars
<1>3. ASSUME OfGroup(inflight', Group[m]) = {}, NEW S \in SUBSET {Group[m]},
             S \subseteq {Group[n] : n \in heap}, QueueGroups(S, inflightGroups \ {Group[m]})
      PROVE  GroupOnce'
  <2>1. {Group[m]} \in SUBSET Groups /\ IsFiniteSet({Group[m]})
    BY FifoQueueAssumption, FS_Singleton
  <2>2. S \in SUBSET Groups /\ IsFiniteSet(S)
    BY <2>1, FS_Subset
  <2>3. {Group[n] : n \in inflight'} \subseteq inflightGroups \ {Group[m]}
    BY <1>1, <1>3 DEF GroupInv, GroupOnce, OfGroup
  <2>4. S \ (inflightGroups \ {Group[m]}) \subseteq {Group[n] : n \in heap'}
    BY <1>1, <1>3
  <2> QED  BY <1>1, <1>3, <2>2, <2>3, <2>4, GroupsQueued
<1>4. (IF OfGroup(heap, Group[m]) # {} THEN {Group[m]} ELSE {}) \subseteq {Group[n] : n \in heap}
  BY DEF OfGroup
<1> QED  BY <1>2, <1>3, <1>4 DEF DeleteMessage

LEMMA RequeueOnce ==
  ASSUME GroupInv, RequeueInflight
  PROVE  GroupOnce'
<1>1. /\ grip' = grip /\ heap' = heap \cup Expired /\ inflight' = inflight \ Expired
      /\ QueueGroups(Freed, inflightGroups \ Freed)
  BY DEF RequeueInflight, receiverVars
<1>2. Freed \in SUBSET Groups /\ IsFiniteSet(Freed)
  BY FreedFinite DEF GroupInv
<1>3. Freed \ (inflightGroups \ Freed) \subseteq {Group[n] : n \in heap'}
  BY <1>1 DEF Freed, OfGroup
<1>4. {Group[n] : n \in inflight'} \subseteq inflightGroups \ Freed
  BY <1>1 DEF GroupInv, GroupOnce, Freed, OfGroup
<1> QED  BY <1>1, <1>2, <1>3, <1>4, GroupsQueued

LEMMA GroupStep == GroupInv /\ [Next]_vars => GroupInv'
<1> SUFFICES ASSUME GroupInv, [Next]_vars PROVE GroupOnce'
  BY TypedStep DEF GroupInv
<1> USE DEF messageVars, containerVars, groupVars, receiverVars
<1>1. ASSUME NEW m \in Messages, PutNew(m) \/ DeleteMessage(m) PROVE GroupOnce'
  BY <1>1, PutOnce, DeleteOnce
<1>2. ASSUME NEW r \in Receivers, GetGroup(r) \/ LockGroup(r) PROVE GroupOnce'
  BY <1>2, GetOnce, LockOnce
<1>3. ASSUME RequeueInflight PROVE GroupOnce'
  BY <1>3, RequeueOnce
<1>4. ASSUME NEW m \in Messages,
             \/ VisibilityExpires(m) \/ Build(m) \/ PutDuplicate(m)
             \/ ExtendVisibility(m) \/ ZeroVisibility(m)
      PROVE  GroupOnce'
  BY <1>4, GroupsUntouched
     DEF GroupInv, VisibilityExpires, Build, PutDuplicate, ExtendVisibility, ZeroVisibility
<1>5. ASSUME RetentionPasses \/ RetentionScan \/ Purge \/ UNCHANGED vars PROVE GroupOnce'
  BY <1>5, GroupsUntouched DEF GroupInv, RetentionPasses, RetentionScan, Purge, vars
<1>6. ASSUME NEW r \in Receivers, EndReceive(r) \/ Reply(r) PROVE GroupOnce'
  BY <1>6, GroupsUntouched DEF GroupInv, EndReceive, Reply
<1> QED
  BY <1>1, <1>2, <1>3, <1>4, <1>5, <1>6 DEF Next, Tick, Client, Worker, Receive

LEMMA GroupInit == Init => GroupInv
<1> SUFFICES ASSUME Init PROVE GroupOnce
  BY TypedInit DEF GroupInv
<1>1. Range(groupQueue) = {} /\ IsInjective(groupQueue) /\ \A r \in Receivers : grip[r] = None
  BY DEF Init, Range, IsInjective
<1> QED  BY <1>1 DEF Init, GroupOnce

LEMMA GroupInvariant == Spec => []GroupInv
BY GroupInit, GroupStep, PTL DEF Spec

(* A group is queued or in a receiver's hands at most once, never while it is marked in
   flight, and with a message; the groups of messages in flight are marked. *)
THEOREM GroupsOnce == Spec => []GroupOnce
<1>1. GroupInv => GroupOnce
  BY DEF GroupInv
<1> QED  BY <1>1, GroupInvariant, PTL

(* While a message of a group is in flight no receiver is handed another one of the
   group, except in the same batch: with stale receipts, zeroed timeouts, retention
   and purges too. *)
THEOREM GroupsBlock == Spec => GroupBlocked
<1>1. ASSUME GroupInv, [Next]_vars, NEW m \in inflight' \ inflight
      PROVE  OfGroup(inflight, Group[m]) = {}
  <2> USE DEF messageVars, containerVars, groupVars, receiverVars
  <2>1. PICK r \in Receivers : LockGroup(r)
    BY <1>1 DEF Next, Tick, Client, Worker, Receive, vars, VisibilityExpires, RetentionPasses, Build,
       PutDuplicate, PutNew, GetGroup, EndReceive, Reply, DeleteMessage, ExtendVisibility,
       ZeroVisibility, RequeueInflight, RetentionScan, Purge
  <2>2. m \in HandedOut(r) /\ grip[r] # None
    BY <1>1, <2>1 DEF LockGroup, GroupInv, TypedInv, TypeOK
  <2>3. Group[m] = grip[r]
    BY <2>2 DEF HandedOut, Earliest, OfGroup
  <2>4. Group[m] \notin inflightGroups
    BY <1>1, <2>2, <2>3 DEF GroupInv, GroupOnce
  <2> QED  BY <1>1, <2>4 DEF GroupInv, GroupOnce, OfGroup
<1>2. ASSUME GroupInv, [Next]_vars
      PROVE  [\A m \in inflight' \ inflight : OfGroup(inflight, Group[m]) = {}]_vars
  BY <1>1, <1>2
<1>3. GroupInv /\ [Next]_vars => [\A m \in inflight' \ inflight : OfGroup(inflight, Group[m]) = {}]_vars
  BY <1>2
<1> QED  BY <1>3, GroupInvariant, PTL DEF Spec, GroupBlocked

-----------------------------------------------------------------------------
(* The messages. *)

(* What leaves a group is handed out or deleted. *)
LEMMA PoppedOf ==
  ASSUME NEW r \in Receivers
  PROVE  Popped(r) \subseteq HandedOut(r) \cup deleted
BY DEF Popped, OfGroup

LEMMA NoLostStep ==
  ASSUME "zero" \notin Uses, NoLostMessage, [Next]_vars
  PROVE  NoLostMessage'
<1> USE DEF NoLostMessage, messageVars, containerVars, groupVars, receiverVars
<1>1. ASSUME NEW m \in Messages,
             \/ VisibilityExpires(m) \/ Build(m) \/ PutDuplicate(m) \/ ExtendVisibility(m)
             \/ PutNew(m) \/ DeleteMessage(m)
      PROVE  NoLostMessage'
  BY <1>1 DEF VisibilityExpires, Build, PutDuplicate, PutNew, DeleteMessage, ExtendVisibility
<1>2. ASSUME NEW r \in Receivers, LockGroup(r) PROVE NoLostMessage'
  <2>1. Popped(r) \subseteq HandedOut(r) \cup deleted
    BY PoppedOf
  <2> QED  BY <1>2, <2>1 DEF LockGroup
<1>3. ASSUME NEW r \in Receivers, GetGroup(r) \/ EndReceive(r) \/ Reply(r) PROVE NoLostMessage'
  BY <1>3 DEF GetGroup, EndReceive, Reply
<1>4. ASSUME RetentionPasses \/ RetentionScan \/ Purge \/ RequeueInflight \/ UNCHANGED vars
      PROVE  NoLostMessage'
  BY <1>4 DEF RetentionPasses, RetentionScan, Purge, RequeueInflight, vars
<1>5. ~ \E m \in Messages : ZeroVisibility(m)
  BY DEF ZeroVisibility
<1> QED
  BY <1>1, <1>2, <1>3, <1>4, <1>5 DEF Next, Tick, Client, Worker, Receive

(* A stored message nobody deleted waits in its group or is in flight, if no visibility
   timeout is changed to 0: through stale receipts, dead-lettering, retention and purges. *)
THEOREM NothingLost == ASSUME "zero" \notin Uses PROVE Spec => []NoLostMessage
<1>1. Init => NoLostMessage
  BY DEF Init, NoLostMessage
<1>2. NoLostMessage /\ [Next]_vars => NoLostMessage'
  BY NoLostStep
<1> QED  BY <1>1, <1>2, PTL DEF Spec

(* Some message of a group that has one is handed out, the oldest. *)
LEMMA OldestGiven ==
  ASSUME TypedInv, NEW S, S \subseteq sent, S # {}, NEW n \in Nat \ {0}
  PROVE  Earliest(S, n) # {}
<1>1. /\ IsFiniteSet(S) /\ S \in SUBSET Messages /\ created \in [Messages -> Nat]
      /\ \A k, m \in S : created[k] = created[m] => k = m
  BY SentFinite DEF TypedInv, TypeOK
<1>2. PICK s \in Orderings(S) : InAge(s)
  BY <1>1, OldestFirstOf
<1>3. /\ s \in [1..Cardinality(S) -> S] /\ Cardinality(S) \in Nat
      /\ \A k \in S : \E i \in 1..Cardinality(S) : s[i] = k
  BY <1>1, FS_CardinalityType DEF Orderings, Bijection, Injection, Surjection
<1>4. 1 \in 1..Cardinality(S) /\ s[1] \in S
  BY <1>3
<1>5. ASSUME NEW k \in S, created[k] < created[s[1]]
      PROVE  FALSE
  <2>1. PICK i \in 1..Cardinality(S) : s[i] = k
    BY <1>3
  <2>2. created[k] \in Nat /\ created[s[1]] \in Nat
    BY <1>1, <1>4
  <2>3. i # 1
    BY <1>5, <2>1, <2>2
  <2>4. created[s[1]] < created[s[i]]
    BY <1>2, <1>3, <1>4, <2>3 DEF InAge
  <2> QED  BY <1>5, <2>1, <2>2, <2>4
<1>6. Cardinality({k \in S : created[k] < created[s[1]]}) < n
  <2>1. {k \in S : created[k] < created[s[1]]} = {}
    BY <1>5
  <2> QED  BY <2>1, FS_EmptySet
<1> QED  BY <1>4, <1>6 DEF Earliest

(* Without a redrive policy, and when messages are deleted in flight only. *)
Steady == MaxReceiveCount = 0 /\ Uses \subseteq {"overlap"}

(* A group that is marked in flight has a message in flight, and the messages of a
   group wait while it is queued or marked only. *)
SteadyInv ==
  /\ GroupInv
  /\ horizon = 0
  /\ heap \cap inflight = {}
  /\ deleted \cap (heap \cup inflight) = {}
  /\ \A g \in inflightGroups : OfGroup(inflight, g) # {}
  /\ \A m \in heap : Group[m] \in queuedGroups \cup inflightGroups
  /\ \A r \in Receivers : phase[r] = "taken" => Len(batch[r]) < MaxMessages

LEMMA LockSteady ==
  ASSUME SteadyInv, GroupInv', NEW r \in Receivers, LockGroup(r)
  PROVE  SteadyInv'
<1>1. PICK g \in queuedGroups : g = grip[r]
  BY DEF LockGroup, SteadyInv, GroupInv, TypedInv, TypeOK, GroupOnce
<1>2. OfGroup(heap, g) # {} /\ OfGroup(heap, g) \subseteq sent /\ OfGroup(heap, g) \ deleted = OfGroup(heap, g)
  BY DEF SteadyInv, GroupInv, GroupOnce, TypedInv, Known, OfGroup
<1>3. MaxMessages - Len(batch[r]) \in Nat \ {0}
  <2>1. batch[r] \in Seq(Messages) /\ Len(batch[r]) < MaxMessages
    BY DEF LockGroup, SteadyInv, GroupInv, TypedInv, TypeOK
  <2> QED  BY <2>1, LenProperties, FifoQueueAssumption
<1>4. HandedOut(r) # {}
  BY <1>1, <1>2, <1>3, OldestGiven DEF HandedOut, SteadyInv, GroupInv
<1>5. /\ HandedOut(r) \subseteq OfGroup(heap, g) \ deleted /\ HandedOut(r) \subseteq Popped(r)
      /\ Popped(r) \subseteq OfGroup(heap, g)
  BY <1>1 DEF HandedOut, Earliest, Popped, OfGroup
<1>6. /\ heap' = heap \ Popped(r) /\ inflight' = inflight \cup HandedOut(r) /\ deleted' = deleted
      /\ inflightGroups' = inflightGroups \cup {g} /\ queuedGroups' = queuedGroups \ {g}
      /\ horizon' = horizon
  BY <1>1, <1>2 DEF LockGroup, EndLock
<1>7. \A h \in inflightGroups' : OfGroup(inflight', h) # {}
  BY <1>4, <1>5, <1>6 DEF SteadyInv, OfGroup
<1>8. \A q \in Receivers : phase'[q] = "taken" => Len(batch'[q]) < MaxMessages
  BY DEF LockGroup, EndLock, SteadyInv, GroupInv, TypedInv, TypeOK
<1> QED  BY <1>5, <1>6, <1>7, <1>8 DEF SteadyInv

LEMMA DeleteSteady ==
  ASSUME Steady, SteadyInv, GroupInv', NEW m \in Messages, DeleteMessage(m)
  PROVE  SteadyInv'
<1>1. /\ m \in inflight /\ heap' = heap /\ inflight' = inflight \ {m} /\ deleted' = deleted \cup {m}
      /\ horizon' = horizon /\ phase' = phase /\ batch' = batch
  BY DEF DeleteMessage, Steady, receiverVars
<1>2. heap' \cap inflight' = {} /\ deleted' \cap (heap' \cup inflight') = {}
  BY <1>1 DEF SteadyInv
<1>3. CASE OfGroup(inflight', Group[m]) # {}
  <2>1. UNCHANGED groupVars
    BY <1>3 DEF DeleteMessage
  <2>2. \A g \in inflightGroups' : OfGroup(inflight', g) # {}
    BY <1>1, <1>3, <2>1 DEF SteadyInv, OfGroup, groupVars
  <2> QED  BY <1>1, <1>2, <2>1, <2>2 DEF SteadyInv, groupVars
<1>4. CASE OfGroup(inflight', Group[m]) = {}
  <2> DEFINE S == IF OfGroup(heap, Group[m]) # {} THEN {Group[m]} ELSE {}
  <2>1. QueueGroups(S, inflightGroups \ {Group[m]})
    BY <1>4 DEF DeleteMessage
  <2>2. queuedGroups' = queuedGroups \cup S /\ inflightGroups' = inflightGroups \ {Group[m]}
    BY <2>1 DEF QueueGroups
  <2>3. \A g \in inflightGroups' : OfGroup(inflight', g) # {}
    BY <1>1, <2>2 DEF SteadyInv, OfGroup
  <2>4. \A n \in heap : Group[n] = Group[m] => Group[n] \in S
    BY DEF OfGroup
  <2> HIDE DEF S
  <2>5. \A n \in heap' : Group[n] \in queuedGroups' \cup inflightGroups'
    BY <1>1, <2>2, <2>4 DEF SteadyInv
  <2> QED  BY <1>1, <1>2, <2>3, <2>5 DEF SteadyInv
<1> QED  BY <1>3, <1>4

LEMMA RequeueSteady ==
  ASSUME SteadyInv, GroupInv', RequeueInflight
  PROVE  SteadyInv'
<1>1. /\ heap' = heap \cup Expired /\ inflight' = inflight \ Expired /\ deleted' = deleted
      /\ horizon' = horizon /\ phase' = phase /\ batch' = batch
      /\ QueueGroups(Freed, inflightGroups \ Freed)
  BY DEF RequeueInflight, receiverVars
<1>2. queuedGroups' = queuedGroups \cup Freed /\ inflightGroups' = inflightGroups \ Freed
  BY <1>1 DEF QueueGroups
<1>3. heap' \cap inflight' = {} /\ deleted' \cap (heap' \cup inflight') = {}
  BY <1>1 DEF SteadyInv, Expired
<1>4. ASSUME NEW g \in inflightGroups'
      PROVE  OfGroup(inflight', g) # {}
  <2>1. g \in Groups /\ g \notin Freed /\ OfGroup(inflight, g) # {}
    BY <1>2, <1>4 DEF SteadyInv, GroupInv, TypedInv, TypeOK
  <2>2. CASE OfGroup(Expired, g) = {}
    BY <1>1, <2>1, <2>2 DEF OfGroup
  <2>3. CASE OfGroup(Expired, g) # {}
    BY <1>1, <2>1, <2>3 DEF Freed
  <2> QED  BY <2>2, <2>3
<1>5. ASSUME NEW n \in heap'
      PROVE  Group[n] \in queuedGroups' \cup inflightGroups'
  <2>1. n \in Expired => Group[n] \in inflightGroups
    BY DEF Expired, SteadyInv, GroupInv, GroupOnce
  <2> QED  BY <2>1, <1>1, <1>2, <1>5 DEF SteadyInv
<1> QED  BY <1>1, <1>3, <1>4, <1>5 DEF SteadyInv

LEMMA SteadyStep ==
  ASSUME Steady, SteadyInv, [Next]_vars
  PROVE  SteadyInv'
<1> USE DEF messageVars, containerVars, groupVars, receiverVars
<1>1. GroupInv'
  BY GroupStep DEF SteadyInv
<1>2. ASSUME NEW m \in Messages,
             VisibilityExpires(m) \/ Build(m) \/ PutDuplicate(m) \/ ExtendVisibility(m)
      PROVE  SteadyInv'
  BY <1>1, <1>2 DEF VisibilityExpires, Build, PutDuplicate, ExtendVisibility, SteadyInv
<1>3. ASSUME NEW m \in Messages, PutNew(m) PROVE SteadyInv'
  <2>1. /\ m \notin sent /\ heap' = heap \cup {m} /\ inflight' = inflight /\ deleted' = deleted
        /\ horizon' = horizon /\ phase' = phase /\ batch' = batch
        /\ QueueGroups({Group[m]}, inflightGroups)
    BY <1>3 DEF PutNew
  <2>2. m \notin inflight \cup deleted
    BY <2>1 DEF SteadyInv, GroupInv, TypedInv, Known
  <2>3. queuedGroups' \cup inflightGroups' = queuedGroups \cup inflightGroups \cup {Group[m]}
        /\ inflightGroups' = inflightGroups
    BY <2>1 DEF QueueGroups
  <2> QED  BY <1>1, <2>1, <2>2, <2>3 DEF SteadyInv
<1>4. ASSUME NEW r \in Receivers, GetGroup(r) PROVE SteadyInv'
  <2>1. \A q \in Receivers : phase'[q] = "taken" => Len(batch'[q]) < MaxMessages
    BY <1>4 DEF GetGroup, SteadyInv, GroupInv, TypedInv, TypeOK
  <2> QED  BY <1>1, <1>4, <2>1 DEF GetGroup, SteadyInv
<1>5. ASSUME NEW r \in Receivers, EndReceive(r) \/ Reply(r) PROVE SteadyInv'
  <2>1. \A q \in Receivers : phase'[q] = "taken" => phase[q] = "taken" /\ batch'[q] = batch[q]
    BY <1>5 DEF EndReceive, Reply, SteadyInv, GroupInv, TypedInv, TypeOK
  <2>2. deleted' = deleted
    BY <1>5 DEF EndReceive, Reply, Exhausted, Steady
  <2> QED  BY <1>1, <1>5, <2>1, <2>2 DEF EndReceive, Reply, SteadyInv
<1>6. ASSUME UNCHANGED vars PROVE SteadyInv'
  BY <1>1, <1>6 DEF vars, SteadyInv
<1>7. /\ ~ \E m \in Messages : ZeroVisibility(m)
      /\ ~ RetentionPasses /\ ~ Purge
  BY DEF Steady, ZeroVisibility, RetentionPasses, Purge
<1>8. ~ RetentionScan
  BY DEF RetentionScan, Aged, SteadyInv
<1> QED
  BY <1>1, <1>2, <1>3, <1>4, <1>5, <1>6, <1>7, <1>8, LockSteady, DeleteSteady, RequeueSteady
     DEF Next, Tick, Client, Worker, Receive

(* Without a redrive policy, and when messages are deleted in flight only, timeouts not
   zeroed and the queue not purged, no group is stuck: while a message waits in it, it
   is queued, or a message in flight will give it back. *)
THEOREM GroupsFlow == ASSUME Steady PROVE Spec => []NoStuckGroup
<1>1. Init => SteadyInv
  <2> SUFFICES ASSUME Init PROVE SteadyInv
    OBVIOUS
  <2>1. GroupInv
    BY GroupInit
  <2> QED  BY <2>1 DEF Init, SteadyInv
<1>2. SteadyInv /\ [Next]_vars => SteadyInv'
  BY SteadyStep
<1>3. SteadyInv => NoStuckGroup
  BY DEF SteadyInv, NoStuckGroup, OfGroup
<1> QED  BY <1>1, <1>2, <1>3, PTL DEF Spec

(* When producers do not overlap and no timeout is zeroed. *)
InOrder == Uses \cap {"overlap", "zero"} = {}

(* Sequence numbers grow with the time at which messages were built: one message at
   most is built and not put yet, and it is the latest. *)
OrderInv ==
  /\ TypedInv
  /\ stranded = {}
  /\ heap \cup inflight \subseteq Numbered(sequence)
  /\ \A m, n \in Numbered(sequence) : created[m] < created[n] => sequence[m] < sequence[n]
  /\ \A m \in sent, n \in Numbered(created) \ sent : created[m] < created[n]
  /\ \A m, n \in Numbered(created) \ sent : m = n

LEMMA BuildInOrder ==
  ASSUME InOrder, OrderInv, TypedInv', NEW m \in Messages, Build(m)
  PROVE  OrderInv'
<1>1. created \in [Messages -> Nat] /\ IsFiniteSet(Numbered(created)) /\ sent \subseteq Numbered(created)
  BY DEF OrderInv, TypedInv, TypeOK
<1>2. PICK l \in Nat : l = Latest(created) /\ \A n \in Messages : created[n] <= l
  BY <1>1, LatestOf
<1>3. /\ created[m] = 0 /\ created' = [created EXCEPT ![m] = l + 1]
      /\ UNCHANGED <<sent, sequence, stranded, heap, inflight>>
      /\ Numbered(created) \subseteq sent
  BY <1>2 DEF Build, InOrder, Numbered, containerVars
<1>4. m \notin sent /\ Numbered(sequence) \subseteq sent
  BY <1>1, <1>3 DEF Numbered, OrderInv, TypedInv
<1>5. created'[m] = l + 1 /\ \A n \in Messages \ {m} : created'[n] = created[n]
  BY <1>1, <1>3
<1>6. Numbered(created') \ sent' = {m}
  BY <1>1, <1>3, <1>4, <1>5 DEF Numbered
<1>7. \A k, n \in Numbered(sequence') : created'[k] < created'[n] => sequence'[k] < sequence'[n]
  <2>1. \A n \in Numbered(sequence) : n \in Messages \ {m}
    BY <1>4 DEF Numbered
  <2> QED  BY <2>1, <1>3, <1>5 DEF OrderInv
<1>8. \A n \in sent' : created'[n] < created'[m]
  <2>1. \A n \in sent : n \in Messages \ {m} /\ created[n] \in Nat /\ created[n] <= l
    BY <1>1, <1>2, <1>4 DEF Numbered
  <2> QED  BY <2>1, <1>2, <1>3, <1>5
<1> QED  BY <1>3, <1>6, <1>7, <1>8 DEF OrderInv

LEMMA PutInOrder ==
  ASSUME OrderInv, TypedInv', NEW m \in Messages, PutNew(m) \/ PutDuplicate(m)
  PROVE  OrderInv'
<1>1. /\ sequence \in [Messages -> Nat] /\ created \in [Messages -> Nat]
      /\ IsFiniteSet(Numbered(sequence)) /\ Numbered(sequence) \subseteq sent
  BY SentFinite DEF OrderInv, TypedInv, TypeOK
<1>2. m \in Numbered(created) \ sent /\ sent' = sent \cup {m} /\ created' = created /\ stranded' = stranded
      /\ inflight' = inflight
  BY DEF PutNew, PutDuplicate, Numbered, containerVars
<1>3. Numbered(created') \ sent' = {}
  BY <1>2 DEF OrderInv
<1>4. CASE PutDuplicate(m)
  BY <1>2, <1>3, <1>4 DEF PutDuplicate, OrderInv, containerVars
<1>5. CASE PutNew(m)
  <2>1. PICK l \in Nat : l = Latest(sequence) /\ \A n \in Messages : sequence[n] <= l
    BY <1>1, LatestOf
  <2>2. sequence' = [sequence EXCEPT ![m] = l + 1] /\ heap' = heap \cup {m}
    BY <1>5, <2>1 DEF PutNew
  <2>3. sequence'[m] = l + 1 /\ \A n \in Messages \ {m} : sequence'[n] = sequence[n]
    BY <1>1, <2>2
  <2>4. Numbered(sequence') = Numbered(sequence) \cup {m} /\ m \notin Numbered(sequence)
    BY <1>1, <1>2, <2>1, <2>3 DEF Numbered
  <2>5. ASSUME NEW k \in Numbered(sequence'), NEW n \in Numbered(sequence'), created[k] < created[n]
        PROVE  sequence'[k] < sequence'[n]
    <3>1. CASE k # m /\ n # m
      <4>1. k \in Numbered(sequence) /\ n \in Numbered(sequence)
        BY <2>4, <3>1
      <4>2. sequence'[k] = sequence[k] /\ sequence'[n] = sequence[n]
        BY <2>3, <3>1 DEF Numbered
      <4> QED  BY <2>5, <4>1, <4>2 DEF OrderInv
    <3>2. CASE n = m /\ k # m
      <4>1. sequence'[k] = sequence[k] /\ sequence[k] \in Nat /\ sequence[k] <= l
        BY <1>1, <2>1, <2>3, <3>2 DEF Numbered
      <4> QED  BY <2>1, <2>3, <3>2, <4>1
    <3>3. CASE k = m
      <4>1. n # m /\ created[k] \in Nat /\ created[n] \in Nat
        BY <1>1, <2>5, <3>3 DEF Numbered
      <4>2. n \in sent
        BY <1>1, <2>4, <4>1
      <4>3. created[n] < created[m]
        BY <1>2, <4>2 DEF OrderInv
      <4> QED  BY <2>5, <3>3, <4>1, <4>3
    <3> QED  BY <3>1, <3>2, <3>3
  <2>6. heap' \cup inflight' \subseteq Numbered(sequence')
    BY <1>2, <2>2, <2>4 DEF OrderInv
  <2> QED  BY <1>2, <1>3, <2>5, <2>6 DEF OrderInv
<1> QED  BY <1>4, <1>5

LEMMA OrderStep ==
  ASSUME InOrder, OrderInv, [Next]_vars
  PROVE  OrderInv'
<1> USE DEF messageVars, containerVars, groupVars, receiverVars
<1>1. TypedInv'
  BY TypedStep DEF OrderInv
<1>2. ASSUME NEW m \in Messages, VisibilityExpires(m) \/ ExtendVisibility(m) \/ DeleteMessage(m)
      PROVE  OrderInv'
  BY <1>1, <1>2 DEF VisibilityExpires, ExtendVisibility, DeleteMessage, OrderInv
<1>3. ASSUME NEW r \in Receivers, GetGroup(r) \/ EndReceive(r) \/ Reply(r) PROVE OrderInv'
  BY <1>1, <1>3 DEF GetGroup, EndReceive, Reply, OrderInv
<1>4. ASSUME NEW r \in Receivers, LockGroup(r) PROVE OrderInv'
  <2>1. HandedOut(r) \subseteq heap
    BY DEF HandedOut, Earliest, OfGroup
  <2> QED  BY <1>1, <1>4, <2>1 DEF LockGroup, OrderInv
<1>5. ASSUME RequeueInflight PROVE OrderInv'
  <2>1. Expired \subseteq inflight
    BY DEF Expired
  <2> QED  BY <1>1, <1>5, <2>1 DEF RequeueInflight, OrderInv
<1>6. ASSUME RetentionPasses \/ RetentionScan \/ Purge \/ UNCHANGED vars PROVE OrderInv'
  BY <1>1, <1>6 DEF RetentionPasses, RetentionScan, Purge, vars, OrderInv
<1>7. ~ \E m \in Messages : ZeroVisibility(m)
  BY DEF InOrder, ZeroVisibility
<1> QED
  BY <1>1, <1>2, <1>3, <1>4, <1>5, <1>6, <1>7, BuildInOrder, PutInOrder
     DEF Next, Tick, Client, Worker, Receive

(* What stays in a group when messages are handed out is younger than they are. *)
LEMMA OlderFirst ==
  ASSUME TypedInv, NEW S, S \subseteq sent, NEW n \in Int,
         NEW m \in Earliest(S, n), NEW k \in S \ Earliest(S, n)
  PROVE  created[m] < created[k]
<1> DEFINE Older(x) == {y \in S : created[y] < created[x]}
<1>1. IsFiniteSet(S) /\ S \subseteq Messages /\ created \in [Messages -> Nat]
  BY SentFinite DEF TypedInv, TypeOK
<1>2. m \in S /\ created[m] \in Nat /\ created[k] \in Nat
  BY <1>1 DEF Earliest
<1>3. SUFFICES ASSUME created[k] <= created[m] PROVE FALSE
  BY <1>2
<1>4. \A y \in S : created[y] \in Nat
  BY <1>1
<1>5. Older(k) \subseteq Older(m)
  BY <1>2, <1>3, <1>4
<1>6. IsFiniteSet(Older(m)) /\ IsFiniteSet(Older(k))
  BY <1>1, FS_Subset
<1>7. Cardinality(Older(m)) < n /\ ~(Cardinality(Older(k)) < n)
  BY DEF Earliest
<1> HIDE DEF Older
<1>8. Cardinality(Older(k)) <= Cardinality(Older(m)) /\ Cardinality(Older(k)) \in Nat /\ Cardinality(Older(m)) \in Nat
  BY <1>5, <1>6, FS_Subset, FS_CardinalityType
<1> QED  BY <1>7, <1>8

(* If producers do not overlap and no timeout is zeroed, a message is handed out only
   after the messages of its group with smaller sequence numbers that wait there, also
   when some of them come back. *)
THEOREM GroupsInSequence == ASSUME InOrder PROVE Spec => InSequence
<1>1. Init => OrderInv
  <2> SUFFICES ASSUME Init PROVE OrderInv
    OBVIOUS
  <2>1. TypedInv
    BY TypedInit
  <2>2. Numbered(created) = {} /\ Numbered(sequence) = {}
    BY DEF Init, Numbered
  <2> QED  BY <2>1, <2>2 DEF Init, OrderInv
<1>2. OrderInv /\ [Next]_vars => OrderInv'
  BY OrderStep
<1>3. ASSUME OrderInv, [Next]_vars, NEW m \in inflight' \ inflight,
             NEW n \in (heap' \cup stranded') \ deleted, Group[n] = Group[m]
      PROVE  sequence[m] < sequence[n]
  <2> USE DEF messageVars, containerVars, groupVars, receiverVars
  <2>1. PICK r \in Receivers : LockGroup(r)
    BY <1>3 DEF Next, Tick, Client, Worker, Receive, vars, VisibilityExpires, RetentionPasses, Build,
       PutDuplicate, PutNew, GetGroup, EndReceive, Reply, DeleteMessage, ExtendVisibility,
       ZeroVisibility, RequeueInflight, RetentionScan, Purge
  <2> DEFINE S == OfGroup(heap, grip[r]) \ deleted
             N == MaxMessages - Len(batch[r])
  <2>2. m \in Earliest(S, N) /\ Group[m] = grip[r]
    BY <1>3, <2>1 DEF LockGroup, HandedOut, Earliest, OfGroup
  <2>3. n \in S /\ n \notin Earliest(S, N)
    BY <1>3, <2>1, <2>2 DEF LockGroup, HandedOut, Popped, OfGroup, OrderInv
  <2>4. S \subseteq sent /\ S \subseteq Numbered(sequence)
    BY <1>3 DEF OrderInv, TypedInv, Known, OfGroup
  <2>5. N \in Int
    <3>1. batch[r] \in Seq(Messages)
      BY <1>3 DEF OrderInv, TypedInv, TypeOK
    <3> QED  BY <3>1, LenProperties, FifoQueueAssumption
  <2>6. m \in S
    BY <2>2 DEF Earliest
  <2> HIDE DEF S, N
  <2>7. created[m] < created[n]
    BY <1>3, <2>2, <2>3, <2>4, <2>5, OlderFirst DEF OrderInv
  <2> QED  BY <1>3, <2>3, <2>4, <2>6, <2>7 DEF OrderInv
<1>4. OrderInv /\ [Next]_vars
        => [\A m \in inflight' \ inflight : \A n \in (heap' \cup stranded') \ deleted :
              Group[n] = Group[m] => sequence[m] < sequence[n]]_vars
  BY <1>3
<1> QED  BY <1>1, <1>2, <1>4, PTL DEF Spec, InSequence
=============================================================================
