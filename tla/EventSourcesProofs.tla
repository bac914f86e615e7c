------------------------- MODULE EventSourcesProofs -------------------------
(* Theorems about EventSources, for any number of mappings, records and messages,
   any size of a batch and whatever the filters match.

   The first part is what filtering does to a batch. The other two follow a batch
   from the poll that reads it to the invocations of it or of its halves. *)
EXTENDS EventSources, FiniteSetTheorems, SequenceTheorems, TLAPS

-----------------------------------------------------------------------------
(* Filtering a batch. *)

(* The part of a batch that passes holds every member that passes and no other, and
   none later than where it stood in the batch. *)
LEMMA PassingIs ==
  ASSUME NEW S, NEW batch \in Seq(S), NEW wants
  PROVE  /\ Passing(batch, wants) \in Seq(S)
         /\ Len(Passing(batch, wants)) <= Len(batch)
         /\ \A i \in 1..Len(batch) : batch[i] \in wants =>
              \E j \in 1..Len(Passing(batch, wants)) :
                j <= i /\ Passing(batch, wants)[j] = batch[i]
<1> DEFINE P == Passes(batch, wants)
           n == Cardinality(P)
           UpTo(i) == {k \in P : k <= i}
           Rank == [i \in P |-> Cardinality(UpTo(i))]
           At(j) == CHOOSE i \in P : Cardinality(UpTo(i)) = j
<1>1. /\ Len(batch) \in Nat /\ DOMAIN batch = 1..Len(batch)
      /\ \A i \in 1..Len(batch) : batch[i] \in S
  BY LenProperties, ElementOfSeq
<1>2. P \subseteq 1..Len(batch)
  BY <1>1 DEF Passes
<1>3. IsFiniteSet(P) /\ n \in Nat /\ n <= Len(batch)
  <2>0. Len(batch) \in Nat
    BY <1>1
  <2>1. IsFiniteSet(1..Len(batch)) /\ Cardinality(1..Len(batch)) = Len(batch)
    BY <2>0, FS_Interval
  <2> HIDE DEF P
  <2>2. IsFiniteSet(P) /\ Cardinality(P) <= Cardinality(1..Len(batch))
    BY <2>1, <1>2, FS_Subset
  <2> QED  BY <2>1, <2>2, FS_CardinalityType
<1>4. Passing(batch, wants) = [j \in 1..n |-> batch[At(j)]]
  BY DEF Passing
<1> HIDE DEF P
<1>n. P \subseteq Nat \ {0}
  BY <1>1, <1>2
<1>u. ASSUME NEW i, NEW k
      PROVE  k \in UpTo(i) <=> k \in P /\ k <= i
  OBVIOUS
<1> HIDE DEF UpTo
<1>5. ASSUME NEW i \in P
      PROVE  /\ IsFiniteSet(UpTo(i)) /\ i \in UpTo(i)
             /\ Cardinality(UpTo(i)) \in 1..n /\ Cardinality(UpTo(i)) <= i
  <2>0. i \in Nat \ {0}
    BY <1>n
  <2>1. UpTo(i) \in SUBSET P /\ UpTo(i) \in SUBSET (1..i) /\ i \in UpTo(i)
    <3>1. \A k \in UpTo(i) : k \in P /\ k \in Nat \ {0} /\ k <= i
      BY <1>u, <1>n
    <3>2. \A k \in UpTo(i) : k \in 1..i
      BY <3>1, <2>0
    <3>3. i \in UpTo(i)
      BY <1>u, <2>0
    <3> QED  BY <3>1, <3>2, <3>3
  <2>2. IsFiniteSet(UpTo(i)) /\ Cardinality(UpTo(i)) <= n
    BY <2>1, <1>3, FS_Subset
  <2>3. IsFiniteSet(1..i) /\ Cardinality(1..i) = i
    BY <2>0, FS_Interval
  <2>4. Cardinality(UpTo(i)) <= i
    BY <2>1, <2>3, FS_Subset
  <2>5. Cardinality(UpTo(i)) \in Nat /\ Cardinality(UpTo(i)) # 0
    BY <2>1, <2>2, FS_CardinalityType, FS_EmptySet
  <2> QED  BY <2>1, <2>2, <2>4, <2>5, <1>3
<1>6. ASSUME NEW i \in P, NEW k \in P, i < k
      PROVE  Cardinality(UpTo(i)) # Cardinality(UpTo(k))
  <2>0. i \in Nat /\ k \in Nat
    BY <1>n
  <2>1. UpTo(i) \in SUBSET UpTo(k) /\ k \in UpTo(k) /\ k \notin UpTo(i)
    <3>1. ASSUME NEW x \in UpTo(i) PROVE x \in UpTo(k)
      <4>1. x \in P /\ x <= i /\ x \in Nat
        BY <1>u, <1>n
      <4>2. x <= k
        BY <4>1, <2>0, <1>6
      <4> QED  BY <4>1, <4>2, <1>u
    <3>2. k <= k /\ ~(k <= i)
      BY <2>0, <1>6
    <3> QED  BY <3>1, <3>2, <1>u
  <2>2. IsFiniteSet(UpTo(k))
    BY <1>5
  <2> QED  BY <2>1, <2>2, FS_Subset
<1>7. \A i, k \in P : Cardinality(UpTo(i)) = Cardinality(UpTo(k)) => i = k
  <2> SUFFICES ASSUME NEW i \in P, NEW k \in P, i # k
               PROVE  Cardinality(UpTo(i)) # Cardinality(UpTo(k))
    OBVIOUS
  <2>1. i \in Nat /\ k \in Nat
    BY <1>n
  <2>2. i < k \/ k < i
    BY <2>1
  <2> QED  BY <2>2, <1>6
<1>8. \A j \in 1..n : \E i \in P : Cardinality(UpTo(i)) = j
  <2>0. \A i \in P : Cardinality(UpTo(i)) \in 1..n
    BY <1>5
  <2>1. Rank \in Injection(P, 1..n)
    <3> HIDE DEF n
    <3>1. Rank \in [P -> 1..n]
      BY <2>0
    <3>2. \A i, k \in P : Rank[i] = Rank[k] => i = k
      BY <1>7
    <3> HIDE DEF Rank
    <3> QED  BY <3>1, <3>2 DEF Injection, IsInjective
  <2>2. IsFiniteSet(1..n) /\ Cardinality(1..n) = n
    BY <1>3, FS_Interval
  <2>3. Rank \in Surjection(P, 1..n)
    BY <2>1, <2>2, FS_Injection
  <2> QED  BY <2>3 DEF Surjection
<1>9. \A j \in 1..n : At(j) \in P
  BY <1>8
<1>10. \A i \in P : At(Cardinality(UpTo(i))) = i
  BY <1>7
<1> HIDE DEF At, n
<1>11. Passing(batch, wants) \in Seq(S) /\ Len(Passing(batch, wants)) = n
  <2>1. \A j \in 1..n : batch[At(j)] \in S
    BY <1>1, <1>2, <1>9
  <2>2. Passing(batch, wants) \in [1..n -> S]
    BY <2>1, <1>4
  <2>3. Passing(batch, wants) \in Seq(S)
    BY <2>2, <1>3, SeqDef
  <2> QED  BY <2>2, <2>3, <1>3, LenProperties
<1>12. ASSUME NEW i \in 1..Len(batch), batch[i] \in wants
       PROVE  \E j \in 1..n : j <= i /\ Passing(batch, wants)[j] = batch[i]
  <2>1. i \in P
    BY <1>12, <1>1 DEF P, Passes
  <2>2. Cardinality(UpTo(i)) \in 1..n /\ Cardinality(UpTo(i)) <= i
    BY <2>1, <1>5
  <2>3. Passing(batch, wants)[Cardinality(UpTo(i))] = batch[i]
    BY <2>1, <2>2, <1>4, <1>10
  <2> QED  BY <2>2, <2>3
<1> QED  BY <1>3, <1>11, <1>12

-----------------------------------------------------------------------------
(* The poll. *)

(* What a poll has read goes on from the position of the shard, which moves only when
   a poll ends, up to a record that is there; what it sends is what passes the
   filter; a batch is halved only when it sends two records or more, and the second
   half of a stream's batch is never tried. *)
PollInv ==
  poll # Resting =>
    /\ poll.sent = Passing(poll.batch, poll.config.wants)
    /\ poll.step # "whole" => Len(poll.sent) > 1
    /\ OfStream => /\ poll.step # "second"
                   /\ Len(poll.batch) > 0
                   /\ position + Len(poll.batch) <= put
                   /\ \A i \in 1..Len(poll.batch) : poll.batch[i] = position + i

(* Only messages that were sent are received, so a poll finds finitely many. *)
EngineInv ==
  /\ TypeOK
  /\ IsFiniteSet({q \in Messages : queue[q] # "absent"})
  /\ PollInv

(* The batch a poll reads from the shard. *)
LEMMA StreamBatch ==
  ASSUME TypeOK, NEW end, end = IF position + BatchSize < put THEN position + BatchSize ELSE put,
         NEW batch, batch = [i \in 1..(end - position) |-> position + i]
  PROVE  /\ end \in Nat /\ position <= end /\ end <= put
         /\ batch \in Seq(Nat) /\ batch \in Seq(Items)
         /\ Len(batch) = end - position
         /\ \A i \in 1..Len(batch) : batch[i] = position + i
         /\ ToSet(batch) = (position + 1)..end
<1>1. position \in Nat /\ put \in Nat /\ position <= put
  BY EventSourcesAssumption DEF TypeOK
<1>2. end \in Nat /\ position <= end /\ end <= put
  BY <1>1, EventSourcesAssumption
<1>3. end - position \in Nat
  BY <1>1, <1>2
<1>4. batch \in [1..(end - position) -> Nat]
  BY <1>1
<1>5. batch \in Seq(Nat)
  BY <1>3, <1>4, SeqDef
<1>6. Len(batch) = end - position /\ DOMAIN batch = 1..(end - position)
  BY <1>3, <1>4, <1>5, LenProperties
<1>7. batch \in Seq(Items)
  BY <1>5, SeqMonotonic DEF Items
<1>8. \A i \in 1..Len(batch) : batch[i] = position + i
  BY <1>6
<1>9. ToSet(batch) = (position + 1)..end
  <2>1. \A r \in (position + 1)..end :
          r - position \in 1..(end - position) /\ batch[r - position] = r
    BY <1>1, <1>2
  <2>2. \A i \in 1..(end - position) : batch[i] \in (position + 1)..end
    BY <1>1, <1>2
  <2>3. ToSet(batch) = {batch[i] : i \in 1..(end - position)}
    BY <1>6 DEF ToSet
  <2> HIDE DEF ToSet
  <2>4. \A x \in ToSet(batch) : x \in (position + 1)..end
    BY <2>2, <2>3
  <2>5. \A x \in (position + 1)..end : x \in ToSet(batch)
    BY <2>1, <2>3
  <2> QED  BY <2>4, <2>5
<1> QED  BY <1>2, <1>5, <1>6, <1>7, <1>8, <1>9

(* The batch a poll receives from the queue. *)
LEMMA QueueBatch ==
  ASSUME EngineInv, NEW batch \in SetToAllKPermutations({q \in Messages : queue[q] = "visible"})
  PROVE  /\ batch \in Seq(Items)
         /\ ToSet(batch) \subseteq {q \in Messages : queue[q] = "visible"}
<1> DEFINE V == {q \in Messages : queue[q] = "visible"}
<1>1. PICK s \in SUBSET V : batch \in SetToSeqs(s)
  BY DEF SetToAllKPermutations
<1>2. IsFiniteSet(s)
  <2>1. s \in SUBSET {q \in Messages : queue[q] # "absent"}
    OBVIOUS
  <2> QED  BY <2>1, FS_Subset DEF EngineInv
<1>3. Cardinality(s) \in Nat
  BY <1>2, FS_CardinalityType
<1>4. batch \in [1..Cardinality(s) -> s]
  BY <1>1 DEF SetToSeqs
<1>5. batch \in Seq(s)
  BY <1>3, <1>4, SeqDef
<1>6. s \subseteq Items
  BY DEF Items
<1>7. batch \in Seq(Items)
  BY <1>5, <1>6, SeqMonotonic
<1>8. ToSet(batch) \subseteq s
  BY <1>4 DEF ToSet
<1> QED  BY <1>7, <1>8

(* The members of a sequence, and of what an invocation is given. *)
LEMMA Members ==
  ASSUME NEW S, NEW s \in Seq(S)
  PROVE  /\ ToSet(s) = {s[i] : i \in 1..Len(s)} /\ ToSet(s) \subseteq S
         /\ IsFiniteSet(ToSet(s))
<1>1. Len(s) \in Nat /\ DOMAIN s = 1..Len(s) /\ \A i \in 1..Len(s) : s[i] \in S
  BY LenProperties, ElementOfSeq
<1>2. ToSet(s) = {s[i] : i \in 1..Len(s)}
  BY <1>1 DEF ToSet
<1>3. s \in Surjection(1..Len(s), ToSet(s))
  <2>1. s \in [1..Len(s) -> ToSet(s)]
    BY <1>1, <1>2, LenProperties
  <2> QED  BY <2>1, <1>2 DEF Surjection
<1>4. IsFiniteSet(1..Len(s))
  BY <1>1, FS_Interval
<1>5. IsFiniteSet(ToSet(s))
  BY <1>3, <1>4, FS_Surjection
<1> QED  BY <1>1, <1>2, <1>5

LEMMA PollTyped ==
  ASSUME TypeOK, poll # Resting
  PROVE  /\ poll \in Poll /\ poll.mapping \in Mappings /\ poll.config \in Settings
         /\ poll.step \in {"whole", "first", "second"}
         /\ poll.batch \in Seq(Items) /\ poll.sent \in Seq(Items)
BY DEF TypeOK, Poll

LEMMA GivenIs ==
  ASSUME TypeOK, poll # Resting
  PROVE  /\ Middle(poll.sent) \in Nat /\ Middle(poll.sent) <= Len(poll.sent)
         /\ Len(poll.sent) > 1 => Middle(poll.sent) > 0
         /\ ToSet(Given) \subseteq Items /\ IsFiniteSet(ToSet(Given))
         /\ poll.step = "whole" => Given = poll.sent
         /\ poll.step = "first" => ToSet(Given) = {poll.sent[i] : i \in 1..Middle(poll.sent)}
<1> DEFINE s == poll.sent
           mid == Middle(poll.sent)
<1>1. s \in Seq(Items) /\ Len(s) \in Nat /\ \A i \in 1..Len(s) : s[i] \in Items
  BY PollTyped, LenProperties, ElementOfSeq
<1>2. mid \in Nat /\ mid <= Len(s) /\ (Len(s) > 1 => mid > 0)
  <2>1. \A n \in Nat : n \div 2 \in Nat /\ n \div 2 <= n /\ (n > 1 => n \div 2 > 0)
    OBVIOUS
  <2>2. mid = Len(s) \div 2
    BY DEF Middle
  <2> HIDE DEF s, mid
  <2> QED  BY <2>1, <2>2, <1>1
<1> HIDE DEF s, mid
<1>3. /\ SubSeq(s, 1, mid) \in Seq(Items) /\ Len(SubSeq(s, 1, mid)) = mid
      /\ \A i \in 1..mid : SubSeq(s, 1, mid)[i] = s[i]
  <2>1. \A i \in 1..mid : s[i] \in Items
    BY <1>1, <1>2
  <2>2. /\ SubSeq(s, 1, mid) \in Seq(Items)
        /\ Len(SubSeq(s, 1, mid)) = IF 1 <= mid THEN mid - 1 + 1 ELSE 0
        /\ \A i \in 1..(mid - 1 + 1) : SubSeq(s, 1, mid)[i] = s[1 + i - 1]
    BY <2>1, <1>2, SubSeqProperties
  <2> QED  BY <2>2, <1>2
<1>4. SubSeq(s, mid + 1, Len(s)) \in Seq(Items)
  <2>1. \A i \in (mid + 1)..Len(s) : s[i] \in Items
    BY <1>1, <1>2
  <2> QED  BY <2>1, <1>1, <1>2, SubSeqProperties
<1>5. Given \in Seq(Items)
  BY <1>1, <1>3, <1>4 DEF Given, s, mid
<1>6. ToSet(Given) \subseteq Items /\ IsFiniteSet(ToSet(Given))
  BY <1>5, Members
<1>7. poll.step = "first" => Given = SubSeq(s, 1, mid)
  BY DEF Given, s, mid
<1>8. ToSet(SubSeq(s, 1, mid)) = {s[i] : i \in 1..mid}
  <2>1. ToSet(SubSeq(s, 1, mid)) = {SubSeq(s, 1, mid)[i] : i \in 1..mid}
    BY <1>3, Members
  <2> QED  BY <2>1, <1>3
<1>9. poll.step = "whole" => Given = s
  BY DEF Given, s
<1> QED  BY <1>2, <1>6, <1>7, <1>8, <1>9 DEF s, mid

(* What a poll that begins sends. *)
LEMMA Sends ==
  ASSUME TypeOK, NEW m \in Mappings, NEW batch \in Seq(Items),
         Start(m, batch, Passing(batch, config[m].wants))
  PROVE  /\ poll' \in Poll /\ poll' # Resting /\ poll'.mapping = m /\ poll'.step = "whole"
         /\ poll'.batch = batch
         /\ poll'.sent = Passing(poll'.batch, poll'.config.wants)
<1>1. config[m] \in Settings
  BY DEF TypeOK
<1>2. Passing(batch, config[m].wants) \in Seq(Items)
  BY PassingIs
<1>3. Off \notin Mappings
  BY EventSourcesAssumption DEF Mappings
<1> QED  BY <1>1, <1>2, <1>3 DEF Start, Poll, Resting

(* A poll that goes on with a half. *)
LEMMA Halved ==
  ASSUME TypeOK, poll # Resting, NEW half \in {"first", "second"},
         poll' = [poll EXCEPT !.step = half]
  PROVE  /\ poll' \in Poll /\ poll'.mapping = poll.mapping /\ poll'.config = poll.config
         /\ poll'.batch = poll.batch /\ poll'.sent = poll.sent /\ poll'.step = half
<1>1. poll \in Poll
  BY PollTyped
<1> QED  BY <1>1 DEF Poll

(* The position a stream's poll reaches lies in its batch. *)
LEMMA ReachedIs ==
  ASSUME EngineInv, OfStream
  PROVE  /\ Reached(poll) \in Nat /\ position < Reached(poll) /\ Reached(poll) <= put
         /\ poll.step = "whole" => Reached(poll) = position + Len(poll.batch)
         /\ poll.step = "first" => /\ Reached(poll) = position + Middle(poll.sent)
                                   /\ Middle(poll.sent) <= Len(poll.batch)
<1>1. /\ TypeOK /\ poll # Resting /\ position \in Nat /\ put \in Nat
      /\ poll.sent = Passing(poll.batch, poll.config.wants)
      /\ poll.step # "whole" => Len(poll.sent) > 1
      /\ poll.step # "second" /\ Len(poll.batch) > 0
      /\ position + Len(poll.batch) <= put
      /\ \A i \in 1..Len(poll.batch) : poll.batch[i] = position + i
  BY EventSourcesAssumption DEF EngineInv, PollInv, OfStream, TypeOK
<1>2. /\ poll.step \in {"whole", "first"} /\ poll.batch \in Seq(Items) /\ poll.sent \in Seq(Items)
      /\ Len(poll.batch) \in Nat /\ Len(poll.sent) \in Nat
  BY <1>1, PollTyped, LenProperties
<1>3. Len(poll.sent) <= Len(poll.batch)
  BY <1>1, <1>2, PassingIs
<1>4. CASE poll.step = "whole"
  BY <1>1, <1>2, <1>4 DEF Reached, Last
<1>5. CASE poll.step = "first"
  <2>1. Middle(poll.sent) \in 1..Len(poll.batch)
    BY <1>1, <1>2, <1>3, <1>5, GivenIs
  <2> QED  BY <2>1, <1>1, <1>2, <1>5 DEF Reached
<1> QED  BY <1>2, <1>4, <1>5

(* A step that leaves the poll, and what it has read, as they are. *)
LEMMA PollKept ==
  ASSUME EngineInv, UNCHANGED <<poll, position>>, put' \in Nat, put <= put'
  PROVE  PollInv'
<1>1. position \in Nat /\ put \in Nat
  BY EventSourcesAssumption DEF EngineInv, TypeOK
<1>2. CASE poll = Resting
  BY <1>2 DEF PollInv
<1>3. CASE poll # Resting /\ OfStream
  <2>1. Len(poll.batch) \in Nat
    BY <1>3, PollTyped, LenProperties DEF EngineInv
  <2>2. position + Len(poll.batch) <= put
    BY <1>3 DEF EngineInv, PollInv
  <2>3. position + Len(poll.batch) <= put'
    BY <1>1, <2>1, <2>2
  <2> QED  BY <1>3, <2>3 DEF EngineInv, PollInv, OfStream
<1>4. CASE poll # Resting /\ ~OfStream
  BY <1>4 DEF EngineInv, PollInv, OfStream
<1> QED  BY <1>2, <1>3, <1>4

(* A poll that goes on with a half of what passed. *)
LEMMA HalfKept ==
  ASSUME EngineInv, poll # Resting, NEW half \in {"first", "second"},
         poll' = [poll EXCEPT !.step = half], Len(poll.sent) > 1,
         OfStream => half = "first", UNCHANGED <<position, put>>
  PROVE  PollInv'
<1>1. /\ poll'.mapping = poll.mapping /\ poll'.config = poll.config
      /\ poll'.batch = poll.batch /\ poll'.sent = poll.sent /\ poll'.step = half
  BY Halved DEF EngineInv
<1> QED  BY <1>1 DEF EngineInv, PollInv, OfStream

(* What follows the first half of a queue's batch, or ends the poll. *)
LEMMA HalfNext ==
  ASSUME EngineInv, OfQueue, poll' = NextHalf, UNCHANGED <<position, put>>
  PROVE  poll' \in {Resting} \cup Poll /\ PollInv'
<1>1. TypeOK /\ poll # Resting /\ ~OfStream
  BY EventSourcesAssumption DEF EngineInv, OfQueue, OfStream
<1>2. CASE poll.step = "first"
  <2>1. poll' = [poll EXCEPT !.step = "second"] /\ Len(poll.sent) > 1
    BY <1>1, <1>2 DEF NextHalf, EngineInv, PollInv
  <2> QED  BY <1>1, <2>1, Halved, HalfKept
<1>3. CASE poll.step # "first"
  BY <1>3 DEF NextHalf, PollInv
<1> QED  BY <1>2, <1>3

(* Every step keeps the variables in their types and the poll as it should be. *)
LEMMA EngineStep ==
  ASSUME EngineInv, [Next]_vars
  PROVE  EngineInv'
<1> USE DEF configVars, sourceVars, history
<1> DEFINE Known == {q \in Messages : queue[q] # "absent"}
<1> TypeOK /\ PollInv /\ IsFiniteSet(Known)
  BY DEF EngineInv
<1>p. position \in Nat /\ put \in Nat /\ position <= put /\ MaxRecords \in Nat /\ MaxFailures \in Nat
  BY EventSourcesAssumption DEF TypeOK
<1>0. ASSUME UNCHANGED <<poll, position, put>> PROVE PollInv'
  BY <1>0, <1>p, PollKept
<1>1. ASSUME NEW m \in Mappings, CreateMapping(m) \/ UpdateMapping(m) \/ DeleteMapping(m)
      PROVE  EngineInv'
  <2>1. state' \in [Mappings -> {"none", "Enabled", "Disabled", "deleted"}]
    BY <1>1 DEF CreateMapping, UpdateMapping, DeleteMapping, Configure, TypeOK
  <2>2. \A c \in Configs(m) : c \in Settings
    BY DEF Configs, Settings
  <2>3. config' \in [Mappings -> Settings]
    BY <1>1, <2>2 DEF CreateMapping, UpdateMapping, DeleteMapping, TypeOK
  <2>4. UNCHANGED <<todo, poll, sourceVars, position, failures, history>>
    BY <1>1 DEF CreateMapping, UpdateMapping, DeleteMapping, Configure
  <2> QED  BY <2>1, <2>3, <2>4, <1>0 DEF EngineInv, TypeOK
<1>2. CASE PutRecord
  <2>1. put' = put + 1 /\ put' <= MaxRecords /\ UNCHANGED <<poll, position>>
    BY <1>2, <1>p DEF PutRecord
  <2>2. PollInv'
    BY <2>1, <1>p, PollKept
  <2> QED  BY <2>1, <2>2, <1>2, <1>p DEF PutRecord, EngineInv, TypeOK
<1>3. ASSUME NEW q \in Messages, SendMessage(q) \/ OtherReceives(q) \/ VisibilityExpires(q)
      PROVE  EngineInv'
  <2>1. /\ queue' \in [Messages -> {"absent", "visible", "inflight", "deleted"}]
        /\ UNCHANGED <<configVars, todo, poll, put, position, failures, history>>
    BY <1>3 DEF SendMessage, OtherReceives, VisibilityExpires, MessageMoves, TypeOK
  <2>2. Known' \in SUBSET (Known \cup {q})
    BY <1>3 DEF SendMessage, OtherReceives, VisibilityExpires, MessageMoves, TypeOK
  <2>3. IsFiniteSet(Known \cup {q})
    BY FS_AddElement
  <2>4. IsFiniteSet(Known')
    BY <2>2, <2>3, FS_Subset
  <2> QED  BY <2>1, <2>4, <1>0 DEF EngineInv, TypeOK
<1>4. CASE Turn
  BY <1>4, <1>0 DEF Turn, Live, EngineInv, TypeOK
<1>5. ASSUME NEW m \in Mappings, Disabled(m)
      PROVE  EngineInv'
  BY <1>5, <1>0 DEF Disabled, Take, EngineInv, TypeOK
<1>6. ASSUME NEW m \in Mappings, PollStream(m)
      PROVE  EngineInv'
  <2>1. PICK end : end = IF position + BatchSize < put THEN position + BatchSize ELSE put
    OBVIOUS
  <2>2. PICK batch : batch = [i \in 1..(end - position) |-> position + i]
    OBVIOUS
  <2>3. /\ end \in Nat /\ position <= end /\ end <= put /\ batch \in Seq(Items)
        /\ Len(batch) = end - position /\ \A i \in 1..Len(batch) : batch[i] = position + i
        /\ ToSet(batch) = (position + 1)..end
    BY <2>1, <2>2, StreamBatch
  <2>4. UNCHANGED <<configVars, sourceVars, failures, unread>> /\ todo' \subseteq Mappings
    BY <1>6 DEF PollStream, Take, TypeOK
  <2>5. \/ UNCHANGED <<poll, position, done>>
        \/ position' = end /\ done' = done \cup ToSet(batch) /\ poll = Resting /\ UNCHANGED poll
        \/ /\ Start(m, batch, Passing(batch, config[m].wants)) /\ UNCHANGED <<position, done>>
           /\ batch # <<>> /\ m \in StreamMappings
    BY <1>6, <2>1, <2>2 DEF PollStream, Take, PastFiltered
  <2>6. CASE UNCHANGED <<poll, position, done>>
    BY <2>4, <2>6, <1>0 DEF EngineInv, TypeOK
  <2>7. CASE position' = end /\ done' = done \cup ToSet(batch) /\ poll = Resting /\ UNCHANGED poll
    <3>1. PollInv'
      BY <2>7 DEF PollInv
    <3>2. ToSet(batch) \subseteq Items
      BY <2>3, Members
    <3> QED  BY <2>3, <2>4, <2>7, <3>1, <3>2 DEF EngineInv, TypeOK
  <2>8. CASE /\ Start(m, batch, Passing(batch, config[m].wants)) /\ UNCHANGED <<position, done>>
             /\ batch # <<>> /\ m \in StreamMappings
    <3>1. /\ poll' \in Poll /\ poll' # Resting /\ poll'.mapping = m /\ poll'.step = "whole"
          /\ poll'.batch = batch
          /\ poll'.sent = Passing(poll'.batch, poll'.config.wants)
      BY <2>3, <2>8, Sends
    <3>2. Len(batch) > 0
      BY <2>3, <2>8, EmptySeq
    <3>3. position + Len(batch) <= put
      BY <2>3, <1>p
    <3>4. PollInv'
      BY <2>3, <2>4, <2>8, <3>1, <3>2, <3>3 DEF PollInv, OfStream
    <3> QED  BY <2>4, <2>8, <3>1, <3>4 DEF EngineInv, TypeOK
  <2> QED  BY <2>5, <2>6, <2>7, <2>8
<1>7. ASSUME NEW m \in Mappings, PollQueue(m)
      PROVE  EngineInv'
  <2>1. PICK batch \in SetToAllKPermutations({q \in Messages : queue[q] = "visible"}) :
          \/ UNCHANGED <<poll, queue, done>>
          \/ /\ queue' = [q \in Messages |-> IF q \in ToSet(batch) THEN "deleted" ELSE queue[q]]
             /\ done' = done \cup ToSet(batch) /\ UNCHANGED poll
          \/ /\ queue' = [q \in Messages |-> IF q \in ToSet(batch) THEN "inflight" ELSE queue[q]]
             /\ Start(m, batch, Passing(batch, config[m].wants)) /\ UNCHANGED done
    BY <1>7 DEF PollQueue
  <2>2. batch \in Seq(Items) /\ ToSet(batch) \subseteq {q \in Messages : queue[q] = "visible"}
    BY QueueBatch
  <2>3. /\ UNCHANGED <<configVars, put, position, failures, unread>> /\ todo' \subseteq Mappings
        /\ m \in QueueMappings
    BY <1>7 DEF PollQueue, Take, TypeOK
  <2>4. queue' \in [Messages -> {"absent", "visible", "inflight", "deleted"}]
    BY <2>1 DEF TypeOK
  <2>5. Known' \in SUBSET Known
    BY <2>1, <2>2 DEF TypeOK
  <2>6. IsFiniteSet(Known')
    BY <2>5, FS_Subset
  <2>7. done' \subseteq Items
    BY <2>1, <2>2, Members DEF TypeOK
  <2>8. poll' \in {Resting} \cup Poll /\ PollInv'
    <3>1. CASE UNCHANGED poll
      BY <2>3, <3>1, <1>0 DEF TypeOK
    <3>2. CASE Start(m, batch, Passing(batch, config[m].wants))
      <4>1. /\ poll' \in Poll /\ poll' # Resting /\ poll'.mapping = m /\ poll'.step = "whole"
            /\ poll'.batch = batch
            /\ poll'.sent = Passing(poll'.batch, poll'.config.wants)
        BY <2>2, <3>2, Sends
      <4>2. m \notin StreamMappings
        BY <2>3, EventSourcesAssumption
      <4> QED  BY <4>1, <4>2 DEF PollInv, OfStream
    <3> QED  BY <2>1, <3>1, <3>2
  <2> QED  BY <2>3, <2>4, <2>6, <2>7, <2>8 DEF EngineInv, TypeOK
<1>8. CASE StreamSucceeds
  <2>1. /\ OfStream /\ position' = Reached(poll) /\ poll' = Resting
        /\ done' = done \cup ToSet(Given) \cup Filtered
        /\ UNCHANGED <<configVars, todo, sourceVars, failures, unread>>
    BY <1>8 DEF StreamSucceeds
  <2>2. Reached(poll) \in Nat /\ Reached(poll) <= put
    BY <2>1, ReachedIs
  <2>3. ToSet(Given) \subseteq Items /\ Filtered \subseteq Items
    BY <2>1, GivenIs, PollTyped, Members DEF OfStream, Filtered
  <2>4. PollInv'
    BY <2>1 DEF PollInv
  <2> QED  BY <2>1, <2>2, <2>3, <2>4 DEF EngineInv, TypeOK
<1>9. CASE StreamFails
  <2>1. /\ OfStream /\ failures' = failures + 1 /\ failures < MaxFailures
        /\ UNCHANGED <<configVars, todo, sourceVars, position, history>>
        /\ \/ Bisects /\ poll' = [poll EXCEPT !.step = "first"]
           \/ poll' = Resting
    BY <1>9 DEF StreamFails
  <2>2. poll' \in {Resting} \cup Poll /\ PollInv'
    <3>1. CASE Bisects /\ poll' = [poll EXCEPT !.step = "first"]
      BY <2>1, <3>1, Halved, HalfKept DEF Bisects, OfStream
    <3>2. CASE poll' = Resting
      BY <3>2 DEF PollInv
    <3> QED  BY <2>1, <3>1, <3>2
  <2> QED  BY <2>1, <2>2, <1>p DEF EngineInv, TypeOK
<1>10. ASSUME NEW failed \in SUBSET Messages, QueueSucceeds(failed)
       PROVE  EngineInv'
  <2>1. /\ OfQueue /\ poll' = NextHalf
        /\ queue' = [q \in Messages |-> IF q \in Acknowledged(poll, failed) THEN "deleted" ELSE queue[q]]
        /\ done' = done \cup (ToSet(Given) \ failed) \cup (IF poll.step = "whole" THEN Filtered ELSE {})
        /\ unread' = unread \cup (IF poll.step = "whole" THEN {} ELSE failed)
        /\ UNCHANGED <<configVars, todo, put, position, failures>>
    BY <1>10 DEF QueueSucceeds
  <2>2. /\ ToSet(Given) \subseteq Items /\ IsFiniteSet(ToSet(Given))
        /\ ToSet(poll.batch) \subseteq Items /\ IsFiniteSet(ToSet(poll.batch))
    BY <2>1, GivenIs, PollTyped, Members DEF OfQueue
  <2>3. IsFiniteSet(Known')
    <3>1. IsFiniteSet(Known \cup ToSet(Given)) /\ IsFiniteSet(Known \cup ToSet(poll.batch))
      BY <2>2, FS_Union
    <3>2. \/ Acknowledged(poll, failed) \subseteq ToSet(poll.batch)
          \/ Acknowledged(poll, failed) = ToSet(Given)
      BY DEF Acknowledged
    <3>3. Known' \subseteq Known \cup Acknowledged(poll, failed)
      BY <2>1
    <3>4. Known' \in SUBSET (Known \cup ToSet(Given)) \/ Known' \in SUBSET (Known \cup ToSet(poll.batch))
      BY <3>2, <3>3
    <3> QED  BY <3>1, <3>4, FS_Subset
  <2>4. done' \subseteq Items /\ unread' \subseteq Messages
    BY <2>1, <2>2 DEF TypeOK, Filtered
  <2>5. queue' \in [Messages -> {"absent", "visible", "inflight", "deleted"}]
    BY <2>1 DEF TypeOK
  <2>6. poll' \in {Resting} \cup Poll /\ PollInv'
    BY <2>1, HalfNext DEF OfQueue
  <2> QED  BY <2>1, <2>3, <2>4, <2>5, <2>6 DEF EngineInv, TypeOK
<1>11. CASE QueueFails
  <2>1. /\ OfQueue /\ failures' = failures + 1 /\ failures < MaxFailures
        /\ UNCHANGED <<configVars, todo, sourceVars, position, history>>
        /\ \/ Bisects /\ poll' = [poll EXCEPT !.step = "first"]
           \/ poll' = NextHalf
    BY <1>11 DEF QueueFails
  <2>2. CASE Bisects /\ poll' = [poll EXCEPT !.step = "first"]
    <3>1. poll' \in Poll /\ PollInv'
      BY <2>1, <2>2, Halved, HalfKept DEF Bisects, OfQueue
    <3> QED  BY <2>1, <3>1, <1>p DEF EngineInv, TypeOK
  <2>3. CASE poll' = NextHalf
    <3>1. poll' \in {Resting} \cup Poll /\ PollInv'
      BY <2>1, <2>3, HalfNext DEF OfQueue
    <3> QED  BY <2>1, <3>1, <1>p DEF EngineInv, TypeOK
  <2> QED  BY <2>1, <2>2, <2>3
<1>12. CASE UNCHANGED vars
  BY <1>12, <1>0 DEF vars, EngineInv, TypeOK
<1> QED
  BY <1>1, <1>2, <1>3, <1>4, <1>5, <1>6, <1>7, <1>8, <1>9, <1>10, <1>11, <1>12 DEF Next, Engine

LEMMA EngineInvariant == Spec => []EngineInv
<1>1. Init => EngineInv
  <2> SUFFICES ASSUME Init PROVE EngineInv
    OBVIOUS
  <2>1. {q \in Messages : queue[q] # "absent"} = {}
    BY DEF Init
  <2>2. Unset \in Settings
    BY DEF Unset, Settings
  <2>3. TypeOK
    BY <2>2, EventSourcesAssumption DEF Init, TypeOK
  <2>4. PollInv
    BY DEF Init, PollInv
  <2> QED  BY <2>1, <2>3, <2>4, FS_EmptySet DEF EngineInv
<1>2. EngineInv /\ [Next]_vars => EngineInv'
  BY EngineStep
<1> QED  BY <1>1, <1>2, PTL DEF Spec

(* The variables keep their types, whatever the API, the producers and the engine do,
   and in particular the position of a shard never passes its last record. *)
THEOREM TypeCorrect == Spec => []TypeOK
<1>1. EngineInv => TypeOK
  BY DEF EngineInv
<1> QED  BY <1>1, EngineInvariant, PTL

-----------------------------------------------------------------------------
(* No record is skipped. *)

LEMMA DoneGrows ==
  ASSUME EngineInv, [Next]_vars
  PROVE  done \subseteq done' /\ unread \subseteq unread'
<1>1. CASE Engine
  <2>1. ASSUME NEW m \in Mappings, PollStream(m)
        PROVE  done \subseteq done' /\ unread \subseteq unread'
    BY <2>1 DEF PollStream
  <2>2. ASSUME NEW m \in Mappings, PollQueue(m)
        PROVE  done \subseteq done' /\ unread \subseteq unread'
    BY <2>2 DEF PollQueue
  <2> QED  BY <1>1, <2>1, <2>2
             DEF Engine, Turn, Disabled, StreamSucceeds, StreamFails, QueueSucceeds, QueueFails, history
<1>2. CASE ~Engine
  BY <1>2 DEF Next, CreateMapping, UpdateMapping, DeleteMapping, Configure, PutRecord, SendMessage,
              OtherReceives, VisibilityExpires, MessageMoves, vars, history
<1> QED  BY <1>1, <1>2

(* A successful invocation moves the position past records it was given, and ones
   that do not pass the filter: for half of a batch too, although its middle is
   counted among the records that pass and looked up among all of them, since no
   record stands later among those that pass than it stood in the batch. *)
LEMMA ReachedHandled ==
  ASSUME EngineInv, OfStream
  PROVE  (position + 1)..Reached(poll) \subseteq ToSet(Given) \cup Filtered
<1>1. /\ TypeOK /\ poll # Resting /\ position \in Nat
      /\ poll.sent = Passing(poll.batch, poll.config.wants)
      /\ poll.step # "second"
      /\ position + Len(poll.batch) <= put
      /\ \A i \in 1..Len(poll.batch) : poll.batch[i] = position + i
  BY EventSourcesAssumption DEF EngineInv, PollInv, OfStream, TypeOK
<1>2. /\ poll.step \in {"whole", "first"}
      /\ poll.batch \in Seq(Items) /\ Len(poll.batch) \in Nat
      /\ poll.sent \in Seq(Items) /\ Len(poll.sent) \in Nat /\ Len(poll.sent) <= Len(poll.batch)
  BY <1>1, PollTyped, LenProperties, PassingIs
<1>3. Middle(poll.sent) \in Nat /\ Middle(poll.sent) <= Len(poll.sent)
  BY <1>1, GivenIs
<1> SUFFICES ASSUME NEW r \in (position + 1)..Reached(poll), r \notin Filtered
             PROVE  r \in ToSet(Given)
  OBVIOUS
<1>4. PICK last \in 1..Len(poll.batch) :
         /\ Reached(poll) = position + last
         /\ poll.step = "whole" => last = Len(poll.batch)
         /\ poll.step = "first" => last = Middle(poll.sent)
  <2>1. /\ Reached(poll) \in Nat /\ position < Reached(poll)
        /\ poll.step = "whole" => Reached(poll) = position + Len(poll.batch)
        /\ poll.step = "first" => /\ Reached(poll) = position + Middle(poll.sent)
                                  /\ Middle(poll.sent) <= Len(poll.batch)
    BY ReachedIs
  <2>2. CASE poll.step = "whole"
    <3>1. Len(poll.batch) \in 1..Len(poll.batch)
      BY <2>1, <2>2, <1>1, <1>2
    <3> QED  BY <3>1, <2>1, <2>2
  <2>3. CASE poll.step = "first"
    <3>1. Middle(poll.sent) \in 1..Len(poll.batch)
      BY <2>1, <2>3, <1>1, <1>2, <1>3
    <3> QED  BY <3>1, <2>1, <2>3
  <2> QED  BY <2>2, <2>3, <1>2
<1>5. PICK i \in 1..Len(poll.batch) : i <= last /\ r = poll.batch[i]
  <2>1. r - position \in 1..Len(poll.batch) /\ r - position <= last /\ position + (r - position) = r
    BY <1>1, <1>2, <1>4
  <2> QED  BY <2>1, <1>1
<1>6. poll.batch[i] \in poll.config.wants
  <2>1. poll.batch[i] \in ToSet(poll.batch)
    BY <1>2, Members
  <2> QED  BY <2>1, <1>5 DEF Filtered
<1>7. PICK j \in 1..Len(poll.sent) : j <= i /\ poll.sent[j] = poll.batch[i]
  <2> DEFINE wants == poll.config.wants
             batch == poll.batch
  <2>1. poll.sent = Passing(batch, wants) /\ batch \in Seq(Items) /\ batch[i] \in wants
    BY <1>1, <1>2, <1>6
  <2> HIDE DEF wants, batch
  <2>2. \E j \in 1..Len(Passing(batch, wants)) : j <= i /\ Passing(batch, wants)[j] = batch[i]
    BY <2>1, PassingIs DEF batch
  <2> QED  BY <2>1, <2>2 DEF batch
<1>8. CASE poll.step = "whole"
  <2>1. ToSet(Given) = {poll.sent[k] : k \in 1..Len(poll.sent)}
    <3>1. Given = poll.sent
      BY <1>8, <1>1, GivenIs
    <3> QED  BY <3>1, <1>2, Members
  <2> QED  BY <2>1, <1>5, <1>7
<1>9. CASE poll.step = "first"
  <2>1. ToSet(Given) = {poll.sent[k] : k \in 1..Middle(poll.sent)}
    BY <1>9, <1>1, GivenIs
  <2>2. j \in 1..Middle(poll.sent)
    BY <1>2, <1>3, <1>4, <1>5, <1>7, <1>9
  <2> QED  BY <2>1, <2>2, <1>5, <1>7
<1> QED  BY <1>2, <1>8, <1>9

LEMMA NoneSkippedStep ==
  ASSUME EngineInv, NoneSkipped, [Next]_vars
  PROVE  NoneSkipped'
<1>1. done \subseteq done' /\ position \in Nat
  BY DoneGrows, EventSourcesAssumption DEF EngineInv, TypeOK
<1>2. CASE position' = position
  BY <1>1, <1>2 DEF NoneSkipped
<1>3. CASE StreamSucceeds
  <2>1. /\ OfStream /\ position' = Reached(poll)
        /\ done' = done \cup ToSet(Given) \cup Filtered
    BY <1>3 DEF StreamSucceeds
  <2>2. (position + 1)..Reached(poll) \subseteq done' /\ Reached(poll) \in Nat
    BY <2>1, ReachedHandled, ReachedIs
  <2>3. 1..Reached(poll) \subseteq 1..position \cup (position + 1)..Reached(poll)
    BY <1>1, <2>2
  <2> QED  BY <1>1, <2>1, <2>2, <2>3 DEF NoneSkipped
<1>4. ASSUME NEW m \in Mappings, PollStream(m), position' # position
      PROVE  NoneSkipped'
  <2>1. PICK end : end = IF position + BatchSize < put THEN position + BatchSize ELSE put
    OBVIOUS
  <2>2. PICK batch : batch = [i \in 1..(end - position) |-> position + i]
    OBVIOUS
  <2>3. end \in Nat /\ ToSet(batch) = (position + 1)..end
    BY <2>1, <2>2, StreamBatch DEF EngineInv
  <2>4. position' = end /\ done' = done \cup ToSet(batch)
    BY <1>4, <2>1, <2>2 DEF PollStream, PastFiltered
  <2>5. 1..end \subseteq 1..position \cup (position + 1)..end
    BY <1>1, <2>3
  <2> QED  BY <2>3, <2>4, <2>5 DEF NoneSkipped
<1> QED
  BY <1>2, <1>3, <1>4
     DEF Next, Engine, Turn, Disabled, PollQueue, StreamFails, QueueSucceeds, QueueFails,
         CreateMapping, UpdateMapping, DeleteMapping, Configure, PutRecord, SendMessage,
         OtherReceives, VisibilityExpires, MessageMoves, vars

(* The position of a shard never passes a record that no function has accepted and no
   filter has rejected, however many mappings read the shard, come, go and change
   while a batch is with a function, whatever fails and wherever a batch is halved. *)
THEOREM NoRecordSkipped == Spec => []NoneSkipped
<1>1. Init => NoneSkipped
  BY DEF Init, NoneSkipped
<1>2. EngineInv /\ NoneSkipped /\ [Next]_vars => NoneSkipped'
  BY NoneSkippedStep
<1> QED  BY <1>1, <1>2, EngineInvariant, PTL DEF Spec

-----------------------------------------------------------------------------
(* No message is deleted unhandled. *)

LEMMA DeletedHandledStep ==
  ASSUME EngineInv, DeletedHandled, [Next]_vars
  PROVE  DeletedHandled'
<1> USE DEF configVars, sourceVars, history
<1>0. done \subseteq done' /\ unread \subseteq unread'
  BY DoneGrows
<1> TypeOK
  BY DEF EngineInv
<1> SUFFICES ASSUME NEW q \in Messages, queue'[q] = "deleted", queue[q] # "deleted"
             PROVE  q \in done' \cup unread'
  BY <1>0 DEF DeletedHandled
<1>1. ASSUME NEW m \in Mappings, PollQueue(m)
      PROVE  q \in done' \cup unread'
  BY <1>1 DEF PollQueue, TypeOK
<1>2. ASSUME NEW failed \in SUBSET Messages, QueueSucceeds(failed)
      PROVE  q \in done' \cup unread'
  <2>1. /\ OfQueue /\ q \in Acknowledged(poll, failed)
        /\ failed \subseteq (IF poll.config.report THEN ToSet(Given) ELSE {})
        /\ done' = done \cup (ToSet(Given) \ failed) \cup (IF poll.step = "whole" THEN Filtered ELSE {})
        /\ unread' = unread \cup (IF poll.step = "whole" THEN {} ELSE failed)
    BY <1>2 DEF QueueSucceeds, TypeOK
  <2>2. CASE poll.step # "whole"
    BY <2>1, <2>2 DEF Acknowledged
  <2>3. CASE poll.step = "whole"
    <3>1. q \in ToSet(poll.batch) /\ q \notin failed
      BY <2>1, <2>3 DEF Acknowledged
    <3>2. CASE q \notin poll.config.wants
      BY <2>1, <2>3, <3>1, <3>2 DEF Filtered
    <3>3. CASE q \in poll.config.wants
      <4>1. /\ poll.batch \in Seq(Items) /\ poll.sent \in Seq(Items) /\ Given = poll.sent
            /\ poll.sent = Passing(poll.batch, poll.config.wants)
        BY <2>1, <2>3, PollTyped, GivenIs DEF OfQueue, EngineInv, PollInv
      <4>2. PICK i \in 1..Len(poll.batch) : q = poll.batch[i]
        BY <3>1, <4>1, Members
      <4>3. PICK j \in 1..Len(poll.sent) : poll.sent[j] = q
        BY <3>3, <4>1, <4>2, PassingIs
      <4>4. q \in ToSet(Given)
        BY <4>1, <4>3, Members
      <4> QED  BY <2>1, <3>1, <4>4
    <3> QED  BY <3>2, <3>3
  <2> QED  BY <2>2, <2>3
<1> QED
  BY <1>1, <1>2
     DEF Next, Engine, Turn, Disabled, PollStream, StreamSucceeds, StreamFails, QueueFails,
         CreateMapping, UpdateMapping, DeleteMapping, Configure, PutRecord, SendMessage,
         OtherReceives, VisibilityExpires, MessageMoves, vars, TypeOK

(* The engine deletes no message of the queue unless a function has accepted it, a
   filter has rejected it, or it was reported as failed in half of a batch, where the
   report is not read: not by an old receipt, not after the failure of a half. *)
THEOREM OnlyHandledDeleted == Spec => []DeletedHandled
<1>1. Init => DeletedHandled
  BY DEF Init, DeletedHandled
<1>2. EngineInv /\ DeletedHandled /\ [Next]_vars => DeletedHandled'
  BY DeletedHandledStep
<1> QED  BY <1>1, <1>2, EngineInvariant, PTL DEF Spec
=============================================================================
