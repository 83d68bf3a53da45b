---------------------------- MODULE StoreProofs ----------------------------
(***************************************************************************)
(* What the operators of OfflineEventStore do to any sequence of events,   *)
(* proved once for the theorems about the tasks that use the store.        *)
(***************************************************************************)
EXTENDS OfflineEventStore, EventSequences, FiniteSetTheorems

(* push() either finds nothing to supersede, or erases one entry of the    *)
(* event's own source and leaves the rest in order.                        *)
LEMMA CoalescedCases ==
    ASSUME NEW s \in Seq(EventRecords), NEW e \in EventRecords
    PROVE  \/ Superseded(s, e) = {} /\ Coalesced(s, e) = s
           \/ \E i \in 1..Len(s) :
                 /\ e.sourceId # SystemSource
                 /\ s[i].sourceId = e.sourceId
                 /\ Superseded(s, e) # {}
                 /\ Coalesced(s, e) = RemoveAt(s, i)
<1>1. CASE Superseded(s, e) = {}
  BY <1>1 DEF Coalesced
<1>2. CASE Superseded(s, e) # {}
  <2> DEFINE First(i) == \A j \in Superseded(s, e) : i <= j
  <2>1. \E i \in Superseded(s, e) : First(i)
    <3>1. Superseded(s, e) \in SUBSET Nat
      BY DEF Superseded
    <3>. QED  BY <3>1, <1>2, LeastOf
  <2>2. PICK i \in Superseded(s, e) :
           i = CHOOSE k \in Superseded(s, e) : First(k)
    BY <2>1
  <2>. QED  BY <1>2, <2>2 DEF Coalesced, Superseded
<1>. QED  BY <1>1, <1>2

(* The entries of a superseded backlog are entries of the old one, in      *)
(* their old order.                                                        *)
LEMMA CoalescedShape ==
    ASSUME NEW s \in Seq(EventRecords), NEW e \in EventRecords
    PROVE  /\ Coalesced(s, e) \in Seq(EventRecords)
           /\ Len(Coalesced(s, e)) =
                  Len(s) - (IF Superseded(s, e) = {} THEN 0 ELSE 1)
           /\ Superseded(s, e) # {} => Len(s) > 0
<1>1. CASE Superseded(s, e) = {} /\ Coalesced(s, e) = s
  BY <1>1
<1>2. CASE \E i \in 1..Len(s) :
              Superseded(s, e) # {} /\ Coalesced(s, e) = RemoveAt(s, i)
  <2>1. PICK i \in 1..Len(s) :
               Superseded(s, e) # {} /\ Coalesced(s, e) = RemoveAt(s, i)
    BY <1>2
  <2>2. RemoveAt(s, i) \in Seq(EventRecords) /\ Len(RemoveAt(s, i)) = Len(s) - 1
    BY RemoveFacts
  <2>. QED  BY <2>1, <2>2
<1>. QED  BY <1>1, <1>2, CoalescedCases

(* push() keeps the bound; it grows the buffer by one, or replaces, or     *)
(* turns the event away, and it never turns away what it could replace.    *)
LEMMA PushedShape ==
    ASSUME NEW s \in Seq(EventRecords), NEW e \in EventRecords,
           Len(s) <= StoreCapacity
    PROVE  /\ Pushed(s, e) \in Seq(EventRecords)
           /\ Len(Pushed(s, e)) <= StoreCapacity
           /\ Len(Pushed(s, e)) =
                  Len(s) - (IF Superseded(s, e) = {} THEN 0 ELSE 1)
                         + (IF PushAccepts(s, e) THEN 1 ELSE 0)
           /\ ~PushAccepts(s, e) =>
                  /\ Superseded(s, e) = {} /\ Pushed(s, e) = s
                  /\ Len(s) = StoreCapacity
<1>1. Len(s) \in Nat /\ StoreCapacity \in Nat
  BY StoreCapacityAssumption, LenProperties
<1>2. CASE PushAccepts(s, e)
  <2>1. /\ Append(Coalesced(s, e), e) \in Seq(EventRecords)
        /\ Len(Append(Coalesced(s, e), e)) = Len(Coalesced(s, e)) + 1
    BY CoalescedShape, AppendProperties
  <2>. QED  BY <1>1, <1>2, <2>1, CoalescedShape DEF Pushed, PushAccepts
<1>3. CASE ~PushAccepts(s, e)
  <2>1. Superseded(s, e) = {}
    <3>1. ~(Len(Coalesced(s, e)) < StoreCapacity)
      BY <1>3 DEF PushAccepts
    <3>2. SUFFICES ASSUME Superseded(s, e) # {} PROVE FALSE
      OBVIOUS
    <3>3. Len(Coalesced(s, e)) = Len(s) - 1
      BY <3>2, CoalescedShape
    <3>. QED  BY <1>1, <3>1, <3>3
  <2>2. Coalesced(s, e) = s
    BY <2>1 DEF Coalesced
  <2>. QED  BY <1>1, <1>3, <2>1, <2>2 DEF Pushed, PushAccepts
<1>. QED  BY <1>2, <1>3

(* The order push() keeps for all it is given: sequence ids rise, and an    *)
(* input has one entry, while the system source may have many.             *)
Rising(s) ==
    \A i, j \in 1..Len(s) : i < j =>
        /\ s[i].sequenceId < s[j].sequenceId
        /\ s[i].sourceId = s[j].sourceId => s[i].sourceId = SystemSource

(* Among rising entries an input occurs once: superseding removes it, and  *)
(* moves no entry past another.                                            *)
LEMMA CoalescedRising ==
    ASSUME NEW s \in Seq(EventRecords), NEW e \in EventRecords,
           Rising(s), e.sourceId # SystemSource
    PROVE  LET c == Coalesced(s, e) IN
           /\ \A k, l \in 1..Len(c) : k < l =>
                 \E x, y \in 1..Len(s) : x < y /\ c[k] = s[x] /\ c[l] = s[y]
           /\ \A k \in 1..Len(c) : c[k].sourceId # e.sourceId
           /\ \A k \in 1..Len(c) : \E j \in 1..Len(s) : c[k] = s[j]
           /\ \A j \in 1..Len(s) : s[j].sourceId # e.sourceId =>
                 \E k \in 1..Len(c) : c[k] = s[j]
<1> DEFINE c == Coalesced(s, e)
<1>0. Len(s) \in Nat
  BY LenProperties
<1>1. CASE Superseded(s, e) = {} /\ c = s
  <2>1. \A k \in 1..Len(s) : s[k].sourceId # e.sourceId
    BY <1>1 DEF Superseded
  <2>. QED  BY <1>1, <2>1
<1>2. CASE \E i \in 1..Len(s) :
              s[i].sourceId = e.sourceId /\ c = RemoveAt(s, i)
  <2>1. PICK i \in 1..Len(s) : s[i].sourceId = e.sourceId /\ c = RemoveAt(s, i)
    BY <1>2
  <2>2. /\ Len(c) = Len(s) - 1
        /\ \A k \in 1..(Len(s) - 1) : c[k] = IF k < i THEN s[k] ELSE s[k + 1]
    BY <2>1, RemoveFacts
  <2>. HIDE DEF c
  <2>3. ASSUME NEW k \in 1..Len(s), k # i, s[k].sourceId = e.sourceId
        PROVE  FALSE
    <3>1. k < i \/ i < k
      BY <1>0, <2>3
    <3>2. s[k].sourceId = SystemSource
      BY <2>1, <2>3, <3>1 DEF Rising
    <3>. QED  BY <2>3, <3>2
  <2>4. \A k \in 1..Len(c) : \E j \in 1..Len(s) : j # i /\ c[k] = s[j]
    <3>1. TAKE k \in 1..Len(c)
    <3>2. CASE k < i
      <4>1. k \in 1..Len(s) /\ k # i /\ c[k] = s[k]
        BY <1>0, <2>2, <3>2
      <4>. QED  BY <4>1
    <3>3. CASE ~(k < i)
      <4>1. k + 1 \in 1..Len(s) /\ k + 1 # i /\ c[k] = s[k + 1]
        BY <1>0, <2>2, <3>3
      <4>. QED  BY <4>1
    <3>. QED  BY <3>2, <3>3
  <2>5. ASSUME NEW j \in 1..Len(s), j # i
        PROVE  \E k \in 1..Len(c) : c[k] = s[j]
    <3>1. CASE j < i
      BY <1>0, <2>2, <3>1
    <3>2. CASE j > i
      <4>1. j - 1 \in 1..Len(c) /\ c[j - 1] = s[j]
        BY <1>0, <2>2, <3>2
      <4>. QED  BY <4>1
    <3>. QED  BY <2>5, <3>1, <3>2
  <2>6. ASSUME NEW k \in 1..Len(c), NEW l \in 1..Len(c), k < l
        PROVE  \E x, y \in 1..Len(s) : x < y /\ c[k] = s[x] /\ c[l] = s[y]
    <3> DEFINE At(m) == IF m < i THEN m ELSE m + 1
    <3>1. /\ At(k) \in 1..Len(s) /\ At(l) \in 1..Len(s) /\ At(k) < At(l)
          /\ c[k] = s[At(k)] /\ c[l] = s[At(l)]
      BY <1>0, <2>2, <2>6
    <3>. QED  BY <3>1
  <2>. QED  BY <2>1, <2>3, <2>4, <2>5, <2>6 DEF c
<1>3. \/ Superseded(s, e) = {} /\ c = s
      \/ \E i \in 1..Len(s) : s[i].sourceId = e.sourceId /\ c = RemoveAt(s, i)
  BY CoalescedCases
<1>. QED  BY <1>1, <1>2, <1>3, Zenon

(* push() of the newest event: the store keeps rising, and the event has   *)
(* replaced what waited from its input, or nothing if it is the system's.  *)
LEMMA PushedRising ==
    ASSUME NEW s \in Seq(EventRecords), NEW e \in EventRecords,
           Rising(s), PushAccepts(s, e),
           \A i \in 1..Len(s) : s[i].sequenceId < e.sequenceId
    PROVE  /\ Rising(Pushed(s, e))
           /\ e.sourceId # SystemSource /\ Ordered(s) => Ordered(Pushed(s, e))
           /\ ToSet(Pushed(s, e)) =
                  {x \in ToSet(s) : \/ e.sourceId = SystemSource
                                    \/ x.sourceId # e.sourceId} \cup {e}
<1> DEFINE c == Coalesced(s, e)
           p == Append(c, e)
           system == e.sourceId = SystemSource
<1>1. Pushed(s, e) = p
  BY DEF Pushed
<1>2. /\ \A k, l \in 1..Len(c) : k < l =>
             \E x, y \in 1..Len(s) : x < y /\ c[k] = s[x] /\ c[l] = s[y]
      /\ \A k \in 1..Len(c) : system \/ c[k].sourceId # e.sourceId
      /\ \A k \in 1..Len(c) : \E j \in 1..Len(s) : c[k] = s[j]
      /\ \A j \in 1..Len(s) : (system \/ s[j].sourceId # e.sourceId) =>
            \E k \in 1..Len(c) : c[k] = s[j]
  <2>1. CASE system
    <3>1. c = s
      BY <2>1 DEF Coalesced, Superseded
    <3>. QED  BY <2>1, <3>1
  <2>2. CASE ~system
    BY <2>2, CoalescedRising
  <2>. QED  BY <2>1, <2>2
<1>3. c \in Seq(EventRecords) /\ Len(c) \in Nat /\ Len(s) \in Nat
  BY CoalescedShape, LenProperties
<1>. HIDE DEF c
<1>4. /\ Len(p) = Len(c) + 1 /\ p[Len(c) + 1] = e
      /\ \A k \in 1..Len(c) : p[k] = c[k]
      /\ DOMAIN p = 1..(Len(c) + 1) /\ DOMAIN s = 1..Len(s)
  BY <1>3, AppendProperties, LenProperties
<1>. HIDE DEF p, system
<1>5. ASSUME NEW k \in 1..Len(p), NEW l \in 1..Len(p), k < l
      PROVE  \/ \E x, y \in 1..Len(s) : x < y /\ p[k] = s[x] /\ p[l] = s[y]
             \/ \E x \in 1..Len(s) :
                   /\ p[k] = s[x] /\ p[l] = e
                   /\ system \/ s[x].sourceId # e.sourceId
  <2>1. k \in 1..Len(c) /\ p[k] = c[k]
    BY <1>3, <1>4, <1>5
  <2>2. CASE l = Len(c) + 1
    <3>1. PICK x \in 1..Len(s) : c[k] = s[x]
      BY <1>2, <2>1
    <3>2. p[k] = s[x] /\ p[l] = e /\ (system \/ s[x].sourceId # e.sourceId)
      BY <1>2, <1>4, <2>1, <2>2, <3>1
    <3>. QED  BY <3>2, Zenon
  <2>3. CASE l # Len(c) + 1
    <3>1. l \in 1..Len(c) /\ p[l] = c[l]
      BY <1>3, <1>4, <2>3
    <3>. QED  BY <1>2, <1>5, <2>1, <3>1
  <2>. QED  BY <2>2, <2>3
<1>6. Rising(p)
  <2>1. SUFFICES ASSUME NEW k \in 1..Len(p), NEW l \in 1..Len(p), k < l
                 PROVE  /\ p[k].sequenceId < p[l].sequenceId
                        /\ p[k].sourceId = p[l].sourceId
                              => p[k].sourceId = SystemSource
    BY DEF Rising
  <2>2. CASE \E x, y \in 1..Len(s) : x < y /\ p[k] = s[x] /\ p[l] = s[y]
    BY <2>2 DEF Rising
  <2>3. CASE \E x \in 1..Len(s) :
                /\ p[k] = s[x] /\ p[l] = e
                /\ system \/ s[x].sourceId # e.sourceId
    BY <2>3 DEF system
  <2>. QED  BY <1>5, <2>1, <2>2, <2>3, Zenon
<1>7. ASSUME ~system, Ordered(s) PROVE Ordered(p)
  <2>1. SUFFICES ASSUME NEW k \in 1..Len(p), NEW l \in 1..Len(p), k < l
                 PROVE  /\ p[k].sequenceId < p[l].sequenceId
                        /\ p[k].sourceId # p[l].sourceId
    BY DEF Ordered
  <2>2. CASE \E x, y \in 1..Len(s) : x < y /\ p[k] = s[x] /\ p[l] = s[y]
    BY <1>7, <2>2 DEF Ordered
  <2>3. CASE \E x \in 1..Len(s) :
                /\ p[k] = s[x] /\ p[l] = e
                /\ system \/ s[x].sourceId # e.sourceId
    BY <1>7, <2>3
  <2>. QED  BY <1>5, <2>1, <2>2, <2>3, Zenon
<1>8. ASSUME NEW x \in ToSet(p), x # e
      PROVE  x \in ToSet(s) /\ (system \/ x.sourceId # e.sourceId)
  <2>1. PICK k \in 1..Len(c) : x = c[k]
    BY <1>3, <1>4, <1>8 DEF ToSet
  <2>2. PICK j \in 1..Len(s) : c[k] = s[j]
    BY <1>2
  <2>. QED  BY <1>2, <1>4, <2>1, <2>2 DEF ToSet
<1>9. ASSUME NEW x \in ToSet(s), system \/ x.sourceId # e.sourceId
      PROVE  x \in ToSet(p)
  <2>1. PICK j \in 1..Len(s) : x = s[j]
    BY <1>4 DEF ToSet
  <2>2. PICK k \in 1..Len(c) : c[k] = s[j]
    BY <1>2, <1>9, <2>1
  <2>3. k \in 1..(Len(c) + 1) /\ p[k] = x
    BY <1>3, <1>4, <2>1, <2>2
  <2>. QED  BY <1>4, <2>3 DEF ToSet
<1>10. e \in ToSet(p)
  BY <1>3, <1>4 DEF ToSet
<1>11. ToSet(p) = {x \in ToSet(s) : system \/ x.sourceId # e.sourceId} \cup {e}
  BY <1>8, <1>9, <1>10
<1>. QED  BY <1>1, <1>6, <1>7, <1>11 DEF system

(* A sequence has no more entries than its length.                         *)
LEMMA EntriesBounded ==
    ASSUME NEW s \in Seq(EventRecords)
    PROVE  IsFiniteSet(ToSet(s)) /\ Cardinality(ToSet(s)) <= Len(s)
<1> DEFINE n == Len(s)
           Entries == 1..n
<1>1. n \in Nat /\ n \in Int /\ 1 \in Int /\ DOMAIN s = Entries
  BY LenProperties
<1>2. ToSet(s) = {s[i] : i \in Entries}
  BY <1>1 DEF ToSet
<1>. HIDE DEF n
<1>3. IsFiniteSet(Entries) /\ Cardinality(Entries) = IF 1 > n THEN 0 ELSE n - 1 + 1
  BY <1>1, FS_Interval, Zenon
<1>4. Cardinality(Entries) = n
  BY <1>1, <1>3
<1>5. s \in Surjection(Entries, ToSet(s))
  BY <1>1, <1>2 DEF Surjection
<1>. HIDE DEF Entries
<1>6. IsFiniteSet(ToSet(s)) /\ Cardinality(ToSet(s)) <= Cardinality(Entries)
  BY <1>3, <1>5, FS_Surjection
<1>. QED  BY <1>4, <1>6 DEF n

(* push() of the newest event as the header tells it, on the set of what   *)
(* waits: either it is turned away, or it takes its place there.           *)
LEMMA PushedAsSet ==
    ASSUME NEW s \in Seq(EventRecords), NEW e \in EventRecords,
           Rising(s), Len(s) <= StoreCapacity, Pushed(s, e) # s,
           \A i \in 1..Len(s) : s[i].sequenceId < e.sequenceId
    PROVE  LET before == ToSet(s)
               after == ToSet(Pushed(s, e))
               replaced == {x \in before : /\ e.sourceId # SystemSource
                                           /\ x.sourceId = e.sourceId}
           IN  /\ after = (before \ replaced) \cup {e}
               /\ e \in after \ before
               /\ \A x \in before : x.sequenceId < e.sequenceId
               /\ replaced # {} \/ Cardinality(before) < StoreCapacity
<1> DEFINE replaced == {x \in ToSet(s) : /\ e.sourceId # SystemSource
                                        /\ x.sourceId = e.sourceId}
<1>1. PushAccepts(s, e)
  BY PushedShape
<1>2. /\ Len(s) \in Nat /\ StoreCapacity \in Nat /\ DOMAIN s = 1..Len(s)
      /\ e.sequenceId \in Nat
  BY LenProperties, StoreCapacityAssumption DEF EventRecords
<1>3. ToSet(Pushed(s, e)) = (ToSet(s) \ replaced) \cup {e}
  BY <1>1, PushedRising
<1>4. \A x \in ToSet(s) : x.sequenceId < e.sequenceId
  BY <1>2 DEF ToSet
<1>5. e \notin ToSet(s)
  <2>1. ~(e.sequenceId < e.sequenceId)
    BY <1>2
  <2>. QED  BY <1>4, <2>1, Zenon
<1>6. ASSUME replaced = {} PROVE Cardinality(ToSet(s)) < StoreCapacity
  <2>1. Superseded(s, e) = {}
    BY <1>2, <1>6 DEF Superseded, ToSet
  <2>2. Len(s) < StoreCapacity
    BY <1>1, <2>1 DEF PushAccepts, Coalesced
  <2>3. Cardinality(ToSet(s)) <= Len(s) /\ Cardinality(ToSet(s)) \in Nat
    BY EntriesBounded, FS_CardinalityType
  <2>. QED  BY <1>2, <2>2, <2>3
<1>. QED  BY <1>3, <1>4, <1>5, <1>6

(* pop() removes exactly the oldest entry.                                 *)
LEMMA TailRising ==
    ASSUME NEW s \in Seq(EventRecords), s # <<>>, Rising(s)
    PROVE  /\ Rising(Tail(s))
           /\ Ordered(s) => Ordered(Tail(s))
           /\ ToSet(Tail(s)) = ToSet(s) \ {Head(s)}
           /\ Head(s) \in ToSet(s)
           /\ \A x \in ToSet(s) : x # Head(s) => Head(s).sequenceId < x.sequenceId
           /\ \A x \in ToSet(s) : Head(s).sequenceId <= x.sequenceId
<1> DEFINE t == Tail(s)
<1>1. /\ Len(s) \in Nat \ {0} /\ t \in Seq(EventRecords)
      /\ Len(t) = Len(s) - 1 /\ Head(s) = s[1]
      /\ \A k \in 1..Len(t) : t[k] = s[k + 1]
      /\ DOMAIN s = 1..Len(s) /\ DOMAIN t = 1..Len(t)
  BY HeadTailProperties, LenProperties, EmptySeq
<1>0. \A k \in 1..Len(s) : s[k].sequenceId \in Nat
  <2>1. \A k \in 1..Len(s) : s[k] \in EventRecords
    BY ElementOfSeq
  <2>. QED  BY <2>1 DEF EventRecords
<1>. HIDE DEF t
<1>2. ASSUME NEW k \in 1..Len(t), NEW l \in 1..Len(t), k < l
      PROVE  /\ k + 1 \in 1..Len(s) /\ l + 1 \in 1..Len(s) /\ k + 1 < l + 1
             /\ t[k] = s[k + 1] /\ t[l] = s[l + 1]
  BY <1>1, <1>2
<1>3. Rising(t)
  <2>1. SUFFICES ASSUME NEW k \in 1..Len(t), NEW l \in 1..Len(t), k < l
                 PROVE  /\ t[k].sequenceId < t[l].sequenceId
                        /\ t[k].sourceId = t[l].sourceId
                              => t[k].sourceId = SystemSource
    BY DEF Rising
  <2>2. /\ s[k + 1].sequenceId < s[l + 1].sequenceId
        /\ s[k + 1].sourceId = s[l + 1].sourceId
              => s[k + 1].sourceId = SystemSource
    BY <1>2, <2>1 DEF Rising
  <2>. QED  BY <1>2, <2>1, <2>2
<1>4. ASSUME Ordered(s) PROVE Ordered(t)
  <2>1. SUFFICES ASSUME NEW k \in 1..Len(t), NEW l \in 1..Len(t), k < l
                 PROVE  /\ t[k].sequenceId < t[l].sequenceId
                        /\ t[k].sourceId # t[l].sourceId
    BY DEF Ordered
  <2>2. /\ s[k + 1].sequenceId < s[l + 1].sequenceId
        /\ s[k + 1].sourceId # s[l + 1].sourceId
    BY <1>2, <1>4, <2>1 DEF Ordered
  <2>. QED  BY <1>2, <2>1, <2>2
<1>5. ASSUME NEW x \in ToSet(s), x # Head(s)
      PROVE  x \in ToSet(t) /\ Head(s).sequenceId < x.sequenceId
  <2>1. PICK j \in 1..Len(s) : x = s[j]
    BY <1>1 DEF ToSet
  <2>2. j - 1 \in 1..Len(t) /\ t[j - 1] = x
    BY <1>1, <1>5, <2>1
  <2>3. Head(s).sequenceId < x.sequenceId
    BY <1>1, <1>5, <2>1 DEF Rising
  <2>. QED  BY <1>1, <2>2, <2>3 DEF ToSet
<1>6. ASSUME NEW x \in ToSet(t)
      PROVE  x \in ToSet(s) /\ x # Head(s)
  <2>1. PICK k \in 1..Len(t) : x = t[k]
    BY <1>1 DEF ToSet
  <2>2. k + 1 \in 1..Len(s) /\ 1 < k + 1 /\ x = s[k + 1] /\ 1 \in 1..Len(s)
    BY <1>1, <2>1
  <2>3. s[1].sequenceId < x.sequenceId
    BY <2>2 DEF Rising
  <2>4. x # s[1]
    BY <1>0, <2>2, <2>3
  <2>. QED  BY <1>1, <2>2, <2>4 DEF ToSet
<1>7. Head(s) \in ToSet(s)
  BY <1>1 DEF ToSet
<1>8. \A x \in ToSet(s) : Head(s).sequenceId <= x.sequenceId
  <2>1. TAKE x \in ToSet(s)
  <2>2. x.sequenceId \in Nat /\ Head(s).sequenceId \in Nat
    BY <1>0, <1>1 DEF ToSet
  <2>. QED  BY <1>5, <2>2
<1>. QED  BY <1>3, <1>4, <1>5, <1>6, <1>7, <1>8 DEF t

(***************************************************************************)
(* The same where only events of inputs come in, each with one entry.      *)
(***************************************************************************)
LEMMA OrderedRises ==
    ASSUME NEW s, Ordered(s)
    PROVE  Rising(s)
  BY DEF Ordered, Rising

LEMMA PushedOrdered ==
    ASSUME NEW s \in Seq(EventRecords), NEW e \in EventRecords,
           Ordered(s), e.sourceId # SystemSource, PushAccepts(s, e),
           \A i \in 1..Len(s) : s[i].sequenceId < e.sequenceId
    PROVE  /\ Ordered(Pushed(s, e))
           /\ ToSet(Pushed(s, e)) =
                  {x \in ToSet(s) : x.sourceId # e.sourceId} \cup {e}
  BY OrderedRises, PushedRising

LEMMA TailOrdered ==
    ASSUME NEW s \in Seq(EventRecords), s # <<>>, Ordered(s)
    PROVE  /\ Ordered(Tail(s))
           /\ ToSet(Tail(s)) = ToSet(s) \ {Head(s)}
           /\ Head(s) \in ToSet(s)
           /\ \A x \in ToSet(s) : x # Head(s) => Head(s).sequenceId < x.sequenceId
  BY OrderedRises, TailRising

=============================================================================
