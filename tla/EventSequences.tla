--------------------------- MODULE EventSequences ---------------------------
(***************************************************************************)
(* Facts about the sequences of events that queue, store, outbox and       *)
(* transit are: what appending, taking and removing an entry do, and which *)
(* event of a source is the last.                                          *)
(***************************************************************************)
EXTENDS Events, SequencesExt, SequenceTheorems, WellFoundedInduction, TLAPS

LEMMA EmptyMessages ==
    ASSUME NEW S
    PROVE  << >> \in Seq(S) /\ Len(<< >>) = 0
  OBVIOUS

(* The last event of input s in q, if there is one, says v.                *)
LastSays(q, s, v) ==
    \A i \in 1..Len(q) :
        /\ q[i].sourceId = s
        /\ \A j \in 1..Len(q) : j > i => q[j].sourceId # s
        => q[i].value = v

Absent(q, s) == \A i \in 1..Len(q) : q[i].sourceId # s

LEMMA AppendFacts ==
    ASSUME NEW S, NEW q \in Seq(S), NEW e \in S
    PROVE  /\ Append(q, e) \in Seq(S)
           /\ Len(Append(q, e)) = Len(q) + 1 /\ Len(q) \in Nat
           /\ Append(q, e)[Len(q) + 1] = e
           /\ \A i \in 1..Len(q) : Append(q, e)[i] = q[i]
  OBVIOUS

LEMMA TailFacts ==
    ASSUME NEW S, NEW q \in Seq(S), q # <<>>
    PROVE  /\ Tail(q) \in Seq(S) /\ Head(q) \in S /\ Head(q) = q[1]
           /\ Len(Tail(q)) = Len(q) - 1 /\ Len(q) \in Nat \ {0}
           /\ \A i \in 1..(Len(q) - 1) : Tail(q)[i] = q[i + 1]
  OBVIOUS

LEMMA RemoveFacts ==
    ASSUME NEW S, NEW q \in Seq(S), NEW k \in 1..Len(q)
    PROVE  /\ RemoveAt(q, k) \in Seq(S)
           /\ Len(RemoveAt(q, k)) = Len(q) - 1 /\ Len(q) \in Nat
           /\ \A i \in 1..(Len(q) - 1) :
                 RemoveAt(q, k)[i] = IF i < k THEN q[i] ELSE q[i + 1]
  <1> DEFINE a == SubSeq(q, 1, k - 1)
             b == SubSeq(q, k + 1, Len(q))
  <1>1. RemoveAt(q, k) = a \o b
    BY DEF RemoveAt
  <1>2. a \in Seq(S) /\ Len(a) = k - 1 /\ \A i \in 1..(k - 1) : a[i] = q[i]
    BY SubSeqProperties
  <1>3. /\ b \in Seq(S) /\ Len(b) = Len(q) - k
        /\ \A i \in 1..(Len(q) - k) : b[i] = q[k + i]
    BY SubSeqProperties
  <1> HIDE DEF a, b
  <1>4. /\ a \o b \in Seq(S) /\ Len(a \o b) = Len(q) - 1
        /\ \A i \in 1..(Len(q) - 1) :
              (a \o b)[i] = IF i < k THEN a[i] ELSE b[i - (k - 1)]
    <2>1. /\ a \o b \in Seq(S) /\ Len(a \o b) = Len(a) + Len(b)
          /\ \A i \in 1..(Len(a) + Len(b)) :
                (a \o b)[i] = IF i <= Len(a) THEN a[i] ELSE b[i - Len(a)]
      BY <1>2, <1>3, ConcatProperties
    <2> QED
      BY <2>1, <1>2, <1>3
  <1>5. ASSUME NEW i \in 1..(Len(q) - 1)
        PROVE  (a \o b)[i] = IF i < k THEN q[i] ELSE q[i + 1]
    <2>1. CASE i < k
      BY <2>1, <1>2, <1>4
    <2>2. CASE ~(i < k)
      <3>1. i - (k - 1) \in 1..(Len(q) - k) /\ k + (i - (k - 1)) = i + 1
        BY <2>2
      <3> QED
        BY <2>2, <3>1, <1>3, <1>4
    <2> QED
      BY <2>1, <2>2
  <1> QED
    BY <1>1, <1>4, <1>5

LEMMA LastAppended ==
    ASSUME NEW S, NEW q \in Seq(S), NEW e \in S, NEW s, NEW v
    PROVE  /\ e.sourceId = s /\ e.value = v => LastSays(Append(q, e), s, v)
           /\ e.sourceId # s /\ LastSays(q, s, v)
                 => LastSays(Append(q, e), s, v)
           /\ Absent(Append(q, e), s) => Absent(q, s) /\ e.sourceId # s
  <1>1. ASSUME e.sourceId = s, e.value = v
        PROVE  LastSays(Append(q, e), s, v)
    <2>1. ASSUME NEW i \in 1..(Len(q) + 1), Append(q, e)[i].sourceId = s,
                 \A j \in 1..(Len(q) + 1) :
                    j > i => Append(q, e)[j].sourceId # s
          PROVE  Append(q, e)[i].value = v
      <3>1. i = Len(q) + 1
        BY <1>1, <2>1, AppendFacts
      <3> QED
        BY <1>1, <3>1, AppendFacts
    <2> QED
      BY <2>1, AppendFacts DEF LastSays
  <1>2. ASSUME e.sourceId # s, LastSays(q, s, v)
        PROVE  LastSays(Append(q, e), s, v)
    <2>1. ASSUME NEW i \in 1..(Len(q) + 1), Append(q, e)[i].sourceId = s,
                 \A j \in 1..(Len(q) + 1) :
                    j > i => Append(q, e)[j].sourceId # s
          PROVE  Append(q, e)[i].value = v
      <3>1. i \in 1..Len(q)
        BY <1>2, <2>1, AppendFacts
      <3>2. q[i].sourceId = s
               /\ \A j \in 1..Len(q) : j > i => q[j].sourceId # s
        BY <2>1, <3>1, AppendFacts
      <3> QED
        BY <1>2, <3>1, <3>2, AppendFacts DEF LastSays
    <2> QED
      BY <2>1, AppendFacts DEF LastSays
  <1>3. ASSUME Absent(Append(q, e), s)
        PROVE  Absent(q, s) /\ e.sourceId # s
    <2>1. \A i \in 1..(Len(q) + 1) : Append(q, e)[i].sourceId # s
      BY <1>3, AppendFacts DEF Absent
    <2> QED
      BY <2>1, AppendFacts DEF Absent
  <1> QED
    BY <1>1, <1>2, <1>3

LEMMA LastOfTail ==
    ASSUME NEW S, NEW q \in Seq(S), q # <<>>, NEW s, NEW v,
           LastSays(q, s, v)
    PROVE  /\ LastSays(Tail(q), s, v)
           /\ Absent(Tail(q), s) /\ Head(q).sourceId = s => Head(q).value = v
           /\ Absent(Tail(q), s) /\ Head(q).sourceId # s => Absent(q, s)
  <1>1. ASSUME NEW i \in 1..(Len(q) - 1), Tail(q)[i].sourceId = s,
               \A j \in 1..(Len(q) - 1) : j > i => Tail(q)[j].sourceId # s
        PROVE  Tail(q)[i].value = v
    <2>1. i + 1 \in 1..Len(q) /\ q[i + 1].sourceId = s
      BY <1>1, TailFacts
    <2>2. ASSUME NEW j \in 1..Len(q), j > i + 1
          PROVE  q[j].sourceId # s
      <3>1. j - 1 \in 1..(Len(q) - 1) /\ j - 1 > i /\ (j - 1) + 1 = j
        BY <2>2, TailFacts
      <3>2. Tail(q)[j - 1] = q[j]
        BY <3>1, TailFacts
      <3> QED
        BY <1>1, <3>1, <3>2
    <2> QED
      BY <2>1, <2>2, TailFacts DEF LastSays
  <1>2. ASSUME Absent(Tail(q), s), NEW j \in 1..Len(q), j > 1
        PROVE  q[j].sourceId # s
    <2>1. j - 1 \in 1..(Len(q) - 1) /\ (j - 1) + 1 = j
      BY <1>2, TailFacts
    <2> QED
      BY <1>2, <2>1, TailFacts DEF Absent
  <1>3. 1 \in 1..Len(q) /\ Head(q) = q[1]
    BY TailFacts
  <1>4. LastSays(Tail(q), s, v)
    BY <1>1, TailFacts DEF LastSays
  <1>5. Absent(Tail(q), s) /\ Head(q).sourceId = s => Head(q).value = v
    BY <1>2, <1>3 DEF LastSays
  <1>6. Absent(Tail(q), s) /\ Head(q).sourceId # s => Absent(q, s)
    <2>1. ASSUME Absent(Tail(q), s), Head(q).sourceId # s,
                 NEW j \in 1..Len(q)
          PROVE  q[j].sourceId # s
      <3>1. CASE j > 1
        BY <1>2, <2>1, <3>1
      <3>2. CASE ~(j > 1)
        <4>1. j = 1
          BY <3>2
        <4> QED
          BY <1>3, <2>1, <4>1
      <3> QED
        BY <3>1, <3>2
    <2> QED
      BY <2>1 DEF Absent
  <1> QED
    BY <1>4, <1>5, <1>6

LEMMA LastOfRest ==
    ASSUME NEW S, NEW q \in Seq(S), NEW k \in 1..Len(q), NEW s, NEW v,
           LastSays(q, s, v), q[k].sourceId # s
    PROVE  LastSays(RemoveAt(q, k), s, v)
  <1>1. ASSUME NEW i \in 1..(Len(q) - 1), RemoveAt(q, k)[i].sourceId = s,
               \A j \in 1..(Len(q) - 1) :
                  j > i => RemoveAt(q, k)[j].sourceId # s
        PROVE  RemoveAt(q, k)[i].value = v
    <2> DEFINE o == IF i < k THEN i ELSE i + 1
    <2>1. o \in 1..Len(q) /\ RemoveAt(q, k)[i] = q[o]
      <3>1. Len(q) \in Nat
        BY RemoveFacts
      <3>2. o \in 1..Len(q)
        BY <3>1
      <3>3. RemoveAt(q, k)[i] = IF i < k THEN q[i] ELSE q[i + 1]
        BY RemoveFacts
      <3> QED
        BY <3>2, <3>3
    <2>2. ASSUME NEW j \in 1..Len(q), j > o
          PROVE  q[j].sourceId # s
      <3>1. CASE j = k
        BY <3>1
      <3>2. CASE j < k
        <4>1. Len(q) \in Nat
          BY RemoveFacts
        <4>2. j \in 1..(Len(q) - 1) /\ j > i
          BY <2>2, <3>2, <4>1
        <4>3. RemoveAt(q, k)[j] = q[j]
          BY <3>2, <4>2, RemoveFacts
        <4> QED
          BY <1>1, <4>2, <4>3
      <3>3. CASE j > k
        <4>1. j - 1 \in 1..(Len(q) - 1) /\ j - 1 > i /\ ~(j - 1 < k)
                 /\ (j - 1) + 1 = j
          BY <2>2, <3>3, RemoveFacts
        <4>2. RemoveAt(q, k)[j - 1] = q[j]
          BY <4>1, RemoveFacts
        <4> QED
          BY <1>1, <4>1, <4>2
      <3> QED
        BY <3>1, <3>2, <3>3
    <2> HIDE DEF o
    <2> QED
      BY <1>1, <2>1, <2>2 DEF LastSays
  <1> QED
    BY <1>1, RemoveFacts DEF LastSays

LEMMA AbsentBehindHead ==
    ASSUME NEW S, NEW q \in Seq(S), q # <<>>, NEW s,
           Absent(Tail(q), s), Head(q).sourceId # s
    PROVE  Absent(q, s)
  <1>1. ASSUME NEW i \in 1..Len(q), q[i].sourceId = s
        PROVE  FALSE
    <2>1. i # 1
      BY <1>1, TailFacts
    <2>2. i - 1 \in 1..(Len(q) - 1) /\ (i - 1) + 1 = i
      BY <2>1, TailFacts
    <2>3. Tail(q)[i - 1] = q[i] /\ i - 1 \in 1..Len(Tail(q))
      BY <2>2, TailFacts
    <2> QED
      BY <1>1, <2>3 DEF Absent
  <1> QED
    BY <1>1 DEF Absent

LEMMA NothingSays ==
    ASSUME NEW s, NEW v
    PROVE  LastSays(<< >>, s, v) /\ Absent(<< >>, s)
  BY DEF LastSays, Absent

(* A nonempty set of naturals has a least element.                         *)
LEMMA LeastOf ==
    ASSUME NEW T \in SUBSET Nat, T # {}
    PROVE  \E i \in T : \A j \in T : i <= j
<1>1. \E i \in T : \A j \in T : ~(<<j, i>> \in OpToRel(<, Nat))
  BY NatLessThanWellFounded, WFMin, Zenon
<1>2. OpToRel(<, Nat) = {p \in Nat \X Nat : p[1] < p[2]}
  BY Zenon DEF OpToRel
<1>3. \E i \in T : \A j \in T : ~(<<j, i>> \in {p \in Nat \X Nat : p[1] < p[2]})
  BY <1>1, <1>2, Zenon
<1>4. PICK i \in T : \A j \in T : ~(<<j, i>> \in {p \in Nat \X Nat : p[1] < p[2]})
  BY <1>3
<1>5. ASSUME NEW j \in T PROVE i <= j
  <2>1. i \in Nat /\ j \in Nat
    OBVIOUS
  <2>2. ~(<<j, i>> \in {p \in Nat \X Nat : p[1] < p[2]})
    BY <1>4
  <2>3. ~(j < i)
    BY <2>1, <2>2
  <2>. QED  BY <2>1, <2>3
<1>. QED  BY <1>5

(* Induction, on the set of numbers a statement holds of.                  *)
LEMMA NumbersByInduction ==
    ASSUME NEW T \in SUBSET Nat, 0 \in T, \A n \in T : n + 1 \in T
    PROVE  T = Nat
<1>1. SUFFICES ASSUME Nat \ T # {} PROVE FALSE
  OBVIOUS
<1>2. PICK i \in Nat \ T : \A j \in Nat \ T : i <= j
  BY <1>1, LeastOf
<1>3. i # 0 /\ i - 1 \in Nat /\ ~(i <= i - 1)
  BY <1>2
<1>4. i - 1 \in T
  BY <1>2, <1>3
<1>5. (i - 1) + 1 \in T
  BY <1>4
<1>. QED  BY <1>2, <1>5

=============================================================================
