-------------------------- MODULE ScenarioProofs --------------------------
(***************************************************************************)
(* Three scenarios with a part of the system each: main.cpp bringing the   *)
(* station up, the host tests' use of the offline store, and the outage    *)
(* scenario of the bench; for queues, stores and buffers of any size and   *)
(* any number of steps.                                                    *)
(***************************************************************************)
EXTENDS Startup, StoreUser, Bench, StoreProofs

(***************************************************************************)
(* app_main: no task runs before what it uses, and no event is sent before *)
(* there is a reader.                                                      *)
(***************************************************************************)
USE DEF vars, taskVars, mainVars

Steps == 14

LEMMA OrderOfSteps ==
    /\ Len(StartOrder) = Steps
    /\ StartOrder[1] = "nvs" /\ StartOrder[2] = "queue"
    /\ StartOrder[3] = "store" /\ StartOrder[4] = "output"
    /\ StartOrder[5] = "inputs" /\ StartOrder[6] = "mqttClient"
    /\ StartOrder[7] = "applicationTask" /\ StartOrder[8] = "inputTask"
    /\ StartOrder[9] = "netif" /\ StartOrder[10] = "eventLoop"
    /\ StartOrder[11] = "wifiDriver" /\ StartOrder[12] = "wifiHandlers"
    /\ StartOrder[13] = "wifi" /\ StartOrder[14] = "mqtt"
  BY DEF StartOrder, Steps

(* Every step is taken once.                                               *)
Place ==
    [nvs |-> 1, queue |-> 2, store |-> 3, output |-> 4, inputs |-> 5,
     mqttClient |-> 6, applicationTask |-> 7, inputTask |-> 8, netif |-> 9,
     eventLoop |-> 10, wifiDriver |-> 11, wifiHandlers |-> 12, wifi |-> 13,
     mqtt |-> 14]

(* What has been done is a prefix of the order.                            *)
LEMMA DoneIsPrefix ==
    ASSUME step \in 1..(Steps + 1)
    PROVE  /\ Done("nvs") <=> step > 1
           /\ Done("queue") <=> step > 2
           /\ Done("store") <=> step > 3
           /\ Done("output") <=> step > 4
           /\ Done("inputs") <=> step > 5
           /\ Done("mqttClient") <=> step > 6
           /\ Done("applicationTask") <=> step > 7
           /\ Done("inputTask") <=> step > 8
           /\ Done("netif") <=> step > 9
           /\ Done("eventLoop") <=> step > 10
           /\ Done("wifiDriver") <=> step > 11
           /\ Done("wifiHandlers") <=> step > 12
           /\ Done("wifi") <=> step > 13
           /\ Done("mqtt") <=> step > 14
  <1>1. ASSUME NEW n \in 1..14, NEW s, StartOrder[n] = s,
               \A i \in 1..14 : StartOrder[i] = s => i = n
        PROVE  Done(s) <=> step > n
    BY <1>1 DEF Done, Steps
  <1>2. ASSUME NEW i \in 1..14
        PROVE  \/ i = 1 \/ i = 2 \/ i = 3 \/ i = 4 \/ i = 5 \/ i = 6 \/ i = 7
               \/ i = 8 \/ i = 9 \/ i = 10 \/ i = 11 \/ i = 12 \/ i = 13
               \/ i = 14
    OBVIOUS
  <1>3. ASSUME NEW i \in 1..14
        PROVE  Place[StartOrder[i]] = i
    <2>1. /\ Place["nvs"] = 1 /\ Place["queue"] = 2 /\ Place["store"] = 3
          /\ Place["output"] = 4 /\ Place["inputs"] = 5
          /\ Place["mqttClient"] = 6 /\ Place["applicationTask"] = 7
      BY DEF Place
    <2>2. /\ Place["inputTask"] = 8 /\ Place["netif"] = 9
          /\ Place["eventLoop"] = 10 /\ Place["wifiDriver"] = 11
          /\ Place["wifiHandlers"] = 12 /\ Place["wifi"] = 13
          /\ Place["mqtt"] = 14
      BY DEF Place
    <2>3. /\ Place[StartOrder[1]] = 1 /\ Place[StartOrder[2]] = 2
          /\ Place[StartOrder[3]] = 3 /\ Place[StartOrder[4]] = 4
          /\ Place[StartOrder[5]] = 5 /\ Place[StartOrder[6]] = 6
          /\ Place[StartOrder[7]] = 7
      BY <2>1, OrderOfSteps
    <2>4. /\ Place[StartOrder[8]] = 8 /\ Place[StartOrder[9]] = 9
          /\ Place[StartOrder[10]] = 10 /\ Place[StartOrder[11]] = 11
          /\ Place[StartOrder[12]] = 12 /\ Place[StartOrder[13]] = 13
          /\ Place[StartOrder[14]] = 14
      BY <2>2, OrderOfSteps
    <2> QED
      BY <1>2, <2>3, <2>4
  <1>4. \A n, i \in 1..14 : StartOrder[i] = StartOrder[n] => i = n
    BY <1>3
  <1>5. ASSUME NEW n \in 1..14
        PROVE  Done(StartOrder[n]) <=> step > n
    BY <1>1, <1>4
  <1> QED
    BY <1>5, OrderOfSteps

(***************************************************************************)
(* The inductive invariant                                                 *)
(***************************************************************************)
(* The order needs only that the steps are counted; nobody sends before    *)
(* the application task runs, because every sender starts after it; and    *)
(* an input event was lost only if the store came up without its mutex,    *)
(* which is settled before the first event.                                *)
StartInv ==
    /\ step \in 1..(Steps + 1)
    /\ storeMutex \in BOOLEAN
    /\ step <= 7 => queue = <<>> /\ unsent = {}
    /\ "lost" \in unsent => ~storeMutex

LEMMA StartBegins ==
    ASSUME Init
    PROVE  StartInv
  <1>1. step = 1 /\ queue = <<>> /\ unsent = {} /\ storeMutex = FALSE
    BY DEF Init, QueueInit
  <1>2. storeMutex \in BOOLEAN
    BY <1>1
  <1> QED
    BY <1>1, <1>2 DEF StartInv, Steps

LEMMA MainKeeps ==
    ASSUME StartInv, AppMain
    PROVE  StartInv'
  <1> USE OrderOfSteps DEF StartInv, Steps
  <1>1. CASE NvsInitialises
    BY <1>1 DEF NvsInitialises, Current
  <1>2. CASE NvsErased \/ NvsEraseAborts
    BY <1>2 DEF NvsErased, NvsEraseAborts
  <1>3. CASE StoreConstructed
    <2>1. step = 3
      <3>1. StartOrder[step] = "store" /\ step \in 1..14
        BY <1>3 DEF StoreConstructed, Current
      <3> QED
        BY <3>1
    <2>2. /\ unsent = {} /\ queue = <<>> /\ UNCHANGED <<queue, unsent>>
          /\ step' = 4 /\ storeMutex' \in BOOLEAN
      BY <1>3, <2>1 DEF StoreConstructed
    <2> QED
      BY <2>2
  <1>4. CASE StepSucceeds
    BY <1>4 DEF StepSucceeds
  <1>5. CASE StepFails
    BY <1>5 DEF StepFails
  <1> QED
    BY <1>1, <1>2, <1>3, <1>4, <1>5 DEF AppMain

LEMMA TasksKeep ==
    ASSUME StartInv,
           InputTaskSends \/ WifiSends \/ MqttSends \/ ApplicationHandles
    PROVE  StartInv'
  <1> USE DEF StartInv
  <1>1. step > 7 /\ UNCHANGED <<step, storeMutex>>
    BY DoneIsPrefix
       DEF InputTaskSends, WifiSends, MqttSends, ApplicationHandles
  <1>2. "lost" \in unsent' => ~storeMutex
    <2>1. CASE InputTaskSends \/ WifiSends \/ MqttSends
      BY <2>1 DEF InputTaskSends, WifiSends, MqttSends
    <2>2. CASE ApplicationHandles
      BY <2>2 DEF ApplicationHandles
    <2> QED
      BY <2>1, <2>2
  <1> QED
    BY <1>1, <1>2 DEF Steps

LEMMA StartInvariant == Spec => []StartInv
  <1>1. Init => StartInv
    BY StartBegins
  <1>2. StartInv /\ [Next]_vars => StartInv'
    <2>1. CASE UNCHANGED vars
      BY <2>1 DEF StartInv
    <2> QED
      BY <2>1, MainKeeps, TasksKeep DEF Next
  <1> QED
    BY <1>1, <1>2, PTL DEF Spec

(* main.cpp's order of starting: however far a start came, no task and no  *)
(* driver of the network runs without what it uses.                        *)
THEOREM NothingStartsTooEarly == Spec => []TasksFindWhatTheyUse
  <1>1. StartInv => TasksFindWhatTheyUse
    BY DoneIsPrefix DEF StartInv, TasksFindWhatTheyUse, Needs
  <1> QED
    BY <1>1, StartInvariant, PTL

(* "Start input polling after the application is ready to consume events": *)
(* an event that waits has a reader, and an input event that no connection *)
(* takes is buffered unless the store has no mutex.                        *)
THEOREM EventsHaveConsumers == Spec => []NoEventWithoutConsumer
  <1>1. StartInv => NoEventWithoutConsumer
    BY DoneIsPrefix DEF StartInv, NoEventWithoutConsumer
  <1> QED
    BY <1>1, StartInvariant, PTL

(***************************************************************************)
(* The store under its user                                                *)
(***************************************************************************)
(* Sequence ids rise up to the last one offered, and inputs are no system. *)
UserInv ==
    /\ StoreTypeOK /\ offered \in Nat
    /\ Rising(store)
    /\ \A i \in 1..Len(store) : store[i].sequenceId <= offered

LEMMA UserStarts == UserInit => UserInv
  BY EmptyMessages, StoreCapacityAssumption
     DEF UserInit, UserInv, StoreInit, StoreTypeOK, Rising

(* Inputs and faults: each event offered is the newest.                    *)
LEMMA OffersAreEvents ==
    ASSUME NEW n \in Nat, NEW e \in Offers(n)
    PROVE  e \in EventRecords /\ e.sequenceId = n
  BY DEF Offers, InputEvents, EventRecords, Event, EventTypes, Values

(* Whatever the user pushes, the store is a rising sequence that fits.     *)
LEMMA UserPushKeeps ==
    ASSUME UserInv, UserPushes
    PROVE  UserInv'
  <1>1. PICK e \in Offers(offered + 1) : Push(e)
    BY DEF UserPushes
  <1>2. /\ e \in EventRecords /\ e.sequenceId = offered + 1
        /\ offered \in Nat /\ offered' = offered + 1
    BY OffersAreEvents DEF UserInv, UserPushes
  <1>3. /\ store \in Seq(EventRecords) /\ Len(store) <= StoreCapacity
        /\ store' = Pushed(store, e) /\ Len(store) \in Nat
    BY <1>1, LenProperties DEF UserInv, StoreTypeOK, Push
  <1>4. StoreTypeOK'
    BY <1>1, <1>2, <1>3, PushedShape DEF UserInv, StoreTypeOK, Push
  <1>5. \A i \in 1..Len(store) : store[i].sequenceId \in Nat
    <2>1. \A i \in 1..Len(store) : store[i] \in EventRecords
      BY <1>3, ElementOfSeq
    <2> QED
      BY <2>1 DEF EventRecords
  <1>6. \A i \in 1..Len(store) : store[i].sequenceId < e.sequenceId
    BY <1>2, <1>5 DEF UserInv
  <1>7. CASE PushAccepts(store, e)
    <2>1. Rising(store')
      BY <1>2, <1>3, <1>6, <1>7, PushedRising DEF UserInv
    <2>2. ToSet(store') \subseteq ToSet(store) \cup {e}
      BY <1>2, <1>3, <1>6, <1>7, PushedRising DEF UserInv
    <2>3. \A x \in ToSet(store') : x.sequenceId <= offered'
      <3>1. ASSUME NEW x \in ToSet(store)
            PROVE  x.sequenceId <= offered'
        <4>1. PICK i \in 1..Len(store) : x = store[i]
          BY <1>3, LenProperties DEF ToSet
        <4> QED
          BY <1>2, <1>5, <4>1 DEF UserInv
      <3> QED
        BY <1>2, <2>2, <3>1
    <2>4. \A i \in 1..Len(store') : store'[i] \in ToSet(store')
      BY <1>4, LenProperties DEF ToSet, StoreTypeOK
    <2> QED
      BY <1>2, <1>4, <2>1, <2>3, <2>4 DEF UserInv
  <1>8. CASE ~PushAccepts(store, e)
    <2>1. store' = store
      BY <1>2, <1>3, <1>8, PushedShape
    <2> QED
      BY <1>2, <1>4, <1>5, <2>1 DEF UserInv
  <1> QED
    BY <1>7, <1>8

(* Taking the oldest event out, or all of them, leaves the others as they  *)
(* were.                                                                   *)
LEMMA UserTakesKeep ==
    ASSUME UserInv, UserPops \/ UserClears
    PROVE  UserInv'
  <1>1. CASE UserPops
    <2>1. /\ store \in Seq(EventRecords) /\ store # <<>>
          /\ store' = Tail(store) /\ Len(store) <= StoreCapacity
          /\ offered' = offered /\ coalescedCount' = coalescedCount
      BY <1>1 DEF UserInv, StoreTypeOK, UserPops, Pop
    <2>2. /\ store' \in Seq(EventRecords) /\ Len(store) \in Nat
          /\ Len(store') = Len(store) - 1
          /\ \A i \in 1..(Len(store) - 1) : store'[i] = store[i + 1]
      BY <2>1, TailFacts
    <2>3. Rising(store')
      BY <2>1, TailRising DEF UserInv
    <2>4. StoreTypeOK'
      BY <2>1, <2>2, StoreCapacityAssumption DEF UserInv, StoreTypeOK
    <2>5. ASSUME NEW i \in 1..Len(store')
          PROVE  store'[i].sequenceId <= offered'
      <3>1. i + 1 \in 1..Len(store) /\ store'[i] = store[i + 1]
        BY <2>2
      <3> QED
        BY <2>1, <3>1 DEF UserInv
    <2> QED
      BY <2>1, <2>3, <2>4, <2>5 DEF UserInv
  <1>2. CASE UserClears
    <2>1. store' = <<>> /\ coalescedCount' = 0 /\ offered' = offered
      BY <1>2 DEF UserClears, Clear
    <2>2. store' \in Seq(EventRecords) /\ Len(store') = 0
      BY <2>1, EmptyMessages
    <2> QED
      BY <2>1, <2>2, StoreCapacityAssumption DEF UserInv, StoreTypeOK, Rising
  <1> QED
    BY <1>1, <1>2

(* Pushes number events on, and taking leaves the order alone.             *)
LEMMA UserStep == UserInv /\ [UserNext]_userVars => UserInv'
  <1>1. ASSUME UserInv, UNCHANGED userVars
        PROVE  UserInv'
    BY <1>1 DEF UserInv, userVars, StoreTypeOK, Rising
  <1> QED
    BY <1>1, UserPushKeeps, UserTakesKeep DEF UserNext

(* A push of the newest event puts it into the set, or is turned away.     *)
LEMMA UserPuts ==
    ASSUME UserInv, UserPushes
    PROVE  \/ \E e \in ToSet(store') \ ToSet(store) : BacklogImage!Put(e)
           \/ ToSet(store') = ToSet(store)
  <1>1. PICK e \in Offers(offered + 1) : store' = Pushed(store, e)
    BY DEF UserPushes, Push
  <1>2. /\ store \in Seq(EventRecords) /\ Len(store) <= StoreCapacity
        /\ e \in EventRecords /\ Rising(store)
    BY OffersAreEvents DEF UserInv, StoreTypeOK
  <1>3. \A i \in 1..Len(store) : store[i].sequenceId < e.sequenceId
    <2>1. \A i \in 1..Len(store) : store[i] \in EventRecords
      BY <1>2, ElementOfSeq
    <2>2. e.sequenceId = offered + 1 /\ offered \in Nat
      BY OffersAreEvents DEF UserInv
    <2> QED
      BY <2>1, <2>2 DEF UserInv, EventRecords
  <1>4. CASE store' # store
    <2>1. LET replaced == BacklogImage!Replaced(e)
          IN  /\ ToSet(store') = (ToSet(store) \ replaced) \cup {e}
              /\ e \in ToSet(store') \ ToSet(store)
              /\ \A x \in ToSet(store) : x.sequenceId < e.sequenceId
              /\ replaced # {} \/ Cardinality(ToSet(store)) < StoreCapacity
      BY <1>1, <1>2, <1>3, <1>4, PushedAsSet
         DEF BacklogImage!Replaced, BacklogImage!SystemSource, SystemSource
    <2>2. BacklogImage!Cardinality(ToSet(store)) = Cardinality(ToSet(store))
      BY Zenon DEF BacklogImage!Cardinality, Cardinality
    <2> QED
      BY <2>1, <2>2, Zenon DEF BacklogImage!Put, BacklogImage!Newer
  <1> QED
    BY <1>4

(* The deque, its erasures and its capacity check implement what           *)
(* OfflineEventStore.hpp promises, for every caller that numbers what it   *)
(* pushes: inputs, faults, pops and clears in any order, up to any number. *)
THEOREM StoreKeepsItsPromise == UserSpec => ImplementsBacklog
  <1>1. UserInit => BacklogImage!Init
    BY EmptySeq DEF UserInit, StoreInit, BacklogImage!Init, ToSet
  <1>2. ASSUME UserInv, UserPops
        PROVE  \E e \in ToSet(store) : BacklogImage!Take(e)
    <2>1. /\ store \in Seq(EventRecords) /\ store # <<>> /\ Rising(store)
          /\ store' = Tail(store)
      BY <1>2 DEF UserInv, StoreTypeOK, UserPops, Pop
    <2>2. /\ ToSet(store') = ToSet(store) \ {Head(store)}
          /\ Head(store) \in ToSet(store)
          /\ \A x \in ToSet(store) : Head(store).sequenceId <= x.sequenceId
      BY <2>1, TailRising
    <2>3. BacklogImage!Take(Head(store))
      BY <2>2 DEF BacklogImage!Take
    <2> QED
      BY <2>2, <2>3
  <1>3. ASSUME UserClears
        PROVE  BacklogImage!DropAll
    <2>1. store' = <<>>
      BY <1>3 DEF UserClears, Clear
    <2> QED
      BY <2>1, EmptySeq DEF BacklogImage!DropAll, ToSet
  <1>4. UserInv /\ [UserNext]_userVars => [BacklogImage!Next]_(ToSet(store))
    BY <1>2, <1>3, UserPuts DEF UserNext, userVars, BacklogImage!Next
  <1> QED
    BY <1>1, <1>4, UserStarts, UserStep, PTL
       DEF UserSpec, ImplementsBacklog, BacklogImage!Spec

(***************************************************************************)
(* Scenario C of the bench.  Each list is in the order of its sequence     *)
(* ids, and as long as nothing is lost or sent twice the toggles that wait *)
(* are those of the commands on their way, then those yet to be forwarded. *)
(***************************************************************************)

(* One more event: Toggles goes through a list from front to back.         *)
Grows(s, f, n) ==
    f = [i \in 0..n |->
            IF i = 0 THEN <<>>
            ELSE IF s[i].type = "toggle_changed" THEN Append(f[i - 1], s[i])
            ELSE f[i - 1]]

(* It can be followed through the whole list.                              *)
LEMMA GrowsExists ==
    ASSUME NEW s, NEW n \in Nat
    PROVE  \E f : Grows(s, f, n)
  <1> DEFINE T == {m \in Nat : \E f : Grows(s, f, m)}
  <1>1. 0 \in T
    <2>1. Grows(s, [i \in 0..0 |-> <<>>], 0)
      BY DEF Grows
    <2> QED
      BY <2>1
  <1>2. ASSUME NEW m \in T
        PROVE  m + 1 \in T
    <2>1. PICK f : Grows(s, f, m)
      BY <1>2
    <2> DEFINE last == IF s[m + 1].type = "toggle_changed"
                       THEN Append(f[m], s[m + 1]) ELSE f[m]
               g == [i \in 0..(m + 1) |-> IF i = m + 1 THEN last ELSE f[i]]
    <2>2. Grows(s, g, m + 1)
      <3>1. m \in Nat
        OBVIOUS
      <3>2. \A i \in 0..m : g[i] = f[i]
        BY <3>1
      <3>3. g[m + 1] = last
        BY <3>1
      <3>4. \A i \in 0..m : f[i] = IF i = 0 THEN <<>>
            ELSE IF s[i].type = "toggle_changed" THEN Append(f[i - 1], s[i])
            ELSE f[i - 1]
        BY <2>1 DEF Grows
      <3>5. \A i \in 0..(m + 1) : g[i] = IF i = 0 THEN <<>>
            ELSE IF s[i].type = "toggle_changed" THEN Append(g[i - 1], s[i])
            ELSE g[i - 1]
        <4>1. TAKE i \in 0..(m + 1)
        <4>2. CASE i = m + 1
          <5>1. i # 0 /\ g[i - 1] = f[m] /\ i - 1 = m
            BY <3>1, <3>2, <4>2
          <5> HIDE DEF g
          <5> QED
            BY <3>3, <4>2, <5>1
        <4>3. CASE i # m + 1
          <5>1. i \in 0..m /\ g[i] = f[i] /\ (i # 0 => g[i - 1] = f[i - 1])
            BY <3>1, <3>2, <4>3
          <5> HIDE DEF g
          <5> QED
            BY <3>4, <5>1
        <4> QED
          BY <4>2, <4>3
      <3> QED
        BY <3>5 DEF Grows
    <2> QED
      BY <2>2
  <1> HIDE DEF T
  <1>3. T = Nat
    <2>1. T \in SUBSET Nat
      BY DEF T
    <2> QED
      BY <1>1, <1>2, <2>1, NumbersByInduction
  <1> QED
    BY <1>3 DEF T

(* Toggles is what it has collected at the end.                            *)
LEMMA TogglesGrow ==
    ASSUME NEW S, NEW s \in Seq(S)
    PROVE  \E f : Grows(s, f, Len(s)) /\ Toggles(s) = f[Len(s)]
  <1> DEFINE F == CHOOSE f : Grows(s, f, Len(s))
  <1>1. Grows(s, F, Len(s))
    BY GrowsExists, LenProperties, Zenon
  <1>2. Toggles(s) = F[Len(s)]
    BY DEF Toggles, Grows
  <1> QED
    BY <1>1, <1>2

(* What Toggles makes of a list depends on the list, entry by entry.       *)
LEMMA GrowsAlike ==
    ASSUME NEW s, NEW t, NEW n \in Nat, NEW m \in Nat, n <= m,
           NEW f, NEW g, Grows(s, f, n), Grows(t, g, m),
           \A i \in 1..n : s[i] = t[i]
    PROVE  \A i \in 0..n : f[i] = g[i]
  <1> DEFINE T == {i \in Nat : i <= n => f[i] = g[i]}
  <1>1. \A i \in 0..n : f[i] =
            IF i = 0 THEN <<>>
            ELSE IF s[i].type = "toggle_changed" THEN Append(f[i - 1], s[i])
            ELSE f[i - 1]
    BY DEF Grows
  <1>2. \A i \in 0..m : g[i] =
            IF i = 0 THEN <<>>
            ELSE IF t[i].type = "toggle_changed" THEN Append(g[i - 1], t[i])
            ELSE g[i - 1]
    BY DEF Grows
  <1>3. 0 \in T
    <2>1. 0 \in 0..n /\ 0 \in 0..m
      OBVIOUS
    <2>2. f[0] = <<>>
      BY <1>1, <2>1
    <2>3. g[0] = <<>>
      BY <1>2, <2>1
    <2> QED
      BY <2>2, <2>3
  <1>4. ASSUME NEW i \in T
        PROVE  i + 1 \in T
    <2>1. SUFFICES ASSUME i + 1 <= n
                   PROVE  f[i + 1] = g[i + 1]
      OBVIOUS
    <2>2. /\ i + 1 \in 0..n /\ i + 1 \in 0..m /\ i + 1 # 0
          /\ i + 1 \in 1..n /\ (i + 1) - 1 = i /\ f[i] = g[i]
      BY <2>1
    <2> QED
      BY <1>1, <1>2, <2>2
  <1> HIDE DEF T
  <1>5. T = Nat
    <2>1. T \in SUBSET Nat
      BY DEF T
    <2> QED
      BY <1>3, <1>4, <2>1, NumbersByInduction
  <1> QED
    BY <1>5 DEF T

(* There is no toggle in an empty list.                                    *)
LEMMA NoToggles == Toggles(<<>>) = <<>>
  <1>1. <<>> \in Seq({}) /\ Len(<<>>) = 0
    BY EmptyMessages
  <1>2. PICK f : Grows(<<>>, f, Len(<<>>)) /\ Toggles(<<>>) = f[Len(<<>>)]
    BY <1>1, TogglesGrow
  <1> QED
    BY <1>1, <1>2 DEF Grows

(* A new last entry is collected if it is a toggle.                        *)
LEMMA TogglesStep ==
    ASSUME NEW S, NEW s \in Seq(S), NEW e \in S
    PROVE  Toggles(Append(s, e)) =
              IF e.type = "toggle_changed" THEN Append(Toggles(s), e)
              ELSE Toggles(s)
  <1> DEFINE t == Append(s, e)
             n == Len(s)
  <1>1. /\ t \in Seq(S) /\ Len(t) = n + 1 /\ t[n + 1] = e /\ n \in Nat
        /\ \A i \in 1..n : s[i] = t[i]
    BY AppendFacts
  <1>2. PICK f : Grows(s, f, n) /\ Toggles(s) = f[n]
    BY TogglesGrow
  <1>3. PICK g : Grows(t, g, Len(t)) /\ Toggles(t) = g[Len(t)]
    BY <1>1, TogglesGrow
  <1> HIDE DEF t, n
  <1>4. n <= n + 1 /\ n + 1 \in Nat /\ n + 1 \in 0..(n + 1) /\ n \in 0..n
        /\ n + 1 # 0 /\ (n + 1) - 1 = n
    BY <1>1
  <1>5. f[n] = g[n]
    BY <1>1, <1>2, <1>3, <1>4, GrowsAlike
  <1>6. g[n + 1] = IF e.type = "toggle_changed" THEN Append(g[n], e) ELSE g[n]
    BY <1>1, <1>3, <1>4 DEF Grows
  <1> QED
    BY <1>1, <1>2, <1>3, <1>5, <1>6 DEF t

(* A list is built by appending: its prefixes, one entry at a time.        *)
LEMMA PrefixGrows ==
    ASSUME NEW S, NEW s \in Seq(S), NEW n \in Nat, n < Len(s)
    PROVE  /\ SubSeq(s, 1, n + 1) = Append(SubSeq(s, 1, n), s[n + 1])
           /\ SubSeq(s, 1, n) \in Seq(S) /\ s[n + 1] \in S
           /\ Len(SubSeq(s, 1, n)) = n
  <1>1. Len(s) \in Nat /\ n + 1 \in 1..Len(s) /\ (n + 1) - 1 = n
    BY LenProperties
  <1>2. s[n + 1] \in S
    BY <1>1, ElementOfSeq
  <1>3. SubSeq(s, 1, n) \in Seq(S) /\ Len(SubSeq(s, 1, n)) = n
    BY <1>1, SubSeqProperties
  <1>4. SubSeq(s, 1, n + 1) = SubSeq(s, 1, n) \o <<s[n + 1]>>
    <2>1. 1 \in 1..Len(s) /\ n + 1 \in 1..Len(s)
      BY <1>1
    <2> QED
      BY <1>1, <2>1, SubSeqRecursiveSecond
  <1> QED
    BY <1>2, <1>3, <1>4, AppendIsConcat

(* Appending to the second of two lists appends to both.                   *)
LEMMA AppendAcross ==
    ASSUME NEW S, NEW s \in Seq(S), NEW t \in Seq(S), NEW e \in S
    PROVE  s \o Append(t, e) = Append(s \o t, e) /\ s \o t \in Seq(S)
  <1>1. <<e>> \in Seq(S) /\ s \o t \in Seq(S)
    BY ConcatProperties
  <1> QED
    BY <1>1, AppendIsConcat, ConcatAssociative

(* The entries of u are entries of s, in the same order.                   *)
Within(u, s) ==
    /\ \A i \in 1..Len(u) : \E j \in 1..Len(s) : u[i] = s[j]
    /\ \A i, k \in 1..Len(u) : i < k =>
          \E j, l \in 1..Len(s) : j < l /\ u[i] = s[j] /\ u[k] = s[l]

(* Toggles leaves out some entries and keeps the order of the others.      *)
LEMMA TogglesWithin ==
    ASSUME NEW S, NEW s \in Seq(S)
    PROVE  Toggles(s) \in Seq(S) /\ Within(Toggles(s), s)
  <1> DEFINE P(t) == Toggles(t) \in Seq(S) /\ Within(Toggles(t), t)
             T == {n \in Nat : n <= Len(s) => P(SubSeq(s, 1, n))}
  <1>1. Len(s) \in Nat
    BY LenProperties
  <1>2. 0 \in T
    <2>1. P(<<>>)
      BY NoToggles, EmptyMessages DEF Within
    <2>2. SubSeq(s, 1, 0) = <<>>
      BY SubSeqEmpty
    <2> HIDE DEF P
    <2> QED
      BY <2>1, <2>2
  <1>3. ASSUME NEW n \in T
        PROVE  n + 1 \in T
    <2>1. SUFFICES ASSUME n + 1 <= Len(s)
                   PROVE  P(SubSeq(s, 1, n + 1))
      OBVIOUS
    <2> DEFINE t == SubSeq(s, 1, n)
               e == s[n + 1]
    <2>2. /\ SubSeq(s, 1, n + 1) = Append(t, e) /\ t \in Seq(S) /\ e \in S
          /\ n < Len(s) /\ P(t)
      BY <1>1, <2>1, PrefixGrows
    <2> HIDE DEF t, e
    <2>3. /\ Len(Append(t, e)) = Len(t) + 1 /\ Len(t) \in Nat
          /\ Append(t, e)[Len(t) + 1] = e
          /\ \A i \in 1..Len(t) : Append(t, e)[i] = t[i]
      BY <2>2, AppendFacts
    <2> DEFINE u == Toggles(t)
               v == Toggles(Append(t, e))
    <2>4. u \in Seq(S) /\ Within(u, t)
      BY <2>2
    <2>5. v = IF e.type = "toggle_changed" THEN Append(u, e) ELSE u
      BY <2>2, TogglesStep
    <2> HIDE DEF u, v
    <2>6. CASE v = u
      <3>1. Within(v, Append(t, e))
        <4>1. \A j \in 1..Len(t) : /\ j \in 1..Len(Append(t, e))
                                   /\ Append(t, e)[j] = t[j]
          BY <2>3
        <4>2. 1..Len(t) \subseteq 1..Len(Append(t, e))
          BY <4>1
        <4>3. ASSUME NEW i \in 1..Len(v)
              PROVE  \E j \in 1..Len(Append(t, e)) : v[i] = Append(t, e)[j]
          BY <2>4, <2>6, <4>1 DEF Within
        <4>4. ASSUME NEW i \in 1..Len(v), NEW k \in 1..Len(v), i < k
              PROVE  \E j, l \in 1..Len(Append(t, e)) :
                        /\ j < l /\ v[i] = Append(t, e)[j]
                        /\ v[k] = Append(t, e)[l]
          <5>1. PICK j \in 1..Len(t), l \in 1..Len(t) :
                   j < l /\ v[i] = t[j] /\ v[k] = t[l]
            BY <2>4, <2>6, <4>4 DEF Within
          <5> QED
            BY <4>1, <5>1
        <4> QED
          BY <4>3, <4>4 DEF Within
      <3> QED
        BY <2>2, <2>4, <2>6, <3>1 DEF u, v
    <2>7. CASE v = Append(u, e)
      <3>1. /\ v \in Seq(S) /\ Len(v) = Len(u) + 1 /\ Len(u) \in Nat
            /\ v[Len(u) + 1] = e /\ \A i \in 1..Len(u) : v[i] = u[i]
        BY <2>2, <2>4, <2>7, AppendFacts
      <3>2. ASSUME NEW i \in 1..Len(v)
            PROVE  \E j \in 1..Len(Append(t, e)) :
                      /\ v[i] = Append(t, e)[j]
                      /\ i = Len(u) + 1 \/ j \in 1..Len(t)
        <4>1. CASE i = Len(u) + 1
          <5>1. Len(t) + 1 \in 1..Len(Append(t, e))
            BY <2>3
          <5> QED
            BY <2>3, <3>1, <4>1, <5>1
        <4>2. CASE i # Len(u) + 1
          <5>1. i \in 1..Len(u) /\ v[i] = u[i]
            BY <3>1, <4>2
          <5>2. PICK j \in 1..Len(t) : u[i] = t[j]
            BY <2>4, <5>1 DEF Within
          <5>3. j \in 1..Len(Append(t, e)) /\ Append(t, e)[j] = t[j]
            BY <2>3
          <5> QED
            BY <5>1, <5>2, <5>3
        <4> QED
          BY <4>1, <4>2
      <3>3. ASSUME NEW i \in 1..Len(v), NEW k \in 1..Len(v), i < k
            PROVE  \E j, l \in 1..Len(Append(t, e)) :
                      /\ j < l /\ v[i] = Append(t, e)[j]
                      /\ v[k] = Append(t, e)[l]
        <4>1. i \in 1..Len(u) /\ v[i] = u[i]
          BY <3>1, <3>3
        <4>2. CASE k = Len(u) + 1
          <5>1. PICK j \in 1..Len(t) : u[i] = t[j]
            BY <2>4, <4>1 DEF Within
          <5>2. /\ j \in 1..Len(Append(t, e))
                /\ Len(t) + 1 \in 1..Len(Append(t, e)) /\ j < Len(t) + 1
                /\ v[i] = Append(t, e)[j]
                /\ v[k] = Append(t, e)[Len(t) + 1]
            BY <2>3, <3>1, <4>1, <4>2, <5>1
          <5> QED
            BY <5>2
        <4>3. CASE k # Len(u) + 1
          <5>1. k \in 1..Len(u) /\ v[k] = u[k]
            BY <3>1, <4>3
          <5>2. PICK j \in 1..Len(t), l \in 1..Len(t) :
                   j < l /\ u[i] = t[j] /\ u[k] = t[l]
            BY <2>4, <3>3, <4>1, <5>1 DEF Within
          <5>3. /\ j \in 1..Len(Append(t, e)) /\ Append(t, e)[j] = t[j]
                /\ l \in 1..Len(Append(t, e)) /\ Append(t, e)[l] = t[l]
            BY <2>3
          <5> QED
            BY <4>1, <5>1, <5>2, <5>3
        <4> QED
          BY <4>2, <4>3
      <3>4. Within(v, Append(t, e))
        BY <3>2, <3>3 DEF Within
      <3> QED
        BY <2>2, <3>1, <3>4 DEF v
    <2> QED
      BY <2>5, <2>6, <2>7
  <1> HIDE DEF P
  <1>4. T = Nat
    <2>1. T \in SUBSET Nat
      OBVIOUS
    <2> HIDE DEF T
    <2> QED
      BY <1>2, <1>3, <2>1, NumbersByInduction
  <1>5. P(SubSeq(s, 1, Len(s)))
    BY <1>1, <1>4
  <1> QED
    BY <1>5, SubSeqFull DEF P

(* Toggles of a list in two parts.                                         *)
LEMMA TogglesOfBoth ==
    ASSUME NEW S, NEW s \in Seq(S), NEW b \in Seq(S)
    PROVE  Toggles(s \o b) = Toggles(s) \o Toggles(b)
  <1> DEFINE P(t) == Toggles(s \o t) = Toggles(s) \o Toggles(t)
             T == {n \in Nat : n <= Len(b) => P(SubSeq(b, 1, n))}
  <1>1. Len(b) \in Nat
    BY LenProperties
  <1>2. 0 \in T
    <2>1. s \o <<>> = s
      BY ConcatEmptySeq
    <2>2. Toggles(s) \o <<>> = Toggles(s)
      BY TogglesWithin, ConcatEmptySeq
    <2>3. P(<<>>)
      BY <2>1, <2>2, NoToggles
    <2>4. SubSeq(b, 1, 0) = <<>>
      BY SubSeqEmpty
    <2> HIDE DEF P
    <2> QED
      BY <2>3, <2>4
  <1>3. ASSUME NEW n \in T
        PROVE  n + 1 \in T
    <2>1. SUFFICES ASSUME n + 1 <= Len(b)
                   PROVE  P(SubSeq(b, 1, n + 1))
      OBVIOUS
    <2> DEFINE t == SubSeq(b, 1, n)
               e == b[n + 1]
    <2>2. /\ SubSeq(b, 1, n + 1) = Append(t, e) /\ t \in Seq(S) /\ e \in S
          /\ n < Len(b) /\ P(t)
      BY <1>1, <2>1, PrefixGrows
    <2> HIDE DEF t, e
    <2>3. /\ s \o Append(t, e) = Append(s \o t, e)
          /\ s \o t \in Seq(S)
      BY <2>2, AppendAcross
    <2>4. /\ Toggles(Append(s \o t, e)) =
                 IF e.type = "toggle_changed" THEN Append(Toggles(s \o t), e)
                 ELSE Toggles(s \o t)
          /\ Toggles(Append(t, e)) =
                 IF e.type = "toggle_changed" THEN Append(Toggles(t), e)
                 ELSE Toggles(t)
      BY <2>2, <2>3, TogglesStep
    <2>5. Toggles(s) \o Append(Toggles(t), e) = Append(Toggles(s) \o Toggles(t), e)
      BY <2>2, TogglesWithin, AppendAcross
    <2> QED
      BY <2>2, <2>3, <2>4, <2>5
  <1> HIDE DEF P
  <1>4. T = Nat
    <2>1. T \in SUBSET Nat
      OBVIOUS
    <2> HIDE DEF T
    <2> QED
      BY <1>2, <1>3, <2>1, NumbersByInduction
  <1>5. P(SubSeq(b, 1, Len(b)))
    BY <1>1, <1>4
  <1> QED
    BY <1>5, SubSeqFull DEF P

(* What scenario C keeps true.                                             *)
Entries == [id : Nat, type : Kinds]

BenchTypes ==
    /\ pending \in Seq(Entries) /\ awaiting \in Seq(Entries)
    /\ outbox \in Seq(Entries) /\ downlink \in Seq(Nat)
    /\ sent \in 0..Len(outbox)
    /\ sequence \in Nat /\ published \in Nat /\ drops \in Nat
    /\ disturbed \in BOOLEAN

Rise(s) == \A i, j \in 1..Len(s) : i < j => s[i].id < s[j].id

Before(s, t) == \A i \in 1..Len(s), j \in 1..Len(t) : s[i].id < t[j].id

NotAfter(s, t) == \A i \in 1..Len(s), j \in 1..Len(t) : s[i].id <= t[j].id

Numbered(s, n) == \A i \in 1..Len(s) : s[i].id < n

(* The station has in hand what is youngest: a refused event is in outbox  *)
(* and buffer.                                                             *)
BenchOrder ==
    /\ Rise(pending) /\ Rise(awaiting)
    /\ Before(awaiting, pending) /\ NotAfter(outbox, pending)
    /\ Numbered(pending, sequence) /\ Numbered(awaiting, sequence)
    /\ Numbered(outbox, sequence)

(* A toggle that waits has its command on the way, or will have it when    *)
(* the broker forwards it, in this order.                                  *)
Unsent == SubSeq(outbox, sent + 1, Len(outbox))
Paired ==
    disturbed \/ /\ ~mispaired
                 /\ Ids(awaiting) = downlink \o Ids(Toggles(Unsent))

BenchInv == BenchTypes /\ BenchOrder /\ Paired /\ ReportAddsUp

(* The sequence ids of a list, entry by entry.                             *)
LEMMA IdsOf ==
    ASSUME NEW s \in Seq(Entries)
    PROVE  /\ Ids(s) \in Seq(Nat) /\ Len(Ids(s)) = Len(s) /\ Len(s) \in Nat
           /\ \A i \in 1..Len(s) : Ids(s)[i] = s[i].id /\ s[i].id \in Nat
  <1>1. Len(s) \in Nat /\ DOMAIN s = 1..Len(s)
    BY LenProperties
  <1>2. \A i \in 1..Len(s) : s[i].id \in Nat
    <2>1. \A i \in 1..Len(s) : s[i] \in Entries
      BY ElementOfSeq
    <2> QED
      BY <2>1 DEF Entries
  <1>3. Ids(s) = [i \in 1..Len(s) |-> s[i].id]
    BY <1>1 DEF Ids
  <1>4. Ids(s) \in [1..Len(s) -> Nat]
    BY <1>2, <1>3
  <1>5. Ids(s) \in Seq(Nat)
    <2>1. Seq(Nat) = UNION {[1..n -> Nat] : n \in Nat}
      BY SeqDef, Zenon
    <2> QED
      BY <1>1, <1>4, <2>1, Zenon
  <1>6. Len(Ids(s)) = Len(s)
    BY <1>1, <1>4, <1>5, LenProperties
  <1> QED
    BY <1>1, <1>2, <1>3, <1>5, <1>6

(* Ids of a list in two parts.                                             *)
LEMMA IdsOfBoth ==
    ASSUME NEW s \in Seq(Entries), NEW t \in Seq(Entries)
    PROVE  Ids(s \o t) = Ids(s) \o Ids(t)
  <1> DEFINE both == s \o t
             ids == Ids(s) \o Ids(t)
  <1>1. /\ both \in Seq(Entries) /\ Len(both) = Len(s) + Len(t)
        /\ \A i \in 1..(Len(s) + Len(t)) :
              both[i] = IF i <= Len(s) THEN s[i] ELSE t[i - Len(s)]
    BY ConcatProperties
  <1>2. /\ ids \in Seq(Nat) /\ Len(ids) = Len(Ids(s)) + Len(Ids(t))
        /\ \A i \in 1..(Len(Ids(s)) + Len(Ids(t))) :
              ids[i] = IF i <= Len(Ids(s)) THEN Ids(s)[i]
                       ELSE Ids(t)[i - Len(Ids(s))]
    BY IdsOf, ConcatProperties
  <1> HIDE DEF both, ids
  <1>3. ASSUME NEW i \in 1..(Len(s) + Len(t))
        PROVE  Ids(both)[i] = ids[i]
    <2>1. /\ Len(s) \in Nat /\ Len(t) \in Nat
          /\ Ids(both)[i] = both[i].id
          /\ Len(Ids(s)) = Len(s) /\ Len(Ids(t)) = Len(t)
      BY <1>1, IdsOf
    <2>2. CASE i <= Len(s)
      <3>1. Ids(s)[i] = s[i].id
        BY <2>1, <2>2, IdsOf
      <3> QED
        BY <1>1, <1>2, <2>1, <2>2, <3>1
    <2>3. CASE ~(i <= Len(s))
      <3>1. i - Len(s) \in 1..Len(t)
        BY <2>1, <2>3
      <3>2. Ids(t)[i - Len(s)] = t[i - Len(s)].id
        BY <3>1, IdsOf
      <3> QED
        BY <1>1, <1>2, <2>1, <2>3, <3>2
    <2> QED
      BY <2>2, <2>3
  <1>4. Ids(both) \in Seq(Nat) /\ Len(Ids(both)) = Len(s) + Len(t)
    BY <1>1, IdsOf
  <1>5. Len(ids) = Len(s) + Len(t)
    BY <1>2, IdsOf
  <1> QED
    BY <1>2, <1>3, <1>4, <1>5, SeqEqual DEF both, ids

(* deliver() hands over the oldest events, one after the other, and keeps  *)
(* the toggles among them in their order.                                  *)
LEMMA DeliversInOrder ==
    ASSUME BenchTypes, Rise(awaiting),
           NEW todo \in Seq(Entries), NEW n \in 0..Len(todo),
           NEW refused \in BOOLEAN, refused => n < Len(todo),
           Delivers(todo, n, refused),
           Rise(todo), Before(awaiting, todo), NotAfter(outbox, todo),
           NEW m \in Nat, Numbered(todo, m), Numbered(awaiting, m),
           Numbered(outbox, m)
    PROVE  LET rest == SubSeq(todo, n + 1, Len(todo)) IN
           /\ awaiting' \in Seq(Entries) /\ Rise(awaiting')
           /\ outbox' \in Seq(Entries) /\ Len(outbox') >= Len(outbox)
           /\ published' = published + n
           /\ rest \in Seq(Entries) /\ Len(rest) = Len(todo) - n /\ Rise(rest)
           /\ Before(awaiting', rest) /\ NotAfter(outbox', rest)
           /\ Numbered(rest, m) /\ Numbered(awaiting', m)
           /\ Numbered(outbox', m)
  <1> DEFINE l == IF refused THEN n + 1 ELSE n
             given == SubSeq(todo, 1, n)
             handed == SubSeq(todo, 1, l)
             rest == SubSeq(todo, n + 1, Len(todo))
             new == Toggles(given)
  <1>1. /\ Len(todo) \in Nat /\ n \in Nat /\ l \in Nat
        /\ l <= Len(todo) /\ n <= l /\ l <= n + 1
    BY LenProperties
  <1>2. \A i \in 1..Len(todo) : todo[i] \in Entries /\ todo[i].id \in Nat
    BY IdsOf, ElementOfSeq
  <1> HIDE DEF l
  <1>3. /\ given \in Seq(Entries) /\ Len(given) = n
        /\ \A i \in 1..n : given[i] = todo[i]
    BY <1>1, <1>2, SubSeqProperties
  <1>4. /\ handed \in Seq(Entries) /\ Len(handed) = l
        /\ \A i \in 1..l : handed[i] = todo[i]
    BY <1>1, <1>2, SubSeqProperties
  <1>5. /\ rest \in Seq(Entries) /\ Len(rest) = Len(todo) - n
        /\ \A i \in 1..(Len(todo) - n) : rest[i] = todo[n + i]
    <2>1. \A i \in (n + 1)..Len(todo) : todo[i] \in Entries
      BY <1>1, <1>2
    <2> QED
      BY <1>1, <2>1, SubSeqProperties
  <1> HIDE DEF given, handed, rest
  <1>6. new \in Seq(Entries) /\ Within(new, given)
    BY <1>3, TogglesWithin
  <1> HIDE DEF new
  <1>7. awaiting' = awaiting \o new /\ outbox' = outbox \o handed
    BY DEF Delivers, given, handed, new, l
  <1>8. /\ awaiting \in Seq(Entries) /\ outbox \in Seq(Entries)
        /\ Len(awaiting) \in Nat /\ Len(outbox) \in Nat /\ Len(new) \in Nat
    BY <1>6, LenProperties DEF BenchTypes
  <1>9. /\ awaiting' \in Seq(Entries) /\ Len(awaiting') = Len(awaiting) + Len(new)
        /\ \A i \in 1..Len(awaiting') :
              awaiting'[i] = IF i <= Len(awaiting) THEN awaiting[i]
                             ELSE new[i - Len(awaiting)]
    BY <1>6, <1>7, <1>8, ConcatProperties
  <1>10. /\ outbox' \in Seq(Entries) /\ Len(outbox') = Len(outbox) + l
         /\ \A i \in 1..Len(outbox') :
               outbox'[i] = IF i <= Len(outbox) THEN outbox[i]
                            ELSE handed[i - Len(outbox)]
    <2> DEFINE both == outbox \o handed
    <2>1. /\ both \in Seq(Entries) /\ Len(both) = Len(outbox) + Len(handed)
          /\ \A i \in 1..(Len(outbox) + Len(handed)) :
                both[i] = IF i <= Len(outbox) THEN outbox[i]
                          ELSE handed[i - Len(outbox)]
      BY <1>4, <1>8, ConcatProperties
    <2> HIDE DEF both
    <2>2. outbox' = both
      BY <1>7 DEF both
    <2> QED
      BY <1>4, <2>1, <2>2
  <1>11. ASSUME NEW i \in 1..Len(awaiting')
         PROVE  \/ i <= Len(awaiting) /\ awaiting'[i] = awaiting[i]
                \/ \E j \in 1..n : i > Len(awaiting) /\ awaiting'[i] = todo[j]
    <2>1. CASE i <= Len(awaiting)
      BY <1>9, <2>1
    <2>2. CASE ~(i <= Len(awaiting))
      <3>1. i - Len(awaiting) \in 1..Len(new)
        BY <1>8, <1>9, <2>2
      <3>2. PICK j \in 1..n : new[i - Len(awaiting)] = given[j]
        BY <1>3, <1>6, <3>1 DEF Within
      <3>3. awaiting'[i] = new[i - Len(awaiting)] /\ i > Len(awaiting)
        BY <1>8, <1>9, <2>2
      <3>4. given[j] = todo[j]
        BY <1>3
      <3> QED
        BY <3>2, <3>3, <3>4, Zenon
    <2> QED
      BY <2>1, <2>2
  <1>12. ASSUME NEW i \in 1..Len(outbox')
         PROVE  \/ i <= Len(outbox) /\ outbox'[i] = outbox[i]
                \/ \E j \in 1..l : outbox'[i] = todo[j]
    <2>1. CASE i <= Len(outbox)
      BY <1>10, <2>1
    <2>2. CASE ~(i <= Len(outbox))
      <3>1. i - Len(outbox) \in 1..l
        BY <1>1, <1>8, <1>10, <2>2
      <3> QED
        BY <1>4, <1>10, <2>2, <3>1
    <2> QED
      BY <2>1, <2>2
  <1>13. Rise(awaiting')
    <2>1. SUFFICES ASSUME NEW i \in 1..Len(awaiting'), NEW k \in 1..Len(awaiting'),
                          i < k
                   PROVE  awaiting'[i].id < awaiting'[k].id
      BY DEF Rise
    <2>2. CASE k <= Len(awaiting)
      <3>1. i \in 1..Len(awaiting) /\ k \in 1..Len(awaiting)
        BY <1>8, <2>1, <2>2
      <3> QED
        BY <1>9, <2>1, <2>2, <3>1 DEF Rise
    <2>3. CASE i <= Len(awaiting) /\ ~(k <= Len(awaiting))
      <3>1. i \in 1..Len(awaiting) /\ awaiting'[i] = awaiting[i]
        BY <1>8, <1>9, <2>3
      <3>2. PICK j \in 1..n : awaiting'[k] = todo[j]
        BY <1>11, <2>3
      <3>3. j \in 1..Len(todo)
        BY <1>1
      <3> QED
        BY <3>1, <3>2, <3>3 DEF Before
    <2>4. CASE ~(i <= Len(awaiting))
      <3>1. /\ i - Len(awaiting) \in 1..Len(new)
            /\ k - Len(awaiting) \in 1..Len(new)
            /\ i - Len(awaiting) < k - Len(awaiting) /\ ~(k <= Len(awaiting))
        BY <1>8, <1>9, <2>1, <2>4
      <3>2. PICK j1 \in 1..n, j2 \in 1..n :
               /\ j1 < j2 /\ new[i - Len(awaiting)] = given[j1]
               /\ new[k - Len(awaiting)] = given[j2]
        BY <1>3, <1>6, <3>1 DEF Within
      <3>3. awaiting'[i] = todo[j1] /\ awaiting'[k] = todo[j2]
        BY <1>3, <1>9, <2>4, <3>1, <3>2
      <3>4. j1 \in 1..Len(todo) /\ j2 \in 1..Len(todo)
        BY <1>1
      <3> QED
        BY <3>2, <3>3, <3>4 DEF Rise
    <2> QED
      BY <2>2, <2>3, <2>4
  <1>14. ASSUME NEW k \in 1..Len(rest)
         PROVE  n + k \in 1..Len(todo) /\ rest[k] = todo[n + k]
    BY <1>1, <1>5
  <1>15. Rise(rest) /\ Numbered(rest, m)
    <2>1. ASSUME NEW i \in 1..Len(rest), NEW k \in 1..Len(rest), i < k
          PROVE  rest[i].id < rest[k].id
      <3>1. n + i < n + k
        BY <1>1, <2>1
      <3> QED
        BY <1>14, <3>1 DEF Rise
    <2>2. Numbered(rest, m)
      BY <1>14 DEF Numbered
    <2> QED
      BY <2>1, <2>2 DEF Rise
  <1>16. Before(awaiting', rest)
    <2>1. SUFFICES ASSUME NEW i \in 1..Len(awaiting'), NEW k \in 1..Len(rest)
                   PROVE  awaiting'[i].id < rest[k].id
      BY DEF Before
    <2>2. CASE i <= Len(awaiting) /\ awaiting'[i] = awaiting[i]
      <3>1. i \in 1..Len(awaiting)
        BY <1>8, <2>2
      <3> QED
        BY <1>14, <2>2, <3>1 DEF Before
    <2>3. CASE \E j \in 1..n : awaiting'[i] = todo[j]
      <3>1. PICK j \in 1..n : awaiting'[i] = todo[j]
        BY <2>3
      <3>2. j \in 1..Len(todo) /\ j < n + k
        BY <1>1
      <3> QED
        BY <1>14, <3>1, <3>2 DEF Rise
    <2> QED
      BY <1>11, <2>2, <2>3
  <1>17. NotAfter(outbox', rest)
    <2>1. SUFFICES ASSUME NEW i \in 1..Len(outbox'), NEW k \in 1..Len(rest)
                   PROVE  outbox'[i].id <= rest[k].id
      BY DEF NotAfter
    <2>2. CASE i <= Len(outbox) /\ outbox'[i] = outbox[i]
      <3>1. i \in 1..Len(outbox)
        BY <1>8, <2>2
      <3> QED
        BY <1>14, <2>2, <3>1 DEF NotAfter
    <2>3. CASE \E j \in 1..l : outbox'[i] = todo[j]
      <3>1. PICK j \in 1..l : outbox'[i] = todo[j]
        BY <2>3
      <3>2. j \in 1..Len(todo) /\ j <= n + k
        BY <1>1
      <3>3. todo[j].id <= todo[n + k].id
        <4>1. CASE j = n + k
          BY <1>2, <3>2, <4>1
        <4>2. CASE j < n + k
          <5>1. todo[j].id < todo[n + k].id
            BY <1>14, <3>2, <4>2 DEF Rise
          <5> QED
            BY <1>2, <1>14, <3>2, <5>1
        <4> QED
          BY <1>1, <3>2, <4>1, <4>2
      <3> QED
        BY <1>14, <3>1, <3>3
    <2> QED
      BY <1>12, <2>2, <2>3
  <1>18. Numbered(awaiting', m)
    <2>1. SUFFICES ASSUME NEW i \in 1..Len(awaiting')
                   PROVE  awaiting'[i].id < m
      BY DEF Numbered
    <2>2. \A j \in 1..n : j \in 1..Len(todo)
      BY <1>1
    <2>3. i <= Len(awaiting) => i \in 1..Len(awaiting)
      BY <1>8
    <2> QED
      BY <1>11, <2>2, <2>3 DEF Numbered
  <1>19. Numbered(outbox', m)
    <2>1. SUFFICES ASSUME NEW i \in 1..Len(outbox')
                   PROVE  outbox'[i].id < m
      BY DEF Numbered
    <2>2. \A j \in 1..l : j \in 1..Len(todo)
      BY <1>1
    <2>3. i <= Len(outbox) => i \in 1..Len(outbox)
      BY <1>8
    <2> QED
      BY <1>12, <2>2, <2>3 DEF Numbered
  <1>20. published' = published + n /\ Len(outbox') >= Len(outbox)
    BY <1>1, <1>8, <1>10 DEF Delivers
  <1> QED
    BY <1>5, <1>9, <1>10, <1>13, <1>15, <1>16, <1>17, <1>18, <1>19, <1>20 DEF rest

(* What comes last also comes last in the rest.                            *)
LEMMA RestOfBoth ==
    ASSUME NEW S, NEW s \in Seq(S), NEW t \in Seq(S), NEW k \in 0..Len(s)
    PROVE  SubSeq(s \o t, k + 1, Len(s \o t)) = SubSeq(s, k + 1, Len(s)) \o t
  <1> DEFINE both == s \o t
             a == SubSeq(both, k + 1, Len(both))
             r == SubSeq(s, k + 1, Len(s))
             b == r \o t
  <1>1. Len(s) \in Nat /\ Len(t) \in Nat /\ k \in Nat /\ k <= Len(s)
    BY LenProperties
  <1>2. /\ both \in Seq(S) /\ Len(both) = Len(s) + Len(t)
        /\ \A i \in 1..(Len(s) + Len(t)) :
              both[i] = IF i <= Len(s) THEN s[i] ELSE t[i - Len(s)]
    BY ConcatProperties
  <1> HIDE DEF both
  <1>3. /\ a \in Seq(S) /\ Len(a) = Len(s) + Len(t) - k
        /\ \A i \in 1..(Len(s) + Len(t) - k) : a[i] = both[k + i]
    <2>1. \A i \in (k + 1)..Len(both) : both[i] \in S
      BY <1>1, <1>2, ElementOfSeq
    <2> QED
      BY <1>1, <1>2, <2>1, SubSeqProperties
  <1>4. /\ r \in Seq(S) /\ Len(r) = Len(s) - k
        /\ \A i \in 1..(Len(s) - k) : r[i] = s[k + i]
    <2>1. \A i \in (k + 1)..Len(s) : s[i] \in S
      BY <1>1, ElementOfSeq
    <2> QED
      BY <1>1, <2>1, SubSeqProperties
  <1> HIDE DEF a, r
  <1>5. /\ b \in Seq(S) /\ Len(b) = Len(r) + Len(t)
        /\ \A i \in 1..(Len(r) + Len(t)) :
              b[i] = IF i <= Len(r) THEN r[i] ELSE t[i - Len(r)]
    BY <1>4, ConcatProperties
  <1> HIDE DEF b
  <1>6. ASSUME NEW i \in 1..(Len(s) + Len(t) - k)
        PROVE  a[i] = b[i]
    <2>1. CASE i <= Len(s) - k
      <3>1. a[i] = s[k + i]
        BY <1>1, <1>2, <1>3, <2>1
      <3>2. b[i] = s[k + i]
        BY <1>1, <1>4, <1>5, <2>1
      <3> QED
        BY <3>1, <3>2
    <2>2. CASE ~(i <= Len(s) - k)
      <3>1. a[i] = t[k + i - Len(s)]
        BY <1>1, <1>2, <1>3, <2>2
      <3>2. b[i] = t[i - (Len(s) - k)]
        <4>1. Len(r) = Len(s) - k /\ i \in 1..(Len(r) + Len(t)) /\ ~(i <= Len(r))
          BY <1>1, <1>4, <2>2
        <4>2. b[i] = t[i - Len(r)]
          BY <1>5, <4>1
        <4> QED
          BY <4>1, <4>2
      <3>3. k + i - Len(s) = i - (Len(s) - k)
        BY <1>1
      <3> QED
        BY <3>1, <3>2, <3>3
    <2> QED
      BY <2>1, <2>2
  <1>7. Len(b) = Len(s) + Len(t) - k /\ Len(a) = Len(b)
    BY <1>1, <1>3, <1>4, <1>5
  <1> QED
    BY <1>3, <1>5, <1>6, <1>7, SeqEqual DEF both, a, b, r

(* What the broker has yet to forward is a list of events.                 *)
LEMMA UnsentToggles ==
    ASSUME outbox \in Seq(Entries), sent \in 0..Len(outbox)
    PROVE  Unsent \in Seq(Entries) /\ Toggles(Unsent) \in Seq(Entries)
  <1>1. Len(outbox) \in Nat /\ sent \in Nat
    BY LenProperties
  <1>2. \A i \in (sent + 1)..Len(outbox) : outbox[i] \in Entries
    BY <1>1, ElementOfSeq
  <1>3. Unsent \in Seq(Entries)
    BY <1>1, <1>2, SubSeqProperties DEF Unsent
  <1> QED
    BY <1>3, TogglesWithin

(* What deliver() adds to the toggles that wait, it adds to what the       *)
(* broker has yet to forward.                                              *)
LEMMA DeliversPairs ==
    ASSUME BenchTypes, Paired,
           NEW todo \in Seq(Entries), NEW n \in 0..Len(todo),
           NEW refused \in BOOLEAN, Delivers(todo, n, refused)
    PROVE  \/ disturbed'
           \/ /\ ~mispaired
              /\ Ids(awaiting') =
                     downlink \o Ids(Toggles(SubSeq(outbox', sent + 1, Len(outbox'))))
  <1>1. SUFFICES ASSUME ~disturbed'
                 PROVE  /\ ~mispaired
                        /\ Ids(awaiting') =
                              downlink \o Ids(Toggles(
                                  SubSeq(outbox', sent + 1, Len(outbox'))))
    OBVIOUS
  <1>2. ~disturbed /\ ~refused
    BY <1>1 DEF Delivers
  <1> DEFINE given == SubSeq(todo, 1, n)
  <1>3. given \in Seq(Entries)
    <2>1. \A i \in 1..n : todo[i] \in Entries
      BY LenProperties, ElementOfSeq
    <2> QED
      BY <2>1, LenProperties, SubSeqProperties
  <1>4. /\ awaiting' = awaiting \o Toggles(given)
        /\ outbox' = outbox \o given
    BY <1>2 DEF Delivers
  <1> HIDE DEF given
  <1>5. /\ awaiting \in Seq(Entries) /\ outbox \in Seq(Entries)
        /\ downlink \in Seq(Nat) /\ sent \in 0..Len(outbox)
    BY DEF BenchTypes
  <1>6. Unsent \in Seq(Entries)
    BY <1>5, UnsentToggles
  <1>7. SubSeq(outbox', sent + 1, Len(outbox')) = Unsent \o given
    BY <1>3, <1>4, <1>5, RestOfBoth DEF Unsent
  <1>8. Toggles(Unsent \o given) = Toggles(Unsent) \o Toggles(given)
    BY <1>3, <1>6, TogglesOfBoth
  <1>9. /\ Toggles(Unsent) \in Seq(Entries) /\ Toggles(given) \in Seq(Entries)
        /\ Ids(Toggles(Unsent)) \in Seq(Nat) /\ Ids(Toggles(given)) \in Seq(Nat)
    BY <1>3, <1>6, TogglesWithin, IdsOf
  <1>10. /\ Ids(awaiting') = Ids(awaiting) \o Ids(Toggles(given))
         /\ Ids(Toggles(Unsent) \o Toggles(given))
               = Ids(Toggles(Unsent)) \o Ids(Toggles(given))
    BY <1>4, <1>5, <1>9, IdsOfBoth
  <1>11. ~mispaired /\ Ids(awaiting) = downlink \o Ids(Toggles(Unsent))
    BY <1>2 DEF Paired
  <1>12. (downlink \o Ids(Toggles(Unsent))) \o Ids(Toggles(given))
           = downlink \o (Ids(Toggles(Unsent)) \o Ids(Toggles(given)))
    <2> DEFINE a == Ids(Toggles(Unsent))
               b == Ids(Toggles(given))
               N == Nat
    <2>1. a \in Seq(N) /\ b \in Seq(N) /\ downlink \in Seq(N)
      BY <1>5, <1>9
    <2> HIDE DEF a, b, N
    <2>2. (downlink \o a) \o b = downlink \o (a \o b)
      BY <2>1, ConcatAssociative
    <2> QED
      BY <2>2 DEF a, b
  <1> QED
    BY <1>7, <1>8, <1>10, <1>11, <1>12


(* What emit() offers: the buffer, and the new event behind it.            *)
LEMMA OffersInOrder ==
    ASSUME BenchTypes, BenchOrder, NEW kind \in Kinds
    PROVE  LET todo == Append(pending, [id |-> sequence, type |-> kind]) IN
           /\ todo \in Seq(Entries) /\ Len(todo) = Len(pending) + 1
           /\ Rise(todo) /\ Before(awaiting, todo) /\ NotAfter(outbox, todo)
           /\ Numbered(todo, sequence + 1)
           /\ Numbered(awaiting, sequence + 1) /\ Numbered(outbox, sequence + 1)
  <1> DEFINE e == [id |-> sequence, type |-> kind]
             todo == Append(pending, e)
  <1>1. /\ pending \in Seq(Entries) /\ e \in Entries /\ sequence \in Nat
        /\ Len(pending) \in Nat /\ e.id = sequence
    BY LenProperties DEF BenchTypes, Entries
  <1> HIDE DEF e
  <1>2. /\ todo \in Seq(Entries) /\ Len(todo) = Len(pending) + 1
        /\ \A i \in 1..Len(pending) : todo[i] = pending[i]
        /\ todo[Len(pending) + 1] = e
    BY <1>1, AppendProperties
  <1> HIDE DEF todo
  <1>3. /\ \A i \in 1..Len(pending) : pending[i].id \in Nat
        /\ \A i \in 1..Len(awaiting) : awaiting[i].id \in Nat
        /\ \A i \in 1..Len(outbox) : outbox[i].id \in Nat
    BY IdsOf DEF BenchTypes
  <1>4. ASSUME NEW i \in 1..Len(todo)
        PROVE  \/ i \in 1..Len(pending) /\ todo[i].id = pending[i].id
               \/ i = Len(pending) + 1 /\ todo[i].id = sequence
    BY <1>1, <1>2
  <1>5. Rise(todo)
    <2>1. SUFFICES ASSUME NEW i \in 1..Len(todo), NEW j \in 1..Len(todo), i < j
                   PROVE  todo[i].id < todo[j].id
      BY DEF Rise
    <2>2. i \in 1..Len(pending) /\ todo[i].id = pending[i].id
      BY <1>1, <1>2, <1>4, <2>1
    <2> QED
      BY <1>4, <2>1, <2>2 DEF BenchOrder, Rise, Numbered
  <1>6. Before(awaiting, todo)
    BY <1>4 DEF BenchOrder, Before, Numbered
  <1>7. NotAfter(outbox, todo)
    <2>1. SUFFICES ASSUME NEW i \in 1..Len(outbox), NEW j \in 1..Len(todo)
                   PROVE  outbox[i].id <= todo[j].id
      BY DEF NotAfter
    <2>2. CASE j \in 1..Len(pending) /\ todo[j].id = pending[j].id
      BY <2>1, <2>2 DEF BenchOrder, NotAfter
    <2>3. CASE todo[j].id = sequence
      <3>1. outbox[i].id < sequence
        BY <2>1 DEF BenchOrder, Numbered
      <3> QED
        BY <1>1, <1>3, <2>1, <2>3, <3>1
    <2> QED
      BY <1>4, <2>1, <2>2, <2>3
  <1>8. Numbered(todo, sequence + 1)
    BY <1>1, <1>3, <1>4 DEF BenchOrder, Numbered
  <1>9. Numbered(awaiting, sequence + 1) /\ Numbered(outbox, sequence + 1)
    BY <1>1, <1>3 DEF BenchOrder, Numbered
  <1> QED
    BY <1>2, <1>5, <1>6, <1>7, <1>8, <1>9 DEF todo, e

(* The newest of what was not delivered is dropped if there is no room.    *)
LEMMA BuffersInOrder ==
    ASSUME NEW rest \in Seq(Entries), Rise(rest), NEW m \in Nat,
           Numbered(rest, m), NEW a \in Seq(Entries), NEW o \in Seq(Entries),
           Before(a, rest), NotAfter(o, rest)
    PROVE  LET kept == Buffered(rest) IN
           /\ kept \in Seq(Entries) /\ Rise(kept) /\ Numbered(kept, m)
           /\ Before(a, kept) /\ NotAfter(o, kept)
           /\ \/ kept = rest
              \/ kept # rest /\ Len(kept) = Len(rest) - 1
  <1>1. Len(rest) \in Nat /\ Capacity \in Nat \ {0}
    BY LenProperties, CapacityAssumption
  <1>2. CASE Len(rest) > Capacity
    <2> DEFINE kept == SubSeq(rest, 1, Len(rest) - 1)
    <2>1. Buffered(rest) = kept
      BY <1>2 DEF Buffered, Front
    <2>2. \A i \in 1..(Len(rest) - 1) : rest[i] \in Entries
      BY <1>1, ElementOfSeq
    <2>3. /\ kept \in Seq(Entries) /\ Len(kept) = Len(rest) - 1
          /\ \A i \in 1..(Len(rest) - 1) : kept[i] = rest[i]
      BY <1>1, <1>2, <2>2, SubSeqProperties
    <2> HIDE DEF kept
    <2>4. \A i \in 1..Len(kept) : i \in 1..Len(rest) /\ kept[i] = rest[i]
      BY <1>1, <2>3
    <2>5. Rise(kept) /\ Numbered(kept, m) /\ Before(a, kept) /\ NotAfter(o, kept)
      BY <2>4 DEF Rise, Numbered, Before, NotAfter
    <2>6. kept # rest
      BY <1>1, <2>3
    <2> QED
      BY <2>1, <2>3, <2>5, <2>6
  <1>3. CASE ~(Len(rest) > Capacity)
    BY <1>3 DEF Buffered
  <1> QED
    BY <1>2, <1>3

(* emit(), with any outcome of its deliveries.                             *)
LEMMA EmitKeeps ==
    ASSUME BenchInv, NEW kind \in Kinds, Emit(kind)
    PROVE  BenchInv'
  <1> DEFINE todo == Append(pending, [id |-> sequence, type |-> kind])
  <1>1. BenchTypes /\ BenchOrder /\ Paired /\ ReportAddsUp
    BY DEF BenchInv
  <1>2. /\ todo \in Seq(Entries) /\ Len(todo) = Len(pending) + 1
        /\ Rise(todo) /\ Before(awaiting, todo) /\ NotAfter(outbox, todo)
        /\ Numbered(todo, sequence + 1)
        /\ Numbered(awaiting, sequence + 1) /\ Numbered(outbox, sequence + 1)
    BY <1>1, OffersInOrder
  <1>3. todo = BacklogAnd([id |-> sequence, type |-> kind])
    BY DEF BacklogAnd
  <1> HIDE DEF todo
  <1>4. /\ sequence' = sequence + 1 /\ sent' = sent /\ downlink' = downlink
        /\ mispaired' = mispaired
        /\ \E out \in Outcomes(todo, online) :
              LET rest == SubSeq(todo, out[1] + 1, Len(todo)) IN
              /\ Delivers(todo, out[1], out[2])
              /\ pending' = Buffered(rest)
              /\ drops' = IF Buffered(rest) = rest THEN drops ELSE drops + 1
    BY <1>3 DEF Emit
  <1>5. PICK out \in Outcomes(todo, online) :
              LET rest == SubSeq(todo, out[1] + 1, Len(todo)) IN
              /\ Delivers(todo, out[1], out[2])
              /\ pending' = Buffered(rest)
              /\ drops' = IF Buffered(rest) = rest THEN drops ELSE drops + 1
    BY <1>4
  <1>6. PICK n \in 0..Len(todo), refused \in BOOLEAN :
              out[1] = n /\ out[2] = refused /\ (refused => n < Len(todo))
    <2>1. Len(todo) \in Nat
      BY <1>2, LenProperties
    <2>2. \/ out = <<0, FALSE>> \/ out = <<Len(todo), FALSE>>
          \/ out \in (0..Len(todo) - 1) \X BOOLEAN
      BY DEF Outcomes
    <2>3. CASE out = <<0, FALSE>>
      <3>1. out[1] = 0 /\ out[2] = FALSE /\ 0 \in 0..Len(todo)
        BY <2>1, <2>3
      <3> QED
        BY <3>1, Zenon
    <2>4. CASE out = <<Len(todo), FALSE>>
      <3>1. out[1] = Len(todo) /\ out[2] = FALSE /\ Len(todo) \in 0..Len(todo)
        BY <2>1, <2>4
      <3> QED
        BY <3>1, Zenon
    <2>5. CASE out \in (0..Len(todo) - 1) \X BOOLEAN
      <3>1. out[1] \in 0..Len(todo) - 1 /\ out[2] \in BOOLEAN
        BY <2>5
      <3>2. out[1] \in 0..Len(todo) /\ out[1] < Len(todo)
        BY <2>1, <3>1
      <3> QED
        BY <3>1, <3>2, Zenon
    <2> QED
      BY <2>2, <2>3, <2>4, <2>5
  <1> DEFINE rest == SubSeq(todo, n + 1, Len(todo))
             m == sequence + 1
  <1>7. /\ Delivers(todo, n, refused) /\ pending' = Buffered(rest)
        /\ drops' = IF Buffered(rest) = rest THEN drops ELSE drops + 1
    BY <1>5, <1>6
  <1>8. m \in Nat /\ m = sequence + 1
    BY <1>1 DEF BenchTypes
  <1>9. /\ Numbered(todo, m) /\ Numbered(awaiting, m) /\ Numbered(outbox, m)
        /\ Rise(awaiting)
    BY <1>1, <1>2 DEF BenchOrder
  <1> HIDE DEF m
  <1>10. /\ awaiting' \in Seq(Entries) /\ Rise(awaiting')
         /\ outbox' \in Seq(Entries) /\ Len(outbox') >= Len(outbox)
         /\ published' = published + n
         /\ rest \in Seq(Entries) /\ Len(rest) = Len(todo) - n /\ Rise(rest)
         /\ Before(awaiting', rest) /\ NotAfter(outbox', rest)
         /\ Numbered(rest, m) /\ Numbered(awaiting', m)
         /\ Numbered(outbox', m)
    BY <1>1, <1>2, <1>6, <1>7, <1>8, <1>9, DeliversInOrder
  <1> HIDE DEF rest
  <1>11. /\ pending' \in Seq(Entries) /\ Rise(pending') /\ Numbered(pending', m)
         /\ Before(awaiting', pending') /\ NotAfter(outbox', pending')
         /\ \/ pending' = rest
            \/ pending' # rest /\ Len(pending') = Len(rest) - 1
    BY <1>7, <1>8, <1>10, BuffersInOrder
  <1>12. BenchOrder'
    BY <1>4, <1>8, <1>10, <1>11 DEF BenchOrder
  <1>13. BenchTypes'
    <2>1. sent' \in 0..Len(outbox')
      <3>1. Len(outbox) \in Nat /\ Len(outbox') \in Nat
        BY <1>1, <1>10, LenProperties DEF BenchTypes
      <3> QED
        BY <1>1, <1>4, <1>10, <3>1 DEF BenchTypes
    <2>2. drops' \in Nat /\ published' \in Nat /\ sequence' \in Nat
      <3>1. drops \in Nat /\ published \in Nat /\ sequence \in Nat /\ n \in Nat
        BY <1>1 DEF BenchTypes
      <3> QED
        BY <1>4, <1>7, <1>10, <3>1
    <2>3. disturbed' \in BOOLEAN
      BY <1>7 DEF Delivers
    <2>4. downlink' \in Seq(Nat)
      BY <1>1, <1>4 DEF BenchTypes
    <2> QED
      BY <1>10, <1>11, <2>1, <2>2, <2>3, <2>4 DEF BenchTypes
  <1>14. Paired'
    <2>1. \/ disturbed'
          \/ /\ ~mispaired
             /\ Ids(awaiting') =
                    downlink \o Ids(Toggles(SubSeq(outbox', sent + 1, Len(outbox'))))
      BY <1>1, <1>2, <1>7, DeliversPairs
    <2> QED
      BY <1>4, <2>1 DEF Paired, Unsent
  <1>15. ReportAddsUp'
    <2>1. /\ Len(pending) \in Nat /\ drops \in Nat /\ published \in Nat
          /\ sequence \in Nat /\ n \in Nat /\ n <= Len(todo)
          /\ Len(todo) \in Nat
      BY <1>1, <1>2, LenProperties DEF BenchTypes
    <2>2. Len(rest) = Len(pending) + 1 - n
      BY <1>2, <1>10
    <2>3. sequence' - 1 = published + Len(pending) + drops + 1
      BY <1>1, <1>4, <2>1 DEF ReportAddsUp
    <2>4. CASE pending' = rest
      <3>1. drops' = drops /\ Len(pending') = Len(pending) + 1 - n
        BY <1>7, <2>2, <2>4
      <3> QED
        BY <1>10, <2>1, <2>3, <3>1 DEF ReportAddsUp
    <2>5. CASE pending' # rest /\ Len(pending') = Len(rest) - 1
      <3>1. drops' = drops + 1 /\ Len(pending') = Len(pending) - n
        BY <1>7, <2>1, <2>2, <2>5
      <3> QED
        BY <1>10, <2>1, <2>3, <3>1 DEF ReportAddsUp
    <2> QED
      BY <1>11, <2>4, <2>5
  <1> QED
    BY <1>12, <1>13, <1>14, <1>15 DEF BenchInv


(* on_connect drains the whole buffer.                                     *)
LEMMA OnConnectKeeps ==
    ASSUME BenchInv, OnConnect
    PROVE  BenchInv'
  <1> DEFINE n == Len(pending)
  <1>1. BenchTypes /\ BenchOrder /\ Paired /\ ReportAddsUp
    BY DEF BenchInv
  <1>2. /\ pending \in Seq(Entries) /\ sequence \in Nat /\ published \in Nat
        /\ drops \in Nat /\ n \in Nat /\ n \in 0..Len(pending)
        /\ downlink \in Seq(Nat) /\ sent \in 0..Len(outbox)
    BY <1>1, LenProperties DEF BenchTypes
  <1>3. /\ Delivers(pending, n, FALSE) /\ pending' = <<>>
        /\ sequence' = sequence /\ drops' = drops /\ sent' = sent
        /\ downlink' = downlink /\ mispaired' = mispaired
    BY DEF OnConnect
  <1>4. /\ Rise(pending) /\ Rise(awaiting) /\ Before(awaiting, pending)
        /\ NotAfter(outbox, pending) /\ Numbered(pending, sequence)
        /\ Numbered(awaiting, sequence) /\ Numbered(outbox, sequence)
    BY <1>1 DEF BenchOrder
  <1> HIDE DEF n
  <1>5. /\ awaiting' \in Seq(Entries) /\ Rise(awaiting')
        /\ outbox' \in Seq(Entries) /\ Len(outbox') >= Len(outbox)
        /\ published' = published + n
        /\ Numbered(awaiting', sequence) /\ Numbered(outbox', sequence)
    <2> DEFINE no == FALSE
    <2>1. no \in BOOLEAN /\ (no => n < Len(pending))
      OBVIOUS
    <2>2. Delivers(pending, n, no)
      BY <1>3
    <2> HIDE DEF no
    <2> QED
      BY <1>1, <1>2, <1>4, <2>1, <2>2, DeliversInOrder
  <1>6. pending' \in Seq(Entries) /\ Len(pending') = 0
    BY <1>3
  <1>7. BenchOrder'
    BY <1>3, <1>5, <1>6 DEF BenchOrder, Rise, Before, NotAfter, Numbered
  <1>8. BenchTypes'
    <2>1. disturbed' \in BOOLEAN
      BY <1>3 DEF Delivers
    <2>2. sent' \in 0..Len(outbox')
      <3>1. Len(outbox) \in Nat /\ Len(outbox') \in Nat
        BY <1>1, <1>5, LenProperties DEF BenchTypes
      <3> QED
        BY <1>2, <1>3, <1>5, <3>1
    <2>3. published' \in Nat
      BY <1>2, <1>5
    <2> QED
      BY <1>2, <1>3, <1>5, <1>6, <2>1, <2>2, <2>3 DEF BenchTypes
  <1>9. Paired'
    <2>1. \/ disturbed'
          \/ /\ ~mispaired
             /\ Ids(awaiting') =
                    downlink \o Ids(Toggles(SubSeq(outbox', sent + 1, Len(outbox'))))
      BY <1>1, <1>2, <1>3, DeliversPairs
    <2> QED
      BY <1>3, <2>1 DEF Paired, Unsent
  <1>10. ReportAddsUp'
    BY <1>1, <1>2, <1>3, <1>5, <1>6 DEF ReportAddsUp, n
  <1> QED
    BY <1>7, <1>8, <1>9, <1>10 DEF BenchInv

(* Without its head a list is in the same order.                           *)
LEMMA TailInOrder ==
    ASSUME NEW s \in Seq(Entries), s # <<>>
    PROVE  /\ Tail(s) \in Seq(Entries) /\ Len(Tail(s)) = Len(s) - 1
           /\ Len(s) \in Nat \ {0}
           /\ \A i \in 1..Len(Tail(s)) : i + 1 \in 1..Len(s) /\ Tail(s)[i] = s[i + 1]
           /\ Rise(s) => Rise(Tail(s))
           /\ \A t : /\ Before(s, t) => Before(Tail(s), t)
                     /\ NotAfter(s, t) => NotAfter(Tail(s), t)
           /\ \A m : Numbered(s, m) => Numbered(Tail(s), m)
  <1> DEFINE rest == Tail(s)
  <1>1. /\ rest \in Seq(Entries) /\ Len(rest) = Len(s) - 1
        /\ \A i \in 1..Len(rest) : rest[i] = s[i + 1]
    BY HeadTailProperties
  <1>2. Len(s) \in Nat \ {0}
    BY LenProperties, EmptySeq
  <1> HIDE DEF rest
  <1>3. \A i \in 1..Len(rest) : i + 1 \in 1..Len(s) /\ rest[i] = s[i + 1]
    BY <1>1, <1>2
  <1>4. Rise(s) => Rise(rest)
    <2>1. SUFFICES ASSUME Rise(s), NEW i \in 1..Len(rest), NEW j \in 1..Len(rest),
                          i < j
                   PROVE  rest[i].id < rest[j].id
      BY DEF Rise
    <2>2. i + 1 < j + 1
      BY <1>1, <1>2, <2>1
    <2> QED
      BY <1>3, <2>1, <2>2 DEF Rise
  <1>5. \A t : /\ Before(s, t) => Before(rest, t)
               /\ NotAfter(s, t) => NotAfter(rest, t)
    BY <1>3 DEF Before, NotAfter
  <1>6. \A m : Numbered(s, m) => Numbered(rest, m)
    BY <1>3 DEF Numbered
  <1> QED
    BY <1>1, <1>2, <1>3, <1>4, <1>5, <1>6 DEF rest

(* The ids without the first, and a first that is taken from two lists.    *)
LEMMA IdsOfTail ==
    ASSUME NEW s \in Seq(Entries), s # <<>>
    PROVE  Ids(Tail(s)) = Tail(Ids(s)) /\ Ids(s) # <<>> /\ Head(Ids(s)) = Head(s).id
  <1> DEFINE a == Ids(Tail(s))
             ids == Ids(s)
             b == Tail(ids)
  <1>1. /\ Tail(s) \in Seq(Entries) /\ Len(Tail(s)) = Len(s) - 1
        /\ Len(s) \in Nat \ {0}
        /\ \A i \in 1..Len(Tail(s)) : i + 1 \in 1..Len(s) /\ Tail(s)[i] = s[i + 1]
    BY TailInOrder
  <1>2. /\ a \in Seq(Nat) /\ Len(a) = Len(Tail(s))
        /\ \A i \in 1..Len(Tail(s)) : a[i] = Tail(s)[i].id
    BY <1>1, IdsOf
  <1>3. /\ ids \in Seq(Nat) /\ Len(ids) = Len(s)
        /\ \A i \in 1..Len(s) : ids[i] = s[i].id
    BY IdsOf
  <1> HIDE DEF a, ids
  <1>4. ids # <<>>
    BY <1>1, <1>3, EmptySeq
  <1>5. /\ b \in Seq(Nat) /\ Len(b) = Len(ids) - 1
        /\ \A i \in 1..Len(b) : b[i] = ids[i + 1]
        /\ Head(ids) = ids[1]
    BY <1>3, <1>4, HeadTailProperties
  <1> HIDE DEF b
  <1>6. Len(a) = Len(b)
    BY <1>1, <1>2, <1>3, <1>5
  <1>7. \A i \in 1..Len(a) : a[i] = b[i]
    BY <1>1, <1>2, <1>3, <1>5, <1>6
  <1>8. a = b
    BY <1>2, <1>5, <1>6, <1>7, SeqEqual
  <1>9. Head(ids) = Head(s).id
    BY <1>1, <1>3, <1>5
  <1> QED
    BY <1>4, <1>8, <1>9 DEF a, b, ids

(* What comes first in two lists comes from the first one.                 *)
LEMMA HeadAndTailOfBoth ==
    ASSUME NEW S, NEW s \in Seq(S), NEW t \in Seq(S), s # <<>>
    PROVE  /\ s \o t # <<>> /\ Head(s \o t) = Head(s)
           /\ Tail(s \o t) = Tail(s) \o t
  <1> DEFINE both == s \o t
             a == Tail(both)
             r == Tail(s)
             b == r \o t
  <1>1. Len(s) \in Nat \ {0} /\ Len(t) \in Nat
    BY LenProperties, EmptySeq
  <1>2. /\ both \in Seq(S) /\ Len(both) = Len(s) + Len(t)
        /\ \A i \in 1..(Len(s) + Len(t)) :
              both[i] = IF i <= Len(s) THEN s[i] ELSE t[i - Len(s)]
    BY ConcatProperties
  <1> HIDE DEF both
  <1>3. both # <<>>
    BY <1>1, <1>2, EmptySeq
  <1>4. /\ a \in Seq(S) /\ Len(a) = Len(s) + Len(t) - 1
        /\ \A i \in 1..Len(a) : a[i] = both[i + 1]
        /\ Head(both) = both[1]
    BY <1>2, <1>3, HeadTailProperties
  <1>5. /\ r \in Seq(S) /\ Len(r) = Len(s) - 1
        /\ \A i \in 1..Len(r) : r[i] = s[i + 1]
        /\ Head(s) = s[1]
    BY HeadTailProperties
  <1> HIDE DEF a, r
  <1>6. /\ b \in Seq(S) /\ Len(b) = Len(r) + Len(t)
        /\ \A i \in 1..(Len(r) + Len(t)) :
              b[i] = IF i <= Len(r) THEN r[i] ELSE t[i - Len(r)]
    BY <1>5, ConcatProperties
  <1> HIDE DEF b
  <1>7. Len(a) = Len(b)
    BY <1>1, <1>4, <1>5, <1>6
  <1>8. ASSUME NEW i \in 1..Len(a)
        PROVE  a[i] = b[i]
    <2>1. CASE i <= Len(s) - 1
      <3>1. a[i] = s[i + 1]
        BY <1>1, <1>2, <1>4, <2>1
      <3>2. b[i] = s[i + 1]
        BY <1>1, <1>4, <1>5, <1>6, <2>1
      <3> QED
        BY <3>1, <3>2
    <2>2. CASE ~(i <= Len(s) - 1)
      <3>1. a[i] = t[i + 1 - Len(s)]
        BY <1>1, <1>2, <1>4, <2>2
      <3>2. Len(r) = Len(s) - 1 /\ i \in 1..(Len(r) + Len(t)) /\ ~(i <= Len(r))
        BY <1>1, <1>4, <1>5, <2>2
      <3>3. b[i] = t[i - Len(r)]
        BY <1>6, <3>2
      <3>4. i - Len(r) = i + 1 - Len(s)
        BY <1>1, <3>2
      <3> QED
        BY <3>1, <3>3, <3>4
    <2> QED
      BY <2>1, <2>2
  <1>9. a = b
    BY <1>4, <1>6, <1>7, <1>8, SeqEqual
  <1>10. Head(both) = Head(s)
    BY <1>1, <1>2, <1>4, <1>5
  <1> QED
    BY <1>3, <1>9, <1>10 DEF both, a, r, b


(* A command is for the oldest toggle that waits.                          *)
LEMMA OnCommandKeeps ==
    ASSUME BenchInv, OnCommand
    PROVE  BenchInv'
  <1>1. BenchTypes /\ BenchOrder /\ Paired /\ ReportAddsUp
    BY DEF BenchInv
  <1>2. /\ downlink # <<>> /\ downlink' = Tail(downlink)
        /\ pending' = pending /\ sequence' = sequence /\ published' = published
        /\ drops' = drops /\ outbox' = outbox /\ sent' = sent
        /\ disturbed' = disturbed
    BY DEF OnCommand, modelVars
  <1>3. /\ downlink \in Seq(Nat) /\ awaiting \in Seq(Entries)
        /\ outbox \in Seq(Entries) /\ sent \in 0..Len(outbox)
        /\ disturbed \in BOOLEAN
    BY <1>1 DEF BenchTypes
  <1>4. downlink' \in Seq(Nat)
    BY <1>2, <1>3, HeadTailProperties
  <1>5. ReportAddsUp'
    BY <1>1, <1>2 DEF ReportAddsUp
  <1>6. CASE awaiting # <<>>
    <2>1. /\ awaiting' = Tail(awaiting)
          /\ mispaired' = (mispaired \/ Head(awaiting).id # Head(downlink))
      BY <1>6 DEF OnCommand
    <2>2. /\ awaiting' \in Seq(Entries)
          /\ Rise(awaiting) => Rise(awaiting')
          /\ Before(awaiting, pending) => Before(awaiting', pending)
          /\ Numbered(awaiting, sequence) => Numbered(awaiting', sequence)
      BY <1>3, <1>6, <2>1, TailInOrder
    <2>3. BenchTypes'
      BY <1>1, <1>2, <1>4, <2>2 DEF BenchTypes
    <2>4. BenchOrder'
      BY <1>1, <1>2, <2>2 DEF BenchOrder
    <2>5. Paired'
      <3>1. CASE disturbed
        BY <1>2, <3>1 DEF Paired
      <3>2. CASE ~disturbed
        <4> DEFINE t == Ids(Toggles(Unsent))
                   N == Nat
        <4>1. Toggles(Unsent) \in Seq(Entries)
          BY <1>3, UnsentToggles
        <4>2. t \in Seq(N) /\ downlink \in Seq(N)
          BY <1>3, <4>1, IdsOf
        <4>3. ~mispaired /\ Ids(awaiting) = downlink \o t
          BY <1>1, <3>2 DEF Paired
        <4> HIDE DEF t, N
        <4>4. /\ Head(downlink \o t) = Head(downlink)
              /\ Tail(downlink \o t) = Tail(downlink) \o t
          BY <1>2, <4>2, HeadAndTailOfBoth
        <4>5. /\ Ids(Tail(awaiting)) = Tail(Ids(awaiting))
              /\ Head(Ids(awaiting)) = Head(awaiting).id
          BY <1>3, <1>6, IdsOfTail
        <4>6. Head(awaiting).id = Head(downlink)
          BY <4>3, <4>4, <4>5
        <4>7. ~mispaired'
          BY <2>1, <4>3, <4>6
        <4>8. Ids(awaiting') = downlink' \o t
          BY <1>2, <2>1, <4>3, <4>4, <4>5
        <4>9. Unsent' = Unsent
          BY <1>2 DEF Unsent
        <4>10. Ids(awaiting)' = Ids(awaiting')
          BY DEF Ids
        <4> QED
          BY <4>7, <4>8, <4>9, <4>10 DEF Paired, t
      <3> QED
        BY <3>1, <3>2
    <2> QED
      BY <1>5, <2>3, <2>4, <2>5 DEF BenchInv
  <1>7. CASE awaiting = <<>>
    <2>1. awaiting' = awaiting /\ mispaired' = mispaired
      BY <1>7 DEF OnCommand
    <2>2. BenchTypes' /\ BenchOrder'
      BY <1>1, <1>2, <1>4, <2>1 DEF BenchTypes, BenchOrder
    <2>3. disturbed
      <3>1. SUFFICES ASSUME ~disturbed PROVE FALSE
        OBVIOUS
      <3> DEFINE t == Ids(Toggles(Unsent))
                 N == Nat
      <3>2. t \in Seq(N) /\ downlink \in Seq(N)
        BY <1>3, UnsentToggles, IdsOf
      <3>3. Ids(awaiting) = downlink \o t
        BY <1>1, <3>1 DEF Paired
      <3> HIDE DEF t, N
      <3>4. downlink \o t # <<>>
        BY <1>2, <3>2, HeadAndTailOfBoth
      <3>5. Len(Ids(awaiting)) = 0 /\ Ids(awaiting) \in Seq(Nat)
        <4>1. Len(awaiting) = 0
          BY <1>7
        <4> QED
          BY <1>3, <4>1, IdsOf
      <3>6. Ids(awaiting) = <<>>
        BY <3>5, EmptySeq
      <3> QED
        BY <3>3, <3>4, <3>6
    <2>4. Paired'
      BY <1>2, <2>3 DEF Paired
    <2> QED
      BY <1>5, <2>2, <2>4 DEF BenchInv
  <1> QED
    BY <1>6, <1>7


(* What a step that loses something, or sends it twice, has to keep.       *)
LEMMA LosingKeeps ==
    ASSUME BenchInv,
           UNCHANGED <<pending, sequence, reportVars, outbox, mispaired>>,
           downlink' \in Seq(Nat), sent' \in 0..Len(outbox'),
           disturbed' \in BOOLEAN,
           disturbed' \/ ( disturbed' = disturbed /\ sent' = sent
                           /\ downlink' = downlink )
    PROVE  BenchInv'
  <1>1. BenchTypes /\ BenchOrder /\ Paired /\ ReportAddsUp
    BY DEF BenchInv
  <1>2. /\ pending' = pending /\ sequence' = sequence /\ published' = published
        /\ drops' = drops /\ outbox' = outbox /\ awaiting' = awaiting
        /\ mispaired' = mispaired
    BY DEF reportVars
  <1>3. BenchTypes' /\ BenchOrder' /\ ReportAddsUp'
    BY <1>1, <1>2 DEF BenchTypes, BenchOrder, ReportAddsUp
  <1>4. Paired'
    <2>1. CASE disturbed'
      BY <2>1 DEF Paired
    <2>2. CASE disturbed' = disturbed /\ sent' = sent /\ downlink' = downlink
      <3>1. Unsent' = Unsent /\ Ids(awaiting)' = Ids(awaiting)
        BY <1>2, <2>2 DEF Unsent, Ids
      <3> QED
        BY <1>1, <1>2, <2>2, <3>1 DEF Paired
    <2> QED
      BY <2>1, <2>2
  <1> QED
    BY <1>3, <1>4 DEF BenchInv

(* When the broker stops, only commands on their way are lost.             *)
LEMMA StopServingKeeps ==
    ASSUME BenchInv, StopServing
    PROVE  BenchInv'
  <1>1. /\ downlink \in Seq(Nat) /\ sent \in 0..Len(outbox)
        /\ disturbed \in BOOLEAN /\ Len(downlink) \in Nat
    BY LenProperties DEF BenchInv, BenchTypes
  <1>2. /\ UNCHANGED <<pending, sequence, reportVars, outbox, mispaired>>
        /\ sent' = sent /\ outbox' = outbox
    BY DEF StopServing, modelVars
  <1>3. PICK n \in 0..Len(downlink) :
           /\ downlink' = SubSeq(downlink, n + 1, Len(downlink))
           /\ disturbed' = (disturbed \/ n > 0)
    BY DEF StopServing
  <1>4. downlink' \in Seq(Nat)
    <2>1. \A i \in (n + 1)..Len(downlink) : downlink[i] \in Nat
      BY <1>1, ElementOfSeq
    <2> QED
      BY <1>1, <1>3, <2>1, SubSeqProperties
  <1>5. disturbed' \/ (disturbed' = disturbed /\ sent' = sent /\ downlink' = downlink)
    <2>1. CASE n > 0
      BY <1>3, <2>1
    <2>2. CASE ~(n > 0)
      <3>1. n = 0
        BY <1>1, <2>2
      <3>2. downlink' = SubSeq(downlink, 1, Len(downlink))
        BY <1>3, <3>1
      <3>3. downlink' = downlink
        BY <1>1, <3>2, SubSeqFull
      <3>4. disturbed' = disturbed
        BY <1>1, <1>3, <2>2
      <3> QED
        BY <1>2, <3>3, <3>4
    <2> QED
      BY <2>1, <2>2
  <1>6. disturbed' \in BOOLEAN
    BY <1>3
  <1>7. sent' \in 0..Len(outbox')
    BY <1>1, <1>2
  <1> QED
    BY <1>2, <1>4, <1>5, <1>6, <1>7, LosingKeeps

(* On a new connection what was sent before is sent again.                 *)
LEMMA ConnectsKeeps ==
    ASSUME BenchInv, Connects
    PROVE  BenchInv'
  <1>1. /\ downlink \in Seq(Nat) /\ sent \in 0..Len(outbox)
        /\ disturbed \in BOOLEAN /\ Len(outbox) \in Nat
    BY LenProperties DEF BenchInv, BenchTypes
  <1>2. /\ UNCHANGED <<pending, sequence, reportVars, outbox, mispaired>>
        /\ sent' = 0 /\ outbox' = outbox /\ downlink' = downlink
        /\ disturbed' = (disturbed \/ sent > 0)
    BY DEF Connects, modelVars
  <1>3. sent' \in 0..Len(outbox') /\ downlink' \in Seq(Nat)
    BY <1>1, <1>2
  <1>4. disturbed' \in BOOLEAN
    BY <1>2
  <1>5. disturbed' \/ (disturbed' = disturbed /\ sent' = sent /\ downlink' = downlink)
    <2>1. CASE sent > 0
      BY <1>2, <2>1
    <2>2. CASE ~(sent > 0)
      <3>1. sent' = sent
        BY <1>1, <1>2, <2>2
      <3>2. disturbed' = disturbed
        BY <1>1, <1>2, <2>2
      <3> QED
        BY <1>2, <3>1, <3>2
    <2> QED
      BY <2>1, <2>2
  <1> QED
    BY <1>2, <1>3, <1>4, <1>5, LosingKeeps

(* A command the broker cannot deliver is a loss.                          *)
LEMMA CommandLostKeeps ==
    ASSUME BenchInv, CommandLost
    PROVE  BenchInv'
  <1>1. downlink \in Seq(Nat) /\ sent \in 0..Len(outbox)
    BY DEF BenchInv, BenchTypes
  <1>2. /\ UNCHANGED <<pending, sequence, reportVars, outbox, mispaired>>
        /\ sent' = sent /\ outbox' = outbox /\ disturbed' = TRUE
        /\ downlink # <<>> /\ downlink' = Tail(downlink)
    BY DEF CommandLost, modelVars
  <1>3. sent' \in 0..Len(outbox') /\ downlink' \in Seq(Nat)
    BY <1>1, <1>2, HeadTailProperties
  <1>4. disturbed' \in BOOLEAN /\ disturbed'
    BY <1>2
  <1> QED
    BY <1>2, <1>3, <1>4, LosingKeeps

(* A list with one entry put before it.                                    *)
LEMMA OneBefore ==
    ASSUME NEW S, NEW e \in S, NEW v \in Seq(S)
    PROVE  /\ <<e>> \o v \in Seq(S) /\ Len(<<e>> \o v) = 1 + Len(v)
           /\ \A i \in 1..(1 + Len(v)) :
                 (<<e>> \o v)[i] = IF i <= 1 THEN e ELSE v[i - 1]
  <1> DEFINE one == <<e>>
             both == one \o v
  <1>1. one \in Seq(S) /\ Len(one) = 1 /\ one[1] = e /\ Len(v) \in Nat
    BY LenProperties
  <1> HIDE DEF one
  <1>2. /\ both \in Seq(S) /\ Len(both) = Len(one) + Len(v)
        /\ \A i \in 1..(Len(one) + Len(v)) :
              both[i] = IF i <= Len(one) THEN one[i] ELSE v[i - Len(one)]
    BY <1>1, ConcatProperties
  <1> HIDE DEF both
  <1>3. \A i \in 1..(1 + Len(v)) : both[i] = IF i <= 1 THEN e ELSE v[i - 1]
    <2>1. TAKE i \in 1..(1 + Len(v))
    <2>2. i \in 1..(Len(one) + Len(v))
      BY <1>1
    <2>3. CASE i <= 1
      <3>1. i = 1 /\ i <= Len(one)
        BY <1>1, <2>3
      <3> QED
        BY <1>1, <1>2, <2>2, <2>3, <3>1
    <2>4. CASE ~(i <= 1)
      BY <1>1, <1>2, <2>2, <2>4
    <2> QED
      BY <2>3, <2>4
  <1> QED
    BY <1>1, <1>2, <1>3 DEF both, one

(* What the broker forwards next, and what it has yet to forward then.     *)
LEMMA NextToForward ==
    ASSUME outbox \in Seq(Entries), sent \in 0..Len(outbox), sent < Len(outbox),
           sent' = sent + 1, outbox' = outbox
    PROVE  LET e == outbox[sent + 1] IN
           /\ e \in Entries /\ e.id \in Nat
           /\ Unsent' \in Seq(Entries) /\ Toggles(Unsent') \in Seq(Entries)
           /\ Toggles(Unsent) = Toggles(<<e>>) \o Toggles(Unsent')
           /\ Toggles(<<e>>) = IF e.type = "toggle_changed" THEN <<e>> ELSE <<>>
  <1> DEFINE e == outbox[sent + 1]
             u == SubSeq(outbox, sent + 1, Len(outbox))
             v == SubSeq(outbox, sent + 2, Len(outbox))
             both == <<e>> \o v
  <1>1. /\ Len(outbox) \in Nat /\ sent \in Nat /\ e \in Entries /\ e.id \in Nat
    <2>1. Len(outbox) \in Nat /\ sent \in Nat /\ sent + 1 \in 1..Len(outbox)
      BY LenProperties
    <2>2. e \in Entries
      BY <2>1, ElementOfSeq
    <2> QED
      BY <2>1, <2>2 DEF Entries
  <1>2. /\ u \in Seq(Entries) /\ Len(u) = Len(outbox) - sent
        /\ \A i \in 1..(Len(outbox) - sent) : u[i] = outbox[sent + i]
    <2>1. \A i \in (sent + 1)..Len(outbox) : outbox[i] \in Entries
      BY <1>1, ElementOfSeq
    <2> QED
      BY <1>1, <2>1, SubSeqProperties
  <1>3. /\ v \in Seq(Entries) /\ Len(v) = Len(outbox) - sent - 1
        /\ \A i \in 1..(Len(outbox) - sent - 1) : v[i] = outbox[sent + 1 + i]
    <2>1. \A i \in (sent + 2)..Len(outbox) : outbox[i] \in Entries
      BY <1>1, ElementOfSeq
    <2> QED
      BY <1>1, <2>1, SubSeqProperties
  <1>4. Unsent = u /\ Unsent' = v
    <2>1. sent' + 1 = sent + 2
      BY <1>1
    <2> QED
      BY <2>1 DEF Unsent
  <1> HIDE DEF u, v
  <1>5. <<e>> \in Seq(Entries) /\ Len(<<e>>) = 1 /\ <<e>>[1] = e
    BY <1>1
  <1>6. /\ both \in Seq(Entries) /\ Len(both) = 1 + Len(v)
        /\ \A i \in 1..(1 + Len(v)) : both[i] = IF i <= 1 THEN e ELSE v[i - 1]
    BY <1>1, <1>3, OneBefore
  <1> HIDE DEF both, e
  <1>7. Len(u) = Len(both)
    BY <1>1, <1>2, <1>3, <1>6
  <1>8. ASSUME NEW i \in 1..Len(u)
        PROVE  u[i] = both[i]
    <2>1. CASE i = 1
      <3>1. both[i] = e
        BY <1>1, <1>3, <1>6, <2>1
      <3>2. u[i] = outbox[sent + 1]
        BY <1>1, <1>2, <2>1
      <3> QED
        BY <3>1, <3>2 DEF e
    <2>2. CASE i # 1
      <3>1. i - 1 \in 1..(Len(outbox) - sent - 1) /\ i \in 1..(1 + Len(v)) /\ ~(i <= 1)
        BY <1>1, <1>2, <1>3, <2>2
      <3>2. both[i] = v[i - 1]
        BY <1>6, <3>1
      <3>3. v[i - 1] = outbox[sent + 1 + (i - 1)]
        BY <1>3, <3>1
      <3>4. sent + 1 + (i - 1) = sent + i
        BY <1>1, <3>1
      <3>5. u[i] = outbox[sent + i]
        BY <1>2
      <3> QED
        BY <3>2, <3>3, <3>4, <3>5
    <2> QED
      BY <2>1, <2>2
  <1>9. u = both
    BY <1>2, <1>6, <1>7, <1>8, SeqEqual
  <1>10. Toggles(both) = Toggles(<<e>>) \o Toggles(v)
    BY <1>3, <1>5, TogglesOfBoth DEF both
  <1>11. Toggles(<<e>>) = IF e.type = "toggle_changed" THEN <<e>> ELSE <<>>
    <2>1. <<>> \in Seq(Entries) /\ Append(<<>>, e) = <<e>>
      OBVIOUS
    <2>2. Toggles(Append(<<>>, e)) = IF e.type = "toggle_changed"
                                     THEN Append(Toggles(<<>>), e)
                                     ELSE Toggles(<<>>)
      BY <1>1, <2>1, TogglesStep DEF e
    <2> QED
      BY <2>1, <2>2, NoToggles
  <1>12. Toggles(v) \in Seq(Entries)
    BY <1>3, TogglesWithin
  <1> QED
    BY <1>1, <1>3, <1>4, <1>9, <1>10, <1>11, <1>12 DEF e


(* The middleware answers the toggle that the broker forwards.             *)
LEMMA BrokerForwardsKeeps ==
    ASSUME BenchInv, BrokerForwards
    PROVE  BenchInv'
  <1> DEFINE e == outbox[sent + 1]
  <1>1. BenchTypes /\ BenchOrder /\ Paired /\ ReportAddsUp
    BY DEF BenchInv
  <1>2. /\ downlink \in Seq(Nat) /\ sent \in 0..Len(outbox)
        /\ outbox \in Seq(Entries) /\ awaiting \in Seq(Entries)
        /\ disturbed \in BOOLEAN /\ Len(outbox) \in Nat
    BY <1>1, LenProperties DEF BenchTypes
  <1>3. /\ UNCHANGED <<pending, sequence, reportVars, outbox, mispaired>>
        /\ sent' = sent + 1 /\ sent < Len(outbox) /\ outbox' = outbox
        /\ awaiting' = awaiting /\ mispaired' = mispaired
    BY DEF BrokerForwards, modelVars, reportVars
  <1>4. sent' \in 0..Len(outbox')
    BY <1>2, <1>3
  <1>5. /\ e \in Entries /\ e.id \in Nat
        /\ Toggles(Unsent') \in Seq(Entries)
        /\ Toggles(Unsent) = Toggles(<<e>>) \o Toggles(Unsent')
        /\ Toggles(<<e>>) = IF e.type = "toggle_changed" THEN <<e>> ELSE <<>>
    BY <1>2, <1>3, NextToForward
  <1>6. CASE middleware = "away"
    <2>1. disturbed' = TRUE /\ downlink' = downlink
      BY <1>6 DEF BrokerForwards
    <2> QED
      BY <1>2, <1>3, <1>4, <2>1, LosingKeeps
  <1>7. CASE middleware # "away"
    <2>1. /\ disturbed' = disturbed
          /\ downlink' = IF Toggles(<<e>>) # <<>> THEN Append(downlink, e.id)
                         ELSE downlink
      BY <1>7 DEF BrokerForwards
    <2>2. downlink' \in Seq(Nat)
      <3>1. Append(downlink, e.id) \in Seq(Nat)
        BY <1>2, <1>5, AppendProperties
      <3> QED
        BY <1>2, <2>1, <3>1
    <2>3. BenchTypes' /\ BenchOrder' /\ ReportAddsUp'
      BY <1>1, <1>3, <1>4, <2>1, <2>2
         DEF BenchTypes, BenchOrder, ReportAddsUp, modelVars, reportVars
    <2>4. Ids(awaiting)' = Ids(awaiting)
      BY <1>3 DEF Ids
    <2>5. Paired'
      <3>1. CASE disturbed
        BY <2>1, <3>1 DEF Paired
      <3>2. CASE ~disturbed
        <4> DEFINE later == Toggles(Unsent')
                   N == Nat
        <4>1. ~mispaired /\ Ids(awaiting) = downlink \o Ids(Toggles(Unsent))
          BY <1>1, <3>2 DEF Paired
        <4>2. CASE e.type = "toggle_changed"
          <5> DEFINE x == e.id
                     t == Ids(later)
          <5>1. Toggles(<<e>>) = <<e>> /\ Toggles(<<e>>) # <<>>
            <6>1. Toggles(<<e>>) = <<e>>
              BY <1>5, <4>2
            <6>2. <<e>> # <<>>
              OBVIOUS
            <6> QED
              BY <6>1, <6>2
          <5>2. downlink' = Append(downlink, x)
            BY <2>1, <5>1
          <5>3. x \in N /\ downlink \in Seq(N) /\ t \in Seq(N)
            BY <1>2, <1>5, IdsOf
          <5>4. Ids(Toggles(Unsent)) = Ids(<<e>>) \o t
            <6>1. <<e>> \in Seq(Entries)
              BY <1>5
            <6> QED
              BY <1>5, <5>1, <6>1, IdsOfBoth
          <5>5. Ids(<<e>>) = <<x>>
            BY DEF Ids
          <5> HIDE DEF x, t, N
          <5>6. <<x>> \in Seq(N) /\ Append(downlink, x) = downlink \o <<x>>
            BY <5>3, AppendIsConcat
          <5> DEFINE one == <<x>>
          <5> HIDE DEF one
          <5>7. (downlink \o one) \o t = downlink \o (one \o t)
            <6>1. one \in Seq(N)
              BY <5>6 DEF one
            <6> QED
              BY <5>3, <6>1, ConcatAssociative
          <5>8. Ids(awaiting)' = downlink' \o t
            BY <2>4, <4>1, <5>2, <5>4, <5>5, <5>6, <5>7 DEF one
          <5>9. ~mispaired'
            BY <1>3, <4>1
          <5>10. Ids(awaiting)' = downlink' \o Ids(Toggles(Unsent'))
            BY <5>8 DEF t
          <5> QED
            BY <5>9, <5>10 DEF Paired
        <4>3. CASE e.type # "toggle_changed"
          <5>1. Toggles(<<e>>) = <<>>
            BY <1>5, <4>3
          <5>2. downlink' = downlink
            BY <2>1, <5>1
          <5>3. Toggles(Unsent) = later
            <6> HIDE DEF later
            <6>1. later \in Seq(Entries)
              BY <1>5 DEF later
            <6>2. <<>> \o later = later
              BY <6>1, ConcatEmptySeq
            <6> QED
              BY <1>5, <5>1, <6>2 DEF later
          <5> QED
            BY <1>3, <2>4, <4>1, <5>2, <5>3 DEF Paired
        <4> QED
          BY <4>2, <4>3
      <3> QED
        BY <3>1, <3>2
    <2> QED
      BY <2>3, <2>5 DEF BenchInv
  <1> QED
    BY <1>6, <1>7

(* An acknowledged message leaves the client: what it has yet to send stays. *)
LEMMA BrokerAcknowledgesKeeps ==
    ASSUME BenchInv, BrokerAcknowledges
    PROVE  BenchInv'
  <1> DEFINE o == Tail(outbox)
             u == SubSeq(outbox, sent + 1, Len(outbox))
             v == SubSeq(o, sent, Len(o))
  <1>1. BenchTypes /\ BenchOrder /\ Paired /\ ReportAddsUp
    BY DEF BenchInv
  <1>2. /\ outbox \in Seq(Entries) /\ sent \in 0..Len(outbox) /\ sent > 0
        /\ Len(outbox) \in Nat /\ sent \in Nat
    BY <1>1, LenProperties DEF BenchTypes, BrokerAcknowledges
  <1>3. outbox # <<>>
    BY <1>2, EmptySeq
  <1>4. /\ outbox' = o /\ sent' = sent - 1
        /\ pending' = pending /\ sequence' = sequence /\ awaiting' = awaiting
        /\ published' = published /\ drops' = drops /\ downlink' = downlink
        /\ mispaired' = mispaired /\ disturbed' = disturbed
    BY DEF BrokerAcknowledges, modelVars, reportVars
  <1>5. /\ o \in Seq(Entries) /\ Len(o) = Len(outbox) - 1
        /\ \A i \in 1..Len(o) : i + 1 \in 1..Len(outbox) /\ o[i] = outbox[i + 1]
        /\ NotAfter(outbox, pending) => NotAfter(o, pending)
        /\ Numbered(outbox, sequence) => Numbered(o, sequence)
    BY <1>2, <1>3, TailInOrder
  <1> HIDE DEF o
  <1>6. /\ u \in Seq(Entries) /\ Len(u) = Len(outbox) - sent
        /\ \A i \in 1..(Len(outbox) - sent) : u[i] = outbox[sent + i]
    <2>1. \A i \in (sent + 1)..Len(outbox) : outbox[i] \in Entries
      BY <1>2, ElementOfSeq
    <2> QED
      BY <1>2, <2>1, SubSeqProperties
  <1>7. /\ v \in Seq(Entries) /\ Len(v) = Len(outbox) - sent
        /\ \A i \in 1..(Len(outbox) - sent) : v[i] = o[sent + i - 1]
    <2>1. \A i \in sent..Len(o) : o[i] \in Entries
      BY <1>2, <1>5, ElementOfSeq
    <2> QED
      BY <1>2, <1>5, <2>1, SubSeqProperties
  <1>8. u = v
    <2> HIDE DEF u, v
    <2>1. ASSUME NEW i \in 1..Len(u)
          PROVE  u[i] = v[i]
      <3>1. i \in 1..(Len(outbox) - sent) /\ sent + i - 1 \in 1..Len(o)
        BY <1>2, <1>5, <1>6
      <3>2. sent + i - 1 + 1 = sent + i
        BY <1>2
      <3> QED
        BY <1>5, <1>6, <1>7, <3>1, <3>2
    <2> QED
      BY <1>6, <1>7, <2>1, SeqEqual
  <1>9. Unsent' = Unsent
    <2>1. sent' + 1 = sent
      BY <1>2, <1>4
    <2> QED
      BY <1>4, <1>8, <2>1 DEF Unsent
  <1>10. BenchTypes'
    <2>1. sent' \in 0..Len(outbox')
      BY <1>2, <1>4, <1>5
    <2> QED
      BY <1>1, <1>4, <1>5, <2>1 DEF BenchTypes
  <1>11. BenchOrder' /\ ReportAddsUp'
    BY <1>1, <1>4, <1>5 DEF BenchOrder, ReportAddsUp
  <1>12. Paired'
    <2>1. Ids(awaiting)' = Ids(awaiting)
      BY <1>4 DEF Ids
    <2> QED
      BY <1>1, <1>4, <1>9, <2>1 DEF Paired
  <1> QED
    BY <1>10, <1>11, <1>12 DEF BenchInv

(* Scenario C starts with nothing on its way.                              *)
LEMMA BenchStarts == BenchInit => BenchInv
  <1> SUFFICES ASSUME BenchInit PROVE BenchInv
    OBVIOUS
  <1>1. /\ pending = <<>> /\ awaiting = <<>> /\ outbox = <<>> /\ downlink = <<>>
        /\ sequence = 1 /\ published = 0 /\ drops = 0 /\ sent = 0
        /\ mispaired = FALSE /\ disturbed = FALSE
    BY DEF BenchInit
  <1>2. BenchTypes /\ ReportAddsUp
    <2>1. /\ <<>> \in Seq(Entries) /\ <<>> \in Seq(Nat) /\ Len(<<>>) = 0
      OBVIOUS
    <2>2. BenchTypes
      <3>1. sent \in 0..Len(outbox)
        BY <1>1, <2>1
      <3>2. disturbed \in BOOLEAN
        BY <1>1
      <3> QED
        BY <1>1, <2>1, <3>1, <3>2 DEF BenchTypes
    <2> QED
      BY <1>1, <2>1, <2>2 DEF ReportAddsUp
  <1>3. BenchOrder
    BY <1>1 DEF BenchOrder, Rise, Before, NotAfter, Numbered
  <1>4. Paired
    <2>1. Unsent = <<>>
      BY <1>1, SubSeqEmpty DEF Unsent
    <2>2. Ids(<<>>) = <<>>
      <3>1. <<>> \in Seq(Entries) /\ Len(<<>>) = 0
        OBVIOUS
      <3>2. Len(Ids(<<>>)) = 0 /\ Ids(<<>>) \in Seq(Nat)
        BY <3>1, IdsOf
      <3> QED
        BY <3>2, EmptySeq
    <2>3. downlink \o Ids(Toggles(Unsent)) = <<>> \o <<>>
      BY <1>1, <2>1, <2>2, NoToggles
    <2>4. <<>> \o <<>> = <<>>
      OBVIOUS
    <2> QED
      BY <1>1, <2>2, <2>3, <2>4 DEF Paired
  <1> QED
    BY <1>2, <1>3, <1>4 DEF BenchInv

(* Every step of scenario C keeps it.                                      *)
LEMMA BenchStep == BenchInv /\ [BenchNext]_benchVars => BenchInv'
  <1> SUFFICES ASSUME BenchInv, [BenchNext]_benchVars PROVE BenchInv'
    OBVIOUS
  <1>1. ASSUME UNCHANGED <<pending, sequence, reportVars, wireVars, mispaired,
                         disturbed>>
        PROVE  BenchInv'
    <2>1. /\ downlink \in Seq(Nat) /\ sent \in 0..Len(outbox)
          /\ disturbed \in BOOLEAN
      BY DEF BenchInv, BenchTypes
    <2>2. /\ UNCHANGED <<pending, sequence, reportVars, outbox, mispaired>>
          /\ outbox' = outbox /\ sent' = sent /\ downlink' = downlink
          /\ disturbed' = disturbed
      BY <1>1 DEF wireVars
    <2>3. downlink' \in Seq(Nat) /\ sent' \in 0..Len(outbox')
      BY <2>1, <2>2
    <2>4. disturbed' \in BOOLEAN
      BY <2>1, <2>2
    <2> QED
      BY <2>2, <2>3, <2>4, LosingKeeps
  <1>2. CASE UNCHANGED benchVars
    BY <1>1, <1>2 DEF benchVars, modelVars
  <1>3. CASE EmitRound \/ Nudge
    BY <1>3, EmitKeeps DEF EmitRound, Nudge
  <1>4. CASE StopServing
    BY <1>4, StopServingKeeps
  <1>5. CASE \/ ResumeServing \/ Recovered \/ GivesUp \/ NoticesLoss
             \/ MiddlewareConnects
    BY <1>1, <1>5 DEF ResumeServing, Recovered, GivesUp, NoticesLoss,
                      MiddlewareConnects, modelVars
  <1>6. CASE OnDisconnect
    BY <1>1, <1>6 DEF OnDisconnect
  <1>7. CASE Connects
    BY <1>7, ConnectsKeeps
  <1>8. CASE OnConnect
    BY <1>8, OnConnectKeeps
  <1>9. CASE OnCommand
    BY <1>9, OnCommandKeeps
  <1>10. CASE CommandLost
    BY <1>10, CommandLostKeeps
  <1>11. CASE BrokerForwards
    BY <1>11, BrokerForwardsKeeps
  <1>12. CASE BrokerAcknowledges
    BY <1>12, BrokerAcknowledgesKeeps
  <1> QED
    BY <1>2, <1>3, <1>4, <1>5, <1>6, <1>7, <1>8, <1>9, <1>10, <1>11, <1>12
       DEF BenchNext


(* Of two neighbours the first has the lower id.                           *)
LEMMA RiseAscends ==
    ASSUME NEW s \in Seq(Entries), Rise(s)
    PROVE  Ascends(Ids(s))
  <1>1. /\ Len(Ids(s)) = Len(s) /\ Len(s) \in Nat
        /\ \A i \in 1..Len(s) : Ids(s)[i] = s[i].id
    BY IdsOf
  <1>2. SUFFICES ASSUME NEW i \in 2..Len(Ids(s))
                 PROVE  Ids(s)[i - 1] < Ids(s)[i]
    BY DEF Ascends
  <1>3. i \in 1..Len(s) /\ i - 1 \in 1..Len(s) /\ i - 1 < i
    BY <1>1
  <1>4. s[i - 1].id < s[i].id
    BY <1>3 DEF Rise
  <1> QED
    BY <1>1, <1>3, <1>4

LEMMA BenchInvariant == BenchSpec => []BenchInv
  <1> QED
    BY BenchStarts, BenchStep, PTL DEF BenchSpec

(* The numbers scenario C prints add up in every run: each event that was  *)
(* emitted is published, still buffered or dropped, and is counted once,   *)
(* also when publish() refuses it and it stays in the buffer.              *)
THEOREM CountersAddUp == BenchSpec => []ReportAddsUp
  <1>1. BenchInv => ReportAddsUp
    BY DEF BenchInv
  <1> QED
    BY <1>1, BenchInvariant, PTL

(* deliver() and flush() in harness.py and demo.py: for every capacity and *)
(* every outage the station hands over no event before an older one that   *)
(* it still holds.                                                         *)
THEOREM OldestGoesFirst == BenchSpec => []OldestFirst
  <1>1. BenchInv => OldestFirst
    <2>1. SUFFICES ASSUME BenchInv
                   PROVE  OldestFirst
      OBVIOUS
    <2>2. /\ pending \in Seq(Entries) /\ awaiting \in Seq(Entries)
          /\ outbox \in Seq(Entries) /\ Rise(pending) /\ Rise(awaiting)
          /\ NotAfter(outbox, pending)
      BY <2>1 DEF BenchInv, BenchTypes, BenchOrder
    <2>3. DOMAIN outbox = 1..Len(outbox) /\ DOMAIN pending = 1..Len(pending)
      BY <2>2, LenProperties
    <2>4. \A i \in DOMAIN outbox, j \in DOMAIN pending :
              outbox[i].id <= pending[j].id
      BY <2>2, <2>3 DEF NotAfter
    <2>5. Ascends(Ids(pending)) /\ Ascends(Ids(awaiting))
      BY <2>2, RiseAscends
    <2> QED
      BY <2>4, <2>5 DEF OldestFirst
  <1> QED
    BY <1>1, BenchInvariant, PTL

(* The assumption harness.py pairs commands with toggles on: it holds as   *)
(* long as nothing is lost or sent twice, for any number of toggles.       *)
THEOREM PairingIsRight == BenchSpec => []PairsRightUndisturbed
  <1>1. BenchInv => PairsRightUndisturbed
    BY DEF BenchInv, Paired, PairsRightUndisturbed
  <1> QED
    BY <1>1, BenchInvariant, PTL

=============================================================================
