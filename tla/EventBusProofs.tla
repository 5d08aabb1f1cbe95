---------------------------- MODULE EventBusProofs -----------------------------
(***************************************************************************)
(* Proofs about SseObserver, for every queue size, every number of events  *)
(* and every set of session ids: its types, and that the bounded queue with*)
(* its sentinel implements LossyStream.  Then about EventBus, for every    *)
(* number of threads, observers, types of events and changes of            *)
(* subscriptions: its types, that the stream behind it stays that lossy    *)
(* stream, that a publication reaches every handler that stays, and that no*)
(* count is lost.                                                          *)
(***************************************************************************)
EXTENDS EventBus, FiniteSetTheorems, TLAPS

\* What the observer does without regard to fairness: the bus takes its steps too.
Safety == Init /\ [][Next]_vars

\* Types are an inductive invariant by themselves.
LEMMA InitTypeOK == Init => TypeOK
<1> USE SseObserverAssumption DEF SseObserverAssumption
<1> SUFFICES ASSUME Init PROVE TypeOK
  OBVIOUS
<1>1. queue = <<>> /\ accepted = <<>> /\ received = <<>>
  BY DEF Init
<1>2. \A S : <<>> \in Seq(S)
  OBVIOUS
<1>3. queue \in Seq(Events \cup {Sentinel}) /\ accepted \in Seq(Events) /\ received \in Seq(Events)
  BY <1>1, <1>2, Zenon
<1>4. Len(queue) <= MaxSize
  BY <1>1
<1>5. running \in BOOLEAN /\ getter \in BOOLEAN /\ client \in {"reading", "done", "gone"}
  BY Zenon DEF Init
<1>6. published \in 0..MaxEvents
  BY DEF Init
<1> QED BY <1>3, <1>4, <1>5, <1>6, Zenon DEF TypeOK

LEMMA StepTypeOK == TypeOK /\ [Next]_vars => TypeOK'
<1> USE SseObserverAssumption DEF SseObserverAssumption
<1> SUFFICES ASSUME TypeOK, [Next]_vars PROVE TypeOK'
  OBVIOUS
<1> USE DEF TypeOK
<1>1. ASSUME NEW s \in EventIds, Handle(s) PROVE TypeOK'
  <2> DEFINE e == [n |-> published + 1, sid |-> s]
  <2>1. published + 1 \in 1..MaxEvents /\ published' = published + 1
    BY <1>1 DEF Handle
  <2>2. e \in Events
    BY <2>1 DEF Events
  <2>3. CASE s # ObserverId \/ Full
    BY <1>1, <2>1, <2>3 DEF Handle
  <2>4. CASE ~(s # ObserverId \/ Full)
    <3>1. /\ queue' = Append(queue, e) /\ accepted' = Append(accepted, e)
          /\ UNCHANGED <<running, getter, client, received>>
      BY <1>1, <2>4 DEF Handle
    <3>2. Len(queue) < MaxSize
      BY <2>4 DEF Full
    <3>3. Len(queue') = Len(queue) + 1 /\ queue' \in Seq(Events \cup {Sentinel})
      BY <3>1, <2>2
    <3> QED BY <3>1, <3>2, <3>3, <2>1, <2>2
  <2> QED BY <2>3, <2>4
<1>2. CASE Close
  <2>1. Full \/ Len(queue) < MaxSize
    BY DEF Full
  <2>2. queue' \in Seq(Events \cup {Sentinel}) /\ Len(queue') <= MaxSize
    BY <1>2, <2>1 DEF Close, Full
  <2> QED BY <1>2, <2>2 DEF Close
<1>3. CASE Await
  BY <1>3 DEF Await
<1>4. CASE Got
  <2>1. queue # <<>> /\ Head(queue) \in Events \cup {Sentinel}
    BY <1>4 DEF Got
  <2>2. queue' \in Seq(Events \cup {Sentinel}) /\ Len(queue') <= MaxSize
    BY <1>4, <2>1 DEF Got
  <2>3. received' \in Seq(Events)
    BY <1>4, <2>1 DEF Got
  <2> QED BY <1>4, <2>2, <2>3 DEF Got
<1>5. CASE Disconnect
  BY <1>5 DEF Disconnect
<1>6. CASE UNCHANGED vars
  BY <1>6 DEF vars
<1> QED BY <1>1, <1>2, <1>3, <1>4, <1>5, <1>6 DEF Next

LEMMA TypesAlways == Safety => []TypeOK
<1> QED BY InitTypeOK, StepTypeOK, PTL DEF Safety

\* The types of the observer's state: the queue keeps its bound.
THEOREM ObserverTypeCorrect == Spec => []TypeOK
<1> QED BY TypesAlways, PTL DEF Spec, Safety

--------------------------------------------------------------------------------

\* How many events the queue holds: all of it but the sentinel.
Pending ==
    IF queue # <<>> /\ queue[Len(queue)] = Sentinel THEN Len(queue) - 1 ELSE Len(queue)

\* The sentinel is last and comes after the end of the run.
SentinelIsLast ==
    \A i \in 1..Len(queue) : queue[i] = Sentinel => i = Len(queue) /\ ~running

\* What a reading client has and what the queue holds make up what was accepted.
NothingMissing ==
    client = "reading" =>
        /\ Len(accepted) = Len(received) + Pending
        /\ \A i \in 1..Len(received) : received[i] = accepted[i]
        /\ \A i \in 1..Pending : queue[i] = accepted[Len(received) + i]

IInv == TypeOK /\ SentinelIsLast /\ NothingMissing

\* No event is the sentinel.
LEMMA SentinelIsNoEvent == Sentinel \notin Events
  BY DEF Sentinel, Events

\* Taking the head of a sequence shifts the others down by one.
LEMMA TailShifts ==
    ASSUME NEW S, NEW q \in Seq(S), q # <<>>
    PROVE  /\ Len(Tail(q)) = Len(q) - 1
           /\ \A i \in 1..Len(q) - 1 : Tail(q)[i] = q[i + 1]
           /\ Len(q) >= 1 /\ Head(q) = q[1]
  OBVIOUS

\* Init and every step establish IInv.  Only Handle, Close, Got and Disconnect
\* touch what NothingMissing speaks of.
LEMMA IInvInitial == Init => SentinelIsLast /\ NothingMissing
  BY DEF Init, SentinelIsLast, NothingMissing, Pending

LEMMA HandleKeepsIInv ==
    ASSUME IInv, NEW s \in EventIds, Handle(s), TypeOK'
    PROVE  SentinelIsLast' /\ NothingMissing'
<1> DEFINE e == [n |-> published + 1, sid |-> s]
<1> USE DEF IInv, TypeOK
<1>1. running /\ running' = running /\ client' = client /\ received' = received
  BY DEF Handle
<1>2. \A i \in 1..Len(queue) : queue[i] # Sentinel
  BY <1>1 DEF SentinelIsLast
<1>3. Pending = Len(queue)
  BY <1>2 DEF Pending
<1>4. CASE s # ObserverId \/ Full
  <2>1. UNCHANGED <<queue, accepted>>
    BY <1>4 DEF Handle
  <2> QED BY <2>1, <1>1 DEF SentinelIsLast, NothingMissing, Pending
<1>5. CASE ~(s # ObserverId \/ Full)
  <2>1. queue' = Append(queue, e) /\ accepted' = Append(accepted, e)
    BY <1>5 DEF Handle
  <2>2. e # Sentinel
    <3>1. published + 1 # 0
      OBVIOUS
    <3> QED BY <3>1 DEF Sentinel
  <2>3. Len(queue') = Len(queue) + 1
    BY <2>1
  <2>4. \A i \in 1..Len(queue) : queue'[i] = queue[i]
    BY <2>1
  <2>5. queue'[Len(queue) + 1] = e
    BY <2>1
  <2>6. \A i \in 1..Len(queue') : queue'[i] # Sentinel
    <3> SUFFICES ASSUME NEW i \in 1..Len(queue) + 1 PROVE queue'[i] # Sentinel
      BY <2>3
    <3>1. CASE i \in 1..Len(queue)
      <4>1. queue'[i] = queue[i]
        BY <3>1, <2>4
      <4> QED BY <4>1, <3>1, <1>2
    <3>2. CASE i = Len(queue) + 1
      BY <3>2, <2>2, <2>5
    <3> QED BY <3>1, <3>2
  <2>7. Pending' = Len(queue) + 1
    BY <2>6, <2>3 DEF Pending
  <2>8. Len(accepted') = Len(accepted) + 1
    BY <2>1
  <2>9. \A i \in 1..Len(accepted) : accepted'[i] = accepted[i]
    BY <2>1
  <2>10. accepted'[Len(accepted) + 1] = e
    BY <2>1
  <2>11. ASSUME client = "reading" PROVE NothingMissing'
    <3>1. Len(accepted) = Len(received) + Len(queue)
      BY <2>11, <1>3 DEF NothingMissing
    <3>2. \A i \in 1..Len(received) : received[i] = accepted[i]
      BY <2>11 DEF NothingMissing
    <3>3. \A i \in 1..Len(queue) : queue[i] = accepted[Len(received) + i]
      BY <2>11, <1>3 DEF NothingMissing
    <3>4. \A i \in 1..Len(received) : received'[i] = accepted'[i]
      BY <3>1, <3>2, <2>9, <1>1
    <3>5. \A i \in 1..Pending' : queue'[i] = accepted'[Len(received') + i]
      <4> SUFFICES ASSUME NEW i \in 1..Len(queue) + 1
                   PROVE  queue'[i] = accepted'[Len(received) + i]
        BY <2>7, <1>1
      <4>1. CASE i \in 1..Len(queue)
        <5>1. queue'[i] = queue[i] /\ queue[i] = accepted[Len(received) + i]
          BY <4>1, <3>3, <2>4
        <5>2. Len(received) + i \in 1..Len(accepted)
          BY <4>1, <3>1
        <5>3. accepted'[Len(received) + i] = accepted[Len(received) + i]
          BY <5>2, <2>9
        <5> QED BY <5>1, <5>3
      <4>2. CASE i = Len(queue) + 1
        <5>1. Len(received) + i = Len(accepted) + 1
          BY <4>2, <3>1
        <5> QED BY <5>1, <4>2, <2>5, <2>10
      <4> QED BY <4>1, <4>2
    <3> QED BY <3>1, <3>4, <3>5, <2>7, <2>8, <1>1 DEF NothingMissing
  <2>12. SentinelIsLast'
    BY <2>6 DEF SentinelIsLast
  <2>13. NothingMissing'
    BY <2>11, <1>1 DEF NothingMissing
  <2> QED BY <2>12, <2>13
<1> QED BY <1>4, <1>5

LEMMA CloseKeepsIInv ==
    ASSUME IInv, Close
    PROVE  SentinelIsLast' /\ NothingMissing'
<1> USE DEF IInv, TypeOK
<1>1. running /\ ~running' /\ UNCHANGED <<client, received, accepted>>
  BY DEF Close
<1>2. \A i \in 1..Len(queue) : queue[i] # Sentinel
  BY <1>1 DEF SentinelIsLast
<1>3. Pending = Len(queue)
  BY <1>2 DEF Pending
<1>4. CASE queue' = queue
  BY <1>1, <1>2, <1>4 DEF SentinelIsLast, NothingMissing, Pending
<1>5. CASE queue' = Append(queue, Sentinel)
  <2>1. /\ Len(queue') = Len(queue) + 1
        /\ \A i \in 1..Len(queue) : queue'[i] = queue[i]
        /\ queue'[Len(queue) + 1] = Sentinel
    BY <1>5
  <2>2. SentinelIsLast'
    BY <2>1, <1>1, <1>2 DEF SentinelIsLast
  <2>3. queue' # <<>>
    BY <1>5
  <2>4. Pending' = Len(queue)
    BY <2>1, <2>3, Sentinel' = Sentinel DEF Pending, Sentinel
  <2>5. NothingMissing'
    BY <2>4, <2>1, <1>3, <1>1 DEF NothingMissing
  <2> QED BY <2>2, <2>5
<1> QED BY <1>4, <1>5 DEF Close

LEMMA GotKeepsIInv ==
    ASSUME IInv, Got
    PROVE  SentinelIsLast' /\ NothingMissing'
<1> USE DEF IInv, TypeOK
<1>1. queue # <<>> /\ queue' = Tail(queue) /\ running' = running /\ accepted' = accepted
  BY DEF Got
<1>2. /\ Len(queue') = Len(queue) - 1 /\ Len(queue) >= 1 /\ Head(queue) = queue[1]
      /\ \A i \in 1..Len(queue') : queue'[i] = queue[i + 1]
  BY <1>1, TailShifts
<1>3. SentinelIsLast'
  <2> SUFFICES ASSUME NEW i \in 1..Len(queue'), queue'[i] = Sentinel
               PROVE  i = Len(queue') /\ ~running
    BY <1>1 DEF SentinelIsLast, Sentinel
  <2>1. i + 1 \in 1..Len(queue) /\ queue[i + 1] = Sentinel
    BY <1>2
  <2> QED BY <2>1, <1>2 DEF SentinelIsLast
<1>4. ASSUME client' = "reading" PROVE NothingMissing'
  <2>1. client = "reading" /\ Head(queue) # Sentinel /\ received' = Append(received, Head(queue))
    BY <1>4 DEF Got
  <2>2. Pending >= 1 /\ Pending' = Pending - 1
    <3>1. CASE Len(queue) = 1
      <4>1. queue[Len(queue)] # Sentinel
        BY <3>1, <2>1, <1>2
      <4>2. queue' = <<>>
        BY <3>1, <1>1
      <4> QED BY <4>1, <4>2, <3>1 DEF Pending
    <3>2. CASE Len(queue) > 1
      <4>1. queue' # <<>> /\ queue'[Len(queue')] = queue[Len(queue)]
        BY <3>2, <1>2
      <4> QED BY <4>1, <3>2, <1>1, <1>2 DEF Pending, Sentinel
    <3> QED BY <3>1, <3>2, <1>2
  <2>3. /\ Len(accepted) = Len(received) + Pending
        /\ \A i \in 1..Len(received) : received[i] = accepted[i]
        /\ \A i \in 1..Pending : queue[i] = accepted[Len(received) + i]
    BY <2>1 DEF NothingMissing
  <2>4. Pending \in Nat /\ Pending <= Len(queue)
    BY <2>2, <1>2 DEF Pending
  <2>5. queue[1] = accepted[Len(received) + 1]
    BY <2>2, <2>3, <2>4
  <2>6. /\ Len(received') = Len(received) + 1
        /\ \A i \in 1..Len(received) : received'[i] = received[i]
        /\ received'[Len(received) + 1] = queue[1]
    BY <2>1, <1>2
  <2>7. Len(accepted') = Len(received') + Pending'
    <3>1. Len(accepted) = Len(received) + Pending /\ Len(received') = Len(received) + 1
      BY <2>3, <2>6
    <3>2. Len(accepted') = Len(accepted) /\ Len(received) \in Nat
      BY <1>1
    <3> QED BY <3>1, <3>2, <2>2, <2>4
  <2>8. \A i \in 1..Len(received') : received'[i] = accepted'[i]
    BY <2>3, <2>5, <2>6, <1>1
  <2>9. \A i \in 1..Pending' : queue'[i] = accepted'[Len(received') + i]
    <3> SUFFICES ASSUME NEW i \in 1..Pending'
                 PROVE  queue'[i] = accepted[Len(received) + 1 + i]
      BY <2>6, <1>1
    <3>1. i + 1 \in 1..Pending /\ i \in 1..Len(queue')
      BY <2>2, <2>4, <1>2
    <3>2. queue'[i] = queue[i + 1]
      BY <3>1, <1>2
    <3>3. queue[i + 1] = accepted[Len(received) + (i + 1)]
      BY <3>1, <2>3
    <3> QED BY <3>2, <3>3
  <2> QED BY <2>7, <2>8, <2>9 DEF NothingMissing
<1> QED BY <1>3, <1>4 DEF NothingMissing

LEMMA IInvStep == IInv /\ TypeOK' /\ [Next]_vars => IInv'
<1> SUFFICES ASSUME IInv, TypeOK', [Next]_vars
             PROVE  SentinelIsLast' /\ NothingMissing'
  BY DEF IInv
<1>1. ASSUME NEW s \in EventIds, Handle(s) PROVE SentinelIsLast' /\ NothingMissing'
  BY <1>1, HandleKeepsIInv
<1>2. CASE Close
  BY <1>2, CloseKeepsIInv
<1>3. CASE Await \/ UNCHANGED vars
  <2>1. UNCHANGED <<queue, running, client, accepted, received>>
    BY <1>3 DEF Await, vars
  <2> QED BY <2>1 DEF IInv, SentinelIsLast, NothingMissing, Pending, Sentinel
<1>4. CASE Got
  BY <1>4, GotKeepsIInv
<1>5. CASE Disconnect
  BY <1>5 DEF Disconnect, IInv, SentinelIsLast, NothingMissing, Pending
<1> QED BY <1>1, <1>2, <1>3, <1>4, <1>5 DEF Next

LEMMA IInvAlways == Safety => []IInv
<1>1. Init /\ TypeOK => IInv
  BY IInvInitial DEF IInv
<1>2. IInv /\ TypeOK' /\ [Next]_vars => IInv'
  BY IInvStep
<1>3. Safety => []TypeOK
  BY TypesAlways
<1> QED BY <1>1, <1>2, <1>3, PTL DEF Safety

--------------------------------------------------------------------------------

\* Each step of the observer is a step of the stream, or leaves it as it is.
LEMMA StepRefines ==
    ASSUME IInv, TypeOK', [Next]_vars
    PROVE  [Contract!Next]_(Contract!vars)
<1> USE DEF IInv, TypeOK
<1>1. ASSUME NEW s \in EventIds, Handle(s) PROVE [Contract!Next]_(Contract!vars)
  <2> DEFINE e == [n |-> published + 1, sid |-> s]
  <2>1. running /\ running' = running /\ UNCHANGED <<client, received>>
    BY <1>1 DEF Handle
  <2>2. CASE s # ObserverId \/ Full
    <3>1. UNCHANGED accepted
      BY <1>1, <2>2 DEF Handle
    <3> QED BY <3>1, <2>1 DEF Contract!vars
  <2>3. CASE ~(s # ObserverId \/ Full)
    <3>1. accepted' = Append(accepted, e) /\ s = ObserverId
      BY <1>1, <2>3 DEF Handle
    <3>2. published + 1 \in 1..MaxEvents
      BY <1>1, SseObserverAssumption DEF Handle, SseObserverAssumption
    <3>3. e \in OwnEvents
      BY <3>1, <3>2 DEF Events, OwnEvents
    <3>4. Contract!Accept(e)
      BY <3>1, <2>1 DEF Contract!Accept
    <3> QED BY <3>3, <3>4 DEF Contract!Next
  <2> QED BY <2>2, <2>3
<1>2. CASE Close
  <2>1. Contract!Seal
    BY <1>2 DEF Close, Contract!Seal
  <2> QED BY <2>1 DEF Contract!Next
<1>3. CASE Await \/ UNCHANGED vars
  BY <1>3 DEF Await, vars, Contract!vars
<1>4. CASE Got
  <2>1. /\ queue # <<>> /\ running' = running /\ accepted' = accepted
        /\ Len(queue) >= 1 /\ Head(queue) = queue[1]
    BY <1>4, TailShifts DEF Got
  <2>2. CASE client # "reading"
    BY <1>4, <2>1, <2>2 DEF Got, Contract!vars
  <2>3. CASE client = "reading" /\ Head(queue) = Sentinel
    <3>1. client' = "done" /\ received' = received
      BY <1>4, <2>3 DEF Got
    <3>2. Len(queue) = 1 /\ ~running
      <4>1. 1 \in 1..Len(queue) /\ queue[1] = Sentinel
        BY <2>1, <2>3
      <4> QED BY <4>1 DEF SentinelIsLast
    <3>3. Pending = 0
      BY <2>1, <2>3, <3>2 DEF Pending
    <3>4. /\ Len(accepted) = Len(received)
          /\ \A i \in 1..Len(received) : received[i] = accepted[i]
      BY <3>3, <2>3 DEF NothingMissing
    <3>5. received = accepted
      BY <3>4
    <3>6. Contract!End
      BY <3>1, <3>2, <3>5, <2>1, <2>3 DEF Contract!End
    <3> QED BY <3>6 DEF Contract!Next
  <2>4. CASE client = "reading" /\ Head(queue) # Sentinel
    <3>1. client' = client /\ received' = Append(received, Head(queue))
      BY <1>4, <2>4 DEF Got
    <3>2. Pending \in Nat /\ Pending >= 1
      <4>1. CASE Len(queue) = 1
        BY <4>1, <2>1, <2>4 DEF Pending
      <4>2. CASE Len(queue) > 1
        BY <4>2 DEF Pending
      <4>3. Len(queue) = 1 \/ Len(queue) > 1
        <5>1. Len(queue) \in Nat /\ Len(queue) >= 1
          BY <2>1
        <5>2. \A n \in Nat : n >= 1 => n = 1 \/ n > 1
          OBVIOUS
        <5> QED BY <5>1, <5>2, Zenon
      <4> QED BY <4>1, <4>2, <4>3, Zenon
    <3>3. /\ Len(accepted) = Len(received) + Pending
          /\ queue[1] = accepted[Len(received) + 1]
      BY <3>2, <2>4 DEF NothingMissing
    <3>4. Len(received) < Len(accepted)
      BY <3>2, <3>3
    <3>5. Contract!Receive
      BY <3>1, <3>3, <3>4, <2>1, <2>4 DEF Contract!Receive
    <3> QED BY <3>5 DEF Contract!Next
  <2> QED BY <2>2, <2>3, <2>4
<1>5. CASE Disconnect
  <2>1. Contract!Leave
    BY <1>5 DEF Disconnect, Contract!Leave
  <2> QED BY <2>1 DEF Contract!Next
<1> QED BY <1>1, <1>2, <1>3, <1>4, <1>5 DEF Next

LEMMA SafetyImplementsStream == Safety => ImplementsStream
<1>1. Init => Contract!Init
  BY DEF Init, Contract!Init
<1>2. IInv /\ TypeOK' /\ [Next]_vars => [Contract!Next]_(Contract!vars)
  BY StepRefines
<1>3. Safety => []IInv /\ []TypeOK
  BY IInvAlways, TypesAlways
<1> QED BY <1>1, <1>2, <1>3, PTL DEF Safety, ImplementsStream, Contract!Spec

\* The observer implements the stream a client may rely on, whatever the size of
\* its queue and however publishing, reading, closing and disconnecting mix.
THEOREM ObserverImplementsStream == Spec => ImplementsStream
<1> QED BY SafetyImplementsStream, PTL DEF Spec, Safety

--------------------------------------------------------------------------------

LEMMA Bounds ==
    ObserverId \in EventIds /\ HookWorkers \in Nat \ {0} /\ MaxChanges \in Nat
BY EventBusAssumption DEF EventBusAssumption

--------------------------------------------------------------------------------

\* A thread in a handler is publishing.
Engaged == \A t \in Publishers : publication[t].in # Nobody => Publishing(t)

LEMMA IdleTyped == Idle \in Publications
BY Bounds DEF Idle, Publications, Nobody

LEMMA InitTyped ==
    ASSUME BusInit, TypeOK PROVE BusTypeOK
<1>1. subscribers \in [Types -> Seq(Observers)]
  BY EventBusAssumption DEF BusInit, EventBusAssumption
<1>2. publication \in [Publishers -> Publications]
  BY IdleTyped DEF BusInit
<1>3. counts \in [Types -> Nat] /\ begun \in [Types -> Nat]
  BY DEF BusInit
<1>4. hooks \in [queue : Nat, sending : 0..HookWorkers] /\ changes \in 0..MaxChanges
  BY Bounds DEF BusInit
<1>5. counter \in Publishers \cup {Nobody} /\ disturbed \in BOOLEAN
  BY Zenon DEF BusInit
<1> QED BY <1>1, <1>2, <1>3, <1>4, <1>5 DEF BusTypeOK

LEMMA Fields ==
    ASSUME NEW p \in Publications
    PROVE  /\ p.type \in Types \cup {""} /\ p.sid \in EventIds /\ p.next \in Nat
           /\ p.seen \in Nat /\ p.called \in Seq(Observers) /\ p.stay \subseteq Observers
BY DEF Publications

\* A step of a thread changes its own publication.
LEMMA OwnPublication ==
    ASSUME BusTypeOK, NEW t \in Publishers, NEW p \in Publications,
           publication' = [publication EXCEPT ![t] = p]
    PROVE  publication' \in [Publishers -> Publications]
BY DEF BusTypeOK

LEMMA ReturnTyped ==
    ASSUME BusTypeOK, NEW t \in Publishers, Return(t)
    PROVE  publication' \in [Publishers -> Publications]
<1>1. [publication[t] EXCEPT !.in = Nobody] \in Publications
  BY DEF BusTypeOK, Publications
<1>2. publication' = [publication EXCEPT ![t] = [publication[t] EXCEPT !.in = Nobody]]
  BY DEF Return
<1> QED BY <1>1, <1>2, OwnPublication

LEMMA TypeOfEvent ==
    ASSUME BusTypeOK, NEW t \in Publishers, Publishing(t)
    PROVE  publication[t].type \in Types
BY DEF BusTypeOK, Publications, Publishing

\* What the steps of a thread do to the state of the bus.
LEMMA ThreadTyped ==
    ASSUME BusTypeOK, Engaged, TypeOK', NEW t \in Publishers,
           \/ \E type \in Types, sid \in EventIds : Publish(t, type, sid)
           \/ Call(t) \/ EndPublish(t) \/ Handling(t)
    PROVE  BusTypeOK'
<1> USE DEF BusTypeOK
<1>p. publication[t] \in Publications
  OBVIOUS
<1>f. /\ publication[t].next \in Nat /\ publication[t].seen \in Nat
      /\ publication[t].called \in Seq(Observers)
  BY <1>p, Fields
<1>1. ASSUME NEW type \in Types, NEW sid \in EventIds, Publish(t, type, sid)
      PROVE  BusTypeOK'
  <2> DEFINE p == [Idle EXCEPT !.type = type, !.sid = sid, !.stay = ToSet(subscribers[type])]
  <2>1. ToSet(subscribers[type]) \subseteq Observers
    BY DEF ToSet
  <2>2. p \in Publications
    BY <2>1, IdleTyped DEF Publications
  <2>3. publication' \in [Publishers -> Publications]
    BY <1>1, <2>2, OwnPublication DEF Publish
  <2>4. begun' = [begun EXCEPT ![type] = @ + 1]
    BY <1>1 DEF Publish
  <2>5. begun' \in [Types -> Nat]
    BY <2>4
  <2> QED BY <1>1, <2>3, <2>5 DEF Publish
<1>2. CASE Call(t)
  <2> DEFINE handler == List(t)[publication[t].next + 1]
             p == [publication[t] EXCEPT !.next = @ + 1, !.in = handler,
                                         !.called = Append(@, handler)]
  <2>1. List(t) \in Seq(Observers)
    BY <1>2, TypeOfEvent DEF Call, List
  <2>2. handler \in Observers
    BY <1>2, <1>f, <2>1 DEF Call
  <2>3. publication[t].next + 1 \in Nat /\ Append(publication[t].called, handler) \in Seq(Observers)
    BY <1>f, <2>2
  <2>p. p \in Publications
    BY <1>p, <2>2, <2>3 DEF Publications
  <2>4. publication' = [publication EXCEPT ![t] = p]
    BY <1>2 DEF Call
  <2>5. publication' \in [Publishers -> Publications]
    BY <2>p, <2>4, OwnPublication
  <2> QED BY <1>2, <2>5, Zenon DEF Call
<1>3. CASE EndPublish(t)
  <2>1. publication' \in [Publishers -> Publications]
    BY <1>3, IdleTyped, OwnPublication DEF EndPublish
  <2> QED BY <1>3, <2>1 DEF EndPublish
<1>4. CASE Log(t) \/ Raise(t) \/ Stream(t)
  <2>1. publication' \in [Publishers -> Publications]
    BY <1>4, ReturnTyped DEF Log, Raise, Stream
  <2> QED BY <1>4, <2>1 DEF Log, Raise, Stream, Return
<1>5. CASE Count(t)
  <2> DEFINE p == [publication[t] EXCEPT !.in = "counting",
                                         !.seen = counts[publication[t].type]]
  <2>1. publication[t].type \in Types /\ publication[t] \in Publications
    BY <1>5, TypeOfEvent DEF Count, Engaged, Nobody
  <2>2. counts[publication[t].type] \in Nat
    BY <2>1
  <2>3. p \in Publications
    BY <2>1, <2>2 DEF Publications
  <2>4. publication' = [publication EXCEPT ![t] = p]
    BY <1>5 DEF Count
  <2>5. publication' \in [Publishers -> Publications]
    BY <2>3, <2>4, OwnPublication
  <2> QED BY <1>5, <2>5, Zenon DEF Count
<1>6. CASE Counts(t)
  <2>1. publication' \in [Publishers -> Publications]
    BY <1>6, ReturnTyped DEF Counts
  <2>2. publication[t].seen + 1 \in Nat
    BY <1>f
  <2>3. counts' = [counts EXCEPT ![publication[t].type] = publication[t].seen + 1]
    BY <1>6 DEF Counts
  <2>4. counts' \in [Types -> Nat]
    BY <2>2, <2>3
  <2>5. counter' = Nobody /\ UNCHANGED <<subscribers, hooks, begun, changes, disturbed>>
    BY <1>6 DEF Counts, Return
  <2> QED BY <2>1, <2>4, <2>5
<1>7. CASE Submit(t)
  <2>1. publication' \in [Publishers -> Publications]
    BY <1>7, ReturnTyped DEF Submit
  <2>2. hooks' = [hooks EXCEPT !.queue = @ + 1]
    BY <1>7 DEF Submit
  <2>3. hooks' \in [queue : Nat, sending : 0..HookWorkers]
    <3>1. hooks \in [queue : Nat, sending : 0..HookWorkers]
      OBVIOUS
    <3> HIDE DEF BusTypeOK
    <3> QED BY <2>2, <3>1
  <2>4. UNCHANGED <<subscribers, counts, counter, begun, changes, disturbed>>
    BY <1>7 DEF Submit, Return
  <2> QED BY <2>1, <2>3, <2>4
<1> QED BY <1>1, <1>2, <1>3, <1>4, <1>5, <1>6, <1>7 DEF Handling

LEMMA AppendSet ==
    ASSUME NEW S, NEW s \in Seq(S), NEW e \in S
    PROVE  ToSet(Append(s, e)) = ToSet(s) \cup {e}
<1>1. /\ DOMAIN Append(s, e) = 1..(Len(s) + 1) /\ Len(s) \in Nat /\ DOMAIN s = 1..Len(s)
      /\ \A i \in 1..(Len(s) + 1) : Append(s, e)[i] = IF i = Len(s) + 1 THEN e ELSE s[i]
  OBVIOUS
<1>2. ASSUME NEW x \in ToSet(Append(s, e)) PROVE x \in ToSet(s) \cup {e}
  BY <1>1 DEF ToSet
<1>3. ASSUME NEW x \in ToSet(s) PROVE x \in ToSet(Append(s, e))
  BY <1>1 DEF ToSet
<1>4. e \in ToSet(Append(s, e))
  BY <1>1 DEF ToSet
<1> QED BY <1>2, <1>3, <1>4

LEMMA RemoveAtShifts ==
    ASSUME NEW S, NEW s \in Seq(S), NEW i \in DOMAIN s
    PROVE  /\ RemoveAt(s, i) \in Seq(S) /\ Len(RemoveAt(s, i)) = Len(s) - 1
           /\ \A j \in 1..(Len(s) - 1) : RemoveAt(s, i)[j] = IF j < i THEN s[j] ELSE s[j + 1]
<1>1. i \in 1..Len(s) /\ Len(s) \in Nat
  OBVIOUS
<1> DEFINE a == SubSeq(s, 1, i - 1)
           b == SubSeq(s, i + 1, Len(s))
<1>2. a \in Seq(S) /\ Len(a) = i - 1 /\ \A j \in 1..(i - 1) : a[j] = s[j]
  BY <1>1
<1>3. /\ b \in Seq(S) /\ Len(b) = Len(s) - i
      /\ \A j \in 1..(Len(s) - i) : b[j] = s[i + j]
  BY <1>1
<1> HIDE DEF a, b
<1>4. a \o b \in Seq(S) /\ Len(a \o b) = Len(s) - 1
  BY <1>1, <1>2, <1>3
<1>5. \A j \in 1..(Len(s) - 1) : (a \o b)[j] = IF j < i THEN s[j] ELSE s[j + 1]
  BY <1>1, <1>2, <1>3
<1> QED BY <1>4, <1>5 DEF RemoveAt, a, b

LEMMA RemoveAtKeeps ==
    ASSUME NEW S, NEW s \in Seq(S), IsInjective(s), NEW i \in DOMAIN s
    PROVE  /\ RemoveAt(s, i) \in Seq(S) /\ Len(RemoveAt(s, i)) = Len(s) - 1
           /\ IsInjective(RemoveAt(s, i))
<1>1. i \in 1..Len(s) /\ Len(s) \in Nat
  OBVIOUS
<1> DEFINE c == RemoveAt(s, i)
<1>2. /\ c \in Seq(S) /\ Len(c) = Len(s) - 1
      /\ \A j \in 1..(Len(s) - 1) : c[j] = IF j < i THEN s[j] ELSE s[j + 1]
  BY RemoveAtShifts
<1> HIDE DEF c
<1>d. DOMAIN c = 1..(Len(s) - 1)
  BY <1>2
<1>3. IsInjective(c)
  <2> SUFFICES ASSUME NEW j \in 1..(Len(s) - 1), NEW k \in 1..(Len(s) - 1), c[j] = c[k]
               PROVE  j = k
    BY <1>d DEF IsInjective
  <2> DEFINE at(x) == IF x < i THEN x ELSE x + 1
  <2>1. s[at(j)] = s[at(k)]
    BY <1>2
  <2>2. at(j) \in DOMAIN s /\ at(k) \in DOMAIN s
    BY <1>1
  <2>3. at(j) = at(k)
    <3> HIDE DEF at
    <3> QED BY <2>1, <2>2 DEF IsInjective
  <2> QED BY <1>1, <2>3
<1> QED BY <1>2, <1>3 DEF c

LEMMA AppendKeeps ==
    ASSUME NEW S, NEW s \in Seq(S), IsInjective(s), NEW e \in S, e \notin ToSet(s)
    PROVE  Append(s, e) \in Seq(S) /\ IsInjective(Append(s, e))
<1>1. \A i \in 1..Len(s) : s[i] # e
  BY DEF ToSet
<1>2. /\ Append(s, e) \in Seq(S) /\ Len(Append(s, e)) = Len(s) + 1
      /\ Append(s, e)[Len(s) + 1] = e /\ \A i \in 1..Len(s) : Append(s, e)[i] = s[i]
  OBVIOUS
<1> QED BY <1>1, <1>2 DEF IsInjective

--------------------------------------------------------------------------------

\* What the bus is doing with a publication that no unsubscription disturbed.
Followed(t) ==
    LET p == publication[t] IN
    Publishing(t) /\ ~p.cut =>
        /\ p.next <= Len(List(t)) /\ Len(p.called) = p.next
        /\ \A i \in 1..p.next : p.called[i] = List(t)[i]
        /\ p.stay \subseteq ToSet(List(t))

Distinct == \A type \in Types : IsInjective(subscribers[type])

BusInv ==
    /\ BusTypeOK /\ Engaged /\ Distinct
    /\ \A t \in Publishers : Followed(t)

LEMMA BusInvInitial == BusInit /\ TypeOK => BusInv
<1> SUFFICES ASSUME BusInit, TypeOK PROVE BusInv
  OBVIOUS
<1>1. Distinct
  BY EventBusAssumption DEF BusInit, Distinct, EventBusAssumption
<1>2. \A t \in Publishers : publication[t].type = "" /\ publication[t].in = Nobody
  BY DEF BusInit, Idle
<1>3. Engaged /\ \A t \in Publishers : Followed(t)
  BY <1>2 DEF Engaged, Followed, Publishing
<1> QED BY <1>1, <1>3, InitTyped DEF BusInv

\* A publication of which only the handler changes is followed as before.
LEMMA StaysFollowed ==
    ASSUME NEW t \in Publishers, Followed(t), UNCHANGED subscribers,
           publication'[t].type = publication[t].type,
           publication'[t].next = publication[t].next,
           publication'[t].called = publication[t].called,
           publication'[t].stay = publication[t].stay,
           publication'[t].cut = publication[t].cut
    PROVE  Followed(t)'
BY DEF Followed, Publishing, List

LEMMA OthersFollowed ==
    ASSUME NEW t \in Publishers, \A u \in Publishers : Followed(u), UNCHANGED subscribers,
           \A u \in Publishers \ {t} : publication'[u] = publication[u],
           Followed(t)'
    PROVE  \A u \in Publishers : Followed(u)'
<1> TAKE u \in Publishers
<1>1. CASE u = t
  BY <1>1
<1>2. CASE u # t
  BY <1>2, StaysFollowed
<1> QED BY <1>1, <1>2

LEMMA ThreadKeepsInv ==
    ASSUME BusInv, TypeOK', NEW t \in Publishers,
           \/ \E type \in Types, sid \in EventIds : Publish(t, type, sid)
           \/ Call(t) \/ EndPublish(t) \/ Handling(t)
    PROVE  BusInv'
<1>1. BusTypeOK' /\ UNCHANGED subscribers
  BY ThreadTyped DEF BusInv, Publish, Call, EndPublish, Handling, Log, Raise, Stream,
     Count, Counts, Submit, Return
<1>2. Distinct'
  BY <1>1 DEF BusInv, Distinct
<1>3. /\ publication \in [Publishers -> Publications]
      /\ publication[t].next \in Nat /\ publication[t].called \in Seq(Observers)
  BY Fields DEF BusInv, BusTypeOK
<1>4. \A u \in Publishers \ {t} : publication'[u] = publication[u]
  BY <1>3 DEF Publish, Call, EndPublish, Handling, Log, Raise, Stream,
     Count, Counts, Submit, Return
<1>5. (publication[t].in # Nobody => Publishing(t)) /\ Followed(t)
  BY DEF BusInv, Engaged
<1>6. SUFFICES /\ publication'[t].in # Nobody => Publishing(t)'
               /\ Followed(t)'
  <2>1. Engaged'
    BY <1>4, <1>6 DEF BusInv, Engaged, Publishing
  <2>2. \A u \in Publishers : Followed(u)'
    BY <1>1, <1>4, <1>6, OthersFollowed DEF BusInv
  <2> QED BY <1>1, <1>2, <2>1, <2>2 DEF BusInv
<1>7. ASSUME NEW type \in Types, NEW sid \in EventIds, Publish(t, type, sid)
      PROVE  (publication'[t].in # Nobody => Publishing(t)') /\ Followed(t)'
  <2>1. publication'[t] = [Idle EXCEPT !.type = type, !.sid = sid,
                                       !.stay = ToSet(subscribers[type])]
    BY <1>3, <1>7 DEF Publish
  <2>2. /\ publication'[t].in = Nobody /\ publication'[t].next = 0
        /\ publication'[t].called = <<>> /\ publication'[t].type = type
        /\ publication'[t].stay = ToSet(subscribers[type])
    BY <2>1 DEF Idle
  <2>3. subscribers[type] \in Seq(Observers)
    BY DEF BusInv, BusTypeOK
  <2> QED BY <1>1, <2>2, <2>3 DEF Followed, List
<1>8. CASE Call(t)
  <2> DEFINE handler == List(t)[publication[t].next + 1]
  <2>1. publication'[t] = [publication[t] EXCEPT !.next = @ + 1, !.in = handler,
                                                 !.called = Append(@, handler)]
    BY <1>3, <1>8 DEF Call
  <2>2. /\ publication'[t].next = publication[t].next + 1
        /\ publication'[t].called = Append(publication[t].called, handler)
        /\ publication'[t].type = publication[t].type
        /\ publication'[t].stay = publication[t].stay
        /\ publication'[t].cut = publication[t].cut
    <3>1. publication[t] \in Publications
      BY <1>3
    <3> HIDE DEF handler
    <3> QED BY <2>1, <3>1 DEF Publications
  <2>3. Publishing(t)' /\ List(t)' = List(t) /\ publication[t].next < Len(List(t))
    BY <1>1, <1>8, <2>2 DEF Call, Publishing, List
  <2>4. List(t) \in Seq(Observers)
    BY <1>8, TypeOfEvent DEF Call, List, BusInv, BusTypeOK
  <2>5. ASSUME ~publication[t].cut
        PROVE  /\ publication'[t].next <= Len(List(t))
               /\ Len(publication'[t].called) = publication'[t].next
               /\ \A i \in 1..publication'[t].next : publication'[t].called[i] = List(t)[i]
               /\ publication[t].stay \subseteq ToSet(List(t))
    <3>1. /\ Len(publication[t].called) = publication[t].next
          /\ \A i \in 1..publication[t].next : publication[t].called[i] = List(t)[i]
          /\ publication[t].stay \subseteq ToSet(List(t))
      BY <1>5, <1>8, <2>5 DEF Followed, Call
    <3> HIDE DEF handler
    <3>2. /\ Len(publication'[t].called) = publication[t].next + 1
          /\ publication'[t].called[publication[t].next + 1] = handler
          /\ \A i \in 1..publication[t].next :
               publication'[t].called[i] = publication[t].called[i]
      BY <1>3, <2>2, <3>1
    <3> QED BY <1>3, <2>2, <2>3, <2>4, <3>1, <3>2 DEF handler
  <2> QED BY <2>2, <2>3, <2>5 DEF Followed
<1>9. CASE EndPublish(t)
  <2>1. publication'[t].type = "" /\ publication'[t].in = Nobody
    BY <1>3, <1>9 DEF EndPublish, Idle
  <2> QED BY <2>1 DEF Followed, Publishing
<1>10. CASE Handling(t)
  <2>1. /\ publication[t].in # Nobody
        /\ \/ publication'[t] = [publication[t] EXCEPT !.in = Nobody]
           \/ publication'[t] = [publication[t] EXCEPT !.in = "counting",
                                    !.seen = counts[publication[t].type]]
    BY <1>3, <1>10 DEF Handling, Log, Raise, Stream, Count, Counts, Submit, Return, Nobody
  <2>2. /\ publication'[t].type = publication[t].type
        /\ publication'[t].next = publication[t].next
        /\ publication'[t].called = publication[t].called
        /\ publication'[t].stay = publication[t].stay
        /\ publication'[t].cut = publication[t].cut
    BY <1>3, <2>1 DEF Publications
  <2> QED BY <1>1, <1>5, <2>1, <2>2, StaysFollowed DEF Publishing
<1> QED BY <1>7, <1>8, <1>9, <1>10

LEMMA SubscribeKeepsInv ==
    ASSUME BusInv, TypeOK', NEW type \in Types, NEW observer \in Changing,
           Subscribe(type, observer)
    PROVE  BusInv'
<1> DEFINE old == subscribers[type]
           new == Append(old, observer)
<1>1. old \in Seq(Observers) /\ IsInjective(old) /\ observer \in Observers
  BY EventBusAssumption DEF BusInv, BusTypeOK, Distinct, EventBusAssumption
<1>2. new \in Seq(Observers) /\ IsInjective(new)
  BY <1>1, AppendKeeps DEF Subscribe
<1>3. subscribers' = [subscribers EXCEPT ![type] = new]
  BY DEF Subscribe
<1>4. UNCHANGED <<publication, counts, counter, hooks, begun, disturbed>>
  BY DEF Subscribe
<1>5. changes' \in 0..MaxChanges
  BY Bounds DEF Subscribe, BusInv, BusTypeOK
<1>6. BusTypeOK'
  BY <1>2, <1>3, <1>4, <1>5 DEF BusInv, BusTypeOK
<1>7. Distinct' /\ Engaged'
  BY <1>2, <1>3, <1>4 DEF BusInv, BusTypeOK, Distinct, Engaged, Publishing
<1>8. ASSUME NEW t \in Publishers PROVE Followed(t)'
  <2>1. CASE publication[t].type # type
    <3>1. List(t)' = List(t)
      BY <1>3, <1>4, <2>1 DEF BusInv, BusTypeOK, List
    <3>2. Followed(t)
      BY DEF BusInv
    <3> QED BY <1>4, <3>1, <3>2 DEF Followed, Publishing
  <2>2. CASE publication[t].type = type
    <3>1. List(t) = old /\ List(t)' = new
      BY <1>3, <1>4, <2>2 DEF BusInv, BusTypeOK, List
    <3>2. publication[t].next \in Nat
      BY Fields DEF BusInv, BusTypeOK
    <3>3. Len(new) = Len(old) + 1 /\ \A i \in 1..Len(old) : new[i] = old[i]
      BY <1>1
    <3>4. ToSet(old) \subseteq ToSet(new)
      BY <1>1, <1>2, <3>3 DEF ToSet
    <3>5. Followed(t)
      BY DEF BusInv
    <3>6. Len(old) \in Nat
      BY <1>1
    <3> HIDE DEF old, new
    <3>7. CASE ~Publishing(t) \/ publication[t].cut
      BY <1>4, <3>7 DEF Followed, Publishing
    <3>8. CASE Publishing(t) /\ ~publication[t].cut
      <4>1. /\ publication[t].next <= Len(old)
            /\ Len(publication[t].called) = publication[t].next
            /\ \A i \in 1..publication[t].next : publication[t].called[i] = old[i]
            /\ publication[t].stay \subseteq ToSet(old)
        BY <3>1, <3>5, <3>8 DEF Followed
      <4>2. \A i \in 1..publication[t].next : publication[t].called[i] = new[i]
        BY <3>2, <3>3, <3>6, <4>1
      <4> QED BY <1>4, <3>1, <3>2, <3>3, <3>4, <3>6, <4>1, <4>2 DEF Followed
    <3> QED BY <3>7, <3>8
  <2> QED BY <2>1, <2>2
<1> QED BY <1>6, <1>7, <1>8 DEF BusInv

LEMMA UnsubscribeKeepsInv ==
    ASSUME BusInv, TypeOK', NEW type \in Types, NEW observer \in Changing,
           Unsubscribe(type, observer)
    PROVE  BusInv'
<1>1. PICK i \in DOMAIN subscribers[type] :
        subscribers' = [subscribers EXCEPT ![type] = RemoveAt(@, i)]
  BY DEF Unsubscribe
<1> DEFINE new == RemoveAt(subscribers[type], i)
<1>2. new \in Seq(Observers) /\ IsInjective(new)
  BY RemoveAtKeeps DEF BusInv, BusTypeOK, Distinct
<1> HIDE DEF new
<1>3. subscribers' = [subscribers EXCEPT ![type] = new]
  BY <1>1 DEF new
<1>4. UNCHANGED <<counts, counter, hooks, begun>>
  BY DEF Unsubscribe
<1>5. changes' \in 0..MaxChanges /\ disturbed' \in BOOLEAN
  BY Bounds DEF Unsubscribe, BusInv, BusTypeOK
<1>6. ASSUME NEW t \in Publishers
      PROVE  /\ publication'[t] \in Publications
             /\ publication'[t].type = publication[t].type
             /\ publication'[t].in = publication[t].in
             /\ publication'[t].next = publication[t].next
             /\ publication'[t].called = publication[t].called
             /\ publication'[t].stay = publication[t].stay
             /\ publication'[t].cut = (publication[t].cut \/ publication[t].type = type)
  <2>1. publication[t] \in Publications
    BY DEF BusInv, BusTypeOK
  <2>2. publication'[t] =
          [publication[t] EXCEPT !.cut = publication[t].cut \/ publication[t].type = type]
    BY <2>1 DEF Unsubscribe, Publications
  <2> QED BY <2>1, <2>2 DEF Publications
<1>7. publication' \in [Publishers -> Publications]
  <2>1. publication' = [t \in Publishers |-> publication'[t]]
    BY DEF Unsubscribe
  <2> QED BY <1>6, <2>1
<1>8. BusTypeOK'
  BY <1>2, <1>3, <1>4, <1>5, <1>7 DEF BusInv, BusTypeOK
<1>9. Distinct' /\ Engaged'
  BY <1>2, <1>3, <1>6 DEF BusInv, BusTypeOK, Distinct, Engaged, Publishing
<1>10. ASSUME NEW t \in Publishers PROVE Followed(t)'
  <2>1. CASE publication[t].type # type
    <3>1. List(t)' = List(t)
      BY <1>3, <1>6, <2>1 DEF BusInv, BusTypeOK, List
    <3>2. Followed(t)
      BY DEF BusInv
    <3> QED BY <1>6, <2>1, <3>1, <3>2 DEF Followed, Publishing
  <2>2. CASE publication[t].type = type
    BY <1>6, <2>2 DEF Followed
  <2> QED BY <2>1, <2>2
<1> QED BY <1>8, <1>9, <1>10 DEF BusInv

--------------------------------------------------------------------------------

\* Every step of the bus is a step of the observer, or leaves it as it is.
LEMMA StepsOfObserver ==
    ASSUME BusInv, [BusNext]_allVars
    PROVE  [Next]_vars
<1>1. ASSUME NEW t \in Publishers, Stream(t) PROVE Next
  <2>1. publication[t].sid \in EventIds
    BY Fields DEF BusInv, BusTypeOK
  <2> QED BY <1>1, <2>1 DEF Stream, Next
<1>2. CASE CloseStream \/ Reader \/ Leave
  BY <1>2 DEF CloseStream, Reader, Leave, Next
<1> QED BY <1>1, <1>2 DEF BusNext, Handling, Publish, Call, EndPublish, Log, Raise, Count,
     Counts, Submit, Subscribe, Unsubscribe, TakeHook, SendHook, allVars

LEMMA BusInvStep == BusInv /\ TypeOK' /\ [BusNext]_allVars => BusInv'
<1> SUFFICES ASSUME BusInv, TypeOK', [BusNext]_allVars PROVE BusInv'
  OBVIOUS
<1>1. CASE UNCHANGED <<subscribers, publication, counts, counter, begun, changes, disturbed>>
           /\ hooks' \in [queue : Nat, sending : 0..HookWorkers]
  <2>1. BusTypeOK' /\ Engaged' /\ Distinct'
    BY <1>1 DEF BusInv, BusTypeOK, Engaged, Distinct, Publishing
  <2>2. \A t \in Publishers : Followed(t)'
    BY <1>1 DEF BusInv, Followed, Publishing, List
  <2> QED BY <2>1, <2>2 DEF BusInv
<1>2. CASE TakeHook \/ SendHook
  <2>1. hooks' \in [queue : Nat, sending : 0..HookWorkers]
    <3>1. hooks \in [queue : Nat, sending : 0..HookWorkers]
      BY DEF BusInv, BusTypeOK
    <3>2. CASE TakeHook
      <4>1. hooks' = [hooks EXCEPT !.queue = @ - 1, !.sending = @ + 1]
            /\ hooks.queue > 0 /\ hooks.sending < HookWorkers
        BY <3>2 DEF TakeHook
      <4>2. hooks.queue - 1 \in Nat /\ hooks.sending + 1 \in 0..HookWorkers
        BY Bounds, <3>1, <4>1
      <4> QED BY <3>1, <4>1, <4>2
    <3>3. CASE SendHook
      <4>1. hooks' = [hooks EXCEPT !.sending = @ - 1] /\ hooks.sending > 0
        BY <3>3 DEF SendHook
      <4> QED BY Bounds, <3>1, <4>1
    <3> QED BY <1>2, <3>2, <3>3
  <2> QED BY <1>1, <1>2, <2>1 DEF TakeHook, SendHook
<1>3. CASE UNCHANGED busVars
  BY <1>1, <1>3 DEF busVars, BusInv, BusTypeOK
<1>4. CASE CloseStream \/ Reader \/ Leave \/ UNCHANGED allVars
  BY <1>3, <1>4 DEF CloseStream, Reader, Leave, allVars
<1> QED BY <1>2, <1>4, ThreadKeepsInv, SubscribeKeepsInv, UnsubscribeKeepsInv DEF BusNext

LEMMA BusSafety == BusSpec => Safety /\ []BusInv
<1>1. BusInit => Init
  BY DEF BusInit
<1>2. BusInit /\ TypeOK => BusInv
  BY BusInvInitial
<1>3. Init => TypeOK
  BY InitTypeOK
<1>4. TypeOK /\ [Next]_vars => TypeOK'
  BY StepTypeOK
<1>5. BusInv => TypeOK
  BY DEF BusInv, BusTypeOK
<1>6. BusInv /\ [BusNext]_allVars => [Next]_vars
  BY StepsOfObserver
<1>7. BusInv /\ TypeOK' /\ [BusNext]_allVars => BusInv'
  BY BusInvStep
<1> QED BY <1>1, <1>2, <1>3, <1>4, <1>5, <1>6, <1>7, PTL DEF BusSpec, Safety

\* The types of the bus and its observers; the webhook's pool keeps its bound.
THEOREM BusTypeCorrect == BusSpec => []BusTypeOK
<1>1. BusInv => BusTypeOK
  BY DEF BusInv
<1> QED BY <1>1, BusSafety, PTL

\* Behind the bus, whoever publishes and whatever subscribes, raises or comes to an
\* end, the client sees the lossy stream.
THEOREM BusImplementsStream == BusSpec => ImplementsStream
BY BusSafety, SafetyImplementsStream, PTL

\* A publication reaches the handlers subscribed from its beginning to its end once,
\* for every number of threads and observers and every change of subscriptions,
\* unless a handler is unsubscribed meanwhile.
THEOREM HandlersWhoStayAreReached == BusSpec => []ReachesAllWhoStay
<1>1. ASSUME BusInv PROVE ReachesAllWhoStay
  <2> SUFFICES ASSUME NEW t \in Publishers, Publishing(t),
                      publication[t].next >= Len(List(t)), ~publication[t].cut,
                      NEW observer \in publication[t].stay
               PROVE  \E i \in DOMAIN publication[t].called :
                        \A j \in DOMAIN publication[t].called :
                          publication[t].called[j] = observer <=> j = i
    BY DEF ReachesAllWhoStay
  <2>1. /\ publication[t].next \in Nat /\ publication[t].called \in Seq(Observers)
        /\ List(t) \in Seq(Observers) /\ IsInjective(List(t))
    BY <1>1, Fields, TypeOfEvent DEF BusInv, BusTypeOK, Distinct, List
  <2>2. /\ publication[t].next = Len(List(t))
        /\ DOMAIN publication[t].called = DOMAIN List(t)
        /\ \A i \in DOMAIN List(t) : publication[t].called[i] = List(t)[i]
        /\ observer \in ToSet(List(t))
    BY <1>1, <2>1 DEF BusInv, Followed
  <2>3. PICK i \in DOMAIN List(t) : List(t)[i] = observer
    BY <2>2 DEF ToSet
  <2> QED BY <2>1, <2>2, <2>3 DEF IsInjective
<1> QED BY <1>1, BusSafety, PTL

--------------------------------------------------------------------------------

\* The publications of a type that the metrics have yet to count.
Owing(type) ==
    {t \in Publishers :
        /\ publication[t].type = type
        /\ \/ publication[t].in \in {"metrics", "counting"}
           \/ "metrics" \notin ToSet(publication[t].called)}

\* What has begun is counted or owing.
Balanced(type) ==
    IF "metrics" \in ToSet(subscribers[type])
      THEN begun[type] = counts[type] + Cardinality(Owing(type))
      ELSE counts[type] = 0

CountingHolds(t) ==
    LET p == publication[t] IN
    /\ p.cut => disturbed
    /\ p.in \in {"metrics", "counting"} => "metrics" \in ToSet(p.called)
    /\ p.in = "counting" => counter = t /\ p.seen = counts[p.type]

\* The books of the metrics: they balance until an unsubscription disturbs a
\* publication, and who counts has the lock and has read the count.
Tally ==
    /\ \A t \in Publishers : CountingHolds(t)
    /\ ~disturbed => \A type \in Types : Balanced(type)

LEMMA OwingFinite ==
    ASSUME NEW type PROVE IsFiniteSet(Owing(type)) /\ Cardinality(Owing(type)) \in Nat
<1>1. Owing(type) \in SUBSET Publishers
  BY DEF Owing
<1> QED BY <1>1, EventBusAssumption, FS_Subset, FS_CardinalityType DEF EventBusAssumption

LEMMA SameOwing ==
    ASSUME NEW t \in Publishers, NEW type,
           \A u \in Publishers \ {t} : publication'[u] = publication[u],
           (t \in Owing(type))' <=> t \in Owing(type)
    PROVE  Owing(type)' = Owing(type)
BY DEF Owing

\* A step of a thread that neither begins a publication nor writes a count.
LEMMA ThreadKeepsBalance ==
    ASSUME Tally, NEW t \in Publishers,
           UNCHANGED <<subscribers, counts, begun, disturbed>>,
           \A u \in Publishers \ {t} :
               publication'[u] = publication[u] /\ (counter = u => counter' = u),
           CountingHolds(t)',
           ~disturbed => \A type \in Types : "metrics" \in ToSet(subscribers[type]) =>
                             ((t \in Owing(type))' <=> t \in Owing(type))
    PROVE  Tally'
<1>1. ASSUME NEW u \in Publishers PROVE CountingHolds(u)'
  <2>1. CASE u = t
    BY <2>1
  <2>2. CASE u # t
    BY <2>2 DEF Tally, CountingHolds
  <2> QED BY <2>1, <2>2
<1>2. ASSUME ~disturbed, NEW type \in Types PROVE Balanced(type)'
  <2>1. Balanced(type)
    BY <1>2 DEF Tally
  <2>2. CASE "metrics" \notin ToSet(subscribers[type])
    BY <2>1, <2>2 DEF Balanced
  <2>3. CASE "metrics" \in ToSet(subscribers[type])
    <3>1. Owing(type)' = Owing(type)
      BY <1>2, <2>3, SameOwing
    <3> QED BY <2>1, <2>3, <3>1 DEF Balanced
  <2> QED BY <2>2, <2>3
<1> QED BY <1>1, <1>2 DEF Tally

\* While nothing is disturbed, the handlers called are the first of the list.
LEMMA CalledAreFirst ==
    ASSUME BusInv, Tally, ~disturbed, NEW t \in Publishers, Publishing(t)
    PROVE  /\ publication[t].next \in Nat /\ publication[t].next <= Len(List(t))
           /\ List(t) \in Seq(Observers) /\ IsInjective(List(t))
           /\ Len(publication[t].called) = publication[t].next
           /\ publication[t].called \in Seq(Observers)
           /\ \A i \in 1..publication[t].next : publication[t].called[i] = List(t)[i]
BY Fields, TypeOfEvent
DEF BusInv, BusTypeOK, Distinct, Followed, Tally, CountingHolds, List

LEMMA PublishKeepsTally ==
    ASSUME BusInv, Tally, NEW t \in Publishers, NEW type \in Types, NEW sid \in EventIds,
           Publish(t, type, sid)
    PROVE  Tally'
<1>1. /\ publication \in [Publishers -> Publications]
      /\ begun \in [Types -> Nat] /\ counts \in [Types -> Nat]
  BY DEF BusInv, BusTypeOK
<1>2. \A u \in Publishers \ {t} : publication'[u] = publication[u]
  BY <1>1 DEF Publish
<1>3. publication'[t] = [Idle EXCEPT !.type = type, !.sid = sid,
                                     !.stay = ToSet(subscribers[type])]
  BY <1>1 DEF Publish
<1>4. /\ publication'[t].type = type /\ publication'[t].in = Nobody
      /\ publication'[t].called = <<>> /\ publication'[t].cut = FALSE
  BY <1>3 DEF Idle
<1>5. UNCHANGED <<subscribers, counts, counter, disturbed>>
  BY DEF Publish
<1>6. ASSUME NEW u \in Publishers PROVE CountingHolds(u)'
  <2>1. CASE u = t
    BY <1>4, <2>1 DEF CountingHolds, Nobody
  <2>2. CASE u # t
    BY <1>2, <1>5, <2>2 DEF Tally, CountingHolds
  <2> QED BY <2>1, <2>2
<1>7. ASSUME ~disturbed, NEW other \in Types PROVE Balanced(other)'
  <2>1. Balanced(other)
    BY <1>7 DEF Tally
  <2>2. "metrics" \notin ToSet(<<>>)
    BY DEF ToSet
  <2>3. publication[t].type = "" /\ "" \notin Types
    BY EventBusAssumption DEF Publish, Publishing, EventBusAssumption
  <2>4. CASE other # type
    <3>1. Owing(other)' = Owing(other)
      BY <1>2, <1>4, <2>3, <2>4, SameOwing DEF Owing
    <3>2. begun'[other] = begun[other]
      BY <1>1, <2>4 DEF Publish
    <3> QED BY <1>5, <2>1, <3>1, <3>2 DEF Balanced
  <2>5. CASE other = type
    <3>1. Owing(type)' = Owing(type) \cup {t}
      BY <1>2, <1>4, <2>2 DEF Owing
    <3>2. t \notin Owing(type)
      BY <2>3 DEF Owing
    <3>3. Cardinality(Owing(type)') = Cardinality(Owing(type)) + 1
      BY <3>1, <3>2, OwingFinite, FS_AddElement
    <3>4. begun'[type] = begun[type] + 1
      BY <1>1 DEF Publish
    <3> QED BY <1>1, <1>5, <2>1, <2>5, <3>3, <3>4, OwingFinite DEF Balanced
  <2> QED BY <2>4, <2>5
<1> QED BY <1>5, <1>6, <1>7 DEF Tally

LEMMA CallKeepsTally ==
    ASSUME BusInv, Tally, NEW t \in Publishers, Call(t)
    PROVE  Tally'
<1> DEFINE handler == List(t)[publication[t].next + 1]
           p == publication[t]
<1>1. publication \in [Publishers -> Publications] /\ p \in Publications
  BY DEF BusInv, BusTypeOK
<1>2. p.next \in Nat /\ p.called \in Seq(Observers)
  BY <1>1, Fields
<1>3. List(t) \in Seq(Observers)
  BY TypeOfEvent DEF Call, List, BusInv, BusTypeOK
<1>4. handler \in Observers /\ handler # "counting"
  BY <1>2, <1>3 DEF Call, Observers
<1>5. publication'[t] = [p EXCEPT !.next = @ + 1, !.in = handler,
                                  !.called = Append(@, handler)]
  BY <1>1 DEF Call
<1> HIDE DEF handler
<1>6. /\ publication'[t].type = p.type /\ publication'[t].in = handler
      /\ publication'[t].called = Append(p.called, handler)
      /\ publication'[t].cut = p.cut
  BY <1>1, <1>5 DEF Publications
<1>7. ToSet(publication'[t].called) = ToSet(p.called) \cup {handler}
  BY <1>2, <1>4, <1>6 DEF ToSet
<1>8. UNCHANGED <<subscribers, counts, counter, begun, disturbed>>
  BY DEF Call
<1>9. \A u \in Publishers \ {t} : publication'[u] = publication[u]
  BY <1>1 DEF Call
<1>10. CountingHolds(t)'
  BY <1>4, <1>6, <1>7, <1>8 DEF Tally, CountingHolds
<1>11. ASSUME ~disturbed, "metrics" \in ToSet(p.called) PROVE handler # "metrics"
  <2>1. /\ p.next <= Len(List(t)) /\ IsInjective(List(t)) /\ Len(p.called) = p.next
        /\ \A i \in 1..p.next : p.called[i] = List(t)[i]
    BY <1>11, CalledAreFirst DEF Call
  <2>2. PICK i \in 1..p.next : p.called[i] = "metrics"
    BY <1>2, <1>11, <2>1 DEF ToSet
  <2>3. p.next + 1 \in DOMAIN List(t) /\ i \in DOMAIN List(t) /\ i # p.next + 1
    BY <1>2, <1>3, <2>1 DEF Call
  <2> QED BY <2>1, <2>2, <2>3 DEF IsInjective, handler
<1>12. p.in = Nobody
  BY DEF Call
<1>13. ASSUME ~disturbed, NEW type \in Types
       PROVE  (t \in Owing(type))' <=> t \in Owing(type)
  <2>1. CASE "metrics" \in ToSet(p.called)
    <3>1. handler # "metrics" /\ "metrics" \in ToSet(publication'[t].called)
      BY <1>7, <1>11, <1>13, <2>1
    <3> QED BY <1>4, <1>6, <1>12, <2>1, <3>1 DEF Owing, Nobody
  <2>2. CASE "metrics" \notin ToSet(p.called)
    <3>1. handler = "metrics" \/ "metrics" \notin ToSet(publication'[t].called)
      BY <1>7, <2>2
    <3> QED BY <1>6, <2>2, <3>1 DEF Owing
  <2> QED BY <2>1, <2>2
<1> QED BY <1>8, <1>9, <1>10, <1>13, ThreadKeepsBalance

LEMMA EndKeepsTally ==
    ASSUME BusInv, Tally, NEW t \in Publishers, EndPublish(t)
    PROVE  Tally'
<1> DEFINE p == publication[t]
<1>1. publication \in [Publishers -> Publications]
  BY DEF BusInv, BusTypeOK
<1>2. /\ publication'[t].type = "" /\ publication'[t].in = Nobody
      /\ publication'[t].cut = FALSE
  BY <1>1 DEF EndPublish, Idle
<1>3. /\ UNCHANGED <<subscribers, counts, counter, begun, disturbed>>
      /\ \A u \in Publishers \ {t} : publication'[u] = publication[u]
  BY <1>1 DEF EndPublish
<1>4. CountingHolds(t)'
  BY <1>2 DEF CountingHolds, Nobody
<1>5. ASSUME ~disturbed, NEW type \in Types, "metrics" \in ToSet(subscribers[type])
      PROVE  t \notin Owing(type) /\ (t \notin Owing(type))'
  <2>1. publication'[t].type = "" /\ "" \notin Types
    BY <1>2, EventBusAssumption DEF EventBusAssumption
  <2>2. p.in = Nobody /\ Publishing(t) /\ p.next >= Len(List(t))
    BY DEF EndPublish
  <2>3. ASSUME p.type = type PROVE "metrics" \in ToSet(p.called)
    <3>1. /\ Len(p.called) = Len(List(t)) /\ Len(List(t)) \in Nat
          /\ \A i \in 1..Len(List(t)) : p.called[i] = List(t)[i]
      BY <1>5, <2>2, CalledAreFirst
    <3>2. List(t) = subscribers[type] /\ subscribers[type] \in Seq(Observers)
      BY <2>3 DEF List, BusInv, BusTypeOK
    <3>3. PICK i \in 1..Len(List(t)) : List(t)[i] = "metrics"
      BY <1>5, <3>2 DEF ToSet
    <3>4. p.called \in Seq(Observers)
      BY <1>1, Fields
    <3> QED BY <3>1, <3>3, <3>4 DEF ToSet
  <2> QED BY <2>1, <2>2, <2>3 DEF Owing, Nobody
<1> QED BY <1>3, <1>4, <1>5, ThreadKeepsBalance

\* The steps in a handler, the write of a count apart.
LEMMA HandlingKeepsTally ==
    ASSUME BusInv, Tally, NEW t \in Publishers,
           Log(t) \/ Raise(t) \/ Stream(t) \/ Submit(t) \/ Count(t)
    PROVE  Tally'
<1> DEFINE p == publication[t]
<1>1. publication \in [Publishers -> Publications] /\ p \in Publications
  BY DEF BusInv, BusTypeOK
<1>2. UNCHANGED <<subscribers, counts, begun, disturbed>>
  BY DEF Log, Raise, Stream, Submit, Count, Return
<1>3. \A u \in Publishers \ {t} : publication'[u] = publication[u]
  BY <1>1 DEF Log, Raise, Stream, Submit, Count, Return
<1>4. CASE Log(t) \/ Raise(t) \/ Stream(t) \/ Submit(t)
  <2>1. /\ publication'[t] = [p EXCEPT !.in = Nobody]
        /\ p.in \in {"log", "stream", "webhook"} /\ UNCHANGED counter
    BY <1>1, <1>4 DEF Log, Raise, Stream, Submit, Return
  <2>2. /\ publication'[t].type = p.type /\ publication'[t].in = Nobody
        /\ publication'[t].called = p.called /\ publication'[t].cut = p.cut
    BY <1>1, <2>1 DEF Publications
  <2>3. CountingHolds(t)'
    BY <1>2, <2>2 DEF Tally, CountingHolds, Nobody
  <2>4. \A type \in Types : (t \in Owing(type))' <=> t \in Owing(type)
    BY <2>1, <2>2 DEF Owing, Nobody
  <2> QED BY <1>2, <1>3, <2>1, <2>3, <2>4, ThreadKeepsBalance
<1>5. CASE Count(t)
  <2>1. /\ publication'[t] = [p EXCEPT !.in = "counting", !.seen = counts[p.type]]
        /\ p.in = "metrics" /\ counter = Nobody /\ counter' = t
    BY <1>1, <1>5 DEF Count
  <2>2. /\ publication'[t].type = p.type /\ publication'[t].in = "counting"
        /\ publication'[t].seen = counts[p.type]
        /\ publication'[t].called = p.called /\ publication'[t].cut = p.cut
    BY <1>1, <2>1 DEF Publications
  <2>3. CountingHolds(t)'
    BY <1>2, <2>1, <2>2 DEF Tally, CountingHolds
  <2>4. \A type \in Types : (t \in Owing(type))' <=> t \in Owing(type)
    BY <2>1, <2>2 DEF Owing
  <2>5. \A u \in Publishers : counter # u
    BY <2>1, EventBusAssumption DEF EventBusAssumption, Nobody
  <2> QED BY <1>2, <1>3, <2>3, <2>4, <2>5, ThreadKeepsBalance
<1> QED BY <1>4, <1>5

\* The lock makes what was read still the count when it is written.
LEMMA CountsKeepsTally ==
    ASSUME BusInv, Tally, NEW t \in Publishers, Counts(t)
    PROVE  Tally'
<1> DEFINE p == publication[t]
<1>1. /\ publication \in [Publishers -> Publications] /\ p \in Publications
      /\ begun \in [Types -> Nat] /\ counts \in [Types -> Nat]
  BY DEF BusInv, BusTypeOK
<1>2. /\ publication'[t] = [p EXCEPT !.in = Nobody] /\ p.in = "counting"
      /\ \A u \in Publishers \ {t} : publication'[u] = publication[u]
  BY <1>1 DEF Counts, Return
<1>3. /\ publication'[t].type = p.type /\ publication'[t].in = Nobody
      /\ publication'[t].called = p.called /\ publication'[t].cut = p.cut
  BY <1>1, <1>2 DEF Publications
<1>4. UNCHANGED <<subscribers, begun, disturbed>>
  BY DEF Counts, Return
<1>5. p.type \in Types
  BY <1>2, TypeOfEvent DEF BusInv, Engaged, Nobody
<1>6. counter = t /\ p.seen = counts[p.type] /\ "metrics" \in ToSet(p.called)
  BY <1>2 DEF Tally, CountingHolds
<1>7. counts' = [counts EXCEPT ![p.type] = counts[p.type] + 1]
  BY <1>6 DEF Counts
<1>8. ASSUME NEW u \in Publishers PROVE CountingHolds(u)'
  <2>1. CASE u = t
    BY <1>3, <1>4, <2>1 DEF Tally, CountingHolds, Nobody
  <2>2. CASE u # t
    <3>1. publication[u].in # "counting"
      BY <1>6, <2>2 DEF Tally, CountingHolds
    <3> QED BY <1>2, <1>4, <2>2, <3>1 DEF Tally, CountingHolds
  <2> QED BY <2>1, <2>2
<1>9. ASSUME ~disturbed, NEW type \in Types PROVE Balanced(type)'
  <2>1. Balanced(type)
    BY <1>9 DEF Tally
  <2>2. CASE type # p.type
    <3>1. Owing(type)' = Owing(type)
      BY <1>2, <1>3, <2>2, SameOwing DEF Owing
    <3>2. counts'[type] = counts[type]
      BY <1>1, <1>7, <2>2
    <3> QED BY <1>4, <2>1, <3>1, <3>2 DEF Balanced
  <2>3. CASE type = p.type
    <3>1. Owing(type)' = Owing(type) \ {t} /\ t \in Owing(type)
      BY <1>2, <1>3, <1>6, <2>3 DEF Owing, Nobody
    <3>2. /\ Cardinality(Owing(type)') = Cardinality(Owing(type)) - 1
          /\ Cardinality(Owing(type)) \in Nat
      BY <3>1, OwingFinite, FS_RemoveElement
    <3>3. counts'[type] = counts[type] + 1
      BY <1>1, <1>7, <2>3
    <3>4. "metrics" \in ToSet(subscribers[type])
      <4>1. /\ \A i \in 1..p.next : p.called[i] = List(t)[i]
            /\ Len(p.called) = p.next /\ p.next <= Len(List(t)) /\ p.next \in Nat
            /\ p.called \in Seq(Observers) /\ List(t) \in Seq(Observers)
        BY <1>2, <1>9, CalledAreFirst DEF BusInv, Engaged, Nobody
      <4>2. List(t) = subscribers[type]
        BY <2>3 DEF List
      <4>3. PICK i \in 1..p.next : p.called[i] = "metrics"
        BY <1>6, <4>1 DEF ToSet
      <4> QED BY <4>1, <4>2, <4>3 DEF ToSet
    <3> QED BY <1>1, <1>4, <2>1, <3>2, <3>3, <3>4 DEF Balanced
  <2> QED BY <2>2, <2>3
<1> QED BY <1>4, <1>8, <1>9 DEF Tally

\* The metrics stay on a list that another observer joins or leaves.
LEMMA RemoveAtSpares ==
    ASSUME NEW S, NEW s \in Seq(S), NEW i \in DOMAIN s, NEW e, s[i] # e
    PROVE  e \in ToSet(RemoveAt(s, i)) <=> e \in ToSet(s)
<1>1. i \in 1..Len(s) /\ Len(s) \in Nat
  OBVIOUS
<1> DEFINE new == RemoveAt(s, i)
<1>2. /\ new \in Seq(S) /\ Len(new) = Len(s) - 1
      /\ \A j \in 1..(Len(s) - 1) : new[j] = IF j < i THEN s[j] ELSE s[j + 1]
  BY RemoveAtShifts
<1> HIDE DEF new
<1>3. ASSUME NEW j \in 1..Len(s), s[j] = e PROVE e \in ToSet(new)
  <2>1. CASE j < i
    BY <1>1, <1>2, <1>3, <2>1 DEF ToSet
  <2>2. CASE j > i
    <3>1. j - 1 \in 1..Len(new) /\ new[j - 1] = e
      BY <1>1, <1>2, <1>3, <2>2
    <3> QED BY <1>2, <3>1 DEF ToSet
  <2> QED BY <1>1, <1>3, <2>1, <2>2
<1>4. ASSUME NEW j \in 1..Len(new), new[j] = e PROVE e \in ToSet(s)
  <2>1. s[IF j < i THEN j ELSE j + 1] = e /\ (IF j < i THEN j ELSE j + 1) \in 1..Len(s)
    BY <1>1, <1>2, <1>4
  <2> QED BY <2>1 DEF ToSet
<1> QED BY <1>2, <1>3, <1>4 DEF ToSet, new

LEMMA ChangesKeepTally ==
    ASSUME BusInv, Tally, "metrics" \notin Changing,
           NEW type \in Types, NEW observer \in Changing,
           Subscribe(type, observer) \/ Unsubscribe(type, observer)
    PROVE  Tally'
<1>1. /\ subscribers \in [Types -> Seq(Observers)] /\ observer # "metrics"
      /\ publication \in [Publishers -> Publications]
  BY DEF BusInv, BusTypeOK
<1>2. UNCHANGED <<counts, counter, begun>>
  BY DEF Subscribe, Unsubscribe
<1>3. ASSUME NEW other \in Types
      PROVE  "metrics" \in ToSet(subscribers'[other]) <=> "metrics" \in ToSet(subscribers[other])
  <2>1. CASE Subscribe(type, observer)
    <3>1. subscribers' = [subscribers EXCEPT ![type] = Append(subscribers[type], observer)]
      BY <2>1 DEF Subscribe
    <3>2. "metrics" \in ToSet(Append(subscribers[type], observer))
            <=> "metrics" \in ToSet(subscribers[type])
      <4>1. subscribers[type] \in Seq(Observers)
        BY <1>1
      <4>3. observer \in Observers
        BY EventBusAssumption DEF EventBusAssumption
      <4>4. ToSet(Append(subscribers[type], observer)) = ToSet(subscribers[type]) \cup {observer}
        BY <4>1, <4>3, AppendSet
      <4> QED BY <1>1, <4>4
    <3> QED BY <1>1, <3>1, <3>2
  <2>2. CASE Unsubscribe(type, observer)
    <3>1. PICK i \in DOMAIN subscribers[type] :
            /\ subscribers[type][i] = observer
            /\ subscribers' = [subscribers EXCEPT ![type] = RemoveAt(@, i)]
      BY <2>2 DEF Unsubscribe
    <3>2. subscribers'[type] = RemoveAt(subscribers[type], i)
          /\ (other # type => subscribers'[other] = subscribers[other])
      BY <1>1, <3>1
    <3>3. "metrics" \in ToSet(RemoveAt(subscribers[type], i))
            <=> "metrics" \in ToSet(subscribers[type])
      BY <1>1, <3>1, RemoveAtSpares
    <3> QED BY <3>2, <3>3
  <2> QED BY <2>1, <2>2
<1>4. ASSUME NEW t \in Publishers
      PROVE  /\ publication'[t].type = publication[t].type
             /\ publication'[t].in = publication[t].in
             /\ publication'[t].called = publication[t].called
             /\ publication'[t].seen = publication[t].seen
             /\ publication'[t].cut => publication[t].cut \/ disturbed'
             /\ disturbed => disturbed'
  <2>1. CASE Subscribe(type, observer)
    BY <2>1 DEF Subscribe
  <2>2. CASE Unsubscribe(type, observer)
    <3>1. publication[t] \in Publications
      BY <1>1
    <3>2. publication'[t] =
            [publication[t] EXCEPT !.cut = publication[t].cut \/ publication[t].type = type]
      BY <2>2, <3>1 DEF Unsubscribe, Publications
    <3>3. disturbed' = (disturbed \/ \E u \in Publishers : publication[u].type = type)
      BY <2>2 DEF Unsubscribe
    <3> QED BY <3>1, <3>2, <3>3 DEF Publications
  <2> QED BY <2>1, <2>2
<1>5. ASSUME ~disturbed' PROVE ~disturbed
  BY <1>5 DEF Subscribe, Unsubscribe
<1>6. \A other \in Types : Owing(other)' = Owing(other)
  BY <1>4 DEF Owing
<1>7. \A t \in Publishers : CountingHolds(t)'
  BY <1>2, <1>4 DEF Tally, CountingHolds
<1>8. ASSUME ~disturbed', NEW other \in Types PROVE Balanced(other)'
  <2>1. Balanced(other)
    BY <1>5, <1>8 DEF Tally
  <2> QED BY <1>2, <1>3, <1>6, <2>1 DEF Balanced
<1> QED BY <1>7, <1>8 DEF Tally

LEMMA TallyInitial == BusInit => Tally
<1> SUFFICES ASSUME BusInit PROVE Tally
  OBVIOUS
<1>1. \A t \in Publishers : /\ publication[t].type = "" /\ publication[t].in = Nobody
                            /\ publication[t].cut = FALSE
  BY DEF BusInit, Idle
<1>2. \A t \in Publishers : CountingHolds(t)
  BY <1>1 DEF CountingHolds, Nobody
<1>3. ASSUME NEW type \in Types PROVE Balanced(type)
  <2>1. Owing(type) = {}
    BY <1>1, EventBusAssumption DEF Owing, EventBusAssumption
  <2>2. counts[type] = 0 /\ begun[type] = 0
    BY DEF BusInit
  <2> QED BY <2>1, <2>2, FS_EmptySet DEF Balanced
<1> QED BY <1>2, <1>3 DEF Tally

LEMMA TallyStep ==
    ASSUME "metrics" \notin Changing, BusInv, Tally, [BusNext]_allVars
    PROVE  Tally'
<1>1. CASE UNCHANGED <<subscribers, publication, counts, counter, begun, disturbed>>
  BY <1>1 DEF Tally, CountingHolds, Balanced, Owing
<1>2. CASE TakeHook \/ SendHook \/ CloseStream \/ Reader \/ Leave \/ UNCHANGED allVars
  BY <1>1, <1>2 DEF TakeHook, SendHook, CloseStream, Reader, Leave, busVars, allVars
<1>3. ASSUME NEW t \in Publishers, Handling(t) PROVE Tally'
  BY <1>3, HandlingKeepsTally, CountsKeepsTally DEF Handling
<1> QED BY <1>2, <1>3, PublishKeepsTally, CallKeepsTally, EndKeepsTally, ChangesKeepTally
    DEF BusNext

\* No count is lost: if the metrics are there from the start and stay (nothing in the
\* code subscribes or unsubscribes an observer once the run is on its way), then
\* between publications they have counted every event of each type they are on the
\* list of, whatever number of threads publish and whatever other observers join.
THEOREM EveryEventIsCounted ==
    ASSUME "metrics" \notin Changing
    PROVE  BusSpec => []CountsComplete
<1>1. BusInit => Tally
  BY TallyInitial
<1>2. BusInv /\ Tally /\ [BusNext]_allVars => Tally'
  BY TallyStep
<1>3. BusInv /\ Tally => CountsComplete
  <2> SUFFICES ASSUME BusInv, Tally, Quiet, ~disturbed, NEW type \in Types
               PROVE  counts[type] = IF "metrics" \in ToSet(subscribers[type])
                                       THEN begun[type] ELSE 0
    BY DEF CountsComplete
  <2>1. Owing(type) = {}
    BY EventBusAssumption DEF Quiet, Publishing, Owing, EventBusAssumption
  <2>2. counts[type] \in Nat
    BY DEF BusInv, BusTypeOK
  <2> QED BY <2>1, <2>2, FS_EmptySet DEF Tally, Balanced
<1> QED BY <1>1, <1>2, <1>3, BusSafety, PTL DEF BusSpec

================================================================================
