-------------------------------- MODULE EventBus -------------------------------
(***************************************************************************)
(* The event bus of a run (common/events/bus.py) with its observers: the   *)
(* threads of the run publish, each publication goes through the list of   *)
(* the handlers subscribed to the type of its event, and calls them in its *)
(* own thread.  The list is the one that subscribe() and unsubscribe()     *)
(* change: publish() does not lock it and makes no copy.                   *)
(*                                                                         *)
(* The observer of the stream is SseObserver.  Logging may raise, which    *)
(* the bus catches; metrics are counted under a lock; the webhook hands its*)
(* events to a pool.                                                       *)
(***************************************************************************)
EXTENDS SseObserver, SequencesExt, FiniteSetsExt

CONSTANTS
    Publishers,     \* the threads of the run
    Types,          \* of events
    Counted,        \* the types that MetricsObserver subscribes to; the others take all
    Setups,         \* the lists of handlers a bus may start with
    Changing,       \* the observers that come and go during the run
    HookWorkers,    \* max_workers of the webhook's pool
    MaxChanges      \* bound on the changes of subscriptions during the run

Observers == {"log", "metrics", "stream", "webhook"}

Subscribes(observer, type) == observer # "metrics" \/ type \in Counted

\* subscribe_all() of one observer after the other.
SubscribeAll(observers) ==
    [type \in Types |-> SelectSeq(observers, LAMBDA observer : Subscribes(observer, type))]

ASSUME EventBusAssumption ==
    /\ ObserverId \in EventIds
    /\ IsFiniteSet(Publishers) /\ "nobody" \notin Publishers
    /\ Counted \subseteq Types /\ "" \notin Types
    /\ Setups \subseteq [Types -> Seq(Observers)]
    /\ \A setup \in Setups, type \in Types : IsInjective(setup[type])    \* no handler twice
    /\ Changing \subseteq Observers
    /\ HookWorkers \in Nat \ {0} /\ MaxChanges \in Nat

VARIABLES
    subscribers,    \* _subscribers
    publication,    \* what each thread is publishing
    counts,         \* MetricsObserver._counts, of events
    counter,        \* the thread that holds its lock, or nobody
    hooks,          \* the queue of the webhook's pool, and what it is sending
    begun,          \* the number of publications begun, of each type
    changes,        \* of subscriptions so far
    disturbed       \* history: a handler was unsubscribed during a publication

busVars == <<subscribers, publication, counts, counter, hooks, begun, changes, disturbed>>
allVars == <<vars, busVars>>

Nobody == "nobody"

\* The type and the session of the event; how far the thread is in the list, and the
\* handler it is in, if any.  The rest is history: the handlers called, those
\* subscribed when it began, and whether a handler was unsubscribed since.
Idle == [type |-> "", sid |-> ObserverId, next |-> 0, in |-> Nobody, seen |-> 0,
         called |-> <<>>, stay |-> {}, cut |-> FALSE]

Publications ==
    [type : Types \cup {""}, sid : EventIds, next : Nat,
     in : Observers \cup {Nobody, "counting"}, seen : Nat, called : Seq(Observers),
     stay : SUBSET Observers, cut : BOOLEAN]

Publishing(t) == publication[t].type # ""
List(t) == subscribers[publication[t].type]
Quiet == \A t \in Publishers : ~Publishing(t)

--------------------------------------------------------------------------------

BusInit ==
    /\ Init
    /\ subscribers \in Setups
    /\ publication = [t \in Publishers |-> Idle]
    /\ counts = [type \in Types |-> 0] /\ counter = Nobody
    /\ hooks = [queue |-> 0, sending |-> 0]
    /\ begun = [type \in Types |-> 0] /\ changes = 0 /\ disturbed = FALSE

Begun == MapThenSumSet(LAMBDA type : begun[type], Types)

\* publish() looks the list up,
Publish(t, type, sid) ==
    /\ running /\ ~Publishing(t) /\ Begun < MaxEvents
    /\ publication' = [publication EXCEPT ![t] =
         [Idle EXCEPT !.type = type, !.sid = sid, !.stay = ToSet(subscribers[type])]]
    /\ begun' = [begun EXCEPT ![type] = @ + 1]
    /\ UNCHANGED <<vars, subscribers, counts, counter, hooks, changes, disturbed>>

\* and its loop takes the next handler, which is the one at its position by now.
Call(t) ==
    /\ Publishing(t) /\ publication[t].in = Nobody
    /\ publication[t].next < Len(List(t))
    /\ LET handler == List(t)[publication[t].next + 1] IN
       publication' = [publication EXCEPT ![t].next = @ + 1, ![t].in = handler,
                                          ![t].called = Append(@, handler)]
    /\ UNCHANGED <<vars, subscribers, counts, counter, hooks, begun, changes, disturbed>>

Return(t) ==
    /\ publication' = [publication EXCEPT ![t].in = Nobody]
    /\ UNCHANGED <<subscribers, begun, changes, disturbed>>

\* The end of the loop.
EndPublish(t) ==
    /\ Publishing(t) /\ publication[t].in = Nobody
    /\ publication[t].next >= Len(List(t))
    /\ publication' = [publication EXCEPT ![t] = Idle]
    /\ UNCHANGED <<vars, subscribers, counts, counter, hooks, begun, changes, disturbed>>

\* Seeded fault: what a handler raises ends the publication.
RaiseToPublisher(t) ==
    /\ publication[t].in = "log"
    /\ publication' = [publication EXCEPT ![t].in = Nobody, ![t].next = Len(List(t))]
    /\ UNCHANGED <<vars, subscribers, counts, counter, hooks, begun, changes, disturbed>>

\* LoggingObserver.handle; what it raises is caught.
Raise(t) ==
    /\ publication[t].in = "log"
    /\ Return(t)
    /\ UNCHANGED <<vars, counts, counter, hooks>>

Log(t) ==
    /\ publication[t].in = "log"
    /\ Return(t)
    /\ UNCHANGED <<vars, counts, counter, hooks>>

Stream(t) ==
    /\ publication[t].in = "stream"
    /\ Handle(publication[t].sid)
    /\ Return(t)
    /\ UNCHANGED <<counts, counter, hooks>>

\* Seeded fault: the counts are not locked.
CountUnlocked(t) ==
    /\ publication[t].in = "metrics"
    /\ counter' = t
    /\ publication' = [publication EXCEPT ![t].in = "counting",
                                          ![t].seen = counts[publication[t].type]]
    /\ UNCHANGED <<vars, subscribers, counts, hooks, begun, changes, disturbed>>

\* MetricsObserver.handle: it takes its lock and reads the count,
Count(t) ==
    /\ publication[t].in = "metrics"
    /\ counter = Nobody
    /\ counter' = t
    /\ publication' = [publication EXCEPT ![t].in = "counting",
                                          ![t].seen = counts[publication[t].type]]
    /\ UNCHANGED <<vars, subscribers, counts, hooks, begun, changes, disturbed>>

\* Seeded fault: the lock is kept.
CountsHolding(t) ==
    /\ publication[t].in = "counting"
    /\ counts' = [counts EXCEPT ![publication[t].type] = publication[t].seen + 1]
    /\ Return(t)
    /\ UNCHANGED <<vars, counter, hooks>>

\* writes it back, and lets the lock go.
Counts(t) ==
    /\ publication[t].in = "counting"
    /\ counts' = [counts EXCEPT ![publication[t].type] = publication[t].seen + 1]
    /\ counter' = Nobody
    /\ Return(t)
    /\ UNCHANGED <<vars, hooks>>

\* WebhookObserver.handle: the event is left to the pool.
Submit(t) ==
    /\ publication[t].in = "webhook"
    /\ hooks' = [hooks EXCEPT !.queue = @ + 1]
    /\ Return(t)
    /\ UNCHANGED <<vars, counts, counter>>

TakeHook ==
    /\ hooks.queue > 0 /\ hooks.sending < HookWorkers
    /\ hooks' = [hooks EXCEPT !.queue = @ - 1, !.sending = @ + 1]
    /\ UNCHANGED <<vars, subscribers, publication, counts, counter, begun, changes, disturbed>>

\* _send: whether the request succeeds or fails, the worker is free again.
SendHook ==
    /\ hooks.sending > 0
    /\ hooks' = [hooks EXCEPT !.sending = @ - 1]
    /\ UNCHANGED <<vars, subscribers, publication, counts, counter, begun, changes, disturbed>>

\* Subscriptions may change while the threads publish.  (Nothing in src/ does this;
\* it is what the bus offers.)
Subscribe(type, observer) ==
    /\ running /\ changes < MaxChanges
    /\ Subscribes(observer, type) /\ observer \notin ToSet(subscribers[type])
    /\ subscribers' = [subscribers EXCEPT ![type] = Append(@, observer)]
    /\ changes' = changes + 1
    /\ UNCHANGED <<vars, publication, counts, counter, hooks, begun, disturbed>>

\* The handlers behind the one that goes move up.
Unsubscribe(type, observer) ==
    /\ running /\ changes < MaxChanges
    /\ \E i \in DOMAIN subscribers[type] :
         /\ subscribers[type][i] = observer
         /\ subscribers' = [subscribers EXCEPT ![type] = RemoveAt(@, i)]
    /\ publication' = [t \in Publishers |->
         [publication[t] EXCEPT !.cut = @ \/ publication[t].type = type]]
    /\ disturbed' = (disturbed \/ \E t \in Publishers : publication[t].type = type)
    /\ changes' = changes + 1
    /\ UNCHANGED <<vars, counts, counter, hooks, begun>>

\* The run has ended, and its threads with it.
CloseStream == Quiet /\ Close /\ UNCHANGED busVars

Reader == (Await \/ Got) /\ UNCHANGED busVars
Leave == Disconnect /\ UNCHANGED busVars

Handling(t) ==
    \/ Log(t) \/ Raise(t) \/ Stream(t) \/ Count(t) \/ Counts(t) \/ Submit(t)

BusNext ==
    \/ \E t \in Publishers :
         \/ \E type \in Types, sid \in EventIds : Publish(t, type, sid)
         \/ Call(t) \/ EndPublish(t) \/ Handling(t)
    \/ \E type \in Types, observer \in Changing :
         Subscribe(type, observer) \/ Unsubscribe(type, observer)
    \/ TakeHook \/ SendHook
    \/ CloseStream \/ Reader \/ Leave

\* The threads of the run go on to its end, the pool sends, the event loop reads.
\* A thread that waits for the lock of the counts gets it in the end.
BusSpec ==
    /\ BusInit /\ [][BusNext]_allVars
    /\ \A t \in Publishers :
         /\ WF_allVars(Call(t)) /\ WF_allVars(EndPublish(t))
         /\ WF_allVars(Log(t) \/ Raise(t) \/ Stream(t) \/ Counts(t) \/ Submit(t))
         /\ SF_allVars(Count(t))
    /\ WF_allVars(TakeHook) /\ WF_allVars(SendHook)
    /\ WF_allVars(CloseStream)
    /\ WF_allVars(Await /\ UNCHANGED busVars) /\ WF_allVars(Got /\ UNCHANGED busVars)

--------------------------------------------------------------------------------

\* The observer's types, those of the bus, and the bound of the webhook's pool.
BusTypeOK ==
    /\ TypeOK
    /\ subscribers \in [Types -> Seq(Observers)]
    /\ publication \in [Publishers -> Publications]
    /\ counts \in [Types -> Nat] /\ begun \in [Types -> Nat]
    /\ counter \in Publishers \cup {Nobody}
    /\ hooks \in [queue : Nat, sending : 0..HookWorkers]
    /\ changes \in 0..MaxChanges /\ disturbed \in BOOLEAN

\* A publication reaches every handler that is subscribed from its beginning to its
\* end, once: what other handlers raise, and what other threads publish and
\* subscribe meanwhile, does not change it.  Only an unsubscription does: the loop
\* goes over the live list and skips the handler that moves up into the gap.
ReachesAllWhoStay ==
    \A t \in Publishers :
        LET p == publication[t] IN
        Publishing(t) /\ p.in = Nobody /\ p.next >= Len(List(t)) /\ ~p.cut =>
            \A observer \in p.stay : \E i \in DOMAIN p.called :
                \A j \in DOMAIN p.called : p.called[j] = observer <=> j = i

\* "Thread-safe": no count is lost between threads; when nobody publishes, every
\* event of a counted type has been counted, if the metrics are on this bus and no
\* unsubscription made a publication skip them.
CountsComplete ==
    Quiet /\ ~disturbed => \A type \in Types :
        counts[type] = IF "metrics" \in ToSet(subscribers[type]) THEN begun[type] ELSE 0

\* The run ends, and with it the stream is closed and what the webhook was given is
\* sent, whatever is raised.
BusSettles ==
    <>[](Quiet /\ ~running /\ hooks.queue = 0 /\ hooks.sending = 0)

================================================================================
