------------------------------ MODULE SseObserver ------------------------------
(***************************************************************************)
(* The bridge from the event bus to one HTTP client, common/events/sse.py: *)
(* pipeline threads put events into a bounded queue, an async generator    *)
(* takes them out, one executor thread at a time blocking in queue.get.    *)
(* close() ends the stream with a sentinel in the same queue.              *)
(*                                                                         *)
(* The publishing threads end before close() is called (stream_run calls it*)
(* when run_pipeline has returned), so nothing is published after it.      *)
(***************************************************************************)
EXTENDS Integers, Sequences

CONSTANTS ObserverId,   \* the session id the observer was made with
          EventIds,     \* the session ids the published events carry
          MaxSize,      \* maxsize of the queue
          MaxEvents     \* bound on the events published

ASSUME SseObserverAssumption ==
    /\ MaxSize \in Nat \ {0}
    /\ MaxEvents \in Nat

VARIABLES running,      \* the pipeline thread has not called close() yet
          published,    \* number of events published
          queue,        \* the bounded queue
          getter,       \* an executor thread is inside queue.get
          client,       \* "reading", "done" or "gone"
          accepted,     \* history: events put into the queue
          received      \* events yielded to the client

vars == <<running, published, queue, getter, client, accepted, received>>

Events == [n : 1..MaxEvents, sid : EventIds]
OwnEvents == {e \in Events : e.sid = ObserverId}
Sentinel == [n |-> 0, sid |-> ObserverId]

Full == Len(queue) >= MaxSize

--------------------------------------------------------------------------------

Init ==
    /\ running = TRUE
    /\ published = 0
    /\ queue = <<>>
    /\ getter = FALSE
    /\ client = "reading"
    /\ accepted = <<>>
    /\ received = <<>>

\* Seeded fault: the events of every session are taken.
HandleAnySession(s) ==
    LET e == [n |-> published + 1, sid |-> s] IN
    /\ running
    /\ published < MaxEvents
    /\ published' = published + 1
    /\ IF Full
         THEN UNCHANGED <<queue, accepted>>
         ELSE /\ queue' = Append(queue, e)
              /\ accepted' = Append(accepted, e)
    /\ UNCHANGED <<running, getter, client, received>>

\* handle(): another session's event is dropped, and so is one that finds the
\* queue full.
Handle(s) ==
    LET e == [n |-> published + 1, sid |-> s] IN
    /\ running
    /\ published < MaxEvents
    /\ published' = published + 1
    /\ IF s # ObserverId \/ Full
         THEN UNCHANGED <<queue, accepted>>
         ELSE /\ queue' = Append(queue, e)
              /\ accepted' = Append(accepted, e)
    /\ UNCHANGED <<running, getter, client, received>>

\* close(): a full queue swallows the sentinel too.
Close ==
    /\ running
    /\ running' = FALSE
    /\ queue' = IF Full THEN queue ELSE Append(queue, Sentinel)
    /\ UNCHANGED <<published, getter, client, accepted, received>>

\* stream() sends a thread into queue.get and awaits it.
Await ==
    /\ client = "reading"
    /\ ~getter
    /\ getter' = TRUE
    /\ UNCHANGED <<running, published, queue, client, accepted, received>>

\* Seeded fault: the sentinel is skipped.
GotSkippingSentinel ==
    /\ getter
    /\ queue # <<>>
    /\ getter' = FALSE
    /\ queue' = Tail(queue)
    /\ received' = IF client = "reading" /\ Head(queue) # Sentinel
                     THEN Append(received, Head(queue)) ELSE received
    /\ UNCHANGED <<running, published, accepted, client>>

\* The thread gets an item.  The generator of a client that has left is gone:
\* what the thread got is lost.
Got ==
    /\ getter
    /\ queue # <<>>
    /\ getter' = FALSE
    /\ queue' = Tail(queue)
    /\ client' = IF client = "reading" /\ Head(queue) = Sentinel THEN "done" ELSE client
    /\ received' = IF client = "reading" /\ Head(queue) # Sentinel
                     THEN Append(received, Head(queue)) ELSE received
    /\ UNCHANGED <<running, published, accepted>>

Disconnect ==
    /\ client = "reading"
    /\ client' = "gone"
    /\ UNCHANGED <<running, published, queue, getter, accepted, received>>

Next ==
    \/ \E s \in EventIds : Handle(s)
    \/ Close \/ Await \/ Got \/ Disconnect

\* A run ends (Celery's or the provider's timeouts see to it), the event loop
\* goes on, and a thread in queue.get returns when there is an item.
Spec ==
    /\ Init /\ [][Next]_vars
    /\ WF_vars(Close) /\ WF_vars(Await) /\ WF_vars(Got)

--------------------------------------------------------------------------------

TypeOK ==
    /\ running \in BOOLEAN
    /\ published \in 0..MaxEvents
    /\ queue \in Seq(Events \cup {Sentinel}) /\ Len(queue) <= MaxSize
    /\ getter \in BOOLEAN
    /\ client \in {"reading", "done", "gone"}
    /\ accepted \in Seq(Events)
    /\ received \in Seq(Events)

\* The queue implements the stream a client may rely on, for any mix of
\* publishing, reading and disconnecting: only this session's events are
\* taken, and none that was taken is lost, reordered or repeated before the
\* stream ends, except for one that makes room in a full queue.
Contract == INSTANCE LossyStream WITH Events <- OwnEvents, sealed <- ~running
ImplementsStream == Contract!Spec

\* Once the sentinel is in the queue, the stream ends and leaves no executor
\* thread behind in queue.get, whether or not the client stays to the end.
SentinelEndsStream ==
    (\E i \in 1..Len(queue) : queue[i] = Sentinel) ~> client # "reading" /\ ~getter

\* "drop oldest-first if client is too slow" (the comment in handle()): the event
\* just published is in the queue, whatever had to go for it.
NewestIsKept ==
    [][ Handle(ObserverId) => queue' # <<>> /\ queue'[Len(queue')].n = published' ]_vars

\* "Async generator that yields SSE-formatted strings until close() is called"
\* (the docstring of stream()): after close() the stream comes to its end.
CloseEndsStream == ~running ~> client # "reading"

================================================================================
