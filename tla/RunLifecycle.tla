------------------------------ MODULE RunLifecycle -----------------------------
(***************************************************************************)
(* A lead-generation run from the HTTP request to its database row.        *)
(*                                                                         *)
(* POST /runs makes a session id for the client and hands the run to Celery*)
(* or, when dispatch raises, to a FastAPI background task; POST /runs/stream*)
(* starts a thread.  Each way ends in an execution of run_pipeline: open a *)
(* session, run the pipeline, mark the session completed in the session    *)
(* store, save to the database.  Celery acknowledges a task after it ran   *)
(* (task_acks_late) or after the process that ran it was killed (there is  *)
(* no task_reject_on_worker_lost), retries one that raised, and redelivers *)
(* one whose whole worker crashed.  The session store keeps what Redis     *)
(* keeps: its errors are swallowed, and its keys expire.                   *)
(*                                                                         *)
(* A session id is the request it was made for, or the number of the       *)
(* execution that made it: SessionManager.create() draws a fresh uuid.     *)
(***************************************************************************)
EXTENDS Integers, FiniteSets

CONSTANTS Runs,         \* requests, and the session ids the API makes for them
          MaxRetries,   \* max_retries of the Celery task
          TaskQueue,    \* the broker queue .delay() publishes to
          WorkerQueues, \* the broker queues the workers consume
          MaxExecs,     \* bound on the executions
          MaxFaults     \* bound on the crashes and the sessions Redis does not keep

ASSUME RunLifecycleAssumption ==
    /\ MaxRetries \in Nat
    /\ MaxExecs \in Nat
    /\ MaxFaults \in Nat
    /\ Runs # {} /\ Runs \cap (0..MaxExecs) = {}

VARIABLES mode,         \* what the API told the client of each request
          tasks,        \* the messages in the broker, delivered or not
          background,   \* requests with a background task not started yet
          started,      \* executions started so far, of all kinds
          kind,         \* how each execution runs
          run,          \* the request of each execution
          stage,        \* where each execution is in run_pipeline
          sess,         \* the session each execution opened, 0 before that
          saved,        \* history: the executions whose save was committed
          cache,        \* status of each session in the session store (Redis)
          missed,       \* history: sessions of which Redis refused or dropped a write
          row,          \* status of each session's row in the database
          apiDb,        \* is_available() in the API process
          crashes       \* history: crashes so far

vars == <<mode, tasks, background, started, kind, run, stage, sess, saved,
          cache, missed, row, apiDb, crashes>>

Execs == 1..MaxExecs
SessionIds == Runs \cup Execs

Kinds == {"none", "celery", "background", "stream"}
Working == {"opening", "pipeline", "saving"}
Live == Working \cup {"returning", "raised", "retried"}
Ended == {"done", "failed", "killed", "lost", "superseded", "crashed"}
Statuses == {"absent", "created", "completed"}

\* A message is unacknowledged while an execution holds it (holder 0: nobody);
\* `from' is the execution that published it, 0 for the API.
Tasks == [run : Runs, retries : 0..MaxRetries, from : 0..MaxExecs, holder : 0..MaxExecs]

Faults == crashes + Cardinality(missed)

TaskOf(e) == CHOOSE t \in tasks : t.holder = e

--------------------------------------------------------------------------------

Init ==
    /\ mode = [r \in Runs |-> "none"]
    /\ tasks = {}
    /\ background = {}
    /\ started = 0
    /\ kind = [e \in Execs |-> "none"]
    /\ run = [e \in Execs |-> CHOOSE r \in Runs : TRUE]
    /\ stage = [e \in Execs |-> "none"]
    /\ sess = [e \in Execs |-> 0]
    /\ saved = {}
    /\ cache = [s \in SessionIds |-> "absent"]
    /\ missed = {}
    /\ row = [s \in SessionIds |-> "absent"]
    /\ apiDb \in BOOLEAN
    /\ crashes = 0

execVars == <<started, kind, run, stage, sess, saved>>
storeVars == <<cache, missed, row>>

\* An execution of run_pipeline for request r begins.
Launch(r, k) ==
    /\ started < MaxExecs
    /\ started' = started + 1
    /\ kind' = [kind EXCEPT ![started + 1] = k]
    /\ run' = [run EXCEPT ![started + 1] = r]
    /\ stage' = [stage EXCEPT ![started + 1] = "opening"]
    /\ UNCHANGED <<sess, saved, storeVars, apiDb, crashes>>

(***************************************************************************)
(* The API: create_run and stream_run.                                     *)
(***************************************************************************)

Publish(r) ==
    tasks' = tasks \cup {[run |-> r, retries |-> 0, from |-> 0, holder |-> 0]}

\* .delay() returned: the task is queued.
SubmitQueued(r) ==
    /\ mode[r] = "none"
    /\ Publish(r)
    /\ mode' = [mode EXCEPT ![r] = "queued"]
    /\ UNCHANGED <<background, execVars, storeVars, apiDb, crashes>>

\* .delay() raised: a background task is added.  The broker may have accepted
\* the message before the error reached the API.
SubmitBackground(r) ==
    /\ mode[r] = "none"
    /\ Publish(r) \/ UNCHANGED tasks
    /\ mode' = [mode EXCEPT ![r] = "running"]
    /\ background' = background \cup {r}
    /\ UNCHANGED <<execVars, storeVars, apiDb, crashes>>

SubmitStream(r) ==
    /\ mode[r] = "none"
    /\ mode' = [mode EXCEPT ![r] = "stream"]
    /\ Launch(r, "stream")
    /\ UNCHANGED <<tasks, background>>

\* FastAPI runs the task once the response is sent.
StartBackground(r) ==
    /\ r \in background
    /\ background' = background \ {r}
    /\ Launch(r, "background")
    /\ UNCHANGED <<mode, tasks>>

(***************************************************************************)
(* run_pipeline.                                                           *)
(***************************************************************************)

Move(e, from, to) ==
    /\ stage[e] = from
    /\ stage' = [stage EXCEPT ![e] = to]

\* What becomes of session s when Redis refuses a write, or drops a key.
Misses(s) ==
    /\ s \in missed \/ Faults < MaxFaults
    /\ missed' = missed \cup {s}

\* set_session_state: the backend swallows every error.
WriteState(s, status) ==
    \/ cache' = [cache EXCEPT ![s] = status] /\ UNCHANGED missed
    \/ Misses(s) /\ UNCHANGED cache

\* Seeded fault: a session the store does not know is created under the
\* request's id.
OpenUnderRequest(e) ==
    /\ Move(e, "opening", "pipeline")
    /\ sess' = [sess EXCEPT ![e] = run[e]]
    /\ WriteState(run[e], "created")
    /\ UNCHANGED <<mode, tasks, background, started, kind, run, saved, row, apiDb, crashes>>

\* SessionManager.get_or_create with the request's id: resume the session the
\* store knows by that id, or create one, under a fresh uuid.
Open(e) ==
    /\ Move(e, "opening", "pipeline")
    /\ IF cache[run[e]] # "absent"
         THEN /\ sess' = [sess EXCEPT ![e] = run[e]]
              /\ UNCHANGED <<cache, missed>>
         ELSE /\ sess' = [sess EXCEPT ![e] = e]
              /\ WriteState(e, "created")
    /\ UNCHANGED <<mode, tasks, background, started, kind, run, saved, row, apiDb, crashes>>

\* An agent, a stage or Celery's soft time limit raises in run_pipeline.  (In
\* save() the exception would be swallowed: SaveFails.)
Raises(e) ==
    /\ stage[e] \in Working \ {"saving"}
    /\ stage' = [stage EXCEPT ![e] = "raised"]
    /\ UNCHANGED <<mode, tasks, background, started, kind, run, sess, saved, storeVars, apiDb, crashes>>

\* Seeded fault: the session is not marked before it is saved.
CompleteUnmarked(e) ==
    /\ Move(e, "pipeline", "saving")
    /\ UNCHANGED <<mode, tasks, background, started, kind, run, sess, saved, storeVars, apiDb, crashes>>

\* The pipeline returns, and mark_completed writes the session to the session
\* store, whatever becomes of the database.
Complete(e) ==
    /\ Move(e, "pipeline", "saving")
    /\ WriteState(sess[e], "completed")
    /\ UNCHANGED <<mode, tasks, background, started, kind, run, sess, saved, row, apiDb, crashes>>

\* The engine is made in the API's startup handler and by the command line;
\* nothing makes it in a Celery worker.
HasEngine(e) == kind[e] # "celery" /\ apiDb

\* PersistenceService.save commits: upsert_or_create completes a row that was
\* there and creates one, in state "created", that was not.
SaveCommits(e) ==
    /\ HasEngine(e)
    /\ Move(e, "saving", "returning")
    /\ row' = [row EXCEPT ![sess[e]] = IF @ = "absent" THEN "created" ELSE "completed"]
    /\ saved' = saved \cup {e}
    /\ UNCHANGED <<mode, tasks, background, started, kind, run, sess, cache, missed, apiDb, crashes>>

\* An exception in _persist rolls the transaction back.
SaveFails(e) ==
    /\ HasEngine(e)
    /\ Move(e, "saving", "returning")
    /\ UNCHANGED <<mode, tasks, background, started, kind, run, sess, saved, storeVars, apiDb, crashes>>

\* is_available() is false.  save() returns False in either case, and
\* run_pipeline does not look.
SaveSkipped(e) ==
    /\ ~HasEngine(e)
    /\ Move(e, "saving", "returning")
    /\ UNCHANGED <<mode, tasks, background, started, kind, run, sess, saved, storeVars, apiDb, crashes>>

(***************************************************************************)
(* The end of an execution: the thread, the background task, or Celery.    *)
(***************************************************************************)

\* Seeded fault: the acknowledgement is left out.
AckForgotten(e) == UNCHANGED tasks

\* Celery forgets a message when its task is over.
Ack(e) == tasks' = {t \in tasks : t.holder # e}

\* _execute_run and the stream's thread log an exception; Celery's task gives
\* up after its last retry.
OutOfRetries(e) == kind[e] = "celery" => TaskOf(e).retries >= MaxRetries

Return(e) ==
    /\ \/ Move(e, "returning", "done")
       \/ Move(e, "raised", "failed") /\ OutOfRetries(e)
    /\ Ack(e)
    /\ UNCHANGED <<mode, background, started, kind, run, sess, saved, storeVars, apiDb, crashes>>

\* Seeded fault: a retry that does not count.
RetryUncounted(e) ==
    /\ Move(e, "raised", "retried")
    /\ ~OutOfRetries(e)
    /\ tasks' = tasks \cup {[TaskOf(e) EXCEPT !.from = e, !.holder = 0]}
    /\ UNCHANGED <<mode, background, started, kind, run, sess, saved, storeVars, apiDb, crashes>>

\* self.retry() publishes the next attempt, then raises Retry; Celery
\* acknowledges the old message afterwards.
Retry(e) ==
    /\ Move(e, "raised", "retried")
    /\ ~OutOfRetries(e)
    /\ LET t == TaskOf(e)
       IN  tasks' = tasks \cup
             {[run |-> t.run, retries |-> t.retries + 1, from |-> e, holder |-> 0]}
    /\ UNCHANGED <<mode, background, started, kind, run, sess, saved, storeVars, apiDb, crashes>>

AckRetried(e) ==
    /\ Move(e, "retried", "superseded")
    /\ Ack(e)
    /\ UNCHANGED <<mode, background, started, kind, run, sess, saved, storeVars, apiDb, crashes>>

\* The broker does not take the next attempt: self.retry() raises Reject, which
\* Celery answers by dropping the message.
RetryRefused(e) ==
    /\ Move(e, "raised", "lost")
    /\ ~OutOfRetries(e)
    /\ Ack(e)
    /\ UNCHANGED <<mode, background, started, kind, run, sess, saved, storeVars, apiDb, crashes>>

(***************************************************************************)
(* The environment: the broker, the workers, the API process.              *)
(***************************************************************************)

\* Seeded fault: a message is acknowledged when a worker takes it.
DeliverAckedEarly(t) ==
    /\ TaskQueue \in WorkerQueues
    /\ t.holder = 0
    /\ tasks' = tasks \ {t}
    /\ Launch(t.run, "celery")
    /\ UNCHANGED <<mode, background>>

\* A worker takes a message of a queue it consumes; it is acknowledged later.
Deliver(t) ==
    /\ TaskQueue \in WorkerQueues
    /\ t.holder = 0
    /\ tasks' = (tasks \ {t}) \cup {[t EXCEPT !.holder = started + 1]}
    /\ Launch(t.run, "celery")
    /\ UNCHANGED <<mode, background>>

\* Celery kills a task at its hard time limit and acknowledges it.
HardTimeLimit(e) ==
    /\ kind[e] = "celery"
    /\ stage[e] \in Live
    /\ stage' = [stage EXCEPT ![e] = "killed"]
    /\ Ack(e)
    /\ UNCHANGED <<mode, background, started, kind, run, sess, saved, storeVars, apiDb, crashes>>

\* The process that runs a task is killed (for want of memory, say) under a
\* worker that lives on: task_reject_on_worker_lost is not set, so the worker
\* acknowledges the message.
ChildLost(e) ==
    /\ Faults < MaxFaults
    /\ crashes' = crashes + 1
    /\ kind[e] = "celery"
    /\ stage[e] \in Live
    /\ stage' = [stage EXCEPT ![e] = "lost"]
    /\ Ack(e)
    /\ UNCHANGED <<mode, background, started, kind, run, sess, saved, storeVars, apiDb>>

\* A worker crashes as a whole, with its connection to the broker, which will
\* deliver its unacknowledged message again.  (One action for each task it ran.)
WorkerCrash(e) ==
    /\ Faults < MaxFaults
    /\ crashes' = crashes + 1
    /\ kind[e] = "celery"
    /\ stage[e] \in Live
    /\ stage' = [stage EXCEPT ![e] = "crashed"]
    /\ tasks' = {IF t.holder = e THEN [t EXCEPT !.holder = 0] ELSE t : t \in tasks}
    /\ UNCHANGED <<mode, background, started, kind, run, sess, saved, storeVars, apiDb>>

\* The API process crashes with its threads and background tasks, and starts
\* again, with or without its database.
ApiCrash ==
    /\ Faults < MaxFaults
    /\ crashes' = crashes + 1
    /\ stage' = [e \in Execs |->
                    IF kind[e] \in {"background", "stream"} /\ stage[e] \in Live
                      THEN "crashed" ELSE stage[e]]
    /\ background' = {}
    /\ apiDb' \in BOOLEAN
    /\ UNCHANGED <<mode, tasks, started, kind, run, sess, saved, storeVars>>

\* A session's key reaches its time to live, or Redis evicts it.
Expire(s) ==
    /\ cache[s] # "absent"
    /\ Misses(s)
    /\ cache' = [cache EXCEPT ![s] = "absent"]
    /\ UNCHANGED <<mode, tasks, background, execVars, row, apiDb, crashes>>

--------------------------------------------------------------------------------

Submit(r) == SubmitQueued(r) \/ SubmitBackground(r) \/ SubmitStream(r)

Advance(e) ==
    \/ Open(e) \/ Complete(e) \/ Raises(e)
    \/ SaveCommits(e) \/ SaveFails(e) \/ SaveSkipped(e)
    \/ Return(e) \/ Retry(e) \/ AckRetried(e)

Next ==
    \/ \E r \in Runs : Submit(r) \/ StartBackground(r)
    \/ \E t \in tasks : Deliver(t)
    \/ \E e \in Execs : \/ Advance(e) \/ RetryRefused(e) \/ HardTimeLimit(e)
                        \/ ChildLost(e) \/ WorkerCrash(e)
    \/ ApiCrash
    \/ \E s \in SessionIds : Expire(s)

\* What goes on by itself: executions, workers that take messages, background tasks.
Progress ==
    \/ \E r \in Runs : StartBackground(r)
    \/ \E t \in tasks : Deliver(t)
    \/ \E e \in Execs : Advance(e)

\* The system does not stop while it has something to do; nobody has to submit a
\* run, and nothing has to crash or time out.  (Fairness of each execution is not
\* needed: each makes finitely many steps.)
Spec == Init /\ [][Next]_vars /\ WF_vars(Progress)

--------------------------------------------------------------------------------

TypeOK ==
    /\ mode \in [Runs -> {"none", "queued", "running", "stream"}]
    /\ tasks \subseteq Tasks
    /\ background \subseteq Runs
    /\ started \in 0..MaxExecs
    /\ kind \in [Execs -> Kinds]
    /\ run \in [Execs -> Runs]
    /\ stage \in [Execs -> Live \cup Ended \cup {"none"}]
    /\ sess \in [Execs -> SessionIds \cup {0}]
    /\ saved \subseteq Execs
    /\ cache \in [SessionIds -> Statuses]
    /\ missed \subseteq SessionIds
    /\ row \in [SessionIds -> Statuses]
    /\ apiDb \in BOOLEAN
    /\ crashes \in Nat

ExecsOf(r) == {e \in 1..started : run[e] = r}

\* An execution of the request was the last one: it returned, raised with no
\* retry left, reached the hard time limit, or was lost with its message.
Finished(r) ==
    \E e \in ExecsOf(r) : stage[e] \in {"done", "failed", "killed", "lost"}

\* A queued run disappears in two ways only, of those the model has: the process
\* that executes it is killed under its worker, or the broker does not take its
\* next attempt.  Otherwise the broker has its message until an execution was the
\* last one, across retries (one that is retried does not count) and at
\* whatever step a whole worker crashes.  task_acks_late, and a retry published
\* before the acknowledgement, are what this rests on.
QueuedNotLost ==
    \A r \in Runs : mode[r] = "queued" =>
        (\E t \in tasks : t.run = r) \/ Finished(r)

\* Retries and redeliveries together stay bounded: one message is executed at
\* most 1 + max_retries times, and each crash can start one such chain again.
AttemptsBounded ==
    \A r \in Runs :
        Cardinality({e \in ExecsOf(r) : kind[e] = "celery"})
            <= (MaxRetries + 1) * (crashes + 1)

\* Executions never write each other's session, although redelivery, retry and
\* an ambiguous dispatch all execute one request, and one id, several times.
SessionsNotShared ==
    \A e, f \in 1..started : e # f /\ sess[e] # 0 => sess[e] # sess[f]

\* The database does not run ahead of the session store by anything but a fault
\* of Redis: a session with a row is marked completed in the store, or is one of
\* which Redis refused a write or dropped the key.
RowsAreCompletedSessions ==
    \A s \in SessionIds :
        row[s] # "absent" => cache[s] = "completed" \/ s \in missed

\* Nothing is left to do for a request.
Settled(r) ==
    /\ \A t \in tasks : t.run # r
    /\ r \notin background
    /\ \A e \in ExecsOf(r) : stage[e] \in Ended

\* Every request that was accepted comes to rest: no retry goes on for ever and
\* no message stays in the broker.
RunsSettle == \A r \in Runs : mode[r] # "none" ~> Settled(r)

\* "Celery (if broker reachable) - distributed, retriable, auto-scaled" is the
\* first dispatch of README.md:364, and `worker' its "Celery pipeline worker": a
\* run that was queued is executed.  The worker of docker-compose.yml consumes
\* the queue "default", .delay() publishes to Celery's default queue, "celery".
QueuedRunsExecuted ==
    \A r \in Runs : mode[r] = "queued" ~> ExecsOf(r) # {}

\* "The X-Session-Id response header carries the session ID for follow-up
\* polling via GET /runs/{session_id}/status" (api/routes/stream.py): when a
\* run was saved, there is a row under the id the client was given.
PollableById ==
    \A e \in saved : row[run[e]] # "absent"

================================================================================
