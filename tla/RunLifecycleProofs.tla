--------------------------- MODULE RunLifecycleProofs --------------------------
(***************************************************************************)
(* Proofs about RunLifecycle for every number of requests, retries,        *)
(* executions, crashes and faults of Redis: its types, how a queued run can*)
(* be lost, that executions do not share sessions, how far the database    *)
(* runs ahead of the session store, and that the executions of a request   *)
(* are bounded.                                                            *)
(***************************************************************************)
EXTENDS RunLifecycle, FiniteSetTheorems, TLAPS

\* A message in a worker's hands names an execution that runs its request.
HoldersRun ==
    \A t \in tasks : t.holder # 0 =>
        t.holder \in 1..started /\ run[t.holder] = t.run

\* An execution has one message.
HeldOnce ==
    \A t, u \in tasks : t.holder # 0 /\ t.holder = u.holder => t = u

\* A retried execution is not the last: the broker has a message of its request
\* that was retried more often, or an execution of it was the last one.
RetriesFollow ==
    \A e \in Execs, r \in Runs : stage[e] = "retried" /\ run[e] = r =>
        \/ Finished(r)
        \/ \E t, u \in tasks : t.holder = e /\ u.run = r /\ u.retries > t.retries

\* Celery has not forgotten the message of an execution that is under way.
UnderwayHeld ==
    \A e \in Execs : kind[e] = "celery" /\ stage[e] \in Live =>
        \E t \in tasks : t.holder = e

\* The session store never learns an id the API made, so every execution opens
\* a session of its own.
OwnSession ==
    /\ \A r \in Runs : cache[r] = "absent"
    /\ \A e \in Execs : sess[e] \in {0, e} /\ (stage[e] = "pipeline" => sess[e] = e)

--------------------------------------------------------------------------------

\* Celery's message of an execution that holds one.
LEMMA TaskOfExecution ==
    ASSUME UnderwayHeld, NEW e \in Execs, kind[e] = "celery", stage[e] \in Live
    PROVE  TaskOf(e) \in tasks /\ TaskOf(e).holder = e
<1>1. \E t \in tasks : t.holder = e
  BY DEF UnderwayHeld
<1> QED BY <1>1 DEF TaskOf

\* What starting an execution does to the types.
LEMMA LaunchTypes ==
    ASSUME TypeOK, NEW r \in Runs, NEW k \in Kinds, Launch(r, k)
    PROVE  /\ started + 1 \in Execs /\ started' = started + 1
           /\ started' \in 0..MaxExecs
           /\ kind' \in [Execs -> Kinds]
           /\ run' \in [Execs -> Runs]
           /\ stage' \in [Execs -> Live \cup Ended \cup {"none"}]
<1>1. started \in 0..MaxExecs /\ started < MaxExecs /\ started' = started + 1
  BY DEF TypeOK, Launch
<1>2. started + 1 \in Execs /\ started' \in 0..MaxExecs
  BY <1>1, RunLifecycleAssumption DEF Execs, RunLifecycleAssumption
<1>3. "opening" \in Live
  BY DEF Live, Working
<1> QED BY <1>1, <1>2, <1>3 DEF TypeOK, Launch

\* A step of an execution changes its stage to one of the known stages.
LEMMA MoveTypes ==
    ASSUME TypeOK, NEW e \in Execs, NEW from, NEW to \in Live \cup Ended, Move(e, from, to)
    PROVE  stage' \in [Execs -> Live \cup Ended \cup {"none"}]
  BY DEF TypeOK, Move

\* A write to the session store is kept, or the session is one Redis missed.
LEMMA WriteStateKept ==
    ASSUME TypeOK, NEW s \in SessionIds, NEW status \in Statuses, WriteState(s, status)
    PROVE  /\ cache' \in [SessionIds -> Statuses]
           /\ missed' \subseteq SessionIds /\ missed \subseteq missed'
           /\ \A x \in SessionIds \ {s} : cache'[x] = cache[x]
           /\ cache'[s] = status \/ s \in missed'
<1>1. CASE cache' = [cache EXCEPT ![s] = status] /\ UNCHANGED missed
  BY <1>1 DEF TypeOK
<1>2. CASE Misses(s) /\ UNCHANGED cache
  BY <1>2 DEF TypeOK, Misses
<1> QED BY <1>1, <1>2 DEF WriteState

LEMMA InitTypes == Init => TypeOK
<1> SUFFICES ASSUME Init PROVE TypeOK
  OBVIOUS
<1>1. (CHOOSE r \in Runs : TRUE) \in Runs
  BY RunLifecycleAssumption DEF RunLifecycleAssumption
<1>2. 0 \in 0..MaxExecs /\ 0 \in Nat
  BY RunLifecycleAssumption DEF RunLifecycleAssumption
<1> QED BY <1>1, <1>2 DEF Init, TypeOK, Kinds, Statuses

LEMMA StepTypes ==
    ASSUME TypeOK, UnderwayHeld, OwnSession, [Next]_vars
    PROVE  TypeOK'
<1> USE RunLifecycleAssumption DEF RunLifecycleAssumption
<1>0. /\ MaxExecs \in Nat /\ 0 \in 0..MaxExecs /\ 0 \in 0..MaxRetries
      /\ Execs \subseteq 0..MaxExecs /\ Execs \subseteq SessionIds /\ Runs \subseteq SessionIds
  BY DEF Execs, SessionIds
<1>1. \A r \in Runs : Publish(r) => tasks' \subseteq Tasks
  BY <1>0 DEF Publish, TypeOK, Tasks
<1>2. \A e \in Execs : Ack(e) => tasks' \subseteq Tasks
  BY DEF Ack, TypeOK
<1>3. ASSUME NEW r \in Runs, SubmitQueued(r) PROVE TypeOK'
  BY <1>1, <1>3 DEF SubmitQueued, TypeOK, execVars, storeVars
<1>4. ASSUME NEW r \in Runs, SubmitBackground(r) PROVE TypeOK'
  <2>1. tasks' \subseteq Tasks
    BY <1>1, <1>4 DEF SubmitBackground, TypeOK
  <2> QED BY <1>4, <2>1 DEF SubmitBackground, TypeOK, execVars, storeVars
<1>5. ASSUME NEW r \in Runs, SubmitStream(r) PROVE TypeOK'
  <2>1. Launch(r, "stream") /\ "stream" \in Kinds
    BY <1>5 DEF SubmitStream, Kinds
  <2> QED BY <1>5, <2>1, LaunchTypes DEF SubmitStream, Launch, TypeOK, storeVars
<1>6. ASSUME NEW r \in Runs, StartBackground(r) PROVE TypeOK'
  <2>1. Launch(r, "background") /\ "background" \in Kinds
    BY <1>6 DEF StartBackground, Kinds
  <2> QED BY <1>6, <2>1, LaunchTypes DEF StartBackground, Launch, TypeOK, storeVars
<1>7. ASSUME NEW t \in tasks, Deliver(t) PROVE TypeOK'
  <2>1. Launch(t.run, "celery") /\ "celery" \in Kinds /\ t \in Tasks /\ t.run \in Runs
    BY <1>7 DEF Deliver, Kinds, TypeOK, Tasks
  <2>2. started + 1 \in 0..MaxExecs
    BY <2>1, <1>0, LaunchTypes
  <2>3. [t EXCEPT !.holder = started + 1] \in Tasks
    BY <2>1, <2>2 DEF Tasks
  <2>4. tasks' \subseteq Tasks
    BY <2>3, <1>7 DEF Deliver, TypeOK
  <2> QED BY <1>7, <2>1, <2>4, LaunchTypes DEF Deliver, Launch, TypeOK, storeVars
<1>8. ASSUME NEW e \in Execs, Advance(e) PROVE TypeOK'
  <2> USE <1>0 DEF Live, Working, Ended
  <2>1. CASE Open(e)
    <3>1. stage' \in [Execs -> Live \cup Ended \cup {"none"}]
      BY <2>1, MoveTypes DEF Open
    <3>2. run[e] \in SessionIds /\ e \in SessionIds
      BY DEF TypeOK
    <3>3. sess' \in [Execs -> SessionIds \cup {0}]
      BY <2>1, <3>2 DEF Open, TypeOK
    <3>4. cache' \in [SessionIds -> Statuses] /\ missed' \subseteq SessionIds
      <4>1. CASE WriteState(e, "created")
        BY <3>2, <4>1, WriteStateKept DEF Statuses
      <4>2. CASE UNCHANGED <<cache, missed>>
        BY <4>2 DEF TypeOK
      <4> QED BY <2>1, <4>1, <4>2 DEF Open
    <3> QED BY <2>1, <3>1, <3>3, <3>4 DEF Open, TypeOK
  <2>2. CASE Complete(e)
    <3>1. stage' \in [Execs -> Live \cup Ended \cup {"none"}]
      BY <2>2, MoveTypes DEF Complete
    <3>2. sess[e] \in SessionIds
      BY <2>2 DEF Complete, Move, OwnSession, SessionIds
    <3>3. cache' \in [SessionIds -> Statuses] /\ missed' \subseteq SessionIds
      BY <2>2, <3>2, WriteStateKept DEF Complete, Statuses
    <3> QED BY <2>2, <3>1, <3>3 DEF Complete, TypeOK
  <2>3. CASE Raises(e)
    <3>1. stage' \in [Execs -> Live \cup Ended \cup {"none"}]
      BY <2>3 DEF Raises, TypeOK
    <3> QED BY <2>3, <3>1 DEF Raises, TypeOK, storeVars
  <2>4. CASE SaveCommits(e)
    <3>1. stage' \in [Execs -> Live \cup Ended \cup {"none"}]
      BY <2>4, MoveTypes DEF SaveCommits
    <3>2. row' \in [SessionIds -> Statuses]
      BY <2>4 DEF SaveCommits, TypeOK, Statuses
    <3> QED BY <2>4, <3>1, <3>2 DEF SaveCommits, TypeOK
  <2>5. CASE SaveFails(e)
    <3>1. stage' \in [Execs -> Live \cup Ended \cup {"none"}]
      BY <2>5, MoveTypes DEF SaveFails
    <3> QED BY <2>5, <3>1 DEF SaveFails, TypeOK, storeVars
  <2>6. CASE SaveSkipped(e)
    <3>1. stage' \in [Execs -> Live \cup Ended \cup {"none"}]
      BY <2>6, MoveTypes DEF SaveSkipped
    <3> QED BY <2>6, <3>1 DEF SaveSkipped, TypeOK, storeVars
  <2>7. CASE Return(e)
    <3>1. stage' \in [Execs -> Live \cup Ended \cup {"none"}]
      BY <2>7, MoveTypes DEF Return
    <3> QED BY <2>7, <3>1, <1>2 DEF Return, TypeOK, storeVars
  <2>8. CASE Retry(e)
    <3>1. stage' \in [Execs -> Live \cup Ended \cup {"none"}]
      BY <2>8, MoveTypes DEF Retry
    <3>2. kind[e] = "celery" /\ stage[e] \in Live
      BY <2>8 DEF Retry, OutOfRetries, Move
    <3>3. TaskOf(e) \in Tasks
      BY <3>2, TaskOfExecution DEF TypeOK
    <3>4. TaskOf(e).retries + 1 \in 0..MaxRetries
      BY <2>8, <3>2, <3>3 DEF Retry, OutOfRetries, Tasks
    <3>5. [run |-> TaskOf(e).run, retries |-> TaskOf(e).retries + 1, from |-> e, holder |-> 0] \in Tasks
      BY <3>3, <3>4 DEF Tasks
    <3>6. tasks' \subseteq Tasks
      BY <2>8, <3>5 DEF Retry, TypeOK
    <3> QED BY <2>8, <3>1, <3>6 DEF Retry, TypeOK, storeVars
  <2>9. CASE AckRetried(e)
    <3>1. stage' \in [Execs -> Live \cup Ended \cup {"none"}]
      BY <2>9, MoveTypes DEF AckRetried
    <3> QED BY <2>9, <3>1, <1>2 DEF AckRetried, TypeOK, storeVars
  <2> QED BY <1>8, <2>1, <2>2, <2>3, <2>4, <2>5, <2>6, <2>7, <2>8, <2>9 DEF Advance
<1>9. ASSUME NEW e \in Execs, HardTimeLimit(e) PROVE TypeOK'
  BY <1>2, <1>9 DEF HardTimeLimit, TypeOK, storeVars, Ended
<1>13. ASSUME NEW e \in Execs, RetryRefused(e) PROVE TypeOK'
  <2>1. stage' \in [Execs -> Live \cup Ended \cup {"none"}]
    BY <1>13, MoveTypes DEF RetryRefused, Ended
  <2> QED BY <2>1, <1>2, <1>13 DEF RetryRefused, TypeOK, storeVars
<1>14. ASSUME NEW e \in Execs, ChildLost(e) PROVE TypeOK'
  BY <1>2, <1>14 DEF ChildLost, TypeOK, storeVars, Ended
<1>15. ASSUME NEW s \in SessionIds, Expire(s) PROVE TypeOK'
  <2>1. cache' \in [SessionIds -> Statuses] /\ missed' \subseteq SessionIds
    BY <1>15 DEF Expire, Misses, TypeOK, Statuses
  <2> QED BY <1>15, <2>1 DEF Expire, execVars, TypeOK
<1>10. ASSUME NEW e \in Execs, WorkerCrash(e) PROVE TypeOK'
  <2>1. \A t \in Tasks : [t EXCEPT !.holder = 0] \in Tasks
    BY <1>0 DEF Tasks
  <2>2. tasks' \subseteq Tasks
    BY <1>10, <2>1 DEF WorkerCrash, TypeOK
  <2> QED BY <1>10, <2>2 DEF WorkerCrash, TypeOK, storeVars, Ended
<1>11. CASE ApiCrash
  <2>1. stage' \in [Execs -> Live \cup Ended \cup {"none"}]
    BY <1>11 DEF ApiCrash, TypeOK, Ended
  <2> QED BY <1>11, <2>1 DEF ApiCrash, TypeOK, storeVars
<1>12. CASE UNCHANGED vars
  BY <1>12 DEF vars, TypeOK
<1> QED
  BY <1>3, <1>4, <1>5, <1>6, <1>7, <1>8, <1>9, <1>10, <1>11, <1>12, <1>13, <1>14, <1>15
  DEF Next, Submit

--------------------------------------------------------------------------------
(***************************************************************************)
(* How a queued run can be lost.  The steps fall into classes by what they *)
(* do to the messages of the broker.  The hard one is the acknowledgement  *)
(* of a retried execution: its follow-up may be in the hands of another one*)
(* that was retried itself, and so on; the count of retries says that the  *)
(* chain does not come back.                                               *)
(***************************************************************************)

Final == {"done", "failed", "killed", "lost"}

Safe == HoldersRun /\ HeldOnce /\ UnderwayHeld /\ RetriesFollow /\ QueuedNotLost

LEMMA StartedAreExecs == TypeOK => 1..started \subseteq Execs /\ 0 \notin Execs
  BY RunLifecycleAssumption DEF TypeOK, Execs, RunLifecycleAssumption

\* A request whose last execution is over stays so when stages that are final
\* stay and no execution changes its request.
LEMMA FinishedStays ==
    ASSUME TypeOK, started' >= started, started' \in Int,
           \A e \in 1..started : run'[e] = run[e] /\ (stage[e] \in Final => stage'[e] = stage[e]),
           NEW r, Finished(r)
    PROVE  Finished(r)'
<1>1. started \in Int /\ \A e \in 1..started : e \in 1..started'
  BY DEF TypeOK
<1> QED BY <1>1 DEF Finished, ExecsOf, Final

\* An execution goes on, or a process outside Celery dies, and the broker does
\* not notice.
LEMMA QuietStepSafe ==
    ASSUME TypeOK, Safe, UNCHANGED <<mode, tasks, started, kind, run>>,
           \A e \in Execs : stage'[e] \in Live => stage[e] \in Live,
           \A e \in Execs : stage'[e] = "retried" => stage[e] = "retried",
           \A e \in Execs : stage[e] \in Final => stage'[e] = stage[e]
    PROVE  Safe'
<1>1. HoldersRun' /\ HeldOnce'
  BY DEF Safe, HoldersRun, HeldOnce
<1>2. UnderwayHeld'
  BY DEF Safe, UnderwayHeld
<1>3. \A r : Finished(r) => Finished(r)'
  BY FinishedStays, StartedAreExecs DEF TypeOK
<1>4. RetriesFollow'
  BY <1>3 DEF Safe, RetriesFollow
<1>5. QueuedNotLost'
  BY <1>3 DEF Safe, QueuedNotLost
<1> QED BY <1>1, <1>2, <1>4, <1>5 DEF Safe

\* What an acknowledgement leaves of the messages and their holders.
LEMMA AckHolders ==
    ASSUME TypeOK, Safe, NEW e \in Execs, NEW to \in Ended,
           stage' = [stage EXCEPT ![e] = to], Ack(e),
           UNCHANGED <<mode, started, kind, run>>
    PROVE  /\ tasks' = {t \in tasks : t.holder # e}
           /\ \A f \in Execs : stage'[f] = IF f = e THEN to ELSE stage[f]
           /\ HoldersRun' /\ HeldOnce' /\ UnderwayHeld'
<1>1. tasks' = {t \in tasks : t.holder # e}
  BY DEF Ack
<1>2. HoldersRun' /\ HeldOnce'
  BY <1>1 DEF Safe, HoldersRun, HeldOnce
<1>3. \A f \in Execs : stage'[f] = IF f = e THEN to ELSE stage[f]
  BY DEF TypeOK
<1>4. UnderwayHeld'
  <2> SUFFICES ASSUME NEW f \in Execs, kind[f] = "celery", stage'[f] \in Live
               PROVE  \E t \in tasks' : t.holder = f
    BY DEF UnderwayHeld
  <2>1. f # e /\ stage[f] \in Live
    BY <1>3 DEF Live, Working, Ended
  <2> QED BY <1>1, <2>1 DEF Safe, UnderwayHeld
<1> QED BY <1>1, <1>2, <1>3, <1>4

\* An execution is the last one of its request, and Celery forgets the message.
LEMMA AckStepSafe ==
    ASSUME TypeOK, Safe, NEW e \in Execs, NEW to \in Final,
           stage[e] \in Live, stage' = [stage EXCEPT ![e] = to], Ack(e),
           UNCHANGED <<mode, started, kind, run>>
    PROVE  Safe'
<1>1. /\ tasks' = {t \in tasks : t.holder # e}
      /\ \A f \in Execs : stage'[f] = IF f = e THEN to ELSE stage[f]
      /\ HoldersRun' /\ HeldOnce' /\ UnderwayHeld'
  <2>1. to \in Ended
    BY DEF Final, Ended
  <2> QED BY <2>1, AckHolders
<1>2. \A r : Finished(r) => Finished(r)'
  BY <1>1, FinishedStays, StartedAreExecs DEF TypeOK, Final, Live, Working
<1>3. ASSUME NEW t \in tasks
      PROVE  t \in tasks' \/ Finished(t.run)'
  <2>1. CASE t.holder # e
    BY <1>1, <2>1
  <2>2. CASE t.holder = e
    <3>1. e \in 1..started /\ run[e] = t.run
      BY <2>2, StartedAreExecs DEF Safe, HoldersRun
    <3> QED BY <1>1, <3>1 DEF Finished, ExecsOf, Final
  <2> QED BY <2>1, <2>2
<1>4. RetriesFollow'
  <2> SUFFICES ASSUME NEW f \in Execs, NEW r \in Runs, stage'[f] = "retried", run[f] = r,
                      ~Finished(r)'
               PROVE  \E t, u \in tasks' : t.holder = f /\ u.run = r /\ u.retries > t.retries
    BY DEF RetriesFollow
  <2>1. f # e /\ stage[f] = "retried"
    BY <1>1 DEF Final
  <2>2. PICK t, u \in tasks : t.holder = f /\ u.run = r /\ u.retries > t.retries
    BY <1>2, <2>1 DEF Safe, RetriesFollow
  <2> QED BY <1>1, <1>3, <2>1, <2>2
<1>5. QueuedNotLost'
  BY <1>2, <1>3 DEF Safe, QueuedNotLost
<1> QED BY <1>1, <1>4, <1>5 DEF Safe

\* A retried execution has its message acknowledged: the follow-up, or the
\* follow-up's follow-up, is still there.
LEMMA SupersededSafe ==
    ASSUME TypeOK, Safe, NEW e \in Execs, AckRetried(e)
    PROVE  Safe'
<1>0. /\ stage[e] = "retried" /\ stage' = [stage EXCEPT ![e] = "superseded"] /\ Ack(e)
      /\ UNCHANGED <<mode, started, kind, run>>
  BY DEF AckRetried, Move
<1>1. /\ tasks' = {t \in tasks : t.holder # e}
      /\ \A f \in Execs : stage'[f] = IF f = e THEN "superseded" ELSE stage[f]
      /\ HoldersRun' /\ HeldOnce' /\ UnderwayHeld'
  BY <1>0, AckHolders DEF Ended
<1>2. \A r : Finished(r) => Finished(r)'
  BY <1>0, <1>1, FinishedStays, StartedAreExecs DEF TypeOK, Final
<1>3. \A t \in tasks : t.retries \in Int
  BY RunLifecycleAssumption DEF TypeOK, Tasks, RunLifecycleAssumption
<1>4. ASSUME NEW t \in tasks, ~Finished(t.run)'
      PROVE  \E u \in tasks' : u.run = t.run /\ u.retries >= t.retries
  <2>1. CASE t.holder # e
    BY <1>1, <1>3, <2>1
  <2>2. CASE t.holder = e
    <3>1. run[e] = t.run
      BY <2>2, StartedAreExecs DEF Safe, HoldersRun
    <3>2. PICK v, u \in tasks : v.holder = e /\ u.run = t.run /\ u.retries > v.retries
      BY <1>0, <1>2, <1>4, <3>1 DEF Safe, RetriesFollow, TypeOK, Tasks
    <3>3. v = t
      BY <2>2, <3>2, StartedAreExecs DEF Safe, HeldOnce
    <3>4. u.holder # e
      BY <1>3, <3>2, StartedAreExecs DEF Safe, HeldOnce
    <3> QED BY <1>1, <1>3, <3>1, <3>2, <3>3, <3>4
  <2> QED BY <2>1, <2>2
<1>5. RetriesFollow'
  <2> SUFFICES ASSUME NEW f \in Execs, NEW r \in Runs, stage'[f] = "retried", run[f] = r,
                      ~Finished(r)'
               PROVE  \E t, u \in tasks' : t.holder = f /\ u.run = r /\ u.retries > t.retries
    BY <1>0 DEF RetriesFollow
  <2>1. f # e /\ stage[f] = "retried"
    BY <1>1
  <2>2. PICK t, u \in tasks : t.holder = f /\ u.run = r /\ u.retries > t.retries
    BY <1>2, <2>1 DEF Safe, RetriesFollow
  <2>3. PICK w \in tasks' : w.run = u.run /\ w.retries >= u.retries
    BY <1>4, <2>2
  <2>4. w.retries > t.retries
    BY <1>1, <1>3, <2>2, <2>3
  <2> QED BY <1>1, <2>1, <2>2, <2>3, <2>4
<1>6. QueuedNotLost'
  BY <1>0, <1>2, <1>4 DEF Safe, QueuedNotLost
<1> QED BY <1>1, <1>5, <1>6 DEF Safe

LEMMA NobodyHoldsNext ==
    ASSUME TypeOK, Safe
    PROVE  \A t \in tasks : t.holder # started + 1
<1>1. started \in Nat
  BY RunLifecycleAssumption DEF TypeOK, RunLifecycleAssumption
<1> QED BY <1>1 DEF Safe, HoldersRun

\* An execution starts; its message, if Celery runs it, is in its hands.
LEMMA LaunchSafe ==
    ASSUME TypeOK, Safe, NEW r \in Runs, NEW k \in Kinds, Launch(r, k),
           \A t \in tasks' : t.holder # 0 =>
               t \in tasks \/ (t.holder = started + 1 /\ t.run = r),
           \A t, u \in tasks' : t.holder = started + 1 /\ u.holder = started + 1 => t = u,
           \A t \in tasks : \E u \in tasks' :
               u.run = t.run /\ u.retries = t.retries /\ (t.holder # 0 => u = t),
           k = "celery" => \E t \in tasks' : t.holder = started + 1,
           \A q \in Runs : mode'[q] = "queued" => mode[q] = "queued"
    PROVE  Safe'
<1>1. /\ started' = started + 1 /\ started \in Nat /\ started + 1 \in Execs
      /\ 1..started \subseteq Execs /\ 0 \notin Execs
  BY LaunchTypes, StartedAreExecs DEF TypeOK
<1>2. \A e \in Execs \ {started + 1} :
        run'[e] = run[e] /\ kind'[e] = kind[e] /\ stage'[e] = stage[e]
  BY DEF Launch, TypeOK
<1>3. run'[started + 1] = r /\ kind'[started + 1] = k /\ stage'[started + 1] = "opening"
  BY <1>1 DEF Launch, TypeOK
<1>4. \A e \in 1..started : e \in 1..started' /\ e \in Execs \ {started + 1}
  BY <1>1
<1>5. HoldersRun'
  <2> SUFFICES ASSUME NEW t \in tasks', t.holder # 0
               PROVE  t.holder \in 1..started' /\ run'[t.holder] = t.run
    BY DEF HoldersRun
  <2>1. CASE t \in tasks
    <3>1. t.holder \in 1..started /\ run[t.holder] = t.run
      BY <2>1 DEF Safe, HoldersRun
    <3> QED BY <3>1, <1>2, <1>4
  <2>2. CASE t.holder = started + 1 /\ t.run = r
    BY <2>2, <1>1, <1>3
  <2> QED BY <2>1, <2>2
<1>6. HeldOnce'
  <2>1. \A t \in tasks : t.holder # started + 1
    BY <1>1 DEF Safe, HoldersRun
  <2> QED BY <1>1, <2>1 DEF Safe, HeldOnce
<1>7. UnderwayHeld'
  <2> SUFFICES ASSUME NEW e \in Execs, kind'[e] = "celery", stage'[e] \in Live
               PROVE  \E t \in tasks' : t.holder = e
    BY DEF UnderwayHeld
  <2>1. CASE e = started + 1
    BY <2>1, <1>3
  <2>2. CASE e # started + 1
    <3>1. kind[e] = "celery" /\ stage[e] \in Live
      BY <2>2, <1>2
    <3>2. PICK t \in tasks : t.holder = e
      BY <3>1 DEF Safe, UnderwayHeld
    <3> QED BY <3>2, <1>1
  <2> QED BY <2>1, <2>2
<1>8. \A q : Finished(q) => Finished(q)'
  BY <1>1, <1>2, <1>4, FinishedStays
<1>9. RetriesFollow'
  <2> SUFFICES ASSUME NEW e \in Execs, NEW q \in Runs, stage'[e] = "retried", run'[e] = q,
                      ~Finished(q)'
               PROVE  \E t, u \in tasks' : t.holder = e /\ u.run = q /\ u.retries > t.retries
    BY DEF RetriesFollow
  <2>1. e # started + 1
    BY <1>3
  <2>2. stage[e] = "retried" /\ run'[e] = run[e]
    BY <1>2, <2>1
  <2>3. PICK t, u \in tasks : t.holder = e /\ u.run = q /\ u.retries > t.retries
    BY <1>8, <2>2 DEF Safe, RetriesFollow
  <2>4. t \in tasks'
    BY <1>1, <2>3
  <2>5. PICK w \in tasks' : w.run = u.run /\ w.retries = u.retries
    BY <2>3
  <2> QED BY <2>2, <2>3, <2>4, <2>5
<1>10. QueuedNotLost'
  <2> SUFFICES ASSUME NEW q \in Runs, mode[q] = "queued"
               PROVE  (\E t \in tasks' : t.run = q) \/ Finished(q)'
    BY DEF QueuedNotLost
  <2> QED BY <1>8 DEF Safe, QueuedNotLost
<1> QED BY <1>5, <1>6, <1>7, <1>9, <1>10 DEF Safe

\* The API puts a message into the broker, or does not.
LEMMA SubmitSafe ==
    ASSUME TypeOK, Safe, NEW r \in Runs,
           SubmitQueued(r) \/ SubmitBackground(r)
    PROVE  Safe'
<1> DEFINE new == [run |-> r, retries |-> 0, from |-> 0, holder |-> 0]
<1>1. UNCHANGED <<started, kind, run, stage>>
  BY DEF SubmitQueued, SubmitBackground, execVars
<1>2. tasks \subseteq tasks' /\ tasks' \subseteq tasks \cup {new}
  BY DEF SubmitQueued, SubmitBackground, Publish
<1>3. new.holder = 0 /\ new.run = r
  OBVIOUS
<1>4. ASSUME NEW q \in Runs, mode'[q] = "queued"
      PROVE  mode[q] = "queued" \/ (q = r /\ new \in tasks')
  BY <1>4 DEF SubmitQueued, SubmitBackground, Publish, TypeOK
<1> HIDE DEF new
<1>5. HoldersRun' /\ HeldOnce' /\ UnderwayHeld'
  BY <1>1, <1>2, <1>3 DEF Safe, HoldersRun, HeldOnce, UnderwayHeld
<1>6. \A q : Finished(q)' = Finished(q)
  BY <1>1 DEF Finished, ExecsOf
<1>7. RetriesFollow'
  BY <1>1, <1>2, <1>6 DEF Safe, RetriesFollow
<1>8. QueuedNotLost'
  BY <1>2, <1>3, <1>4, <1>6 DEF Safe, QueuedNotLost
<1> QED BY <1>5, <1>7, <1>8 DEF Safe

\* A retry is in the broker before the message it replaces is acknowledged.
LEMMA RetrySafe ==
    ASSUME TypeOK, Safe, NEW e \in Execs, Retry(e)
    PROVE  Safe'
<1>0. PICK t, new :
        t = TaskOf(e) /\ new = [run |-> t.run, retries |-> t.retries + 1, from |-> e, holder |-> 0]
  OBVIOUS
<1>1. /\ stage[e] = "raised" /\ stage' = [stage EXCEPT ![e] = "retried"]
      /\ tasks' = tasks \cup {new} /\ kind[e] = "celery"
      /\ UNCHANGED <<mode, started, kind, run>>
  BY <1>0 DEF Retry, Move, OutOfRetries
<1>2. t \in tasks /\ t.holder = e /\ run[e] = t.run /\ t.retries \in Int
  <2>1. t \in tasks /\ t.holder = e
    BY <1>0, <1>1, TaskOfExecution DEF Safe, Live
  <2> QED BY <2>1, StartedAreExecs, RunLifecycleAssumption
      DEF Safe, HoldersRun, TypeOK, Tasks, RunLifecycleAssumption
<1>3. new.holder = 0 /\ new.run = t.run /\ new.retries = t.retries + 1
  BY <1>0
<1>4. HoldersRun' /\ HeldOnce'
  BY <1>1, <1>3 DEF Safe, HoldersRun, HeldOnce
<1>5. \A f \in Execs : stage'[f] = IF f = e THEN "retried" ELSE stage[f]
  BY <1>1 DEF TypeOK
<1>6. UnderwayHeld'
  BY <1>1, <1>5 DEF Safe, UnderwayHeld, Live
<1>7. \A q : Finished(q) => Finished(q)'
  BY <1>1, <1>5, FinishedStays, StartedAreExecs DEF TypeOK, Final
<1>8. RetriesFollow'
  <2> SUFFICES ASSUME NEW f \in Execs, NEW r \in Runs, stage'[f] = "retried", run[f] = r,
                      ~Finished(r)'
               PROVE  \E v, u \in tasks' : v.holder = f /\ u.run = r /\ u.retries > v.retries
    BY <1>1 DEF RetriesFollow
  <2>1. CASE f = e
    BY <1>1, <1>2, <1>3, <2>1
  <2>2. CASE f # e
    BY <1>1, <1>5, <1>7, <2>2 DEF Safe, RetriesFollow
  <2> QED BY <2>1, <2>2
<1>9. QueuedNotLost'
  BY <1>1, <1>7 DEF Safe, QueuedNotLost
<1> QED BY <1>4, <1>6, <1>8, <1>9 DEF Safe

\* A worker's crash gives the message back to the broker.
LEMMA CrashSafe ==
    ASSUME TypeOK, Safe, NEW e \in Execs, WorkerCrash(e)
    PROVE  Safe'
<1> DEFINE back(t) == IF t.holder = e THEN [t EXCEPT !.holder = 0] ELSE t
<1>1. /\ stage[e] \in Live /\ stage' = [stage EXCEPT ![e] = "crashed"]
      /\ tasks' = {back(t) : t \in tasks}
      /\ UNCHANGED <<mode, started, kind, run>>
  BY DEF WorkerCrash
<1>2. \A t \in Tasks : /\ back(t).run = t.run /\ back(t).retries = t.retries
                       /\ back(t).holder = IF t.holder = e THEN 0 ELSE t.holder
                       /\ t.holder # e => back(t) = t
  BY DEF Tasks
<1>3. tasks \subseteq Tasks
  BY DEF TypeOK
<1> HIDE DEF back
<1>4. HoldersRun' /\ HeldOnce'
  BY <1>1, <1>2, <1>3 DEF Safe, HoldersRun, HeldOnce
<1>5. \A f \in Execs : stage'[f] = IF f = e THEN "crashed" ELSE stage[f]
  BY <1>1 DEF TypeOK
<1>6. UnderwayHeld'
  <2> SUFFICES ASSUME NEW f \in Execs, kind[f] = "celery", stage'[f] \in Live
               PROVE  \E t \in tasks' : t.holder = f
    BY <1>1 DEF UnderwayHeld
  <2>1. f # e /\ stage[f] \in Live
    BY <1>5 DEF Live, Working
  <2>2. PICK t \in tasks : t.holder = f
    BY <2>1 DEF Safe, UnderwayHeld
  <2> QED BY <1>1, <1>2, <1>3, <2>1, <2>2
<1>7. \A q : Finished(q) => Finished(q)'
  BY <1>1, <1>5, FinishedStays, StartedAreExecs DEF TypeOK, Final, Live, Working
<1>8. RetriesFollow'
  <2> SUFFICES ASSUME NEW f \in Execs, NEW r \in Runs, stage'[f] = "retried", run[f] = r,
                      ~Finished(r)'
               PROVE  \E t, u \in tasks' : t.holder = f /\ u.run = r /\ u.retries > t.retries
    BY <1>1 DEF RetriesFollow
  <2>1. f # e /\ stage[f] = "retried"
    BY <1>5
  <2>2. PICK t, u \in tasks : t.holder = f /\ u.run = r /\ u.retries > t.retries
    BY <1>7, <2>1 DEF Safe, RetriesFollow
  <2>3. back(t) = t /\ back(t) \in tasks' /\ back(u) \in tasks'
    BY <1>1, <1>2, <1>3, <2>1, <2>2
  <2>4. back(u).run = u.run /\ back(u).retries = u.retries
    BY <1>2, <1>3
  <2> QED BY <2>2, <2>3, <2>4
<1>9. QueuedNotLost'
  BY <1>1, <1>2, <1>3, <1>7 DEF Safe, QueuedNotLost
<1> QED BY <1>4, <1>6, <1>8, <1>9 DEF Safe

\* The API's crash does not touch the broker.
LEMMA ApiCrashSafe ==
    ASSUME TypeOK, Safe, ApiCrash
    PROVE  Safe'
<1>1. UNCHANGED <<mode, tasks, started, kind, run>>
  BY DEF ApiCrash
<1>2. \A e \in Execs : stage'[e] = stage[e] \/ (stage[e] \in Live /\ stage'[e] = "crashed")
  BY DEF ApiCrash, TypeOK
<1> QED BY <1>1, <1>2, QuietStepSafe DEF Live, Working, Final

LEMMA StepSafe ==
    ASSUME TypeOK, Safe, [Next]_vars
    PROVE  Safe'
<1>1. ASSUME NEW r \in Runs, Submit(r) PROVE Safe'
  <2>1. CASE SubmitStream(r)
    <3>1. Launch(r, "stream") /\ tasks' = tasks /\ mode' = [mode EXCEPT ![r] = "stream"]
      BY <2>1 DEF SubmitStream
    <3>2. \A q \in Runs : mode'[q] = "queued" => mode[q] = "queued"
      BY <3>1 DEF TypeOK
    <3>3. "stream" \in Kinds /\ "stream" # "celery"
      BY DEF Kinds
    <3> QED BY <3>1, <3>2, <3>3, NobodyHoldsNext, LaunchSafe
  <2> QED BY <1>1, <2>1, SubmitSafe DEF Submit
<1>2. ASSUME NEW r \in Runs, StartBackground(r) PROVE Safe'
  <2>1. Launch(r, "background") /\ tasks' = tasks /\ mode' = mode
    BY <1>2 DEF StartBackground
  <2>2. "background" \in Kinds /\ "background" # "celery"
    BY DEF Kinds
  <2> QED BY <2>1, <2>2, NobodyHoldsNext, LaunchSafe
<1>3. ASSUME NEW t \in tasks, Deliver(t) PROVE Safe'
  <2> DEFINE u == [t EXCEPT !.holder = started + 1]
  <2>1. /\ t.holder = 0 /\ tasks' = (tasks \ {t}) \cup {u}
        /\ Launch(t.run, "celery") /\ mode' = mode
    BY <1>3 DEF Deliver
  <2>2. t \in Tasks /\ t.run \in Runs /\ "celery" \in Kinds
    BY DEF TypeOK, Tasks, Kinds
  <2>3. u.holder = started + 1 /\ u.run = t.run /\ u.retries = t.retries
    BY <2>2 DEF Tasks
  <2> HIDE DEF u
  <2>4. \A v \in tasks' : v.holder # 0 =>
          v \in tasks \/ (v.holder = started + 1 /\ v.run = t.run)
    BY <2>1, <2>3
  <2>5. \A v \in tasks : \E w \in tasks' :
          w.run = v.run /\ w.retries = v.retries /\ (v.holder # 0 => w = v)
    BY <2>1, <2>3
  <2>6. \A v, w \in tasks' : v.holder = started + 1 /\ w.holder = started + 1 => v = w
    BY <2>1, NobodyHoldsNext
  <2> QED BY <2>1, <2>2, <2>3, <2>4, <2>5, <2>6, LaunchSafe
<1>4. ASSUME NEW e \in Execs, Advance(e) PROVE Safe'
  <2>1. CASE Open(e) \/ Complete(e) \/ Raises(e) \/ SaveCommits(e) \/ SaveFails(e) \/ SaveSkipped(e)
    <3>1. /\ UNCHANGED <<mode, tasks, started, kind, run>> /\ stage[e] \in Live
          /\ \E to \in Live \ {"retried"} : stage' = [stage EXCEPT ![e] = to]
      BY <2>1 DEF Open, Complete, Raises, SaveCommits, SaveFails, SaveSkipped, Move, Live, Working
    <3>2. PICK to \in Live \ {"retried"} : \A f \in Execs : stage'[f] = IF f = e THEN to ELSE stage[f]
      BY <3>1 DEF TypeOK
    <3> QED BY <3>1, <3>2, QuietStepSafe DEF Live, Working, Final
  <2>2. CASE Return(e)
    <3>1. /\ UNCHANGED <<mode, started, kind, run>> /\ stage[e] \in Live /\ Ack(e)
          /\ \E to \in Final : stage' = [stage EXCEPT ![e] = to]
      BY <2>2 DEF Return, Move, Live, Working, Final
    <3> QED BY <3>1, AckStepSafe
  <2> QED BY <1>4, <2>1, <2>2, RetrySafe, SupersededSafe DEF Advance
<1>5. ASSUME NEW e \in Execs, RetryRefused(e) \/ HardTimeLimit(e) \/ ChildLost(e) PROVE Safe'
  <2>1. /\ UNCHANGED <<mode, started, kind, run>> /\ stage[e] \in Live /\ Ack(e)
        /\ \E to \in Final : stage' = [stage EXCEPT ![e] = to]
    BY <1>5 DEF RetryRefused, HardTimeLimit, ChildLost, Move, Live, Final
  <2> QED BY <2>1, AckStepSafe
<1>6. CASE UNCHANGED vars \/ \E s \in SessionIds : Expire(s)
  <2>1. UNCHANGED <<mode, tasks, started, kind, run, stage>>
    BY <1>6 DEF vars, Expire, execVars
  <2> QED BY <2>1, QuietStepSafe
<1> QED
  BY <1>1, <1>2, <1>3, <1>4, <1>5, <1>6, CrashSafe, ApiCrashSafe DEF Next

LEMMA InitSafe == Init => Safe
<1> SUFFICES ASSUME Init PROVE Safe
  OBVIOUS
<1>1. \A e \in Execs : stage[e] = "none"
  BY DEF Init
<1> QED BY <1>1
    DEF Init, Safe, HoldersRun, HeldOnce, UnderwayHeld, RetriesFollow, QueuedNotLost, Live, Working

--------------------------------------------------------------------------------
(***************************************************************************)
(* Executions do not share sessions: no id made by the API ever reaches the*)
(* session store, so get_or_create never resumes a session.                *)
(***************************************************************************)

LEMMA OpenMakesOwnSession ==
    ASSUME TypeOK, OwnSession, NEW e \in Execs, Open(e)
    PROVE  OwnSession'
<1>1. /\ stage' = [stage EXCEPT ![e] = "pipeline"] /\ run[e] \in Runs
      /\ sess' = [sess EXCEPT ![e] = e] /\ WriteState(e, "created")
  BY DEF Open, Move, OwnSession, TypeOK
<1>2. e \notin Runs
  BY RunLifecycleAssumption DEF RunLifecycleAssumption, Execs
<1>3. \A r \in Runs : cache'[r] = cache[r]
  BY <1>1, <1>2, WriteStateKept DEF SessionIds, Statuses
<1>4. \A f \in Execs \ {e} : sess'[f] = sess[f] /\ stage'[f] = stage[f]
  BY <1>1 DEF TypeOK
<1>5. sess'[e] = e
  BY <1>1 DEF TypeOK
<1> QED BY <1>3, <1>4, <1>5 DEF OwnSession

LEMMA StepOwnSession ==
    ASSUME TypeOK, OwnSession, [Next]_vars
    PROVE  OwnSession'
<1>1. ASSUME NEW r \in Runs, NEW k, Launch(r, k) PROVE OwnSession'
  <2>1. UNCHANGED <<cache, sess>> /\ \A e \in Execs : stage'[e] = "pipeline" => stage[e] = "pipeline"
    BY <1>1 DEF Launch, storeVars, TypeOK
  <2> QED BY <2>1 DEF OwnSession
<1>2. ASSUME NEW e \in Execs, NEW to, to # "pipeline", stage' = [stage EXCEPT ![e] = to],
             UNCHANGED <<cache, sess>>
      PROVE  OwnSession'
  <2>1. \A f \in Execs : stage'[f] = "pipeline" => stage[f] = "pipeline"
    BY <1>2 DEF TypeOK
  <2> QED BY <2>1, <1>2 DEF OwnSession
<1>3. ASSUME NEW r \in Runs, Submit(r) \/ StartBackground(r) PROVE OwnSession'
  <2>1. CASE SubmitStream(r) \/ StartBackground(r)
    BY <2>1, <1>1 DEF SubmitStream, StartBackground
  <2>2. CASE SubmitQueued(r) \/ SubmitBackground(r)
    BY <2>2 DEF SubmitQueued, SubmitBackground, execVars, storeVars, OwnSession
  <2> QED BY <1>3, <2>1, <2>2 DEF Submit
<1>4. ASSUME NEW t \in tasks, Deliver(t) PROVE OwnSession'
  <2>1. t.run \in Runs
    BY DEF TypeOK, Tasks
  <2> QED BY <1>4, <2>1, <1>1 DEF Deliver
<1>5. ASSUME NEW e \in Execs, Complete(e) PROVE OwnSession'
  <2>1. /\ stage[e] = "pipeline" /\ stage' = [stage EXCEPT ![e] = "saving"]
        /\ sess[e] = e /\ sess' = sess /\ WriteState(e, "completed")
    BY <1>5 DEF Complete, Move, OwnSession
  <2>2. e \notin Runs
    BY RunLifecycleAssumption DEF RunLifecycleAssumption, Execs
  <2>3. \A r \in Runs : cache'[r] = cache[r]
    BY <2>1, <2>2, WriteStateKept DEF SessionIds, Statuses
  <2>4. \A f \in Execs : stage'[f] = "pipeline" => stage[f] = "pipeline"
    BY <2>1 DEF TypeOK
  <2> QED BY <2>1, <2>3, <2>4 DEF OwnSession
<1>6. ASSUME NEW e \in Execs, Advance(e) PROVE OwnSession'
  <2>1. CASE Raises(e) \/ SaveCommits(e) \/ SaveFails(e) \/ SaveSkipped(e)
    <3>1. /\ UNCHANGED <<cache, sess>>
          /\ \E to \in {"raised", "returning"} : stage' = [stage EXCEPT ![e] = to]
      BY <2>1 DEF Raises, SaveCommits, SaveFails, SaveSkipped, Move, storeVars
    <3> QED BY <3>1, <1>2
  <2>2. CASE Return(e) \/ Retry(e) \/ AckRetried(e)
    <3>1. /\ UNCHANGED <<cache, sess>>
          /\ \E to \in {"done", "failed", "retried", "superseded"} : stage' = [stage EXCEPT ![e] = to]
      BY <2>2 DEF Return, Retry, AckRetried, Move, storeVars
    <3> QED BY <3>1, <1>2
  <2> QED BY <1>5, <1>6, <2>1, <2>2, OpenMakesOwnSession DEF Advance
<1>7. ASSUME NEW e \in Execs,
             RetryRefused(e) \/ HardTimeLimit(e) \/ ChildLost(e) \/ WorkerCrash(e)
      PROVE  OwnSession'
  <2>1. /\ UNCHANGED <<cache, sess>>
        /\ \E to \in {"killed", "crashed", "lost"} : stage' = [stage EXCEPT ![e] = to]
    BY <1>7 DEF RetryRefused, HardTimeLimit, ChildLost, WorkerCrash, Move, storeVars
  <2> QED BY <2>1, <1>2
<1>8. CASE ApiCrash
  <2>1. UNCHANGED <<cache, sess>> /\ \A e \in Execs : stage'[e] = "pipeline" => stage[e] = "pipeline"
    BY <1>8 DEF ApiCrash, storeVars, TypeOK
  <2> QED BY <2>1 DEF OwnSession
<1>9. ASSUME NEW s \in SessionIds, Expire(s) PROVE OwnSession'
  <2>1. UNCHANGED <<sess, stage>> /\ \A x \in SessionIds : cache[x] = "absent" => cache'[x] = "absent"
    BY <1>9 DEF Expire, execVars, TypeOK
  <2> QED BY <2>1 DEF OwnSession, SessionIds
<1>10. CASE UNCHANGED vars
  BY <1>10 DEF vars, OwnSession
<1> QED BY <1>3, <1>4, <1>6, <1>7, <1>8, <1>9, <1>10 DEF Next

LEMMA InvariantHolds == Spec => [](TypeOK /\ Safe /\ OwnSession)
<1>1. Init => TypeOK /\ Safe /\ OwnSession
  BY InitTypes, InitSafe DEF Init, OwnSession, SessionIds
<1>2. TypeOK /\ Safe /\ OwnSession /\ [Next]_vars => (TypeOK /\ Safe /\ OwnSession)'
  BY StepTypes, StepSafe, StepOwnSession DEF Safe
<1> QED BY <1>1, <1>2, PTL DEF Spec

\* The variables keep their types.
THEOREM TypeCorrect == Spec => []TypeOK
  BY InvariantHolds, PTL

\* A queued run is in the broker until an execution was the last one, for any
\* number of requests, retries and crashes: only a child process killed under
\* its worker, or a retry the broker refuses, loses it.
THEOREM QueuedRunsAreNotLost == Spec => []QueuedNotLost
<1>1. Safe => QueuedNotLost
  BY DEF Safe
<1> QED BY <1>1, InvariantHolds, PTL

\* Retries, redeliveries and ambiguous dispatches of one request never write
\* each other's session.
THEOREM SessionsAreNotShared == Spec => []SessionsNotShared
<1>1. TypeOK /\ OwnSession => SessionsNotShared
  BY RunLifecycleAssumption
  DEF OwnSession, SessionsNotShared, TypeOK, Execs, RunLifecycleAssumption
<1> QED BY <1>1, InvariantHolds, PTL

--------------------------------------------------------------------------------
(***************************************************************************)
(* The database runs ahead of the session store by no more than the faults *)
(* of Redis.                                                               *)
(***************************************************************************)

\* The store has the session as completed, or is known to have missed it.
Kept(s) == cache[s] = "completed" \/ s \in missed

\* An execution has no row before it opened its session, and its session is
\* marked when it comes to save.
Marked ==
    /\ \A e \in Execs : e > started => stage[e] = "none"
    /\ \A r \in Runs : row[r] = "absent"
    /\ \A e \in Execs : stage[e] \in {"none", "opening"} => row[e] = "absent"
    /\ \A e \in Execs : stage[e] = "saving" => sess[e] = e /\ Kept(e)
    /\ RowsAreCompletedSessions

\* The steps that write neither the sessions nor the rows, and let nobody save.
LEMMA UnsavedStepMarked ==
    ASSUME TypeOK, Marked, UNCHANGED <<sess, row>>,
           \A s \in SessionIds : Kept(s) => Kept(s)',
           \A e \in Execs : e > started' => stage'[e] = "none",
           \A e \in Execs : stage'[e] \in {"none", "opening"} => stage[e] \in {"none", "opening"},
           \A e \in Execs : stage'[e] = "saving" => stage[e] = "saving"
    PROVE  Marked'
<1>1. Execs \subseteq SessionIds
  BY DEF SessionIds
<1>2. RowsAreCompletedSessions'
  BY DEF Marked, RowsAreCompletedSessions, Kept
<1> QED BY <1>1, <1>2 DEF Marked

LEMMA LaunchMarked ==
    ASSUME TypeOK, Marked, NEW r \in Runs, NEW k \in Kinds, Launch(r, k)
    PROVE  Marked'
<1>1. /\ UNCHANGED <<sess, cache, missed, row>> /\ started' = started + 1
      /\ started \in Nat /\ started + 1 \in Execs /\ Execs \subseteq Nat
      /\ stage' = [stage EXCEPT ![started + 1] = "opening"]
  BY LaunchTypes, RunLifecycleAssumption
  DEF Launch, storeVars, TypeOK, Execs, RunLifecycleAssumption
<1>2. stage[started + 1] = "none"
  BY <1>1 DEF Marked
<1>3. \A e \in Execs : stage'[e] = IF e = started + 1 THEN "opening" ELSE stage[e]
  BY <1>1 DEF TypeOK
<1>4. \A e \in Execs : e > started' => e > started /\ e # started + 1
  BY <1>1
<1>5. \A e \in Execs : e > started' => stage'[e] = "none"
  BY <1>3, <1>4 DEF Marked
<1> QED BY <1>1, <1>2, <1>3, <1>5, UnsavedStepMarked DEF Kept

\* An execution goes from a stage it reached to another.
LEMMA MoveMarked ==
    ASSUME TypeOK, Marked, NEW e \in Execs, stage[e] # "none",
           NEW to, to \notin {"none", "opening", "saving"},
           stage' = [stage EXCEPT ![e] = to], UNCHANGED <<started, sess, cache, missed, row>>
    PROVE  Marked'
<1>1. \A f \in Execs : stage'[f] = IF f = e THEN to ELSE stage[f]
  BY DEF TypeOK
<1>2. ~(e > started)
  BY DEF Marked
<1> QED BY <1>1, <1>2, UnsavedStepMarked DEF Marked, Kept

LEMMA OpenMarked ==
    ASSUME TypeOK, OwnSession, Marked, NEW e \in Execs, Open(e)
    PROVE  Marked'
<1>1. /\ stage[e] = "opening" /\ stage' = [stage EXCEPT ![e] = "pipeline"] /\ run[e] \in Runs
      /\ sess' = [sess EXCEPT ![e] = e] /\ WriteState(e, "created")
      /\ UNCHANGED <<started, row>>
  BY DEF Open, Move, OwnSession, TypeOK
<1>2. row[e] = "absent" /\ ~(e > started)
  BY <1>1 DEF Marked
<1>3. \A f \in Execs : /\ stage'[f] = IF f = e THEN "pipeline" ELSE stage[f]
                       /\ sess'[f] = IF f = e THEN e ELSE sess[f]
  BY <1>1 DEF TypeOK
<1>4. Execs \subseteq SessionIds
  BY DEF SessionIds
<1>5. \A s \in SessionIds : s # e => (Kept(s) => Kept(s)')
  BY <1>1, <1>4, WriteStateKept DEF Kept, Statuses
<1>6. RowsAreCompletedSessions'
  BY <1>1, <1>2, <1>5 DEF Marked, RowsAreCompletedSessions, Kept
<1> QED BY <1>1, <1>2, <1>3, <1>4, <1>5, <1>6 DEF Marked

LEMMA CompleteMarked ==
    ASSUME TypeOK, OwnSession, Marked, NEW e \in Execs, Complete(e)
    PROVE  Marked'
<1>1. /\ stage[e] = "pipeline" /\ stage' = [stage EXCEPT ![e] = "saving"] /\ sess[e] = e
      /\ WriteState(e, "completed") /\ UNCHANGED <<started, sess, row>>
  BY DEF Complete, Move, OwnSession
<1>2. Execs \subseteq SessionIds
  BY DEF SessionIds
<1>3. \A f \in Execs : stage'[f] = IF f = e THEN "saving" ELSE stage[f]
  BY <1>1 DEF TypeOK
<1>4. Kept(e)' /\ \A s \in SessionIds : Kept(s) => Kept(s)'
  BY <1>1, <1>2, WriteStateKept DEF Kept, Statuses
<1>5. RowsAreCompletedSessions'
  BY <1>1, <1>4 DEF Marked, RowsAreCompletedSessions, Kept
<1> QED BY <1>1, <1>2, <1>3, <1>4, <1>5 DEF Marked

LEMMA CommitMarked ==
    ASSUME TypeOK, Marked, NEW e \in Execs, SaveCommits(e)
    PROVE  Marked'
<1>1. /\ stage[e] = "saving" /\ stage' = [stage EXCEPT ![e] = "returning"]
      /\ sess[e] = e /\ Kept(e) /\ UNCHANGED <<started, sess, cache, missed>>
      /\ row' = [row EXCEPT ![e] = IF @ = "absent" THEN "created" ELSE "completed"]
  BY DEF SaveCommits, Move, Marked
<1>2. e \notin Runs
  BY RunLifecycleAssumption DEF RunLifecycleAssumption, Execs
<1>3. \A f \in Execs : stage'[f] = IF f = e THEN "returning" ELSE stage[f]
  BY <1>1 DEF TypeOK
<1>4. \A s \in SessionIds : s # e => row'[s] = row[s]
  BY <1>1 DEF TypeOK
<1>5. Runs \subseteq SessionIds /\ Execs \subseteq SessionIds
  BY DEF SessionIds
<1>6. RowsAreCompletedSessions'
  BY <1>1, <1>4 DEF Marked, RowsAreCompletedSessions, Kept
<1> QED BY <1>1, <1>2, <1>3, <1>4, <1>5, <1>6 DEF Marked, Kept

LEMMA StepMarked ==
    ASSUME TypeOK, OwnSession, Marked, [Next]_vars
    PROVE  Marked'
<1>1. ASSUME NEW r \in Runs, Submit(r) \/ StartBackground(r) PROVE Marked'
  <2>1. CASE SubmitStream(r) \/ StartBackground(r)
    BY <2>1, LaunchMarked DEF SubmitStream, StartBackground, Kinds
  <2>2. CASE SubmitQueued(r) \/ SubmitBackground(r)
    BY <2>2, UnsavedStepMarked
    DEF SubmitQueued, SubmitBackground, execVars, storeVars, Marked, Kept
  <2> QED BY <1>1, <2>1, <2>2 DEF Submit
<1>2. ASSUME NEW t \in tasks, Deliver(t) PROVE Marked'
  <2>1. t.run \in Runs
    BY DEF TypeOK, Tasks
  <2> QED BY <1>2, <2>1, LaunchMarked DEF Deliver, Kinds
<1>3. ASSUME NEW e \in Execs, \/ Advance(e) \/ RetryRefused(e) \/ HardTimeLimit(e)
                               \/ ChildLost(e) \/ WorkerCrash(e)
      PROVE  Marked'
  <2>1. CASE \/ Raises(e) \/ SaveFails(e) \/ SaveSkipped(e) \/ Return(e) \/ Retry(e)
             \/ AckRetried(e) \/ RetryRefused(e) \/ HardTimeLimit(e) \/ ChildLost(e)
             \/ WorkerCrash(e)
    <3>1. UNCHANGED <<started, sess, cache, missed, row>>
      BY <2>1
      DEF Raises, SaveFails, SaveSkipped, Return, Retry, AckRetried, RetryRefused, HardTimeLimit,
          ChildLost, WorkerCrash, storeVars
    <3>2. /\ stage[e] # "none"
          /\ \E to \in {"raised", "returning", "retried"} \cup Ended :
                stage' = [stage EXCEPT ![e] = to]
      BY <2>1
      DEF Raises, SaveFails, SaveSkipped, Return, Retry, AckRetried, RetryRefused, HardTimeLimit,
          ChildLost, WorkerCrash, Move, Live, Working, Ended
    <3> QED BY <3>1, <3>2, MoveMarked DEF Ended
  <2> QED BY <1>3, <2>1, OpenMarked, CompleteMarked, CommitMarked DEF Advance
<1>4. CASE ApiCrash
  <2>1. UNCHANGED <<started, sess, cache, missed, row>>
    BY <1>4 DEF ApiCrash, storeVars
  <2>2. \A e \in Execs : stage'[e] = stage[e] \/ (stage[e] # "none" /\ stage'[e] = "crashed")
    BY <1>4 DEF ApiCrash, TypeOK, Live, Working
  <2> QED BY <2>1, <2>2, UnsavedStepMarked DEF Marked, Kept
<1>5. ASSUME NEW s \in SessionIds, Expire(s) PROVE Marked'
  <2>1. UNCHANGED <<started, stage, sess, row>>
    BY <1>5 DEF Expire, execVars
  <2>2. \A x \in SessionIds : Kept(x) => Kept(x)'
    BY <1>5 DEF Expire, Misses, Kept, TypeOK
  <2> QED BY <2>1, <2>2, UnsavedStepMarked DEF Marked
<1>6. CASE UNCHANGED vars
  BY <1>6, UnsavedStepMarked DEF vars, Marked, Kept
<1> QED BY <1>1, <1>2, <1>3, <1>4, <1>5, <1>6 DEF Next

\* A row in the database is the row of a session the store has as completed, or
\* of one a write of which Redis refused or dropped, whatever crashes, retries
\* and dispatch failures came between.
THEOREM RowsFollowTheStore == Spec => []RowsAreCompletedSessions
<1>1. Init => Marked
  BY DEF Init, Marked, RowsAreCompletedSessions, SessionIds
<1>2. TypeOK /\ OwnSession /\ Marked /\ [Next]_vars => Marked'
  BY StepMarked
<1>3. Marked => RowsAreCompletedSessions
  BY DEF Marked
<1> QED BY <1>1, <1>2, <1>3, InvariantHolds, PTL DEF Spec

--------------------------------------------------------------------------------
(***************************************************************************)
(* The executions of one request are bounded.  The argument is a budget: a *)
(* message is good for as many executions as it has retries left (and one  *)
(* more while nobody holds it), an execution spends one, a retry hands the *)
(* rest to the message it publishes, and only a crash refills, once, the   *)
(* message of the execution that died.                                     *)
(***************************************************************************)

\* The executions Celery made of a request.
Attempts(r) == {e \in ExecsOf(r) : kind[e] = "celery"}

\* How many executions a message is still good for.
Weight(t) ==
    IF t.holder = 0 THEN MaxRetries + 1 - t.retries
    ELSE IF stage[t.holder] = "retried" THEN 0
    ELSE MaxRetries - t.retries

Slots(t, n) == {t} \X (1..n)

\* The executions the messages of a request are still good for.
Pending(r) == UNION {Slots(t, Weight(t)) : t \in {u \in tasks : u.run = r}}

\* Every message in a worker's hands has an execution of its own, a Celery one,
\* and a request that was not made has neither messages nor executions.
Tidy ==
    /\ \A t, u \in tasks : t.holder # 0 /\ t.holder = u.holder => t = u
    /\ \A t \in tasks : t.holder # 0 => kind[t.holder] = "celery"
    /\ \A r \in Runs : mode[r] = "none" => Attempts(r) = {} /\ \A t \in tasks : t.run # r

WithinBudget ==
    \A r \in Runs :
        /\ IsFiniteSet(Pending(r))
        /\ Cardinality(Attempts(r)) + Cardinality(Pending(r)) <= (MaxRetries + 1) * (crashes + 1)

LEMMA SlotsCount ==
    ASSUME NEW t, NEW n \in Nat
    PROVE  IsFiniteSet(Slots(t, n)) /\ Cardinality(Slots(t, n)) = n
<1>1. IsFiniteSet({t}) /\ Cardinality({t}) = 1
  BY FS_Singleton
<1>2. IsFiniteSet(1..n) /\ Cardinality(1..n) = n
  BY FS_Interval
<1>3. /\ IsFiniteSet({t} \X (1..n))
      /\ Cardinality({t} \X (1..n)) = Cardinality({t}) * Cardinality(1..n)
  BY <1>1, <1>2, FS_Product
<1> QED BY <1>1, <1>2, <1>3 DEF Slots

LEMMA SlotsOrder ==
    ASSUME NEW t, NEW m \in Int, NEW n \in Int, m <= n
    PROVE  Slots(t, m) \subseteq Slots(t, n)
<1>1. 1..m \subseteq 1..n
  OBVIOUS
<1> QED BY <1>1 DEF Slots

LEMMA SlotsApart ==
    ASSUME NEW t, NEW u, t # u, NEW m, NEW n
    PROVE  Slots(t, m) \cap Slots(u, n) = {}
  BY DEF Slots

\* A set that gives up m slots and gains at most n others.
LEMMA SwapSlots ==
    ASSUME NEW P, IsFiniteSet(P), NEW Q, NEW t, NEW u, NEW m \in Nat, NEW n \in Nat,
           Slots(t, m) \subseteq P, Q \subseteq (P \ Slots(t, m)) \cup Slots(u, n)
    PROVE  IsFiniteSet(Q) /\ Cardinality(Q) <= Cardinality(P) - m + n
<1> DEFINE A == P \ Slots(t, m)  B == Slots(u, n)
<1>1. IsFiniteSet(B) /\ Cardinality(B) = n /\ Cardinality(Slots(t, m)) = m
  BY SlotsCount
<1>2. P \cap Slots(t, m) = Slots(t, m)
  OBVIOUS
<1>3. /\ IsFiniteSet(A)
      /\ Cardinality(A) = Cardinality(P) - Cardinality(P \cap Slots(t, m))
  BY FS_Difference
<1>4. /\ IsFiniteSet(A \cup B)
      /\ Cardinality(A \cup B) = Cardinality(A) + Cardinality(B) - Cardinality(A \cap B)
  BY <1>1, <1>3, FS_Union
<1>5. IsFiniteSet(A \cap B)
  BY <1>1, <1>3, FS_Intersection
<1>6. Cardinality(A \cap B) \in Nat /\ Cardinality(A) \in Nat /\ Cardinality(P) \in Nat
  BY <1>3, <1>5, FS_CardinalityType
<1>7. IsFiniteSet(Q) /\ Cardinality(Q) <= Cardinality(A \cup B) /\ Cardinality(Q) \in Nat
  BY <1>4, FS_Subset, FS_CardinalityType
<1>8. Cardinality(A) = Cardinality(P) - m
  BY <1>1, <1>2, <1>3
<1> HIDE DEF A, B
<1> QED BY <1>1, <1>4, <1>6, <1>7, <1>8

LEMMA WeightType ==
    ASSUME TypeOK, NEW t \in tasks
    PROVE  Weight(t) \in 0..(MaxRetries + 1)
<1>1. t.retries \in 0..MaxRetries /\ MaxRetries \in Nat
  BY RunLifecycleAssumption DEF TypeOK, Tasks, RunLifecycleAssumption
<1> QED BY <1>1 DEF Weight

LEMMA PendingSlots ==
    ASSUME NEW r, NEW t \in tasks, t.run = r
    PROVE  Slots(t, Weight(t)) \subseteq Pending(r)
  BY DEF Pending

LEMMA AttemptsFinite ==
    ASSUME TypeOK, NEW r
    PROVE  IsFiniteSet(Attempts(r)) /\ Cardinality(Attempts(r)) \in Nat
<1>1. started \in Int /\ Attempts(r) \subseteq 1..started
  BY DEF TypeOK, Attempts, ExecsOf
<1>2. IsFiniteSet(1..started)
  BY <1>1, FS_Interval
<1> QED BY <1>1, <1>2, FS_Subset, FS_CardinalityType

\* Starting an execution makes one attempt more, when Celery starts it.
LEMMA LaunchAttempts ==
    ASSUME TypeOK, NEW r \in Runs, NEW k \in Kinds, Launch(r, k), NEW q
    PROVE  Attempts(q)' = Attempts(q) \cup (IF k = "celery" /\ q = r THEN {started + 1} ELSE {})
<1>1. /\ started' = started + 1 /\ started \in Nat /\ started + 1 \in Execs
      /\ 1..started' = (1..started) \cup {started + 1}
      /\ \A e \in 1..started : e \in Execs /\ e # started + 1
  BY LaunchTypes, RunLifecycleAssumption DEF TypeOK, Execs, RunLifecycleAssumption
<1>2. kind'[started + 1] = k /\ run'[started + 1] = r
  BY <1>1 DEF Launch, TypeOK
<1>3. \A e \in 1..started : kind'[e] = kind[e] /\ run'[e] = run[e]
  BY <1>1 DEF Launch, TypeOK
<1> QED BY <1>1, <1>2, <1>3 DEF Attempts, ExecsOf

\* What a crash adds to the budget.
LEMMA CrashRefill ==
    ASSUME TypeOK
    PROVE  /\ (MaxRetries + 1) * (crashes + 1) \in Nat
           /\ (MaxRetries + 1) * (crashes + 1 + 1) = (MaxRetries + 1) * (crashes + 1) + (MaxRetries + 1)
<1>1. MaxRetries + 1 \in Nat /\ crashes + 1 \in Nat
  BY RunLifecycleAssumption DEF TypeOK, RunLifecycleAssumption
<1>2. \A a, b \in Nat : a * b \in Nat /\ a * (b + 1) = a * b + a
  OBVIOUS
<1> QED BY <1>1, <1>2

\* The steps that put no message into a worker's hands.
LEMMA TidyKept ==
    ASSUME TypeOK, HoldersRun, Tidy,
           \A t \in tasks' : t.holder # 0 => t \in tasks,
           \A e \in 1..started : kind'[e] = kind[e],
           \A r \in Runs : mode'[r] = "none" =>
               /\ mode[r] = "none" /\ Attempts(r)' = Attempts(r)
               /\ \A t \in tasks' : t.run = r => \E u \in tasks : u.run = r
    PROVE  Tidy'
<1>1. \A t, u \in tasks' : t.holder # 0 /\ t.holder = u.holder => t = u
  BY DEF Tidy
<1>2. \A t \in tasks' : t.holder # 0 => kind'[t.holder] = "celery"
  BY DEF Tidy, HoldersRun
<1>3. \A r \in Runs : mode'[r] = "none" => Attempts(r)' = {} /\ \A t \in tasks' : t.run # r
  BY DEF Tidy
<1> QED BY <1>1, <1>2, <1>3 DEF Tidy

\* The steps that publish nothing and leave every message as good as it was, or
\* less.
LEMMA BudgetKept ==
    ASSUME TypeOK, WithinBudget,
           \A t \in tasks' : t \in tasks /\ Weight(t)' <= Weight(t) /\ Weight(t)' \in Int,
           \A r \in Runs : Attempts(r)' = Attempts(r),
           crashes' \in {crashes, crashes + 1}
    PROVE  WithinBudget'
<1> SUFFICES ASSUME NEW r \in Runs
             PROVE  /\ IsFiniteSet(Pending(r)')
                    /\ Cardinality(Attempts(r)') + Cardinality(Pending(r)')
                          <= (MaxRetries + 1) * (crashes' + 1)
  BY DEF WithinBudget
<1>1. Pending(r)' \subseteq Pending(r)
  <2> SUFFICES ASSUME NEW t \in tasks', t.run = r, NEW x \in Slots(t, Weight(t)')
               PROVE  x \in Pending(r)
    BY DEF Pending
  <2>1. t \in tasks /\ Weight(t) \in Int /\ Weight(t)' \in Int /\ Weight(t)' <= Weight(t)
    BY WeightType
  <2>2. x \in Slots(t, Weight(t))
    BY <2>1, SlotsOrder
  <2> QED BY <2>1, <2>2, PendingSlots
<1>2. IsFiniteSet(Pending(r))
  BY DEF WithinBudget
<1>3. IsFiniteSet(Pending(r)') /\ Cardinality(Pending(r)') <= Cardinality(Pending(r))
  BY <1>1, <1>2, FS_Subset
<1>4. Cardinality(Pending(r)') \in Nat /\ Cardinality(Pending(r)) \in Nat
  BY <1>2, <1>3, FS_CardinalityType
<1>5. /\ (MaxRetries + 1) * (crashes + 1) \in Nat /\ (MaxRetries + 1) * (crashes' + 1) \in Nat
      /\ (MaxRetries + 1) * (crashes + 1) <= (MaxRetries + 1) * (crashes' + 1)
  <2>1. MaxRetries + 1 \in Nat
    BY RunLifecycleAssumption DEF RunLifecycleAssumption
  <2> QED BY <2>1, CrashRefill
<1>6. Cardinality(Attempts(r)) \in Nat
  BY AttemptsFinite
<1> QED BY <1>3, <1>4, <1>5, <1>6 DEF WithinBudget

\* A request's messages give up m slots, and one of them gains at most n.
LEMMA BudgetSwapped ==
    ASSUME TypeOK, WithinBudget, NEW r \in Runs, NEW t, NEW u, NEW m \in Nat, NEW n \in Nat,
           Slots(t, m) \subseteq Pending(r),
           Pending(r)' \subseteq (Pending(r) \ Slots(t, m)) \cup Slots(u, n)
    PROVE  /\ IsFiniteSet(Pending(r)')
           /\ Cardinality(Pending(r)') \in Nat
           /\ Cardinality(Attempts(r)) \in Nat
           /\ Cardinality(Attempts(r)) + Cardinality(Pending(r)') + m
                 <= (MaxRetries + 1) * (crashes + 1) + n
<1>1. IsFiniteSet(Pending(r)) /\ Cardinality(Pending(r)) \in Nat
  BY FS_CardinalityType DEF WithinBudget
<1>2. IsFiniteSet(Pending(r)') /\ Cardinality(Pending(r)') <= Cardinality(Pending(r)) - m + n
  BY <1>1, SwapSlots
<1>3. Cardinality(Pending(r)') \in Nat /\ Cardinality(Attempts(r)) \in Nat
  BY <1>2, FS_CardinalityType, AttemptsFinite
<1>4. (MaxRetries + 1) * (crashes + 1) \in Nat
  BY CrashRefill
<1>5. Cardinality(Attempts(r)) + Cardinality(Pending(r)) <= (MaxRetries + 1) * (crashes + 1)
  BY DEF WithinBudget
<1> QED BY <1>1, <1>2, <1>3, <1>4, <1>5

\* What the executions did before, as long as none starts.
LEMMA AttemptsKept ==
    ASSUME UNCHANGED <<started, kind, run>>
    PROVE  \A r : Attempts(r)' = Attempts(r)
  BY DEF Attempts, ExecsOf

Bounded == Tidy /\ WithinBudget

\* An execution that Celery did not make starts.
LEMMA LaunchBounded ==
    ASSUME TypeOK, HoldersRun, Bounded, NEW r \in Runs, NEW k \in Kinds \ {"celery"}, Launch(r, k),
           tasks' = tasks, \A q \in Runs : mode'[q] = "none" => mode[q] = "none"
    PROVE  Bounded'
<1>1. \A q : Attempts(q)' = Attempts(q)
  BY LaunchAttempts
<1>2. /\ started' = started + 1 /\ started \in Nat /\ started + 1 \in Execs
      /\ 1..started \subseteq Execs /\ crashes' = crashes
  BY LaunchTypes, RunLifecycleAssumption DEF TypeOK, Execs, RunLifecycleAssumption, Launch
<1>3. \A e \in 1..started : kind'[e] = kind[e] /\ stage'[e] = stage[e]
  BY <1>2 DEF Launch, TypeOK
<1>4. Tidy'
  BY <1>1, <1>3, TidyKept DEF Bounded
<1>5. ASSUME NEW t \in tasks PROVE Weight(t)' <= Weight(t) /\ Weight(t)' \in Int
  <2>1. Weight(t)' = Weight(t)
    BY <1>3 DEF Weight, HoldersRun
  <2> QED BY <2>1, WeightType
<1>6. WithinBudget'
  BY <1>1, <1>2, <1>5, BudgetKept DEF Bounded
<1> QED BY <1>4, <1>6 DEF Bounded

\* An execution goes on, or ends and has its message acknowledged; a stage that
\* is not `retried' stays that way while the message is there.
LEMMA QuietBounded ==
    ASSUME TypeOK, HoldersRun, Bounded, tasks' \subseteq tasks,
           \A t \in tasks' : t.holder # 0 /\ stage[t.holder] = "retried" => stage'[t.holder] = "retried",
           UNCHANGED <<mode, started, kind, run>>, crashes' \in {crashes, crashes + 1}
    PROVE  Bounded'
<1>1. \A q : Attempts(q)' = Attempts(q)
  BY AttemptsKept
<1>2. Tidy'
  BY <1>1, TidyKept DEF Bounded
<1>3. ASSUME NEW t \in tasks' PROVE Weight(t)' <= Weight(t) /\ Weight(t)' \in Int
  <2>1. t.retries \in 0..MaxRetries /\ MaxRetries \in Nat
    BY RunLifecycleAssumption DEF TypeOK, Tasks, RunLifecycleAssumption
  <2> QED BY <2>1 DEF Weight
<1>4. WithinBudget'
  BY <1>1, <1>3, BudgetKept DEF Bounded
<1> QED BY <1>2, <1>4 DEF Bounded

\* The API publishes the first message of a request: a full budget.
LEMMA SubmitBounded ==
    ASSUME TypeOK, HoldersRun, Bounded, NEW r \in Runs, SubmitQueued(r) \/ SubmitBackground(r)
    PROVE  Bounded'
<1> DEFINE new == [run |-> r, retries |-> 0, from |-> 0, holder |-> 0]
<1>1. /\ UNCHANGED <<started, kind, run, stage, crashes>> /\ mode[r] = "none"
      /\ tasks \subseteq tasks' /\ tasks' \subseteq tasks \cup {new}
  BY DEF SubmitQueued, SubmitBackground, execVars, Publish
<1>2. \A q \in Runs : mode'[q] = "none" => mode[q] = "none" /\ q # r
  BY DEF SubmitQueued, SubmitBackground, TypeOK
<1>3. new.holder = 0 /\ new.run = r /\ new.retries = 0
  OBVIOUS
<1> HIDE DEF new
<1>4. \A q : Attempts(q)' = Attempts(q)
  BY <1>1, AttemptsKept
<1>5. Tidy'
  BY <1>1, <1>2, <1>3, <1>4, TidyKept DEF Bounded
<1>6. MaxRetries \in Nat /\ Weight(new)' = MaxRetries + 1
  BY <1>3, RunLifecycleAssumption DEF Weight, RunLifecycleAssumption
<1>7. \A t \in tasks : Weight(t)' = Weight(t)
  BY <1>1 DEF Weight
<1>8. ASSUME NEW q \in Runs
      PROVE  /\ IsFiniteSet(Pending(q)')
             /\ Cardinality(Attempts(q)') + Cardinality(Pending(q)') <= (MaxRetries + 1) * (crashes' + 1)
  <2>1. CASE q # r
    <3>1. Pending(q)' = Pending(q)
      BY <1>1, <1>3, <1>7, <2>1 DEF Pending
    <3> QED BY <1>1, <1>4, <3>1 DEF Bounded, WithinBudget
  <2>2. CASE q = r
    <3>1. Attempts(r) = {} /\ Pending(r) = {}
      BY <1>1 DEF Bounded, Tidy, Pending
    <3>2. Pending(r)' \subseteq Slots(new, MaxRetries + 1)
      BY <1>1, <1>6, <1>7, <3>1 DEF Pending
    <3>3. /\ IsFiniteSet(Slots(new, MaxRetries + 1))
          /\ Cardinality(Slots(new, MaxRetries + 1)) = MaxRetries + 1
      BY <1>6, SlotsCount
    <3>4. /\ IsFiniteSet(Pending(r)') /\ Cardinality(Pending(r)') \in Nat
          /\ Cardinality(Pending(r)') <= MaxRetries + 1
      BY <3>2, <3>3, FS_Subset, FS_CardinalityType
    <3>5. Cardinality(Attempts(r)') = 0
      BY <1>4, <3>1, FS_EmptySet
    <3>6. MaxRetries + 1 <= (MaxRetries + 1) * (crashes + 1)
      <4>1. \A a, b \in Nat : a <= a * (b + 1)
        OBVIOUS
      <4> QED BY <1>6, <4>1 DEF TypeOK
    <3> QED BY <1>1, <1>6, <2>2, <3>4, <3>5, <3>6, CrashRefill
  <2> QED BY <2>1, <2>2
<1> QED BY <1>5, <1>8 DEF Bounded, WithinBudget

\* A worker takes a message: one of its slots becomes an attempt.
LEMMA DeliverBounded ==
    ASSUME TypeOK, HoldersRun, Bounded, NEW t \in tasks, Deliver(t)
    PROVE  Bounded'
<1> DEFINE r == t.run  m == MaxRetries + 1 - t.retries
<1>0. PICK u : u = [t EXCEPT !.holder = started + 1]
  OBVIOUS
<1>1. /\ t.holder = 0 /\ tasks' = (tasks \ {t}) \cup {u}
      /\ Launch(r, "celery") /\ mode' = mode /\ crashes' = crashes
  BY <1>0 DEF Deliver, Launch
<1>2. /\ t \in Tasks /\ r \in Runs /\ "celery" \in Kinds
      /\ t.retries \in 0..MaxRetries /\ MaxRetries \in Nat
  BY RunLifecycleAssumption DEF TypeOK, Tasks, Kinds, RunLifecycleAssumption
<1>3. u.holder = started + 1 /\ u.run = r /\ u.retries = t.retries
  BY <1>0, <1>2 DEF Tasks
<1>4. /\ started \in Nat /\ started + 1 \in Execs /\ started + 1 # 0 /\ started + 1 \notin 1..started
      /\ 1..started \subseteq Execs
  BY <1>1, <1>2, LaunchTypes, RunLifecycleAssumption DEF TypeOK, Execs, RunLifecycleAssumption
<1>5. \A e \in 1..started : kind'[e] = kind[e] /\ stage'[e] = stage[e]
  BY <1>1, <1>4 DEF Launch, TypeOK
<1>6. kind'[started + 1] = "celery" /\ stage'[started + 1] = "opening"
  BY <1>1, <1>4 DEF Launch, TypeOK
<1>7. \A q : Attempts(q)' = Attempts(q) \cup (IF q = r THEN {started + 1} ELSE {})
  BY <1>1, <1>2, LaunchAttempts
<1>8. Tidy'
  <2>1. \A v \in tasks' : v = u \/ (v \in tasks /\ v.holder # started + 1)
    BY <1>1, <1>4 DEF HoldersRun
  <2>2. \A v, w \in tasks' : v.holder # 0 /\ v.holder = w.holder => v = w
    BY <1>3, <2>1 DEF Bounded, Tidy
  <2>3. \A v \in tasks' : v.holder # 0 => kind'[v.holder] = "celery"
    BY <1>3, <1>5, <1>6, <2>1 DEF Bounded, Tidy, HoldersRun
  <2>4. mode[r] # "none"
    BY <1>2 DEF Bounded, Tidy
  <2>5. \A q \in Runs : mode'[q] = "none" => Attempts(q)' = {} /\ \A v \in tasks' : v.run # q
    BY <1>1, <1>3, <1>7, <2>1, <2>4 DEF Bounded, Tidy
  <2> QED BY <2>2, <2>3, <2>5 DEF Tidy
<1>9. \A v \in tasks : Weight(v)' = Weight(v)
  BY <1>5 DEF Weight, HoldersRun
<1>10. Weight(t) = m /\ Weight(u)' = m - 1 /\ m \in Nat /\ m - 1 \in Nat
  BY <1>1, <1>2, <1>3, <1>4, <1>6 DEF Weight
<1> HIDE DEF m
<1>11. u \notin tasks
  BY <1>3, <1>4 DEF HoldersRun
<1>12. ASSUME NEW q \in Runs
       PROVE  /\ IsFiniteSet(Pending(q)')
              /\ Cardinality(Attempts(q)') + Cardinality(Pending(q)') <= (MaxRetries + 1) * (crashes' + 1)
  <2>1. CASE q # r
    <3>1. Pending(q)' = Pending(q)
      BY <1>1, <1>3, <1>9, <2>1 DEF Pending
    <3>2. Attempts(q)' = Attempts(q)
      BY <1>7, <2>1
    <3> QED BY <1>1, <3>1, <3>2 DEF Bounded, WithinBudget
  <2>2. CASE q = r
    <3>1. Slots(t, m) \subseteq Pending(r)
      BY <1>10, PendingSlots
    <3>2. Pending(r)' \subseteq (Pending(r) \ Slots(t, m)) \cup Slots(u, m - 1)
      <4> SUFFICES ASSUME NEW v \in tasks', v.run = r, NEW x \in Slots(v, Weight(v)')
                   PROVE  x \in Slots(u, m - 1) \/ (x \in Pending(r) /\ x \notin Slots(t, m))
        BY DEF Pending
      <4>1. CASE v = u
        BY <1>10, <4>1
      <4>2. CASE v # u
        <5>1. v \in tasks /\ v # t
          BY <1>1, <4>2
        <5>2. x \in Slots(v, Weight(v))
          BY <1>9, <5>1
        <5> QED BY <5>1, <5>2, PendingSlots, SlotsApart
      <4> QED BY <4>1, <4>2
    <3>3. /\ IsFiniteSet(Pending(r)') /\ Cardinality(Pending(r)') \in Nat
          /\ Cardinality(Attempts(r)) \in Nat
          /\ Cardinality(Attempts(r)) + Cardinality(Pending(r)') + m
                <= (MaxRetries + 1) * (crashes + 1) + (m - 1)
      BY <1>2, <1>10, <3>1, <3>2, BudgetSwapped DEF Bounded
    <3>4. /\ Cardinality(Attempts(r)') \in Nat
          /\ Cardinality(Attempts(r)') <= Cardinality(Attempts(r)) + 1
      <4>1. IsFiniteSet(Attempts(r)) /\ Attempts(r)' = Attempts(r) \cup {started + 1}
        BY <1>7, AttemptsFinite
      <4>2. Cardinality(Attempts(r) \cup {started + 1}) \in {Cardinality(Attempts(r)), Cardinality(Attempts(r)) + 1}
        BY <4>1, FS_AddElement
      <4> QED BY <3>3, <4>1, <4>2
    <3>5. (MaxRetries + 1) * (crashes + 1) \in Nat
      BY CrashRefill
    <3> QED BY <1>1, <1>10, <2>2, <3>3, <3>4, <3>5
  <2> QED BY <2>1, <2>2
<1> QED BY <1>8, <1>12 DEF Bounded, WithinBudget

\* A retry hands what is left of its message to the message it publishes.
LEMMA RetryBounded ==
    ASSUME TypeOK, Safe, Bounded, NEW e \in Execs, Retry(e)
    PROVE  Bounded'
<1>0. PICK t, new :
        t = TaskOf(e) /\ new = [run |-> t.run, retries |-> t.retries + 1, from |-> e, holder |-> 0]
  OBVIOUS
<1> DEFINE r == t.run  m == MaxRetries - t.retries
<1>1. /\ stage[e] = "raised" /\ stage' = [stage EXCEPT ![e] = "retried"]
      /\ tasks' = tasks \cup {new} /\ kind[e] = "celery" /\ ~(t.retries >= MaxRetries)
      /\ UNCHANGED <<mode, started, kind, run, crashes>>
  BY <1>0 DEF Retry, Move, OutOfRetries
<1>2. t \in tasks /\ t.holder = e
  BY <1>0, <1>1, TaskOfExecution DEF Safe, Live
<1>3. /\ t.retries \in 0..MaxRetries /\ MaxRetries \in Nat /\ r \in Runs /\ e # 0
  BY <1>2, RunLifecycleAssumption DEF TypeOK, Tasks, Execs, RunLifecycleAssumption
<1>4. new.holder = 0 /\ new.run = r /\ new.retries = t.retries + 1
  BY <1>0
<1>5. \A q : Attempts(q)' = Attempts(q)
  BY <1>1, AttemptsKept
<1>6. Tidy'
  BY <1>1, <1>2, <1>4, <1>5, TidyKept DEF Bounded, Safe
<1>7. \A f \in Execs : stage'[f] = IF f = e THEN "retried" ELSE stage[f]
  BY <1>1 DEF TypeOK
<1>8. \A v \in tasks : v.holder # 0 => v.holder \in Execs /\ (v # t => v.holder # e)
  <2>1. 1..started \subseteq Execs
    BY RunLifecycleAssumption DEF TypeOK, Execs, RunLifecycleAssumption
  <2> QED BY <1>2, <2>1 DEF Safe, HoldersRun, Bounded, Tidy
<1>9. \A v \in tasks : v # t => Weight(v)' = Weight(v)
  BY <1>7, <1>8 DEF Weight
<1>10. Weight(t) = m /\ Weight(t)' = 0 /\ Weight(new)' = m /\ m \in Nat
  BY <1>1, <1>2, <1>3, <1>4, <1>7 DEF Weight
<1> HIDE DEF m
<1>11. ASSUME NEW q \in Runs
       PROVE  /\ IsFiniteSet(Pending(q)')
              /\ Cardinality(Attempts(q)') + Cardinality(Pending(q)') <= (MaxRetries + 1) * (crashes' + 1)
  <2>1. CASE q # r
    <3>1. Pending(q)' = Pending(q)
      BY <1>1, <1>2, <1>4, <1>9, <2>1 DEF Pending
    <3> QED BY <1>1, <1>5, <3>1 DEF Bounded, WithinBudget
  <2>2. CASE q = r
    <3>1. Slots(t, m) \subseteq Pending(r)
      BY <1>2, <1>10, PendingSlots
    <3>2. Pending(r)' \subseteq (Pending(r) \ Slots(t, m)) \cup Slots(new, m)
      <4> SUFFICES ASSUME NEW v \in tasks', v.run = r, NEW x \in Slots(v, Weight(v)')
                   PROVE  x \in Slots(new, m) \/ (x \in Pending(r) /\ x \notin Slots(t, m))
        BY DEF Pending
      <4>1. CASE v = new
        BY <1>10, <4>1
      <4>2. CASE v = t
        <5>1. Slots(t, 0) = {}
          BY DEF Slots
        <5> QED BY <1>10, <4>2, <5>1
      <4>3. CASE v # new /\ v # t
        <5>1. v \in tasks /\ x \in Slots(v, Weight(v))
          BY <1>1, <1>9, <4>3
        <5> QED BY <4>3, <5>1, PendingSlots, SlotsApart
      <4> QED BY <4>1, <4>2, <4>3
    <3>3. /\ IsFiniteSet(Pending(r)') /\ Cardinality(Pending(r)') \in Nat
          /\ Cardinality(Attempts(r)) \in Nat
          /\ Cardinality(Attempts(r)) + Cardinality(Pending(r)') + m
                <= (MaxRetries + 1) * (crashes + 1) + m
      BY <1>3, <1>10, <3>1, <3>2, BudgetSwapped DEF Bounded
    <3>4. (MaxRetries + 1) * (crashes + 1) \in Nat
      BY CrashRefill
    <3> QED BY <1>1, <1>5, <1>10, <2>2, <3>3, <3>4
  <2> QED BY <2>1, <2>2
<1> QED BY <1>6, <1>11 DEF Bounded, WithinBudget

\* A crash gives one message back to the broker, at most as good as a new one.
LEMMA CrashBounded ==
    ASSUME TypeOK, HoldersRun, Bounded, NEW e \in Execs, WorkerCrash(e)
    PROVE  Bounded'
<1> DEFINE back(t) == IF t.holder = e THEN [t EXCEPT !.holder = 0] ELSE t
<1>1. /\ stage' = [stage EXCEPT ![e] = "crashed"] /\ crashes' = crashes + 1
      /\ tasks' = {back(t) : t \in tasks}
      /\ UNCHANGED <<mode, started, kind, run>>
  BY DEF WorkerCrash
<1>2. \A t \in Tasks : /\ back(t).run = t.run /\ back(t).retries = t.retries
                       /\ t.holder = e => back(t).holder = 0
                       /\ t.holder # e => back(t) = t
  BY DEF Tasks
<1>3. tasks \subseteq Tasks /\ e # 0
  BY RunLifecycleAssumption DEF TypeOK, Execs, RunLifecycleAssumption
<1> HIDE DEF back
<1>4. \A q : Attempts(q)' = Attempts(q)
  BY <1>1, AttemptsKept
<1>5. Tidy'
  <2>1. \A t \in tasks' : t.holder # 0 => t \in tasks
    BY <1>1, <1>2, <1>3
  <2>2. \A q \in Runs : \A t \in tasks' : t.run = q => \E u \in tasks : u.run = q
    BY <1>1, <1>2, <1>3
  <2> QED BY <1>1, <1>4, <2>1, <2>2, TidyKept DEF Bounded
<1>6. \A t \in tasks : t.holder # e => Weight(t)' = Weight(t)
  <2>1. \A f \in Execs : f # e => stage'[f] = stage[f]
    BY <1>1 DEF TypeOK
  <2>2. 1..started \subseteq Execs
    BY RunLifecycleAssumption DEF TypeOK, Execs, RunLifecycleAssumption
  <2> QED BY <2>1, <2>2 DEF Weight, HoldersRun
<1>7. \A t \in tasks : t.holder = e =>
        Weight(back(t))' <= MaxRetries + 1 /\ Weight(back(t))' \in Int
  <2>1. \A t \in tasks : t.retries \in 0..MaxRetries
    BY DEF TypeOK, Tasks
  <2>2. MaxRetries \in Nat
    BY RunLifecycleAssumption DEF RunLifecycleAssumption
  <2>3. ASSUME NEW t \in tasks, t.holder = e
        PROVE  Weight(back(t))' = MaxRetries + 1 - t.retries
    BY <2>3, <1>2, <1>3 DEF Weight
  <2> QED BY <2>1, <2>2, <2>3
<1>8. PICK u : \A t \in tasks : t.holder = e => back(t) = u
  <2>1. \A t, v \in tasks : t.holder = e /\ v.holder = e => t = v
    BY <1>3 DEF Bounded, Tidy
  <2> QED BY <2>1
<1>9. ASSUME NEW r \in Runs
      PROVE  /\ IsFiniteSet(Pending(r)')
             /\ Cardinality(Attempts(r)') + Cardinality(Pending(r)') <= (MaxRetries + 1) * (crashes' + 1)
  <2>1. Slots(u, 0) = {}
    BY DEF Slots
  <2>2. Pending(r)' \subseteq (Pending(r) \ Slots(u, 0)) \cup Slots(u, MaxRetries + 1)
    <3> SUFFICES ASSUME NEW v \in tasks', v.run = r, NEW x \in Slots(v, Weight(v)')
                 PROVE  x \in Pending(r) \/ x \in Slots(u, MaxRetries + 1)
      BY <2>1 DEF Pending
    <3>1. PICK t \in tasks : v = back(t)
      BY <1>1
    <3>2. CASE t.holder = e
      <4>1. v = u /\ Weight(v)' <= MaxRetries + 1 /\ Weight(v)' \in Int /\ MaxRetries + 1 \in Int
        BY <1>7, <1>8, <3>1, <3>2, RunLifecycleAssumption DEF RunLifecycleAssumption
      <4> QED BY <4>1, SlotsOrder
    <3>3. CASE t.holder # e
      <4>1. v = t /\ x \in Slots(t, Weight(t))
        BY <1>2, <1>3, <1>6, <3>1, <3>3
      <4> QED BY <4>1, PendingSlots
    <3> QED BY <3>2, <3>3
  <2>3. MaxRetries + 1 \in Nat /\ Slots(u, 0) \subseteq Pending(r)
    BY <2>1, RunLifecycleAssumption DEF RunLifecycleAssumption
  <2>4. /\ IsFiniteSet(Pending(r)') /\ Cardinality(Pending(r)') \in Nat
        /\ Cardinality(Attempts(r)) \in Nat
        /\ Cardinality(Attempts(r)) + Cardinality(Pending(r)') + 0
              <= (MaxRetries + 1) * (crashes + 1) + (MaxRetries + 1)
    BY <2>2, <2>3, BudgetSwapped DEF Bounded
  <2> QED BY <1>1, <1>4, <2>3, <2>4, CrashRefill
<1> QED BY <1>5, <1>9 DEF Bounded, WithinBudget

LEMMA StepBounded ==
    ASSUME TypeOK, Safe, Bounded, [Next]_vars
    PROVE  Bounded'
<1>1. HoldersRun
  BY DEF Safe
<1>2. 1..started \subseteq Execs
  BY RunLifecycleAssumption DEF TypeOK, Execs, RunLifecycleAssumption
<1>3. ASSUME NEW r \in Runs, Submit(r) \/ StartBackground(r) PROVE Bounded'
  <2>1. CASE SubmitStream(r)
    <3>1. Launch(r, "stream") /\ tasks' = tasks /\ "stream" \in Kinds \ {"celery"}
      BY <2>1 DEF SubmitStream, Kinds
    <3>2. \A q \in Runs : mode'[q] = "none" => mode[q] = "none"
      BY <2>1 DEF SubmitStream, TypeOK
    <3> QED BY <1>1, <3>1, <3>2, LaunchBounded
  <2>2. CASE StartBackground(r)
    BY <1>1, <2>2, LaunchBounded DEF StartBackground, Kinds
  <2> QED BY <1>1, <1>3, <2>1, <2>2, SubmitBounded DEF Submit
<1>4. ASSUME NEW e \in Execs, \/ Advance(e) \/ RetryRefused(e) \/ HardTimeLimit(e)
                               \/ ChildLost(e)
      PROVE  Bounded'
  <2>1. CASE Open(e) \/ Complete(e) \/ Raises(e) \/ SaveCommits(e) \/ SaveFails(e) \/ SaveSkipped(e)
    <3>1. /\ UNCHANGED <<mode, tasks, started, kind, run, crashes>> /\ stage[e] # "retried"
          /\ \E to \in Live : stage' = [stage EXCEPT ![e] = to]
      BY <2>1 DEF Open, Complete, Raises, SaveCommits, SaveFails, SaveSkipped, Move, Live, Working
    <3>2. \A f \in Execs : stage[f] = "retried" => stage'[f] = "retried"
      BY <3>1 DEF TypeOK
    <3> QED BY <1>1, <1>2, <3>1, <3>2, QuietBounded DEF HoldersRun
  <2>2. CASE Return(e) \/ AckRetried(e) \/ RetryRefused(e) \/ HardTimeLimit(e) \/ ChildLost(e)
    <3>1. /\ UNCHANGED <<mode, started, kind, run>> /\ crashes' \in {crashes, crashes + 1} /\ Ack(e)
          /\ \E to \in Ended : stage' = [stage EXCEPT ![e] = to]
      BY <2>2 DEF Return, AckRetried, RetryRefused, HardTimeLimit, ChildLost, Move, Ended
    <3>2. tasks' \subseteq tasks /\ \A t \in tasks' : t.holder # e
      BY <3>1 DEF Ack
    <3>3. \A f \in Execs : f # e => stage'[f] = stage[f]
      BY <3>1 DEF TypeOK
    <3>4. \A t \in tasks' : t.holder # 0 => stage'[t.holder] = stage[t.holder]
      BY <1>1, <1>2, <3>2, <3>3 DEF HoldersRun
    <3> QED BY <1>1, <3>1, <3>2, <3>4, QuietBounded
  <2> QED BY <1>4, <2>1, <2>2, RetryBounded DEF Advance
<1>5. CASE ApiCrash
  <2>1. UNCHANGED <<mode, tasks, started, kind, run>> /\ crashes' = crashes + 1
    BY <1>5 DEF ApiCrash
  <2>2. \A f \in Execs : kind[f] = "celery" => stage'[f] = stage[f]
    BY <1>5 DEF ApiCrash, TypeOK
  <2>3. \A t \in tasks : t.holder # 0 => stage'[t.holder] = stage[t.holder]
    BY <1>1, <1>2, <2>2 DEF HoldersRun, Bounded, Tidy
  <2> QED BY <1>1, <2>1, <2>3, QuietBounded
<1>6. CASE UNCHANGED vars \/ \E s \in SessionIds : Expire(s)
  <2>1. UNCHANGED <<mode, tasks, started, kind, run, stage, crashes>>
    BY <1>6 DEF vars, Expire, execVars
  <2> QED BY <1>1, <2>1, QuietBounded
<1> QED BY <1>1, <1>3, <1>4, <1>5, <1>6, DeliverBounded, CrashBounded DEF Next

\* However retries, redeliveries and crashes follow each other, one request is
\* executed by Celery at most 1 + max_retries times per crash, and once that
\* often without any.
THEOREM AttemptsStayBounded == Spec => []AttemptsBounded
<1>1. Init => Bounded
  <2> SUFFICES ASSUME Init PROVE Bounded
    OBVIOUS
  <2>1. \A r : Attempts(r) = {} /\ Pending(r) = {}
    BY DEF Init, Attempts, ExecsOf, Pending
  <2>2. Cardinality({}) = 0 /\ IsFiniteSet({})
    BY FS_EmptySet
  <2>3. (MaxRetries + 1) * (crashes + 1) \in Nat
    BY InitTypes, CrashRefill
  <2>4. Tidy
    BY <2>1 DEF Init, Tidy
  <2> QED BY <2>1, <2>2, <2>3, <2>4 DEF Bounded, WithinBudget
<1>2. TypeOK /\ Safe /\ Bounded /\ [Next]_vars => Bounded'
  BY StepBounded
<1>3. TypeOK /\ Bounded => AttemptsBounded
  <2> SUFFICES ASSUME TypeOK, Bounded, NEW r \in Runs
               PROVE  Cardinality(Attempts(r)) <= (MaxRetries + 1) * (crashes + 1)
    BY DEF AttemptsBounded, Attempts
  <2>1. /\ IsFiniteSet(Pending(r))
        /\ Cardinality(Attempts(r)) + Cardinality(Pending(r)) <= (MaxRetries + 1) * (crashes + 1)
    BY DEF Bounded, WithinBudget
  <2>2. Cardinality(Pending(r)) \in Nat /\ Cardinality(Attempts(r)) \in Nat
    BY <2>1, FS_CardinalityType, AttemptsFinite
  <2> QED BY <2>1, <2>2, CrashRefill
<1> QED BY <1>1, <1>2, <1>3, InvariantHolds, PTL DEF Spec

================================================================================
