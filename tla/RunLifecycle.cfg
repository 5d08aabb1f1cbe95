\* One request, a crash of a worker or of the API at any step, and room for
\* every execution a retry, a redelivery and an ambiguous dispatch can make.
CONSTANTS
    r1 = r1
    r2 = r2
    Runs = {r1}
    MaxRetries = 1
    TaskQueue = "celery"
    WorkerQueues = {"celery"}
    MaxExecs = 5
    MaxFaults = 1
SPECIFICATION Spec
CHECK_DEADLOCK FALSE
INVARIANTS
    QueuedNotLost
    AttemptsBounded
    SessionsNotShared
    RowsAreCompletedSessions
PROPERTIES
    RunsSettle
