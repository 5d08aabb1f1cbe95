\* One request is enough: the id in the reply and the id of the row.
CONSTANTS
    r1 = r1
    r2 = r2
    Runs = {r1}
    MaxRetries = 0
    TaskQueue = "celery"
    WorkerQueues = {"celery"}
    MaxExecs = 1
    MaxFaults = 0
SPECIFICATION Spec
CHECK_DEADLOCK FALSE
INVARIANTS
    PollableById
