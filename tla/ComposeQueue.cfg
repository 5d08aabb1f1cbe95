\* The worker of docker-compose.yml, which consumes the queue "default" only.
CONSTANTS
    r1 = r1
    r2 = r2
    Runs = {r1}
    MaxRetries = 0
    TaskQueue = "celery"
    WorkerQueues = {"default"}
    MaxExecs = 1
    MaxFaults = 0
SPECIFICATION Spec
CHECK_DEADLOCK FALSE
PROPERTIES
    QueuedRunsExecuted
