\* Two threads publish two events into a queue of one.
CONSTANTS
    t1 = t1
    t2 = t2
    Publishers = {t1, t2}
    ObserverId = "run"
    EventIds = {"run", "other"}
    MaxSize = 1
    MaxEvents = 2
    Types = {"crawl", "hit"}
    Counted = {"crawl"}
    Setups <- MCSetups
    HookWorkers = 1
    Changing = {"log", "webhook"}
    MaxChanges = 1
SPECIFICATION BusSpec
CHECK_DEADLOCK FALSE
INVARIANTS
    ReachesAllWhoStay
    CountsComplete
PROPERTIES
    ImplementsStream
    SentinelEndsStream
    BusSettles
