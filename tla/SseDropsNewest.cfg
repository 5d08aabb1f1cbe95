\* One session, so that every event is the observer's, and a queue of one.
CONSTANTS
    ObserverId = own
    EventIds = {own}
    MaxSize = 1
    MaxEvents = 2
SPECIFICATION Spec
CHECK_DEADLOCK FALSE
PROPERTIES
    NewestIsKept
