\* A queue of one: the sentinel meets a full queue.
CONSTANTS
    ObserverId = own
    EventIds = {own, fresh}
    MaxSize = 1
    MaxEvents = 2
SPECIFICATION Spec
CHECK_DEADLOCK FALSE
PROPERTIES
    CloseEndsStream
