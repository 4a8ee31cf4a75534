CONSTANTS
    Posters = {"p", "q"}
    Wm = "w"
    EVENT_QUEUE_SIZE = 3
    MaxInput = 1
SPECIFICATION Spec
INVARIANTS TypeOK NoMissedEvent
PROPERTIES FirstInFirstOut EventIsDelivered
