SPECIFICATION Spec
CONSTANTS
    Conn = {c1, c2}
    MaxEvents = 3
INVARIANTS
    QueueIsInterval
    SentInOrder
    NoLostWakeup
PROPERTIES
    ShutdownEnds
    EventsRelayed
    ImplementsFeed
\* After the join, or once the behaviour is undefined, nothing more happens.
CHECK_DEADLOCK FALSE
