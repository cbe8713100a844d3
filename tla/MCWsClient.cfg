SPECIFICATION Spec
CONSTANTS
    Socket = {s1, s2, s3}
    NoSocket = NoSocket
    MaxCalls = 3
INVARIANTS
    ConnectingIsTransient
    JoinIsServed
PROPERTIES
    ReconnectsOrStranded
    CallsReturn
\* The user may rest with no listener running.
CHECK_DEADLOCK FALSE
