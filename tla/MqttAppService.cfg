SPECIFICATION Spec
CONSTANTS
    Client = {c1, c2, c3, c4}
    MaxWork = 4
INVARIANTS NeverIdle ListenerIsLive SingleConnection
PROPERTY Reconnects
CHECK_DEADLOCK FALSE
