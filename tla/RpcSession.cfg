\* Two clients, two threads each, three calls of which one is unknown to the server.
SPECIFICATION Spec
CONSTANTS
    Clients = {c1, c2}
    Threads = {t1, t2}
    Calls = {k1, k2, k3}
    Registered = {k1, k2}
    None = None
    BacklogMax = 1
    RestartMax = 1
SYMMETRY Symmetry
INVARIANTS
    OneConnection
    RepliesMatch
    ParamsMatch
    AuthNotRepeated
PROPERTIES
    CallsAtMostOnce
\* No client is left, or the server is down for good: the system has stopped.
CHECK_DEADLOCK FALSE
