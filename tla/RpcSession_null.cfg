\* One client whose two threads share its tunnel.
SPECIFICATION Spec
CONSTANTS
    Clients = {c1}
    Threads = {t1, t2}
    Calls = {k1, k2}
    Registered = {k1, k2}
    None = None
    BacklogMax = 1
    RestartMax = 0
INVARIANTS
    NoNullTunnel
\* No client is left, or the server is down for good: the system has stopped.
CHECK_DEADLOCK FALSE
