\* What must happen in the end, under fair threads.
SPECIFICATION FairSpec
CONSTANTS
    Clients = {c1, c2}
    Threads = {t1, t2}
    Calls = {k1, k2}
    Registered = {k1, k2}
    None = None
    BacklogMax = 1
    RestartMax = 0
PROPERTIES
    SlotReleased
    MutexReleased
    HandshakeAnswered
\* No client is left, or the server is down for good: the system has stopped.
CHECK_DEADLOCK FALSE
