SPECIFICATION Spec
CONSTANTS
    c1 = c1
    c2 = c2
    u1 = u1
    s1 = s1
    u2 = u2
    p1 = p1
    p2 = p2
    p3 = p3
    None = None
    Clients = {c1, c2}
    Threads = {u1, s1, u2}
    Of <- MCOf
    UI <- MCUI
    Proxies = {p1, p2, p3}
    Owner <- MCOwner
    Lists = {p1}
    Shared = {p2}
    Addrs = {a1, a2}
    RestartMax = 1
INVARIANTS
    OwnObject
    NoLeakInSession
SYMMETRY Symmetry
CHECK_DEADLOCK FALSE
