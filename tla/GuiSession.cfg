SPECIFICATION FairSpec
CONSTANTS
    Pids = {p1, p2}
    None = None
INVARIANTS
    SameProcess
    ObjectsTogether
PROPERTIES
    GoneClosed
