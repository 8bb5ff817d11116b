SPECIFICATION Spec
CONSTANTS
    Tasks = {t1, t2}
    Addrs = {a1, a2}
    None = None
    SearchMax = 2
INVARIANTS
    Complete
PROPERTIES
    ResultsInScope
CHECK_DEADLOCK FALSE
SYMMETRY Symmetry
