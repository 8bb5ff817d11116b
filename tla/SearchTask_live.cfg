SPECIFICATION FairSpec
CONSTANTS
    Tasks = {t1, t2}
    Addrs = {a1}
    None = None
    SearchMax = 2
PROPERTIES
    FramesEnd
CHECK_DEADLOCK FALSE
