SPECIFICATION FairSpec
CONSTANTS
    Sizes = {0, 1, 2, 3}
    Limit = 2
    HeaderSize = 2
    Radix = 4
    BigEndian = FALSE
    StreamMax = 4
    FramesMax = 3
PROPERTIES
    FramesInOrder
    FramesDelivered
    RecvEnds
CHECK_DEADLOCK FALSE
