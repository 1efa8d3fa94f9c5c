SPECIFICATION FairSpec
CONSTANTS
    Packet = {p1}
    NoPacket = NoPacket
    FIFO_MAX_ELEMENT_COUNT = 3
    HeapBlocks = 4
INVARIANTS
    TypeOK
    CountMatchesFifo
    AssertionHolds
    NothingLeaks
PROPERTIES
    Served
CHECK_DEADLOCK FALSE
