SPECIFICATION HSpec
CONSTANTS
    MaxOffered = 5
    Packet <- MCPacket
    NoPacket = NoPacket
    FIFO_MAX_ELEMENT_COUNT = 3
    HeapBlocks = 6
INVARIANTS
    OnlyOldestLost
PROPERTIES
    UplinkIsChannel
    DownlinkIsChannel
CHECK_DEADLOCK FALSE
