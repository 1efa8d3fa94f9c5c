SPECIFICATION TSpec
CONSTANTS
    Packet <- TrafficPacket
    NoPacket = NoPacket
    FIFO_MAX_ELEMENT_COUNT = 2
    HeapBlocks = 2
    MaxImages = 2
    MaxReports = 2
    ReportType <- MCReportType
INVARIANTS
    TrafficTypeOK
    OtherOrLateOpens
    ImagesInOrder
    ReportsInOrder
PROPERTY
    ThroughChannels
