SPECIFICATION FSpec
CONSTANTS
    ESP32 = ESP32
    Device = {ESP32}
    NoDevice = NoDevice
    ChunkId <- MCChunkId
    ChunkTotal = {2}
    MessageLength = {100, 250, 400}
    PAYLOAD_BUFFER_SIZE = 300
    ENTRY_MAX_SIZE = 247
    Packet <- MCPacket
    NoPacket = NoPacket
    MaxChunk = 3
    FIFO_MAX_ELEMENT_COUNT = 3
    HeapBlocks = 3
INVARIANTS
    CountedIsForwarded
CHECK_DEADLOCK FALSE
