SPECIFICATION FSpec
CONSTANTS
    ESP32 = ESP32
    RaspberryPi = RaspberryPi
    Device = {ESP32, RaspberryPi}
    NoDevice = NoDevice
    ChunkId <- MCChunkId
    ChunkTotal = {2}
    MessageLength = {100, 250, 400}
    PAYLOAD_BUFFER_SIZE = 300
    ENTRY_MAX_SIZE = 247
    Packet <- MCPacket
    NoPacket = NoPacket
    MaxChunk = 1
    FIFO_MAX_ELEMENT_COUNT = 2
    HeapBlocks = 2
INVARIANTS
    FTypeOK
    DeliverySound
PROPERTIES
    ForwardingIsDelivery
CHECK_DEADLOCK FALSE
