SPECIFICATION SSpec
CONSTANTS
    Gateway = g9160
    Device = {g9160}
    Image = {v1, v2}
    FactoryImage = v1
    ImageChunks = 2
    MaxChunk = 3
    ChunkId <- MCChunkId
    ChunkTotal = {0, 2, 3}
    MessageLength = {100, 250, 400}
    PAYLOAD_BUFFER_SIZE = 300
    ENTRY_MAX_SIZE = 247
    FIXED_CHUNK_SIZE = 60
    DataLength = 60
    SlotSize = 180
INVARIANTS
    STypeOK
    CountedIsStored
    UpgradeIsComplete
    FallbackIntact
PROPERTIES
    SelfUpdateIsTrial
CHECK_DEADLOCK FALSE
