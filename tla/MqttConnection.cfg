SPECIFICATION FairSpec
CONSTANTS
    MESSAGE_BUFFER_SIZE = 256
    HeapTrees = 3
    Packaged = {"rpi", "esp32"}
    MaxFaults = 1
INVARIANTS
    MTypeOK
    MqttBitsKept
    UpdateWasAnnounced
PROPERTIES
    Recovers
