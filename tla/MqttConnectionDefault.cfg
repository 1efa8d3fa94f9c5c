SPECIFICATION FairSpec
CONSTANTS
    MESSAGE_BUFFER_SIZE = 128
    HeapTrees = 3
    Packaged = {"rpi"}
    MaxFaults = 1
INVARIANTS
    SubscribedOnceConnected
