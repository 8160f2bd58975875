SPECIFICATION FairSpec
CONSTANTS
    wire_size = 2
    BufferCount = 4
    mtu = 2
    MaxPackets = 5
    IoErrors = TRUE
INVARIANTS
    CurrentIsOldest
    BufferOwnership
    ReadArmedOnce
    SendSerialized
    CoolDownDrains
    WireInOrder
    NoInternalError
PROPERTIES
    SendingGoesOn
CHECK_DEADLOCK FALSE
