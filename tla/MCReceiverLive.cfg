SPECIFICATION FairSpec
CONSTANTS
    wire_size = 2
    BufferCount = 4
    buffer_size = 2
    mtu = 1
    IOV_MAX = 2
    IoErrors = FALSE
    MaxFrames = 3
    Defects = {}
    Wires <- MCWires
PROPERTIES
    EveryFrameWritten
    ReceiveArmedAgain
CHECK_DEADLOCK FALSE
