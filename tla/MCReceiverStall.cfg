SPECIFICATION FairSpec
CONSTANTS
    wire_size = 1
    BufferCount = 4
    buffer_size = 1
    mtu = 2
    IOV_MAX = 2
    IoErrors = FALSE
    MaxFrames = 3
    Defects = {}
    Wires <- MCWires
PROPERTY ReceiveArmedAgain
CHECK_DEADLOCK FALSE
