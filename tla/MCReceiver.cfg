SPECIFICATION Spec
CONSTANTS
    wire_size = 2
    BufferCount = 2
    buffer_size = 4
    mtu = 2
    IOV_MAX = 2
    IoErrors = TRUE
    MaxFrames = 3
    Defects = {"magic", "size", "crc"}
    Wires <- MCWires
INVARIANTS
    TypeOK
    RefcountExact
    BufferOwnership
    RecvArmedOnce
    WriteSerialized
    WrittenInOrder
    NoSpuriousError
CHECK_DEADLOCK FALSE
