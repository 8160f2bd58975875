SPECIFICATION Spec
CONSTANTS
    wire_size = 1
    tx_queue_length = 2
    rx_queue_length = 2
    rx_buffer_size = 2
    mtu = 1
    IOV_MAX = 1
    MaxPackets = 2
    MaxFrames = 1
    MaxTicks = 1
    IoErrors = TRUE
    monitor_mode = TRUE
    TimeoutMultishot = TRUE
    Wires <- MCWires
INVARIANT OwnershipShared
CHECK_DEADLOCK FALSE
