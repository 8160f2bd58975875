SPECIFICATION FairSpec
CONSTANTS
    wire_size = 1
    tx_queue_length = 2
    rx_queue_length = 4
    rx_buffer_size = 2
    mtu = 1
    IOV_MAX = 1
    MaxPackets = 2
    MaxFrames = 1
    MaxTicks = 2
    IoErrors = FALSE
    monitor_mode = TRUE
    TimeoutMultishot = FALSE
    Wires <- MCWires
INVARIANT MonitorArmedOnce
PROPERTY BothDirectionsProgress
CHECK_DEADLOCK FALSE
