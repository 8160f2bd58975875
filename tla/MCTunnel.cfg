SPECIFICATION FairSpec
CONSTANTS
    wire_size = 1
    tx_buffer_count = 2
    tx_mtu = 2
    rx_buffer_count = 4
    rx_buffer_size = 2
    rx_mtu = 1
    IOV_MAX = 1
    MaxPackets = 2
    IoErrors = FALSE
INVARIANT OnlyLargePacketsRejected
PROPERTY ImplementsChannel
CHECK_DEADLOCK FALSE
