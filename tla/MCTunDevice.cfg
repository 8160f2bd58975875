SPECIFICATION FairSpec
CONSTANTS
    mtu = 2
    SeqModulus = 3
    MaxBytes = 3
    IoErrors = TRUE
INVARIANTS
    AnswerIsOurs
    SocketDrained
    DeviceConfigured
PROPERTIES
    StatsNeverGoBack
    CallsReturn
CHECK_DEADLOCK FALSE
