SPECIFICATION FairSpec
CONSTANTS
    MAX_RX_PKTS = 2
    U8_RANGE = 256
    SUSPEND_TRIES = 1
    PKT_LIMIT = 2
    Faults = {}
PROPERTY DisconnectCompletes
CHECK_DEADLOCK FALSE
