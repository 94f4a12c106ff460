SPECIFICATION Spec
CONSTANTS
    MAX_RX_PKTS = 2
    U8_RANGE = 256
    SUSPEND_TRIES = 1
    PKT_LIMIT = 2
    Faults = {}
PROPERTY SuspendExcludesRx
CHECK_DEADLOCK FALSE
