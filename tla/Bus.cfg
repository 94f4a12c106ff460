SPECIFICATION MCSpec
CONSTANTS
    MAX_RX_PKTS = 2
    U8_RANGE = 256
    SUSPEND_TRIES = 1
    PKT_LIMIT = 3
    Faults = {"bus", "blocks", "alloc", "format"}
    MaxRx = 2
    UsbTroubles = {"control", "submit", "receive", "write", "late wait", "unset"}
    CHUNKS = 2
    FwTroubles = {"refused", "late_callback"}
INVARIANTS CountBounded TempBufAlive
     
PROPERTIES PacketsKeepMoving UsbLive FirmwareReturns
CHECK_DEADLOCK FALSE
