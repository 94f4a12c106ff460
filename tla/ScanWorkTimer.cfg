SPECIFICATION ScanSpec
CONSTANTS
    CHANNELS = 2
    SplitCallback = TRUE
INVARIANT TimerNotPending
CHECK_DEADLOCK FALSE
